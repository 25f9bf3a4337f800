-------------------------- MODULE StatusMonitorMC ----------------------------
(* Three threads on the monitor; the calls are those bin.tun/shadowsocks2.c *)
(* makes, plus a wait for the word to leave UP.                             *)
EXTENDS StatusMonitor, TLC

CONSTANTS t1, t2, t3

MCThreads == {t1, t2, t3}

MCCalls == {StatusInit, ChangeTo("UP"), ChangeFromTo("DOWN", "FAIL"),
            ChangeFromTo("UP", "DOWN"), WaitChangeFrom("DOWN"),
            WaitChangeFrom("UP")}

Symmetry == Permutations(MCThreads)
==============================================================================
