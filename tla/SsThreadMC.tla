----------------------------- MODULE SsThreadMC ------------------------------
(* The two threads of shadowsocks2.c.                                       *)
EXTENDS SsThread

MCThreads == {main, ss}

MCCalls == {}
==============================================================================
