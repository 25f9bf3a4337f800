------------------------------ MODULE SsThread -------------------------------
(***************************************************************************)
(* bin.tun/shadowsocks2.c: the main thread starts the Shadowsocks server    *)
(* in a thread of its own, waits until it serves or has failed, and later   *)
(* stops it.  The two threads meet only in the status word (StatusMonitor)  *)
(* and in the SIGINT that main or the terminal sends.                       *)
(*                                                                          *)
(* loc[t] is the next statement of thread t outside status.c; it runs when  *)
(* t is not inside one of the calls of StatusMonitor (st[t] = "idle").      *)
(* The server itself, start_ss_local_server_with_callback, is external:     *)
(* it either returns -1 without calling back, or calls back once and serves *)
(* until its SIGINT watcher fires.                                          *)
(***************************************************************************)
EXTENDS StatusMonitor

CONSTANTS main, ss

ASSUME ThreadsAssumption == main # ss /\ Threads = {main, ss}

VARIABLES
  loc,      \* the next statement of each thread
  sigint,   \* SIGINT has reached the server's watcher
  life      \* how the process is doing

svars == <<mvars, loc, sigint, life>>

MainLocs == {"start_ss", "create", "wait", "switch", "session", "kill", "rest"}

SsLocs == {"none", "server", "serving", "served", "assert_up", "return",
           "returned"}

Lives == {"running", "exited", "killed", "abort_start", "abort_served",
          "abort_kill"}

SsTypeOK ==
  /\ MonitorTypeOK
  /\ loc \in [Threads -> MainLocs \cup SsLocs]
  /\ loc[main] \in MainLocs
  /\ loc[ss] \in SsLocs
  /\ sigint \in BOOLEAN
  /\ life \in Lives

SsInit ==
  /\ MonitorInit
  /\ loc = [t \in Threads |-> IF t = main THEN "start_ss" ELSE "none"]
  /\ sigint = FALSE
  /\ life = "running"

\* The process is there, and thread t is about to run the statement l.
At(t, l) == st[t] = "idle" /\ loc[t] = l

Goto(t, l) == loc' = [loc EXCEPT ![t] = l]

\* Thread t calls a function of status.c and will go on at l.
CallThen(t, c, l) ==
  /\ Begin(t, c)
  /\ Goto(t, l)
  /\ UNCHANGED <<sigint, life>>

\* The process dies, or leaves main(), for the given reason.
End(how) == life' = how /\ UNCHANGED <<mvars, loc, sigint>>

------------------------------------------------------------------------------
\* Mutant: the thread is created before status_init().
StartSsLateInit ==
  /\ At(main, "start_ss")
  /\ Begin(main, StatusInit)
  /\ loc' = [loc EXCEPT ![main] = "create", ![ss] = "server"]
  /\ UNCHANGED <<sigint, life>>

\* The main thread: start_ss().
StartSs == At(main, "start_ss") /\ CallThen(main, StatusInit, "create")

PthreadCreate ==
  /\ At(main, "create")
  /\ loc' = [loc EXCEPT ![main] = "wait", ![ss] = "server"]
  /\ UNCHANGED <<mvars, sigint, life>>

WaitForServer ==
  /\ At(main, "wait")
  /\ CallThen(main, WaitChangeFrom("DOWN"), "switch")

\* Mutant: any change of the word counts as success.
StartSsReturnsAlways ==
  /\ At(main, "switch")
  /\ Goto(main, "session")
  /\ UNCHANGED <<mvars, sigint, life>>

\* switch(status_wait_change_from(DOWN)), and main()'s assert(start_ss()).
StartSsReturns ==
  /\ At(main, "switch")
  /\ IF ret[main] = "UP"
       THEN Goto(main, "session") /\ UNCHANGED <<mvars, sigint, life>>
       ELSE End("abort_start")

\* Mutant: the signal goes out without the word being moved.
StopSsForgetsWord ==
  /\ At(main, "session")
  /\ Goto(main, "kill")
  /\ UNCHANGED <<mvars, sigint, life>>

\* The user presses Enter, main() takes the tunnel down (ClashTun) and calls
\* stop_ss(), which moves the word before it sends the signal.
StopSs ==
  /\ At(main, "session")
  /\ CallThen(main, ChangeFromTo("UP", "DOWN"), "kill")

\* assert(0==pthread_kill(thread,SIGINT)).  The watcher takes the signal while
\* the server runs; it is gone afterwards, and the default action ends the
\* process unless the library left the handler in place.  For a thread that
\* has returned and was never joined pthread_kill answers 0 or ESRCH.
PthreadKill ==
  /\ At(main, "kill")
  /\ \/ /\ loc[ss] \in {"server", "serving"}
        /\ sigint' = TRUE
        /\ Goto(main, "rest")
        /\ UNCHANGED <<mvars, life>>
     \/ /\ loc[ss] \in {"served", "assert_up", "return", "returned"}
        /\ Goto(main, "rest")
        /\ UNCHANGED <<mvars, sigint, life>>
     \/ /\ loc[ss] \in {"served", "assert_up", "return"}
        /\ End("killed")
     \/ /\ loc[ss] = "returned"
        /\ End("abort_kill")

\* Mutant: the thread is joined, though it sleeps in its last wait.
MainReturnsJoins ==
  /\ At(main, "rest")
  /\ loc[ss] = "returned"
  /\ End("exited")

\* main() restores the DNS files and returns without joining the thread.
MainReturns == At(main, "rest") /\ End("exited")

------------------------------------------------------------------------------
\* Mutant: the callback reports a status that does not exist.
CallbackUnknown ==
  /\ At(ss, "server")
  /\ CallThen(ss, ChangeTo("READY"), "serving")

\* The server thread: start_routine().
Callback ==
  /\ At(ss, "server")
  /\ CallThen(ss, ChangeTo("UP"), "serving")

ServerFails ==
  /\ At(ss, "server")
  /\ CallThen(ss, ChangeFromTo("DOWN", "FAIL"), "return")

\* The event loop ends when the watcher has seen SIGINT, and the watcher goes.
ServerStops ==
  /\ At(ss, "serving")
  /\ sigint
  /\ Goto(ss, "served")
  /\ UNCHANGED <<mvars, sigint, life>>

\* assert(UP==status_wait_change_from(DOWN)) after a served session.
ServedWaits ==
  /\ At(ss, "served")
  /\ CallThen(ss, WaitChangeFrom("DOWN"), "assert_up")

ServedAsserts ==
  /\ At(ss, "assert_up")
  /\ IF ret[ss] = "UP"
       THEN Goto(ss, "return") /\ UNCHANGED <<mvars, sigint, life>>
       ELSE End("abort_served")

StartRoutineReturns ==
  /\ At(ss, "return")
  /\ Goto(ss, "returned")
  /\ UNCHANGED <<mvars, sigint, life>>

------------------------------------------------------------------------------
\* Ctrl-C on the terminal, at any moment: it is the server's watcher that
\* takes it, or nobody.
TerminalSigint ==
  \/ /\ loc[ss] \in {"server", "serving"}
     /\ ~sigint
     /\ sigint' = TRUE
     /\ UNCHANGED <<mvars, loc, life>>
  \/ /\ loc[ss] # "serving"
     /\ End("killed")

\* A scheduled step of thread t inside status.c.
InStatus(t) == CallStep(t) /\ UNCHANGED <<loc, sigint, life>>

Spurious(t) == SpuriousWakeup(t) /\ UNCHANGED <<loc, sigint, life>>

\* The process has ended one way or the other: nothing more happens.
Ended == (failed \/ life # "running") /\ UNCHANGED svars

MainStep ==
  \/ StartSs \/ PthreadCreate \/ WaitForServer \/ StartSsReturns
  \/ PthreadKill \/ MainReturns
  \/ InStatus(main)

SsStep ==
  \/ ServerStops \/ ServedWaits \/ ServedAsserts \/ StartRoutineReturns
  \/ InStatus(ss)

Environment ==
  \/ StopSs \/ Callback \/ ServerFails \/ TerminalSigint
  \/ Spurious(main) \/ Spurious(ss)

Running == ~failed /\ life = "running"

SsNext ==
  \/ Running /\ (MainStep \/ SsStep \/ Environment)
  \/ Ended

\* Both threads are scheduled, and a thread that finds the mutex free again
\* and again (between another thread's spurious wakeups) gets it in the end.
\* Nothing makes the server answer or the user press Enter.
SsFairness ==
  /\ WF_svars(Running /\ MainStep)
  /\ WF_svars(Running /\ SsStep)
  /\ \A t \in Threads :
       SF_svars(Running /\ MutexLock(t) /\ UNCHANGED <<loc, sigint, life>>)

SsSpec == SsInit /\ [][SsNext]_svars /\ SsFairness

------------------------------------------------------------------------------
\* No assert() of status.c and no assert() on what it returned ever fails, in
\* any interleaving of the two threads, the callback and the signals.
StatusAssertsHold == ~failed /\ life # "abort_served"

\* The signal of a change is never lost on a sleeping thread: whoever sleeps
\* in pthread_cond_wait still has a reason to.  One pthread_cond_signal is
\* enough because the two threads never sleep at the same time.
NoLostWakeup ==
  /\ \A t \in Threads : st[t] = "waiting" => status = call[t].s0
  /\ \A t, u \in Waiters : t = u

\* What the threads have really done to the server, from where they are.
CameUp ==
  \/ loc[ss] = "serving" /\ st[ss] \in {"unlock", "idle"}
  \/ loc[ss] \in {"served", "assert_up"}
  \/ loc[ss] \in {"return", "returned"} /\ call[ss].op = "wait"

GaveUp ==
  /\ loc[ss] \in {"return", "returned"}
  /\ call[ss].op = "change_from_to"
  /\ st[ss] \in {"unlock", "idle"}

Stopped ==
  \/ loc[main] = "kill" /\ st[main] \in {"unlock", "idle"}
  \/ loc[main] = "rest"

\* The word tells the truth: UP from the callback until main stops the server,
\* FAIL after a failed start, DOWN otherwise; and main runs its session, and
\* takes the tunnel down, only on a server that called back, even when Ctrl-C
\* ended that server meanwhile.
WordTellsTruth ==
  /\ status = IF GaveUp THEN "FAIL"
              ELSE IF CameUp /\ ~Stopped THEN "UP" ELSE "DOWN"
  /\ loc[main] \in {"session", "kill", "rest"} => CameUp

\* stop_ss() and what follows it come to an end, whatever the server does.
StopTerminates == (loc[main] = "kill") ~> (life # "running")

\* shadowsocks2.c:42-43: a server that was "served and manually stopped" gets
\* UP from its wait; so the process never exits with it asleep in there.
ServedThreadNotLeftAsleep ==
  life = "exited" => ~(loc[ss] = "assert_up" /\ st[ss] = "waiting")

------------------------------------------------------------------------------
\* What became of the server is decided when it calls back or gives up.
Server ==
  CASE loc[ss] = "return" /\ call[ss].op = "change_from_to"   -> "failed"
    [] loc[ss] = "returned" /\ call[ss].op = "change_from_to" -> "failed"
    [] loc[ss] \in {"none", "server"}                         -> "starting"
    [] OTHER                                                  -> "up"

Answer ==
  CASE loc[main] \in {"session", "kill", "rest"} -> "yes"
    [] life = "abort_start"                      -> "no"
    [] OTHER                                     -> "none"

Service == INSTANCE SsService
             WITH server <- Server, answer <- Answer,
                  ended <- (life # "running")

\* start_ss() and stop_ss() implement the service of SsService: one answer,
\* the right one, and always an answer once the server has called back.
IsSsService == Service!Spec
==============================================================================
