--------------------------- MODULE SsThreadProofs ----------------------------
(***************************************************************************)
(* Proofs about SsThread.  The invariant adds to the monitor's what each    *)
(* thread is calling at each of its statements (CallsMatch), what it knows  *)
(* from the answer it got (AnswersKnown), the truth of the word             *)
(* (WordTellsTruth) and the sleepers' reason to sleep (NoLostWakeup).       *)
(***************************************************************************)
EXTENDS SsThread, StatusMonitorProofs

\* The call each thread is in, or has made, when it stands at a statement.
CallsMatch ==
  /\ loc[main] \in {"start_ss", "wait", "session", "rest"} => st[main] = "idle"
  /\ loc[main] = "create" => call[main] = StatusInit
  /\ loc[main] = "switch" => call[main] = WaitChangeFrom("DOWN")
  /\ loc[main] = "kill" => call[main] = ChangeFromTo("UP", "DOWN")
  /\ loc[main] \in {"start_ss", "create"} <=> loc[ss] = "none"
  /\ loc[ss] \in {"none", "server", "served", "returned"} => st[ss] = "idle"
  /\ loc[ss] = "serving" => call[ss] = ChangeTo("UP")
  /\ loc[ss] = "assert_up" => call[ss] = WaitChangeFrom("DOWN")
  /\ loc[ss] \in {"return", "returned"} =>
       \/ call[ss] = ChangeFromTo("DOWN", "FAIL")
       \/ call[ss] = WaitChangeFrom("DOWN") /\ st[ss] = "idle"
  /\ \A t \in Threads : st[t] \in {"waiting", "relock"} => call[t].op = "wait"

\* What a thread has been told by status_wait_change_from.
AnswersKnown ==
  /\ loc[main] = "switch" /\ st[main] \in {"unlock", "idle"} =>
       \/ CameUp /\ ret[main] = "UP"
       \/ GaveUp /\ ret[main] = "FAIL"
  /\ loc[ss] = "assert_up" /\ st[ss] \in {"unlock", "idle"} => ret[ss] = "UP"

SsInv ==
  /\ MonitorInv
  /\ SsTypeOK
  /\ StatusAssertsHold
  /\ CallsMatch
  /\ WordTellsTruth
  /\ AnswersKnown
  /\ NoLostWakeup

USE DEF MainLocs, SsLocs, Lives, StatusInit, ChangeTo, ChangeFromTo,
        WaitChangeFrom

\* The initial state satisfies the invariant.
LEMMA SsInitInv == SsInit => SsInv
<1> SUFFICES ASSUME SsInit PROVE SsInv
  OBVIOUS
<1> USE ThreadsAssumption DEF SsInit
<1>1. MonitorInv
  BY MonitorInitInv
<1>2. SsTypeOK
  BY <1>1 DEF SsTypeOK, MonitorInv
<1>3. StatusAssertsHold /\ AnswersKnown
  BY DEF MonitorInit, StatusAssertsHold, AnswersKnown
<1>4. CallsMatch /\ NoLostWakeup
  BY DEF MonitorInit, CallsMatch, NoLostWakeup, Waiters
<1>5. WordTellsTruth
  BY DEF MonitorInit, WordTellsTruth, CameUp, GaveUp, Stopped
<1> QED
  BY <1>1, <1>2, <1>3, <1>4, <1>5 DEF SsInv

\* A thread outside status.c enters one of its functions.
LEMMA SsBeginInv ==
  ASSUME SsInv, StartSs \/ WaitForServer \/ StopSs \/ Callback
                \/ ServerFails \/ ServedWaits
  PROVE  SsInv'
<1> USE ThreadsAssumption
<1> USE DEF StartSs, WaitForServer, StopSs, Callback, ServerFails, ServedWaits,
            At, CallThen, Goto, Begin
<1>1. MonitorInv'
  <2>1. PICK t \in Threads, c \in Call : Begin(t, c)
    BY DEF Call, Ops, Status
  <2> QED
    BY <2>1, BeginInv DEF SsInv
<1>2. SsTypeOK'
  BY <1>1 DEF SsInv, SsTypeOK, MonitorInv
<1>3. StatusAssertsHold' /\ CallsMatch'
  BY DEF SsInv, SsTypeOK, MonitorTypeOK, StatusAssertsHold, CallsMatch
<1>4. WordTellsTruth'
  BY DEF SsInv, SsTypeOK, MonitorTypeOK, CallsMatch, WordTellsTruth, CameUp,
         GaveUp, Stopped
<1>5. AnswersKnown'
  BY DEF SsInv, SsTypeOK, MonitorTypeOK, CallsMatch, AnswersKnown, CameUp,
         GaveUp
<1>6. NoLostWakeup'
  BY DEF SsInv, SsTypeOK, MonitorTypeOK, NoLostWakeup, Waiters
<1> QED
  BY <1>1, <1>2, <1>3, <1>4, <1>5, <1>6 DEF SsInv

\* A step of a thread outside status.c that stays outside.
LEMMA SsOutsideInv ==
  ASSUME SsInv, PthreadCreate \/ StartSsReturns \/ PthreadKill \/ MainReturns
                \/ ServerStops \/ ServedAsserts \/ StartRoutineReturns
                \/ TerminalSigint \/ Ended
  PROVE  SsInv'
<1> USE ThreadsAssumption
<1> USE DEF PthreadCreate, StartSsReturns, PthreadKill, MainReturns,
            ServerStops, ServedAsserts, StartRoutineReturns, TerminalSigint,
            Ended, At, Goto, End, svars
<1>1. UNCHANGED mvars
  OBVIOUS
<1>2. MonitorInv'
  BY <1>1, MonitorStutterInv DEF SsInv
<1>3. SsTypeOK'
  BY <1>2 DEF SsInv, SsTypeOK, MonitorInv
<1>4. StatusAssertsHold' /\ CallsMatch'
  BY <1>1 DEF mvars, SsInv, SsTypeOK, MonitorTypeOK, StatusAssertsHold,
              CallsMatch, AnswersKnown
<1>5. WordTellsTruth'
  BY <1>1 DEF mvars, SsInv, SsTypeOK, MonitorTypeOK, CallsMatch, AnswersKnown,
              WordTellsTruth, CameUp, GaveUp, Stopped
<1>6. AnswersKnown'
  BY <1>1 DEF mvars, SsInv, SsTypeOK, MonitorTypeOK, CallsMatch, AnswersKnown,
              CameUp, GaveUp
<1>7. NoLostWakeup'
  BY <1>1 DEF mvars, SsInv, NoLostWakeup, Waiters
<1> QED
  BY <1>2, <1>3, <1>4, <1>5, <1>6, <1>7 DEF SsInv

\* One thread's step inside status.c, as the other thread and the word see it.
LEMMA SsInStatusInv ==
  ASSUME SsInv, Running, NEW t \in Threads, InStatus(t)
  PROVE  SsInv'
<1> USE ThreadsAssumption
<1>1. MonitorInv'
  BY CallStepInv DEF SsInv, InStatus
<1>2. SsTypeOK'
  BY <1>1 DEF SsInv, SsTypeOK, MonitorInv, InStatus
<1>3. ASSUME StatusAssertsHold', CallsMatch', WordTellsTruth', AnswersKnown',
             NoLostWakeup'
      PROVE  SsInv'
  BY <1>1, <1>2, <1>3 DEF SsInv
<1> USE DEF SsInv, SsTypeOK, MonitorInv, MonitorTypeOK, InStatus
<1>4. CASE MutexLock(t)
  <2>1. StatusAssertsHold' /\ CallsMatch'
    BY <1>4 DEF MutexLock, StatusAssertsHold, CallsMatch
  <2>2. WordTellsTruth' /\ AnswersKnown'
    BY <1>4 DEF MutexLock, CallsMatch, WordTellsTruth, AnswersKnown, CameUp,
                GaveUp, Stopped
  <2>3. NoLostWakeup'
    BY <1>4 DEF MutexLock, NoLostWakeup, Waiters
  <2> QED
    BY <1>3, <2>1, <2>2, <2>3
<1>5. CASE MutexTrylock(t)
  <2>1. t = main /\ loc[ss] = "none" /\ holder = {}
    BY <1>5 DEF MutexTrylock, CallsMatch, MutexExclusion, Inside
  <2>2. StatusAssertsHold' /\ CallsMatch'
    BY <1>5, <2>1 DEF MutexTrylock, StatusAssertsHold, CallsMatch
  <2>3. WordTellsTruth' /\ AnswersKnown'
    BY <1>5, <2>1 DEF MutexTrylock, CallsMatch, WordTellsTruth, AnswersKnown,
                      CameUp, GaveUp, Stopped
  <2>4. NoLostWakeup'
    BY <1>5, <2>1 DEF MutexTrylock, NoLostWakeup, Waiters
  <2> QED
    BY <1>3, <2>2, <2>3, <2>4
<1>6. CASE TestChange(t)
  <2>1. /\ call[t].op = "change_to" => status # call[t].s1
        /\ call[t].op = "change_from_to" =>
             status = call[t].s0 /\ call[t].s0 # call[t].s1
    BY <1>6 DEF TestChange, CallsMatch, WordTellsTruth, CameUp, GaveUp, Stopped
  <2>2. st' = [st EXCEPT ![t] = "act"] /\ failed' = FALSE
    BY <1>6, <2>1 DEF TestChange
  <2>3. StatusAssertsHold' /\ CallsMatch'
    BY <1>6, <2>2 DEF TestChange, StatusAssertsHold, CallsMatch
  <2>4. WordTellsTruth' /\ AnswersKnown'
    BY <1>6, <2>2 DEF TestChange, CallsMatch, WordTellsTruth, AnswersKnown,
                      CameUp, GaveUp, Stopped
  <2>5. NoLostWakeup'
    BY <1>6, <2>2 DEF TestChange, NoLostWakeup, Waiters
  <2> QED
    BY <1>3, <2>3, <2>4, <2>5
<1>7. CASE TestWait(t)
  <2>1. StatusAssertsHold' /\ CallsMatch'
    BY <1>7 DEF TestWait, StatusAssertsHold, CallsMatch
  <2>2. WordTellsTruth' /\ AnswersKnown'
    BY <1>7 DEF TestWait, CallsMatch, WordTellsTruth, AnswersKnown, CameUp,
                GaveUp, Stopped
  <2>3. NoLostWakeup'
    BY <1>7 DEF TestWait, NoLostWakeup, Waiters, CallsMatch, WordTellsTruth,
                CameUp, GaveUp, Stopped
  <2> QED
    BY <1>3, <2>1, <2>2, <2>3
<1>8. CASE ActChange(t)
  <2>1. StatusAssertsHold' /\ CallsMatch'
    BY <1>8 DEF ActChange, SignalAndUnlock, Waiters, StatusAssertsHold,
                CallsMatch
  <2>2. WordTellsTruth'
    BY <1>8 DEF ActChange, SignalAndUnlock, Waiters, CallsMatch,
                WordTellsTruth, CameUp, GaveUp, Stopped
  <2>3. AnswersKnown'
    BY <1>8 DEF ActChange, SignalAndUnlock, Waiters, CallsMatch,
                WordTellsTruth, AnswersKnown, CameUp, GaveUp, Stopped
  <2>4. NoLostWakeup'
    BY <1>8 DEF ActChange, SignalAndUnlock, Waiters, NoLostWakeup
  <2> QED
    BY <1>3, <2>1, <2>2, <2>3, <2>4
<1>9. CASE ActWait(t)
  <2>1. status # call[t].s0
    BY <1>9 DEF ActWait, TestStillTrue
  <2>2. StatusAssertsHold' /\ CallsMatch'
    BY <1>9, <2>1 DEF ActWait, StatusAssertsHold, CallsMatch
  <2>3. WordTellsTruth' /\ AnswersKnown'
    BY <1>9, <2>1 DEF ActWait, CallsMatch, WordTellsTruth, AnswersKnown,
                      CameUp, GaveUp, Stopped
  <2>4. NoLostWakeup'
    BY <1>9, <2>1 DEF ActWait, NoLostWakeup, Waiters
  <2> QED
    BY <1>3, <2>2, <2>3, <2>4
<1>10. CASE ActInit(t)
  <2>1. StatusAssertsHold' /\ CallsMatch'
    BY <1>10 DEF ActInit, StatusAssertsHold, CallsMatch
  <2>2. WordTellsTruth' /\ AnswersKnown'
    BY <1>10 DEF ActInit, CallsMatch, WordTellsTruth, AnswersKnown, CameUp,
                 GaveUp, Stopped
  <2>3. NoLostWakeup'
    BY <1>10 DEF ActInit, NoLostWakeup, Waiters
  <2> QED
    BY <1>3, <2>1, <2>2, <2>3
<1>11. CASE MutexUnlock(t)
  <2>1. t \in holder
    BY <1>11 DEF MutexUnlock, MutexExclusion, Inside
  <2>2. StatusAssertsHold' /\ CallsMatch'
    BY <1>11, <2>1 DEF MutexUnlock, StatusAssertsHold, CallsMatch
  <2>3. WordTellsTruth' /\ AnswersKnown'
    BY <1>11, <2>1 DEF MutexUnlock, CallsMatch, WordTellsTruth, AnswersKnown,
                       CameUp, GaveUp, Stopped
  <2>4. NoLostWakeup'
    BY <1>11, <2>1 DEF MutexUnlock, NoLostWakeup, Waiters
  <2> QED
    BY <1>3, <2>2, <2>3, <2>4
<1> QED
  BY <1>4, <1>5, <1>6, <1>7, <1>8, <1>9, <1>10, <1>11 DEF CallStep

\* A spurious return of pthread_cond_wait.
LEMMA SsSpuriousInv ==
  ASSUME SsInv, NEW t \in Threads, Spurious(t)
  PROVE  SsInv'
<1> USE ThreadsAssumption DEF Spurious, SpuriousWakeup
<1>1. MonitorInv'
  BY CallStepInv DEF SsInv
<1>2. SsTypeOK'
  BY <1>1 DEF SsInv, SsTypeOK, MonitorInv
<1> USE DEF SsInv, SsTypeOK, MonitorTypeOK
<1>3. StatusAssertsHold' /\ CallsMatch'
  BY DEF StatusAssertsHold, CallsMatch
<1>4. WordTellsTruth' /\ AnswersKnown'
  BY DEF CallsMatch, WordTellsTruth, AnswersKnown, CameUp, GaveUp, Stopped
<1>5. NoLostWakeup'
  BY DEF NoLostWakeup, Waiters
<1> QED
  BY <1>1, <1>2, <1>3, <1>4, <1>5

\* The two threads keep the invariant.
THEOREM SsCorrect == SsSpec => []SsInv
<1>1. ASSUME SsInv, [SsNext]_svars
      PROVE  SsInv'
  <2>1. CASE UNCHANGED svars
    <3>1. MonitorInv'
      BY <1>1, <2>1, MonitorStutterInv DEF svars, SsInv
    <3> QED
      BY <1>1, <2>1, <3>1
         DEF svars, mvars, SsInv, SsTypeOK, MonitorInv, StatusAssertsHold,
             CallsMatch, WordTellsTruth, AnswersKnown, NoLostWakeup, Waiters,
             CameUp, GaveUp, Stopped
  <2>2. CASE Running /\ (MainStep \/ SsStep \/ Environment)
    BY <1>1, <2>2, SsBeginInv, SsOutsideInv, SsInStatusInv, SsSpuriousInv,
       ThreadsAssumption DEF MainStep, SsStep, Environment
  <2>3. CASE Ended
    BY <1>1, <2>3, SsOutsideInv
  <2> QED
    BY <1>1, <2>1, <2>2, <2>3 DEF SsNext
<1> QED
  BY <1>1, SsInitInv, PTL DEF SsSpec

\* The two threads stay in the states ss.c and status.c know, the monitor's
\* included.
THEOREM SsTypeCorrect == SsSpec => []SsTypeOK
<1>1. SsInv => SsTypeOK
  BY DEF SsInv
<1> QED
  BY <1>1, SsCorrect, PTL

\* No assertion about the status word fails in any interleaving.
THEOREM StatusAssertsHoldAlways == SsSpec => []StatusAssertsHold
<1>1. SsInv => StatusAssertsHold
  BY DEF SsInv
<1> QED
  BY <1>1, SsCorrect, PTL

\* A thread asleep on the condition variable always has a reason to sleep.
THEOREM NoLostWakeupAlways == SsSpec => []NoLostWakeup
<1>1. SsInv => NoLostWakeup
  BY DEF SsInv
<1> QED
  BY <1>1, SsCorrect, PTL

\* The status word tells main the truth about the server.
THEOREM WordTellsTruthAlways == SsSpec => []WordTellsTruth
<1>1. SsInv => WordTellsTruth
  BY DEF SsInv
<1> QED
  BY <1>1, SsCorrect, PTL

\* Nothing has been decided or answered at first.
LEMMA ServiceInitial == SsInit => Service!Init
<1> SUFFICES ASSUME SsInit PROVE Service!Init
  OBVIOUS
<1>1. loc[main] = "start_ss" /\ loc[ss] = "none" /\ life = "running"
  BY ThreadsAssumption DEF SsInit
<1> QED
  BY <1>1 DEF Service!Init, Server, Answer

\* A step that leaves the service alone.
LEMMA ServiceStutter ==
  ASSUME Server' = Server, Answer' = Answer, life' = life
  PROVE  UNCHANGED Service!vars
  BY DEF Service!vars

\* Each step of the two threads is one of the service or none: the callback and
\* the failure decide what became of the server, start_ss() answers, and every
\* end of the process but main's assertion is an end without an answer.
LEMMA ServiceStep ==
  ASSUME SsInv, [SsNext]_svars
  PROVE  Service!Next \/ UNCHANGED Service!vars
<1> USE ThreadsAssumption
<1> USE DEF SsInv, SsTypeOK, MonitorTypeOK
<1> USE DEF At, CallThen, Goto, Begin, End, mvars
<1>1. CASE UNCHANGED svars \/ Ended
  <2>1. Server' = Server /\ Answer' = Answer /\ life' = life
    BY <1>1 DEF Ended, svars, Server, Answer
  <2> QED
    BY <2>1, ServiceStutter
<1>2. CASE Running /\ (MainStep \/ SsStep \/ Environment)
  <2> USE DEF Running
  <2>1. CASE StartSs \/ PthreadCreate \/ WaitForServer \/ StopSs
    <3>1. Server' = Server /\ Answer' = Answer /\ life' = life
      BY <1>2, <2>1 DEF StartSs, PthreadCreate, WaitForServer, StopSs, Server,
                        Answer, CallsMatch
    <3> QED
      BY <3>1, ServiceStutter
  <2>2. CASE ServerStops \/ ServedWaits \/ StartRoutineReturns
    <3>1. Server' = Server /\ Answer' = Answer /\ life' = life
      BY <1>2, <2>2 DEF ServerStops, ServedWaits, StartRoutineReturns, Server,
                        Answer, CallsMatch
    <3> QED
      BY <3>1, ServiceStutter
  <2>3. CASE \E t \in Threads : InStatus(t) \/ Spurious(t)
    <3>1. UNCHANGED <<call, loc, life>>
      BY <2>3 DEF InStatus, Spurious, SpuriousWakeup, CallStep, MutexLock,
                  MutexTrylock, TestChange, TestWait, ActChange, ActWait, ActInit,
                  MutexUnlock
    <3>2. Server' = Server /\ Answer' = Answer /\ life' = life
      BY <3>1 DEF Server, Answer
    <3> QED
      BY <3>2, ServiceStutter
  <2>4. CASE Callback
    <3>1. /\ Server = "starting" /\ Server' = "up"
          /\ Answer' = Answer /\ life = "running" /\ life' = life
      BY <1>2, <2>4 DEF Callback, Server, Answer
    <3> QED
      BY <3>1 DEF Service!Next, Service!ComesUp
  <2>5. CASE ServerFails
    <3>1. /\ Server = "starting" /\ Server' = "failed"
          /\ Answer' = Answer /\ life = "running" /\ life' = life
      BY <1>2, <2>5 DEF ServerFails, Server, Answer
    <3> QED
      BY <3>1 DEF Service!Next, Service!Fails
  <2>6. CASE StartSsReturns
    <3>1. CASE ret[main] = "UP"
      <4>1. CameUp
        BY <2>6, <3>1 DEF StartSsReturns, AnswersKnown
      <4>2. /\ Server = "up" /\ Server' = Server /\ Answer = "none"
            /\ Answer' = "yes" /\ life = "running" /\ life' = life
        BY <1>2, <2>6, <3>1, <4>1 DEF StartSsReturns, Server, Answer, CameUp,
                                      CallsMatch
      <4> QED
        BY <4>2 DEF Service!Next, Service!AnswerYes
    <3>2. CASE ret[main] # "UP"
      <4>1. GaveUp
        BY <2>6, <3>2 DEF StartSsReturns, AnswersKnown
      <4>2. /\ Server = "failed" /\ Server' = Server /\ Answer = "none"
            /\ Answer' = "no" /\ life = "running" /\ life' = "abort_start"
        BY <1>2, <2>6, <3>2, <4>1 DEF StartSsReturns, Server, Answer, GaveUp
      <4> QED
        BY <4>2 DEF Service!Next, Service!AnswerNo
    <3> QED
      BY <3>1, <3>2
  <2>7. CASE PthreadKill \/ MainReturns \/ ServedAsserts \/ TerminalSigint
    <3>1. Server' = Server /\ Answer' = Answer
      BY <1>2, <2>7 DEF PthreadKill, MainReturns, ServedAsserts, TerminalSigint,
                        Server, Answer, CallsMatch
    <3>2. life = "running"
      BY <1>2
    <3>3. CASE life' = "running"
      BY <3>1, <3>2, <3>3, ServiceStutter
    <3>4. CASE life' # "running"
      BY <3>1, <3>2, <3>4 DEF Service!Next, Service!Ends
    <3> QED
      BY <3>3, <3>4
  <2> QED
    BY <1>2, <2>1, <2>2, <2>3, <2>4, <2>5, <2>6, <2>7
       DEF MainStep, SsStep, Environment
<1> QED
  BY <1>1, <1>2 DEF SsNext

\* The safety of IsSsService: start_ss() answers at most once and tells what
\* became of the server, a session comes only after a server that came up, and
\* nothing follows the end of the process.  (That it does answer is liveness.)
THEOREM ThreadRefinesService == SsSpec => Service!Safety
<1>1. SsSpec => Service!Init
  BY ServiceInitial DEF SsSpec
<1>2. SsInv /\ [SsNext]_svars => [Service!Next]_Service!vars
  BY ServiceStep
<1> QED
  BY <1>1, <1>2, SsCorrect, PTL DEF SsSpec, Service!Safety
==============================================================================
