------------------------ MODULE StatusMonitorProofs --------------------------
(***************************************************************************)
(* Proofs about StatusMonitor for every set of threads and every set of     *)
(* calls.  The inductive invariant is the conjunction of what the run       *)
(* checks: the mutex admits one thread, hence what a thread tested under    *)
(* the lock still holds when it acts, hence what a wait returns is a change.*)
(***************************************************************************)
EXTENDS StatusMonitor, TLAPS

MonitorInv ==
  /\ MonitorTypeOK
  /\ MutexExclusion
  /\ TestStillTrue
  /\ WaitReturnsChange

USE DEF Status, Ops, Call, Points

\* The initial state satisfies the invariant.
LEMMA MonitorInitInv == MonitorInit => MonitorInv
<1> SUFFICES ASSUME MonitorInit PROVE MonitorInv
  OBVIOUS
<1>1. MonitorTypeOK
  BY DEF MonitorInit, MonitorTypeOK, StatusInit
<1>2. MutexExclusion
  BY DEF MonitorInit, MutexExclusion, Inside
<1>3. TestStillTrue /\ WaitReturnsChange
  BY DEF MonitorInit, TestStillTrue, WaitReturnsChange
<1> QED
  BY <1>1, <1>2, <1>3 DEF MonitorInv

\* Entering a function of status.c touches nothing the lock protects.
LEMMA BeginInv ==
  ASSUME NEW t \in Threads, NEW c \in Call, MonitorInv, Begin(t, c)
  PROVE  MonitorInv'
  BY DEF Begin, MonitorInv, MonitorTypeOK, MutexExclusion, Inside,
         TestStillTrue, WaitReturnsChange

\* Taking the mutex lets a thread in only when nobody is inside.
LEMMA LockInv ==
  ASSUME NEW t \in Threads, MonitorInv, MutexLock(t) \/ MutexTrylock(t)
  PROVE  MonitorInv'
<1>1. MonitorTypeOK'
  <2>1. CASE MutexLock(t)
    BY <2>1 DEF MutexLock, MonitorInv, MonitorTypeOK
  <2>2. CASE MutexTrylock(t) /\ holder = {}
    BY <2>2 DEF MutexTrylock, MonitorInv, MonitorTypeOK
  <2>3. CASE MutexTrylock(t) /\ holder # {}
    BY <2>3 DEF MutexTrylock, MonitorInv, MonitorTypeOK
  <2> QED
    BY <2>1, <2>2, <2>3
<1>2. MutexExclusion'
  BY DEF MutexLock, MutexTrylock, MonitorInv, MonitorTypeOK, MutexExclusion,
         Inside
<1>3. TestStillTrue' /\ WaitReturnsChange'
  BY DEF MutexLock, MutexTrylock, MonitorInv, MonitorTypeOK, MutexExclusion,
         Inside, TestStillTrue, WaitReturnsChange
<1> QED
  BY <1>1, <1>2, <1>3 DEF MonitorInv

\* Testing the word under the lock: the thread stays inside, or sleeps and
\* leaves the mutex free.
LEMMA TestInv ==
  ASSUME NEW t \in Threads, MonitorInv, TestChange(t) \/ TestWait(t)
  PROVE  MonitorInv'
<1>1. MonitorTypeOK'
  BY DEF TestChange, TestWait, MonitorInv, MonitorTypeOK
<1>2. MutexExclusion'
  BY DEF TestChange, TestWait, MonitorInv, MonitorTypeOK, MutexExclusion,
         Inside
<1>3. TestStillTrue' /\ WaitReturnsChange'
  BY DEF TestChange, TestWait, MonitorInv, MonitorTypeOK, MutexExclusion,
         Inside, TestStillTrue, WaitReturnsChange
<1> QED
  BY <1>1, <1>2, <1>3 DEF MonitorInv

\* Acting on the test: no other thread is inside, so none has tested or
\* returned the word that changes here.
LEMMA ActInv ==
  ASSUME NEW t \in Threads, MonitorInv,
         ActChange(t) \/ ActWait(t) \/ ActInit(t)
  PROVE  MonitorInv'
<1>1. CASE ActChange(t)
  BY <1>1 DEF ActChange, SignalAndUnlock, Waiters, MonitorInv, MonitorTypeOK,
         MutexExclusion, Inside, TestStillTrue, WaitReturnsChange
<1>2. CASE ActWait(t) \/ ActInit(t)
  <2>1. MonitorTypeOK'
    BY <1>2 DEF ActWait, ActInit, MonitorInv, MonitorTypeOK
  <2>2. MutexExclusion'
    BY <1>2 DEF ActWait, ActInit, MonitorInv, MonitorTypeOK, MutexExclusion,
           Inside
  <2>3. TestStillTrue' /\ WaitReturnsChange'
    BY <1>2 DEF ActWait, ActInit, MonitorInv, MonitorTypeOK, MutexExclusion,
           Inside, TestStillTrue, WaitReturnsChange
  <2> QED
    BY <2>1, <2>2, <2>3 DEF MonitorInv
<1> QED
  BY <1>1, <1>2

\* Releasing the mutex empties the inside; a spurious wakeup only makes a
\* sleeper ask for the mutex again.
LEMMA UnlockInv ==
  ASSUME NEW t \in Threads, MonitorInv, MutexUnlock(t) \/ SpuriousWakeup(t)
  PROVE  MonitorInv'
  BY DEF MutexUnlock, SpuriousWakeup, MonitorInv, MonitorTypeOK,
         MutexExclusion, Inside, TestStillTrue, WaitReturnsChange

\* Every scheduled step inside status.c preserves the invariant.
LEMMA CallStepInv ==
  ASSUME NEW t \in Threads, MonitorInv, CallStep(t) \/ SpuriousWakeup(t)
  PROVE  MonitorInv'
  BY LockInv, TestInv, ActInv, UnlockInv DEF CallStep

\* A step that leaves the monitor alone preserves it.
LEMMA MonitorStutterInv ==
  ASSUME MonitorInv, UNCHANGED mvars
  PROVE  MonitorInv'
  BY DEF mvars, MonitorInv, MonitorTypeOK, MutexExclusion, Inside,
         TestStillTrue, WaitReturnsChange

\* status.c keeps its invariant for any threads making any calls: exclusion,
\* tests that stay true until they are acted on, waits that return a change.
THEOREM MonitorCorrect == MonitorSpec => []MonitorInv
<1>1. ASSUME MonitorInv, [MonitorNext]_mvars
      PROVE  MonitorInv'
  <2>1. CASE UNCHANGED mvars
    BY <1>1, <2>1, MonitorStutterInv
  <2>2. CASE MonitorNext
    <3>1. PICK t \in Threads : \/ \E c \in Calls : Begin(t, c)
                               \/ CallStep(t) \/ SpuriousWakeup(t)
      BY <2>2 DEF MonitorNext
    <3>2. CASE \E c \in Calls : Begin(t, c)
      BY <1>1, <3>2, BeginInv, CallsAssumption
    <3>3. CASE CallStep(t) \/ SpuriousWakeup(t)
      BY <1>1, <3>3, CallStepInv
    <3> QED
      BY <3>1, <3>2, <3>3
  <2> QED
    BY <1>1, <2>1, <2>2
<1> QED
  BY <1>1, MonitorInitInv, PTL DEF MonitorSpec

\* At most one thread is between lock and unlock.
THEOREM MutexExclusionHolds == MonitorSpec => []MutexExclusion
<1>1. MonitorInv => MutexExclusion
  BY DEF MonitorInv
<1> QED
  BY <1>1, MonitorCorrect, PTL

\* What a call tested under the lock still holds when it acts on it.
THEOREM TestStillTrueHolds == MonitorSpec => []TestStillTrue
<1>1. MonitorInv => TestStillTrue
  BY DEF MonitorInv
<1> QED
  BY <1>1, MonitorCorrect, PTL

\* status_wait_change_from never returns the value it waited to leave.
THEOREM WaitReturnsChangeHolds == MonitorSpec => []WaitReturnsChange
<1>1. MonitorInv => WaitReturnsChange
  BY DEF MonitorInv
<1> QED
  BY <1>1, MonitorCorrect, PTL

------------------------------------------------------------------------------
\* The initial state of the monitor is that of the atomic cell.
LEMMA CellInitial == MonitorInit => Cell!CellInit
  BY DEF MonitorInit, Cell!CellInit, Phase, StatusInit

\* Inside a call, only the step that acts on the test is visible.
LEMMA CellStep ==
  ASSUME NEW t \in Threads, MonitorInv, ~failed, CallStep(t)
  PROVE  Cell!CellNext \/ UNCHANGED Cell!cvars
<1> USE DEF MonitorInv, MonitorTypeOK, Phase, Cell!cvars
<1>1. CASE MutexLock(t)
  BY <1>1 DEF MutexLock
<1>2. CASE MutexTrylock(t) /\ holder = {}
  BY <1>2 DEF MutexTrylock
<1>3. CASE MutexTrylock(t) /\ holder # {}
  <2>1. PICK u \in holder : TRUE
    BY <1>3
  <2>2. u \in Threads \ {t} /\ Phase[u] # "idle"
    BY <2>1, <1>3 DEF MutexTrylock, MutexExclusion, Inside
  <2>3. Cell!Refuse(t)
    BY <2>2, <1>3 DEF MutexTrylock, Cell!Refuse
  <2> QED
    BY <2>3 DEF Cell!CellNext
<1>4. CASE TestChange(t)
  <2>1. CASE Cell!Claim(call[t])
    BY <1>4, <2>1 DEF TestChange, Cell!Claim
  <2>2. CASE ~Cell!Claim(call[t])
    <3>1. Cell!Refuse(t)
      BY <1>4, <2>2 DEF TestChange, Cell!Claim, Cell!Refuse
    <3> QED
      BY <3>1 DEF Cell!CellNext
  <2> QED
    BY <2>1, <2>2
<1>5. CASE TestWait(t)
  BY <1>5 DEF TestWait
<1>6. CASE ActChange(t)
  <2>1. Cell!Claim(call[t])
    BY <1>6 DEF ActChange, TestStillTrue, Cell!Claim
  <2>2. Phase' = [Phase EXCEPT ![t] = "done"]
    BY <1>6 DEF ActChange, SignalAndUnlock, Waiters
  <2>3. Cell!Change(t)
    BY <1>6, <2>1, <2>2 DEF ActChange, Cell!Change, Cell!Target
  <2> QED
    BY <2>3 DEF Cell!CellNext
<1>7. CASE ActWait(t)
  <2>1. Cell!Observe(t)
    BY <1>7 DEF ActWait, TestStillTrue, Cell!Observe
  <2> QED
    BY <2>1 DEF Cell!CellNext
<1>8. CASE ActInit(t)
  <2>1. Cell!Change(t)
    BY <1>8 DEF ActInit, Cell!Change, Cell!Claim, Cell!Target
  <2> QED
    BY <2>1 DEF Cell!CellNext
<1>9. CASE MutexUnlock(t)
  <2>1. t \in holder
    BY <1>9 DEF MutexUnlock, MutexExclusion, Inside
  <2>2. Cell!Respond(t)
    BY <1>9, <2>1 DEF MutexUnlock, Cell!Respond
  <2> QED
    BY <2>2 DEF Cell!CellNext
<1> QED
  BY <1>1, <1>2, <1>3, <1>4, <1>5, <1>6, <1>7, <1>8, <1>9 DEF CallStep

\* status.c implements the atomic word: with any threads and any calls, every
\* call takes effect in one step between its beginning and its return.
THEOREM MonitorRefinesCell == MonitorSpec => IsAtomicCell
<1>1. ASSUME MonitorInv, [MonitorNext]_mvars
      PROVE  [Cell!CellNext]_(Cell!cvars)
  <2>1. CASE UNCHANGED mvars
    BY <2>1 DEF mvars, Cell!cvars, Phase
  <2>2. CASE MonitorNext
    <3>1. PICK t \in Threads : \/ \E c \in Calls : Begin(t, c)
                               \/ CallStep(t) \/ SpuriousWakeup(t)
      BY <2>2 DEF MonitorNext
    <3>2. CASE \E c \in Calls : Begin(t, c)
      <4>1. PICK c \in Calls : Begin(t, c)
        BY <3>2
      <4>2. Cell!Invoke(t, c)
        BY <1>1, <4>1 DEF Begin, Cell!Invoke, Phase, MonitorInv, MonitorTypeOK
      <4> QED
        BY <4>2, <2>2 DEF Cell!CellNext, MonitorNext
    <3>3. CASE CallStep(t)
      BY <1>1, <2>2, <3>3, CellStep DEF MonitorNext
    <3>4. CASE SpuriousWakeup(t)
      BY <1>1, <3>4 DEF SpuriousWakeup, Cell!cvars, Phase, MonitorInv,
                        MonitorTypeOK
    <3> QED
      BY <3>1, <3>2, <3>3, <3>4
  <2> QED
    BY <1>1, <2>1, <2>2
<1> QED
  BY <1>1, CellInitial, MonitorCorrect, PTL
     DEF MonitorSpec, IsAtomicCell, Cell!CellSpec
==============================================================================
