---------------------------- MODULE StatusMonitor ----------------------------
(***************************************************************************)
(* bin.tun/status.c: one Status word guarded by an error-checking mutex    *)
(* and a condition variable.  Any number of threads call its four          *)
(* functions; a call is taken apart at the points where another thread can *)
(* run: acquire the mutex, test the word, act on the test, release.        *)
(* The mutex and the condition variable are pthreads': they are modelled   *)
(* from how status.c uses them (one waiter is woken by a signal, waits may *)
(* return spuriously, a woken waiter has to get the mutex again).          *)
(***************************************************************************)
EXTENDS Naturals, FiniteSets

CONSTANTS Threads,  \* the threads of the process
          Calls     \* the calls the threads make

Status == {"DOWN", "FAIL", "UP"}

Ops == {"init", "change_to", "change_from_to", "wait"}

Call == [op : Ops, s0 : Status, s1 : Status]

StatusInit == [op |-> "init", s0 |-> "DOWN", s1 |-> "DOWN"]

ChangeTo(s) == [op |-> "change_to", s0 |-> s, s1 |-> s]

ChangeFromTo(s0, s1) == [op |-> "change_from_to", s0 |-> s0, s1 |-> s1]

WaitChangeFrom(s0) == [op |-> "wait", s0 |-> s0, s1 |-> s0]

ASSUME CallsAssumption == Calls \subseteq Call

VARIABLES
  status,   \* the shared word
  holder,   \* the thread that has the mutex, as a set
  st,       \* where each thread is in its call
  call,     \* the call each thread is in, or made last
  ret,      \* what its last status_wait_change_from returned
  failed    \* an assert() of status.c failed: the process is gone

mvars == <<status, holder, st, call, ret, failed>>

Points == {"idle", "lock", "test", "act", "waiting", "relock", "unlock"}

MonitorTypeOK ==
  /\ status \in Status
  /\ holder \in SUBSET Threads
  /\ st \in [Threads -> Points]
  /\ call \in [Threads -> Call]
  /\ ret \in [Threads -> Status]
  /\ failed \in BOOLEAN

MonitorInit ==
  /\ status = "DOWN"
  /\ holder = {}
  /\ st = [t \in Threads |-> "idle"]
  /\ call = [t \in Threads |-> StatusInit]
  /\ ret = [t \in Threads |-> "DOWN"]
  /\ failed = FALSE

------------------------------------------------------------------------------
\* Thread t enters one of the four functions.
Begin(t, c) ==
  /\ st[t] = "idle"
  /\ st' = [st EXCEPT ![t] = "lock"]
  /\ call' = [call EXCEPT ![t] = c]
  /\ UNCHANGED <<status, holder, ret, failed>>

\* Mutant: if(status==s0) instead of while: a woken waiter does not test again.
MutexLockNoRetest(t) ==
  /\ \/ st[t] = "lock" /\ call[t].op # "init"
     \/ st[t] = "relock"
  /\ holder = {}
  /\ holder' = {t}
  /\ st' = [st EXCEPT ![t] = IF st[t] = "relock" THEN "act" ELSE "test"]
  /\ UNCHANGED <<status, call, ret, failed>>

\* Mutant: the lock is not waited for.
MutexLockUnchecked(t) ==
  /\ \/ st[t] = "lock" /\ call[t].op # "init"
     \/ st[t] = "relock"
  /\ holder' = holder \cup {t}
  /\ st' = [st EXCEPT ![t] = "test"]
  /\ UNCHANGED <<status, call, ret, failed>>

\* pthread_mutex_lock, and the lock taken again at the end of
\* pthread_cond_wait: blocks while another thread has the mutex.
MutexLock(t) ==
  /\ \/ st[t] = "lock" /\ call[t].op # "init"
     \/ st[t] = "relock"
  /\ holder = {}
  /\ holder' = {t}
  /\ st' = [st EXCEPT ![t] = "test"]
  /\ UNCHANGED <<status, call, ret, failed>>

\* assert(0==pthread_mutex_trylock(&mutex)) of status_init.
MutexTrylock(t) ==
  /\ st[t] = "lock" /\ call[t].op = "init"
  /\ IF holder = {}
       THEN /\ holder' = {t}
            /\ st' = [st EXCEPT ![t] = "act"]
            /\ failed' = failed
       ELSE /\ failed' = TRUE
            /\ UNCHANGED <<holder, st>>
  /\ UNCHANGED <<status, call, ret>>

\* The first statement under the lock of the two status_change functions.
TestChange(t) ==
  /\ st[t] = "test" /\ call[t].op \in {"change_to", "change_from_to"}
  /\ LET ok == /\ call[t].op = "change_to" => status # call[t].s1
               /\ call[t].op = "change_from_to" =>
                    status = call[t].s0 /\ call[t].s0 # call[t].s1
     IN  /\ failed' = ~ok
         /\ st' = [st EXCEPT ![t] = IF ok THEN "act" ELSE "test"]
  /\ UNCHANGED <<status, holder, call, ret>>

\* Mutant: the waiter sleeps with the mutex (sleep instead of cond_wait).
TestWaitKeepsMutex(t) ==
  /\ st[t] = "test" /\ call[t].op = "wait"
  /\ st' = [st EXCEPT ![t] = IF status = call[t].s0 THEN "waiting" ELSE "act"]
  /\ UNCHANGED <<status, holder, call, ret, failed>>

\* while(status==s0) pthread_cond_wait(): sleeping releases the mutex.
TestWait(t) ==
  /\ st[t] = "test" /\ call[t].op = "wait"
  /\ IF status = call[t].s0
       THEN /\ st' = [st EXCEPT ![t] = "waiting"]
            /\ holder' = holder \ {t}
       ELSE /\ st' = [st EXCEPT ![t] = "act"]
            /\ holder' = holder
  /\ UNCHANGED <<status, call, ret, failed>>

Waiters == {t \in Threads : st[t] = "waiting"}

\* pthread_cond_signal wakes a waiter if there is one; t itself goes on to
\* release the mutex.
SignalAndUnlock(t) ==
  \/ /\ Waiters = {}
     /\ st' = [st EXCEPT ![t] = "unlock"]
  \/ \E w \in Waiters : st' = [st EXCEPT ![t] = "unlock", ![w] = "relock"]

\* Mutant: the signal is forgotten.
ActChangeSilent(t) ==
  /\ st[t] = "act" /\ call[t].op \in {"change_to", "change_from_to"}
  /\ status' = call[t].s1
  /\ st' = [st EXCEPT ![t] = "unlock"]
  /\ UNCHANGED <<holder, call, ret, failed>>

\* status=s; pthread_cond_signal(&cond);
ActChange(t) ==
  /\ st[t] = "act" /\ call[t].op \in {"change_to", "change_from_to"}
  /\ status' = call[t].s1
  /\ SignalAndUnlock(t)
  /\ UNCHANGED <<holder, call, ret, failed>>

\* assert(status!=s0); ret=status;
ActWait(t) ==
  /\ st[t] = "act" /\ call[t].op = "wait"
  /\ IF status # call[t].s0
       THEN /\ ret' = [ret EXCEPT ![t] = status]
            /\ st' = [st EXCEPT ![t] = "unlock"]
            /\ failed' = failed
       ELSE /\ failed' = TRUE
            /\ UNCHANGED <<ret, st>>
  /\ UNCHANGED <<status, holder, call>>

\* Mutant: status_init leaves the word of the last session.
ActInitKeepsStatus(t) ==
  /\ st[t] = "act" /\ call[t].op = "init"
  /\ Waiters = {}
  /\ st' = [st EXCEPT ![t] = "unlock"]
  /\ UNCHANGED <<status, holder, call, ret, failed>>

\* status=DOWN and a new condition variable.  pthread_cond_destroy blocks
\* while a thread sleeps on the old one.
ActInit(t) ==
  /\ st[t] = "act" /\ call[t].op = "init"
  /\ Waiters = {}
  /\ status' = "DOWN"
  /\ st' = [st EXCEPT ![t] = "unlock"]
  /\ UNCHANGED <<holder, call, ret, failed>>

\* assert(0==pthread_mutex_unlock(&mutex)): the mutex checks its owner.
MutexUnlock(t) ==
  /\ st[t] = "unlock"
  /\ IF t \in holder
       THEN /\ holder' = holder \ {t}
            /\ st' = [st EXCEPT ![t] = "idle"]
            /\ failed' = failed
       ELSE /\ failed' = TRUE
            /\ UNCHANGED <<holder, st>>
  /\ UNCHANGED <<status, call, ret>>

\* pthread_cond_wait may return although nobody signalled.
SpuriousWakeup(t) ==
  /\ st[t] = "waiting"
  /\ st' = [st EXCEPT ![t] = "relock"]
  /\ UNCHANGED <<status, holder, call, ret, failed>>

\* The steps a thread takes inside a call by being scheduled.
CallStep(t) ==
  \/ MutexLock(t) \/ MutexTrylock(t)
  \/ TestChange(t) \/ TestWait(t)
  \/ ActChange(t) \/ ActWait(t) \/ ActInit(t)
  \/ MutexUnlock(t)

MonitorNext ==
  /\ ~failed
  /\ \E t \in Threads :
       \/ \E c \in Calls : Begin(t, c)
       \/ CallStep(t)
       \/ SpuriousWakeup(t)

MonitorSpec == MonitorInit /\ [][MonitorNext]_mvars

------------------------------------------------------------------------------
\* The threads between taking and releasing the mutex.
Inside == {t \in Threads : st[t] \in {"test", "act", "unlock"}}

\* At most one thread is between lock and unlock, and it is the one the
\* mutex believes in: pthread_cond_wait gives the mutex up and takes it back
\* without letting a second thread in.
MutexExclusion ==
  /\ holder = Inside
  /\ \A t, u \in holder : t = u

\* A test made under the lock still holds when the thread acts on it, however
\* the other threads are scheduled: status_change_from_to really moves the
\* word from s0, and status_wait_change_from never returns s0.
TestStillTrue ==
  \A t \in Threads : st[t] = "act" =>
    /\ call[t].op = "change_to" => status # call[t].s1
    /\ call[t].op = "change_from_to" =>
         status = call[t].s0 /\ call[t].s0 # call[t].s1
    /\ call[t].op = "wait" => status # call[t].s0

\* What status_wait_change_from is about to return is the current word, and
\* it differs from the value the caller waited to leave.
WaitReturnsChange ==
  \A t \in Threads : st[t] = "unlock" /\ call[t].op = "wait" =>
    ret[t] = status /\ ret[t] # call[t].s0

\* Where a call stands, seen from outside.
Phase == [t \in Threads |->
            IF st[t] = "idle" THEN "idle"
            ELSE IF st[t] = "unlock" THEN "done" ELSE "pending"]

Cell == INSTANCE StatusCell WITH cell <- status, phase <- Phase

\* status.c implements the atomic word of StatusCell: every call takes effect
\* in one step between its beginning and its return.
IsAtomicCell == Cell!CellSpec
==============================================================================
