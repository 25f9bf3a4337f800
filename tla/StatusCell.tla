----------------------------- MODULE StatusCell ------------------------------
(***************************************************************************)
(* What status.c promises its callers: a word that every call reads and    *)
(* changes in ONE step between its call and its return.  A change is an     *)
(* assertion about the old value and a new value; a wait returns a value    *)
(* other than the one it was given, the one the word has at that moment.    *)
(***************************************************************************)
CONSTANTS Threads, Calls

VARIABLES
  cell,    \* the word
  phase,   \* "idle", "pending" (called) or "done" (about to return)
  call,    \* the call each thread is in
  ret,     \* what its last wait returned
  failed   \* a caller's assertion was wrong

cvars == <<cell, phase, call, ret, failed>>

CellInit ==
  /\ cell = "DOWN"
  /\ phase = [t \in Threads |-> "idle"]
  /\ call = [t \in Threads |-> [op |-> "init", s0 |-> "DOWN", s1 |-> "DOWN"]]
  /\ ret = [t \in Threads |-> "DOWN"]
  /\ failed = FALSE

Invoke(t, c) ==
  /\ phase[t] = "idle"
  /\ phase' = [phase EXCEPT ![t] = "pending"]
  /\ call' = [call EXCEPT ![t] = c]
  /\ UNCHANGED <<cell, ret, failed>>

\* What a caller claims about the word it changes.
Claim(c) ==
  CASE c.op = "change_to"      -> cell # c.s1
    [] c.op = "change_from_to" -> cell = c.s0 /\ c.s0 # c.s1
    [] OTHER                   -> TRUE

Target(c) == IF c.op = "init" THEN "DOWN" ELSE c.s1

Change(t) ==
  /\ phase[t] = "pending"
  /\ call[t].op # "wait"
  /\ Claim(call[t])
  /\ cell' = Target(call[t])
  /\ phase' = [phase EXCEPT ![t] = "done"]
  /\ UNCHANGED <<call, ret, failed>>

Observe(t) ==
  /\ phase[t] = "pending"
  /\ call[t].op = "wait"
  /\ cell # call[t].s0
  /\ ret' = [ret EXCEPT ![t] = cell]
  /\ phase' = [phase EXCEPT ![t] = "done"]
  /\ UNCHANGED <<cell, call, failed>>

\* A wrong claim ends the process; status_init also ends it when it finds
\* another call in progress (its trylock).
Refuse(t) ==
  /\ phase[t] = "pending"
  /\ \/ ~Claim(call[t])
     \/ call[t].op = "init" /\ \E u \in Threads \ {t} : phase[u] # "idle"
  /\ failed' = TRUE
  /\ UNCHANGED <<cell, phase, call, ret>>

Respond(t) ==
  /\ phase[t] = "done"
  /\ phase' = [phase EXCEPT ![t] = "idle"]
  /\ UNCHANGED <<cell, call, ret, failed>>

CellNext ==
  /\ ~failed
  /\ \E t \in Threads :
       \/ \E c \in Calls : Invoke(t, c)
       \/ Change(t) \/ Observe(t) \/ Refuse(t) \/ Respond(t)

CellSpec == CellInit /\ [][CellNext]_cvars
==============================================================================
