------------------------------ MODULE SsService ------------------------------
(***************************************************************************)
(* What start_ss() and stop_ss() promise main(): start_ss() answers what    *)
(* became of the server, once, and always when it knows; a session exists   *)
(* only after a server that came up.                                        *)
(***************************************************************************)
VARIABLES
  server,   \* "starting", "up" or "failed"
  answer,   \* what start_ss() told main(): "none", "yes" or "no"
  ended     \* the process is gone

vars == <<server, answer, ended>>

Init == server = "starting" /\ answer = "none" /\ ended = FALSE

ComesUp ==
  /\ server = "starting"
  /\ server' = "up"
  /\ UNCHANGED <<answer, ended>>

Fails ==
  /\ server = "starting"
  /\ server' = "failed"
  /\ UNCHANGED <<answer, ended>>

AnswerYes ==
  /\ server = "up" /\ answer = "none"
  /\ answer' = "yes"
  /\ UNCHANGED <<server, ended>>

\* main() asserts a positive answer.
AnswerNo ==
  /\ server = "failed" /\ answer = "none"
  /\ answer' = "no" /\ ended' = TRUE
  /\ UNCHANGED server

\* The process leaves main() after a session, or a signal ends it.
Ends == ended' = TRUE /\ UNCHANGED <<server, answer>>

Next == ~ended /\ (ComesUp \/ Fails \/ AnswerYes \/ AnswerNo \/ Ends)

\* What it never does, and what it owes.
Safety == Init /\ [][Next]_vars

Spec == Safety /\ WF_vars(~ended /\ (AnswerYes \/ AnswerNo))
==============================================================================
