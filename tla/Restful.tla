------------------------------- MODULE Restful -------------------------------
(***************************************************************************)
(* lib/restful.c: now() asks clash's RESTful API which node is in use:      *)
(* GLOBAL first, then what GLOBAL has selected, then, if that was a group,  *)
(* what the group has selected.  Each question is a request of its own, the *)
(* answer arrives in pieces in a static buffer, and the user may select     *)
(* something else at any time between two answers.  Sip002 calls it.        *)
(***************************************************************************)
EXTENDS Naturals, Sequences

CONSTANTS Nodes,        \* the Shadowsocks proxies
          Groups,       \* the Selector groups below GLOBAL
          Others,       \* proxies of another kind: DIRECT, REJECT, ...
          Members,      \* what GLOBAL and each group offer for selection
          MaxSwitches,  \* how often the user selects something
          MaxPieces     \* into how many pieces an answer falls

Names == Nodes \cup Groups \cup Others

ASSUME NamesAssumption ==
  /\ "GLOBAL" \notin Names
  /\ Nodes \cap Groups = {} /\ Nodes \cap Others = {} /\ Groups \cap Others = {}
  /\ Members \in [Groups \cup {"GLOBAL"} -> SUBSET Names]
  /\ MaxSwitches \in Nat /\ MaxPieces \in Nat \ {0}

VARIABLES
  now,       \* clash: what GLOBAL and each group have selected
  at,        \* now(): "idle", the request it is at, or how it ended
  s,         \* now(): the name it asks for, later its result
  answer,    \* the answer clash gave to the request
  left,      \* the pieces of it that have not arrived
  buf,       \* the static buffer: the pieces in it
  switches,  \* how often the user has selected something
  seen       \* every value that the variable now has had since the call

rvars == <<now, at, s, answer, left, buf, switches, seen>>

TypeOf(n) ==
  IF n \in Nodes THEN "Shadowsocks"
  ELSE IF n \in Groups \cup {"GLOBAL"} THEN "Selector" ELSE "Other"

Selectors == Groups \cup {"GLOBAL"}

\* What GLOBAL's selection leads to: it is in every set that has GLOBAL and,
\* with a selector, what that has selected.
Reached(f) ==
  {m \in Names : \A S \in SUBSET (Names \cup {"GLOBAL"}) :
     "GLOBAL" \in S /\ (\A g \in S \cap Selectors : f[g] \in S) => m \in S}

\* The node in use, or DIRECT and the like: where the way ends (clash refuses
\* loops).
ActiveNode(f) == CHOOSE m \in Reached(f) : m \notin Groups

Requests == {"ask_global", "ask_selected", "ask_node"}

None == [name |-> "none", type |-> "Other", now |-> "none"]

RInit ==
  /\ now \in [Selectors -> Names]
  /\ \A g \in Selectors : now[g] \in Members[g]
  /\ at = "idle" /\ s = "GLOBAL"
  /\ answer = None /\ left = 0 /\ buf = <<>>
  /\ switches = 0 /\ seen = {now}

------------------------------------------------------------------------------
\* now() is called, for the first time or again: the buffer is static.
Call ==
  /\ at \in {"idle", "returned"}
  /\ at' = "ask_global" /\ s' = "GLOBAL"
  /\ seen' = {now}
  /\ UNCHANGED <<now, answer, left, buf, switches>>

\* json_get, buf_get: clash answers for the name s with its state of now.
Ask ==
  /\ at \in Requests
  /\ answer' = [name |-> s, type |-> TypeOf(s),
                now |-> IF TypeOf(s) = "Selector" THEN now[s] ELSE "none",
                to |-> at]
  /\ left' \in 1..MaxPieces
  /\ at' = "read"
  /\ UNCHANGED <<now, s, buf, switches, seen>>

\* write_callback: one more piece at the end of the buffer.
write_callback ==
  /\ at = "read" /\ left > 0
  /\ buf' = Append(buf, [of |-> answer, last |-> left = 1])
  /\ left' = left - 1
  /\ UNCHANGED <<now, at, s, answer, switches, seen>>

\* The buffer parses as one JSON object when it holds one whole answer.
Parses(b) ==
  /\ b # <<>>
  /\ \A i \in 1..Len(b) : b[i].of = b[1].of /\ (b[i].last <=> i = Len(b))

\* Mutant: buf_drop() is left out.
GoKeepsBuffer(dest, name) == at' = dest /\ s' = name /\ UNCHANGED buf

\* now() goes on with the parsed answer j: json_get has dropped the buffer.
Go(dest, name) == at' = dest /\ s' = name /\ buf' = <<>>

\* The three places where now() uses an answer, with their assertions.
AfterGlobal(j) ==
  IF j.name = "GLOBAL" /\ j.type = "Selector"
    THEN Go("ask_selected", j.now) ELSE Go("abort", s)

\* Mutants: groups are not followed; the name is not moved on to the group's
\* selection.
AfterSelectedNoGroups(j) ==
  IF j.name = s /\ j.type = "Shadowsocks" THEN Go("returned", s) ELSE Go("abort", s)

AfterSelectedAgain(j) ==
  CASE j.name = s /\ j.type = "Shadowsocks" -> Go("returned", s)
    [] j.name = s /\ j.type = "Selector"    -> Go("ask_selected", s)
    [] OTHER                                -> Go("abort", s)

AfterSelected(j) ==
  CASE j.name = s /\ j.type = "Shadowsocks" -> Go("returned", s)
    [] j.name = s /\ j.type = "Selector"    -> Go("ask_node", j.now)
    [] OTHER                                -> Go("abort", s)

\* Mutant: the type of the second selection is not asserted.
AfterNodeUnchecked(j) == IF j.name = s THEN Go("returned", s) ELSE Go("abort", s)

AfterNode(j) ==
  IF j.name = s /\ j.type = "Shadowsocks"
    THEN Go("returned", s) ELSE Go("abort", s)

\* curl_easy_perform is back: the answer is parsed and acted on.
Use ==
  /\ at = "read" /\ left = 0
  /\ IF Parses(buf)
       THEN LET j == buf[1].of
            IN  CASE answer.to = "ask_global"   -> AfterGlobal(j)
                  [] answer.to = "ask_selected" -> AfterSelected(j)
                  [] answer.to = "ask_node"     -> AfterNode(j)
       ELSE Go("abort", s)
  /\ UNCHANGED <<now, answer, left, switches, seen>>

\* The user selects another proxy, in GLOBAL or in a group.
UserSelects ==
  /\ switches < MaxSwitches
  /\ \E g \in Selectors : \E n \in Members[g] :
       now' = [now EXCEPT ![g] = n]
  /\ switches' = switches + 1
  /\ seen' = seen \cup {now'}
  /\ UNCHANGED <<at, s, answer, left, buf>>

\* The steps of a call of now().
NowStep == Ask \/ write_callback \/ Use

------------------------------------------------------------------------------
\* What now() returns is a Shadowsocks node that was selected somewhere, never
\* a group or another kind of proxy, whatever is selected in between.
ReturnsNode == at = "returned" => s \in Nodes

\* Nobody has selected anything since the call.
Quiet == seen = {now}

\* The selections that now() does not support: what is in use is no
\* Shadowsocks node, or lies in a group within a group.
Unsupported ==
  \/ ActiveNode(now) \notin Nodes
  \/ now["GLOBAL"] \in Groups /\ now[now["GLOBAL"]] \in Groups

\* Every answer is parsed on its own, in however many pieces it came: nothing
\* of an earlier answer is left in the static buffer.
AnswersSeparate == at = "read" /\ left = 0 => Parses(buf) /\ buf[1].of = answer

\* main.c:140 and bin.sip002/main.c:139: now() gets the "current active node".
ReturnsActiveNode == at = "returned" => s \in {ActiveNode(f) : f \in seen}
==============================================================================
