----------------------------- MODULE Sip002Proofs -----------------------------
(***************************************************************************)
(* Proofs about Restful and Sip002 for any nodes, groups and selections, any *)
(* menu and any lines typed.  NowInv describes a call of now(): what is in   *)
(* the static buffer, and, as long as nobody selects, how far the name it    *)
(* asks for has come on the way from GLOBAL to the node in use.  MenuInv     *)
(* adds the menu around it, TerminalInv the lines typed.                     *)
(***************************************************************************)
EXTENDS Sip002, TLAPS

Piece(a) == [of : {a}, last : BOOLEAN]

\* The pieces of the answer that is being read, and no others.
BufferInv ==
  /\ at # "read" => buf = <<>>
  /\ at = "read" =>
       /\ buf \in Seq(Piece(answer)) /\ left \in Nat
       /\ left = 0 => buf # <<>>
       /\ \A i \in 1..Len(buf) : buf[i].last <=> left = 0 /\ i = Len(buf)

\* The request that now() is at, or whose answer it reads.
Request == IF at = "read" THEN answer.to ELSE at

\* now() asks for GLOBAL first; an answer is about the name it asks for; what it
\* returns is a node.
NameInv ==
  /\ now \in [Selectors -> Names] /\ now \in seen
  /\ at \in Requests \cup {"idle", "read", "returned", "abort"}
  /\ at = "read" =>
       /\ answer.to \in Requests
       /\ answer.name = s /\ answer.type = TypeOf(s)
  /\ Request = "ask_global" => s = "GLOBAL"
  /\ at = "returned" => s \in Nodes

\* While nobody selects, the name is on the way to the node in use.
QuietInv ==
  Quiet =>
    /\ at = "read" /\ TypeOf(s) = "Selector" => answer.now = now[s]
    /\ Request = "ask_selected" => s = now["GLOBAL"]
    /\ Request = "ask_node" => now["GLOBAL"] \in Groups /\ s = now[now["GLOBAL"]]
    /\ at = "returned" => s = ActiveNode(now)
    /\ at = "abort" => Unsupported

NowInv == BufferInv /\ NameInv /\ QuietInv

\* Where main() is in its menu while now() runs or has returned.
MenuInv ==
  /\ step \in 1..Len(Menu)
  /\ where \in {"prompt", "now", "lookup", "print", "over", "abort"}
  /\ where = "now" => at \in Requests \cup {"read"}
  /\ where = "prompt" => at \in {"idle", "returned"}
  /\ where \in {"lookup", "print"} => at = "returned"
  /\ where = "print" => s \in Listed
  /\ where \in {"now", "lookup", "print"} => step > 1
  /\ step = 1 => codes = <<>>
  /\ codes \in Seq([tag : STRING, node : Nodes])

\* The lines typed: stdio's buffer is empty whenever main() waits.
TerminalInv ==
  /\ stdin = 0 /\ tty \in Seq(1..2) /\ typed \in Nat
  /\ OneLineOneItem

SipInv == NowInv /\ MenuInv /\ TerminalInv /\ QuietItemIsRight

USE NamesAssumption DEF Names, Selectors

\* The three kinds of names.
LEMMA Kinds ==
  /\ TypeOf("GLOBAL") = "Selector"
  /\ \A m \in Nodes : TypeOf(m) = "Shadowsocks"
  /\ \A m \in Groups : TypeOf(m) = "Selector"
  /\ \A m \in Others : TypeOf(m) = "Other"
  BY DEF TypeOf

\* A closed set that ends in m, outside the groups, has the node in use.
LEMMA ActiveIs ==
  ASSUME NEW f \in [Selectors -> Names], NEW m \in Names, m \notin Groups,
         NEW S \in SUBSET (Names \cup {"GLOBAL"}),
         "GLOBAL" \in S, \A g \in S \cap Selectors : f[g] \in S,
         \A x \in S : x = m \/ x \in Selectors,
         m \in Reached(f)
  PROVE  ActiveNode(f) = m
<1>1. \A x \in Reached(f) : x \in S /\ x \in Names
  BY DEF Reached
<1>2. \A x \in Reached(f) : x \notin Groups => x = m
  BY <1>1
<1> QED
  BY <1>2 DEF ActiveNode

\* GLOBAL has selected the node itself, ...
LEMMA ActiveDirect ==
  ASSUME NEW f \in [Selectors -> Names], f["GLOBAL"] \notin Groups
  PROVE  ActiveNode(f) = f["GLOBAL"]
<1> DEFINE m == f["GLOBAL"]
           S == {"GLOBAL", m}
<1>1. m \in Names /\ m \notin Selectors
  OBVIOUS
<1>2. m \in Reached(f)
  BY <1>1 DEF Reached
<1>3. S \in SUBSET (Names \cup {"GLOBAL"}) /\ \A g \in S \cap Selectors : f[g] \in S
  BY <1>1
<1> QED
  BY <1>1, <1>2, <1>3, ActiveIs

\* ... or a group that has selected it.
LEMMA ActiveNested ==
  ASSUME NEW f \in [Selectors -> Names],
         f["GLOBAL"] \in Groups, f[f["GLOBAL"]] \notin Groups
  PROVE  ActiveNode(f) = f[f["GLOBAL"]]
<1> DEFINE a == f["GLOBAL"]
           m == f[a]
           S == {"GLOBAL", a, m}
<1>1. m \in Names /\ m \notin Selectors /\ m \notin Groups
  OBVIOUS
<1>2. m \in Reached(f)
  BY <1>1 DEF Reached
<1>3. S \in SUBSET (Names \cup {"GLOBAL"}) /\ \A g \in S \cap Selectors : f[g] \in S
  BY <1>1
<1>4. "GLOBAL" \in S /\ \A x \in S : x = m \/ x \in Selectors
  BY <1>1
<1> HIDE DEF S, m
<1>5. ActiveNode(f) = m
  BY <1>1, <1>2, <1>3, <1>4, ActiveIs
<1> QED
  BY <1>5 DEF m

\* Before the first call.
LEMMA InitNow == RInit => NowInv
  BY DEF RInit, Requests, NowInv, BufferInv, NameInv, QuietInv, Quiet, Request

\* now() starts with an empty buffer, from GLOBAL.
LEMMA CallNow ==
  ASSUME NowInv, Call
  PROVE  NowInv'
  BY DEF Call, Requests, NowInv, BufferInv, NameInv, QuietInv, Quiet, Request

\* clash answers for the name that is asked for.
LEMMA AskNow ==
  ASSUME NowInv, Ask
  PROVE  NowInv'
<1>1. /\ at \in Requests /\ at' = "read" /\ answer'.to = at
      /\ answer'.name = s /\ answer'.type = TypeOf(s)
      /\ answer'.now = IF TypeOf(s) = "Selector" THEN now[s] ELSE "none"
      /\ UNCHANGED <<now, s, buf, switches, seen>>
  BY DEF Ask
<1>2. left' \in Nat /\ left' > 0 /\ buf = <<>>
  BY <1>1 DEF Ask, NowInv, BufferInv, Requests
<1>3. Request = at /\ Request' = at
  BY <1>1 DEF Request, Requests
<1>4. BufferInv'
  BY <1>1, <1>2 DEF BufferInv
<1>5. NameInv'
  BY <1>1, <1>3 DEF NowInv, NameInv, TypeOf
<1>6. QuietInv'
  BY <1>1, <1>3 DEF NowInv, QuietInv, Quiet, TypeOf
<1> QED
  BY <1>4, <1>5, <1>6 DEF NowInv

\* A piece of the answer goes to the end of the buffer.
LEMMA WriteNow ==
  ASSUME NowInv, write_callback
  PROVE  NowInv'
<1> DEFINE piece == [of |-> answer, last |-> left = 1]
<1>1. /\ at = "read" /\ at' = "read" /\ left \in Nat /\ left > 0 /\ left' = left - 1
      /\ buf \in Seq(Piece(answer)) /\ buf' = Append(buf, piece)
      /\ UNCHANGED <<now, s, answer, switches, seen>>
  BY DEF write_callback, NowInv, BufferInv
<1>2. piece \in Piece(answer) /\ (piece.last <=> left = 1)
  BY DEF Piece
<1> HIDE DEF piece
<1>3. /\ buf' \in Seq(Piece(answer)) /\ buf' # <<>> /\ Len(buf') = Len(buf) + 1
      /\ \A i \in 1..Len(buf) : buf'[i] = buf[i]
      /\ buf'[Len(buf) + 1] = piece
  BY <1>1, <1>2
<1>4. \A i \in 1..Len(buf) : ~buf[i].last
  BY <1>1 DEF NowInv, BufferInv
<1>5. \A i \in 1..Len(buf') : buf'[i].last <=> left' = 0 /\ i = Len(buf')
  BY <1>1, <1>2, <1>3, <1>4
<1>6. BufferInv'
  BY <1>1, <1>3, <1>5 DEF BufferInv
<1>7. NameInv' /\ QuietInv'
  BY <1>1 DEF NowInv, NameInv, QuietInv, Quiet, Request, Unsupported
<1> QED
  BY <1>6, <1>7 DEF NowInv

\* What is in the buffer at the end is the answer.
LEMMA WholeAnswer ==
  ASSUME NowInv
  PROVE  AnswersSeparate
<1> SUFFICES ASSUME at = "read", left = 0
             PROVE  Parses(buf) /\ buf[1].of = answer
  BY DEF AnswersSeparate
<1>1. /\ buf \in Seq(Piece(answer)) /\ buf # <<>>
      /\ \A i \in 1..Len(buf) : buf[i].last <=> i = Len(buf)
  BY DEF NowInv, BufferInv
<1>2. \A i \in 1..Len(buf) : buf[i].of = answer
  <2>1. \A i \in 1..Len(buf) : buf[i] \in Piece(answer)
    BY <1>1
  <2> QED
    BY <2>1 DEF Piece
<1>3. 1 \in 1..Len(buf)
  BY <1>1
<1> QED
  BY <1>1, <1>2, <1>3 DEF Parses

\* The user selects: unless it is what was selected before, the call is no
\* longer a quiet one.
LEMMA SelectNow ==
  ASSUME NowInv, UserSelects
  PROVE  NowInv'
<1>1. now' \in [Selectors -> Names] /\ now' \in seen' /\ seen' = seen \cup {now'}
  BY DEF UserSelects, NowInv, NameInv
<1>2. UNCHANGED <<at, s, answer, left, buf>>
  BY DEF UserSelects
<1>3. Quiet' => Quiet /\ now' = now
  BY <1>1 DEF Quiet, NowInv, NameInv
<1>4. BufferInv' /\ NameInv'
  BY <1>1, <1>2 DEF NowInv, BufferInv, NameInv, Request
<1>5. QuietInv'
  BY <1>2, <1>3 DEF NowInv, QuietInv, Request, Unsupported
<1> QED
  BY <1>4, <1>5 DEF NowInv

\* The answer is used: the name moves on, now() returns, or an assertion fails.
LEMMA UseNow ==
  ASSUME NowInv, Use
  PROVE  NowInv'
<1>1. /\ at = "read" /\ left = 0 /\ Request = answer.to /\ answer.to \in Requests
      /\ UNCHANGED <<now, answer, left, switches, seen>>
  BY DEF Use, Request, NowInv, NameInv
<1>2. Parses(buf) /\ buf[1].of = answer
  BY <1>1, WholeAnswer DEF AnswersSeparate
<1>3. \/ answer.to = "ask_global" /\ AfterGlobal(answer)
      \/ answer.to = "ask_selected" /\ AfterSelected(answer)
      \/ answer.to = "ask_node" /\ AfterNode(answer)
  BY <1>1, <1>2 DEF Use, Requests
<1>4. /\ answer.name = s /\ answer.type = TypeOf(s)
      /\ answer.to = "ask_global" => s = "GLOBAL"
      /\ now \in [Selectors -> Names] /\ now \in seen
  BY <1>1 DEF NowInv, NameInv
<1>5. Quiet => /\ TypeOf(s) = "Selector" => answer.now = now[s]
               /\ answer.to = "ask_selected" => s = now["GLOBAL"]
               /\ answer.to = "ask_node" =>
                    now["GLOBAL"] \in Groups /\ s = now[now["GLOBAL"]]
  BY <1>1 DEF NowInv, QuietInv
<1>6. buf' = <<>> /\ at' \in {"ask_selected", "ask_node", "returned", "abort"}
  BY <1>3 DEF AfterGlobal, AfterSelected, AfterNode, Go
<1>7. BufferInv'
  BY <1>6 DEF BufferInv
<1>8. Request' = at'
  BY <1>6 DEF Request
<1>9. at' = "returned" => s' = s /\ s \in Nodes
  BY <1>3, <1>4 DEF AfterGlobal, AfterSelected, AfterNode, Go, TypeOf
<1>10. NameInv'
  BY <1>1, <1>4, <1>6, <1>8, <1>9 DEF NameInv, Requests
<1>11. ASSUME Quiet
       PROVE  QuietInv'
  <2> USE <1>11
  <2>1. CASE answer.to = "ask_global"
    <3>1. at' = "ask_selected" /\ s' = now["GLOBAL"]
      BY <2>1, <1>3, <1>4, <1>5, Kinds DEF AfterGlobal, Go
    <3> QED
      BY <3>1, <1>1, <1>8 DEF QuietInv
  <2>2. CASE answer.to = "ask_selected"
    <3>1. s = now["GLOBAL"] /\ s \in Names
      BY <2>2, <1>4, <1>5
    <3>2. CASE s \in Nodes
      <4>1. at' = "returned" /\ s' = s
        BY <2>2, <3>2, <1>3, <1>4, Kinds DEF AfterSelected, Go
      <4>2. s = ActiveNode(now)
        BY <3>1, <3>2, <1>4, ActiveDirect
      <4> QED
        BY <4>1, <4>2, <1>1, <1>8 DEF QuietInv
    <3>3. CASE s \in Groups
      <4>1. at' = "ask_node" /\ s' = now[s]
        BY <2>2, <3>3, <1>3, <1>4, <1>5, Kinds DEF AfterSelected, Go
      <4> QED
        BY <3>1, <3>3, <4>1, <1>1, <1>8 DEF QuietInv
    <3>4. CASE s \in Others
      <4>1. at' = "abort"
        BY <2>2, <3>4, <1>3, <1>4, Kinds DEF AfterSelected, Go
      <4>2. s = ActiveNode(now) /\ s \notin Nodes
        BY <3>1, <3>4, <1>4, ActiveDirect
      <4> QED
        BY <4>1, <4>2, <1>1, <1>8 DEF QuietInv, Unsupported
    <3> QED
      BY <3>1, <3>2, <3>3, <3>4
  <2>3. CASE answer.to = "ask_node"
    <3>1. now["GLOBAL"] \in Groups /\ s = now[now["GLOBAL"]] /\ s \in Names
      BY <2>3, <1>4, <1>5
    <3>2. CASE s \in Nodes
      <4>1. at' = "returned" /\ s' = s
        BY <2>3, <3>2, <1>3, <1>4, Kinds DEF AfterNode, Go
      <4>2. s = ActiveNode(now)
        BY <3>1, <3>2, <1>4, ActiveNested
      <4> QED
        BY <4>1, <4>2, <1>1, <1>8 DEF QuietInv
    <3>3. CASE s \notin Nodes
      <4>1. at' = "abort"
        BY <2>3, <3>3, <1>3, <1>4, Kinds DEF AfterNode, Go, TypeOf
      <4>2. Unsupported
        <5>1. CASE s \in Groups
          BY <3>1, <5>1 DEF Unsupported
        <5>2. CASE s \notin Groups
          <6>1. ActiveNode(now) = s
            BY <3>1, <5>2, <1>4, ActiveNested
          <6> QED
            BY <3>3, <6>1 DEF Unsupported
        <5> QED
          BY <5>1, <5>2
      <4> QED
        BY <4>1, <4>2, <1>1, <1>8 DEF QuietInv, Unsupported
    <3> QED
      BY <3>2, <3>3
  <2> QED
    BY <2>1, <2>2, <2>3, <1>3
<1>12. QuietInv'
  BY <1>1, <1>11 DEF QuietInv, Quiet
<1> QED
  BY <1>7, <1>10, <1>12 DEF NowInv

\* A step of a call keeps NowInv.
LEMMA StepNow ==
  ASSUME NowInv, NowStep
  PROVE  NowInv'
  BY AskNow, WriteNow, UseNow DEF NowStep
------------------------------------------------------------------------------
HIDE NamesAssumption DEF Names, Selectors

\* The length of what base64encode() is given.
LEMMA UserinfoType ==
  ASSUME NEW m \in Listed
  PROVE  UserinfoRaw(m) \in Nat /\ UserinfoRaw(m) > 0
<1>1. Lengths[m] \in [method : Nat \ {0}, password : Nat \ {0}]
  BY MenuAssumption
<1>2. Lengths[m].method \in Nat /\ Lengths[m].password \in Nat
  BY <1>1
<1> QED
  BY <1>2 DEF UserinfoRaw

\* The version of a node's code under the tag of a menu item.
LEMMA VersionType ==
  ASSUME NEW m \in Listed, NEW k \in 2..Len(Menu)
  PROVE  Version[m][Menu[k]] \in Nat
<1>1. Version[m] \in [{Menu[i] : i \in 2..Len(Menu)} -> 0..40]
  BY MenuAssumption
<1>2. Menu[k] \in {Menu[i] : i \in 2..Len(Menu)}
  OBVIOUS
<1>3. Version[m][Menu[k]] \in 0..40
  BY <1>1, <1>2
<1>4. \A v \in 0..40 : v \in Nat
  OBVIOUS
<1> QED
  BY <1>3, <1>4, Zenon

\* The base64 text fits its array exactly, whatever the length of the data.
LEMMA RoomSuffices ==
  ASSUME NEW k \in Nat
  PROVE  EncodeBlock(k) = Room(k) /\ (k > 0 => EncodeBlock(k) >= 4)
  BY DEF EncodeBlock, Room

LEMMA InitSip == SInit => SipInv
<1> SUFFICES ASSUME SInit PROVE SipInv
  OBVIOUS
<1>1. NowInv
  BY InitNow DEF SInit
<1>2. 1 \in 1..Len(Menu)
  BY MenuAssumption
<1>3. MenuInv
  BY <1>2 DEF SInit, RInit, MenuInv
<1>4. TerminalInv
  <2>1. <<>> \in Seq(1..2) /\ Len(<<>>) = 0
    OBVIOUS
  <2>2. OneLineOneItem
    <3>1. where = "prompt" /\ step = 1 /\ typed = 0 /\ Len(tty) = 0
      BY <2>1 DEF SInit
    <3> QED
      BY <3>1 DEF OneLineOneItem
  <2> QED
    BY <2>1, <2>2 DEF SInit, TerminalInv
<1>5. QuietItemIsRight
  BY DEF SInit, QuietItemIsRight
<1> QED
  BY <1>1, <1>3, <1>4, <1>5 DEF SipInv

\* A line is read whole: the next item waits for the next line.
LEMMA PauseTerminal ==
  ASSUME SipInv, Pause
  PROVE  /\ stdin' = 0 /\ tty' \in Seq(1..2) /\ typed' = typed /\ eof' = eof
         /\ ~eof => typed - Len(tty') = step
<1>1. stdin = 0 /\ tty \in Seq(1..2) /\ typed \in Nat /\ step \in Nat
  BY DEF SipInv, MenuInv, TerminalInv
<1>2. stdin' = 0 /\ typed' = typed /\ eof' = eof
  BY DEF Pause, fpurge
<1>3. tty' = IF tty # <<>> THEN Tail(tty) ELSE tty
  BY <1>1 DEF Pause, Getchar
<1>4. tty' \in Seq(1..2) /\ (tty # <<>> => Len(tty') = Len(tty) - 1)
  BY <1>1, <1>3
<1>5. ASSUME ~eof
      PROVE  typed - Len(tty') = step
  <2>1. tty # <<>>
    BY <1>1, <1>5 DEF Pause, CanGetchar
  <2>2. typed - Len(tty) = step - 1
    BY <1>5 DEF Pause, SipInv, TerminalInv, OneLineOneItem
  <2> QED
    BY <1>1, <1>4, <2>1, <2>2
<1> QED
  BY <1>2, <1>4, <1>5

\* The first item: text, no code.
LEMMA LanSip ==
  ASSUME SipInv, lan
  PROVE  SipInv'
<1>1. /\ step = 1 /\ codes = <<>> /\ codes' = <<>> /\ UNCHANGED rvars
      /\ at \in {"idle", "returned"}
  BY DEF lan, Pause, SipInv, MenuInv
<1>2. \/ where' = "over" /\ step' = 1
      \/ where' = "prompt" /\ step' = 2 /\ 2 \in 1..Len(Menu)
  <2>1. Len(Menu) \in Nat /\ Len(Menu) > 0
    BY MenuAssumption
  <2>2. \/ where' = "over" /\ step' = step
        \/ Len(Menu) # 1 /\ where' = "prompt" /\ step' = 1 + 1
    BY DEF lan, Goes
  <2>3. Len(Menu) # 1 => 2 \in 1..Len(Menu)
    <3>1. \A l \in Nat : l > 0 /\ l # 1 => 2 \in 1..l
      OBVIOUS
    <3> QED
      BY <2>1, <3>1
  <2>4. step = 1
    BY <1>1
  <2> QED
    BY <2>2, <2>3, <2>4
<1>3. NowInv'
  BY <1>1 DEF SipInv, NowInv, BufferInv, NameInv, QuietInv, Quiet, Request,
              Unsupported, rvars
<1>4. MenuInv'
  BY <1>1, <1>2 DEF SipInv, MenuInv, rvars
<1>5. TerminalInv'
  BY <1>1, <1>2, PauseTerminal
     DEF lan, SipInv, TerminalInv, OneLineOneItem
<1>6. QuietItemIsRight'
  BY <1>1, <1>2 DEF QuietItemIsRight
<1> QED
  BY <1>3, <1>4, <1>5, <1>6 DEF SipInv

\* A later item: now() is called.
LEMMA CallSip ==
  ASSUME SipInv, sip002
  PROVE  SipInv'
<1>1. /\ where' = "now" /\ step' = step /\ step > 1 /\ codes' = codes
      /\ at' = "ask_global"
  BY DEF sip002, Pause, Call
<1>2. NowInv'
  BY CallNow DEF sip002, SipInv
<1>3. MenuInv'
  BY <1>1 DEF SipInv, MenuInv, Requests
<1>4. TerminalInv'
  BY <1>1, PauseTerminal DEF sip002, SipInv, TerminalInv, OneLineOneItem
<1>5. QuietItemIsRight'
  BY <1>1 DEF QuietItemIsRight
<1> QED
  BY <1>2, <1>3, <1>4, <1>5 DEF SipInv

\* The steps of main() that leave the terminal alone.
LEMMA SameTerminal ==
  ASSUME TerminalInv, UNCHANGED <<tty, stdin, eof, typed, step>>,
         where # "prompt", where' # "prompt"
  PROVE  TerminalInv'
  BY DEF TerminalInv, OneLineOneItem

\* now() runs, returns or aborts.
LEMMA InNowSip ==
  ASSUME SipInv, InNow
  PROVE  SipInv'
<1>1. /\ where = "now" /\ where' \in {"lookup", "abort", "now"}
      /\ where' = "lookup" <=> at' = "returned"
      /\ where' = "abort" <=> at' = "abort"
      /\ UNCHANGED <<step, tty, stdin, eof, typed, codes>>
  BY DEF InNow
<1>2. NowInv'
  BY StepNow DEF InNow, SipInv
<1>3. at' # "idle"
  BY DEF InNow, NowStep, Ask, write_callback, Use, AfterGlobal, AfterSelected,
         AfterNode, Go, SipInv, NowInv, NameInv, Requests
<1>4. MenuInv'
  BY <1>1, <1>2, <1>3 DEF SipInv, MenuInv, NowInv, NameInv
<1>5. TerminalInv'
  BY <1>1, SameTerminal DEF SipInv
<1>6. QuietItemIsRight'
  BY <1>1, <1>2 DEF QuietItemIsRight, NowInv, QuietInv
<1> QED
  BY <1>2, <1>4, <1>5, <1>6 DEF SipInv

\* The node is looked up.
LEMMA LookUpSip ==
  ASSUME SipInv, LookUp
  PROVE  SipInv'
<1>1. /\ where = "lookup" /\ where' = IF s \in Listed THEN "print" ELSE "abort"
      /\ at = "returned"
      /\ UNCHANGED <<rvars, step, tty, stdin, eof, typed, codes>>
  BY DEF LookUp, SipInv, MenuInv
<1>2. NowInv'
  BY <1>1 DEF SipInv, NowInv, BufferInv, NameInv, QuietInv, Quiet, Request,
              Unsupported, rvars
<1>3. MenuInv'
  BY <1>1 DEF SipInv, MenuInv, rvars
<1>4. TerminalInv'
  BY <1>1, SameTerminal DEF SipInv
<1>5. QuietItemIsRight'
  BY <1>1 DEF QuietItemIsRight, Quiet, SipInv, NowInv, QuietInv, rvars
<1> QED
  BY <1>2, <1>3, <1>4, <1>5 DEF SipInv
\* The code is printed and the menu goes on; only a code that is too small stops
\* the program here, never the size of the base64 text.
LEMMA PrintSip ==
  ASSUME SipInv, PrintCode
  PROVE  SipInv'
<1> DEFINE code == [tag |-> Menu[step], node |-> s]
<1>1. /\ where = "print" /\ at = "returned" /\ s \in Listed /\ s \in Nodes
      /\ step \in 2..Len(Menu) /\ UNCHANGED <<rvars, tty, stdin, eof, typed>>
  <2>1. step \in 1..Len(Menu) /\ step > 1
    BY DEF PrintCode, SipInv, MenuInv
  <2>2. Len(Menu) \in Nat
    BY MenuAssumption
  <2>3. step \in 2..Len(Menu)
    BY <2>1, <2>2
  <2> QED
    BY <2>3 DEF PrintCode, SipInv, MenuInv, NowInv, NameInv
<1>2. NowInv'
  BY <1>1 DEF SipInv, NowInv, BufferInv, NameInv, QuietInv, Quiet, Request,
              Unsupported, rvars
<1>3. Quiet' => s = ActiveNode(now) /\ UNCHANGED <<now, s>>
  BY <1>1 DEF Quiet, SipInv, NowInv, QuietInv, rvars
<1>4. /\ codes \in Seq([tag : STRING, node : Nodes])
      /\ code \in [tag : STRING, node : Nodes]
  <2>1. Menu[step] \in STRING
    <3>1. Menu \in Seq(STRING) /\ step \in 1..Len(Menu)
      BY MenuAssumption DEF SipInv, MenuInv
    <3> QED
      BY <3>1
  <2> QED
    BY <1>1, <2>1 DEF SipInv, MenuInv
<1>5. CASE codes' = Append(codes, code) /\ Goes(step)
  <2> HIDE DEF code
  <2>1. /\ codes' \in Seq([tag : STRING, node : Nodes])
        /\ codes' # <<>> /\ codes'[Len(codes')] = code
    BY <1>4, <1>5
  <2>2. \/ where' = "over" /\ step' = step
        \/ where' = "prompt" /\ step' = step + 1 /\ step + 1 \in 1..Len(Menu)
    <3>1. Len(Menu) \in Nat
      BY MenuAssumption
    <3>2. step # Len(Menu) => step + 1 \in 1..Len(Menu)
      BY <1>1, <3>1
    <3> QED
      BY <1>5, <3>2 DEF Goes
  <2>3. step' \in Nat /\ step' > 1 /\ step' \in 1..Len(Menu)
    BY <1>1, <2>2 DEF SipInv, MenuInv
  <2>4. MenuInv'
    BY <1>1, <2>1, <2>2, <2>3 DEF MenuInv, rvars
  <2>5. ~eof => typed - Len(tty) = step
    BY <1>1 DEF SipInv, TerminalInv, OneLineOneItem
  <2>6. step' - (IF where' = "prompt" THEN 1 ELSE 0) = step
    BY <1>1, <2>2
  <2>7. TerminalInv'
    BY <1>1, <2>5, <2>6 DEF SipInv, TerminalInv, OneLineOneItem
  <2>8. (IF where' = "prompt" THEN step' - 1 ELSE step') = step
    BY <1>1, <2>2
  <2>9. QuietItemIsRight'
    BY <1>3, <2>1, <2>2, <2>8 DEF QuietItemIsRight, code
  <2> QED
    BY <1>2, <2>4, <2>7, <2>9 DEF SipInv
<1>6. CASE /\ where' = "abort" /\ UNCHANGED <<step, codes>>
           /\ Version[s][Menu[step]] < 5
  <2>1. MenuInv'
    BY <1>1, <1>6 DEF SipInv, MenuInv
  <2>2. TerminalInv'
    BY <1>1, <1>6, SameTerminal DEF SipInv
  <2>3. QuietItemIsRight'
    BY <1>3, <1>6 DEF QuietItemIsRight
  <2> QED
    BY <1>2, <2>1, <2>2, <2>3 DEF SipInv
<1>7. /\ EncodeBlock(UserinfoRaw(s)) >= 4
      /\ EncodeBlock(UserinfoRaw(s)) <= Room(UserinfoRaw(s))
  <2>1. UserinfoRaw(s) \in Nat /\ UserinfoRaw(s) > 0
    BY <1>1, UserinfoType
  <2>2. EncodeBlock(UserinfoRaw(s)) \in Nat
    BY <2>1 DEF EncodeBlock
  <2> QED
    BY <2>1, <2>2, RoomSuffices
<1>8. Version[s][Menu[step]] >= 5 \/ Version[s][Menu[step]] < 5
  BY <1>1, VersionType
<1> QED
  BY <1>5, <1>6, <1>7, <1>8 DEF PrintCode

\* The user types, hangs up or selects, or nothing happens.
LEMMA UserSip ==
  ASSUME SipInv,
         \/ where \notin {"over", "abort"} /\ (UserTypes \/ HangsUp \/ Selects)
         \/ UNCHANGED svars
  PROVE  SipInv'
<1>1. CASE Selects
  <2>1. NowInv' /\ UNCHANGED <<at, s, mvars>>
    BY <1>1, SelectNow DEF Selects, UserSelects, SipInv
  <2>2. Quiet' => Quiet /\ now' = now
    BY <1>1 DEF Selects, UserSelects, Quiet, SipInv, NowInv, NameInv
  <2>3. MenuInv' /\ TerminalInv'
    BY <2>1 DEF SipInv, MenuInv, TerminalInv, OneLineOneItem, mvars
  <2>4. QuietItemIsRight'
    BY <2>1, <2>2 DEF SipInv, QuietItemIsRight, Unsupported, mvars
  <2> QED
    BY <2>1, <2>3, <2>4 DEF SipInv
<1>2. CASE UNCHANGED rvars /\ UNCHANGED <<step, where, codes>>
  <2>1. NowInv' /\ MenuInv' /\ QuietItemIsRight'
    BY <1>2 DEF SipInv, NowInv, BufferInv, NameInv, QuietInv, Quiet, Request,
                Unsupported, MenuInv, QuietItemIsRight, rvars
  <2>2. CASE UserTypes
    <3>1. PICK k \in 1..2 : tty' = Append(tty, k)
      BY <2>2 DEF UserTypes
    <3>2. /\ tty \in Seq(1..2) /\ typed \in Nat /\ typed' = typed + 1
          /\ UNCHANGED <<stdin, eof>>
      BY <2>2 DEF UserTypes, SipInv, TerminalInv
    <3>3. tty' \in Seq(1..2) /\ Len(tty') = Len(tty) + 1 /\ Len(tty) \in Nat
      BY <3>1, <3>2
    <3>4. typed' - Len(tty') = typed - Len(tty)
      BY <3>2, <3>3
    <3> QED
      BY <1>2, <2>1, <3>2, <3>3, <3>4 DEF SipInv, TerminalInv, OneLineOneItem
  <2>3. CASE HangsUp \/ UNCHANGED svars
    BY <1>2, <2>1, <2>3
       DEF HangsUp, svars, mvars, SipInv, TerminalInv, OneLineOneItem
  <2>4. CASE Selects
    BY <1>1, <2>4
  <2> QED
    BY <2>2, <2>3, <2>4
<1> QED
  BY <1>1, <1>2 DEF UserTypes, HangsUp, svars, mvars

\* now(), the menu and the terminal are as described at every step.
THEOREM SipCorrect == SSpec => []SipInv
<1>1. ASSUME SipInv, [SNext]_svars
      PROVE  SipInv'
  BY <1>1, LanSip, CallSip, InNowSip, LookUpSip, PrintSip, UserSip
     DEF SNext, MainStep, Over
<1> QED
  BY <1>1, InitSip, PTL DEF SSpec

\* now() returns a Shadowsocks node or aborts, whatever is selected meanwhile.
THEOREM ReturnsNodeAlways == SSpec => []ReturnsNode
<1>1. SipInv => ReturnsNode
  BY DEF SipInv, NowInv, NameInv, ReturnsNode
<1> QED
  BY <1>1, SipCorrect, PTL

\* Every answer is parsed on its own, from one call of now() to the next.
THEOREM AnswersSeparateAlways == SSpec => []AnswersSeparate
<1>1. SipInv => AnswersSeparate
  BY WholeAnswer DEF SipInv
<1> QED
  BY <1>1, SipCorrect, PTL

\* An item during which nobody selects prints the active node under its tag, and
\* stops the program only for the three reasons named.
THEOREM QuietItemIsRightAlways == SSpec => []QuietItemIsRight
<1>1. SipInv => QuietItemIsRight
  BY DEF SipInv
<1> QED
  BY <1>1, SipCorrect, PTL

\* No line confirms two items, and no item is confirmed without one.
THEOREM OneLineOneItemAlways == SSpec => []OneLineOneItem
<1>1. SipInv => OneLineOneItem
  BY DEF SipInv, TerminalInv
<1> QED
  BY <1>1, SipCorrect, PTL
==============================================================================
