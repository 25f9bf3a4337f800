-------------------------------- MODULE Sip002 --------------------------------
(***************************************************************************)
(* bin.sip002/main.c: clash_sip002 goes through a menu.  At each item it     *)
(* waits for a line from the user, who has selected the node he wants there; *)
(* then it asks clash for the node in use (now(), Restful), looks it up in   *)
(* the configuration (yaml2profile(), see ConfigPipeline) and prints its URI *)
(* as a QR code under the item's tag.  The first item is plain text.         *)
(***************************************************************************)
EXTENDS Restful

CONSTANTS Menu,      \* "LAN", then the tags
          Listed,    \* the nodes of the configuration
          Lengths,   \* the lengths of their methods and passwords
          Version,   \* what QRcode_encodeString() makes of a node's URI under a tag:
                     \* the version of the code, 0 if the URI is too long for any
          MaxLines   \* how many lines the user types

ASSUME MenuAssumption ==
  /\ Menu \in Seq(STRING) /\ Menu # <<>> /\ Menu[1] = "LAN"
  /\ Listed \subseteq Nodes
  /\ Lengths \in [Listed -> [method : Nat \ {0}, password : Nat \ {0}]]
  /\ Version \in [Listed -> [{Menu[i] : i \in 2..Len(Menu)} -> 0..40]]
  /\ MaxLines \in Nat

VARIABLES
  step,    \* the menu item
  where,   \* main(): "prompt", "now", "lookup", "print", "over", "abort"
  tty,     \* the lines typed and not yet read: their lengths
  stdin,   \* the characters in stdio's buffer
  eof,     \* the terminal has hung up
  typed,   \* how many lines the user has typed
  codes    \* the codes printed

mvars == <<step, where, tty, stdin, eof, typed, codes>>
svars == <<rvars, mvars>>

SInit ==
  /\ RInit
  /\ step = 1 /\ where = "prompt"
  /\ tty = <<>> /\ stdin = 0 /\ eof = FALSE /\ typed = 0
  /\ codes = <<>>

------------------------------------------------------------------------------
\* getchar(): from the buffer if something is in it, else read() takes one line
\* of the terminal, or finds the end.
CanGetchar == stdin > 0 \/ tty # <<>> \/ eof

Getchar ==
  IF stdin > 0 THEN [left |-> stdin - 1, tty |-> tty]
  ELSE IF tty # <<>> THEN [left |-> Head(tty) - 1, tty |-> Tail(tty)]
  ELSE [left |-> 0, tty |-> tty]

\* Mutant: the rest of the line stays.
fpurge_forgotten(n) == n

\* __fpurge(stdin): what was in the buffer is gone.
fpurge(n) == 0

\* getchar();__fpurge(stdin);
Pause ==
  /\ where = "prompt" /\ CanGetchar
  /\ stdin' = fpurge(Getchar.left) /\ tty' = Getchar.tty
  /\ UNCHANGED <<eof, typed, codes>>

\* The menu goes on after item k.
Goes(k) ==
  IF k = Len(Menu) THEN where' = "over" /\ UNCHANGED step
  ELSE where' = "prompt" /\ step' = k + 1

\* lan(): the user has confirmed the first item and gets its text.
lan ==
  /\ step = 1 /\ Pause
  /\ Goes(1)
  /\ UNCHANGED rvars

\* sip002(tag): the user has confirmed, now() is called.
sip002 ==
  /\ step > 1 /\ Pause
  /\ Call
  /\ where' = "now" /\ UNCHANGED step

\* A step of now(); assert(title&&strlen(title)) is part of its own.
InNow ==
  /\ where = "now"
  /\ NowStep
  /\ where' = CASE at' = "returned" -> "lookup"
                [] at' = "abort"    -> "abort"
                [] OTHER            -> "now"
  /\ UNCHANGED <<step, tty, stdin, eof, typed, codes>>

\* yaml2profile(false,&p,YAML_PATH,title)
LookUp ==
  /\ where = "lookup"
  /\ where' = IF s \in Listed THEN "print" ELSE "abort"
  /\ UNCHANGED <<rvars, step, tty, stdin, eof, typed, codes>>

\* strlen(userinfo_raw), which is sz-1: method ':' password.
UserinfoRaw(n) == Lengths[n].method + 1 + Lengths[n].password

\* What EVP_EncodeBlock() writes, less the NUL: four for every three begun.
EncodeBlock(n) == 4 * (n \div 3 + IF n % 3 = 0 THEN 0 ELSE 1)

\* char userinfo[((sz-1)+2)/3*4+1], less the NUL.
Room(n) == ((n + 2) \div 3) * 4

\* base64encode() with its assertion, the URI, its code and qr_unicode(): the
\* library chooses the smallest version that holds the text, which depends on the
\* runs of digits, capitals and % in it; assert(5<=q->version).  Without a code q
\* is NULL and the program ends at the same line.
PrintCode ==
  /\ where = "print"
  /\ LET written == EncodeBlock(UserinfoRaw(s))
         ok == /\ written >= 4 /\ written <= Room(UserinfoRaw(s))
               /\ Version[s][Menu[step]] >= 5
     IN  IF ok
           THEN /\ codes' = Append(codes, [tag |-> Menu[step], node |-> s])
                /\ Goes(step)
           ELSE where' = "abort" /\ UNCHANGED <<step, codes>>
  /\ UNCHANGED <<rvars, tty, stdin, eof, typed>>

------------------------------------------------------------------------------
\* The user types a line: Enter alone, or a character before it.
UserTypes ==
  /\ typed < MaxLines /\ ~eof
  /\ \E n \in 1..2 : tty' = Append(tty, n)
  /\ typed' = typed + 1
  /\ UNCHANGED <<rvars, step, where, stdin, eof, codes>>

\* Ctrl-D, or the terminal is gone.
HangsUp ==
  /\ ~eof /\ eof' = TRUE
  /\ UNCHANGED <<rvars, step, where, tty, stdin, typed, codes>>

Selects == UserSelects /\ UNCHANGED mvars

Over == where \in {"over", "abort"} /\ UNCHANGED svars

MainStep == lan \/ sip002 \/ InNow \/ LookUp \/ PrintCode

SNext ==
  \/ MainStep
  \/ where \notin {"over", "abort"} /\ (UserTypes \/ HangsUp \/ Selects)
  \/ Over

\* The program and clash are scheduled; nothing makes the user type or select.
SSpec == SInit /\ [][SNext]_svars /\ WF_svars(MainStep)

------------------------------------------------------------------------------
\* A code that is printed while nobody selects anything is the active node's,
\* under the tag the user was asked for; and such an item stops the program
\* only for a selection that is not supported, a node that the configuration
\* does not have, or a code that is too small for line 189 (the same node can
\* pass under one tag and stop the program under another); never for the room
\* that was made for its base64 text.
QuietItemIsRight ==
  Quiet =>
    /\ where \in {"prompt", "over"} /\ codes # <<>> =>
         codes[Len(codes)] =
           [node |-> ActiveNode(now),
            tag |-> Menu[IF where = "prompt" THEN step - 1 ELSE step]]
    /\ where = "abort" =>
         \/ Unsupported
         \/ ActiveNode(now) \notin Listed
         \/ Version[ActiveNode(now)][Menu[step]] < 5

\* As long as the terminal is there every item takes a line of its own: a line
\* of several characters never confirms two items.
OneLineOneItem ==
  ~eof =>
    typed - Len(tty) = step - (IF where = "prompt" THEN 1 ELSE 0)

\* A line that is there at a prompt is followed by the next prompt, by the end
\* or by an assertion: neither now() nor the stdin of main() waits for ever.
PromptAnswered ==
  \A k \in 1..Len(Menu) :
    (where = "prompt" /\ step = k /\ tty # <<>>) ~>
      (step > k \/ where \in {"over", "abort"})
==============================================================================
