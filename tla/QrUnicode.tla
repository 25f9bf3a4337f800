------------------------------ MODULE QrUnicode ------------------------------
(***************************************************************************)
(* bin.sip002/main.c, qr_unicode(): prints a QR matrix two rows to a line   *)
(* of half-block characters, with an empty margin around it.  One action    *)
(* per kind of line; i counts the lines of the loop the printer is in.  The *)
(* branch for an odd margin is left out: margin is a constant, 4.           *)
(***************************************************************************)
EXTENDS Integers, Sequences

CONSTANTS Margin,  \* rows and columns of margin
          Widths   \* the widths of the codes that are printed: odd, as QR's

ASSUME QrAssumption ==
  /\ Margin \in Nat /\ Margin % 2 = 0
  /\ Widths \subseteq Nat /\ \A w \in Widths : w % 2 = 1

\* What each character shows in its upper and its lower half (1 = blank).
Shows == [F |-> <<1, 1>>, U |-> <<1, 0>>, D |-> <<0, 1>>, E |-> <<0, 0>>]

VARIABLES
  q,      \* the code: its width and its modules' lowest bits
  loop,   \* the loop of qr_unicode: "top", "rows", "tail", "bottom", "done"
  i,      \* its counter
  out     \* the lines printed

vars == <<q, loop, i, out>>

Init ==
  /\ \E w \in Widths :
       q \in [width : {w}, bit : [0..(w - 1) -> [0..(w - 1) -> {0, 1}]]]
  /\ loop = "top" /\ i = 0 /\ out = <<>>

------------------------------------------------------------------------------
Blank(n) == [c \in 1..n |-> "E"]

\* A line: margin, one character per column of the code, margin.
Line(char(_)) ==
  Blank(Margin) \o [c \in 1..q.width |-> char(c - 1)] \o Blank(Margin)

PutLine(line) == out' = Append(out, line) /\ UNCHANGED q

qr_unicode_duo_empty == PutLine(Blank(Margin + q.width + Margin))

\* Mutant: the halves of a line are exchanged.
qr_unicode_duo_swapped(r0, r1) ==
  LET char(c) ==
        CASE q.bit[r0][c] = 1 /\ q.bit[r1][c] = 1 -> "F"
          [] q.bit[r0][c] = 1 /\ q.bit[r1][c] = 0 -> "D"
          [] q.bit[r0][c] = 0 /\ q.bit[r1][c] = 1 -> "U"
          [] q.bit[r0][c] = 0 /\ q.bit[r1][c] = 0 -> "E"
  IN  PutLine(Line(char))

\* qr_unicode_duo(r0,r1): r0 in the upper half, r1 in the lower.
qr_unicode_duo(r0, r1) ==
  LET char(c) ==
        CASE q.bit[r0][c] = 1 /\ q.bit[r1][c] = 1 -> "F"
          [] q.bit[r0][c] = 1 /\ q.bit[r1][c] = 0 -> "U"
          [] q.bit[r0][c] = 0 /\ q.bit[r1][c] = 1 -> "D"
          [] q.bit[r0][c] = 0 /\ q.bit[r1][c] = 0 -> "E"
  IN  PutLine(Line(char))

\* qr_unicode_lone(head): row 0 with U, or the last row with D.
qr_unicode_lone(head) ==
  LET char(c) ==
        IF head THEN IF q.bit[0][c] = 1 THEN "U" ELSE "E"
                ELSE IF q.bit[q.width - 1][c] = 1 THEN "D" ELSE "E"
  IN  PutLine(Line(char))

\* The macro for the line below the last pair of rows.
qr_unicode_lone_tail == qr_unicode_lone(TRUE)

\* for(;i<n;++i): another round, or on to the next loop.
Round(l, n, body) == loop = l /\ i < n /\ body /\ i' = i + 1 /\ loop' = l

Leave(l, n, next) ==
  loop = l /\ i >= n /\ i' = 0 /\ loop' = next /\ UNCHANGED <<q, out>>

Top ==
  \/ Round("top", Margin \div 2, qr_unicode_duo_empty)
  \/ Leave("top", Margin \div 2, "rows")

Rows ==
  \/ Round("rows", q.width \div 2, qr_unicode_duo(2 * i, 2 * i + 1))
  \/ Leave("rows", q.width \div 2, "tail")

LastRow ==
  /\ loop = "tail"
  /\ q.width % 2 = 1
  /\ qr_unicode_lone_tail
  /\ i' = 0 /\ loop' = "bottom"

\* Mutant: one line short.
BottomLinesShort == (Margin - 1) \div 2

BottomLines == (Margin + ((Margin + q.width + 1) % 2)) \div 2

Bottom ==
  \/ Round("bottom", BottomLines, qr_unicode_duo_empty)
  \/ Leave("bottom", BottomLines, "done")

Done == loop = "done" /\ UNCHANGED vars

Next == Top \/ Rows \/ LastRow \/ Bottom \/ Done

Spec == Init /\ [][Next]_vars

------------------------------------------------------------------------------
\* The picture: half-row r of the printed lines, column c (1 = dark module).
Pixel(r, c) == Shows[out[(r \div 2) + 1][c + 1]][(r % 2) + 1]

Height == 2 * Len(out)

Inside(r, c) ==
  r \in Margin..(Margin + q.width - 1) /\ c \in Margin..(Margin + q.width - 1)

\* Every module of the code but those of the last row is where it belongs, and
\* nothing else is dark.
PictureExceptLastRow ==
  loop = "done" =>
    \A r \in 0..(Height - 1), c \in 0..(2 * Margin + q.width - 1) :
      r # Margin + q.width - 1 =>
        Pixel(r, c) = IF Inside(r, c) THEN q.bit[r - Margin][c - Margin] ELSE 0

\* The picture has the full margin on all sides, and no line is longer or
\* shorter than the others.
QuietZone ==
  loop = "done" =>
    /\ Height >= Margin + q.width + Margin
    /\ \A n \in 1..Len(out) : Len(out[n]) = Margin + q.width + Margin

\* main.c:139, "Print QR code of SIP002 URI": the picture is the code.
PictureIsCode ==
  loop = "done" =>
    \A r \in 0..(q.width - 1), c \in 0..(q.width - 1) :
      Pixel(Margin + r, Margin + c) = q.bit[r][c]
==============================================================================
