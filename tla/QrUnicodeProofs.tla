--------------------------- MODULE QrUnicodeProofs ---------------------------
(***************************************************************************)
(* Proofs about QrUnicode for codes of any odd width and any even margin:   *)
(* what the printer has put out so far is told line by line and column by   *)
(* column, from the loop it is in and the loop's counter.                   *)
(***************************************************************************)
EXTENDS QrUnicode, TLAPS

Chars == {"F", "U", "D", "E"}

W == Margin + q.width + Margin   \* columns of a line
H == Margin \div 2               \* lines of margin above the code
K == q.width \div 2              \* lines that show two rows

\* The character for an upper and a lower module.
Half(a, b) ==
  CASE a = 1 /\ b = 1 -> "F"
    [] a = 1 /\ b = 0 -> "U"
    [] a = 0 /\ b = 1 -> "D"
    [] a = 0 /\ b = 0 -> "E"

\* The character in column c of line n.
Printed(n, c) ==
  IF c \in (Margin + 1)..(Margin + q.width)
    THEN IF n \in (H + 1)..(H + K)
           THEN Half(q.bit[2 * (n - H - 1)][c - Margin - 1],
                     q.bit[2 * (n - H - 1) + 1][c - Margin - 1])
           ELSE IF n = H + K + 1 /\ q.bit[0][c - Margin - 1] = 1 THEN "U" ELSE "E"
    ELSE "E"

\* The code is one that can be printed.
CodeInv ==
  /\ q.width \in Nat /\ q.width % 2 = 1
  /\ q.bit \in [0..(q.width - 1) -> [0..(q.width - 1) -> {0, 1}]]

\* How many lines are out.
CountInv ==
  /\ i \in Nat
  /\ \/ loop = "top" /\ i <= H /\ Len(out) = i
     \/ loop = "rows" /\ i <= K /\ Len(out) = H + i
     \/ loop = "tail" /\ Len(out) = H + K
     \/ loop = "bottom" /\ i <= H /\ Len(out) = H + K + 1 + i
     \/ loop = "done" /\ Len(out) = H + K + 1 + H

\* Which ones they are.
LinesInv ==
  /\ out \in Seq([1..W -> Chars])
  /\ \A n \in 1..Len(out), c \in 1..W : out[n][c] = Printed(n, c)

QrInv == CodeInv /\ CountInv /\ LinesInv

\* Half the margin, and the rows that are printed two to a line.
LEMMA Halves ==
  ASSUME CodeInv
  PROVE  /\ H \in Nat /\ Margin = 2 * H /\ Margin \in Nat
         /\ K \in Nat /\ q.width = 2 * K + 1 /\ q.width \in Nat
         /\ BottomLines = H
         /\ W \in Nat
<1>1. Margin \in Nat /\ Margin % 2 = 0
  BY QrAssumption
<1>2. Margin \div 2 \in Nat /\ Margin = 2 * (Margin \div 2)
  BY <1>1
<1>3. q.width \in Nat /\ q.width % 2 = 1
  BY DEF CodeInv
<1>4. q.width \div 2 \in Nat /\ q.width = 2 * (q.width \div 2) + 1
  BY <1>3
<1>5. (Margin + q.width + 1) % 2 = 0
  BY <1>2, <1>4
<1>6. BottomLines = H
  BY <1>1, <1>5 DEF BottomLines, H
<1> QED
  BY <1>1, <1>2, <1>3, <1>4, <1>6 DEF H, K, W

\* A module of the code is light or dark.
LEMMA Bits ==
  ASSUME CodeInv, NEW r \in 0..(q.width - 1), NEW c \in 0..(q.width - 1)
  PROVE  q.bit[r][c] \in {0, 1}
  BY DEF CodeInv

\* A line is margin, the characters of the code and margin.
LEMMA LineIs ==
  ASSUME CodeInv, NEW m \in [1..q.width -> Chars]
  PROVE  LET l == Blank(Margin) \o m \o Blank(Margin)
         IN  /\ l \in [1..W -> Chars]
             /\ \A c \in 1..W : l[c] = IF c \in (Margin + 1)..(Margin + q.width)
                                         THEN m[c - Margin] ELSE "E"
<1> DEFINE b == Blank(Margin)
           l == b \o m \o b
<1>1. Margin \in Nat /\ q.width \in Nat
  BY Halves
<1>2. b \in Seq(Chars) /\ Len(b) = Margin /\ \A c \in 1..Margin : b[c] = "E"
  BY <1>1 DEF Blank, Chars
<1>3. m \in Seq(Chars) /\ Len(m) = q.width
  BY <1>1
<1> HIDE DEF b
<1>4. b \o m \in Seq(Chars) /\ Len(b \o m) = Margin + q.width
  BY <1>1, <1>2, <1>3
<1>5. l \in Seq(Chars) /\ Len(l) = W
  BY <1>1, <1>2, <1>4 DEF W
<1> HIDE DEF l
<1>6. l \in [1..W -> Chars]
  BY <1>5
<1> USE DEF l
<1>7. ASSUME NEW c \in 1..W
      PROVE  l[c] = IF c \in (Margin + 1)..(Margin + q.width) THEN m[c - Margin] ELSE "E"
  <2>1. CASE c \in 1..Margin
    BY <1>1, <1>2, <1>3, <1>4, <2>1
  <2>2. CASE c \in (Margin + 1)..(Margin + q.width)
    BY <1>1, <1>2, <1>3, <1>4, <2>2
  <2>3. CASE c \in (Margin + q.width + 1)..W
    BY <1>1, <1>2, <1>3, <1>4, <2>3 DEF W
  <2>4. \/ c \in 1..Margin
        \/ c \in (Margin + 1)..(Margin + q.width)
        \/ c \in (Margin + q.width + 1)..W
    BY <1>1 DEF W
  <2> QED
    BY <2>1, <2>2, <2>3, <2>4
<1> QED
  BY <1>6, <1>7 DEF b

\* A line that is what it should be leaves the printed ones so.
LEMMA LineAdded ==
  ASSUME QrInv, NEW line \in [1..W -> Chars], PutLine(line),
         \A c \in 1..W : line[c] = Printed(Len(out) + 1, c)
  PROVE  LinesInv' /\ Len(out') = Len(out) + 1 /\ CodeInv' /\ H' = H /\ K' = K
<1>1. q' = q /\ out' = Append(out, line)
  BY DEF PutLine
<1>2. W' = W /\ H' = H /\ K' = K
  BY <1>1 DEF W, H, K
<1>3. \A n, c : Printed(n, c)' = Printed(n, c)
  BY <1>1, <1>2 DEF Printed, Half
<1>4. out \in Seq([1..W -> Chars])
  BY DEF QrInv, LinesInv
<1>5. /\ out' \in Seq([1..W -> Chars]) /\ Len(out') = Len(out) + 1 /\ Len(out) \in Nat
      /\ \A n \in 1..Len(out) : out'[n] = out[n]
      /\ out'[Len(out) + 1] = line
  BY <1>1, <1>4
<1>6. ASSUME NEW n \in 1..Len(out'), NEW c \in 1..W
      PROVE  out'[n][c] = Printed(n, c)
  <2>1. CASE n \in 1..Len(out)
    BY <1>5, <2>1 DEF QrInv, LinesInv
  <2>2. CASE n = Len(out) + 1
    BY <1>5, <2>2
  <2> QED
    BY <1>5, <2>1, <2>2
<1>7. LinesInv'
  BY <1>2, <1>3, <1>5, <1>6 DEF LinesInv
<1> QED
  BY <1>1, <1>2, <1>5, <1>7 DEF QrInv, CodeInv

\* The lines of margin.
LEMMA EmptyLine ==
  ASSUME QrInv, qr_unicode_duo_empty, Len(out) < H \/ Len(out) > H + K
  PROVE  LinesInv' /\ Len(out') = Len(out) + 1 /\ CodeInv' /\ H' = H /\ K' = K
<1> DEFINE line == Blank(Margin + q.width + Margin)
<1>1. W \in Nat /\ H \in Nat /\ K \in Nat
  BY Halves DEF QrInv
<1>2. line \in [1..W -> Chars] /\ \A c \in 1..W : line[c] = "E"
  BY DEF Blank, W, Chars
<1>3. Len(out) \in Nat
  BY DEF QrInv, LinesInv
<1>4. \A c : Printed(Len(out) + 1, c) = "E"
  BY <1>1, <1>3 DEF Printed
<1>5. PutLine(line)
  BY DEF qr_unicode_duo_empty
<1> HIDE DEF line
<1> QED
  BY <1>2, <1>4, <1>5, LineAdded

\* The lines of two rows.
LEMMA DuoLine ==
  ASSUME QrInv, i < K, Len(out) = H + i, qr_unicode_duo(2 * i, 2 * i + 1)
  PROVE  LinesInv' /\ Len(out') = Len(out) + 1 /\ CodeInv' /\ H' = H /\ K' = K
<1> DEFINE m == [c \in 1..q.width |-> Half(q.bit[2 * i][c - 1], q.bit[2 * i + 1][c - 1])]
           line == Blank(Margin) \o m \o Blank(Margin)
<1>1. /\ W \in Nat /\ H \in Nat /\ K \in Nat /\ Margin \in Nat
      /\ q.width = 2 * K + 1 /\ i \in Nat
  BY Halves DEF QrInv, CountInv
<1>2. ASSUME NEW c \in 1..q.width PROVE m[c] \in Chars
  <2>1. c - 1 \in 0..(q.width - 1)
    BY <1>1
  <2>2. 2 * i \in 0..(q.width - 1) /\ 2 * i + 1 \in 0..(q.width - 1)
    BY <1>1
  <2>3. q.bit[2 * i][c - 1] \in {0, 1} /\ q.bit[2 * i + 1][c - 1] \in {0, 1}
    BY <2>1, <2>2, Bits DEF QrInv
  <2> QED
    BY <2>3 DEF Half, Chars
<1>3. m \in [1..q.width -> Chars]
  BY <1>2
<1>4. PutLine(line)
  BY DEF qr_unicode_duo, Line, Half
<1>5. \A c \in 1..q.width : m[c] = Half(q.bit[2 * i][c - 1], q.bit[2 * i + 1][c - 1])
  OBVIOUS
<1> HIDE DEF m
<1>6. /\ line \in [1..W -> Chars]
      /\ \A c \in 1..W : line[c] = IF c \in (Margin + 1)..(Margin + q.width)
                                     THEN m[c - Margin] ELSE "E"
  BY <1>3, LineIs DEF QrInv
<1> HIDE DEF line
<1>7. ASSUME NEW c \in 1..W PROVE line[c] = Printed(Len(out) + 1, c)
  <2>1. H + i + 1 \in (H + 1)..(H + K) /\ (H + i + 1) - H - 1 = i
    BY <1>1
  <2>2. CASE c \in (Margin + 1)..(Margin + q.width)
    <3>1. c - Margin \in 1..q.width
      BY <1>1, <2>2
    <3> QED
      BY <1>5, <1>6, <2>1, <2>2, <3>1 DEF Printed
  <2>3. CASE c \notin (Margin + 1)..(Margin + q.width)
    BY <1>6, <2>3 DEF Printed
  <2> QED
    BY <2>2, <2>3
<1> QED
  BY <1>4, <1>6, <1>7, LineAdded

\* The line below them, which repeats the first row.
LEMMA TailLine ==
  ASSUME QrInv, Len(out) = H + K, qr_unicode_lone_tail
  PROVE  LinesInv' /\ Len(out') = Len(out) + 1 /\ CodeInv' /\ H' = H /\ K' = K
<1> DEFINE m == [c \in 1..q.width |-> IF q.bit[0][c - 1] = 1 THEN "U" ELSE "E"]
           line == Blank(Margin) \o m \o Blank(Margin)
<1>1. /\ W \in Nat /\ H \in Nat /\ K \in Nat /\ Margin \in Nat /\ q.width \in Nat
  BY Halves DEF QrInv
<1>2. m \in [1..q.width -> Chars]
  BY DEF Chars
<1>3. PutLine(line)
  BY DEF qr_unicode_lone_tail, qr_unicode_lone, Line
<1>4. \A c \in 1..q.width : m[c] = IF q.bit[0][c - 1] = 1 THEN "U" ELSE "E"
  OBVIOUS
<1> HIDE DEF m
<1>5. /\ line \in [1..W -> Chars]
      /\ \A c \in 1..W : line[c] = IF c \in (Margin + 1)..(Margin + q.width)
                                     THEN m[c - Margin] ELSE "E"
  BY <1>2, LineIs DEF QrInv
<1> HIDE DEF line
<1>6. ASSUME NEW c \in 1..W PROVE line[c] = Printed(Len(out) + 1, c)
  <2>1. H + K + 1 \notin (H + 1)..(H + K)
    BY <1>1
  <2>2. CASE c \in (Margin + 1)..(Margin + q.width)
    <3>1. c - Margin \in 1..q.width
      BY <1>1, <2>2
    <3> QED
      BY <1>4, <1>5, <2>1, <2>2, <3>1 DEF Printed
  <2>3. CASE c \notin (Margin + 1)..(Margin + q.width)
    BY <1>5, <2>3 DEF Printed
  <2> QED
    BY <2>2, <2>3
<1> QED
  BY <1>3, <1>5, <1>6, LineAdded

\* A step that prints nothing.
LEMMA NoLine ==
  ASSUME QrInv, UNCHANGED <<q, out>>
  PROVE  LinesInv' /\ CodeInv' /\ H' = H /\ K' = K
<1>1. W' = W /\ H' = H /\ K' = K
  BY DEF W, H, K
<1>2. \A n, c : Printed(n, c)' = Printed(n, c)
  BY <1>1 DEF Printed, Half
<1> QED
  BY <1>1, <1>2 DEF QrInv, LinesInv, CodeInv

\* The invariant holds for every code, line by line.
THEOREM QrCorrect == Spec => []QrInv
<1>1. Init => QrInv
  <2> SUFFICES ASSUME Init PROVE QrInv
    OBVIOUS
  <2>1. CodeInv
    BY QrAssumption DEF Init, CodeInv
  <2>2. CountInv
    BY <2>1, Halves DEF Init, CountInv
  <2>3. LinesInv
    BY DEF Init, LinesInv
  <2> QED
    BY <2>1, <2>2, <2>3 DEF QrInv
<1>2. ASSUME QrInv, [Next]_vars
      PROVE  QrInv'
  <2>1. H \in Nat /\ K \in Nat /\ BottomLines = H /\ i \in Nat /\ Len(out) \in Nat
    BY <1>2, Halves DEF QrInv, CountInv, LinesInv
  <2>2. CountInv
    BY <1>2 DEF QrInv
  <2> USE DEF QrInv
  <2>3. CASE Round("top", Margin \div 2, qr_unicode_duo_empty)
    <3>1. loop = "top" /\ i < H /\ i' = i + 1 /\ loop' = "top" /\ qr_unicode_duo_empty
      BY <2>3 DEF Round, H
    <3>2. Len(out) < H
      BY <2>1, <2>2, <3>1 DEF CountInv
    <3>3. LinesInv' /\ Len(out') = Len(out) + 1 /\ CodeInv' /\ H' = H /\ K' = K
      BY <1>2, <3>1, <3>2, EmptyLine
    <3> QED
      BY <2>1, <2>2, <3>1, <3>3 DEF CountInv
  <2>4. CASE Round("rows", q.width \div 2, qr_unicode_duo(2 * i, 2 * i + 1))
    <3>1. /\ loop = "rows" /\ i < K /\ i' = i + 1 /\ loop' = "rows"
          /\ qr_unicode_duo(2 * i, 2 * i + 1)
      BY <2>4 DEF Round, K
    <3>2. Len(out) = H + i
      BY <2>1, <2>2, <3>1 DEF CountInv
    <3>3. LinesInv' /\ Len(out') = Len(out) + 1 /\ CodeInv' /\ H' = H /\ K' = K
      BY <1>2, <3>1, <3>2, DuoLine
    <3> QED
      BY <2>1, <2>2, <3>1, <3>3 DEF CountInv
  <2>5. CASE Round("bottom", BottomLines, qr_unicode_duo_empty)
    <3>1. /\ loop = "bottom" /\ i < H /\ i' = i + 1 /\ loop' = "bottom"
          /\ qr_unicode_duo_empty
      BY <2>1, <2>5 DEF Round
    <3>2. Len(out) = H + K + 1 + i /\ Len(out) > H + K
      BY <2>1, <2>2, <3>1 DEF CountInv
    <3>3. LinesInv' /\ Len(out') = Len(out) + 1 /\ CodeInv' /\ H' = H /\ K' = K
      BY <1>2, <3>1, <3>2, EmptyLine
    <3>4. Len(out') = H + K + 1 + (i + 1) /\ i + 1 \in Nat /\ i + 1 <= H
      BY <2>1, <3>1, <3>2, <3>3
    <3>5. CountInv'
      BY <2>1, <3>1, <3>3, <3>4 DEF CountInv
    <3> QED
      BY <3>3, <3>5
  <2>6. CASE LastRow
    <3>1. loop = "tail" /\ i' = 0 /\ loop' = "bottom" /\ qr_unicode_lone_tail
      BY <2>6 DEF LastRow
    <3>2. Len(out) = H + K
      BY <2>1, <2>2, <3>1 DEF CountInv
    <3>3. LinesInv' /\ Len(out') = Len(out) + 1 /\ CodeInv' /\ H' = H /\ K' = K
      BY <1>2, <3>1, <3>2, TailLine
    <3>4. Len(out') = H + K + 1 + 0
      BY <2>1, <3>1, <3>2, <3>3
    <3>5. CountInv'
      BY <2>1, <3>1, <3>3, <3>4 DEF CountInv
    <3> QED
      BY <3>3, <3>5
  <2>7. CASE \/ Leave("top", Margin \div 2, "rows") \/ Leave("rows", q.width \div 2, "tail")
             \/ Leave("bottom", BottomLines, "done")
    <3>1. /\ UNCHANGED <<q, out>> /\ i' = 0
          /\ \/ loop = "top" /\ i >= H /\ loop' = "rows"
             \/ loop = "rows" /\ i >= K /\ loop' = "tail"
             \/ loop = "bottom" /\ i >= H /\ loop' = "done"
      BY <2>1, <2>7 DEF Leave, H, K
    <3>2. LinesInv' /\ CodeInv' /\ H' = H /\ K' = K
      BY <1>2, <3>1, NoLine
    <3> QED
      BY <2>1, <2>2, <3>1, <3>2 DEF CountInv
  <2>8. CASE UNCHANGED vars
    <3>1. LinesInv' /\ CodeInv' /\ H' = H /\ K' = K
      BY <1>2, <2>8, NoLine DEF vars
    <3> QED
      BY <2>2, <2>8, <3>1 DEF CountInv, vars
  <2> QED
    BY <1>2, <2>3, <2>4, <2>5, <2>6, <2>7, <2>8 DEF Next, Top, Rows, Bottom, Done
<1> QED
  BY <1>1, <1>2, PTL DEF Spec

\* Every line is as wide as the code with its margin, and there are enough.
THEOREM QuietZoneAlways == Spec => []QuietZone
<1>1. QrInv => QuietZone
  <2> SUFFICES ASSUME QrInv, loop = "done" PROVE QuietZone
    BY DEF QuietZone
  <2>1. H \in Nat /\ K \in Nat /\ Margin = 2 * H /\ q.width = 2 * K + 1 /\ W \in Nat
    BY Halves DEF QrInv
  <2>2. Len(out) = H + K + 1 + H
    BY DEF QrInv, CountInv
  <2>3. Height >= Margin + q.width + Margin
    BY <2>1, <2>2 DEF Height
  <2>4. ASSUME NEW n \in 1..Len(out) PROVE Len(out[n]) = W
    <3>1. out[n] \in [1..W -> Chars]
      BY DEF QrInv, LinesInv
    <3>2. out[n] \in Seq(Chars)
      BY <2>1, <3>1
    <3> QED
      BY <2>1, <3>1, <3>2
  <2> QED
    BY <2>3, <2>4 DEF QuietZone, W
<1> QED
  BY <1>1, QrCorrect, PTL

\* Every row but the last is shown where it belongs, and the margin is light:
\* the pairs of rows meet the pairs of halves, whatever the width.
THEOREM PictureExceptLastRowAlways == Spec => []PictureExceptLastRow
<1>1. QrInv => PictureExceptLastRow
  <2> SUFFICES ASSUME QrInv, loop = "done",
                      NEW r \in 0..(Height - 1),
                      NEW c \in 0..(2 * Margin + q.width - 1),
                      r # Margin + q.width - 1
               PROVE  Pixel(r, c) =
                        IF Inside(r, c) THEN q.bit[r - Margin][c - Margin] ELSE 0
    BY DEF PictureExceptLastRow
  <2> DEFINE n == (r \div 2) + 1
             d == r % 2
  <2>1. /\ H \in Nat /\ K \in Nat /\ Margin = 2 * H /\ q.width = 2 * K + 1
        /\ W = 2 * Margin + q.width
    BY Halves DEF QrInv, W
  <2>2. Len(out) = H + K + 1 + H
    BY DEF QrInv, CountInv
  <2>3. n \in 1..Len(out) /\ d \in {0, 1} /\ r = 2 * (n - 1) + d
    BY <2>1, <2>2 DEF Height
  <2>4. Pixel(r, c) = Shows[out[n][c + 1]][d + 1]
    BY DEF Pixel
  <2> HIDE DEF n, d
  <2>5. c + 1 \in 1..W
    BY <2>1
  <2>6. out[n][c + 1] = Printed(n, c + 1)
    BY <2>3, <2>5 DEF QrInv, LinesInv
  <2>7. Inside(r, c) => /\ c + 1 \in (Margin + 1)..(Margin + q.width)
                        /\ n \in (H + 1)..(H + K)
    BY <2>1, <2>3 DEF Inside
  <2>8. CASE Inside(r, c)
    <3> DEFINE r0 == 2 * (n - H - 1)
               x == c - Margin
    <3>1. /\ r0 \in 0..(q.width - 1) /\ r0 + 1 \in 0..(q.width - 1)
          /\ x \in 0..(q.width - 1) /\ (c + 1) - Margin - 1 = x
          /\ r - Margin = r0 + d
      BY <2>1, <2>3, <2>7, <2>8
    <3>2. q.bit[r0][x] \in {0, 1} /\ q.bit[r0 + 1][x] \in {0, 1}
      BY <3>1, Bits DEF QrInv
    <3>3. Printed(n, c + 1) = Half(q.bit[r0][x], q.bit[r0 + 1][x])
      BY <2>7, <2>8, <3>1 DEF Printed
    <3>4. \A a, b \in {0, 1} : Shows[Half(a, b)][1] = a /\ Shows[Half(a, b)][2] = b
      BY DEF Shows, Half
    <3> HIDE DEF r0, x
    <3>5. CASE d = 0
      <4>1. Pixel(r, c) = q.bit[r0][x] /\ r - Margin = r0
        BY <2>4, <2>6, <3>1, <3>2, <3>3, <3>4, <3>5 DEF r0
      <4> QED
        BY <2>8, <4>1 DEF x
    <3>6. CASE d = 1
      <4>1. Pixel(r, c) = q.bit[r0 + 1][x] /\ r - Margin = r0 + 1
        BY <2>4, <2>6, <3>1, <3>2, <3>3, <3>4, <3>6
      <4> QED
        BY <2>8, <4>1 DEF x
    <3> QED
      BY <2>3, <3>5, <3>6
  <2>9. CASE ~Inside(r, c)
    <3>1. \/ Printed(n, c + 1) = "E"
          \/ d = 1 /\ Printed(n, c + 1) \in {"U", "E"}
      <4>1. c + 1 \in (Margin + 1)..(Margin + q.width) =>
              n \notin (H + 1)..(H + K) /\ (n = H + K + 1 => d = 1)
        BY <2>1, <2>3, <2>9 DEF Inside
      <4> QED
        BY <4>1 DEF Printed
    <3>2. Shows["E"][1] = 0 /\ Shows["E"][2] = 0 /\ Shows["U"][2] = 0
      BY DEF Shows
    <3>3. CASE Printed(n, c + 1) = "E"
      <4>1. Pixel(r, c) = Shows["E"][d + 1] /\ d + 1 \in {1, 2}
        BY <2>3, <2>4, <2>6, <3>3
      <4> QED
        BY <2>9, <3>2, <4>1
    <3>4. CASE d = 1 /\ Printed(n, c + 1) \in {"U", "E"}
      <4>1. Pixel(r, c) = Shows[Printed(n, c + 1)][2]
        BY <2>4, <2>6, <3>4
      <4> QED
        BY <2>9, <3>2, <3>4, <4>1
    <3> QED
      BY <3>1, <3>3, <3>4
  <2> QED
    BY <2>8, <2>9
<1> QED
  BY <1>1, QrCorrect, PTL
==============================================================================
