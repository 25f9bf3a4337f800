------------------------------ MODULE FlagProofs -----------------------------
(* The two bounds of Flag for every MAX_FLAGS_IN_GROUP and MB_CUR_MAX.       *)
EXTENDS Flag, TLAPS

\* Each round writes at most nine bytes, and nothing is written behind s.
RoundInv ==
  /\ TypeOK
  /\ fin = "no" => s <= 9 * n /\ high = s /\ (n > 0 => s > 0)
  /\ StaysInBuffer
  /\ FullGroupAccepted

\* cc2str() reports one of three lengths, none longer than two symbols.
LEMMA FlagLength == \A cc \in CC : cc2str(cc) \in 3..8
BY DEF CC, cc2str, MB_CUR_RIS

\* The size of buf, with the constants of flag.h put in.
LEMMA BufferSize ==
  /\ BUF_SZ \in Nat
  /\ BUF_SZ = 9 * (MAX_FLAGS_IN_GROUP - 1) + 6 + MB_CUR_MAX
BY FlagAssumption DEF BUF_SZ, MB_CUR_RIS

\* The invariant is inductive and gives both bounds.
THEOREM FlagCorrect == Spec => []RoundInv
<1>1. Init => RoundInv
  BY FlagAssumption, BufferSize
  DEF Init, RoundInv, TypeOK, StaysInBuffer, FullGroupAccepted, MB_CUR_RIS
<1>2. RoundInv /\ [Next]_vars => RoundInv'
  <2> SUFFICES ASSUME RoundInv, [Next]_vars PROVE RoundInv'
    OBVIOUS
  <2> USE DEF RoundInv, TypeOK, StaysInBuffer, FullGroupAccepted
  <2>1. CASE PutFlag /\ Room
    <3>1. ccs[n + 1] \in CC /\ ccs' = ccs /\ n' = n + 1 /\ fin' = "no"
      BY <2>1 DEF PutFlag, Room
    <3>2. cc2str(ccs[n + 1]) \in 3..8
      BY <3>1, FlagLength
    <3>3. /\ s' = s + cc2str(ccs[n + 1]) + 1
          /\ high' = s'
          /\ s + MB_CUR_MAX + 5 <= BUF_SZ - 1
      BY <2>1, FlagAssumption DEF PutFlag, Room, MB_CUR_RIS
    <3>4. s <= 9 * n /\ n \in Nat /\ n' <= Len(ccs')
      BY <2>1, <3>1 DEF PutFlag
    <3> DEFINE c == cc2str(ccs[n + 1])
    <3>5. c \in 3..8 /\ s' = s + c + 1 /\ s \in Nat
      BY <3>2, <3>3
    <3> HIDE DEF c
    <3>6. s' \in Nat /\ s' > 0 /\ s' <= 9 * n'
      BY <3>1, <3>4, <3>5
    <3>7. s' <= BUF_SZ
      BY <3>3, <3>5, BufferSize, FlagAssumption DEF MB_CUR_RIS
    <3>8. TypeOK'
      BY <3>1, <3>3, <3>4, <3>6
    <3> QED
      BY <3>1, <3>3, <3>6, <3>7, <3>8
  <2>2. CASE PutFlag /\ ~Room
    <3>1. n + 1 <= Len(ccs) /\ n \in Nat /\ s <= 9 * n
      BY <2>2 DEF PutFlag
    <3>2. ~(s + MB_CUR_MAX + 5 <= BUF_SZ - 1)
      BY <2>2, FlagAssumption, BufferSize DEF Room, MB_CUR_RIS
    <3>3. ~(Len(ccs) <= MAX_FLAGS_IN_GROUP)
      BY <3>1, <3>2, BufferSize, FlagAssumption
    <3> QED
      BY <2>2, <3>3 DEF PutFlag
  <2>3. CASE Terminate
    BY <2>3, BufferSize, FlagAssumption DEF Terminate, MB_CUR_RIS
  <2>4. CASE Done \/ UNCHANGED vars
    BY <2>4 DEF Done, vars
  <2> QED
    BY <2>1, <2>2, <2>3, <2>4 DEF Next, PutFlag
<1> QED
  BY <1>1, <1>2, PTL DEF Spec

\* flag.c never writes outside buf, whatever ccs2str() is called with.
THEOREM StaysInBufferAlways == Spec => []StaysInBuffer
BY FlagCorrect, PTL DEF RoundInv

\* A list of up to MAX_FLAGS_IN_GROUP countries never trips the assert().
THEOREM FullGroupAcceptedAlways == Spec => []FullGroupAccepted
BY FlagCorrect, PTL DEF RoundInv
==============================================================================
