--------------------------------- MODULE Flag --------------------------------
(***************************************************************************)
(* bin.convert/flag.c, ccs2str(): writes one flag per country code into a   *)
(* buffer of BUF_SZ bytes, a space after each, and replaces the last space  *)
(* by the terminator.  The bytes are left out; where they go is kept.       *)
(***************************************************************************)
EXTENDS Integers, Sequences

CONSTANTS MB_CUR_MAX,          \* the locale's longest character; main() asserts 6
          MAX_FLAGS_IN_GROUP,  \* the flags the buffer is made for
          MaxArgs              \* the longest argument list (bound of the model)

MB_CUR_RIS == 4

ASSUME FlagAssumption ==
  /\ MB_CUR_MAX \in Nat /\ MB_CUR_MAX >= MB_CUR_RIS
  /\ MAX_FLAGS_IN_GROUP \in Nat \ {0}
  /\ MaxArgs \in Nat

\* Mutant: room for one flag less.
BUF_SZ_short ==
  (MB_CUR_RIS + MB_CUR_RIS + 1) * (MAX_FLAGS_IN_GROUP - 2)
    + (MB_CUR_RIS + MB_CUR_MAX + 1) * 1
    + 1

BUF_SZ ==
  (MB_CUR_RIS + MB_CUR_RIS + 1) * (MAX_FLAGS_IN_GROUP - 1)
    + (MB_CUR_RIS + MB_CUR_MAX + 1) * 1
    + 1

CC == {"CN", "HK", "other"}

\* The bytes cc2str() reports: a ballot box, a black flag, or two letters.
cc2str(cc) ==
  CASE cc = "CN" -> 3 [] cc = "HK" -> 4 [] cc = "other" -> MB_CUR_RIS + MB_CUR_RIS

VARIABLES
  ccs,   \* the arguments
  n,     \* how many of them are printed
  s,     \* where the next byte goes
  high,  \* one past the last byte written
  fin    \* "no", "returned", or "abort" for the failed assert()

vars == <<ccs, n, s, high, fin>>

TypeOK ==
  /\ ccs \in Seq(CC)
  /\ n \in 0..Len(ccs)
  /\ s \in Nat
  /\ high \in Nat
  /\ fin \in {"no", "returned", "abort"}

Init ==
  /\ \E k \in 0..MaxArgs : ccs \in [1..k -> CC]
  /\ n = 0 /\ s = 0 /\ high = 0
  /\ fin = "no"

\* Mutant: the assert() is compiled out.
RoomAssumed == TRUE

Room == s + MB_CUR_RIS + MB_CUR_MAX + 1 <= BUF_SZ - 1

\* One round of the loop: the assert(), the flag and the space after it.
PutFlag ==
  /\ fin = "no" /\ n < Len(ccs)
  /\ \/ /\ Room
        /\ s' = s + cc2str(ccs[n + 1]) + 1
        /\ high' = s'
        /\ n' = n + 1
        /\ UNCHANGED fin
     \/ /\ ~Room
        /\ fin' = "abort"
        /\ UNCHANGED <<n, s, high>>
  /\ UNCHANGED ccs

\* Remove the trailing space, if anything was printed, and terminate.
Terminate ==
  /\ fin = "no" /\ n = Len(ccs)
  /\ s' = IF s - 1 >= 0 THEN s - 1 ELSE s
  /\ high' = IF s' + 1 > high THEN s' + 1 ELSE high
  /\ fin' = "returned"
  /\ UNCHANGED <<ccs, n>>

Done == fin # "no" /\ UNCHANGED vars

Next == PutFlag \/ Terminate \/ Done

Spec == Init /\ [][Next]_vars

------------------------------------------------------------------------------
\* No list of countries, however long, is written past the end of buf, and the
\* terminator has its place after the last flag.
StaysInBuffer == high <= BUF_SZ

\* As many flags as the buffer is declared for are accepted: the assert() in
\* the loop asks for more room than a flag needs, and still holds at the last.
FullGroupAccepted == Len(ccs) <= MAX_FLAGS_IN_GROUP => fin # "abort"
==============================================================================
