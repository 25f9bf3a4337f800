------------------------------- MODULE Sip002MC -------------------------------
(* Two nodes of the configuration, one clash has from elsewhere, DIRECT, and  *)
(* two groups, one of which offers the other.  n1's URI has 78 bytes at        *)
(* "NON_HK", which a version 4 code of level L just holds, and more at the    *)
(* flag.                                                                      *)
EXTENDS Sip002, TLC

MCMembers ==
  ("GLOBAL" :> {"n1", "n3", "A", "DIRECT"})
  @@ ("A" :> {"n1", "n2", "B"}) @@ ("B" :> {"n2"})

MCMenu == <<"LAN", "JP", "NON_HK">>

Parts(m, p) == [method |-> m, password |-> p]

MCLengths == [n1 |-> Parts(11, 20), n2 |-> Parts(22, 17)]

MCVersion == [n1 |-> [JP |-> 5, NON_HK |-> 4], n2 |-> [JP |-> 5, NON_HK |-> 5]]
==============================================================================
