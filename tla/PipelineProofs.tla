---------------------------- MODULE PipelineProofs ----------------------------
(***************************************************************************)
(* Proofs about ConfigPipeline for any nodes, names and files: the groups   *)
(* the converter writes fit the nodes it writes; those are the usable nodes *)
(* of the file, all of them and in order; and the lookup finds in the       *)
(* configuration, whole or cut, the node that clash means.                  *)
(***************************************************************************)
EXTENDS ConfigPipeline, WellFoundedInduction, FiniteSetTheorems, TLAPS

\* The names of the nodes emitted so far.
Names == {proxies[i].name : i \in 1..Len(proxies)}

\* The nodes a group should have.
Due(g) == {n \in Names : Belongs(n, g)}

\* A sequence of whatever.
IsSeq(s) == \E S : s \in Seq(S)

\* A group written as it should be: it has members, and they are all it is due.
Whole(e) ==
  IsSeq(e.members) /\ e.members # <<>> /\ ToSet(e.members) = Due(e.name)

\* The sequence s is what the groups of gs make when they are written as they
\* should be: nothing but such groups, and none left out that has members.
Right(gs, s) ==
  /\ IsSeq(s)
  /\ \A i \in 1..Len(s) : s[i].name \in gs /\ Whole(s[i])
  /\ \A g \in gs : Due(g) # {} => \E i \in 1..Len(s) : s[i].name = g

\* While nodes are read each list holds its part of the names; once the groups
\* are out, they do.
GroupInv ==
  /\ IsSeq(proxies)
  /\ at # "done" =>
       \A g \in Lists : IsSeq(lists[g]) /\ ToSet(lists[g]) = Due(g)
  /\ at = "done" => Right(Lists, groups)

\* What a name put in front of a list adds to its members.
LEMMA Prepend ==
  ASSUME NEW S, NEW s \in Seq(S), NEW e
  PROVE  /\ <<e>> \o s \in Seq(S \cup {e})
         /\ ToSet(<<e>> \o s) = {e} \cup ToSet(s)
<1>1. s \in Seq(S \cup {e}) /\ <<e>> \in Seq(S \cup {e})
  OBVIOUS
<1>2. <<e>> \o s \in Seq(S \cup {e}) /\ Len(<<e>> \o s) = 1 + Len(s)
  BY <1>1
<1>3. (<<e>> \o s)[1] = e /\ \A i \in 1..Len(s) : (<<e>> \o s)[i + 1] = s[i]
  BY <1>1
<1>4. \A i \in 1..(1 + Len(s)) : i # 1 => i - 1 \in 1..Len(s) /\ (i - 1) + 1 = i
  OBVIOUS
<1> DEFINE t == <<e>> \o s
<1>5. DOMAIN s = 1..Len(s) /\ DOMAIN t = 1..(1 + Len(s)) /\ Len(s) \in Nat
  BY <1>1, <1>2
<1>6. t[1] = e /\ \A i \in 1..Len(s) : i + 1 \in 1..(1 + Len(s)) /\ t[i + 1] = s[i]
  BY <1>3
<1> HIDE DEF t
<1>7. ToSet(t) = {e} \cup ToSet(s)
  <2>1. ASSUME NEW i \in 1..(1 + Len(s))
        PROVE  t[i] = e \/ \E j \in 1..Len(s) : t[i] = s[j]
    BY <1>4, <1>6
  <2>2. \E i \in 1..(1 + Len(s)) : t[i] = e
    BY <1>5, <1>6
  <2>3. \A j \in 1..Len(s) : \E i \in 1..(1 + Len(s)) : t[i] = s[j]
    BY <1>6
  <2>4. ToSet(t) = {t[i] : i \in 1..(1 + Len(s))} /\ ToSet(s) = {s[j] : j \in 1..Len(s)}
    BY <1>5 DEF ToSet
  <2>5. ASSUME NEW x \in ToSet(t) PROVE x \in {e} \cup ToSet(s)
    BY <2>1, <2>4, <2>5
  <2>6. ASSUME NEW x \in {e} \cup ToSet(s) PROVE x \in ToSet(t)
    BY <2>2, <2>3, <2>4, <2>6
  <2> QED
    BY <2>5, <2>6
<1> QED
  BY <1>2, <1>7 DEF t

\* What one call of emit_and_destroy_group() writes is right.
LEMMA OneGroup ==
  ASSUME NEW g, IsSeq(lists[g]), ToSet(lists[g]) = Due(g)
  PROVE  Right({g}, emit_and_destroy_group(g))
<1>1. CASE lists[g] = <<>>
  <2>1. Due(g) = {}
    BY <1>1 DEF ToSet
  <2> QED
    BY <1>1, <2>1 DEF Right, emit_and_destroy_group, IsSeq
<1>2. CASE lists[g] # <<>>
  <2> DEFINE e == [name |-> g, members |-> lists[g]]
  <2>1. <<e>> \in Seq({e}) /\ Len(<<e>>) = 1 /\ <<e>>[1] = e
    OBVIOUS
  <2>2. e.name = g /\ e.members = lists[g]
    OBVIOUS
  <2>3. emit_and_destroy_group(g) = <<e>>
    BY <1>2 DEF emit_and_destroy_group
  <2>4. Whole(e)
    BY <1>2, <2>2 DEF Whole
  <2> HIDE DEF e
  <2> DEFINE u == <<e>>
  <2>5. u \in Seq({e}) /\ 1 \in 1..Len(u) /\ \A i \in 1..Len(u) : u[i] = e
    BY <2>1
  <2> HIDE DEF u
  <2>6. Right({g}, u)
    BY <2>2, <2>4, <2>5 DEF Right, IsSeq
  <2> QED
    BY <2>3, <2>6 DEF u
<1> QED
  BY <1>1, <1>2

\* What is written right in two parts is right as a whole.
LEMMA TwoGroups ==
  ASSUME NEW gs, NEW hs, NEW s, NEW t, Right(gs, s), Right(hs, t)
  PROVE  Right(gs \cup hs, s \o t)
<1>1. PICK S : s \in Seq(S)
  BY DEF Right, IsSeq
<1>2. PICK T : t \in Seq(T)
  BY DEF Right, IsSeq
<1>3. s \in Seq(S \cup T) /\ t \in Seq(S \cup T)
  BY <1>1, <1>2
<1>4. s \o t \in Seq(S \cup T) /\ Len(s \o t) = Len(s) + Len(t)
  BY <1>3
<1>5. \A i \in 1..Len(s) : i \in 1..Len(s \o t) /\ (s \o t)[i] = s[i]
  BY <1>3
<1>6. \A i \in 1..Len(t) : Len(s) + i \in 1..Len(s \o t) /\ (s \o t)[Len(s) + i] = t[i]
  BY <1>3
<1>7. \A i \in 1..Len(s \o t) :
        \/ i \in 1..Len(s)
        \/ \E j \in 1..Len(t) : i = Len(s) + j
  <2> SUFFICES ASSUME NEW i \in 1..Len(s \o t), i \notin 1..Len(s)
               PROVE  \E j \in 1..Len(t) : i = Len(s) + j
    OBVIOUS
  <2>1. i - Len(s) \in 1..Len(t) /\ i = Len(s) + (i - Len(s))
    BY <1>3, <1>4
  <2> QED
    BY <2>1
<1>8. IsSeq(s \o t)
  BY <1>4 DEF IsSeq
<1> DEFINE u == s \o t
<1>9. /\ \A i \in 1..Len(s) : i \in 1..Len(u) /\ u[i] = s[i]
      /\ \A j \in 1..Len(t) : Len(s) + j \in 1..Len(u) /\ u[Len(s) + j] = t[j]
      /\ \A i \in 1..Len(u) : i \in 1..Len(s) \/ \E j \in 1..Len(t) : i = Len(s) + j
  BY <1>5, <1>6, <1>7
<1> HIDE DEF u
<1>10. \A i \in 1..Len(u) : u[i].name \in gs \cup hs /\ Whole(u[i])
  <2> SUFFICES ASSUME NEW i \in 1..Len(u)
               PROVE  u[i].name \in gs \cup hs /\ Whole(u[i])
    OBVIOUS
  <2>1. CASE i \in 1..Len(s)
    BY <1>9, <2>1 DEF Right
  <2>2. CASE \E j \in 1..Len(t) : i = Len(s) + j
    <3>1. PICK j \in 1..Len(t) : i = Len(s) + j
      BY <2>2
    <3>2. u[i] = t[j]
      BY <1>9, <3>1
    <3> QED
      BY <3>2 DEF Right
  <2> QED
    BY <1>9, <2>1, <2>2
<1>11. ASSUME NEW g \in gs \cup hs, Due(g) # {}
       PROVE  \E i \in 1..Len(u) : u[i].name = g
  <2>1. CASE g \in gs
    <3>1. PICK i \in 1..Len(s) : s[i].name = g
      BY <1>11, <2>1 DEF Right
    <3> QED
      BY <1>9, <3>1
  <2>2. CASE g \in hs
    <3>1. PICK j \in 1..Len(t) : t[j].name = g
      BY <1>11, <2>2 DEF Right
    <3>2. Len(s) + j \in 1..Len(u) /\ u[Len(s) + j].name = g
      BY <1>9, <3>1
    <3> QED
      BY <3>2
  <2> QED
    BY <1>11, <2>1, <2>2
<1> QED
  BY <1>8, <1>10, <1>11 DEF Right, u

\* The nine calls at the end of main() write every group as it should be.
LEMMA AllGroups ==
  ASSUME GroupInv, EmitGroups
  PROVE  Right(Lists, groups')
<1>1. at # "done"
  BY DEF EmitGroups
<1>2. ASSUME NEW g \in Lists PROVE Right({g}, emit_and_destroy_group(g))
  BY <1>1, OneGroup DEF GroupInv
<1>3. Lists = {"XX", "ASIA", "NON_HK", "HK", "JP", "EUGB", "AUCAUS", "TW", "KR"}
  BY DEF Lists, Region
<1> DEFINE s1 == emit_and_destroy_group("XX")
           s2 == s1 \o emit_and_destroy_group("ASIA")
           s3 == s2 \o emit_and_destroy_group("NON_HK")
           s4 == s3 \o emit_and_destroy_group("HK")
           s5 == s4 \o emit_and_destroy_group("JP")
           s6 == s5 \o emit_and_destroy_group("EUGB")
           s7 == s6 \o emit_and_destroy_group("AUCAUS")
           s8 == s7 \o emit_and_destroy_group("TW")
           s9 == s8 \o emit_and_destroy_group("KR")
           g2 == {"XX"} \cup {"ASIA"}
           g3 == g2 \cup {"NON_HK"}
           g4 == g3 \cup {"HK"}
           g5 == g4 \cup {"JP"}
           g6 == g5 \cup {"EUGB"}
           g7 == g6 \cup {"AUCAUS"}
           g8 == g7 \cup {"TW"}
           g9 == g8 \cup {"KR"}
<1>4. groups' = s9
  BY DEF EmitGroups
<1>5. Lists = g9
  BY <1>3
<1> HIDE DEF s1, s2, s3, s4, s5, s6, s7, s8, s9, g2, g3, g4, g5, g6, g7, g8, g9
<1>6. Right({"XX"}, s1)
  BY <1>2, <1>3 DEF s1
<1>7. Right(g2, s2)
  BY <1>2, <1>3, <1>6, TwoGroups DEF s2, g2
<1>8. Right(g3, s3)
  BY <1>2, <1>3, <1>7, TwoGroups DEF s3, g3
<1>9. Right(g4, s4)
  BY <1>2, <1>3, <1>8, TwoGroups DEF s4, g4
<1>10. Right(g5, s5)
  BY <1>2, <1>3, <1>9, TwoGroups DEF s5, g5
<1>11. Right(g6, s6)
  BY <1>2, <1>3, <1>10, TwoGroups DEF s6, g6
<1>12. Right(g7, s7)
  BY <1>2, <1>3, <1>11, TwoGroups DEF s7, g7
<1>13. Right(g8, s8)
  BY <1>2, <1>3, <1>12, TwoGroups DEF s8, g8
<1>14. Right(g9, s9)
  BY <1>2, <1>3, <1>13, TwoGroups DEF s9, g9
<1> QED
  BY <1>4, <1>5, <1>14

\* A node that is emitted joins the names, and the lists it belongs to.
LEMMA NodeJoins ==
  ASSUME GroupInv, at # "done", at' # "done", NEW n, NEW shared,
         group(n.name), emit_node(n, shared)
  PROVE  GroupInv'
<1> DEFINE e == [name |-> n.name, server |-> n.server, port |-> shared[1],
                 cipher |-> shared[2], password |-> shared[3]]
<1>1. PICK S : proxies \in Seq(S)
  BY DEF GroupInv, IsSeq
<1>2. proxies' = Append(proxies, e) /\ e.name = n.name
  BY DEF emit_node
<1> HIDE DEF e
<1>3. proxies \in Seq(S \cup {e})
  BY <1>1
<1>4. /\ proxies' \in Seq(S \cup {e})
      /\ Len(proxies') = Len(proxies) + 1 /\ Len(proxies) \in Nat
      /\ \A i \in 1..Len(proxies) : proxies'[i] = proxies[i]
      /\ proxies'[Len(proxies) + 1] = e
  BY <1>2, <1>3
<1>5. Names' = Names \cup {n.name}
  <2>1. \A i \in 1..Len(proxies') : i \in 1..Len(proxies) \/ i = Len(proxies) + 1
    BY <1>4
  <2>2. /\ \A i \in 1..Len(proxies) : i \in 1..Len(proxies')
        /\ Len(proxies) + 1 \in 1..Len(proxies')
    BY <1>4
  <2> QED
    BY <1>2, <1>4, <2>1, <2>2 DEF Names
<1>6. ASSUME NEW g \in Lists
      PROVE  IsSeq(lists'[g]) /\ ToSet(lists'[g]) = Due(g)'
  <2>1. PICK L : lists[g] \in Seq(L)
    BY DEF GroupInv, IsSeq
  <2>2. ToSet(lists[g]) = Due(g)
    BY DEF GroupInv
  <2>3. CASE Belongs(n.name, g)
    <3>1. lists'[g] = <<n.name>> \o lists[g]
      BY <2>3 DEF group
    <3>2. Due(g)' = Due(g) \cup {n.name}
      BY <1>5, <2>3 DEF Due
    <3>3. /\ lists'[g] \in Seq(L \cup {n.name})
          /\ ToSet(lists'[g]) = {n.name} \cup ToSet(lists[g])
      BY <2>1, <3>1, Prepend
    <3> QED
      BY <2>2, <3>2, <3>3 DEF IsSeq
  <2>4. CASE ~Belongs(n.name, g)
    <3>1. lists'[g] = lists[g]
      BY <2>4 DEF group
    <3>2. Due(g)' = Due(g)
      BY <1>5, <2>4 DEF Due
    <3> QED
      BY <2>1, <2>2, <3>1, <3>2 DEF IsSeq
  <2> QED
    BY <2>3, <2>4
<1> QED
  BY <1>4, <1>6 DEF GroupInv, IsSeq

\* A step that leaves the nodes, the lists and the groups alone.
LEMMA GroupsKept ==
  ASSUME GroupInv, UNCHANGED <<proxies, lists, groups>>, at' = "done" <=> at = "done"
  PROVE  GroupInv'
<1>1. Names' = Names
  BY DEF Names
<1>2. \A g : Due(g)' = Due(g)
  BY <1>1 DEF Due
<1> QED
  BY <1>2 DEF GroupInv, IsSeq, Right, Whole

\* The groups fit the nodes, whatever the file holds and however its names are
\* spelt.
LEMMA GroupInvFits == GroupInv => GroupsFitNodes
<1> SUFFICES ASSUME GroupInv, at = "done"
             PROVE  GroupsFitNodes
  BY DEF GroupsFitNodes
<1>1. Right(Lists, groups)
  BY DEF GroupInv
<1>2. ASSUME NEW g \in Lists PROVE Members(g) = Due(g)
  <2>1. \A i \in 1..Len(groups) :
          groups[i].name = g => ToSet(groups[i].members) = Due(g)
    BY <1>1 DEF Right, Whole
  <2>2. Due(g) # {} => \E i \in 1..Len(groups) : groups[i].name = g
    BY <1>1 DEF Right
  <2> HIDE DEF Due
  <2> QED
    BY <2>1, <2>2 DEF Members
<1>3. Lists = {"XX", "ASIA", "NON_HK", "HK", "JP", "EUGB", "AUCAUS", "TW", "KR"}
  BY DEF Lists, Region
<1>4. \A n :
        /\ Belongs(n, "NON_HK") <=> ~Belongs(n, "HK")
        /\ Belongs(n, "XX") <=>
             ~(Belongs(n, "ASIA") \/ Belongs(n, "AUCAUS") \/ Belongs(n, "EUGB"))
        /\ Belongs(n, "HK") \/ Belongs(n, "JP") \/ Belongs(n, "KR") \/ Belongs(n, "TW")
             => Belongs(n, "ASIA")
  BY DEF Belongs, Region
<1>5. \A i \in 1..Len(groups) :
        groups[i].members # <<>> /\ ToSet(groups[i].members) \subseteq Names
  BY <1>1 DEF Right, Whole, Due
<1>6. /\ Due("HK") \cup Due("NON_HK") = Names
      /\ Due("HK") \cap Due("NON_HK") = {}
      /\ Due("XX") = Names \ (Due("ASIA") \cup Due("AUCAUS") \cup Due("EUGB"))
      /\ Due("HK") \cup Due("JP") \cup Due("KR") \cup Due("TW") \subseteq Due("ASIA")
  BY <1>4 DEF Due
<1> HIDE DEF Due
<1>7. /\ Members("HK") = Due("HK") /\ Members("NON_HK") = Due("NON_HK")
      /\ Members("XX") = Due("XX") /\ Members("ASIA") = Due("ASIA")
      /\ Members("AUCAUS") = Due("AUCAUS") /\ Members("EUGB") = Due("EUGB")
      /\ Members("JP") = Due("JP") /\ Members("KR") = Due("KR")
      /\ Members("TW") = Due("TW")
  BY <1>2, <1>3
<1> QED
  BY <1>5, <1>6, <1>7 DEF GroupsFitNodes, Names

\* GroupInv is an invariant of both programs.
LEMMA GroupInvAlways == PipelineSpec => []GroupInv
<1>1. PipelineInit => GroupInv
  <2> SUFFICES ASSUME PipelineInit PROVE GroupInv
    OBVIOUS
  <2>1. proxies = <<>> /\ at = "header" /\ \A g \in Lists : lists[g] = <<>>
    BY DEF PipelineInit, Init
  <2>2. <<>> \in Seq({}) /\ Len(<<>>) = 0
    OBVIOUS
  <2>3. Names = {}
    BY <2>1, <2>2 DEF Names
  <2>4. ToSet(<<>>) = {}
    BY DEF ToSet
  <2> QED
    BY <2>1, <2>2, <2>3, <2>4 DEF GroupInv, IsSeq, Due
<1>2. ASSUME GroupInv, [PipelineNext]_pvars
      PROVE  GroupInv'
  <2>1. CASE UNCHANGED cvars
    BY <1>2, <2>1, GroupsKept DEF cvars
  <2>2. CASE ConvertStep
    <3>1. CASE SkipHeader \/ BeginSequence \/ NextEntry \/ AssertUdp \/ skip_node
      <4>1. UNCHANGED <<proxies, lists, groups>> /\ at # "done" /\ at' # "done"
        BY <3>1 DEF SkipHeader, BeginSequence, NextEntry, AssertUdp, skip_node,
                    ReadThen, Abort
      <4> QED
        BY <1>2, <4>1, GroupsKept
    <3>2. CASE \E k \in Fields : Extract(k)
      <4>1. PICK k \in Fields : Extract(k)
        BY <3>2
      <4>2. After(k, Token.v) # "done"
        BY DEF After, Fields
      <4>3. UNCHANGED <<proxies, lists, groups>> /\ at # "done" /\ at' # "done"
        BY <4>1, <4>2 DEF Extract, Fields, ReadThen, Abort
      <4> QED
        BY <1>2, <4>3, GroupsKept
    <3>3. CASE PlainOrObfs
      <4>1. at # "done" /\ at' # "done"
        BY <3>3 DEF PlainOrObfs, ReadThen, Abort
      <4>2. CASE group(node.name) /\ emit_node(node, plain')
        BY <1>2, <4>1, <4>2, NodeJoins
      <4>3. CASE UNCHANGED <<proxies, lists, groups>>
        BY <1>2, <4>1, <4>3, GroupsKept
      <4> QED
        BY <3>3, <4>2, <4>3 DEF PlainOrObfs, Abort
    <3>4. CASE EmitGroups
      <4>1. Right(Lists, groups') /\ at' = "done" /\ UNCHANGED proxies
        BY <1>2, <3>4, AllGroups DEF EmitGroups
      <4>2. Names' = Names
        BY <4>1 DEF Names
      <4>3. \A g : Due(g)' = Due(g)
        BY <4>2 DEF Due
      <4>4. Right(Lists, groups)'
        BY <4>1, <4>3 DEF Right, IsSeq, Whole
      <4> QED
        BY <1>2, <4>1, <4>4 DEF GroupInv, IsSeq
    <3> QED
      BY <2>2, <3>1, <3>2, <3>3, <3>4 DEF ConvertStep
  <2> QED
    BY <1>2, <2>1, <2>2 DEF PipelineNext, pvars, Conversion, Lookup, Finished
<1> QED
  BY <1>1, <1>2, PTL DEF PipelineSpec

\* The groups of a finished configuration fit its nodes, for any list of nodes
\* and any way that strstr() marks their names.
THEOREM GroupsFitNodesAlways == PipelineSpec => []GroupsFitNodes
BY GroupInvAlways, GroupInvFits, PTL

\* What is emitted is the node that was read, with its own port, cipher and
\* password, although emit_node() writes those that the first node stored.
EmitsOwnCredentials ==
  [][proxies' # proxies => proxies' = Append(proxies, Emitted(node))]_pvars

\* No node is given the credentials of another, in any step and for any nodes in
\* any order.
THEOREM EmitsOwnCredentialsAlways == PipelineSpec => EmitsOwnCredentials
<1>1. ASSUME PipelineNext, proxies' # proxies
      PROVE  proxies' = Append(proxies, Emitted(node))
  <2>1. ConvertStep
    BY <1>1 DEF PipelineNext, Conversion, Lookup, Finished, pvars, cvars
  <2>2. PlainOrObfs
    BY <1>1, <2>1 DEF ConvertStep, SkipHeader, BeginSequence, NextEntry, Extract,
                      AssertUdp, skip_node, EmitGroups, Abort
  <2>3. /\ Accepts(Credentials(node))
        /\ plain' = IF plain = NoCredentials THEN Credentials(node) ELSE plain
        /\ emit_node(node, plain')
    BY <1>1, <2>2 DEF PlainOrObfs, Abort
  <2>4. plain' = Credentials(node)
    BY <2>3 DEF Accepts
  <2>5. /\ plain'[1] = node.port /\ plain'[2] = node.cipher
        /\ plain'[3] = node.password
    BY <2>4 DEF Credentials
  <2> QED
    BY <2>3, <2>5 DEF emit_node, Emitted
<1>2. [PipelineNext]_pvars =>
        [proxies' # proxies => proxies' = Append(proxies, Emitted(node))]_pvars
  BY <1>1
<1> QED
  BY <1>2, PTL DEF PipelineSpec, EmitsOwnCredentials

------------------------------------------------------------------------------
\* A set of natural numbers that is not empty has a least one.
LEMMA LeastNat ==
  ASSUME NEW T, T \subseteq Nat, T # {}
  PROVE  \E x \in T : \A y \in T : x <= y
<1> DEFINE R == {ss \in Nat \X Nat : ss[1] < ss[2]}
<1>1. IsWellFoundedOn(R, Nat)
  BY NatLessThanWellFounded, Zenon DEF OpToRel
<1>2. \A x, y \in Nat : <<x, y>> \in R <=> x < y
  OBVIOUS
<1> HIDE DEF R
<1>3. PICK x \in T : \A y \in T : <<y, x>> \notin R
  BY <1>1, WFMin, Zenon
<1>4. \A y \in T : ~(y < x)
  BY <1>2, <1>3
<1>5. \A y \in T : x <= y
  BY <1>4
<1> QED
  BY <1>5

\* Induction over the natural numbers, for a set instead of a predicate.
LEMMA NatInd ==
  ASSUME NEW T, 0 \in T, \A n \in Nat : n \in T => n + 1 \in T
  PROVE  Nat \subseteq T
<1> SUFFICES ASSUME Nat \ T # {} PROVE FALSE
  OBVIOUS
<1>1. PICK x \in Nat \ T : \A y \in Nat \ T : x <= y
  <2>1. Nat \ T \subseteq Nat
   OBVIOUS
  <2> QED BY <2>1, LeastNat
<1>2. x # 0 /\ x - 1 \in Nat
  BY <1>1
<1>3. x - 1 \in T
  BY <1>1, <1>2
<1> QED BY <1>2, <1>3

\* The first n of the sequences s, one after the other.
Upto(s, n) == [i \in 1..n |-> s[i]]

\* The same as FlattenSeq() joins them.
Flat(s, n) == FlattenSeq(Upto(s, n))

\* f is the function that FlattenSeq() is computed with.
Joins(f, s, n) == f = [i \in 1..n |-> IF i = 1 THEN s[i] ELSE f[i-1] \o s[i]]

\* What that function is at one argument.
LEMMA JoinsAt ==
  ASSUME NEW f, NEW s, NEW n, Joins(f, s, n), NEW i \in 1..n
  PROVE  f[i] = IF i = 1 THEN s[i] ELSE f[i - 1] \o s[i]
<1> DEFINE h == [j \in 1..n |-> IF j = 1 THEN s[j] ELSE f[j-1] \o s[j]]
<1>1. f = h
  BY Zenon DEF Joins
<1>2. h[i] = IF i = 1 THEN s[i] ELSE f[i-1] \o s[i]
  BY Zenon
<1> HIDE DEF h
<1> QED
  BY <1>1, <1>2, Zenon

\* There is such a function for any number of sequences.
LEMMA JoinsExists ==
  ASSUME NEW s, NEW n \in Nat
  PROVE  \E f : Joins(f, s, n)
<1> DEFINE T == {m \in Nat : \E f : Joins(f, s, m)}
<1>1. 0 \in T
  <2> DEFINE f == [i \in 1..0 |-> {}]
  <2>1. 1..0 = {}
    OBVIOUS
  <2>2. Joins(f, s, 0)
    BY <2>1, Zenon DEF Joins
  <2> QED
    BY <2>2
<1>2. ASSUME NEW m \in Nat, m \in T PROVE m + 1 \in T
  <2>1. PICK f : Joins(f, s, m)
    BY <1>2
  <2> DEFINE g == [i \in 1..(m + 1) |-> IF i = 1 THEN s[i] ELSE f[i-1] \o s[i]]
  <2>2. \A i \in 1..m : g[i] = f[i]
    <3> SUFFICES ASSUME NEW i \in 1..m PROVE g[i] = f[i]
      OBVIOUS
    <3>1. i \in 1..(m + 1)
      OBVIOUS
    <3>2. g[i] = IF i = 1 THEN s[i] ELSE f[i-1] \o s[i]
      BY <3>1, Zenon
    <3>3. f[i] = IF i = 1 THEN s[i] ELSE f[i-1] \o s[i]
      BY <2>1, JoinsAt
    <3> QED
      BY <3>2, <3>3, Zenon
  <2>3. ASSUME NEW i \in 1..(m + 1), i # 1
        PROVE  i - 1 \in 1..m
    BY <2>3
  <2>4. ASSUME NEW i \in 1..(m + 1)
        PROVE  g[i] = IF i = 1 THEN s[i] ELSE g[i-1] \o s[i]
    BY <2>2, <2>3
  <2>5. g = [i \in 1..(m + 1) |-> IF i = 1 THEN s[i] ELSE g[i-1] \o s[i]]
    <3> DEFINE D == 1..(m + 1)
               h == [i \in D |-> IF i = 1 THEN s[i] ELSE g[i-1] \o s[i]]
    <3>1. g = [i \in D |-> g[i]]
      OBVIOUS
    <3> HIDE DEF g
    <3>2. \A i \in D : g[i] = h[i]
      BY <2>4
    <3> QED
      BY <3>1, <3>2
  <2>6. Joins(g, s, m + 1)
    BY <2>5, Zenon DEF Joins
  <2> QED
    BY <2>6
<1> HIDE DEF T
<1>3. Nat \subseteq T
  BY <1>1, <1>2, NatInd
<1> QED
  BY <1>3 DEF T

\* FlattenSeq() is the last value of such a function.
LEMMA FlatJoins ==
  ASSUME NEW s, NEW n \in Nat, n # 0
  PROVE  \E f : Joins(f, s, n) /\ Flat(s, n) = f[n]
<1> DEFINE q == Upto(s, n)
<1>1. Len(q) = n /\ \A i \in 1..n : q[i] = s[i]
  BY DEF Upto
<1> HIDE DEF q
<1>2. PICK h : Joins(h, q, n)
  BY JoinsExists
<1> DEFINE f == CHOOSE f : f = [i \in 1..Len(q) |-> IF i = 1 THEN q[i] ELSE f[i-1] \o q[i]]
<1>3. f = [i \in 1..n |-> IF i = 1 THEN q[i] ELSE f[i-1] \o q[i]]
  BY <1>1, <1>2, Zenon DEF Joins
<1>4. FlattenSeq(q) = f[n]
  BY <1>1, Zenon DEF FlattenSeq
<1> HIDE DEF f
<1>5. f = [i \in 1..n |-> IF i = 1 THEN s[i] ELSE f[i-1] \o s[i]]
  BY <1>1, <1>3
<1> QED
  BY <1>4, <1>5 DEF Joins, Flat, q

\* Nothing joined is nothing.
LEMMA FlatNone ==
  ASSUME NEW s
  PROVE  Flat(s, 0) = <<>>
<1>1. Upto(s, 0) = <<>> /\ Len(<<>>) = 0
  BY DEF Upto
<1> QED
  BY <1>1, Zenon DEF Flat, FlattenSeq

\* The last of the sequences comes last.
LEMMA FlatStep ==
  ASSUME NEW S, NEW s, NEW n \in Nat, \A i \in 1..(n + 1) : s[i] \in Seq(S)
  PROVE  Flat(s, n + 1) = Flat(s, n) \o s[n + 1]
<1>1. PICK f : Joins(f, s, n + 1) /\ Flat(s, n + 1) = f[n + 1]
  BY FlatJoins
<1>2. CASE n = 0
  <2>1. f[1] = s[1]
    BY <1>1, <1>2 DEF Joins
  <2>2. s[1] \in Seq(S)
    BY <1>2
  <2>3. <<>> \o s[1] = s[1]
    BY <2>2
  <2> QED
    BY <1>1, <1>2, <2>1, <2>3, FlatNone
<1>3. CASE n # 0
  <2>1. PICK g : Joins(g, s, n) /\ Flat(s, n) = g[n]
    BY <1>3, FlatJoins
  <2> DEFINE T == {i \in Nat : i \in 1..n => f[i] = g[i]}
  <2>2. 0 \in T
    OBVIOUS
  <2>3. ASSUME NEW m \in Nat, m \in T PROVE m + 1 \in T
    <3> SUFFICES ASSUME m + 1 \in 1..n PROVE f[m + 1] = g[m + 1]
      OBVIOUS
    <3>1. m = 0 \/ (m \in 1..n /\ f[m] = g[m])
      BY <2>3
    <3>2. /\ f[m + 1] = IF m + 1 = 1 THEN s[m + 1] ELSE f[(m + 1) - 1] \o s[m + 1]
          /\ g[m + 1] = IF m + 1 = 1 THEN s[m + 1] ELSE g[(m + 1) - 1] \o s[m + 1]
      <4>1. m + 1 \in 1..n /\ m + 1 \in 1..(n + 1)
        OBVIOUS
      <4> QED
        BY <1>1, <2>1, <4>1, JoinsAt
    <3>3. (m + 1) - 1 = m
      OBVIOUS
    <3> QED
      BY <3>1, <3>2, <3>3
  <2> HIDE DEF T
  <2>4. n \in T
    BY <2>2, <2>3, NatInd
  <2>5. f[n] = g[n]
    BY <1>3, <2>4 DEF T
  <2>6. f[n + 1] = f[n] \o s[n + 1]
    <3>1. f[n + 1] = IF n + 1 = 1 THEN s[n + 1] ELSE f[(n + 1) - 1] \o s[n + 1]
      <4>1. n + 1 \in 1..(n + 1)
        OBVIOUS
      <4> QED
        BY <1>1, <4>1, JoinsAt
    <3>2. (n + 1) - 1 = n /\ n + 1 # 1
      BY <1>3
    <3> QED
      BY <3>1, <3>2
  <2> QED
    BY <1>1, <2>1, <2>5, <2>6
<1> QED
  BY <1>2, <1>3

\* Two sequences over a set make one over that set.
LEMMA ConcatType ==
  ASSUME NEW S, NEW a \in Seq(S), NEW b \in Seq(S)
  PROVE  a \o b \in Seq(S)
OBVIOUS

\* Three sequences give the same, whichever two are joined first.
Assoc(a, b, c) == (a \o b) \o c = a \o (b \o c)

\* It holds for any three over the same set.
LEMMA ConcatAssoc ==
  ASSUME NEW S, NEW a \in Seq(S), NEW b \in Seq(S), NEW c \in Seq(S)
  PROVE  Assoc(a, b, c)
BY DEF Assoc

\* Sequences over a set are joined to one over that set.
LEMMA FlatType ==
  ASSUME NEW S, NEW s, NEW n \in Nat, \A i \in 1..n : s[i] \in Seq(S)
  PROVE  Flat(s, n) \in Seq(S)
<1> DEFINE T == {i \in Nat : i <= n => Flat(s, i) \in Seq(S)}
<1>1. 0 \in T
  <2>1. Flat(s, 0) = <<>> /\ <<>> \in Seq(S)
    BY FlatNone
  <2> QED
    BY <2>1
<1>2. ASSUME NEW m \in Nat, m \in T PROVE m + 1 \in T
  <2>1. ASSUME m + 1 <= n PROVE Flat(s, m + 1) \in Seq(S)
    <3>1. /\ Flat(s, m) \in Seq(S) /\ s[m + 1] \in Seq(S)
          /\ \A i \in 1..(m + 1) : s[i] \in Seq(S)
      BY <1>2, <2>1
    <3>2. Flat(s, m + 1) = Flat(s, m) \o s[m + 1]
      BY <3>1, FlatStep
    <3> QED
      BY <3>1, <3>2, ConcatType, Zenon
  <2> QED
    BY <2>1
<1> HIDE DEF T
<1>3. n \in T
  BY <1>1, <1>2, NatInd
<1> QED
  BY <1>3 DEF T

\* The sequences t are those of s without the first.
Follows(S, s, t, n) ==
  /\ \A i \in 1..(n + 1) : s[i] \in Seq(S)
  /\ \A i \in 1..n : t[i] = s[i + 1]

\* The first of the sequences comes first.
LEMMA FlatFirst ==
  ASSUME NEW S, NEW s, NEW t, NEW n \in Nat, Follows(S, s, t, n)
  PROVE  Flat(s, n + 1) = s[1] \o Flat(t, n)
<1>0. /\ \A i \in 1..(n + 1) : s[i] \in Seq(S)
      /\ \A i \in 1..n : t[i] = s[i + 1]
  BY DEF Follows
<1> DEFINE T == {i \in Nat : i <= n => Flat(s, i + 1) = s[1] \o Flat(t, i)}
<1>1. s[1] \in Seq(S)
  BY <1>0
<1>2. \A i \in 1..n : t[i] \in Seq(S)
  BY <1>0
<1>3. 0 \in T
  <2>1. Flat(s, 0 + 1) = Flat(s, 0) \o s[0 + 1]
    <3>1. \A i \in 1..(0 + 1) : s[i] \in Seq(S)
      BY <1>1
    <3> QED
      BY <3>1, FlatStep
  <2>2. Flat(s, 0) = <<>> /\ Flat(t, 0) = <<>>
    BY FlatNone
  <2>3. <<>> \o s[1] = s[1] /\ s[1] \o <<>> = s[1]
    BY <1>1
  <2> QED
    BY <2>1, <2>2, <2>3
<1>4. ASSUME NEW m \in Nat, m \in T PROVE m + 1 \in T
  <2> DEFINE k == m + 1
  <2>1. k \in Nat /\ k = m + 1
    OBVIOUS
  <2>2. ASSUME k <= n PROVE Flat(s, k + 1) = s[1] \o Flat(t, k)
    <3>1. Flat(s, k) = s[1] \o Flat(t, m)
      BY <1>4, <2>2
    <3>2. /\ \A i \in 1..(k + 1) : s[i] \in Seq(S)
          /\ \A i \in 1..k : t[i] \in Seq(S)
          /\ \A i \in 1..m : t[i] \in Seq(S)
          /\ t[k] = s[k + 1] /\ t[k] \in Seq(S)
      BY <1>0, <1>2, <2>2
    <3> HIDE DEF T, k
    <3>3. Flat(s, k + 1) = Flat(s, k) \o s[k + 1]
      BY <2>1, <3>2, FlatStep
    <3>4. Flat(t, k) = Flat(t, m) \o t[k]
      BY <2>1, <3>2, FlatStep
    <3>5. Flat(t, m) \in Seq(S)
      BY <3>2, FlatType
    <3>6. (s[1] \o Flat(t, m)) \o t[k] = s[1] \o (Flat(t, m) \o t[k])
      <4>1. t[k] \in Seq(S)
        BY <3>2
      <4> DEFINE a == s[1]
                 b == Flat(t, m)
                 c == t[k]
      <4>2. a \in Seq(S) /\ b \in Seq(S) /\ c \in Seq(S)
        BY <1>1, <3>5, <4>1
      <4> HIDE DEF a, b, c
      <4>3. Assoc(a, b, c)
        BY <4>2, ConcatAssoc
      <4> QED
        BY <4>3 DEF Assoc, a, b, c
    <3> QED
      BY <3>1, <3>2, <3>3, <3>4, <3>6, Zenon
  <2> HIDE DEF k
  <2> QED
    BY <2>1, <2>2
<1> HIDE DEF T
<1>5. n \in T
  BY <1>3, <1>4, NatInd
<1> QED
  BY <1>5 DEF T

\* The tokens of the files a provider may send.
Vocabulary ==
  {ENTRY, MAP, SEQ, END, PAIR("udp", "true"), PAIR("plugin", "obfs"), KEY("plugin-opts"),
   PAIR("mode", "http"), KEY("alpn"), SCALAR("h2"), PAIR("sni", "x"), PAIR("rules", ""),
   PAIR("port", "7890"), KEY("dns"), PAIR("enable", "true"), KEY("Proxy")}
  \cup UNION {{PAIR("name", n.name), PAIR("type", n.type), PAIR("server", n.server),
               PAIR("port", n.port), PAIR("cipher", n.cipher),
               PAIR("password", n.password)} : n \in Nodes}

\* The elements of two sequences joined.
LEMMA Concat ==
  ASSUME NEW S, NEW a \in Seq(S), NEW b \in Seq(S)
  PROVE  /\ a \o b \in Seq(S) /\ Len(a \o b) = Len(a) + Len(b)
         /\ \A i \in 1..Len(a) : (a \o b)[i] = a[i]
         /\ \A i \in 1..Len(b) : (a \o b)[Len(a) + i] = b[i]
OBVIOUS

\* The members of that set, one way round.
LEMMA InVocabulary ==
  /\ {ENTRY, MAP, SEQ, END, PAIR("udp", "true"), PAIR("plugin", "obfs"), KEY("plugin-opts"),
      PAIR("mode", "http"), KEY("alpn"), SCALAR("h2"), PAIR("sni", "x"), PAIR("rules", ""),
   PAIR("port", "7890"), KEY("dns"), PAIR("enable", "true"), KEY("Proxy")}
       \subseteq Vocabulary
  /\ \A n \in Nodes :
       {PAIR("name", n.name), PAIR("type", n.type), PAIR("server", n.server),
        PAIR("port", n.port), PAIR("cipher", n.cipher), PAIR("password", n.password)}
       \subseteq Vocabulary
BY Zenon DEF Vocabulary

\* A sequence written out, as the provers need it.
LEMMA Eight ==
  ASSUME NEW S, NEW a \in S, NEW b \in S, NEW c \in S, NEW d \in S, NEW e \in S,
         NEW f \in S, NEW g \in S, NEW h \in S
  PROVE  LET s == <<a, b, c, d, e, f, g, h>> IN
         s \in Seq(S) /\ Len(s) = 8 /\ s[1] = a /\ s[2] = b /\ s[3] = c /\ s[4] = d
         /\ s[5] = e /\ s[6] = f /\ s[7] = g /\ s[8] = h
OBVIOUS

\* The kinds of tokens are told apart by their first field.
LEMMA Tokens ==
  /\ ENTRY.t = "ENTRY" /\ MAP.t = "MAP" /\ SEQ.t = "SEQ" /\ END.t = "END" /\ NONE.t = "NONE"
  /\ ERROR.t = "ERROR" /\ FLOW.t = "FLOW"
  /\ \A k, v : PAIR(k, v).t = "PAIR" /\ PAIR(k, v).k = k /\ PAIR(k, v).v = v
  /\ \A k : KEY(k).t = "KEY" /\ KEY(k).k = k
  /\ \A v : SCALAR(v).t = "SCALAR"
BY DEF ENTRY, MAP, SEQ, END, NONE, ERROR, FLOW, PAIR, KEY, SCALAR, Tok

\* What the loops of main() compare with is none of the others.
LEMMA Distinct ==
  /\ ENTRY # SEQ /\ ENTRY # END /\ MAP # END
  /\ \A k, v : PAIR(k, v) \notin {ENTRY, SEQ, MAP, END}
  /\ \A k : KEY(k) \notin {ENTRY, SEQ, MAP, END}
  /\ \A v : SCALAR(v) \notin {ENTRY, SEQ, MAP, END}
BY Tokens

\* The tokens of a node, by their places.
LEMMA NodeHead ==
  ASSUME NEW n \in Nodes
  PROVE  LET tk == NodeTokens(n) IN
         /\ tk \in Seq(Vocabulary)
         /\ Len(tk) = CASE n.extra = "none" -> 10
                        [] n.extra = "no_udp" -> 9
                        [] n.extra \in {"obfs", "list"} -> 15
                        [] n.extra = "list_then_key" -> 16
         /\ tk[1] = ENTRY /\ tk[2] = MAP
         /\ tk[3] = PAIR("name", n.name) /\ tk[4] = PAIR("type", n.type)
         /\ tk[5] = PAIR("server", n.server) /\ tk[6] = PAIR("port", n.port)
         /\ tk[7] = PAIR("cipher", n.cipher) /\ tk[8] = PAIR("password", n.password)
         /\ tk[9] = IF n.extra = "no_udp" THEN END ELSE PAIR("udp", "true")
         /\ tk[Len(tk)] = END
         /\ n.extra = "obfs" =>
              /\ tk[10] = PAIR("plugin", "obfs") /\ tk[11] = KEY("plugin-opts")
              /\ tk[12] = MAP /\ tk[13] = PAIR("mode", "http") /\ tk[14] = END
         /\ n.extra \in {"list", "list_then_key"} =>
              /\ tk[10] = KEY("alpn") /\ tk[11] = SEQ /\ tk[12] = ENTRY
              /\ tk[13] = SCALAR("h2") /\ tk[14] = END
         /\ n.extra = "list_then_key" => tk[15] = PAIR("sni", "x")
<1> DEFINE a == <<ENTRY, MAP, PAIR("name", n.name), PAIR("type", n.type),
                  PAIR("server", n.server), PAIR("port", n.port), PAIR("cipher", n.cipher),
                  PAIR("password", n.password)>>
           u == IF n.extra = "no_udp" THEN <<>> ELSE <<PAIR("udp", "true")>>
           x == Extra(n)
           z == <<END>>
<1>0. n.extra \in {"none", "no_udp", "obfs", "list", "list_then_key"}
  BY NodesAssumption
<1>1. NodeTokens(n) = ((a \o u) \o x) \o z
  BY DEF NodeTokens
<1>2. /\ a \in Seq(Vocabulary) /\ Len(a) = 8
      /\ a[1] = ENTRY /\ a[2] = MAP
      /\ a[3] = PAIR("name", n.name) /\ a[4] = PAIR("type", n.type)
      /\ a[5] = PAIR("server", n.server) /\ a[6] = PAIR("port", n.port)
      /\ a[7] = PAIR("cipher", n.cipher) /\ a[8] = PAIR("password", n.password)
  <2>1. /\ ENTRY \in Vocabulary /\ MAP \in Vocabulary
        /\ PAIR("name", n.name) \in Vocabulary /\ PAIR("type", n.type) \in Vocabulary
        /\ PAIR("server", n.server) \in Vocabulary /\ PAIR("port", n.port) \in Vocabulary
        /\ PAIR("cipher", n.cipher) \in Vocabulary
        /\ PAIR("password", n.password) \in Vocabulary
    BY InVocabulary
  <2> QED
    BY <2>1, Eight
<1>3. /\ u \in Seq(Vocabulary)
      /\ n.extra = "no_udp" => Len(u) = 0
      /\ n.extra # "no_udp" => Len(u) = 1 /\ u[1] = PAIR("udp", "true")
  <2>1. PAIR("udp", "true") \in Vocabulary
    BY InVocabulary
  <2> QED
    BY <2>1
<1>4. z \in Seq(Vocabulary) /\ Len(z) = 1 /\ z[1] = END
  <2>1. END \in Vocabulary
    BY InVocabulary
  <2> QED
    BY <2>1
<1>5. /\ x \in Seq(Vocabulary)
      /\ n.extra \in {"none", "no_udp"} => Len(x) = 0
      /\ n.extra = "obfs" =>
           /\ Len(x) = 5
           /\ x[1] = PAIR("plugin", "obfs") /\ x[2] = KEY("plugin-opts")
           /\ x[3] = MAP /\ x[4] = PAIR("mode", "http") /\ x[5] = END
      /\ n.extra = "list" => Len(x) = 5
      /\ n.extra = "list_then_key" => Len(x) = 6 /\ x[6] = PAIR("sni", "x")
      /\ n.extra \in {"list", "list_then_key"} =>
           /\ x[1] = KEY("alpn") /\ x[2] = SEQ /\ x[3] = ENTRY
           /\ x[4] = SCALAR("h2") /\ x[5] = END
  <2>1. CASE n.extra \in {"none", "no_udp"}
    BY <2>1 DEF Extra
  <2>2. CASE n.extra = "obfs"
    <3>1. x = <<PAIR("plugin", "obfs"), KEY("plugin-opts"), MAP, PAIR("mode", "http"), END>>
      BY <2>2 DEF Extra
    <3>2. /\ PAIR("plugin", "obfs") \in Vocabulary /\ KEY("plugin-opts") \in Vocabulary
          /\ MAP \in Vocabulary /\ PAIR("mode", "http") \in Vocabulary /\ END \in Vocabulary
      BY InVocabulary
    <3> HIDE DEF x
    <3> QED
      BY <2>2, <3>1, <3>2
  <2>3. CASE n.extra = "list"
    <3>1. x = <<KEY("alpn"), SEQ, ENTRY, SCALAR("h2"), END>>
      BY <2>3 DEF Extra
    <3>2. /\ KEY("alpn") \in Vocabulary /\ SEQ \in Vocabulary
          /\ ENTRY \in Vocabulary /\ SCALAR("h2") \in Vocabulary /\ END \in Vocabulary
      BY InVocabulary
    <3> HIDE DEF x
    <3> QED
      BY <2>3, <3>1, <3>2
  <2>4. CASE n.extra = "list_then_key"
    <3>1. x = <<KEY("alpn"), SEQ, ENTRY, SCALAR("h2"), END, PAIR("sni", "x")>>
      BY <2>4 DEF Extra
    <3>2. /\ KEY("alpn") \in Vocabulary /\ SEQ \in Vocabulary
          /\ ENTRY \in Vocabulary /\ SCALAR("h2") \in Vocabulary /\ END \in Vocabulary
          /\ PAIR("sni", "x") \in Vocabulary
      BY InVocabulary
    <3> HIDE DEF x
    <3> QED
      BY <2>4, <3>1, <3>2
  <2> QED
    BY <1>0, <2>1, <2>2, <2>3, <2>4
<1> HIDE DEF a, u, x, z
<1> DEFINE v == a \o u
           w == v \o x
           tk == w \o z
<1>6. /\ v \in Seq(Vocabulary) /\ Len(v) = 8 + Len(u)
      /\ \A i \in 1..8 : v[i] = a[i]
      /\ \A i \in 1..Len(u) : v[8 + i] = u[i]
  <2>1. a \in Seq(Vocabulary) /\ Len(a) = 8 /\ u \in Seq(Vocabulary)
    BY <1>2, <1>3
  <2>2. /\ v \in Seq(Vocabulary) /\ Len(v) = Len(a) + Len(u)
        /\ \A i \in 1..Len(a) : v[i] = a[i]
        /\ \A i \in 1..Len(u) : v[Len(a) + i] = u[i]
    <3>1. a \in Seq(Vocabulary) /\ u \in Seq(Vocabulary)
      BY <2>1
    <3> QED
      BY <3>1, Concat
  <2> QED
    BY <2>1, <2>2
<1> HIDE DEF v
<1>7. /\ w \in Seq(Vocabulary) /\ Len(w) = Len(v) + Len(x)
      /\ \A i \in 1..Len(v) : w[i] = v[i]
      /\ \A i \in 1..Len(x) : w[Len(v) + i] = x[i]
  <2>1. v \in Seq(Vocabulary) /\ x \in Seq(Vocabulary)
    BY <1>5, <1>6
  <2> QED
    BY <2>1, Concat
<1> HIDE DEF w
<1>8. /\ tk \in Seq(Vocabulary) /\ Len(tk) = Len(w) + 1
      /\ \A i \in 1..Len(w) : tk[i] = w[i]
      /\ tk[Len(w) + 1] = END
  <2>1. w \in Seq(Vocabulary) /\ z \in Seq(Vocabulary) /\ Len(z) = 1 /\ z[1] = END
    BY <1>4, <1>7
  <2>2. /\ tk \in Seq(Vocabulary) /\ Len(tk) = Len(w) + Len(z)
        /\ \A i \in 1..Len(w) : tk[i] = w[i]
        /\ \A i \in 1..Len(z) : tk[Len(w) + i] = z[i]
    <3>1. w \in Seq(Vocabulary) /\ z \in Seq(Vocabulary)
      BY <2>1
    <3> QED
      BY <3>1, Concat
  <2> HIDE DEF tk
  <2> QED
    BY <2>1, <2>2
<1>9. tk = NodeTokens(n)
  BY <1>1 DEF v, w
<1> HIDE DEF tk
<1>10. /\ tk[1] = ENTRY /\ tk[2] = MAP
       /\ tk[3] = PAIR("name", n.name) /\ tk[4] = PAIR("type", n.type)
       /\ tk[5] = PAIR("server", n.server) /\ tk[6] = PAIR("port", n.port)
       /\ tk[7] = PAIR("cipher", n.cipher) /\ tk[8] = PAIR("password", n.password)
  <2>1. \A i \in 1..8 : i \in 1..Len(v) /\ i \in 1..Len(w)
    BY <1>0, <1>3, <1>5, <1>6, <1>7
  <2>2. \A i \in 1..8 : tk[i] = a[i]
    BY <1>6, <1>7, <1>8, <2>1
  <2> QED
    BY <1>2, <2>2
<1>11. CASE n.extra = "none"
  <2>1. Len(u) = 1 /\ Len(x) = 0 /\ Len(v) = 9 /\ Len(w) = 9 /\ Len(tk) = 10
    <3>1. Len(u) = 1
      BY <1>3, <1>11
    <3>2. Len(x) = 0
      BY <1>5, <1>11
    <3> QED
      BY <1>6, <1>7, <1>8, <3>1, <3>2
  <2>2. tk[9] = PAIR("udp", "true") /\ tk[10] = END
    BY <1>3, <1>6, <1>7, <1>8, <1>11, <2>1
  <2> QED
    BY <1>8, <1>9, <1>10, <1>11, <2>1, <2>2
<1>12. CASE n.extra = "no_udp"
  <2>1. Len(u) = 0 /\ Len(x) = 0 /\ Len(v) = 8 /\ Len(w) = 8 /\ Len(tk) = 9
    BY <1>3, <1>5, <1>6, <1>7, <1>8, <1>12
  <2>2. tk[9] = END
    BY <1>8, <2>1
  <2> QED
    BY <1>8, <1>9, <1>10, <1>12, <2>1, <2>2
<1>13. CASE n.extra = "obfs"
  <2>1. Len(u) = 1 /\ Len(x) = 5 /\ Len(v) = 9 /\ Len(w) = 14 /\ Len(tk) = 15
    <3>1. Len(u) = 1
      BY <1>3, <1>13
    <3>2. Len(x) = 5
      BY <1>5, <1>13
    <3> QED
      BY <1>6, <1>7, <1>8, <3>1, <3>2
  <2>2. tk[9] = PAIR("udp", "true") /\ tk[15] = END
    BY <1>3, <1>6, <1>7, <1>8, <1>13, <2>1
  <2>3. \A i \in 1..5 : tk[9 + i] = x[i]
    BY <1>7, <1>8, <2>1
  <2>4. tk[10] = x[1] /\ tk[11] = x[2] /\ tk[12] = x[3] /\ tk[13] = x[4] /\ tk[14] = x[5]
    BY <2>3
  <2> QED
    BY <1>5, <1>8, <1>9, <1>10, <1>13, <2>1, <2>2, <2>4
<1>14. CASE n.extra = "list"
  <2>1. Len(u) = 1 /\ Len(x) = 5 /\ Len(v) = 9 /\ Len(w) = 14 /\ Len(tk) = 15
    <3>1. Len(u) = 1
      BY <1>3, <1>14
    <3>2. Len(x) = 5
      BY <1>5, <1>14
    <3> QED
      BY <1>6, <1>7, <1>8, <3>1, <3>2
  <2>2. tk[9] = PAIR("udp", "true") /\ tk[15] = END
    BY <1>3, <1>6, <1>7, <1>8, <1>14, <2>1
  <2>3. \A i \in 1..5 : tk[9 + i] = x[i]
    BY <1>7, <1>8, <2>1
  <2>4. tk[10] = x[1] /\ tk[11] = x[2] /\ tk[12] = x[3] /\ tk[13] = x[4] /\ tk[14] = x[5]
    BY <2>3
  <2> QED
    BY <1>5, <1>8, <1>9, <1>10, <1>14, <2>1, <2>2, <2>4
<1>15. CASE n.extra = "list_then_key"
  <2>1. Len(u) = 1 /\ Len(x) = 6 /\ Len(v) = 9 /\ Len(w) = 15 /\ Len(tk) = 16
    <3>1. Len(u) = 1
      BY <1>3, <1>15
    <3>2. Len(x) = 6
      BY <1>5, <1>15
    <3> QED
      BY <1>6, <1>7, <1>8, <3>1, <3>2
  <2>2. tk[9] = PAIR("udp", "true") /\ tk[16] = END
    BY <1>3, <1>6, <1>7, <1>8, <1>15, <2>1
  <2>3. \A i \in 1..6 : tk[9 + i] = x[i]
    BY <1>7, <1>8, <2>1
  <2>4. tk[10] = x[1] /\ tk[11] = x[2] /\ tk[12] = x[3] /\ tk[13] = x[4] /\ tk[14] = x[5]
        /\ tk[15] = x[6]
    BY <2>3
  <2> QED
    BY <1>5, <1>8, <1>9, <1>10, <1>15, <2>1, <2>2, <2>4
<1> QED
  BY <1>0, <1>11, <1>12, <1>13, <1>14, <1>15

\* A node has between nine and sixteen tokens.
LEMMA NodeLen ==
  ASSUME NEW n \in Nodes
  PROVE  NodeTokens(n) \in Seq(Vocabulary) /\ Len(NodeTokens(n)) \in 9..16
<1> DEFINE x == n.extra
           l == Len(NodeTokens(n))
<1>1. /\ NodeTokens(n) \in Seq(Vocabulary)
      /\ l = CASE x = "none" -> 10
               [] x = "no_udp" -> 9
               [] x \in {"obfs", "list"} -> 15
               [] x = "list_then_key" -> 16
  BY NodeHead
<1>2. x \in {"none", "no_udp", "obfs", "list", "list_then_key"}
  BY NodesAssumption
<1> HIDE DEF x, l
<1>3. l \in 9..16
  BY <1>1, <1>2
<1> QED
  BY <1>1, <1>3 DEF l

\* What is left of the sequence s from its j-th element on.
Rest(s, j) == SubSeq(s, j, Len(s))

\* SCAN() on such a rest: the next token, and a shorter rest.
LEMMA RestStep ==
  ASSUME NEW S, NEW s \in Seq(S), NEW t \in Seq(S), NEW j \in 1..Len(s)
  PROVE  /\ Peek(Rest(s, j) \o t) = s[j]
         /\ Drop(Rest(s, j) \o t) = Rest(s, j + 1) \o t
<1> DEFINE r == Rest(s, j)
           q == Rest(s, j + 1)
<1>1. /\ r \in Seq(S) /\ Len(r) = Len(s) - j + 1
      /\ \A i \in 1..Len(r) : r[i] = s[j + i - 1]
  BY DEF Rest
<1>2. /\ q \in Seq(S) /\ Len(q) = Len(s) - j
      /\ \A i \in 1..Len(q) : q[i] = s[j + i]
  BY DEF Rest
<1> HIDE DEF r, q
<1> DEFINE u == r \o t
           v == q \o t
<1>3. /\ u \in Seq(S) /\ Len(u) = Len(r) + Len(t)
      /\ \A i \in 1..Len(r) : u[i] = r[i]
      /\ \A i \in 1..Len(t) : u[Len(r) + i] = t[i]
  <2>1. r \in Seq(S)
    BY <1>1
  <2> QED
    BY <2>1, Concat
<1>4. /\ v \in Seq(S) /\ Len(v) = Len(q) + Len(t)
      /\ \A i \in 1..Len(q) : v[i] = q[i]
      /\ \A i \in 1..Len(t) : v[Len(q) + i] = t[i]
  <2>1. q \in Seq(S)
    BY <1>2
  <2> QED
    BY <2>1, Concat
<1> HIDE DEF u, v
<1>5. Len(r) = Len(q) + 1 /\ Len(q) \in Nat /\ Len(t) \in Nat
  BY <1>1, <1>2
<1>6. u # <<>> /\ u[1] = s[j]
  <2>1. Len(u) # 0 /\ Len(<<>>) = 0
    BY <1>3, <1>5
  <2>2. 1 \in 1..Len(r) /\ j + 1 - 1 = j
    BY <1>5
  <2>3. u[1] = s[j + 1 - 1]
    BY <1>1, <1>3, <2>2
  <2> QED
    BY <2>1, <2>2, <2>3
<1>7. Peek(u) = s[j] /\ Drop(u) = Tail(u)
  BY <1>3, <1>6 DEF Peek, Drop
<1>8. Tail(u) \in Seq(S) /\ Len(Tail(u)) = Len(v) /\ \A i \in 1..Len(v) : Tail(u)[i] = u[i + 1]
  BY <1>3, <1>4, <1>5, <1>6
<1>9. \A i \in 1..Len(v) : u[i + 1] = v[i]
  <2> SUFFICES ASSUME NEW i \in 1..Len(v) PROVE u[i + 1] = v[i]
    OBVIOUS
  <2>1. CASE i <= Len(q)
    <3>1. v[i] = s[j + i]
      BY <1>2, <1>4, <2>1, <1>5
    <3>2. i + 1 \in 1..Len(r) /\ j + (i + 1) - 1 = j + i
      BY <1>5, <2>1
    <3>3. u[i + 1] = s[j + (i + 1) - 1]
      BY <1>1, <1>3, <3>2
    <3> QED
      BY <3>1, <3>2, <3>3
  <2>2. CASE i > Len(q)
    <3> DEFINE k == i - Len(q)
    <3>1. k \in 1..Len(t) /\ i = Len(q) + k /\ i + 1 = Len(r) + k
      BY <1>4, <1>5, <2>2
    <3> HIDE DEF k
    <3> QED
      BY <1>3, <1>4, <3>1
  <2> QED
    BY <1>4, <1>5, <2>1, <2>2
<1>10. Tail(u) = v
  <2> DEFINE w == Tail(u)
  <2>1. w \in Seq(S) /\ v \in Seq(S) /\ Len(w) = Len(v) /\ \A i \in 1..Len(v) : w[i] = v[i]
    BY <1>4, <1>8, <1>9
  <2> HIDE DEF w
  <2>2. w = v
    BY <2>1
  <2> QED
    BY <2>2 DEF w
<1> QED
  BY <1>7, <1>10 DEF u, v, r, q

\* The whole is a rest, and after the last token none is left.
LEMMA RestEnds ==
  ASSUME NEW S, NEW s \in Seq(S), NEW t \in Seq(S)
  PROVE  /\ Rest(s, 1) \o t = s \o t
         /\ Rest(s, Len(s) + 1) \o t = t
<1>1. Rest(s, 1) = s
  BY DEF Rest
<1>2. Rest(s, Len(s) + 1) = <<>>
  BY DEF Rest
<1>3. <<>> \o t = t
  OBVIOUS
<1> QED
  BY <1>1, <1>2, <1>3

\* The end of a file whose list is indented, and what is left of such a file
\* when k nodes have been read.
Bottom == <<PAIR("rules", ""), END>>

Ending == <<END, PAIR("rules", ""), END>>

Lines(ns, k) == [i \in 1..(Len(ns) - k) |-> NodeTokens(ns[k + i])]

Left(ns, k, e) == Flat(Lines(ns, k), Len(ns) - k) \o e

\* A sequence of three.
LEMMA Three ==
  ASSUME NEW S, NEW a \in S, NEW b \in S, NEW c \in S
  PROVE  <<a, b, c>> \in Seq(S) /\ Len(<<a, b, c>>) = 3 /\ <<a, b, c>>[1] = a
OBVIOUS

\* The end of an indented file starts with the END of its list.
LEMMA EndingType == Ending \in Seq(Vocabulary) /\ Len(Ending) = 3 /\ Ending[1] = END
<1>1. END \in Vocabulary /\ PAIR("rules", "") \in Vocabulary
  BY InVocabulary
<1> QED
  BY <1>1, Three DEF Ending

\* The tokens of the nodes not yet read.
LEMMA LinesType ==
  ASSUME NEW ns \in Seq(Nodes), NEW k \in 0..Len(ns)
  PROVE  /\ \A i \in 1..(Len(ns) - k) : Lines(ns, k)[i] = NodeTokens(ns[k + i])
         /\ \A i \in 1..(Len(ns) - k) : Lines(ns, k)[i] \in Seq(Vocabulary)
         /\ Flat(Lines(ns, k), Len(ns) - k) \in Seq(Vocabulary)
<1>1. \A i \in 1..(Len(ns) - k) : Lines(ns, k)[i] = NodeTokens(ns[k + i])
  BY DEF Lines
<1>2. \A i \in 1..(Len(ns) - k) : ns[k + i] \in Nodes
  OBVIOUS
<1>3. \A n \in Nodes : NodeTokens(n) \in Seq(Vocabulary)
  BY NodeHead
<1>4. \A i \in 1..(Len(ns) - k) : Lines(ns, k)[i] \in Seq(Vocabulary)
  BY <1>1, <1>2, <1>3
<1>5. Len(ns) - k \in Nat
  OBVIOUS
<1> QED
  BY <1>1, <1>4, <1>5, FlatType

\* What is left of a file is made of its tokens.
LEMMA LeftType ==
  ASSUME NEW e \in Seq(Vocabulary), NEW ns \in Seq(Nodes), NEW k \in 0..Len(ns)
  PROVE  Left(ns, k, e) \in Seq(Vocabulary)
BY LinesType, ConcatType DEF Left

\* The next node, and what is left after it.
LEMMA LeftStep ==
  ASSUME NEW e \in Seq(Vocabulary), NEW ns \in Seq(Nodes), NEW k \in Nat, k < Len(ns)
  PROVE  Left(ns, k, e) = NodeTokens(ns[k + 1]) \o Left(ns, k + 1, e)
<1> DEFINE m == Len(ns) - (k + 1)
           s == Lines(ns, k)
           t == Lines(ns, k + 1)
<1>1. m \in Nat /\ Len(ns) - k = m + 1 /\ k \in 0..Len(ns) /\ k + 1 \in 0..Len(ns)
  OBVIOUS
<1>2. /\ \A i \in 1..(m + 1) : s[i] \in Seq(Vocabulary)
      /\ \A i \in 1..(m + 1) : s[i] = NodeTokens(ns[k + i])
  BY <1>1, LinesType
<1>3. /\ \A i \in 1..m : t[i] = NodeTokens(ns[(k + 1) + i])
      /\ Flat(t, m) \in Seq(Vocabulary)
  BY <1>1, LinesType
<1>4. \A i \in 1..m : t[i] = s[i + 1]
  <2> SUFFICES ASSUME NEW i \in 1..m PROVE t[i] = s[i + 1]
    OBVIOUS
  <2>1. i + 1 \in 1..(m + 1) /\ (k + 1) + i = k + (i + 1)
    BY <1>1
  <2> HIDE DEF s, t, m
  <2> QED
    BY <1>2, <1>3, <2>1
<1>5. s[1] = NodeTokens(ns[k + 1])
  <2>1. 1 \in 1..(m + 1)
    BY <1>1
  <2> QED
    BY <1>2, <2>1
<1>5a. s[1] \in Seq(Vocabulary)
  <2>1. 1 \in 1..(m + 1)
    BY <1>1
  <2> QED
    BY <1>2, <2>1
<1>6. Left(ns, k, e) = Flat(s, m + 1) \o e /\ Left(ns, k + 1, e) = Flat(t, m) \o e
  BY <1>1 DEF Left
<1> HIDE DEF s, t, m
<1>7. Flat(s, m + 1) = s[1] \o Flat(t, m)
  <2>1. m \in Nat
    BY <1>1
  <2>2. Follows(Vocabulary, s, t, m)
    BY <1>2, <1>4 DEF Follows
  <2> QED
    BY <2>1, <2>2, FlatFirst
<1> DEFINE a == s[1]
           b == Flat(t, m)
           c == e
<1>8. a \in Seq(Vocabulary) /\ b \in Seq(Vocabulary) /\ c \in Seq(Vocabulary)
  BY <1>3, <1>5a
<1>8a. Left(ns, k, e) = (a \o b) \o c /\ Left(ns, k + 1, e) = b \o c
  BY <1>6, <1>7
<1>8b. a = NodeTokens(ns[k + 1])
  BY <1>5
<1> HIDE DEF a, b, c
<1>9. Assoc(a, b, c)
  BY <1>8, ConcatAssoc
<1> QED
  BY <1>8a, <1>8b, <1>9 DEF Assoc

\* After the last node only the end of the file is left.
LEMMA LeftNone ==
  ASSUME NEW e \in Seq(Vocabulary), NEW ns \in Seq(Nodes)
  PROVE  Left(ns, Len(ns), e) = e
<1>1. Len(ns) - Len(ns) = 0
  OBVIOUS
<1>2. Flat(Lines(ns, Len(ns)), 0) = <<>>
  BY FlatNone
<1>3. <<>> \o e = e
  OBVIOUS
<1> QED
  BY <1>1, <1>2, <1>3 DEF Left

\* The usable ones of the first k nodes, and what is emitted for them.
Share(ns) == [i \in 1..Len(ns) |-> IF Usable(ns[i]) THEN <<ns[i]>> ELSE <<>>]

Kept(ns, k) == Flat(Share(ns), k)

Out(ns, k) == [i \in 1..Len(Kept(ns, k)) |-> Emitted(Kept(ns, k)[i])]

\* Only listed nodes are kept.
LEMMA KeptType ==
  ASSUME NEW ns \in Seq(Nodes), NEW k \in 0..Len(ns)
  PROVE  /\ \A i \in 1..k : Share(ns)[i] \in Seq(Nodes)
         /\ Kept(ns, k) \in Seq(Nodes)
<1>1. \A i \in 1..k : Share(ns)[i] \in Seq(Nodes)
  <2> SUFFICES ASSUME NEW i \in 1..k PROVE Share(ns)[i] \in Seq(Nodes)
    OBVIOUS
  <2>1. i \in 1..Len(ns) /\ ns[i] \in Nodes
    OBVIOUS
  <2>2. <<>> \in Seq(Nodes) /\ <<ns[i]>> \in Seq(Nodes)
    BY <2>1
  <2>3. Share(ns)[i] = IF Usable(ns[i]) THEN <<ns[i]>> ELSE <<>>
    BY <2>1 DEF Share
  <2> QED
    BY <2>2, <2>3
<1> QED
  BY <1>1, FlatType DEF Kept

\* One more node is kept if it is usable.
LEMMA KeptStep ==
  ASSUME NEW ns \in Seq(Nodes), NEW k \in Nat, k < Len(ns)
  PROVE  Kept(ns, k + 1) = IF Usable(ns[k + 1]) THEN Append(Kept(ns, k), ns[k + 1])
                           ELSE Kept(ns, k)
<1>1. k \in 0..Len(ns) /\ k + 1 \in 0..Len(ns) /\ ns[k + 1] \in Nodes
  OBVIOUS
<1>2. Kept(ns, k + 1) = Kept(ns, k) \o Share(ns)[k + 1]
  <2>1. \A i \in 1..(k + 1) : Share(ns)[i] \in Seq(Nodes)
    BY <1>1, KeptType
  <2> QED
    BY <2>1, FlatStep DEF Kept
<1>3. Share(ns)[k + 1] = IF Usable(ns[k + 1]) THEN <<ns[k + 1]>> ELSE <<>>
  <2>1. k + 1 \in 1..Len(ns)
    BY <1>1
  <2> QED
    BY <2>1 DEF Share
<1>4. Kept(ns, k) \in Seq(Nodes)
  BY <1>1, KeptType
<1> DEFINE q == Kept(ns, k)
           n == ns[k + 1]
<1>5. q \in Seq(Nodes) /\ n \in Nodes
  BY <1>1, <1>4
<1> HIDE DEF q, n
<1>6. q \o <<>> = q /\ q \o <<n>> = Append(q, n)
  BY <1>5
<1> QED
  BY <1>2, <1>3, <1>6 DEF q, n

\* What is kept of fewer nodes is the start of what is kept of more.
LEMMA KeptPrefix ==
  ASSUME NEW ns \in Seq(Nodes), NEW k \in 0..Len(ns)
  PROVE  \A m \in k..Len(ns) :
           /\ Len(Kept(ns, k)) <= Len(Kept(ns, m))
           /\ \A i \in 1..Len(Kept(ns, k)) : Kept(ns, m)[i] = Kept(ns, k)[i]
<1> DEFINE P(m) == /\ Len(Kept(ns, k)) <= Len(Kept(ns, m))
                   /\ \A i \in 1..Len(Kept(ns, k)) : Kept(ns, m)[i] = Kept(ns, k)[i]
           T == {d \in Nat : k + d <= Len(ns) => P(k + d)}
<1>1. 0 \in T
  <2>1. k + 0 = k /\ Kept(ns, k) \in Seq(Nodes)
    BY KeptType
  <2>2. P(k)
    BY <2>1
  <2> HIDE DEF P
  <2> QED
    BY <2>1, <2>2
<1>2. ASSUME NEW d \in Nat, d \in T PROVE d + 1 \in T
  <2> DEFINE m == k + d
  <2>1. m \in Nat /\ k + (d + 1) = m + 1
    OBVIOUS
  <2>2. ASSUME m + 1 <= Len(ns) PROVE P(m + 1)
    <3>1. P(m) /\ m < Len(ns) /\ m \in 0..Len(ns) /\ m + 1 \in 1..Len(ns)
      BY <1>2, <2>2
    <3>2. Kept(ns, m) \in Seq(Nodes) /\ Kept(ns, k) \in Seq(Nodes) /\ ns[m + 1] \in Nodes
      BY <3>1, KeptType
    <3> HIDE DEF m
    <3>3. Kept(ns, m + 1) = IF Usable(ns[m + 1]) THEN Append(Kept(ns, m), ns[m + 1])
                            ELSE Kept(ns, m)
      BY <2>1, <3>1, KeptStep
    <3> DEFINE q == Kept(ns, m)
               p == Kept(ns, m + 1)
               o == Kept(ns, k)
               n == ns[m + 1]
    <3>4. q \in Seq(Nodes) /\ n \in Nodes /\ (p = Append(q, n) \/ p = q) /\ o \in Seq(Nodes)
      BY <3>2, <3>3
    <3>5. Len(o) <= Len(q) /\ \A i \in 1..Len(o) : q[i] = o[i]
      BY <3>1
    <3> HIDE DEF q, p, n, o
    <3>6. Len(o) <= Len(p) /\ \A i \in 1..Len(o) : p[i] = o[i]
      <4>1. CASE p = Append(q, n)
        <5>1. Len(p) = Len(q) + 1 /\ \A i \in 1..Len(q) : p[i] = q[i]
          BY <3>4, <4>1
        <5>2. \A i \in 1..Len(o) : i \in 1..Len(q)
          BY <3>4, <3>5
        <5> QED
          BY <3>4, <3>5, <5>1, <5>2
      <4>2. CASE p = q
        BY <3>5, <4>2
      <4> QED
        BY <3>4, <4>1, <4>2
    <3> QED
      BY <3>6 DEF p, o
  <2> HIDE DEF P, m
  <2> QED
    BY <2>1, <2>2
<1> HIDE DEF T
<1>3. Nat \subseteq T
  BY <1>1, <1>2, NatInd
<1> HIDE DEF P
<1>4. ASSUME NEW m \in k..Len(ns) PROVE P(m)
  <2>1. m - k \in Nat /\ k + (m - k) = m
    OBVIOUS
  <2>2. m - k \in T
    BY <1>3, <2>1
  <2> QED
    BY <2>1, <2>2 DEF T
<1> QED
  BY <1>4 DEF P

\* One more node is emitted if it is usable.
LEMMA OutStep ==
  ASSUME NEW ns \in Seq(Nodes), NEW k \in Nat, k < Len(ns)
  PROVE  Out(ns, k + 1) = IF Usable(ns[k + 1]) THEN Append(Out(ns, k), Emitted(ns[k + 1]))
                          ELSE Out(ns, k)
<1>1. Kept(ns, k) \in Seq(Nodes) /\ ns[k + 1] \in Nodes
  <2>1. k \in 0..Len(ns)
    OBVIOUS
  <2> QED
    BY <2>1, KeptType
<1>2. CASE ~Usable(ns[k + 1])
  BY <1>2, KeptStep DEF Out
<1>3. CASE Usable(ns[k + 1])
  <2> DEFINE q == Kept(ns, k)
             n == ns[k + 1]
             p == Kept(ns, k + 1)
             E == {Emitted(x) : x \in Nodes}
  <2>1. q \in Seq(Nodes) /\ n \in Nodes /\ p = Append(q, n)
    BY <1>1, <1>3, KeptStep
  <2> HIDE DEF q, n, p
  <2>2. /\ Len(p) = Len(q) + 1 /\ Len(q) \in Nat
        /\ \A i \in 1..Len(q) : p[i] = q[i] /\ q[i] \in Nodes
        /\ p[Len(q) + 1] = n
    BY <2>1
  <2> DEFINE f == [i \in 1..Len(q) |-> Emitted(q[i])]
             g == [i \in 1..Len(p) |-> Emitted(p[i])]
  <2>3. \A x \in Nodes : Emitted(x) \in E
    OBVIOUS
  <2> HIDE DEF E
  <2>4. f \in Seq(E) /\ Len(f) = Len(q) /\ \A i \in 1..Len(q) : f[i] = Emitted(q[i])
    BY <2>2, <2>3
  <2>5. /\ Len(g) = Len(q) + 1 /\ \A i \in 1..Len(q) : g[i] = Emitted(q[i])
        /\ g[Len(q) + 1] = Emitted(n)
    BY <2>2
  <2>6. g \in Seq(E)
    BY <2>1, <2>2, <2>3
  <2>7. Emitted(n) \in E
    BY <2>1, <2>3
  <2> HIDE DEF f, g
  <2> DEFINE e == Emitted(n)
             h == Append(f, e)
  <2> HIDE DEF e
  <2>8. /\ h \in Seq(E) /\ Len(h) = Len(q) + 1 /\ \A i \in 1..Len(q) : h[i] = Emitted(q[i])
        /\ h[Len(q) + 1] = e
    BY <2>4, <2>7 DEF e
  <2> HIDE DEF h
  <2>9. \A i \in 1..Len(g) : i \in 1..Len(q) \/ i = Len(q) + 1
    BY <2>2, <2>5
  <2>10. Len(g) = Len(h) /\ \A i \in 1..Len(g) : g[i] = h[i]
    BY <2>5, <2>8, <2>9 DEF e
  <2>11. g = h
    BY <2>6, <2>8, <2>10
  <2> QED
    BY <1>3, <2>11 DEF g, h, f, e, p, q, n, Out
<1> QED
  BY <1>2, <1>3

\* A provider's file up to the key of its node list, and from there on.
Opening(how) ==
  <<MAP, PAIR("port", "7890"), KEY("dns"), MAP, PAIR("enable", "true"), END,
    KEY(IF how = "old" THEN "Proxy" ELSE "proxies")>>

Body(ns, how) ==
  IF how = "flush" THEN Left(ns, 0, Bottom) ELSE <<SEQ>> \o Left(ns, 0, Ending)

\* The tokens of a file that has the key "proxies".
Wide == Vocabulary \cup {KEY("proxies")}

\* Sequences of one and of two.
LEMMA Two ==
  ASSUME NEW S, NEW a \in S, NEW b \in S
  PROVE  /\ <<a, b>> \in Seq(S) /\ <<a>> \in Seq(S) /\ Len(<<a, b>>) = 2
         /\ <<a, b>>[1] = a /\ Len(<<a>>) = 1 /\ <<a>>[1] = a
OBVIOUS

\* The next token of a stream that has one.
LEMMA PeekFirst ==
  ASSUME NEW S, NEW s \in Seq(S), Len(s) # 0
  PROVE  Peek(s) = s[1]
<1>1. s # <<>> /\ Head(s) = s[1]
  OBVIOUS
<1> QED
  BY <1>1 DEF Peek

\* A sequence of three, from two parts.
LEMMA OneAndTwo ==
  ASSUME NEW x, NEW y
  PROVE  <<x>> \o <<y, x>> = <<x, y, x>>
<1> DEFINE S == {x, y}
           a == <<x>>
           b == <<y, x>>
           v == <<x, y, x>>
<1>1. /\ a \in Seq(S) /\ Len(a) = 1 /\ a[1] = x
      /\ b \in Seq(S) /\ Len(b) = 2 /\ b[1] = y /\ b[2] = x
      /\ v \in Seq(S) /\ Len(v) = 3 /\ v[1] = x /\ v[2] = y /\ v[3] = x
  OBVIOUS
<1> HIDE DEF S, a, b, v
<1> DEFINE u == a \o b
<1>2. /\ u \in Seq(S) /\ Len(u) = Len(a) + Len(b)
      /\ \A i \in 1..Len(a) : u[i] = a[i]
      /\ \A i \in 1..Len(b) : u[Len(a) + i] = b[i]
  <2>1. a \in Seq(S) /\ b \in Seq(S)
    BY <1>1
  <2> QED
    BY <2>1, Concat
<1> HIDE DEF u
<1>3. u \in Seq(S) /\ Len(u) = 3 /\ u[1] = x /\ u[2] = y /\ u[3] = x
  BY <1>1, <1>2
<1>4. \A i \in 1..3 : u[i] = v[i]
  <2>1. \A i \in 1..3 : i = 1 \/ i = 2 \/ i = 3
    OBVIOUS
  <2> QED
    BY <1>1, <1>3, <2>1
<1>5. u = v
  BY <1>1, <1>3, <1>4
<1> QED
  BY <1>5 DEF u, v, a, b

\* The parts of the end of a file.
LEMMA BottomType ==
  /\ Bottom \in Seq(Vocabulary) /\ Len(Bottom) = 2 /\ Bottom[1] = PAIR("rules", "")
  /\ <<END>> \in Seq(Vocabulary) /\ <<SEQ>> \in Seq(Vocabulary)
  /\ Len(<<SEQ>>) = 1 /\ <<SEQ>>[1] = SEQ
  /\ <<END>> \o Bottom = Ending
<1>1. END \in Vocabulary /\ PAIR("rules", "") \in Vocabulary /\ SEQ \in Vocabulary
  BY InVocabulary
<1>2. /\ Bottom \in Seq(Vocabulary) /\ Len(Bottom) = 2 /\ Bottom[1] = PAIR("rules", "")
      /\ <<END>> \in Seq(Vocabulary) /\ <<SEQ>> \in Seq(Vocabulary)
      /\ Len(<<SEQ>>) = 1 /\ <<SEQ>>[1] = SEQ
  BY <1>1, Two DEF Bottom
<1>3. <<END>> \o Bottom = Ending
  BY OneAndTwo DEF Bottom, Ending
<1> QED
  BY <1>2, <1>3

\* A sequence of seven.
LEMMA Seven ==
  ASSUME NEW S, NEW a \in S, NEW b \in S, NEW c \in S, NEW d \in S, NEW e \in S,
         NEW f \in S, NEW g \in S
  PROVE  LET s == <<a, b, c, d, e, f, g>> IN
         s \in Seq(S) /\ Len(s) = 7 /\ s[1] = a /\ s[2] = b /\ s[3] = c /\ s[4] = d
         /\ s[5] = e /\ s[6] = f /\ s[7] = g
OBVIOUS

\* The key "proxies" is the last token of the opening, or is not there at all.
LEMMA OpeningType ==
  ASSUME NEW how
  PROVE  LET s == Opening(how) IN
         /\ s \in Seq(Wide) /\ Len(s) = 7
         /\ \A j \in 1..6 : s[j] # KEY("proxies")
         /\ how # "old" => s[7] = KEY("proxies")
         /\ how = "old" => s \in Seq(Vocabulary)
<1> DEFINE g == KEY(IF how = "old" THEN "Proxy" ELSE "proxies")
           s == Opening(how)
<1>1. /\ MAP \in Vocabulary /\ PAIR("port", "7890") \in Vocabulary
      /\ KEY("dns") \in Vocabulary /\ PAIR("enable", "true") \in Vocabulary
      /\ END \in Vocabulary /\ KEY("Proxy") \in Vocabulary
  BY InVocabulary
<1>2. /\ MAP \in Wide /\ PAIR("port", "7890") \in Wide
      /\ KEY("dns") \in Wide /\ PAIR("enable", "true") \in Wide
      /\ END \in Wide /\ g \in Wide
      /\ how = "old" => g \in Vocabulary
      /\ how # "old" => g = KEY("proxies")
  BY <1>1 DEF Wide
<1>3. s = <<MAP, PAIR("port", "7890"), KEY("dns"), MAP, PAIR("enable", "true"), END, g>>
  BY DEF Opening
<1> HIDE DEF g, s
<1>4. /\ s \in Seq(Wide) /\ Len(s) = 7
      /\ s[1] = MAP /\ s[2] = PAIR("port", "7890") /\ s[3] = KEY("dns") /\ s[4] = MAP
      /\ s[5] = PAIR("enable", "true") /\ s[6] = END /\ s[7] = g
  BY <1>2, <1>3, Seven
<1>5. how = "old" => s \in Seq(Vocabulary)
  BY <1>1, <1>2, <1>3, Seven
<1>6. /\ MAP # KEY("proxies") /\ PAIR("port", "7890") # KEY("proxies")
      /\ KEY("dns") # KEY("proxies") /\ PAIR("enable", "true") # KEY("proxies")
      /\ END # KEY("proxies")
  BY Tokens
<1>7. \A j \in 1..6 : s[j] # KEY("proxies")
  <2>1. \A j \in 1..6 : j = 1 \/ j = 2 \/ j = 3 \/ j = 4 \/ j = 5 \/ j = 6
    OBVIOUS
  <2> QED
    BY <1>4, <1>6, <2>1
<1> QED
  BY <1>2, <1>4, <1>5, <1>7 DEF s

\* The narrower set of tokens is part of the wider.
LEMMA WideSeq == \A q \in Seq(Vocabulary) : q \in Seq(Wide)
<1>1. Vocabulary \subseteq Wide
  BY DEF Wide
<1> HIDE DEF Wide
<1> QED
  BY <1>1

\* A file is its opening and its body.
LEMMA RawIs ==
  ASSUME NEW ns \in Seq(Nodes), NEW how
  PROVE  /\ Raw(ns, how) = Opening(how) \o Body(ns, how)
         /\ Body(ns, how) \in Seq(Vocabulary)
<1> DEFINE h == Opening(how)
           q == Flat(Lines(ns, 0), Len(ns))
           b == Bottom
           o == <<SEQ>>
           z == <<END>>
<1>1. 0 \in 0..Len(ns) /\ Len(ns) - 0 = Len(ns) /\ Len(ns) \in Nat
  OBVIOUS
<1>2. q \in Seq(Vocabulary)
  BY <1>1, LinesType
<1>3. q = FlattenSeq([i \in 1..Len(ns) |-> NodeTokens(ns[i])])
  <2>1. \A i \in 1..Len(ns) : Lines(ns, 0)[i] = NodeTokens(ns[i])
    BY DEF Lines
  <2>2. [i \in 1..Len(ns) |-> Lines(ns, 0)[i]] = [i \in 1..Len(ns) |-> NodeTokens(ns[i])]
    BY <2>1
  <2> QED
    BY <2>2 DEF Flat, Upto
<1>4. /\ Left(ns, 0, Bottom) = q \o b
      /\ Left(ns, 0, Ending) = q \o (z \o b)
  BY <1>1, BottomType DEF Left
<1>5. Raw(ns, how) = IF how = "flush" THEN (h \o q) \o b ELSE (h \o ((o \o q) \o z)) \o b
  BY <1>3 DEF Raw, Opening, Bottom
<1>6. /\ h \in Seq(Wide) /\ q \in Seq(Wide) /\ b \in Seq(Wide) /\ o \in Seq(Wide)
      /\ z \in Seq(Wide)
  BY <1>2, WideSeq, OpeningType, BottomType
<1>6a. Body(ns, how) = IF how = "flush" THEN q \o b ELSE o \o (q \o (z \o b))
  BY <1>4 DEF Body
<1>6b. /\ q \in Seq(Vocabulary) /\ b \in Seq(Vocabulary)
       /\ o \in Seq(Vocabulary) /\ z \in Seq(Vocabulary)
  BY <1>2, BottomType
<1> HIDE DEF h, q, b, o, z
<1>7. (h \o q) \o b = h \o (q \o b)
  <2>1. Assoc(h, q, b)
    BY <1>6, ConcatAssoc
  <2> QED
    BY <2>1 DEF Assoc
<1>8. (h \o ((o \o q) \o z)) \o b = h \o (o \o (q \o (z \o b)))
  <2> DEFINE oq == o \o q
             zb == z \o b
             oqz == oq \o z
  <2>1. oq \in Seq(Wide) /\ zb \in Seq(Wide)
    BY <1>6, ConcatType
  <2>2. oq \o zb = o \o (q \o zb)
    <3> HIDE DEF zb, oq
    <3> QED
      <4>1. o \in Seq(Wide) /\ q \in Seq(Wide) /\ zb \in Seq(Wide)
        BY <1>6, <2>1
      <4>2. Assoc(o, q, zb)
        BY <4>1, ConcatAssoc
      <4> QED
        BY <4>2 DEF Assoc, oq
  <2> HIDE DEF oq
  <2>3. oqz \in Seq(Wide)
    BY <1>6, <2>1, ConcatType
  <2>4. oqz \o b = oq \o zb
    <3>1. oq \in Seq(Wide) /\ z \in Seq(Wide) /\ b \in Seq(Wide)
      BY <1>6, <2>1
    <3>2. Assoc(oq, z, b)
      BY <3>1, ConcatAssoc
    <3> QED
      BY <3>2 DEF Assoc
  <2> HIDE DEF oqz
  <2>5. (h \o oqz) \o b = h \o (oqz \o b)
    <3>1. h \in Seq(Wide) /\ oqz \in Seq(Wide) /\ b \in Seq(Wide)
      BY <1>6, <2>3
    <3>2. Assoc(h, oqz, b)
      BY <3>1, ConcatAssoc
    <3> QED
      BY <3>2 DEF Assoc
  <2> QED
    BY <2>2, <2>4, <2>5 DEF oq, zb, oqz
<1>9. /\ q \o b \in Seq(Vocabulary)
      /\ o \o (q \o (z \o b)) \in Seq(Vocabulary)
  <2>1. q \o b \in Seq(Vocabulary) /\ z \o b \in Seq(Vocabulary)
    BY <1>6b, ConcatType
  <2>2. q \o (z \o b) \in Seq(Vocabulary)
    BY <1>6b, <2>1, ConcatType
  <2> QED
    BY <1>6b, <2>1, <2>2, ConcatType
<1> QED
  BY <1>5, <1>6a, <1>7, <1>8, <1>9 DEF h

\* The list of an indented file starts with SEQ, of a flush one with a node.
LEMMA BodyStarts ==
  ASSUME NEW ns \in Seq(Nodes)
  PROVE  /\ Peek(Body(ns, "indented")) = SEQ
         /\ Drop(Body(ns, "indented")) = Left(ns, 0, Ending)
         /\ Peek(Body(ns, "flush")) # SEQ
<1>1. 0 \in 0..Len(ns) /\ Len(ns) \in Nat
  OBVIOUS
<1>2. Left(ns, 0, Ending) \in Seq(Vocabulary)
  BY <1>1, EndingType, LeftType
<1>3. /\ Peek(Body(ns, "indented")) = SEQ
      /\ Drop(Body(ns, "indented")) = Left(ns, 0, Ending)
  <2> DEFINE o == <<SEQ>>
             l == Left(ns, 0, Ending)
  <2>1. o \in Seq(Vocabulary) /\ Len(o) = 1 /\ o[1] = SEQ
    BY BottomType
  <2>2. l \in Seq(Vocabulary) /\ Body(ns, "indented") = o \o l
    BY <1>2 DEF Body
  <2> HIDE DEF o, l
  <2>3. Body(ns, "indented") = Rest(o, 1) \o l
    BY <2>1, <2>2, RestEnds
  <2>4. 1 \in 1..Len(o) /\ 1 + 1 = Len(o) + 1
    BY <2>1
  <2>5. /\ Peek(Rest(o, 1) \o l) = o[1]
        /\ Drop(Rest(o, 1) \o l) = Rest(o, 1 + 1) \o l
    BY <2>1, <2>2, <2>4, RestStep
  <2>6. Rest(o, Len(o) + 1) \o l = l
    BY <2>1, <2>2, RestEnds
  <2> QED
    BY <2>1, <2>3, <2>4, <2>5, <2>6 DEF l
<1>4. Peek(Left(ns, 0, Bottom)) # SEQ
  <2>1. CASE Len(ns) = 0
    <3>1. Left(ns, 0, Bottom) = Bottom
      BY <2>1, BottomType, LeftNone
    <3>2. Len(Bottom) = 2 /\ Bottom \in Seq(Vocabulary) /\ Bottom[1] = PAIR("rules", "")
      BY BottomType
    <3>3. Peek(Bottom) = Bottom[1]
      <4> DEFINE l == Len(Bottom)
      <4>1. l = 2
        BY <3>2
      <4> HIDE DEF l
      <4>2. l # 0
        BY <4>1
      <4>3. Len(Bottom) # 0 /\ Bottom \in Seq(Vocabulary)
        BY <3>2, <4>2 DEF l
      <4> QED
        BY <4>3, PeekFirst
    <3>4. PAIR("rules", "") # SEQ
      BY Distinct
    <3> QED
      BY <3>1, <3>2, <3>3, <3>4
  <2>2. CASE Len(ns) # 0
    <3>1. 0 < Len(ns) /\ 1 \in 0..Len(ns) /\ ns[1] \in Nodes /\ 0 + 1 = 1
      BY <1>1, <2>2
    <3> DEFINE t == NodeTokens(ns[1])
               l == Left(ns, 1, Bottom)
    <3>2. Left(ns, 0, Bottom) = t \o l
      BY <3>1, BottomType, LeftStep
    <3>3. t \in Seq(Vocabulary) /\ Len(t) >= 1 /\ t[1] = ENTRY
      <4>1. t \in Seq(Vocabulary) /\ Len(t) \in 9..16
        BY <3>1, NodeLen
      <4>2. t[1] = ENTRY
        BY <3>1, NodeHead
      <4> HIDE DEF t
      <4> QED
        BY <4>1, <4>2
    <3>4. l \in Seq(Vocabulary)
      BY <3>1, BottomType, LeftType
    <3> HIDE DEF t, l
    <3>5. t \o l = Rest(t, 1) \o l
      BY <3>3, <3>4, RestEnds
    <3>6. 1 \in 1..Len(t)
      BY <3>3
    <3>7. Peek(Rest(t, 1) \o l) = t[1]
      BY <3>3, <3>4, <3>6, RestStep
    <3>8. ENTRY # SEQ
      BY Distinct
    <3> QED
      BY <3>2, <3>3, <3>5, <3>7, <3>8
  <2> QED
    BY <2>1, <2>2
<1> QED
  BY <1>3, <1>4 DEF Body

\* Nothing else in a file looks like the key "proxies".
LEMMA NoProxiesKey == KEY("proxies") \notin Vocabulary
<1>1. \A k, v : PAIR(k, v) # KEY("proxies")
  BY Tokens
<1>2. /\ ENTRY # KEY("proxies") /\ MAP # KEY("proxies") /\ SEQ # KEY("proxies")
      /\ END # KEY("proxies") /\ KEY("plugin-opts") # KEY("proxies")
      /\ KEY("alpn") # KEY("proxies") /\ SCALAR("h2") # KEY("proxies")
      /\ KEY("dns") # KEY("proxies") /\ KEY("Proxy") # KEY("proxies")
  BY Tokens
<1> QED
  BY <1>1, <1>2, Zenon DEF Vocabulary

\* The values of n that have been read before its j-th token, and the tests that
\* they have passed.
Passed(n, j) ==
  /\ j > 3 => node["name"] = n.name /\ "cn" \notin Marks[n.name]
  /\ j > 4 => n.type = "ss"
  /\ j > 5 => node["server"] = n.server /\ n.server \notin {"ipv6", "127.0.0.1"}
  /\ j > 6 => node["port"] = n.port
  /\ j > 7 => node["cipher"] = n.cipher
  /\ j > 8 => node["password"] = n.password
  /\ j > 9 => n.extra # "no_udp"

\* The place in a node where main() is, by the value of at.
Spot == [name |-> 3, type |-> 4, server |-> 5, port |-> 6, cipher |-> 7, password |-> 8,
         udp |-> 9, tail |-> 10]

\* The nodes whose list skip_node() leaves too early.
Listy(n) == n.extra \in {"list", "list_then_key"}

\* What is known at the j-th token of the node n: it has passed all tests so far, or
\* is being skipped, or the END of its list was taken for its own.
InNode(n, j) ==
  \/ at \in DOMAIN Spot /\ j = Spot[at] /\ lean = 0 /\ Passed(n, j)
  \/ /\ at = "skip" /\ ~Usable(n) /\ j >= 4
     /\ Listy(n) => j <= 14
     /\ lean = IF n.extra = "obfs" /\ j \in {13, 14} THEN 1 ELSE 0
  \/ at = "loop" /\ lean = 0 /\ Listy(n) /\ j = 15

\* k nodes are done, and the next one is read up to its j-th token.
AtNode(k, j) ==
  /\ layout = "indented" /\ k < Len(input) /\ j \in 1..Len(NodeTokens(input[k + 1]))
  /\ file = Rest(NodeTokens(input[k + 1]), j) \o Left(input, k + 1, Ending)
  /\ InNode(input[k + 1], j)

\* In parser_begin(), before the node list.
AtHeader(k) ==
  /\ at = "header" /\ k = 0 /\ lean = 0
  /\ \E j \in 1..7 : file = Rest(Opening(layout), j) \o Body(input, layout)

\* Between the key "proxies" and the list.
AtSequence(k) == at = "sequence" /\ k = 0 /\ lean = 0 /\ file = Body(input, layout)

\* k nodes are done, and no other has begun.
AtLoop(k) == at = "loop" /\ layout = "indented" /\ lean = 0 /\ file = Left(input, k, Ending)

\* The reason for which an expected file may be refused.
Disagree ==
  \E i, j \in 1..Len(Wanted) :
    /\ i < j
    /\ \/ Credentials(Wanted[i]) # Credentials(Wanted[j])
       \/ \E k \in 1..3 : Credentials(Wanted[i])[k] \in Short

\* The loop has been left, or an assert() has failed.
AtEnd(k) ==
  \/ at \in {"groups", "done"} /\ (Expected => k = Len(input))
  \/ at = "abort" /\ (Expected => Disagree)

\* The usable ones of the first k nodes are out; a stored credential is one of theirs.
Emitting(k) ==
  /\ proxies = Out(input, k)
  /\ plain # NoCredentials =>
       \E i \in 1..Len(Kept(input, k)) : plain = Credentials(Kept(input, k)[i])

\* k nodes are done, wherever main() is.
Reading(k) ==
  /\ Emitting(k)
  /\ AtHeader(k) \/ AtSequence(k) \/ AtLoop(k) \/ (\E j \in 1..16 : AtNode(k, j)) \/ AtEnd(k)

\* The inductive invariant of the converter: what is left of the file tells how many
\* nodes are done, and those tell what is emitted.
ConvertInv ==
  /\ input \in Seq(Nodes) /\ layout \in {"indented", "flush", "old"}
  /\ node = [f \in Fields |-> node[f]]
  /\ layout = "old" => at = "header" /\ proxies = <<>> /\ file \in Seq(Vocabulary)
  /\ layout # "old" => \E k \in 0..Len(input) : Reading(k)

\* What follows the list of the nodes input[k+1], ..., and the next token.
LEMMA NodeToken ==
  ASSUME input \in Seq(Nodes), NEW k \in 0..Len(input), NEW j, AtNode(k, j)
  PROVE  LET n == input[k + 1]
             tk == NodeTokens(n)
             r == Left(input, k + 1, Ending)
         IN  /\ k + 1 \in 0..Len(input) /\ k + 1 \in 1..Len(input) /\ k \in Nat
             /\ n \in Nodes /\ tk \in Seq(Vocabulary) /\ Len(tk) \in 9..16
             /\ r \in Seq(Vocabulary) /\ j \in 1..Len(tk)
             /\ Token = tk[j] /\ Drop(file) = Rest(tk, j + 1) \o r
<1> DEFINE n == input[k + 1]
           tk == NodeTokens(n)
           r == Left(input, k + 1, Ending)
<1>1. /\ k + 1 \in 0..Len(input) /\ k + 1 \in 1..Len(input) /\ k \in Nat
      /\ n \in Nodes
  BY DEF AtNode
<1>2. tk \in Seq(Vocabulary) /\ Len(tk) \in 9..16
  BY <1>1, NodeLen
<1>3. r \in Seq(Vocabulary)
  BY <1>1, LeftType, EndingType
<1>4. j \in 1..Len(tk) /\ file = Rest(tk, j) \o r
  BY DEF AtNode
<1> HIDE DEF n, tk, r
<1>5. Peek(Rest(tk, j) \o r) = tk[j] /\ Drop(Rest(tk, j) \o r) = Rest(tk, j + 1) \o r
  BY <1>2, <1>3, <1>4, RestStep
<1> QED
  BY <1>1, <1>2, <1>3, <1>4, <1>5 DEF Token, n, tk, r

\* When the last token of a node has been read.
LEMMA NodeOver ==
  ASSUME input \in Seq(Nodes), NEW k \in 0..Len(input), NEW j, AtNode(k, j),
         j = Len(NodeTokens(input[k + 1]))
  PROVE  Drop(file) = Left(input, k + 1, Ending)
<1> DEFINE tk == NodeTokens(input[k + 1])
           r == Left(input, k + 1, Ending)
<1>1. tk \in Seq(Vocabulary) /\ r \in Seq(Vocabulary) /\ Drop(file) = Rest(tk, j + 1) \o r
  BY NodeToken
<1>2. j = Len(tk)
  OBVIOUS
<1> HIDE DEF tk, r
<1>3. Rest(tk, Len(tk) + 1) \o r = r
  BY <1>1, RestEnds
<1> QED
  BY <1>1, <1>2, <1>3 DEF r

\* The reader is in a node, but not at its end: where a step within it leads.
LEMMA WithinNode ==
  ASSUME input \in Seq(Nodes), NEW k \in 0..Len(input), NEW j, AtNode(k, j), Emitting(k),
         j < Len(NodeTokens(input[k + 1])),
         UNCHANGED <<input, layout, proxies, plain>>,
         file' = Drop(file), InNode(input[k + 1], j + 1)'
  PROVE  Reading(k)'
<1> DEFINE tk == NodeTokens(input[k + 1])
           r == Left(input, k + 1, Ending)
<1>1. /\ Len(tk) \in 9..16 /\ j \in 1..Len(tk) /\ j < Len(tk)
      /\ Drop(file) = Rest(tk, j + 1) \o r
  BY NodeToken
<1>1a. layout = "indented" /\ k < Len(input)
  BY DEF AtNode
<1> HIDE DEF tk, r
<1>2. j + 1 \in 1..Len(tk) /\ j + 1 \in 1..16
  <2> DEFINE l == Len(tk)
  <2>1. l \in 9..16 /\ j \in 1..l /\ j < l
    BY <1>1
  <2> HIDE DEF l
  <2>2. j + 1 \in 1..l /\ j + 1 \in 1..16
    BY <2>1
  <2> QED
    BY <2>2 DEF l
<1>3. tk' = tk /\ r' = r
  BY DEF tk, r
<1>4. AtNode(k, j + 1)'
  BY <1>1, <1>1a, <1>2, <1>3 DEF AtNode, tk, r
<1>5. Emitting(k)'
  BY DEF Emitting
<1> QED
  BY <1>2, <1>4, <1>5 DEF Reading

\* A node that is not wanted is over.
LEMMA SkippedNode ==
  ASSUME input \in Seq(Nodes), NEW k \in 0..Len(input), NEW j, AtNode(k, j), Emitting(k),
         j = Len(NodeTokens(input[k + 1])), ~Usable(input[k + 1]),
         UNCHANGED <<input, layout, proxies, plain>>,
         file' = Drop(file), at' = "loop", lean' = 0
  PROVE  k + 1 \in 0..Len(input) /\ Reading(k + 1)'
<1>1. k \in Nat /\ k < Len(input) /\ k + 1 \in 0..Len(input) /\ layout = "indented"
  BY NodeToken DEF AtNode
<1>2. AtLoop(k + 1)'
  BY <1>1, NodeOver DEF AtLoop
<1>3. Kept(input, k + 1) = Kept(input, k) /\ Out(input, k + 1) = Out(input, k)
  BY <1>1, KeptStep, OutStep
<1>4. Emitting(k + 1)'
  BY <1>3 DEF Emitting
<1> QED
  BY <1>1, <1>2, <1>4 DEF Reading

\* The fields that have been read stay as they are when another one is.
LEMMA FieldRead ==
  ASSUME node = [f \in Fields |-> node[f]], NEW k \in Fields, NEW v,
         node' = [node EXCEPT ![k] = v]
  PROVE  /\ node' = [f \in Fields |-> node'[f]]
         /\ node'[k] = v
         /\ \A f \in Fields : f # k => node'[f] = node[f]
<1>1. DOMAIN node = Fields
  <2> DEFINE g == [f \in Fields |-> node[f]]
  <2>1. DOMAIN g = Fields
    OBVIOUS
  <2>2. node = g
    OBVIOUS
  <2> HIDE DEF g
  <2> QED
    BY <2>1, <2>2
<1>2. node' = [f \in Fields |-> IF f = k THEN v ELSE node[f]]
  BY <1>1
<1> QED
  BY <1>2

\* A name, a type or a server for which the node is skipped.
Refused(k, v) == After(k, v) = "skip"

\* The next key, where the value is not refused.
NextSpot == [name |-> "type", type |-> "server", server |-> "port", port |-> "cipher",
             cipher |-> "password", password |-> "udp"]

\* After() in these terms.
LEMMA AfterIs ==
  ASSUME NEW k \in Fields, NEW v
  PROVE  After(k, v) = IF Refused(k, v) THEN "skip" ELSE NextSpot[k]
BY DEF After, Refused, Fields, NextSpot

\* extract_value_with_key() keeps the place.
LEMMA ExtractStep ==
  ASSUME ConvertInv, NEW k \in 0..Len(input), Reading(k), NEW f \in Fields, Extract(f),
         UNCHANGED <<input, layout>>
  PROVE  Reading(k)' /\ node' = [g \in Fields |-> node'[g]]
<1>1. at = f /\ at \in Fields /\ at \in DOMAIN Spot
  BY DEF Extract, Fields, Spot
<1>2. PICK j \in 1..16 : AtNode(k, j)
  BY <1>1 DEF Reading, AtHeader, AtSequence, AtLoop, AtEnd, Fields
<1> DEFINE n == input[k + 1]
           tk == NodeTokens(n)
<1>3. input \in Seq(Nodes) /\ node = [g \in Fields |-> node[g]] /\ Emitting(k)
  BY DEF ConvertInv, Reading
<1>4. /\ n \in Nodes /\ tk \in Seq(Vocabulary) /\ Len(tk) \in 9..16
      /\ j \in 1..Len(tk) /\ Token = tk[j]
  BY <1>2, <1>3, NodeToken
<1>5. j = Spot[f] /\ lean = 0 /\ Passed(n, j) /\ j \in 3..8
  <2>1. InNode(n, j)
    BY <1>2 DEF AtNode
  <2>2. at # "skip" /\ at # "loop"
    BY <1>1 DEF Fields
  <2>3. j = Spot[f] /\ lean = 0 /\ Passed(n, j)
    BY <1>1, <2>1, <2>2 DEF InNode
  <2> QED
    BY <2>3 DEF Fields, Spot
<1>6. tk[j] = PAIR(f, n[f])
  <2>1. /\ tk[3] = PAIR("name", n.name) /\ tk[4] = PAIR("type", n.type)
        /\ tk[5] = PAIR("server", n.server) /\ tk[6] = PAIR("port", n.port)
        /\ tk[7] = PAIR("cipher", n.cipher) /\ tk[8] = PAIR("password", n.password)
    BY <1>4, NodeHead
  <2>2. j = Spot[f]
    BY <1>5
  <2> HIDE DEF n, tk
  <2> QED
    BY <2>1, <2>2 DEF Fields, Spot
<1>7. Token.t = "PAIR" /\ Token.k = f /\ Token.v = n[f]
  BY <1>4, <1>6, Tokens
<1>8. /\ file' = Drop(file) /\ at' = After(f, n[f])
      /\ node' = [node EXCEPT ![f] = n[f]]
      /\ UNCHANGED <<lean, plain, proxies>>
  BY <1>7 DEF Extract, ReadThen
<1>9. /\ node' = [g \in Fields |-> node'[g]] /\ node'[f] = n[f]
      /\ \A g \in Fields : g # f => node'[g] = node[g]
  BY <1>3, <1>8, FieldRead
<1>10. j < Len(tk)
  <2> DEFINE l == Len(tk)
  <2>1. l \in 9..16 /\ j \in 3..8
    BY <1>4, <1>5
  <2> HIDE DEF l
  <2>2. j < l
    BY <2>1
  <2> QED
    BY <2>2 DEF l
<1>11. CASE Refused(f, n[f])
  <2>1. ~Usable(n)
    BY <1>11 DEF Refused, After, Fields, Usable
  <2>2. at' = "skip" /\ lean' = 0
    BY <1>5, <1>8, <1>11 DEF Refused
  <2>3. j + 1 >= 4 /\ j + 1 <= 14 /\ j + 1 \notin {13, 14}
    BY <1>5
  <2>3a. n' = n
    OBVIOUS
  <2>4. InNode(n, j + 1)'
    BY <2>1, <2>2, <2>3, <2>3a DEF InNode
  <2> QED
    BY <1>2, <1>3, <1>8, <1>9, <1>10, <2>4, WithinNode
<1>12. CASE ~Refused(f, n[f])
  <2>1. at' = NextSpot[f] /\ lean' = 0
    BY <1>5, <1>8, <1>12, AfterIs
  <2>2. at' \in DOMAIN Spot /\ j + 1 = Spot[at']
    BY <1>5, <2>1 DEF Spot, NextSpot, Fields
  <2>3. Passed(n, j + 1)'
    <3>1. \A g \in Fields : g # f => node'[g] = node[g]
      BY <1>9
    <3>2. CASE f = "name"
      <4>1. j = 3 /\ "cn" \notin Marks[n.name] /\ node'["name"] = n.name
        BY <1>5, <1>9, <1>12, <3>2 DEF Spot, Refused, After
      <4> QED
        BY <4>1 DEF Passed
    <3>3. CASE f = "type"
      <4>1. j = 4 /\ n.type = "ss" /\ node'["name"] = node["name"]
        BY <1>5, <1>9, <1>12, <3>3 DEF Spot, Refused, After, Fields
      <4> QED
        BY <1>5, <4>1 DEF Passed
    <3>4. CASE f = "server"
      <4>1. /\ j = 5 /\ n.server \notin {"ipv6", "127.0.0.1"} /\ node'["name"] = node["name"]
            /\ node'["server"] = n.server
        BY <1>5, <1>9, <1>12, <3>4 DEF Spot, Refused, After, Fields
      <4> QED
        BY <1>5, <4>1 DEF Passed
    <3>5. CASE f = "port"
      <4>1. /\ j = 6 /\ node'["name"] = node["name"] /\ node'["server"] = node["server"]
            /\ node'["port"] = n.port
        BY <1>5, <1>9, <3>5 DEF Spot, Fields
      <4> QED
        BY <1>5, <4>1 DEF Passed
    <3>6. CASE f = "cipher"
      <4>1. /\ j = 7 /\ node'["name"] = node["name"] /\ node'["server"] = node["server"]
            /\ node'["port"] = node["port"] /\ node'["cipher"] = n.cipher
        BY <1>5, <1>9, <3>6 DEF Spot, Fields
      <4> QED
        BY <1>5, <4>1 DEF Passed
    <3>7. CASE f = "password"
      <4>1. /\ j = 8 /\ node'["name"] = node["name"] /\ node'["server"] = node["server"]
            /\ node'["port"] = node["port"] /\ node'["cipher"] = node["cipher"]
            /\ node'["password"] = n.password
        BY <1>5, <1>9, <3>7 DEF Spot, Fields
      <4> QED
        BY <1>5, <4>1 DEF Passed
    <3> QED
      BY <3>2, <3>3, <3>4, <3>5, <3>6, <3>7 DEF Fields
  <2>4. InNode(n, j + 1)'
    BY <2>1, <2>2, <2>3 DEF InNode
  <2> QED
    BY <1>2, <1>3, <1>8, <1>9, <1>10, <2>4, WithinNode
<1> QED
  BY <1>11, <1>12

\* A file with such a node is not an expected one.
LEMMA Unexpected ==
  ASSUME NEW k \in Nat, k + 1 \in 1..Len(input), input[k + 1].extra \notin {"none", "obfs"}
  PROVE  ~Expected
BY DEF Expected

\* So does assert_value_with_key("udp","true").
LEMMA AssertUdpStep ==
  ASSUME ConvertInv, NEW k \in 0..Len(input), Reading(k), AssertUdp,
         UNCHANGED <<input, layout>>
  PROVE  Reading(k)'
<1>1. at = "udp"
  BY DEF AssertUdp
<1>2. PICK j \in 1..16 : AtNode(k, j)
  BY <1>1 DEF Reading, AtHeader, AtSequence, AtLoop, AtEnd
<1> DEFINE n == input[k + 1]
           tk == NodeTokens(n)
<1>3. input \in Seq(Nodes) /\ Emitting(k)
  BY DEF ConvertInv, Reading
<1>4. /\ n \in Nodes /\ Len(tk) \in 9..16 /\ j \in 1..Len(tk) /\ Token = tk[j]
      /\ k \in Nat /\ k + 1 \in 1..Len(input)
  BY <1>2, <1>3, NodeToken
<1>5. j = 9 /\ lean = 0 /\ Passed(n, j)
  <2>1. InNode(n, j)
    BY <1>2 DEF AtNode
  <2> QED
    BY <1>1, <2>1 DEF InNode, Spot
<1>6. Token = IF n.extra = "no_udp" THEN END ELSE PAIR("udp", "true")
  <2>1. tk[9] = IF n.extra = "no_udp" THEN END ELSE PAIR("udp", "true")
    BY <1>4, NodeHead
  <2> QED
    BY <1>4, <1>5, <2>1
<1>7. CASE n.extra = "no_udp"
  <2>1. Token # PAIR("udp", "true")
    BY <1>6, <1>7, Distinct
  <2>2. at' = "abort" /\ UNCHANGED <<proxies, plain>>
    BY <2>1 DEF AssertUdp, Abort
  <2>3. ~Expected
    BY <1>4, <1>7, Unexpected
  <2>4. ~Expected'
    BY <2>3 DEF Expected
  <2>5. AtEnd(k)' /\ Emitting(k)'
    BY <1>3, <2>2, <2>4 DEF AtEnd, Emitting
  <2> QED
    BY <2>5 DEF Reading
<1>8. CASE n.extra # "no_udp"
  <2>1. /\ at' = "tail" /\ file' = Drop(file) /\ lean' = 0
        /\ UNCHANGED <<proxies, plain, node>>
    BY <1>5, <1>6, <1>8 DEF AssertUdp, ReadThen
  <2>2. j < Len(tk)
    <3>1. Len(tk) # 9
      <4> DEFINE l == Len(tk)
                 x == n.extra
      <4>1. l = CASE x = "none" -> 10
                  [] x = "no_udp" -> 9
                  [] x \in {"obfs", "list"} -> 15
                  [] x = "list_then_key" -> 16
        BY <1>4, NodeHead
      <4>2. x \in {"none", "obfs", "list", "list_then_key"}
        BY <1>4, <1>8, NodesAssumption
      <4> HIDE DEF l, x
      <4>3. l # 9
        BY <4>1, <4>2
      <4> QED
        BY <4>3 DEF l
    <3> DEFINE l == Len(tk)
    <3>2. l \in 9..16 /\ l # 9
      BY <1>4, <3>1
    <3> HIDE DEF l
    <3>3. 9 < l
      BY <3>2
    <3> QED
      BY <1>5, <3>3 DEF l
  <2>3. Passed(n, 10)'
    BY <1>5, <1>8, <2>1 DEF Passed
  <2>4. InNode(n, j + 1)'
    <3>1. j + 1 = 10
      BY <1>5
    <3>2. InNode(n, 10)'
      BY <2>1, <2>3 DEF InNode, Spot
    <3> QED
      BY <3>1, <3>2
  <2> QED
    BY <1>2, <1>3, <2>1, <2>2, <2>4, WithinNode
<1> QED
  BY <1>7, <1>8

\* The nodes wanted are those that are kept of all.
LEMMA WantedIs ==
  ASSUME input \in Seq(Nodes)
  PROVE  Wanted = Kept(input, Len(input))
<1>1. \A i \in 1..Len(input) :
        Share(input)[i] = IF Usable(input[i]) THEN <<input[i]>> ELSE <<>>
  BY DEF Share
<1>2. [i \in 1..Len(input) |-> Share(input)[i]]
        = [i \in 1..Len(input) |-> IF Usable(input[i]) THEN <<input[i]>> ELSE <<>>]
  BY <1>1
<1> QED
  BY <1>2 DEF Wanted, Kept, Flat, Upto

\* A usable node is refused only where the wanted nodes disagree.
LEMMA RefusedOnes ==
  ASSUME input \in Seq(Nodes), NEW k \in Nat, k < Len(input), Usable(input[k + 1]),
         Emitting(k), ~Accepts(Credentials(input[k + 1]))
  PROVE  Disagree
<1> DEFINE q == Kept(input, k)
           p == Kept(input, k + 1)
           w == Wanted
           n == input[k + 1]
<1>1. k \in 0..Len(input) /\ k + 1 \in 0..Len(input) /\ n \in Nodes
      /\ Len(input) \in (k + 1)..Len(input)
  OBVIOUS
<1>2. q \in Seq(Nodes) /\ p = Append(q, n)
  BY <1>1, KeptType, KeptStep
<1>3. Len(p) <= Len(w) /\ \A i \in 1..Len(p) : w[i] = p[i]
  BY <1>1, WantedIs, KeptPrefix
<1>4. plain # NoCredentials /\ (plain # Credentials(n) \/ \E i \in 1..3 : plain[i] \in Short)
  BY DEF Accepts
<1>5. PICK i \in 1..Len(q) : plain = Credentials(q[i])
  BY <1>4 DEF Emitting
<1>5a. w \in Seq(Nodes)
  BY WantedIs, KeptType
<1> HIDE DEF q, p, w, n
<1>6. /\ Len(p) = Len(q) + 1 /\ p[i] = q[i] /\ p[Len(q) + 1] = n
      /\ Len(q) \in Nat
  BY <1>1, <1>2
<1> DEFINE m == Len(q) + 1
<1>7. i \in 1..Len(p) /\ m \in 1..Len(p) /\ i < m
  BY <1>6
<1>8. i \in 1..Len(w) /\ m \in 1..Len(w) /\ w[i] = q[i] /\ w[m] = n
  <2>1. Len(w) \in Nat
    BY <1>5a
  <2>2. w[i] = p[i] /\ w[m] = p[m]
    BY <1>3, <1>7
  <2>3. i \in 1..Len(w) /\ m \in 1..Len(w)
    BY <1>3, <1>6, <1>7, <2>1
  <2> QED
    BY <1>6, <2>2, <2>3
<1> HIDE DEF m
<1>9. \/ Credentials(w[i]) # Credentials(w[m])
      \/ \E l \in 1..3 : Credentials(w[i])[l] \in Short
  BY <1>4, <1>5, <1>8
<1> QED
  BY <1>7, <1>8, <1>9 DEF Disagree, w

\* The end of a plain node, which is emitted, or the options of one that is not.
LEMMA PlainOrObfsStep ==
  ASSUME ConvertInv, NEW k \in 0..Len(input), Reading(k), PlainOrObfs,
         UNCHANGED <<input, layout>>
  PROVE  \E m \in 0..Len(input) : Reading(m)'
<1>1. at = "tail"
  BY DEF PlainOrObfs
<1>2. PICK j \in 1..16 : AtNode(k, j)
  BY <1>1 DEF Reading, AtHeader, AtSequence, AtLoop, AtEnd
<1> DEFINE n == input[k + 1]
           tk == NodeTokens(n)
<1>3. input \in Seq(Nodes) /\ Emitting(k)
  BY DEF ConvertInv, Reading
<1>4. /\ n \in Nodes /\ Len(tk) \in 9..16 /\ j \in 1..Len(tk) /\ Token = tk[j]
      /\ k \in Nat /\ k + 1 \in 1..Len(input) /\ k + 1 \in 0..Len(input)
  BY <1>2, <1>3, NodeToken
<1>4a. k < Len(input) /\ layout = "indented"
  BY <1>2 DEF AtNode
<1>5. j = 10 /\ lean = 0 /\ Passed(n, j)
  <2>1. InNode(n, j)
    BY <1>2 DEF AtNode
  <2> QED
    BY <1>1, <2>1 DEF InNode, Spot
<1>6. /\ node["name"] = n.name /\ "cn" \notin Marks[n.name] /\ n.type = "ss"
      /\ node["server"] = n.server /\ n.server \notin {"ipv6", "127.0.0.1"}
      /\ node["port"] = n.port /\ node["cipher"] = n.cipher
      /\ node["password"] = n.password /\ n.extra # "no_udp"
  BY <1>5 DEF Passed
<1>7. n.extra \in {"none", "obfs", "list", "list_then_key"}
  BY <1>4, <1>6, NodesAssumption
<1>8. CASE n.extra = "none"
  <2>1. Len(tk) = 10 /\ tk[Len(tk)] = END
    BY <1>4, <1>8, NodeHead
  <2>2. Token = END /\ j = Len(tk)
    BY <1>4, <1>5, <2>1
  <2>3. Token.t \notin {"PAIR", "KEY"}
    BY <2>2, Tokens
  <2>4. Usable(n)
    BY <1>6, <1>8 DEF Usable
  <2>5. Credentials(node) = Credentials(n)
    BY <1>6 DEF Credentials
  <2>6. CASE Accepts(Credentials(node))
    <3>1. /\ file' = Drop(file) /\ at' = "loop" /\ lean' = 0
          /\ plain' = IF plain = NoCredentials THEN Credentials(node) ELSE plain
          /\ emit_node(node, plain')
      BY <1>5, <2>2, <2>3, <2>6 DEF PlainOrObfs, ReadThen
    <3>2. plain' = Credentials(n)
      BY <2>5, <2>6, <3>1 DEF Accepts
    <3>3. plain'[1] = n.port /\ plain'[2] = n.cipher /\ plain'[3] = n.password
      BY <3>2 DEF Credentials
    <3>4. proxies' = Append(proxies, Emitted(n))
      BY <1>6, <3>1, <3>3 DEF emit_node, Emitted
    <3>5. proxies' = Out(input, k + 1)
      BY <1>3, <1>4, <1>4a, <2>4, <3>4, OutStep DEF Emitting
    <3> DEFINE q == Kept(input, k)
               p == Kept(input, k + 1)
    <3>6. q \in Seq(Nodes) /\ p = Append(q, n)
      BY <1>3, <1>4, <1>4a, <2>4, KeptType, KeptStep
    <3>6a. n \in Nodes
      BY <1>4
    <3> HIDE DEF q, p, n
    <3>7. Len(q) + 1 \in 1..Len(p) /\ p[Len(q) + 1] = n
      BY <3>6, <3>6a
    <3>8. \E i \in 1..Len(p) : plain' = Credentials(p[i])
      BY <3>2, <3>7
    <3>9. Emitting(k + 1)'
      BY <3>5, <3>8 DEF Emitting, p
    <3>10. AtLoop(k + 1)'
      BY <1>2, <1>3, <1>4a, <2>2, <3>1, NodeOver DEF AtLoop, n
    <3> QED
      BY <1>4, <3>9, <3>10 DEF Reading
  <2>7. CASE ~Accepts(Credentials(node))
    <3>1. at' = "abort" /\ UNCHANGED <<proxies, plain>>
      BY <2>2, <2>3, <2>7 DEF PlainOrObfs, Abort
    <3>2. Disagree
      BY <1>3, <1>4, <1>4a, <2>4, <2>5, <2>7, RefusedOnes
    <3>3. Disagree'
      <4>1. Wanted' = Wanted
        BY DEF Wanted
      <4> QED
        BY <3>2, <4>1 DEF Disagree
    <3>4. AtEnd(k)' /\ Emitting(k)'
      BY <1>3, <3>1, <3>3 DEF AtEnd, Emitting
    <3> QED
      BY <3>4 DEF Reading
  <2> QED
    BY <2>6, <2>7
<1>9. CASE n.extra # "none"
  <2>1. tk[10].t \in {"PAIR", "KEY"} /\ Len(tk) \in {15, 16}
    <3>1. CASE n.extra = "obfs"
      <4>1. tk[10] = PAIR("plugin", "obfs") /\ Len(tk) = 15
        BY <1>4, <3>1, NodeHead
      <4> QED
        BY <4>1, Tokens
    <3>2. CASE n.extra = "list"
      <4>1. tk[10] = KEY("alpn") /\ Len(tk) = 15
        BY <1>4, <3>2, NodeHead
      <4> QED
        BY <4>1, Tokens
    <3>3. CASE n.extra = "list_then_key"
      <4>1. tk[10] = KEY("alpn") /\ Len(tk) = 16
        BY <1>4, <3>3, NodeHead
      <4> QED
        BY <4>1, Tokens
    <3> QED
      BY <1>7, <1>9, <3>1, <3>2, <3>3
  <2>2. Token.t \in {"PAIR", "KEY"} /\ Token # END
    BY <1>4, <1>5, <2>1, Tokens
  <2>3. /\ file' = Drop(file) /\ at' = "skip" /\ lean' = 0
        /\ UNCHANGED <<proxies, plain>>
    BY <1>5, <2>2 DEF PlainOrObfs, ReadThen
  <2>4. ~Usable(n)
    BY <1>9 DEF Usable
  <2>5. InNode(n, j + 1)'
    <3>1. j + 1 = 11
      BY <1>5
    <3>2. InNode(n, 11)'
      BY <2>3, <2>4 DEF InNode
    <3> QED
      BY <3>1, <3>2
  <2>6. j < Len(tk)
    <3> DEFINE l == Len(tk)
    <3>1. l \in {15, 16}
      BY <2>1
    <3> HIDE DEF l
    <3>2. 10 < l
      BY <3>1
    <3> QED
      BY <1>5, <3>2 DEF l
  <2> QED
    BY <1>2, <1>3, <2>3, <2>5, <2>6, WithinNode
<1> QED
  BY <1>8, <1>9

\* What skip_node() meets in a node: the tokens between, and its end.
LEMMA SkipTokens ==
  ASSUME NEW n \in Nodes, NEW j \in 4..Len(NodeTokens(n)), Listy(n) => j <= 14
  PROVE  LET tk == NodeTokens(n)
         IN  /\ n.extra = "obfs" /\ j = 12 => tk[j] = MAP
             /\ n.extra = "obfs" /\ j = 14 => tk[j] = END
             /\ Listy(n) /\ j = 14 => tk[j] = END
             /\ j = Len(tk) => tk[j] = END
             /\ j # Len(tk) /\ ~(n.extra = "obfs" /\ j \in {12, 14}) /\ ~(Listy(n) /\ j = 14)
                  => tk[j] \notin {MAP, END}
<1> DEFINE tk == NodeTokens(n)
           l == Len(tk)
           x == n.extra
<1>1. x \in {"none", "no_udp", "obfs", "list", "list_then_key"}
  BY NodesAssumption
<1>2. /\ l = CASE x = "none" -> 10
               [] x = "no_udp" -> 9
               [] x \in {"obfs", "list"} -> 15
               [] x = "list_then_key" -> 16
      /\ tk[l] = END
  BY NodeHead
<1>3. /\ tk[4] = PAIR("type", n.type)
      /\ tk[5] = PAIR("server", n.server) /\ tk[6] = PAIR("port", n.port)
      /\ tk[7] = PAIR("cipher", n.cipher) /\ tk[8] = PAIR("password", n.password)
      /\ x # "no_udp" => tk[9] = PAIR("udp", "true")
  BY NodeHead
<1>4. x = "obfs" =>
        /\ tk[10] = PAIR("plugin", "obfs") /\ tk[11] = KEY("plugin-opts")
        /\ tk[12] = MAP /\ tk[13] = PAIR("mode", "http") /\ tk[14] = END
  BY NodeHead
<1>5. x \in {"list", "list_then_key"} =>
        /\ tk[10] = KEY("alpn") /\ tk[11] = SEQ /\ tk[12] = ENTRY
        /\ tk[13] = SCALAR("h2") /\ tk[14] = END
  BY NodeHead
<1>6. j \in 4..l /\ (x \in {"list", "list_then_key"} => j <= 14)
  BY DEF Listy
<1>7. /\ \A a, b : PAIR(a, b) \notin {MAP, END}
      /\ \A a : KEY(a) \notin {MAP, END} /\ SCALAR(a) \notin {MAP, END}
      /\ SEQ \notin {MAP, END} /\ ENTRY \notin {MAP, END}
  BY Tokens
<1>7a. Listy(n) <=> x \in {"list", "list_then_key"}
  BY DEF Listy
<1> DEFINE Off(i) == tk[i] \notin {MAP, END}
<1>8. Off(4) /\ Off(5) /\ Off(6) /\ Off(7) /\ Off(8) /\ (x # "no_udp" => Off(9))
  BY <1>3, <1>7
<1>9. x = "obfs" => Off(10) /\ Off(11) /\ Off(13)
  BY <1>4, <1>7
<1>10. x \in {"list", "list_then_key"} => Off(10) /\ Off(11) /\ Off(12) /\ Off(13)
  BY <1>5, <1>7
<1> HIDE DEF Off
<1>11. /\ x = "obfs" /\ j = 12 => tk[j] = MAP
       /\ x = "obfs" /\ j = 14 => tk[j] = END
       /\ Listy(n) /\ j = 14 => tk[j] = END
       /\ j = l => tk[j] = END
  <2> HIDE DEF x, tk, l
  <2> QED
    BY <1>2, <1>4, <1>5, <1>7a
<1>12. ASSUME j # l, ~(x = "obfs" /\ j \in {12, 14}), ~(Listy(n) /\ j = 14)
       PROVE  Off(j)
  <2> HIDE DEF x, tk, l
  <2>1. CASE x = "none"
    <3>1. l = 10
      BY <1>2, <2>1
    <3>2. j \in 4..9
      BY <1>6, <1>12, <3>1
    <3> QED
      BY <1>8, <2>1, <3>2
  <2>2. CASE x = "no_udp"
    <3>1. l = 9
      BY <1>2, <2>2
    <3>2. j \in 4..8
      BY <1>6, <1>12, <3>1
    <3> QED
      BY <1>8, <3>2
  <2>3. CASE x = "obfs"
    <3>1. l = 15
      BY <1>2, <2>3
    <3>2. j \in 4..11 \/ j = 13
      BY <1>6, <1>12, <2>3, <3>1
    <3> QED
      BY <1>8, <1>9, <2>3, <3>2
  <2>4. CASE x \in {"list", "list_then_key"}
    <3>2. j \in 4..13
      BY <1>6, <1>7a, <1>12, <2>4
    <3> QED
      BY <1>8, <1>10, <2>4, <3>2
  <2> QED
    BY <1>1, <2>1, <2>2, <2>3, <2>4
<1> QED
  BY <1>11, <1>12 DEF Off

\* skip_node() ends at the END of the node, or of a list in it.
LEMMA SkipNodeStep ==
  ASSUME ConvertInv, NEW k \in 0..Len(input), Reading(k), skip_node,
         UNCHANGED <<input, layout>>
  PROVE  \E m \in 0..Len(input) : Reading(m)'
<1>1. at = "skip"
  BY DEF skip_node
<1>2. PICK j \in 1..16 : AtNode(k, j)
  BY <1>1 DEF Reading, AtHeader, AtSequence, AtLoop, AtEnd
<1> DEFINE n == input[k + 1]
           tk == NodeTokens(n)
           l == Len(tk)
<1>3. input \in Seq(Nodes) /\ Emitting(k)
  BY DEF ConvertInv, Reading
<1>4. /\ n \in Nodes /\ l \in 9..16 /\ j \in 1..l /\ Token = tk[j]
      /\ k \in Nat /\ k + 1 \in 1..Len(input) /\ k + 1 \in 0..Len(input)
  BY <1>2, <1>3, NodeToken
<1>5. /\ ~Usable(n) /\ j >= 4 /\ (Listy(n) => j <= 14)
      /\ lean = IF n.extra = "obfs" /\ j \in {13, 14} THEN 1 ELSE 0
  <2>1. InNode(n, j)
    BY <1>2 DEF AtNode
  <2> QED
    BY <1>1, <2>1 DEF InNode, Spot
<1>6. j \in 4..l
  <2> HIDE DEF l
  <2> QED
    BY <1>4, <1>5
<1>7. /\ n.extra = "obfs" /\ j = 12 => tk[j] = MAP
      /\ n.extra = "obfs" /\ j = 14 => tk[j] = END
      /\ Listy(n) /\ j = 14 => tk[j] = END
      /\ j = l => tk[j] = END
      /\ j # l /\ ~(n.extra = "obfs" /\ j \in {12, 14}) /\ ~(Listy(n) /\ j = 14)
           => tk[j] \notin {MAP, END}
  BY <1>4, <1>5, <1>6, SkipTokens
<1>8. UNCHANGED <<proxies, plain>> /\ file' = Drop(file)
  BY DEF skip_node, ReadThen
<1>9. /\ at' = IF Token = END /\ lean = 0 THEN "loop" ELSE "skip"
      /\ lean' = CASE Token = MAP              -> lean + 1
                   [] Token = END /\ lean > 0  -> lean - 1
                   [] OTHER                    -> lean
  BY DEF skip_node, ReadThen
<1>10. n.extra = "obfs" => l = 15
  BY <1>4, NodeHead
<1>10a. Listy(n) => l \in {15, 16} /\ n.extra # "obfs"
  <2>1. n.extra = "list" => l = 15
    BY <1>4, NodeHead
  <2>2. n.extra = "list_then_key" => l = 16
    BY <1>4, NodeHead
  <2> QED
    BY <2>1, <2>2 DEF Listy
<1>11. MAP # END
  BY Distinct
<1>12. CASE j = l
  <2>1. Token = END /\ lean = 0
    <3>1. ~(n.extra = "obfs" /\ j \in {13, 14})
      <4> HIDE DEF l
      <4> QED
        BY <1>10, <1>12
    <3> QED
      BY <1>4, <1>5, <1>7, <1>12, <3>1
  <2>2. at' = "loop" /\ lean' = 0
    BY <1>9, <1>11, <2>1
  <2>3. k + 1 \in 0..Len(input) /\ Reading(k + 1)'
    BY <1>2, <1>3, <1>5, <1>8, <1>12, <2>2, SkippedNode
  <2> QED
    BY <2>3
<1>13. CASE j # l /\ n.extra = "obfs" /\ j = 12
  <2>1. Token = MAP /\ lean = 0
    BY <1>4, <1>5, <1>7, <1>13
  <2>2. at' = "skip" /\ lean' = 1
    BY <1>9, <1>11, <2>1
  <2>3. InNode(n, 13)'
    <3>1. ~Listy(n)
      BY <1>13 DEF Listy
    <3> QED
      BY <1>5, <1>13, <2>2, <3>1 DEF InNode
  <2>4. j + 1 = 13 /\ j < l
    <3> HIDE DEF l
    <3> QED
      BY <1>10, <1>13
  <2>5. Reading(k)'
    BY <1>2, <1>3, <1>8, <2>3, <2>4, WithinNode
  <2> QED
    BY <2>5
<1>14. CASE j # l /\ n.extra = "obfs" /\ j = 14
  <2>1. Token = END /\ lean = 1
    BY <1>4, <1>5, <1>7, <1>14
  <2>2. at' = "skip" /\ lean' = 0
    BY <1>9, <1>11, <2>1
  <2>3. InNode(n, 15)'
    <3>1. ~Listy(n)
      BY <1>14 DEF Listy
    <3> QED
      BY <1>5, <1>14, <2>2, <3>1 DEF InNode
  <2>4. j + 1 = 15 /\ j < l
    <3> HIDE DEF l
    <3> QED
      BY <1>10, <1>14
  <2>5. Reading(k)'
    BY <1>2, <1>3, <1>8, <2>3, <2>4, WithinNode
  <2> QED
    BY <2>5
<1>15. CASE j # l /\ Listy(n) /\ j = 14
  <2>1. Token = END /\ lean = 0
    BY <1>4, <1>5, <1>7, <1>10a, <1>15
  <2>2. at' = "loop" /\ lean' = 0
    BY <1>9, <1>11, <2>1
  <2>3. InNode(n, 15)'
    BY <1>15, <2>2 DEF InNode, Listy
  <2>4. j + 1 = 15 /\ j < l
    <3> HIDE DEF l
    <3> QED
      BY <1>10a, <1>15
  <2>5. Reading(k)'
    BY <1>2, <1>3, <1>8, <2>3, <2>4, WithinNode
  <2> QED
    BY <2>5
<1>16. CASE j # l /\ ~(n.extra = "obfs" /\ j \in {12, 14}) /\ ~(Listy(n) /\ j = 14)
  <2>1. Token \notin {MAP, END}
    BY <1>4, <1>7, <1>16
  <2>2. at' = "skip" /\ lean' = lean
    BY <1>9, <2>1
  <2>3. /\ j + 1 >= 4 /\ j < l
        /\ Listy(n) => j + 1 <= 14
        /\ n.extra = "obfs" => (j + 1 \in {13, 14} <=> j \in {13, 14})
    <3> HIDE DEF l
    <3>1. j \in 4..l /\ l \in 9..16 /\ j # l
      BY <1>4, <1>6, <1>16
    <3>2. n.extra = "obfs" => j # 12 /\ j # 14
      BY <1>16
    <3>3. Listy(n) => j <= 14 /\ j # 14
      BY <1>5, <1>16
    <3> QED
      BY <3>1, <3>2, <3>3
  <2>4. lean' = IF n.extra = "obfs" /\ j + 1 \in {13, 14} THEN 1 ELSE 0
    BY <1>5, <2>2, <2>3
  <2>4a. n' = n
    OBVIOUS
  <2>4b. ~Usable(n)
    BY <1>5
  <2>5. InNode(n, j + 1)'
    <3> HIDE DEF n
    <3> QED
      BY <2>2, <2>3, <2>4, <2>4a, <2>4b DEF InNode, Listy
  <2>6. Reading(k)'
    BY <1>2, <1>3, <1>8, <2>3, <2>5, WithinNode
  <2> QED
    BY <2>6
<1> QED
  BY <1>12, <1>13, <1>14, <1>15, <1>16

\* The head of the loop.
LEMMA NextEntryStep ==
  ASSUME ConvertInv, NEW k \in 0..Len(input), Reading(k), NextEntry,
         UNCHANGED <<input, layout>>
  PROVE  Reading(k)'
<1>1. at = "loop" /\ input \in Seq(Nodes) /\ Emitting(k)
  BY DEF NextEntry, ConvertInv, Reading
<1>2. UNCHANGED <<proxies, plain>>
  BY DEF NextEntry, Abort
<1>3. Emitting(k)'
  BY <1>1, <1>2 DEF Emitting
<1>4. CASE AtLoop(k) /\ k = Len(input)
  <2>1. file = Ending
    BY <1>1, <1>4, LeftNone, EndingType DEF AtLoop
  <2>2. Token = END
    <3> DEFINE d == Len(Ending)
    <3>1. d = 3 /\ Ending \in Seq(Vocabulary) /\ Ending[1] = END
      BY EndingType
    <3> HIDE DEF d
    <3>2. d # 0
      BY <3>1
    <3>3. Peek(Ending) = Ending[1]
      BY <3>1, <3>2, PeekFirst DEF d
    <3> QED
      BY <2>1, <3>1, <3>3 DEF Token
  <2>3. at' = "groups"
    <3>1. END # ENTRY
      BY Distinct
    <3> QED
      BY <2>2, <3>1 DEF NextEntry, ReadThen
  <2>4. AtEnd(k)'
    BY <1>4, <2>3 DEF AtEnd
  <2> QED
    BY <1>3, <2>4 DEF Reading
<1>5. CASE AtLoop(k) /\ k # Len(input)
  <2> DEFINE n == input[k + 1]
             tk == NodeTokens(n)
             r == Left(input, k + 1, Ending)
  <2>1. k \in Nat /\ k < Len(input) /\ k + 1 \in 0..Len(input) /\ n \in Nodes
    BY <1>1, <1>5
  <2>2. tk \in Seq(Vocabulary) /\ Len(tk) \in 9..16 /\ r \in Seq(Vocabulary)
    BY <1>1, <2>1, NodeLen, LeftType, EndingType
  <2>3. file = tk \o r
    BY <1>1, <1>5, <2>1, LeftStep, EndingType DEF AtLoop
  <2>4. tk[1] = ENTRY /\ tk[2] = MAP
    BY <2>1, NodeHead
  <2> HIDE DEF tk, r, n
  <2>5. 1 \in 1..Len(tk) /\ 2 \in 1..Len(tk) /\ 3 \in 1..Len(tk)
    <3> DEFINE l == Len(tk)
    <3>1. l \in 9..16
      BY <2>2
    <3> HIDE DEF l
    <3>2. 1 \in 1..l /\ 2 \in 1..l /\ 3 \in 1..l
      BY <3>1
    <3> QED
      BY <3>2 DEF l
  <2>6. file = Rest(tk, 1) \o r
    BY <2>2, <2>3, RestEnds
  <2>7. Peek(Rest(tk, 1) \o r) = tk[1] /\ Drop(Rest(tk, 1) \o r) = Rest(tk, 1 + 1) \o r
    BY <2>2, <2>5, RestStep
  <2>8. Peek(Rest(tk, 2) \o r) = tk[2] /\ Drop(Rest(tk, 2) \o r) = Rest(tk, 2 + 1) \o r
    BY <2>2, <2>5, RestStep
  <2>9. Token = ENTRY /\ Peek(Drop(file)) = MAP /\ Drop(Drop(file)) = Rest(tk, 3) \o r
    <3>1. 1 + 1 = 2 /\ 2 + 1 = 3
      OBVIOUS
    <3> QED
      BY <2>4, <2>6, <2>7, <2>8, <3>1 DEF Token
  <2>10. /\ file' = Rest(tk, 3) \o r /\ at' = "name" /\ lean' = 0 /\ layout = "indented"
    <3>1. END # ENTRY
      BY Distinct
    <3> QED
      BY <1>5, <2>9, <3>1 DEF NextEntry, AtLoop
  <2>11. InNode(n, 3)'
    BY <2>10 DEF InNode, Passed, Spot
  <2>12. AtNode(k, 3)'
    <3>1. tk' = tk /\ r' = r /\ n' = n
      BY DEF tk, r, n
    <3> QED
      BY <2>1, <2>5, <2>10, <2>11, <3>1 DEF AtNode, tk, r, n
  <2>13. 3 \in 1..16
    OBVIOUS
  <2> QED
    BY <1>3, <2>12, <2>13 DEF Reading
<1>6. CASE \E j \in 1..16 : AtNode(k, j)
  <2>1. PICK j \in 1..16 : AtNode(k, j)
    BY <1>6
  <2> DEFINE n == input[k + 1]
             tk == NodeTokens(n)
  <2>2. /\ n \in Nodes /\ Token = tk[j] /\ k \in Nat /\ k + 1 \in 1..Len(input)
    BY <1>1, <2>1, NodeToken
  <2>3. Listy(n) /\ j = 15
    <3>1. InNode(n, j)
      BY <2>1 DEF AtNode
    <3> QED
      BY <1>1, <3>1 DEF InNode, Spot
  <2>4. Token # ENTRY
    <3>1. CASE n.extra = "list"
      <4>1. tk[Len(tk)] = END /\ Len(tk) = 15
        BY <2>2, <3>1, NodeHead
      <4>2. tk[15] = END
        BY <4>1
      <4> QED
        BY <2>2, <2>3, <4>2, Distinct
    <3>2. CASE n.extra = "list_then_key"
      <4>1. tk[15] = PAIR("sni", "x")
        BY <2>2, <3>2, NodeHead
      <4> QED
        BY <2>2, <2>3, <4>1, Distinct
    <3> QED
      BY <2>3, <3>1, <3>2 DEF Listy
  <2>5. at' \in {"groups", "abort"}
    BY <2>4 DEF NextEntry, ReadThen, Abort
  <2>6. ~Expected
    BY <2>2, <2>3, Unexpected DEF Listy
  <2>7. ~Expected'
    BY <2>6 DEF Expected
  <2>8. AtEnd(k)'
    BY <2>5, <2>7 DEF AtEnd
  <2> QED
    BY <1>3, <2>8 DEF Reading
<1> QED
  BY <1>1, <1>4, <1>5, <1>6 DEF Reading, AtHeader, AtSequence, AtEnd

\* parser_begin() finds the node list.
LEMMA HeaderStep ==
  ASSUME ConvertInv, NEW k \in 0..Len(input), Reading(k), SkipHeader, layout # "old",
         UNCHANGED <<input, layout>>
  PROVE  Reading(k)'
<1>1. at = "header" /\ input \in Seq(Nodes) /\ Emitting(k)
  BY DEF SkipHeader, ConvertInv, Reading
<1>2. /\ file' = Drop(file) /\ UNCHANGED <<lean, proxies, plain>>
      /\ at' = IF Token = KEY("proxies") THEN "sequence" ELSE "header"
  BY DEF SkipHeader, ReadThen
<1>3. Emitting(k)'
  BY <1>1, <1>2 DEF Emitting
<1>4. AtHeader(k)
  BY <1>1 DEF Reading, AtSequence, AtLoop, AtNode, InNode, Spot, AtEnd
<1> DEFINE h == Opening(layout)
           b == Body(input, layout)
<1>5. PICK j \in 1..7 : file = Rest(h, j) \o b
  BY <1>4 DEF AtHeader
<1>6. /\ h \in Seq(Wide) /\ Len(h) = 7 /\ h[7] = KEY("proxies")
      /\ \A i \in 1..6 : h[i] # KEY("proxies")
  BY OpeningType
<1>7. b \in Seq(Wide)
  BY <1>1, RawIs, WideSeq
<1>8. h' = h /\ b' = b
  OBVIOUS
<1> HIDE DEF h, b
<1>9. j \in 1..Len(h)
  BY <1>6
<1>10. Token = h[j] /\ Drop(file) = Rest(h, j + 1) \o b
  BY <1>5, <1>6, <1>7, <1>9, RestStep DEF Token
<1>11. CASE j = 7
  <2>1. at' = "sequence"
    BY <1>2, <1>6, <1>10, <1>11
  <2>2. Rest(h, Len(h) + 1) \o b = b
    BY <1>6, <1>7, RestEnds
  <2>3. file' = b
    BY <1>2, <1>6, <1>10, <1>11, <2>2
  <2>4. AtSequence(k)'
    BY <1>2, <1>4, <1>8, <2>1, <2>3 DEF AtSequence, AtHeader, b
  <2> QED
    BY <1>3, <2>4 DEF Reading
<1>12. CASE j # 7
  <2>1. j \in 1..6 /\ j + 1 \in 1..7
    BY <1>12
  <2>2. at' = "header"
    BY <1>2, <1>6, <1>10, <2>1
  <2>3. file' = Rest(h, j + 1) \o b
    BY <1>2, <1>10
  <2>4. AtHeader(k)'
    BY <1>2, <1>4, <1>8, <2>1, <2>2, <2>3 DEF AtHeader, h, b
  <2> QED
    BY <1>3, <2>4 DEF Reading
<1> QED
  BY <1>11, <1>12

\* The start of the list, which a flush one lacks.
LEMMA SequenceStep ==
  ASSUME ConvertInv, NEW k \in 0..Len(input), Reading(k), BeginSequence, layout # "old",
         UNCHANGED <<input, layout>>
  PROVE  Reading(k)'
<1>1. at = "sequence" /\ input \in Seq(Nodes) /\ Emitting(k)
      /\ layout \in {"indented", "flush"}
  BY DEF BeginSequence, ConvertInv, Reading
<1>2. UNCHANGED <<lean, proxies, plain>>
  BY DEF BeginSequence, Abort
<1>3. Emitting(k)'
  BY <1>1, <1>2 DEF Emitting
<1>4. k = 0 /\ lean = 0 /\ file = Body(input, layout)
  BY <1>1 DEF Reading, AtHeader, AtSequence, AtLoop, AtNode, InNode, Spot, AtEnd
<1>5. CASE layout = "indented"
  <2>1. Token = SEQ /\ Drop(file) = Left(input, 0, Ending)
    BY <1>1, <1>4, <1>5, BodyStarts DEF Token
  <2>2. at' = "loop" /\ file' = Left(input, 0, Ending)
    BY <2>1 DEF BeginSequence, ReadThen
  <2>3. AtLoop(k)'
    BY <1>2, <1>4, <1>5, <2>2 DEF AtLoop
  <2> QED
    BY <1>3, <2>3 DEF Reading
<1>6. CASE layout = "flush"
  <2>1. Token # SEQ
    BY <1>1, <1>4, <1>6, BodyStarts DEF Token
  <2>2. at' = "abort"
    BY <2>1 DEF BeginSequence, Abort
  <2>3. ~Expected'
    BY <1>6 DEF Expected
  <2>4. AtEnd(k)'
    BY <2>2, <2>3 DEF AtEnd
  <2> QED
    BY <1>3, <2>4 DEF Reading
<1> QED
  BY <1>1, <1>5, <1>6

\* The groups change nothing of this.
LEMMA EmitGroupsStep ==
  ASSUME NEW k, Reading(k), EmitGroups, UNCHANGED <<input, layout>>
  PROVE  Reading(k)'
<1>1. at = "groups" /\ at' = "done" /\ UNCHANGED <<proxies, plain>>
  BY DEF EmitGroups
<1>2. Emitting(k)'
  BY <1>1 DEF Emitting, Reading
<1>3. AtEnd(k)
  BY <1>1 DEF Reading, AtHeader, AtSequence, AtLoop, AtNode, InNode, Spot
<1>4. Expected' <=> Expected
  BY DEF Expected
<1>5. AtEnd(k)'
  BY <1>1, <1>3, <1>4 DEF AtEnd
<1> QED
  BY <1>2, <1>5 DEF Reading

\* A file without the key "proxies" is read for ever.
LEMMA OldStep ==
  ASSUME ConvertInv, layout = "old", ConvertStep
  PROVE  ConvertInv'
<1>1. at = "header" /\ proxies = <<>> /\ file \in Seq(Vocabulary)
  BY DEF ConvertInv
<1>2. SkipHeader /\ UNCHANGED <<input, layout>>
  BY <1>1 DEF ConvertStep, BeginSequence, NextEntry, Extract, Fields, AssertUdp,
              PlainOrObfs, skip_node, EmitGroups
<1>3. file' = Drop(file) /\ UNCHANGED <<proxies, node>>
  BY <1>2 DEF SkipHeader, ReadThen
<1>4. Token # KEY("proxies")
  <2>1. NONE # KEY("proxies")
    BY Tokens
  <2>2. file # <<>> => Head(file) \in Vocabulary
    BY <1>1
  <2> QED
    BY <2>1, <2>2, NoProxiesKey DEF Token, Peek
<1>5. at' = "header"
  BY <1>2, <1>4 DEF SkipHeader, ReadThen
<1>6. Drop(file) \in Seq(Vocabulary)
  BY <1>1 DEF Drop
<1> QED
  BY <1>1, <1>2, <1>3, <1>5, <1>6 DEF ConvertInv

\* The invariant holds at the start.
LEMMA ConvertInvInit == Init => ConvertInv
<1> SUFFICES ASSUME Init PROVE ConvertInv
  OBVIOUS
<1>1. input \in Seq(Nodes)
  <2>1. PICK n \in 0..MaxNodes : input \in [1..n -> Nodes]
    BY DEF Init
  <2>2. n \in Nat
    BY <2>1, MaxNodesAssumption
  <2> QED
    BY <2>1, <2>2
<1>2. layout \in {"indented", "flush", "old"}
  BY DEF Init
<1>3. node = [f \in Fields |-> node[f]]
  BY DEF Init, Blank
<1>4. at = "header" /\ proxies = <<>> /\ plain = NoCredentials /\ lean = 0
  BY DEF Init
<1> DEFINE h == Opening(layout)
           b == Body(input, layout)
<1>5. file = h \o b /\ b \in Seq(Vocabulary) /\ b \in Seq(Wide)
  BY <1>1, RawIs, WideSeq DEF Init
<1>6. h \in Seq(Wide) /\ (layout = "old" => h \in Seq(Vocabulary))
  BY OpeningType
<1> HIDE DEF h, b
<1>7. CASE layout = "old"
  <2>1. file \in Seq(Vocabulary)
    BY <1>5, <1>6, <1>7, ConcatType
  <2> QED
    BY <1>1, <1>2, <1>3, <1>4, <1>7, <2>1 DEF ConvertInv
<1>8. CASE layout # "old"
  <2>1. file = Rest(h, 1) \o b
    BY <1>5, <1>6, RestEnds
  <2>2. 0 \in 0..Len(input) /\ 1 \in 1..7
    BY <1>1
  <2>3. AtHeader(0)
    BY <1>4, <2>1, <2>2 DEF AtHeader, h, b
  <2>4. Kept(input, 0) = <<>>
    BY FlatNone DEF Kept
  <2>5. Out(input, 0) = <<>>
    <3>1. Len(Kept(input, 0)) = 0
      BY <2>4
    <3> QED
      BY <3>1 DEF Out
  <2>6. Emitting(0)
    BY <1>4, <2>5 DEF Emitting
  <2>7. Reading(0)
    BY <2>3, <2>6 DEF Reading
  <2> QED
    BY <1>1, <1>2, <1>3, <1>8, <2>2, <2>7 DEF ConvertInv
<1> QED
  BY <1>7, <1>8

\* Every step of the converter keeps it.
LEMMA ConvertInvStep ==
  ASSUME ConvertInv, ConvertStep
  PROVE  ConvertInv'
<1>1. CASE layout = "old"
  BY <1>1, OldStep
<1>2. CASE layout # "old"
  <2>1. PICK k \in 0..Len(input) : Reading(k)
    BY <1>2 DEF ConvertInv
  <2>2. /\ UNCHANGED <<input, layout>> /\ input \in Seq(Nodes)
        /\ layout \in {"indented", "flush", "old"} /\ node = [f \in Fields |-> node[f]]
    BY DEF ConvertStep, ConvertInv
  <2>3. node' = [f \in Fields |-> node'[f]] /\ \E m \in 0..Len(input) : Reading(m)'
    <3>1. CASE SkipHeader
      <4>1. UNCHANGED node
        BY <3>1 DEF SkipHeader
      <4> QED
        BY <1>2, <2>1, <2>2, <3>1, <4>1, HeaderStep
    <3>2. CASE BeginSequence
      <4>1. UNCHANGED node
        BY <3>2 DEF BeginSequence, Abort
      <4> QED
        BY <1>2, <2>1, <2>2, <3>2, <4>1, SequenceStep
    <3>3. CASE NextEntry
      <4>1. node' = node \/ node' = Blank
        BY <3>3 DEF NextEntry, Abort
      <4>2. node' = [f \in Fields |-> node'[f]]
        BY <2>2, <4>1 DEF Blank
      <4> QED
        BY <2>1, <2>2, <3>3, <4>2, NextEntryStep
    <3>4. CASE \E f \in Fields : Extract(f)
      BY <2>1, <2>2, <3>4, ExtractStep
    <3>5. CASE AssertUdp
      <4>1. UNCHANGED node
        BY <3>5 DEF AssertUdp, Abort
      <4> QED
        BY <2>1, <2>2, <3>5, <4>1, AssertUdpStep
    <3>6. CASE PlainOrObfs
      <4>1. UNCHANGED node
        BY <3>6 DEF PlainOrObfs, Abort
      <4> QED
        BY <2>1, <2>2, <3>6, <4>1, PlainOrObfsStep
    <3>7. CASE skip_node
      <4>1. UNCHANGED node
        BY <3>7 DEF skip_node
      <4> QED
        BY <2>1, <2>2, <3>7, <4>1, SkipNodeStep
    <3>8. CASE EmitGroups
      <4>1. UNCHANGED node
        BY <3>8 DEF EmitGroups
      <4> QED
        BY <2>1, <2>2, <3>8, <4>1, EmitGroupsStep
    <3> QED
      BY <3>1, <3>2, <3>3, <3>4, <3>5, <3>6, <3>7, <3>8 DEF ConvertStep
  <2> QED
    BY <1>2, <2>2, <2>3 DEF ConvertInv
<1> QED
  BY <1>1, <1>2

\* A lookup leaves it alone.
LEMMA ConvertInvKept ==
  ASSUME ConvertInv, UNCHANGED cvars
  PROVE  ConvertInv'
<1>1. Wanted' = Wanted
  BY DEF Wanted, cvars
<1>2. (Disagree' <=> Disagree) /\ (Expected' <=> Expected)
  BY <1>1 DEF Disagree, Expected, cvars
<1>3. \A k : Emitting(k)' <=> Emitting(k)
  BY DEF Emitting, cvars
<1>4. \A n, j : InNode(n, j)' <=> InNode(n, j)
  BY DEF InNode, Passed, cvars
<1>5. \A k : (\E j \in 1..16 : AtNode(k, j))' <=> \E j \in 1..16 : AtNode(k, j)
  BY <1>4 DEF AtNode, cvars
<1>6. \A k : Reading(k)' <=> Reading(k)
  BY <1>2, <1>3, <1>5 DEF Reading, AtHeader, AtSequence, AtLoop, AtEnd, cvars
<1> QED
  BY <1>6 DEF ConvertInv, cvars

\* So every step of both programs does.
LEMMA ConvertInvNext ==
  ASSUME ConvertInv, [PipelineNext]_pvars
  PROVE  ConvertInv'
<1>1. CASE ConvertStep
  BY <1>1, ConvertInvStep
<1>2. CASE UNCHANGED cvars
  BY <1>2, ConvertInvKept
<1> QED
  BY <1>1, <1>2 DEF PipelineNext, pvars, Conversion, Lookup, Finished

\* What is kept so far, as it is emitted, starts what is wanted.
LEMMA OutPrefix ==
  ASSUME input \in Seq(Nodes), NEW k \in 0..Len(input)
  PROVE  IsPrefix(Out(input, k), WantedOut)
<1> DEFINE q == Kept(input, k)
           w == Wanted
           o == Out(input, k)
           u == WantedOut
<1>1. q \in Seq(Nodes) /\ w \in Seq(Nodes) /\ Len(input) \in k..Len(input)
  BY WantedIs, KeptType
<1>2. Len(q) <= Len(w) /\ \A i \in 1..Len(q) : w[i] = q[i]
  BY <1>1, WantedIs, KeptPrefix
<1>3. /\ o = [i \in 1..Len(q) |-> Emitted(q[i])]
      /\ u = [i \in 1..Len(w) |-> Emitted(w[i])]
  BY DEF Out, WantedOut
<1> HIDE DEF q, w, o, u
<1>4. Len(q) \in Nat /\ Len(w) \in Nat /\ 1..Len(q) \subseteq 1..Len(w)
  BY <1>1, <1>2
<1>5. Len(o) = Len(q) /\ Len(u) = Len(w)
  BY <1>3, <1>4
<1>6. \A i \in 1..Len(q) : o[i] = u[i]
  BY <1>2, <1>3, <1>4
<1>7. SubSeq(o, 1, Len(o)) = SubSeq(u, 1, Len(o))
  BY <1>4, <1>5, <1>6
<1> QED
  BY <1>2, <1>5, <1>7 DEF IsPrefix, o, u

\* What is emitted is always the start of the usable nodes, in order and each with
\* its own credentials, for files of any length and nodes of any kind in any order,
\* files that are not made for convert.c included.
THEOREM EmittedAsListedAlways == PipelineSpec => []EmittedAsListed
<1>1. PipelineInit => ConvertInv
  BY ConvertInvInit DEF PipelineInit
<1>2. ConvertInv /\ [PipelineNext]_pvars => ConvertInv'
  BY ConvertInvNext
<1>3. ConvertInv => EmittedAsListed
  <2> SUFFICES ASSUME ConvertInv PROVE IsPrefix(proxies, WantedOut)
    BY DEF EmittedAsListed
  <2>1. CASE layout = "old"
    <3>1. 0 \in 0..Len(input) /\ input \in Seq(Nodes)
      BY DEF ConvertInv
    <3>2. Out(input, 0) = <<>>
      <4>1. Kept(input, 0) = <<>>
        BY FlatNone DEF Kept
      <4>2. Len(Kept(input, 0)) = 0
        BY <4>1
      <4> QED
        BY <4>2 DEF Out
    <3> QED
      BY <2>1, <3>1, <3>2, OutPrefix DEF ConvertInv
  <2>2. CASE layout # "old"
    BY <2>2, OutPrefix DEF ConvertInv, Reading, Emitting
  <2> QED
    BY <2>1, <2>2
<1> QED
  BY <1>1, <1>2, <1>3, PTL DEF PipelineSpec

\* An expected file is converted in full or refused for a reason, whatever its length:
\* no node is lost in skip_node(), none is taken twice.
THEOREM NothingLostAlways == PipelineSpec => []NothingLost
<1>1. PipelineInit => ConvertInv
  BY ConvertInvInit DEF PipelineInit
<1>2. ConvertInv /\ [PipelineNext]_pvars => ConvertInv'
  BY ConvertInvNext
<1>3. ConvertInv => NothingLost
  <2> SUFFICES ASSUME ConvertInv, Expected, at \in {"done", "abort"}
               PROVE  NothingLost
    BY DEF NothingLost
  <2>1. layout # "old" /\ input \in Seq(Nodes)
    BY DEF Expected, ConvertInv
  <2>2. PICK k \in 0..Len(input) : Reading(k)
    BY <2>1 DEF ConvertInv
  <2>3. AtEnd(k)
    BY <2>2 DEF Reading, AtHeader, AtSequence, AtLoop, AtNode, InNode, Spot
  <2>4. CASE at = "done"
    <3>1. proxies = Out(input, Len(input))
      BY <2>2, <2>3, <2>4 DEF AtEnd, Reading, Emitting
    <3>2. proxies = WantedOut
      BY <2>1, <3>1, WantedIs DEF Out, WantedOut
    <3> QED
      BY <2>4, <3>2 DEF NothingLost
  <2>5. CASE at = "abort"
    <3>1. Disagree
      BY <2>3, <2>5 DEF AtEnd
    <3> QED
      BY <2>5, <3>1 DEF NothingLost, Disagree
  <2> QED
    BY <2>4, <2>5
<1> QED
  BY <1>1, <1>2, <1>3, PTL DEF PipelineSpec

\* A file without the key "proxies" (an old one) is never taken for an empty list.
OldFileNeverDone == layout = "old" => at = "header" /\ proxies = <<>>

\* The safety half of ConvertEnds, for files of any length.
THEOREM OldFileNeverDoneAlways == PipelineSpec => []OldFileNeverDone
<1>1. PipelineInit => ConvertInv
  BY ConvertInvInit DEF PipelineInit
<1>2. ConvertInv /\ [PipelineNext]_pvars => ConvertInv'
  BY ConvertInvNext
<1>3. ConvertInv => OldFileNeverDone
  BY DEF ConvertInv, OldFileNeverDone
<1> QED
  BY <1>1, <1>2, <1>3, PTL DEF PipelineSpec

\* Sequences of ten, one after the other.
Tens(S, s, n) == \A i \in 1..n : s[i] \in Seq(S) /\ Len(s[i]) = 10

\* Where the m-th element of the i-th of them is.
TenByTen(S, s, n) ==
  /\ Flat(s, n) \in Seq(S) /\ Len(Flat(s, n)) = 10 * n
  /\ \A i \in 1..n : \A m \in 1..10 : Flat(s, n)[10 * i - 10 + m] = s[i][m]

\* It is where ten elements each before it put it.
LEMMA FlatTen ==
  ASSUME NEW S, NEW s, NEW n \in Nat, Tens(S, s, n)
  PROVE  TenByTen(S, s, n)
<1> DEFINE P(d) == /\ Flat(s, d) \in Seq(S) /\ Len(Flat(s, d)) = 10 * d
                   /\ \A i \in 1..d : \A m \in 1..10 : Flat(s, d)[10 * i - 10 + m] = s[i][m]
           T == {d \in Nat : d <= n => P(d)}
<1>0. \A i \in 1..n : s[i] \in Seq(S) /\ Len(s[i]) = 10
  BY DEF Tens
<1>1. 0 \in T
  <2>1. Flat(s, 0) = <<>> /\ <<>> \in Seq(S) /\ Len(<<>>) = 10 * 0
    BY FlatNone
  <2> DEFINE z == Flat(s, 0)
  <2>1a. z \in Seq(S) /\ Len(z) = 10 * 0
    BY <2>1
  <2> HIDE DEF z
  <2>1b. \A i \in 1..0 : \A m \in 1..10 : z[10 * i - 10 + m] = s[i][m]
    OBVIOUS
  <2>2. P(0)
    BY <2>1a, <2>1b DEF z
  <2> HIDE DEF P
  <2> QED
    BY <2>2
<1>2. ASSUME NEW d \in Nat, d \in T PROVE d + 1 \in T
  <2>1. ASSUME d + 1 <= n PROVE P(d + 1)
    <3> DEFINE a == Flat(s, d)
               b == s[d + 1]
               c == Flat(s, d + 1)
    <3>1. P(d)
      BY <1>2, <2>1
    <3>2. d + 1 \in 1..n /\ \A i \in 1..(d + 1) : i \in 1..n
      BY <2>1
    <3>3. b \in Seq(S) /\ Len(b) = 10 /\ \A i \in 1..(d + 1) : s[i] \in Seq(S)
      BY <1>0, <3>2
    <3>4. c = a \o b
      BY <3>3, FlatStep
    <3>5. /\ a \in Seq(S) /\ Len(a) = 10 * d
          /\ \A i \in 1..d : \A m \in 1..10 : a[10 * i - 10 + m] = s[i][m]
      BY <3>1
    <3>6. b = s[d + 1] /\ c = Flat(s, d + 1)
      OBVIOUS
    <3> HIDE DEF a, b, c, P, T
    <3>7. /\ c \in Seq(S) /\ Len(c) = Len(a) + Len(b)
          /\ \A i \in 1..Len(a) : c[i] = a[i]
          /\ \A i \in 1..Len(b) : c[Len(a) + i] = b[i]
      <4>1. a \in Seq(S) /\ b \in Seq(S)
        BY <3>3, <3>5
      <4> QED
        BY <3>4, <4>1, Concat
    <3>8. Len(c) = 10 * (d + 1)
      BY <3>3, <3>5, <3>7
    <3>9. ASSUME NEW i \in 1..(d + 1), NEW m \in 1..10
          PROVE  c[10 * i - 10 + m] = s[i][m]
      <4>1. CASE i \in 1..d
        <5>1. 10 * i - 10 + m \in 1..(10 * d)
          BY <4>1
        <5> DEFINE e == 10 * i - 10 + m
        <5>2. e \in 1..Len(a) /\ a[e] = s[i][m]
          BY <3>5, <4>1, <5>1
        <5> HIDE DEF e
        <5>3. c[e] = a[e]
          BY <3>7, <5>2
        <5> QED
          BY <5>2, <5>3 DEF e
      <4>2. CASE i = d + 1
        <5>1. 10 * i - 10 + m = 10 * d + m
          BY <4>2
        <5>2. m \in 1..Len(b)
          BY <3>3
        <5>3. c[Len(a) + m] = b[m]
          BY <3>7, <5>2
        <5>4. Len(a) + m = 10 * d + m
          BY <3>5
        <5> QED
          BY <3>6, <4>2, <5>1, <5>3, <5>4
      <4> QED
        BY <4>1, <4>2
    <3> QED
      BY <3>6, <3>7, <3>8, <3>9 DEF P
  <2> HIDE DEF P
  <2> QED
    BY <2>1
<1> HIDE DEF P, T
<1>3. n \in T
  BY <1>1, <1>2, NatInd
<1>4. P(n)
  <2>1. n <= n
    OBVIOUS
  <2> QED
    BY <1>3, <2>1 DEF T
<1> QED
  BY <1>4 DEF P, TenByTen

\* A sequence of ten.
LEMMA Ten ==
  ASSUME NEW S, NEW a \in S, NEW b \in S, NEW c \in S, NEW d \in S, NEW e \in S,
         NEW f \in S, NEW g \in S, NEW h \in S, NEW i \in S, NEW j \in S
  PROVE  LET s == <<a, b, c, d, e, f, g, h, i, j>> IN
         s \in Seq(S) /\ Len(s) = 10 /\ s[1] = a /\ s[2] = b /\ s[3] = c /\ s[4] = d
         /\ s[5] = e /\ s[6] = f /\ s[7] = g /\ s[8] = h /\ s[9] = i /\ s[10] = j
OBVIOUS

\* A sequence of six.
LEMMA Six ==
  ASSUME NEW S, NEW a \in S, NEW b \in S, NEW c \in S, NEW d \in S, NEW e \in S,
         NEW f \in S
  PROVE  LET s == <<a, b, c, d, e, f>> IN
         s \in Seq(S) /\ Len(s) = 6 /\ s[1] = a /\ s[2] = b /\ s[3] = c /\ s[4] = d
         /\ s[5] = e /\ s[6] = f
OBVIOUS

\* The tokens of a configuration up to its last node.
Terms(p) ==
  {PAIR("name", p.name), PAIR("server", p.server), PAIR("port", p.port),
   PAIR("cipher", p.cipher), PAIR("password", p.password)}

Words(ps) ==
  {ENTRY, MAP, END, PAIR("type", "ss"), PAIR("udp", "true"), KEY("proxies"),
   PAIR("port", "8080"), KEY("profile"), PAIR("store-selected", "true")}
  \cup UNION {Terms(ps[i]) : i \in 1..Len(ps)}

\* The nodes ps as they are written, and the configuration up to the last of them.
Toks(ps) == [i \in 1..Len(ps) |-> ProxyTokens(ps[i])]

Written(ps) == Header \o <<KEY("proxies")>> \o Flat(Toks(ps), Len(ps))

\* The ten tokens of a node.
LEMMA ProxyToks ==
  ASSUME NEW ps, NEW i \in 1..Len(ps)
  PROVE  LET t == Toks(ps)[i]
             p == ps[i]
         IN  /\ t \in Seq(Words(ps)) /\ Len(t) = 10
             /\ t[1] = ENTRY /\ t[2] = MAP /\ t[3] = PAIR("name", p.name)
             /\ t[4] = PAIR("type", "ss") /\ t[5] = PAIR("server", p.server)
             /\ t[6] = PAIR("port", p.port) /\ t[7] = PAIR("cipher", p.cipher)
             /\ t[8] = PAIR("password", p.password) /\ t[9] = PAIR("udp", "true")
             /\ t[10] = END
<1> DEFINE p == ps[i]
           S == Words(ps)
<1>1. /\ ENTRY \in S /\ MAP \in S /\ END \in S /\ PAIR("type", "ss") \in S
      /\ PAIR("udp", "true") \in S
  BY Zenon DEF Words
<1>2. Terms(p) \subseteq S
  BY Zenon DEF Words
<1>3. /\ PAIR("name", p.name) \in S /\ PAIR("server", p.server) \in S
      /\ PAIR("port", p.port) \in S /\ PAIR("cipher", p.cipher) \in S
      /\ PAIR("password", p.password) \in S
  BY <1>2 DEF Terms
<1>4. Toks(ps)[i] = ProxyTokens(p)
  BY DEF Toks
<1> HIDE DEF p, S
<1>5. LET t == ProxyTokens(p)
      IN  /\ t \in Seq(S) /\ Len(t) = 10
          /\ t[1] = ENTRY /\ t[2] = MAP /\ t[3] = PAIR("name", p.name)
          /\ t[4] = PAIR("type", "ss") /\ t[5] = PAIR("server", p.server)
          /\ t[6] = PAIR("port", p.port) /\ t[7] = PAIR("cipher", p.cipher)
          /\ t[8] = PAIR("password", p.password) /\ t[9] = PAIR("udp", "true")
          /\ t[10] = END
  BY <1>1, <1>3, Ten DEF ProxyTokens
<1> QED
  BY <1>4, <1>5 DEF p, S

\* What comes before the nodes, in which the key "proxies" is the last token.
LEMMA HeaderType ==
  ASSUME NEW ps
  PROVE  /\ Header \in Seq(Words(ps)) /\ Len(Header) = 6 /\ Header[1] = MAP
         /\ \A j \in 1..6 : Header[j] \notin {KEY("proxies"), ERROR}
         /\ <<KEY("proxies")>> \in Seq(Words(ps)) /\ Len(<<KEY("proxies")>>) = 1
         /\ <<KEY("proxies")>>[1] = KEY("proxies")
<1> DEFINE S == Words(ps)
<1>1. /\ MAP \in S /\ PAIR("port", "8080") \in S /\ KEY("profile") \in S
      /\ PAIR("store-selected", "true") \in S /\ END \in S /\ KEY("proxies") \in S
  BY Zenon DEF Words
<1> HIDE DEF S
<1>2. /\ Header \in Seq(S) /\ Len(Header) = 6 /\ Header[1] = MAP
      /\ Header[2] = PAIR("port", "8080") /\ Header[3] = KEY("profile")
      /\ Header[4] = MAP /\ Header[5] = PAIR("store-selected", "true") /\ Header[6] = END
  BY <1>1, Six DEF Header
<1>3. /\ MAP \notin {KEY("proxies"), ERROR} /\ END \notin {KEY("proxies"), ERROR}
      /\ KEY("profile") \notin {KEY("proxies"), ERROR}
      /\ \A k, v : PAIR(k, v) \notin {KEY("proxies"), ERROR}
  BY Tokens
<1>4. \A j \in 1..6 : Header[j] \notin {KEY("proxies"), ERROR}
  <2>1. \A j \in 1..6 : j = 1 \/ j = 2 \/ j = 3 \/ j = 4 \/ j = 5 \/ j = 6
    OBVIOUS
  <2> QED
    BY <1>2, <1>3, <2>1
<1>5. /\ <<KEY("proxies")>> \in Seq(S) /\ Len(<<KEY("proxies")>>) = 1
      /\ <<KEY("proxies")>>[1] = KEY("proxies")
  BY <1>1, Two
<1> QED
  BY <1>2, <1>4, <1>5 DEF S

\* Where in the configuration each token of a node is.
LEMMA WrittenIs ==
  ASSUME NEW ps, Len(ps) \in Nat
  PROVE  LET w == Written(ps) IN
         /\ w \in Seq(Words(ps)) /\ Len(w) = 10 * Len(ps) + 7
         /\ \A j \in 1..6 : w[j] \notin {KEY("proxies"), ERROR}
         /\ w[1] = MAP /\ w[7] = KEY("proxies")
         /\ \A i \in 1..Len(ps) : \A m \in 1..10 : w[10 * i - 3 + m] = Toks(ps)[i][m]
<1> DEFINE S == Words(ps)
           n == Len(ps)
           h == Header
           o == <<KEY("proxies")>>
           t == Toks(ps)
           f == Flat(t, n)
           u == h \o o
           w == u \o f
<1>1. /\ h \in Seq(S) /\ Len(h) = 6 /\ h[1] = MAP
      /\ \A j \in 1..6 : h[j] \notin {KEY("proxies"), ERROR}
      /\ o \in Seq(S) /\ Len(o) = 1 /\ o[1] = KEY("proxies")
  BY HeaderType
<1>2. Tens(S, t, n)
  <2>1. \A i \in 1..n : t[i] \in Seq(S) /\ Len(t[i]) = 10
    BY ProxyToks
  <2> QED
    BY <2>1 DEF Tens
<1>3. n \in Nat
  OBVIOUS
<1>4. w = Written(ps)
  BY DEF Written
<1>4a. Words(ps) = S /\ Len(ps) = n /\ Toks(ps) = t
  OBVIOUS
<1> HIDE DEF S, n, h, o, t
<1>5. /\ f \in Seq(S) /\ Len(f) = 10 * n
      /\ \A i \in 1..n : \A m \in 1..10 : f[10 * i - 10 + m] = t[i][m]
  <2>1. TenByTen(S, t, n)
    BY <1>2, <1>3, FlatTen
  <2> QED
    BY <2>1 DEF TenByTen
<1> HIDE DEF f
<1>6. /\ u \in Seq(S) /\ Len(u) = Len(h) + Len(o)
      /\ \A i \in 1..Len(h) : u[i] = h[i]
      /\ \A i \in 1..Len(o) : u[Len(h) + i] = o[i]
  <2>1. h \in Seq(S) /\ o \in Seq(S)
    BY <1>1
  <2> QED
    BY <2>1, Concat
<1> HIDE DEF u
<1>7. /\ w \in Seq(S) /\ Len(w) = Len(u) + Len(f)
      /\ \A i \in 1..Len(u) : w[i] = u[i]
      /\ \A i \in 1..Len(f) : w[Len(u) + i] = f[i]
  <2>1. u \in Seq(S) /\ f \in Seq(S)
    BY <1>5, <1>6
  <2> QED
    BY <2>1, Concat
<1> HIDE DEF w
<1>8. Len(u) = 7 /\ u[7] = KEY("proxies") /\ \A i \in 1..6 : u[i] = h[i]
  BY <1>1, <1>6
<1>9. Len(w) = 10 * n + 7 /\ w[7] = KEY("proxies") /\ \A i \in 1..6 : w[i] = h[i]
  BY <1>3, <1>5, <1>7, <1>8
<1>10. ASSUME NEW i \in 1..n, NEW m \in 1..10
       PROVE  w[10 * i - 3 + m] = t[i][m]
  <2> DEFINE e == 10 * i - 10 + m
  <2>1. e \in 1..(10 * n) /\ 10 * i - 3 + m = 7 + e
    BY <1>3
  <2>2. f[e] = t[i][m]
    BY <1>5
  <2> HIDE DEF e
  <2>3. w[Len(u) + e] = f[e]
    BY <1>5, <1>7, <2>1
  <2> QED
    BY <1>8, <2>1, <2>2, <2>3
<1>11. w[1] = MAP /\ \A j \in 1..6 : w[j] \notin {KEY("proxies"), ERROR}
  BY <1>1, <1>9
<1> QED
  BY <1>4, <1>4a, <1>7, <1>9, <1>10, <1>11

\* The draft is what is written for the nodes emitted so far.
LEMMA DraftIs ==
  ASSUME Len(proxies) \in Nat
  PROVE  Draft = Written(proxies)
<1>1. \A i \in 1..Len(proxies) : Toks(proxies)[i] = ProxyTokens(proxies[i])
  BY DEF Toks
<1>2. [i \in 1..Len(proxies) |-> Toks(proxies)[i]]
        = [i \in 1..Len(proxies) |-> ProxyTokens(proxies[i])]
  BY <1>1
<1> QED
  BY <1>2 DEF Draft, Written, Flat, Upto

\* SCAN() at the j-th token of the stream c.
Read(c, j) == IF j <= Len(c) THEN c[j] ELSE NONE

\* What is left of a stream, and its next token.
LEMMA RestRead ==
  ASSUME NEW c, IsSeq(c), NEW j \in Nat \ {0}
  PROVE  /\ Peek(Rest(c, j)) = Read(c, j)
         /\ Drop(Rest(c, j)) = Rest(c, j + 1)
<1>1. PICK S : c \in Seq(S)
  BY DEF IsSeq
<1>2. CASE j \in 1..Len(c)
  <2> DEFINE t == <<>>
  <2>1. t \in Seq(S)
    OBVIOUS
  <2>2. Rest(c, j) \in Seq(S) /\ Rest(c, j + 1) \in Seq(S)
    BY <1>1, <1>2 DEF Rest
  <2>3. Rest(c, j) \o t = Rest(c, j) /\ Rest(c, j + 1) \o t = Rest(c, j + 1)
    BY <2>2
  <2> HIDE DEF t
  <2>4. Peek(Rest(c, j) \o t) = c[j] /\ Drop(Rest(c, j) \o t) = Rest(c, j + 1) \o t
    BY <1>1, <1>2, <2>1, RestStep
  <2>5. Read(c, j) = c[j]
    BY <1>2 DEF Read
  <2> QED
    BY <2>3, <2>4, <2>5
<1>3. CASE j \notin 1..Len(c)
  <2>1. Len(c) \in Nat /\ ~(j <= Len(c))
    BY <1>1, <1>3
  <2>2. Rest(c, j) = <<>> /\ Rest(c, j + 1) = <<>>
    BY <1>1, <2>1 DEF Rest
  <2>3. Read(c, j) = NONE
    BY <2>1 DEF Read
  <2> QED
    BY <2>2, <2>3 DEF Peek, Drop
<1> QED
  BY <1>2, <1>3

\* What the start of the token after the cut is scanned as.
Frayed(tok, t) ==
  \/ tok \in {NONE, END, ERROR, PAIR("name", t)}
  \/ \E k : k # "name" /\ tok = PAIR(k, "torn")

\* The stream c that was opened: the first n tokens of what is written for the nodes
\* ps, all of them or as far as they were there, and what follows.
Opened(c, n, ps, t, g) ==
  /\ IsSeq(c) /\ n \in 7..(10 * Len(ps) + 7) /\ n <= Len(c)
  /\ \A i \in 1..n : c[i] = Written(ps)[i]
  /\ g = "whole" =>
       n = 10 * Len(ps) + 7 /\ Read(c, n + 1) \in {KEY("proxy-groups"), FLOW}
  /\ g = "cut" =>
       Frayed(Read(c, n + 1), t) /\ \A i \in (n + 2)..Len(c) : c[i] = END

\* The tokens of the i-th node of such a stream.
LEMMA OpenedNode ==
  ASSUME NEW ps, Len(ps) \in Nat, NEW i \in 1..Len(ps)
  PROVE  LET w == Written(ps)
             p == ps[i]
         IN  /\ w[10 * i - 2] = ENTRY /\ w[10 * i - 1] = MAP
             /\ w[10 * i] = PAIR("name", p.name)
             /\ w[10 * i + 1] = PAIR("type", "ss")
             /\ w[10 * i + 2] = PAIR("server", p.server)
             /\ w[10 * i + 3] = PAIR("port", p.port)
             /\ w[10 * i + 4] = PAIR("cipher", p.cipher)
             /\ w[10 * i + 5] = PAIR("password", p.password)
             /\ w[10 * i + 6] = PAIR("udp", "true")
             /\ w[10 * i + 7] = END
             /\ \A m \in 4..9 : w[10 * i - 3 + m] \notin {END, ERROR}
<1> DEFINE w == Written(ps)
           t == Toks(ps)[i]
           p == ps[i]
<1>1. \A m \in 1..10 : w[10 * i - 3 + m] = t[m]
  BY WrittenIs
<1>2. /\ t[1] = ENTRY /\ t[2] = MAP /\ t[3] = PAIR("name", p.name)
      /\ t[4] = PAIR("type", "ss") /\ t[5] = PAIR("server", p.server)
      /\ t[6] = PAIR("port", p.port) /\ t[7] = PAIR("cipher", p.cipher)
      /\ t[8] = PAIR("password", p.password) /\ t[9] = PAIR("udp", "true")
      /\ t[10] = END
  BY ProxyToks
<1> HIDE DEF w, t, p
<1>3. /\ 10 * i - 3 + 1 = 10 * i - 2 /\ 10 * i - 3 + 2 = 10 * i - 1 /\ 10 * i - 3 + 3 = 10 * i
      /\ 10 * i - 3 + 4 = 10 * i + 1 /\ 10 * i - 3 + 5 = 10 * i + 2
      /\ 10 * i - 3 + 6 = 10 * i + 3 /\ 10 * i - 3 + 7 = 10 * i + 4
      /\ 10 * i - 3 + 8 = 10 * i + 5 /\ 10 * i - 3 + 9 = 10 * i + 6
      /\ 10 * i - 3 + 10 = 10 * i + 7
  OBVIOUS
<1>4. /\ w[10 * i - 2] = t[1] /\ w[10 * i - 1] = t[2] /\ w[10 * i] = t[3]
      /\ w[10 * i + 1] = t[4] /\ w[10 * i + 2] = t[5] /\ w[10 * i + 3] = t[6]
      /\ w[10 * i + 4] = t[7] /\ w[10 * i + 5] = t[8] /\ w[10 * i + 6] = t[9]
      /\ w[10 * i + 7] = t[10]
  <2>1. /\ 1 \in 1..10 /\ 2 \in 1..10 /\ 3 \in 1..10 /\ 4 \in 1..10 /\ 5 \in 1..10
        /\ 6 \in 1..10 /\ 7 \in 1..10 /\ 8 \in 1..10 /\ 9 \in 1..10 /\ 10 \in 1..10
    OBVIOUS
  <2> QED
    BY <1>1, <1>3, <2>1
<1>5. \A k, v : PAIR(k, v) \notin {END, ERROR}
  BY Tokens
<1>6. ASSUME NEW m \in 4..9 PROVE w[10 * i - 3 + m] \notin {END, ERROR}
  <2>1. m \in 1..10 /\ (m = 4 \/ m = 5 \/ m = 6 \/ m = 7 \/ m = 8 \/ m = 9)
    OBVIOUS
  <2>2. w[10 * i - 3 + m] = t[m]
    BY <1>1, <2>1
  <2>3. t[m] \notin {END, ERROR}
    BY <1>2, <1>5, <2>1
  <2> QED
    BY <2>2, <2>3
<1> QED
  BY <1>2, <1>4, <1>6 DEF w, p

\* A token that is neither ENTRY, MAP nor a key is not read as one.
LEMMA FrayedIs ==
  ASSUME NEW tok, NEW t, Frayed(tok, t)
  PROVE  /\ tok # ENTRY /\ tok # MAP
         /\ tok.t = "PAIR" /\ tok.k = "name" => tok.v = t
         /\ tok.k = "udp" => tok.v # "true"
<1>1. NONE.k = "" /\ END.k = "" /\ ERROR.k = ""
  BY DEF NONE, END, ERROR, Tok
<1>2. CASE tok \in {NONE, END, ERROR}
  BY <1>1, <1>2, Tokens
<1>3. CASE tok = PAIR("name", t)
  BY <1>3, Tokens
<1>4. CASE \E k : k # "name" /\ tok = PAIR(k, "torn")
  BY <1>4, Tokens
<1> QED
  BY <1>2, <1>3, <1>4 DEF Frayed

\* Two sequences joined, whatever they are made of.
LEMMA JoinSeqs ==
  ASSUME NEW a, NEW b, IsSeq(a), IsSeq(b)
  PROVE  /\ IsSeq(a \o b) /\ Len(a \o b) = Len(a) + Len(b)
         /\ Len(a) \in Nat /\ Len(b) \in Nat
         /\ \A i \in 1..Len(a) : (a \o b)[i] = a[i]
         /\ \A i \in 1..Len(b) : (a \o b)[Len(a) + i] = b[i]
<1>1. PICK S : a \in Seq(S)
  BY DEF IsSeq
<1>2. PICK T : b \in Seq(T)
  BY DEF IsSeq
<1> DEFINE U == S \cup T
<1>3. a \in Seq(U) /\ b \in Seq(U)
  BY <1>1, <1>2
<1> HIDE DEF U
<1>4. /\ a \o b \in Seq(U) /\ Len(a \o b) = Len(a) + Len(b)
      /\ \A i \in 1..Len(a) : (a \o b)[i] = a[i]
      /\ \A i \in 1..Len(b) : (a \o b)[Len(a) + i] = b[i]
  BY <1>3, Concat
<1>5. Len(a) \in Nat /\ Len(b) \in Nat
  BY <1>3
<1> QED
  BY <1>4, <1>5 DEF IsSeq

\* Any number of sequences joined.
LEMMA FlatIsSeq ==
  ASSUME NEW s, NEW n \in Nat, \A i \in 1..n : IsSeq(s[i])
  PROVE  IsSeq(Flat(s, n))
<1> DEFINE U == UNION {ToSet(s[i]) : i \in 1..n}
<1>1. ASSUME NEW i \in 1..n PROVE s[i] \in Seq(U)
  <2>1. PICK S : s[i] \in Seq(S)
    BY DEF IsSeq
  <2> DEFINE q == s[i]
  <2>2. ToSet(q) \subseteq U
    OBVIOUS
  <2>3. \A j \in 1..Len(q) : q[j] \in ToSet(q)
    BY <2>1 DEF ToSet
  <2>4. q \in Seq(S)
    BY <2>1
  <2> HIDE DEF q, U
  <2>5. q \in Seq(U)
    BY <2>2, <2>3, <2>4
  <2> QED
    BY <2>5 DEF q
<1> HIDE DEF U
<1>2. Flat(s, n) \in Seq(U)
  BY <1>1, FlatType
<1> QED
  BY <1>2 DEF IsSeq

\* A group of the configuration is a sequence of tokens.
LEMMA GroupSeq ==
  ASSUME NEW g, IsSeq(g.members)
  PROVE  IsSeq(GroupTokens(g))
<1> DEFINE m == g.members
           s == [i \in 1..Len(m) |-> <<ENTRY, SCALAR(m[i])>>]
           a == <<ENTRY, MAP, PAIR("name", g.name), PAIR("type", "select")>>
           k == <<KEY("proxies")>>
           x == IF s = <<>> THEN <<FLOW>> ELSE FlattenSeq(s)
           e == <<END>>
<1>1. Len(m) \in Nat
  <2>1. PICK S : m \in Seq(S)
    BY DEF IsSeq
  <2> HIDE DEF m
  <2> QED
    BY <2>1
<1>2. \A y : IsSeq(<<y>>)
  <2> SUFFICES ASSUME NEW y PROVE IsSeq(<<y>>)
    OBVIOUS
  <2>1. <<y>> \in Seq({y})
    OBVIOUS
  <2> QED
    BY <2>1 DEF IsSeq
<1>3. \A y, z : IsSeq(<<y, z>>)
  <2> SUFFICES ASSUME NEW y, NEW z PROVE IsSeq(<<y, z>>)
    OBVIOUS
  <2>1. <<y, z>> \in Seq({y, z})
    OBVIOUS
  <2> QED
    BY <2>1 DEF IsSeq
<1>4. \A y1, y2, y3, y4 : IsSeq(<<y1, y2, y3, y4>>)
  <2> SUFFICES ASSUME NEW y1, NEW y2, NEW y3, NEW y4 PROVE IsSeq(<<y1, y2, y3, y4>>)
    OBVIOUS
  <2>1. <<y1, y2, y3, y4>> \in Seq({y1, y2, y3, y4})
    OBVIOUS
  <2> QED
    BY <2>1 DEF IsSeq
<1>5. IsSeq(a) /\ IsSeq(k) /\ IsSeq(e) /\ IsSeq(<<FLOW>>)
  BY <1>2, <1>4
<1>6. \A i \in 1..Len(m) : IsSeq(s[i])
  BY <1>3
<1>7. GroupTokens(g) = (a \o (k \o x)) \o e
  BY DEF GroupTokens, Listing
<1>8. Upto(s, Len(m)) = s
  BY DEF Upto
<1> HIDE DEF m, a, k, e
<1>9. IsSeq(Flat(s, Len(m)))
  <2> HIDE DEF s
  <2> QED
    BY <1>1, <1>6, FlatIsSeq
<1>10. IsSeq(x)
  BY <1>5, <1>8, <1>9 DEF Flat
<1> HIDE DEF x
<1>11. IsSeq(k \o x)
  BY <1>5, <1>10, JoinSeqs
<1>12. IsSeq(a \o (k \o x))
  BY <1>5, <1>11, JoinSeqs
<1>13. IsSeq((a \o (k \o x)) \o e)
  BY <1>5, <1>12, JoinSeqs
<1> QED
  BY <1>7, <1>13

\* The groups of a configuration come after its nodes, under a key of their own.
LEMMA GroupsSeq ==
  ASSUME NEW gs, IsSeq(gs), \A i \in 1..Len(gs) : IsSeq(gs[i].members)
  PROVE  LET l == Listing("proxy-groups", [i \in 1..Len(gs) |-> GroupTokens(gs[i])])
         IN  IsSeq(l) /\ Len(l) \in Nat \ {0} /\ l[1] = KEY("proxy-groups")
<1> DEFINE s == [i \in 1..Len(gs) |-> GroupTokens(gs[i])]
           k == <<KEY("proxy-groups")>>
           x == IF s = <<>> THEN <<FLOW>> ELSE FlattenSeq(s)
<1>1. Len(gs) \in Nat
  <2>1. PICK S : gs \in Seq(S)
    BY DEF IsSeq
  <2> QED
    BY <2>1
<1>2. \A y : IsSeq(<<y>>)
  <2> SUFFICES ASSUME NEW y PROVE IsSeq(<<y>>)
    OBVIOUS
  <2>1. <<y>> \in Seq({y})
    OBVIOUS
  <2> QED
    BY <2>1 DEF IsSeq
<1>3. \A i \in 1..Len(gs) : IsSeq(s[i])
  BY GroupSeq
<1>4. Upto(s, Len(gs)) = s
  BY DEF Upto
<1>5. IsSeq(k) /\ IsSeq(<<FLOW>>) /\ Len(k) = 1 /\ k[1] = KEY("proxy-groups")
  BY <1>2
<1>6. Listing("proxy-groups", s) = k \o x
  BY DEF Listing
<1> HIDE DEF k
<1>7. IsSeq(Flat(s, Len(gs)))
  <2> HIDE DEF s
  <2> QED
    BY <1>1, <1>3, FlatIsSeq
<1>8. IsSeq(x)
  BY <1>4, <1>5, <1>7 DEF Flat
<1> HIDE DEF x
<1> DEFINE l == k \o x
<1>9. /\ IsSeq(l) /\ Len(l) = Len(k) + Len(x) /\ Len(x) \in Nat
      /\ \A i \in 1..Len(k) : l[i] = k[i]
  BY <1>5, <1>8, JoinSeqs
<1> HIDE DEF l
<1>10. IsSeq(l) /\ Len(l) \in Nat \ {0} /\ l[1] = KEY("proxy-groups")
  BY <1>5, <1>9
<1> QED
  BY <1>6, <1>10 DEF l

\* The whole configuration, as it is opened.
LEMMA WholeOpened ==
  ASSUME IsSeq(proxies), IsSeq(groups), \A i \in 1..Len(groups) : IsSeq(groups[i].members),
         NEW t
  PROVE  Opened(Config, 10 * Len(proxies) + 7, proxies, t, "whole")
<1> DEFINE ps == proxies
           N == Len(ps)
           n == 10 * N + 7
           w == Written(ps)
           h == Header
           k == <<KEY("proxies")>>
           s == [i \in 1..N |-> ProxyTokens(ps[i])]
           x == IF s = <<>> THEN <<FLOW>> ELSE FlattenSeq(s)
           l == Listing("proxy-groups", [i \in 1..Len(groups) |-> GroupTokens(groups[i])])
           e == <<END>>
           c == ((h \o (k \o x)) \o l) \o e
<1>1. N \in Nat
  <2>1. PICK S : proxies \in Seq(S)
    BY DEF IsSeq
  <2> QED
    BY <2>1
<1>2. c = Config
  BY DEF Config, Listing
<1>3. IsSeq(l) /\ Len(l) \in Nat \ {0} /\ l[1] = KEY("proxy-groups")
  BY GroupsSeq
<1>4. IsSeq(e)
  <2>1. e \in Seq({END})
    OBVIOUS
  <2> QED
    BY <2>1 DEF IsSeq
<1>5. /\ h \in Seq(Words(ps)) /\ Len(h) = 6 /\ k \in Seq(Words(ps)) /\ Len(k) = 1
  BY HeaderType
<1>6. w \in Seq(Words(ps)) /\ Len(w) = n
  BY <1>1, WrittenIs
<1> DEFINE f == Flat(Toks(ps), N)
<1>7. w = (h \o k) \o f
  BY DEF Written
<1>8. f \in Seq(Words(ps))
  <2>1. \A i \in 1..N : Toks(ps)[i] \in Seq(Words(ps))
    BY ProxyToks
  <2> QED
    BY <1>1, <2>1, FlatType
<1>9. FlattenSeq(s) = f
  <2>1. s = Upto(Toks(ps), N)
    BY DEF Upto, Toks
  <2> QED
    BY <2>1 DEF Flat
<1>10. s = <<>> <=> N = 0
  <2>1. DOMAIN s = 1..N /\ DOMAIN <<>> = 1..0
    OBVIOUS
  <2>2. N # 0 => s # <<>>
    <3>1. N # 0 => 1 \in 1..N /\ 1 \notin 1..0
      BY <1>1
    <3> HIDE DEF s, N
    <3> QED
      BY <2>1, <3>1
  <2>3. N = 0 => s = <<>>
    OBVIOUS
  <2> QED
    BY <2>2, <2>3
<1>11. /\ IsSeq(c) /\ n <= Len(c) /\ \A i \in 1..n : c[i] = w[i]
       /\ Read(c, n + 1) \in {KEY("proxy-groups"), FLOW}
  <2>1. CASE N # 0
    <3>1. x = f
      BY <1>9, <1>10, <2>1
    <3> HIDE DEF h, k, f, l, e, w, N, x, s
    <3>2. (h \o k) \o f = h \o (k \o f)
      <4>1. h \in Seq(Words(ps)) /\ k \in Seq(Words(ps)) /\ f \in Seq(Words(ps))
        BY <1>5, <1>8
      <4> HIDE DEF ps
      <4>2. Assoc(h, k, f)
        BY <4>1, ConcatAssoc
      <4> QED
        BY <4>2 DEF Assoc
    <3>3. c = (w \o l) \o e
      BY <1>7, <3>1, <3>2
    <3>4. IsSeq(w)
      BY <1>6 DEF IsSeq
    <3> DEFINE u == w \o l
    <3>5. /\ IsSeq(u) /\ Len(u) = Len(w) + Len(l) /\ Len(w) \in Nat
          /\ \A i \in 1..Len(w) : u[i] = w[i]
          /\ \A i \in 1..Len(l) : u[Len(w) + i] = l[i]
      BY <1>3, <3>4, JoinSeqs
    <3> HIDE DEF u
    <3> DEFINE v == u \o e
    <3>6. /\ IsSeq(v) /\ Len(v) = Len(u) + Len(e) /\ Len(e) \in Nat
          /\ \A i \in 1..Len(u) : v[i] = u[i]
      BY <1>4, <3>5, JoinSeqs
    <3> HIDE DEF v
    <3>7. c = v
      BY <3>3 DEF v, u
    <3> HIDE DEF c, n
    <3>8. n <= Len(v) /\ \A i \in 1..n : v[i] = w[i]
      BY <1>3, <1>6, <3>5, <3>6
    <3>9. n + 1 <= Len(v) /\ v[n + 1] = KEY("proxy-groups")
      <4>1. 1 \in 1..Len(l) /\ n + 1 \in 1..Len(u) /\ n + 1 = Len(w) + 1
        BY <1>3, <1>6, <3>5
      <4>2. u[n + 1] = l[1]
        BY <3>5, <4>1
      <4>3. v[n + 1] = u[n + 1]
        BY <3>6, <4>1
      <4>4. n + 1 <= Len(v)
        BY <3>5, <3>6, <4>1, <1>3
      <4> QED
        BY <1>3, <4>2, <4>3, <4>4
    <3>10. Read(v, n + 1) = KEY("proxy-groups")
      BY <3>9 DEF Read
    <3> QED
      BY <3>6, <3>7, <3>8, <3>10
  <2>2. CASE N = 0
    <3>1. x = <<FLOW>>
      BY <1>10, <2>2
    <3>2. f = <<>>
      BY <2>2, FlatNone
    <3>3. IsSeq(x) /\ Len(x) = 1 /\ x[1] = FLOW
      <4>1. <<FLOW>> \in Seq({FLOW}) /\ Len(<<FLOW>>) = 1 /\ <<FLOW>>[1] = FLOW
        OBVIOUS
      <4> QED
        BY <3>1, <4>1 DEF IsSeq
    <3>4. n = 7
      BY <2>2
    <3> HIDE DEF h, k, f, l, e, w, N, x, s, n
    <3>5. IsSeq(h) /\ IsSeq(k)
      BY <1>5 DEF IsSeq
    <3> DEFINE o == h \o k
    <3>6. w = o /\ Len(w) = 7
      <4>1. o \in Seq(Words(ps))
        BY <1>5, ConcatType
      <4> HIDE DEF o
      <4>2. o \o <<>> = o
        BY <4>1
      <4> QED
        BY <1>6, <1>7, <3>2, <3>4, <4>2 DEF o
    <3> DEFINE u == k \o x
    <3>7. /\ IsSeq(u) /\ Len(u) = Len(k) + Len(x)
          /\ \A i \in 1..Len(k) : u[i] = k[i]
          /\ \A i \in 1..Len(x) : u[Len(k) + i] = x[i]
      <4>1. IsSeq(k) /\ IsSeq(x)
        BY <3>3, <3>5
      <4> QED
        BY <4>1, JoinSeqs
    <3>8. /\ IsSeq(o) /\ Len(o) = Len(h) + Len(k)
          /\ \A i \in 1..Len(h) : o[i] = h[i]
          /\ \A i \in 1..Len(k) : o[Len(h) + i] = k[i]
      BY <3>5, JoinSeqs
    <3> HIDE DEF u, o
    <3> DEFINE v == h \o u
    <3>9. /\ IsSeq(v) /\ Len(v) = Len(h) + Len(u)
          /\ \A i \in 1..Len(h) : v[i] = h[i]
          /\ \A i \in 1..Len(u) : v[Len(h) + i] = u[i]
      BY <3>5, <3>7, JoinSeqs
    <3> HIDE DEF v
    <3>10. /\ Len(v) = 8 /\ v[8] = FLOW /\ \A i \in 1..7 : v[i] = o[i]
      <4>1. Len(u) = 2 /\ u[1] = k[1] /\ u[2] = FLOW
        BY <1>5, <3>3, <3>7
      <4>2. Len(v) = 8 /\ v[7] = k[1] /\ v[8] = FLOW /\ \A i \in 1..6 : v[i] = h[i]
        BY <1>5, <3>9, <4>1
      <4>3. o[7] = k[1] /\ \A i \in 1..6 : o[i] = h[i]
        BY <1>5, <3>8
      <4>4. \A i \in 1..7 : i \in 1..6 \/ i = 7
        OBVIOUS
      <4> QED
        BY <4>2, <4>3, <4>4
    <3> DEFINE y == v \o l
    <3>11. /\ IsSeq(y) /\ Len(y) = Len(v) + Len(l)
           /\ \A i \in 1..Len(v) : y[i] = v[i]
      BY <1>3, <3>9, JoinSeqs
    <3> HIDE DEF y
    <3> DEFINE z == y \o e
    <3>12. /\ IsSeq(z) /\ Len(z) = Len(y) + Len(e) /\ Len(e) \in Nat
           /\ \A i \in 1..Len(y) : z[i] = y[i]
      BY <1>4, <3>11, JoinSeqs
    <3> HIDE DEF z
    <3>13. c = z
      BY DEF z, y, v, u
    <3> HIDE DEF c
    <3>14. 8 <= Len(z) /\ \A i \in 1..8 : z[i] = v[i]
      BY <1>3, <3>10, <3>11, <3>12
    <3>15. 7 <= Len(z) /\ z[8] = FLOW /\ \A i \in 1..7 : z[i] = w[i]
      BY <3>6, <3>10, <3>14
    <3>16. Read(z, 7 + 1) = FLOW
      BY <3>14, <3>15 DEF Read
    <3> QED
      BY <3>4, <3>12, <3>13, <3>15, <3>16
  <2> QED
    BY <2>1, <2>2
<1>12. n \in 7..(10 * N + 7)
  BY <1>1
<1> HIDE DEF c, n, w
<1>13. Opened(c, n, proxies, t, "whole")
  BY <1>11, <1>12 DEF Opened, n, w
<1> QED
  BY <1>2, <1>13 DEF n

\* The scanner closes what is open with ENDs, and nothing else.
LEMMA ClosedIs ==
  ASSUME NEW s, IsSeq(s)
  PROVE  \E e \in Seq({END}) : Closed(s) = s \o e
<1>1. Len(s) \in Nat
  <2>1. PICK S : s \in Seq(S)
    BY DEF IsSeq
  <2> QED
    BY <2>1
<1> DEFINE A == {i \in 1..Len(s) : s[i] \in {MAP, SEQ}}
           B == {i \in 1..Len(s) : s[i] = END}
           u == Unclosed(s)
           e == [i \in 1..u |-> END]
<1>2. IsFiniteSet(1..Len(s)) /\ A \subseteq 1..Len(s) /\ B \subseteq 1..Len(s)
  <2>1. IsFiniteSet(1..Len(s))
    <3>1. 1 \in Int /\ Len(s) \in Int
      BY <1>1
    <3> QED
      BY <3>1, FS_Interval
  <2> QED
    BY <2>1
<1>3. Cardinality(A) \in Nat /\ Cardinality(B) \in Nat
  <2> HIDE DEF A, B
  <2>1. IsFiniteSet(A) /\ IsFiniteSet(B)
    BY <1>2, FS_Subset
  <2> QED
    BY <2>1, FS_CardinalityType
<1>4. u = Cardinality(A) - Cardinality(B)
  BY DEF Unclosed
<1> HIDE DEF A, B, u
<1>5. u \in Int
  BY <1>3, <1>4
<1>6. e \in Seq({END})
  <2>1. CASE u \in Nat
    BY <2>1
  <2>2. CASE u \notin Nat
    <3>1. 1..u = 1..0
      BY <1>5, <2>2
    <3>2. e = [i \in 1..0 |-> END]
      BY <3>1
    <3>3. [i \in 1..0 |-> END] \in Seq({END})
      OBVIOUS
    <3> QED
      BY <3>2, <3>3
  <2> QED
    BY <2>1, <2>2
<1>7. Closed(s) = s \o e
  BY DEF Closed, u
<1> HIDE DEF e
<1> QED
  BY <1>6, <1>7

\* What is there of the token at the cut.
LEMMA TornIs ==
  ASSUME NEW d, NEW n, NEW t,
         NEW q \in {<<>>} \cup IF n \in 1..Len(d) - 1 THEN Torn(d[n + 1], t) ELSE {}
  PROVE  /\ IsSeq(q)
         /\ q = <<>> \/ (Len(q) = 1 /\ Frayed(q[1], t))
<1>1. <<>> \in Seq({}) /\ \A y : <<y>> \in Seq({y}) /\ Len(<<y>>) = 1 /\ <<y>>[1] = y
  OBVIOUS
<1>2. q = <<>> \/ \E y : q = <<y>> /\ Frayed(y, t)
  <2> DEFINE tok == d[n + 1]
  <2>1. CASE q # <<>>
    <3>1. q \in Torn(tok, t)
      BY <2>1
    <3>2. CASE q = <<ERROR>>
      BY <3>2 DEF Frayed
    <3>3. CASE q = <<PAIR(tok.k, IF tok.k = "name" THEN t ELSE "torn")>>
      <4> DEFINE y == PAIR(tok.k, IF tok.k = "name" THEN t ELSE "torn")
      <4>1. Frayed(y, t)
        <5> HIDE DEF tok
        <5>1. CASE tok.k = "name"
          BY <5>1 DEF Frayed
        <5>2. CASE tok.k # "name"
          BY <5>2 DEF Frayed
        <5> QED
          BY <5>1, <5>2
      <4> HIDE DEF y
      <4> QED
        BY <3>3, <4>1 DEF y
    <3>4. q = <<ERROR>> \/ q = <<PAIR(tok.k, IF tok.k = "name" THEN t ELSE "torn")>>
      BY <3>1, Zenon DEF Torn
    <3> QED
      BY <3>2, <3>3, <3>4
  <2> QED
    BY <2>1
<1>3. CASE q = <<>>
  <2>1. IsSeq(<<>>)
    BY <1>1 DEF IsSeq
  <2> QED
    BY <1>3, <2>1, Zenon
<1>4. CASE \E y : q = <<y>> /\ Frayed(y, t)
  <2>1. PICK y : q = <<y>> /\ Frayed(y, t)
    BY <1>4
  <2> QED
    BY <1>1, <2>1 DEF IsSeq
<1> QED
  BY <1>2, <1>3, <1>4

\* A configuration that is cut short, as it is opened: where it starts like one at
\* all it has its header and the key "proxies", and then nodes up to the cut.
LEMMA CutOpened ==
  ASSUME IsSeq(proxies), NEW t, NEW n \in CutPoints(Draft), NEW c \in Cuts(Draft, n, t),
         Peek(c) = MAP
  PROVE  Opened(c, n, proxies, t, "cut")
<1> DEFINE ps == proxies
           N == Len(ps)
           w == Written(ps)
           f == SubSeq(w, 1, n)
           S == Words(ps)
<1>1. N \in Nat
  <2>1. PICK R : proxies \in Seq(R)
    BY DEF IsSeq
  <2> QED
    BY <2>1
<1>2. Draft = w
  BY <1>1, DraftIs
<1>3. w \in Seq(S) /\ Len(w) = 10 * N + 7
  BY <1>1, WrittenIs
<1>4. PICK q \in {<<>>} \cup IF n \in 1..Len(w) - 1 THEN Torn(w[n + 1], t) ELSE {} :
        c = Closed(f \o q)
  BY <1>2, Zenon DEF Cuts
<1>5. IsSeq(q) /\ (q = <<>> \/ (Len(q) = 1 /\ Frayed(q[1], t)))
  BY TornIs
<1>6. Len(Header) = 6
  BY HeaderType
<1>7. n = 0 \/ n \in 7..Len(w)
  BY <1>2, <1>6 DEF CutPoints
<1>7a. w = Written(proxies) /\ N = Len(proxies)
  OBVIOUS
<1> HIDE DEF w, S, N
<1>8. IsSeq(f)
  <2>1. f \in Seq(S)
    BY <1>3, <1>7
  <2> QED
    BY <2>1 DEF IsSeq
<1> DEFINE g == f \o q
<1>9. /\ IsSeq(g) /\ Len(g) = Len(f) + Len(q) /\ Len(f) \in Nat /\ Len(q) \in Nat
      /\ \A i \in 1..Len(f) : g[i] = f[i]
      /\ \A i \in 1..Len(q) : g[Len(f) + i] = q[i]
  <2>1. IsSeq(f) /\ IsSeq(q)
    BY <1>5, <1>8
  <2> HIDE DEF f
  <2> QED
    BY <2>1, JoinSeqs
<1>10. Len(f) = n /\ \A i \in 1..n : f[i] = w[i]
  BY <1>3, <1>7
<1>10a. n = 0 => f = <<>> /\ q = <<>>
  BY <1>3
<1> HIDE DEF f, g
<1>11. PICK e \in Seq({END}) : c = g \o e
  BY <1>4, <1>9, ClosedIs DEF g
<1>12. IsSeq(e) /\ \A i \in 1..Len(e) : e[i] = END
  BY <1>11 DEF IsSeq
<1>13. /\ IsSeq(c) /\ Len(c) = Len(g) + Len(e) /\ Len(g) \in Nat /\ Len(e) \in Nat
       /\ \A i \in 1..Len(g) : c[i] = g[i]
       /\ \A i \in 1..Len(e) : c[Len(g) + i] = e[i]
  <2>1. IsSeq(g) /\ IsSeq(e)
    BY <1>9, <1>12
  <2> QED
    BY <1>11, <2>1, JoinSeqs
<1>14. n # 0
  <2> SUFFICES ASSUME n = 0 PROVE FALSE
    OBVIOUS
  <2>1. Len(g) = 0
    <3>1. Len(q) = 0 /\ Len(f) = 0
      <4>1. Len(<<>>) = 0
        OBVIOUS
      <4> QED
        BY <1>10, <1>10a, <4>1
    <3> QED
      BY <1>9, <3>1
  <2>2. \A i \in 1..Len(c) : c[i] = END
    <3> SUFFICES ASSUME NEW i \in 1..Len(c) PROVE c[i] = END
      OBVIOUS
    <3>1. i \in 1..Len(e) /\ Len(g) + i = i
      BY <1>13, <2>1
    <3> QED
      BY <1>12, <1>13, <3>1
  <2>3. PICK R : c \in Seq(R)
    BY <1>13 DEF IsSeq
  <2>4. Peek(c) \in {NONE, END}
    <3>1. CASE c = <<>>
      BY <3>1 DEF Peek
    <3>2. CASE c # <<>>
      <4>1. 1 \in 1..Len(c) /\ Head(c) = c[1]
        BY <2>3, <3>2
      <4> QED
        BY <2>2, <3>2, <4>1 DEF Peek
    <3> QED
      BY <3>1, <3>2
  <2>5. MAP \notin {NONE, END}
    BY Tokens
  <2> QED
    BY <2>4, <2>5
<1>15. n \in 7..(10 * N + 7) /\ n <= Len(c)
  BY <1>3, <1>7, <1>9, <1>10, <1>13, <1>14
<1>16. \A i \in 1..n : c[i] = w[i]
  BY <1>9, <1>10, <1>13, <1>15
<1>17. Frayed(Read(c, n + 1), t)
  <2>1. CASE q = <<>>
    <3>1. Len(g) = n
      <4>1. Len(<<>>) = 0
        OBVIOUS
      <4>2. Len(q) = 0
        BY <2>1, <4>1
      <4> QED
        BY <1>9, <1>10, <1>15, <4>2
    <3>2. CASE Len(e) = 0
      <4>1. ~(n + 1 <= Len(c))
        BY <1>13, <1>15, <3>1, <3>2
      <4> QED
        BY <4>1 DEF Read, Frayed
    <3>3. CASE Len(e) # 0
      <4>1. 1 \in 1..Len(e) /\ n + 1 <= Len(c) /\ Len(g) + 1 = n + 1
        BY <1>13, <1>15, <3>1, <3>3
      <4>2. c[n + 1] = END
        BY <1>12, <1>13, <4>1
      <4> QED
        BY <4>1, <4>2 DEF Read, Frayed
    <3> QED
      BY <3>2, <3>3
  <2>2. CASE Len(q) = 1 /\ Frayed(q[1], t)
    <3>1. 1 \in 1..Len(q) /\ n + 1 \in 1..Len(g) /\ n + 1 <= Len(c) /\ Len(f) + 1 = n + 1
      BY <1>9, <1>10, <1>13, <1>15, <2>2
    <3>2. g[n + 1] = q[1]
      BY <1>9, <3>1
    <3>3. c[n + 1] = q[1]
      BY <1>13, <3>1, <3>2
    <3>4. Read(c, n + 1) = q[1]
      BY <3>1, <3>3 DEF Read
    <3> QED
      BY <2>2, <3>4
  <2> QED
    BY <1>5, <2>1, <2>2
<1>18. ASSUME NEW i \in (n + 2)..Len(c) PROVE c[i] = END
  <2>1. Len(g) \in {n, n + 1}
    <3>1. Len(q) \in {0, 1}
      <4>1. Len(<<>>) = 0
        OBVIOUS
      <4>2. CASE q = <<>>
        BY <4>1, <4>2
      <4>3. CASE Len(q) = 1
        BY <4>3
      <4> QED
        BY <1>5, <4>2, <4>3, Zenon
    <3>2. Len(g) = n + Len(q)
      BY <1>9, <1>10, Zenon
    <3>3. n + 0 = n
      BY <1>15
    <3>4. Len(g) = n \/ Len(g) = n + 1
      BY <3>1, <3>2, <3>3, Zenon
    <3> QED
      BY <3>4, Zenon
  <2> DEFINE j == i - Len(g)
  <2>2. j \in 1..Len(e) /\ Len(g) + j = i
    BY <1>13, <1>15, <2>1
  <2> HIDE DEF j
  <2> QED
    BY <1>12, <1>13, <2>2
<1> QED
  BY <1>7a, <1>13, <1>15, <1>16, <1>17, <1>18 DEF Opened

\* What a node that is emitted has, and its server's answer from the DNS.
Sound(p) ==
  /\ p.server # "" /\ p.port # "" /\ p.cipher # "" /\ p.password # ""
  /\ Atoi[p.port] \in Nat \ {0}
  /\ Addresses[p.server] \in Seq(STRING)
  /\ \A i \in 1..Len(Addresses[p.server]) : Addresses[p.server][i] \notin {"", "0.0.0.0"}

\* Only usable nodes are kept.
LEMMA KeptUsable ==
  ASSUME NEW ns \in Seq(Nodes), NEW k \in 0..Len(ns)
  PROVE  \A i \in 1..Len(Kept(ns, k)) : Usable(Kept(ns, k)[i])
<1> DEFINE P(m) == \A i \in 1..Len(Kept(ns, m)) : Usable(Kept(ns, m)[i])
           T == {m \in Nat : m <= Len(ns) => P(m)}
<1>1. 0 \in T
  <2>1. Kept(ns, 0) = <<>>
    BY FlatNone DEF Kept
  <2>2. Len(<<>>) = 0
    OBVIOUS
  <2>3. Len(Kept(ns, 0)) = 0
    BY <2>1, <2>2
  <2>4. P(0)
    BY <2>3
  <2> HIDE DEF P
  <2> QED
    BY <2>4
<1>2. ASSUME NEW m \in Nat, m \in T PROVE m + 1 \in T
  <2>1. ASSUME m + 1 <= Len(ns) PROVE P(m + 1)
    <3>1. P(m) /\ m < Len(ns) /\ m \in 0..Len(ns) /\ m + 1 \in 1..Len(ns)
      BY <1>2, <2>1
    <3> DEFINE q == Kept(ns, m)
               p == Kept(ns, m + 1)
               n == ns[m + 1]
    <3>2. q \in Seq(Nodes) /\ n \in Nodes
      BY <3>1, KeptType
    <3>3. p = IF Usable(n) THEN Append(q, n) ELSE q
      BY <3>1, KeptStep
    <3>4. \A i \in 1..Len(q) : Usable(q[i])
      BY <3>1
    <3> HIDE DEF p, q, n
    <3>5. CASE Usable(n)
      <4>1. /\ Len(p) = Len(q) + 1 /\ Len(q) \in Nat
            /\ \A i \in 1..Len(q) : p[i] = q[i]
            /\ p[Len(q) + 1] = n
        BY <3>2, <3>3, <3>5
      <4>2. \A i \in 1..Len(p) : i \in 1..Len(q) \/ i = Len(q) + 1
        BY <4>1
      <4>3. \A i \in 1..Len(p) : Usable(p[i])
        BY <3>4, <3>5, <4>1, <4>2
      <4> QED
        BY <4>3 DEF p
    <3>6. CASE ~Usable(n)
      <4>1. \A i \in 1..Len(p) : Usable(p[i])
        BY <3>3, <3>4, <3>6
      <4> QED
        BY <4>1 DEF p
    <3> QED
      BY <3>5, <3>6
  <2> HIDE DEF P
  <2> QED
    BY <2>1
<1> HIDE DEF T
<1>3. k \in T
  BY <1>1, <1>2, NatInd
<1> QED
  BY <1>3 DEF T

\* The nodes emitted, as they are listed.
LEMMA ProxiesAre ==
  ASSUME ConvertInv
  PROVE  /\ IsSeq(proxies) /\ Len(proxies) \in Nat
         /\ \A i \in 1..Len(proxies) : proxies[i] = WantedOut[i] /\ Sound(proxies[i])
<1>1. PICK k \in 0..Len(input) : proxies = Out(input, k)
  <2>1. CASE layout = "old"
    <3>1. 0 \in 0..Len(input) /\ input \in Seq(Nodes)
      BY DEF ConvertInv
    <3>2. Out(input, 0) = <<>>
      <4>1. Kept(input, 0) = <<>>
        BY FlatNone DEF Kept
      <4>2. Len(Kept(input, 0)) = 0
        BY <4>1
      <4> QED
        BY <4>2 DEF Out
    <3> QED
      BY <2>1, <3>1, <3>2 DEF ConvertInv
  <2>2. CASE layout # "old"
    BY <2>2 DEF ConvertInv, Reading, Emitting
  <2> QED
    BY <2>1, <2>2
<1>2. input \in Seq(Nodes)
  BY DEF ConvertInv
<1> DEFINE q == Kept(input, k)
           w == Wanted
           E == {Emitted(x) : x \in Nodes}
<1>3. q \in Seq(Nodes) /\ w \in Seq(Nodes) /\ Len(input) \in k..Len(input)
  BY <1>2, WantedIs, KeptType
<1>4. Len(q) <= Len(w) /\ \A i \in 1..Len(q) : w[i] = q[i]
  BY <1>2, <1>3, WantedIs, KeptPrefix
<1>5. \A i \in 1..Len(q) : Usable(q[i])
  BY <1>2, KeptUsable
<1>6. /\ proxies = [i \in 1..Len(q) |-> Emitted(q[i])]
      /\ WantedOut = [i \in 1..Len(w) |-> Emitted(w[i])]
  BY <1>1 DEF Out, WantedOut
<1>7. \A x \in Nodes : Emitted(x) \in E
  OBVIOUS
<1> HIDE DEF q, w, E
<1>8. Len(q) \in Nat /\ 1..Len(q) \subseteq 1..Len(w) /\ \A i \in 1..Len(q) : q[i] \in Nodes
  BY <1>3, <1>4
<1>9. proxies \in Seq(E) /\ Len(proxies) = Len(q)
  BY <1>6, <1>7, <1>8
<1>10. ASSUME NEW i \in 1..Len(proxies)
       PROVE  proxies[i] = WantedOut[i] /\ Sound(proxies[i])
  <2>1. i \in 1..Len(q) /\ i \in 1..Len(w)
    BY <1>8, <1>9
  <2>2. proxies[i] = Emitted(q[i]) /\ WantedOut[i] = Emitted(w[i]) /\ w[i] = q[i]
    BY <1>4, <1>6, <2>1
  <2> DEFINE n == q[i]
             p == proxies[i]
  <2>3. n \in Nodes /\ Usable(n)
    BY <1>5, <1>8, <2>1
  <2>4. p = Emitted(n)
    BY <2>2
  <2> HIDE DEF n, p
  <2>5. /\ p.server = n.server /\ p.port = n.port /\ p.cipher = n.cipher
        /\ p.password = n.password
    BY <2>4 DEF Emitted
  <2>6. Sound(p)
    BY <2>3, <2>5, UsableAssumption DEF Sound
  <2> QED
    BY <2>2, <2>6 DEF p
<1> QED
  BY <1>8, <1>9, <1>10 DEF IsSeq

\* resolv() accepts just the hosts that have one address, and answers with it.
LEMMA ResolvesOne ==
  ASSUME NEW p, Sound(p)
  PROVE  /\ Resolves(p.server) <=> Len(Addresses[p.server]) = 1
         /\ Len(Addresses[p.server]) = 1 =>
              /\ resolv(p.server) = Addresses[p.server][1]
              /\ Addresses[p.server][1] # ""
<1> DEFINE h == p.server
           a == Addresses[h]
           r == getaddrinfo(h)
<1>1. a \in Seq(STRING) /\ \A i \in 1..Len(a) : a[i] \notin {"", "0.0.0.0"}
  BY DEF Sound
<1>2. r = [i \in 1..3 * Len(a) |-> [socktype  |-> SockTypes[((i - 1) % 3) + 1],
                                    addr      |-> a[((i - 1) \div 3) + 1],
                                    canonname |-> i = 1]]
  BY DEF getaddrinfo
<1>3. /\ Resolves(h) <=> (/\ Len(r) = 3
                          /\ \A i \in 1..3 :
                               /\ r[i].socktype = SockTypes[i]
                               /\ r[i].addr # "0.0.0.0" /\ r[i].addr = r[1].addr
                               /\ r[i].canonname <=> i = 1)
      /\ resolv(h) = r[1].addr
  BY DEF Resolves, resolv
<1>3a. Addresses[p.server] = a /\ p.server = h
  OBVIOUS
<1> HIDE DEF r, a, h
<1>4. Len(a) \in Nat /\ Len(r) = 3 * Len(a)
  <2> DEFINE e(i) == [socktype  |-> SockTypes[((i - 1) % 3) + 1],
                      addr      |-> a[((i - 1) \div 3) + 1],
                      canonname |-> i = 1]
             m == 3 * Len(a)
  <2>1. Len(a) \in Nat
    <3> DEFINE S == STRING
    <3>1. a \in Seq(S)
      BY <1>1
    <3> HIDE DEF S
    <3> QED
      BY <3>1
  <2>2. m \in Nat
    BY <2>1
  <2>3. r = [i \in 1..m |-> e(i)]
    BY <1>2
  <2> HIDE DEF e, m
  <2>4. Len(r) = m
    BY <2>2, <2>3
  <2> QED
    BY <2>1, <2>4 DEF m
<1>5. Resolves(h) => Len(a) = 1
  <2> DEFINE l == Len(a)
             k == Len(r)
  <2>1. l \in Nat /\ k = 3 * l /\ (Resolves(h) => k = 3)
    BY <1>3, <1>4
  <2> HIDE DEF l, k
  <2>2. k = 3 => l = 1
    BY <2>1
  <2> QED
    BY <2>1, <2>2 DEF l
<1>6. ASSUME Len(a) = 1
      PROVE  Resolves(h) /\ resolv(h) = a[1] /\ a[1] # ""
  <2>1. \A i \in 1..3 : ((i - 1) \div 3) + 1 = 1 /\ ((i - 1) % 3) + 1 = i
    <3> SUFFICES ASSUME NEW i \in 1..3
                 PROVE  ((i - 1) \div 3) + 1 = 1 /\ ((i - 1) % 3) + 1 = i
      OBVIOUS
    <3>1. i = 1 \/ i = 2 \/ i = 3
      OBVIOUS
    <3> QED
      BY <3>1
  <2>2. 3 * Len(a) = 3
    BY <1>6
  <2>3. \A i \in 1..3 : r[i] = [socktype  |-> SockTypes[((i - 1) % 3) + 1],
                                addr      |-> a[((i - 1) \div 3) + 1],
                                canonname |-> i = 1]
    BY <1>2, <2>2
  <2>4. \A i \in 1..3 : r[i].socktype = SockTypes[i] /\ r[i].addr = a[1]
                        /\ (r[i].canonname <=> i = 1)
    <3> SUFFICES ASSUME NEW i \in 1..3
                 PROVE  r[i].socktype = SockTypes[i] /\ r[i].addr = a[1]
                        /\ (r[i].canonname <=> i = 1)
      OBVIOUS
    <3> DEFINE x == ((i - 1) % 3) + 1
               y == ((i - 1) \div 3) + 1
               b == i = 1
    <3>1. r[i] = [socktype |-> SockTypes[x], addr |-> a[y], canonname |-> b]
      BY <2>3
    <3>2. x = i /\ y = 1
      BY <2>1
    <3> HIDE DEF x, y, b
    <3>3. r[i].socktype = SockTypes[i] /\ r[i].addr = a[1]
      BY <3>1, <3>2
    <3>4. r[i].canonname = b
      BY <3>1
    <3> QED
      BY <3>3, <3>4, Zenon DEF b
  <2>5. a[1] \notin {"", "0.0.0.0"}
    <3>1. 1 \in 1..Len(a)
      BY <1>6
    <3> QED
      BY <1>1, <3>1
  <2>6. 1 \in 1..3 /\ Len(r) = 3
    BY <1>4, <1>6
  <2> QED
    BY <1>3, <2>4, <2>5, <2>6
<1> QED
  BY <1>3a, <1>5, <1>6

\* No node before the i-th has the name t, and the i-th is the first that has.
Missed(ps, t, i) == \A h \in 1..(i - 1) : ps[h].name # t

First(ps, t, i) == i \in 1..Len(ps) /\ ps[i].name = t /\ Missed(ps, t, i)

\* The node that clash means is that one.
LEMMA FirstIsNamed ==
  ASSUME ConvertInv, NEW i, First(proxies, title, i)
  PROVE  Named # {} /\ NamedNode = proxies[i]
<1>1. i \in 1..Len(proxies) /\ Len(proxies) \in Nat /\ proxies[i] = WantedOut[i]
  BY ProxiesAre DEF First
<1>2. i \in Named
  BY <1>1 DEF Named, First
<1>3. \A j \in Named : i <= j
  <2> SUFFICES ASSUME NEW j \in Named PROVE i <= j
    OBVIOUS
  <2>1. j \in 1..Len(proxies) /\ proxies[j].name = title
    BY DEF Named
  <2>2. ~(j \in 1..(i - 1))
    BY <2>1 DEF First, Missed
  <2> QED
    BY <1>1, <2>1, <2>2
<1>4. Named \subseteq 1..Len(proxies)
  BY DEF Named
<1> DEFINE m == CHOOSE x \in Named : \A j \in Named : x <= j
<1>5. m \in Named /\ \A j \in Named : m <= j
  BY <1>2, <1>3
<1> HIDE DEF m
<1>6. m = i
  BY <1>1, <1>2, <1>3, <1>4, <1>5
<1> QED
  BY <1>1, <1>2, <1>6 DEF NamedNode, m

\* Where no node of that name is, clash means none of them.
LEMMA NoneNamed ==
  ASSUME Len(proxies) \in Nat, Missed(proxies, title, Len(proxies) + 1)
  PROVE  Named = {}
<1>1. (Len(proxies) + 1) - 1 = Len(proxies)
  OBVIOUS
<1> QED
  BY <1>1 DEF Missed, Named

\* yaml2profile() is at the j-th token of the stream, before the cut.
Place(a, j, n, ps, t) ==
  \/ a = "header" /\ j \in 2..7
  \/ /\ a \in {"first", "entry"}
     /\ \E i \in 1..(Len(ps) + 1) : j = 10 * i - 2 /\ j <= n + 1 /\ Missed(ps, t, i)
  \/ /\ a = "name"
     /\ \E i \in 1..Len(ps) : j = 10 * i /\ j <= n + 1 /\ Missed(ps, t, i)
  \/ /\ a = "skip"
     /\ \E i \in 1..Len(ps) : \E m \in 4..10 :
          j = 10 * i - 3 + m /\ j <= n + 1 /\ Missed(ps, t, i + 1)
  \/ /\ a = "found"
     /\ \E i \in 1..Len(ps) : j = 10 * i + 1 /\ j <= n + 1 /\ First(ps, t, i)

\* Or past the cut, where nothing can be found.
Past(a, j, n, g) == g = "cut" /\ a \in {"first", "entry", "skip", "found"} /\ j >= n + 2

\* The values of yat before yaml2profile() has found anything.
LookingUp == {"header", "first", "entry", "name", "skip", "found"}

\* It has its place in the stream that was opened.
Looking ==
  \E c, n : \E j \in Nat \ {0} :
    /\ Opened(c, n, proxies, title, got) /\ yfile = Rest(c, j)
    /\ Place(yat, j, n, proxies, title) \/ Past(yat, j, n, got)

\* A token before the cut is the one that was written.
LEMMA TokenWithin ==
  ASSUME NEW c, NEW n, NEW ps, NEW t, NEW g, Opened(c, n, ps, t, g), NEW j \in Nat \ {0},
         j <= n
  PROVE  j <= Len(c) /\ c[j] = Written(ps)[j] /\ Read(c, j) = Written(ps)[j]
<1>1. PICK S : c \in Seq(S)
  BY DEF Opened, IsSeq
<1>2. n \in Int /\ Len(c) \in Nat /\ n <= Len(c)
  BY <1>1 DEF Opened
<1>3. j \in 1..n /\ j <= Len(c)
  BY <1>2
<1> QED
  BY <1>3 DEF Opened, Read

\* After the token at the cut there are only ENDs.
LEMMA TokenPast ==
  ASSUME NEW c, NEW n, NEW ps, NEW t, Opened(c, n, ps, t, "cut"), NEW j \in Nat \ {0},
         j >= n + 2
  PROVE  Read(c, j) \in {END, NONE} /\ (j <= Len(c) => c[j] = END)
<1>1. PICK S : c \in Seq(S)
  BY DEF Opened, IsSeq
<1>2. n \in Int /\ Len(c) \in Nat
  BY <1>1 DEF Opened
<1>3. j <= Len(c) => j \in (n + 2)..Len(c)
  BY <1>2
<1> QED
  BY <1>3 DEF Opened, Read

\* "Skip general config" ends at the key "proxies".
LEMMA SkipConfigStep ==
  ASSUME Len(proxies) \in Nat, Looking, SkipConfig, UNCHANGED <<proxies, title, got>>
  PROVE  yat' \in {"header", "first"} /\ Looking'
<1>1. yat = "header"
  BY DEF SkipConfig
<1>2. PICK c, n : \E j \in Nat \ {0} :
        /\ Opened(c, n, proxies, title, got) /\ yfile = Rest(c, j)
        /\ Place(yat, j, n, proxies, title) \/ Past(yat, j, n, got)
  BY DEF Looking
<1>3. PICK j \in Nat \ {0} :
        /\ Opened(c, n, proxies, title, got) /\ yfile = Rest(c, j)
        /\ Place(yat, j, n, proxies, title) \/ Past(yat, j, n, got)
  BY <1>2
<1>4. j \in 2..7 /\ n \in Int /\ 7 <= n
  BY <1>1, <1>3 DEF Place, Past, Opened
<1>5. IsSeq(c)
  BY <1>3 DEF Opened
<1>6. YToken = Read(c, j) /\ Drop(yfile) = Rest(c, j + 1)
  BY <1>3, <1>5, RestRead DEF YToken
<1>7. Read(c, j) = Written(proxies)[j]
  BY <1>3, <1>4, TokenWithin
<1>8. /\ \A i \in 1..6 : Written(proxies)[i] \notin {KEY("proxies"), ERROR}
      /\ Written(proxies)[7] = KEY("proxies")
  BY WrittenIs
<1>9. KEY("proxies") # ERROR
  BY Tokens
<1>10. Opened(c, n, proxies, title, got)'
  BY <1>3
<1>11. j + 1 \in Nat \ {0}
  OBVIOUS
<1>12. CASE j = 7
  <2>1. yat' = "first" /\ yfile' = Rest(c, j + 1)
    BY <1>6, <1>7, <1>8, <1>9, <1>12 DEF SkipConfig, YReadThen
  <2>2. 1 \in 1..(Len(proxies) + 1) /\ j + 1 = 10 * 1 - 2 /\ j + 1 <= n + 1
    BY <1>4, <1>12
  <2>3. Missed(proxies, title, 1)
    BY DEF Missed
  <2>4. Place("first", j + 1, n, proxies, title)
    BY <2>2, <2>3 DEF Place
  <2>5. Place(yat, j + 1, n, proxies, title)'
    BY <2>1, <2>4
  <2> QED
    BY <1>10, <1>11, <2>1, <2>5 DEF Looking
<1>13. CASE j # 7
  <2>1. j \in 1..6 /\ j + 1 \in 2..7
    BY <1>4, <1>13
  <2>2. yat' = "header" /\ yfile' = Rest(c, j + 1)
    BY <1>6, <1>7, <1>8, <2>1 DEF SkipConfig, YReadThen
  <2>3. Place("header", j + 1, n, proxies, title)
    BY <2>1 DEF Place
  <2>4. Place(yat, j + 1, n, proxies, title)'
    BY <2>2, <2>3
  <2> QED
    BY <1>10, <1>11, <2>2, <2>4 DEF Looking
<1> QED
  BY <1>12, <1>13

\* A node is entered, or there is none of that name any more: the list is over, or cut.
LEMMA EnterNodeStep ==
  ASSUME Len(proxies) \in Nat, got \in {"whole", "cut"}, Looking, EnterNode,
         UNCHANGED <<proxies, title, got>>
  PROVE  \/ yat' = "name" /\ Looking'
         \/ yat' = "abort" /\ (got = "whole" => Missed(proxies, title, Len(proxies) + 1))
<1>1. yat \in {"first", "entry"}
  BY DEF EnterNode
<1>2. PICK c, n : \E j \in Nat \ {0} :
        /\ Opened(c, n, proxies, title, got) /\ yfile = Rest(c, j)
        /\ Place(yat, j, n, proxies, title) \/ Past(yat, j, n, got)
  BY DEF Looking
<1>3. PICK j \in Nat \ {0} :
        /\ Opened(c, n, proxies, title, got) /\ yfile = Rest(c, j)
        /\ Place(yat, j, n, proxies, title) \/ Past(yat, j, n, got)
  BY <1>2
<1>4. IsSeq(c) /\ n \in 7..(10 * Len(proxies) + 7)
  BY <1>3 DEF Opened
<1>5. YToken = Read(c, j) /\ Drop(yfile) = Rest(c, j + 1)
  BY <1>3, <1>4, RestRead DEF YToken
<1>6. Peek(Drop(yfile)) = Read(c, j + 1) /\ Drop(Drop(yfile)) = Rest(c, j + 2)
  <2>1. j + 1 \in Nat \ {0} /\ (j + 1) + 1 = j + 2
    OBVIOUS
  <2>2. Peek(Rest(c, j + 1)) = Read(c, j + 1) /\ Drop(Rest(c, j + 1)) = Rest(c, (j + 1) + 1)
    BY <1>4, <2>1, RestRead
  <2> QED
    BY <1>5, <2>1, <2>2
<1>7. /\ ENTRY \notin {END, NONE, KEY("proxy-groups"), FLOW}
  BY Tokens
<1>8. yat' = "name" \/ yat' = "abort"
  BY DEF EnterNode, YAbort
<1>9. CASE yat' = "name"
  <2>1. Read(c, j) = ENTRY /\ Read(c, j + 1) = MAP /\ yfile' = Rest(c, j + 2)
    BY <1>5, <1>6, <1>9 DEF EnterNode, YAbort
  <2>2. ~Past(yat, j, n, got)
    <3> SUFFICES ASSUME Past(yat, j, n, got) PROVE FALSE
      OBVIOUS
    <3>1. Read(c, j) \in {END, NONE}
      BY <1>3, TokenPast DEF Past
    <3> QED
      BY <1>7, <2>1, <3>1
  <2>3. PICK i \in 1..(Len(proxies) + 1) :
          j = 10 * i - 2 /\ j <= n + 1 /\ Missed(proxies, title, i)
    BY <1>1, <1>3, <2>2 DEF Place
  <2>4. j # n + 1
    <3>1. CASE got = "whole"
      <4>1. Read(c, n + 1) \in {KEY("proxy-groups"), FLOW}
        BY <1>3, <3>1 DEF Opened
      <4> QED
        BY <1>7, <2>1, <4>1
    <3>2. CASE got = "cut"
      <4>1. Read(c, n + 1) # ENTRY
        BY <1>3, <3>2, FrayedIs DEF Opened
      <4> QED
        BY <2>1, <4>1
    <3> QED
      BY <3>1, <3>2
  <2>5. j + 1 # n + 1
    <3>1. CASE got = "whole"
      <4>1. n = 10 * Len(proxies) + 7
        BY <1>3, <3>1 DEF Opened
      <4>2. j # n
        BY <2>3, <4>1
      <4> QED
        BY <1>4, <4>2
    <3>2. CASE got = "cut"
      <4>1. Read(c, n + 1) # MAP
        BY <1>3, <3>2, FrayedIs DEF Opened
      <4> QED
        BY <2>1, <4>1
    <3> QED
      BY <3>1, <3>2
  <2>6. i \in 1..Len(proxies) /\ j + 2 = 10 * i /\ j + 2 <= n + 1 /\ j + 2 \in Nat \ {0}
    BY <1>4, <2>3, <2>4, <2>5
  <2>7. Place("name", j + 2, n, proxies, title)
    BY <2>3, <2>6 DEF Place
  <2>8. Place(yat, j + 2, n, proxies, title)'
    BY <1>9, <2>7
  <2>9. Opened(c, n, proxies, title, got)'
    BY <1>3
  <2> QED
    BY <1>9, <2>1, <2>6, <2>8, <2>9 DEF Looking
<1>10. CASE yat' = "abort"
  <2> SUFFICES ASSUME got = "whole" PROVE Missed(proxies, title, Len(proxies) + 1)
    BY <1>10
  <2>1. PICK i \in 1..(Len(proxies) + 1) :
          j = 10 * i - 2 /\ j <= n + 1 /\ Missed(proxies, title, i)
    BY <1>1, <1>3 DEF Place, Past
  <2>2. CASE i = Len(proxies) + 1
    BY <2>1, <2>2
  <2>3. CASE i # Len(proxies) + 1
    <3>1. i \in 1..Len(proxies) /\ n = 10 * Len(proxies) + 7
      BY <1>3, <2>3 DEF Opened
    <3>2. j <= n /\ j + 1 <= n /\ j + 1 = 10 * i - 1 /\ j + 1 \in Nat \ {0}
      BY <2>1, <3>1
    <3>3. Read(c, j) = Written(proxies)[10 * i - 2]
      BY <1>3, <2>1, <3>2, TokenWithin
    <3>4. Read(c, j + 1) = Written(proxies)[10 * i - 1]
      BY <1>3, <3>2, TokenWithin
    <3>5. Written(proxies)[10 * i - 2] = ENTRY /\ Written(proxies)[10 * i - 1] = MAP
      BY <3>1, OpenedNode
    <3> QED
      BY <1>5, <1>6, <1>10, <3>3, <3>4, <3>5 DEF EnterNode
  <2> QED
    BY <2>2, <2>3
<1> QED
  BY <1>8, <1>9, <1>10

\* The name of a node decides, and only a name that is cut may be taken for it.
LEMMA CompareNameStep ==
  ASSUME Len(proxies) \in Nat, got \in {"whole", "cut"}, Looking, CompareName,
         UNCHANGED <<proxies, title, got>>
  PROVE  \/ yat' \in {"found", "skip"} /\ Looking'
         \/ yat' = "abort" /\ got = "cut"
<1>1. yat = "name"
  BY DEF CompareName
<1>2. PICK c, n : \E j \in Nat \ {0} :
        /\ Opened(c, n, proxies, title, got) /\ yfile = Rest(c, j)
        /\ Place(yat, j, n, proxies, title) \/ Past(yat, j, n, got)
  BY DEF Looking
<1>3. PICK j \in Nat \ {0} :
        /\ Opened(c, n, proxies, title, got) /\ yfile = Rest(c, j)
        /\ Place(yat, j, n, proxies, title) \/ Past(yat, j, n, got)
  BY <1>2
<1>4. IsSeq(c) /\ n \in 7..(10 * Len(proxies) + 7)
  BY <1>3 DEF Opened
<1>5. YToken = Read(c, j) /\ Drop(yfile) = Rest(c, j + 1)
  BY <1>3, <1>4, RestRead DEF YToken
<1>6. PICK i \in 1..Len(proxies) :
        j = 10 * i /\ j <= n + 1 /\ Missed(proxies, title, i)
  BY <1>1, <1>3 DEF Place, Past
<1>7. Opened(c, n, proxies, title, got)' /\ j + 1 \in Nat \ {0}
  BY <1>3
<1>8. CASE j <= n
  <2>1. YToken = PAIR("name", proxies[i].name)
    <3>1. YToken = Written(proxies)[j]
      BY <1>3, <1>5, <1>8, TokenWithin
    <3>2. Written(proxies)[10 * i] = PAIR("name", proxies[i].name)
      BY OpenedNode
    <3> QED
      BY <1>6, <3>1, <3>2
  <2>2. YToken.t = "PAIR" /\ YToken.k = "name" /\ YToken.v = proxies[i].name
    BY <2>1, Tokens
  <2>3. /\ yfile' = Rest(c, j + 1)
        /\ yat' = IF proxies[i].name = title THEN "found" ELSE "skip"
    BY <1>5, <2>2 DEF CompareName, YReadThen
  <2>4. j + 1 = 10 * i + 1 /\ j + 1 = 10 * i - 3 + 4 /\ j + 1 <= n + 1
    BY <1>4, <1>6, <1>8
  <2>5. CASE proxies[i].name = title
    <3>1. First(proxies, title, i)
      BY <1>6, <2>5 DEF First
    <3>2. Place("found", j + 1, n, proxies, title)
      BY <2>4, <3>1 DEF Place
    <3>3. Place(yat, j + 1, n, proxies, title)'
      BY <2>3, <2>5, <3>2
    <3> QED
      BY <1>7, <2>3, <2>5, <3>3 DEF Looking
  <2>6. CASE proxies[i].name # title
    <3>1. Missed(proxies, title, i + 1)
      <4>1. \A h \in 1..((i + 1) - 1) : h \in 1..(i - 1) \/ h = i
        OBVIOUS
      <4> QED
        BY <1>6, <2>6, <4>1 DEF Missed
    <3>2. Place("skip", j + 1, n, proxies, title)
      <4>1. 4 \in 4..10
        OBVIOUS
      <4> QED
        BY <2>4, <3>1, <4>1 DEF Place
    <3>3. Place(yat, j + 1, n, proxies, title)'
      BY <2>3, <2>6, <3>2
    <3> QED
      BY <1>7, <2>3, <2>6, <3>3 DEF Looking
  <2> QED
    BY <2>5, <2>6
<1>9. CASE ~(j <= n)
  <2>1. j = n + 1
    BY <1>4, <1>6, <1>9
  <2>2. got = "cut"
    <3>1. got = "whole" => n = 10 * Len(proxies) + 7
      BY <1>3 DEF Opened
    <3> QED
      BY <1>6, <1>9, <3>1
  <2>3. Frayed(YToken, title)
    BY <1>3, <1>5, <2>1, <2>2 DEF Opened
  <2>4. CASE yat' = "abort"
    BY <2>2, <2>4
  <2>5. CASE yat' # "abort"
    <3>1. /\ yat' \in {"found", "skip"} /\ yfile' = Rest(c, j + 1)
      BY <1>5, <2>5 DEF CompareName, YReadThen, YAbort
    <3>2. j + 1 >= n + 2
      BY <1>4, <2>1
    <3>3. Past(yat, j + 1, n, got)'
      BY <2>2, <3>1, <3>2 DEF Past
    <3> QED
      BY <1>7, <3>1, <3>3 DEF Looking
  <2> QED
    BY <2>4, <2>5
<1> QED
  BY <1>8, <1>9

\* Another node is skipped up to its END, which a cut may hide.
LEMMA LookupSkipStep ==
  ASSUME Len(proxies) \in Nat, got \in {"whole", "cut"}, Looking, SkipNode,
         UNCHANGED <<proxies, title, got>>
  PROVE  \/ yat' \in {"skip", "entry"} /\ Looking'
         \/ yat' = "abort" /\ got = "cut"
<1>1. yat = "skip"
  BY DEF SkipNode
<1>2. PICK c, n : \E j \in Nat \ {0} :
        /\ Opened(c, n, proxies, title, got) /\ yfile = Rest(c, j)
        /\ Place(yat, j, n, proxies, title) \/ Past(yat, j, n, got)
  BY DEF Looking
<1>3. PICK j \in Nat \ {0} :
        /\ Opened(c, n, proxies, title, got) /\ yfile = Rest(c, j)
        /\ Place(yat, j, n, proxies, title) \/ Past(yat, j, n, got)
  BY <1>2
<1>4. IsSeq(c) /\ n \in 7..(10 * Len(proxies) + 7)
  BY <1>3 DEF Opened
<1>5. YToken = Read(c, j) /\ Drop(yfile) = Rest(c, j + 1)
  BY <1>3, <1>4, RestRead DEF YToken
<1>6. Opened(c, n, proxies, title, got)' /\ j + 1 \in Nat \ {0}
  BY <1>3
<1>7. ASSUME got = "cut", j + 1 >= n + 2
      PROVE  (yat' \in {"skip", "entry"} /\ Looking') \/ yat' = "abort"
  <2>1. CASE yat' = "abort"
    BY <2>1
  <2>2. CASE yat' # "abort"
    <3>1. yat' \in {"skip", "entry"} /\ yfile' = Rest(c, j + 1)
      BY <1>5, <2>2 DEF SkipNode, YReadThen, YAbort
    <3>2. Past(yat, j + 1, n, got)'
      BY <1>7, <3>1 DEF Past
    <3> QED
      BY <1>6, <3>1, <3>2 DEF Looking
  <2> QED
    BY <2>1, <2>2
<1>8. CASE Past(yat, j, n, got)
  <2>1. got = "cut" /\ j + 1 >= n + 2
    BY <1>4, <1>8 DEF Past
  <2> QED
    BY <1>7, <2>1
<1>9. CASE Place(yat, j, n, proxies, title)
  <2>1. PICK i \in 1..Len(proxies) : \E m \in 4..10 :
          j = 10 * i - 3 + m /\ j <= n + 1 /\ Missed(proxies, title, i + 1)
    BY <1>1, <1>9 DEF Place
  <2>2. PICK m \in 4..10 :
          j = 10 * i - 3 + m /\ j <= n + 1 /\ Missed(proxies, title, i + 1)
    BY <2>1
  <2>3. CASE j <= n
    <3>1. YToken = Written(proxies)[10 * i - 3 + m]
      BY <1>3, <1>5, <2>2, <2>3, TokenWithin
    <3>2. CASE m = 10
      <4>1. 10 * i - 3 + 10 = 10 * i + 7
        OBVIOUS
      <4>2. YToken = END
        BY <3>1, <3>2, <4>1, OpenedNode
      <4>3. END # ERROR
        BY Tokens
      <4>4. yat' = "entry" /\ yfile' = Rest(c, j + 1)
        BY <1>5, <4>2, <4>3 DEF SkipNode, YReadThen
      <4>5. i + 1 \in 1..(Len(proxies) + 1) /\ j + 1 = 10 * (i + 1) - 2 /\ j + 1 <= n + 1
        BY <1>4, <2>2, <2>3, <3>2
      <4>6. Place("entry", j + 1, n, proxies, title)
        BY <2>2, <4>5 DEF Place
      <4>7. Place(yat, j + 1, n, proxies, title)'
        BY <4>4, <4>6
      <4> QED
        BY <1>6, <4>4, <4>7 DEF Looking
    <3>3. CASE m # 10
      <4>1. m \in 4..9 /\ m + 1 \in 4..10
        BY <3>3
      <4>2. YToken \notin {END, ERROR}
        BY <3>1, <4>1, OpenedNode
      <4>3. yat' = "skip" /\ yfile' = Rest(c, j + 1)
        BY <1>5, <4>2 DEF SkipNode, YReadThen
      <4>4. j + 1 = 10 * i - 3 + (m + 1) /\ j + 1 <= n + 1
        BY <1>4, <2>2, <2>3
      <4>5. Place("skip", j + 1, n, proxies, title)
        BY <2>2, <4>1, <4>4 DEF Place
      <4>6. Place(yat, j + 1, n, proxies, title)'
        BY <4>3, <4>5
      <4> QED
        BY <1>6, <4>3, <4>6 DEF Looking
    <3> QED
      BY <3>2, <3>3
  <2>4. CASE ~(j <= n)
    <3>1. j + 1 >= n + 2
      BY <1>4, <2>2, <2>4
    <3>2. got = "cut"
      <4>1. got = "whole" => n = 10 * Len(proxies) + 7
        BY <1>3 DEF Opened
      <4> QED
        BY <2>2, <2>4, <4>1
    <3> QED
      BY <1>7, <3>1, <3>2
  <2> QED
    BY <2>3, <2>4
<1> QED
  BY <1>3, <1>8, <1>9

\* What is left of a stream, element by element.
LEMMA RestAt ==
  ASSUME NEW c, IsSeq(c), NEW j \in Nat \ {0}, NEW i \in Nat \ {0}
  PROVE  /\ i <= Len(Rest(c, j)) <=> j + i - 1 <= Len(c)
         /\ i <= Len(Rest(c, j)) => Rest(c, j)[i] = Read(c, j + i - 1)
<1>1. PICK S : c \in Seq(S)
  BY DEF IsSeq
<1>2. Len(c) \in Nat
  BY <1>1
<1> DEFINE r == Rest(c, j)
           k == j + i - 1
<1>3. CASE j <= Len(c)
  <2>1. Len(r) = Len(c) - j + 1 /\ \A m \in 1..(Len(c) - j + 1) : r[m] = c[j + m - 1]
    BY <1>1, <1>2, <1>3 DEF Rest
  <2> HIDE DEF r
  <2>2. i <= Len(r) <=> k <= Len(c)
    BY <1>2, <2>1
  <2>3. ASSUME i <= Len(r) PROVE r[i] = Read(c, k)
    <3>1. i \in 1..(Len(c) - j + 1)
      BY <1>2, <2>1, <2>3
    <3>2. r[i] = c[j + i - 1]
      BY <2>1, <3>1
    <3>3. k <= Len(c)
      BY <2>2, <2>3
    <3> QED
      BY <3>2, <3>3 DEF Read
  <2> QED
    BY <2>2, <2>3 DEF r
<1>4. CASE ~(j <= Len(c))
  <2>1. r = <<>>
    BY <1>1, <1>2, <1>4 DEF Rest
  <2>2. Len(r) = 0
    <3>1. Len(<<>>) = 0
      OBVIOUS
    <3> QED
      BY <2>1, <3>1
  <2> HIDE DEF r
  <2>3. ~(i <= Len(r)) /\ ~(k <= Len(c))
    BY <1>2, <1>4, <2>2
  <2> QED
    BY <2>3 DEF r
<1> QED
  BY <1>3, <1>4

\* What CopyNode asserts of the tokens y.
Copies(y, r) ==
  /\ \A i \in 1..6 :
       (IF i <= Len(y) THEN y[i].k ELSE "")
         = <<"type", "server", "port", "cipher", "password", "udp">>[i]
  /\ y[1].v = "ss" /\ y[6].v = "true"
  /\ y[2].v # "" /\ y[3].v # "" /\ Atoi[y[3].v] >= 1
  /\ r => Resolves(y[2].v)
  /\ Len(y) >= 7 /\ y[7] = END

\* CopyNode in these terms.
LEMMA CopyNodeIs ==
  ASSUME CopyNode
  PROVE  /\ yat = "found"
         /\ Copies(yfile, resolve_domain) =>
              /\ profile' = [remote_host |-> IF resolve_domain THEN resolv(yfile[2].v)
                                             ELSE yfile[2].v,
                             remote_port |-> Atoi[yfile[3].v],
                             method      |-> yfile[4].v,
                             password    |-> yfile[5].v]
              /\ yat' = "done"
         /\ ~Copies(yfile, resolve_domain) => yat' = "abort" /\ UNCHANGED profile
BY Zenon DEF CopyNode, Copies, YAbort

\* The profile that a node makes.
Copied(p, r) ==
  [remote_host |-> IF r THEN Addresses[p.server][1] ELSE p.server,
   remote_port |-> Atoi[p.port], method |-> p.cipher, password |-> p.password]

Found(p, r, f) == f = Copied(p, r) /\ (r => Len(Addresses[p.server]) = 1)

\* The tokens of a node from its type on, where they are all there.
LEMMA NodeCopied ==
  ASSUME NEW p, Sound(p), NEW r, NEW y,
         y[1] = PAIR("type", "ss"), y[2] = PAIR("server", p.server),
         y[3] = PAIR("port", p.port), y[4] = PAIR("cipher", p.cipher),
         y[5] = PAIR("password", p.password), y[6] = PAIR("udp", "true"),
         Len(y) \in Nat, Len(y) >= 6
  PROVE  /\ Len(y) >= 7 /\ y[7] = END =>
              (Copies(y, r) <=> (r => Len(Addresses[p.server]) = 1))
         /\ Copies(y, r) =>
              Found(p, r, [remote_host |-> IF r THEN resolv(y[2].v) ELSE y[2].v,
                           remote_port |-> Atoi[y[3].v],
                           method      |-> y[4].v, password    |-> y[5].v])
<1>1. /\ y[1].k = "type" /\ y[2].k = "server" /\ y[3].k = "port" /\ y[4].k = "cipher"
      /\ y[5].k = "password" /\ y[6].k = "udp"
      /\ y[1].v = "ss" /\ y[2].v = p.server /\ y[3].v = p.port /\ y[4].v = p.cipher
      /\ y[5].v = p.password /\ y[6].v = "true"
  BY Tokens
<1>2. \A i \in 1..6 :
        (IF i <= Len(y) THEN y[i].k ELSE "")
          = <<"type", "server", "port", "cipher", "password", "udp">>[i]
  <2> SUFFICES ASSUME NEW i \in 1..6
               PROVE  (IF i <= Len(y) THEN y[i].k ELSE "")
                        = <<"type", "server", "port", "cipher", "password", "udp">>[i]
    OBVIOUS
  <2>1. i <= Len(y)
    OBVIOUS
  <2>2. i = 1 \/ i = 2 \/ i = 3 \/ i = 4 \/ i = 5 \/ i = 6
    OBVIOUS
  <2> QED
    BY <1>1, <2>1, <2>2
<1>3. p.server # "" /\ p.port # "" /\ Atoi[p.port] >= 1
  <2> DEFINE a == Atoi[p.port]
  <2>1. p.server # "" /\ p.port # ""
    BY DEF Sound
  <2>1a. a \in Nat \ {0}
    BY DEF Sound
  <2> HIDE DEF a
  <2>2. a >= 1
    BY <2>1a
  <2> QED
    BY <2>1, <2>2 DEF a
<1>4. /\ Resolves(p.server) <=> Len(Addresses[p.server]) = 1
      /\ Len(Addresses[p.server]) = 1 => resolv(p.server) = Addresses[p.server][1]
  BY ResolvesOne
<1>5. Len(y) >= 7 /\ y[7] = END => (Copies(y, r) <=> (r => Resolves(p.server)))
  BY <1>1, <1>2, <1>3 DEF Copies
<1>6. Copies(y, r) => (r => Resolves(p.server))
  BY <1>1 DEF Copies
<1>7. ASSUME Copies(y, r)
      PROVE  Found(p, r, [remote_host |-> IF r THEN resolv(y[2].v) ELSE y[2].v,
                          remote_port |-> Atoi[y[3].v],
                          method      |-> y[4].v, password    |-> y[5].v])
  BY <1>1, <1>4, <1>6, <1>7 DEF Found, Copied
<1> QED
  BY <1>4, <1>5, <1>7

\* The six keys and the END: what is found is whole, and a node of the whole file is
\* refused only where its server has not one address.
LEMMA CopyNodeStep ==
  ASSUME Len(proxies) \in Nat, \A i \in 1..Len(proxies) : Sound(proxies[i]),
         got \in {"whole", "cut"}, Looking, CopyNode
  PROVE  \/ /\ yat' = "done"
            /\ \E i : First(proxies, title, i) /\ Found(proxies[i], resolve_domain, profile')
         \/ /\ yat' = "abort"
            /\ got = "whole" =>
                 resolve_domain /\ \E i : /\ First(proxies, title, i)
                                         /\ Len(Addresses[proxies[i].server]) # 1
<1>1. yat = "found"
  BY CopyNodeIs
<1>2. PICK c, n : \E j \in Nat \ {0} :
        /\ Opened(c, n, proxies, title, got) /\ yfile = Rest(c, j)
        /\ Place(yat, j, n, proxies, title) \/ Past(yat, j, n, got)
  BY DEF Looking
<1>3. PICK j \in Nat \ {0} :
        /\ Opened(c, n, proxies, title, got) /\ yfile = Rest(c, j)
        /\ Place(yat, j, n, proxies, title) \/ Past(yat, j, n, got)
  BY <1>2
<1>4. IsSeq(c) /\ n \in 7..(10 * Len(proxies) + 7)
  BY <1>3 DEF Opened
<1> DEFINE y == yfile
<1>5. Len(y) \in Nat
  <2>1. PICK S : c \in Seq(S)
    BY <1>4 DEF IsSeq
  <2>2. Rest(c, j) \in Seq(S)
    BY <2>1 DEF Rest
  <2>3. Len(Rest(c, j)) \in Nat
    BY <2>2
  <2> QED
    BY <1>3, <2>3
<1>6. ASSUME NEW i \in Nat \ {0}
      PROVE  /\ i <= Len(y) <=> j + i - 1 <= Len(c)
             /\ i <= Len(y) => y[i] = Read(c, j + i - 1)
  BY <1>3, <1>4, RestAt
<1>6a. y = yfile
  OBVIOUS
<1> HIDE DEF y
\* A node that is all there up to its key "udp".
<1>7. ASSUME NEW i \in 1..Len(proxies), j = 10 * i + 1, 10 * i + 6 <= n
      PROVE  LET p == proxies[i]
             IN  /\ y[1] = PAIR("type", "ss") /\ y[2] = PAIR("server", p.server)
                 /\ y[3] = PAIR("port", p.port) /\ y[4] = PAIR("cipher", p.cipher)
                 /\ y[5] = PAIR("password", p.password) /\ y[6] = PAIR("udp", "true")
                 /\ Len(y) >= 6
                 /\ 10 * i + 7 <= n => Len(y) >= 7 /\ y[7] = END
  <2> DEFINE w == Written(proxies)
  <2>1. ASSUME NEW m \in 1..7, j + m - 1 <= n
        PROVE  m <= Len(y) /\ y[m] = w[10 * i + m]
    <3>1. j + m - 1 \in Nat \ {0} /\ j + m - 1 = 10 * i + m
      BY <1>7
    <3>2. j + m - 1 <= Len(c) /\ Read(c, j + m - 1) = w[j + m - 1]
      BY <1>3, <2>1, <3>1, TokenWithin
    <3>3. m <= Len(y) /\ y[m] = Read(c, j + m - 1)
      <4>1. m \in Nat \ {0}
        OBVIOUS
      <4> QED
        BY <1>6, <3>2, <4>1
    <3> QED
      BY <3>1, <3>2, <3>3
  <2>2. \A m \in 1..6 : j + m - 1 <= n
    BY <1>4, <1>7
  <2>3. \A m \in 1..6 : m <= Len(y) /\ y[m] = w[10 * i + m]
    <3> SUFFICES ASSUME NEW m \in 1..6 PROVE m <= Len(y) /\ y[m] = w[10 * i + m]
      OBVIOUS
    <3>1. m \in 1..7 /\ j + m - 1 <= n
      BY <2>2
    <3> QED
      BY <2>1, <3>1
  <2>4. /\ y[1] = w[10 * i + 1] /\ y[2] = w[10 * i + 2] /\ y[3] = w[10 * i + 3]
        /\ y[4] = w[10 * i + 4] /\ y[5] = w[10 * i + 5] /\ y[6] = w[10 * i + 6]
        /\ 6 <= Len(y)
    BY <2>3
  <2>5. 10 * i + 7 <= n => 7 <= Len(y) /\ y[7] = w[10 * i + 7]
    <3>1. 10 * i + 7 <= n => j + 7 - 1 <= n
      BY <1>4, <1>7
    <3> QED
      BY <2>1, <3>1
  <2>6. /\ w[10 * i + 1] = PAIR("type", "ss")
        /\ w[10 * i + 2] = PAIR("server", proxies[i].server)
        /\ w[10 * i + 3] = PAIR("port", proxies[i].port)
        /\ w[10 * i + 4] = PAIR("cipher", proxies[i].cipher)
        /\ w[10 * i + 5] = PAIR("password", proxies[i].password)
        /\ w[10 * i + 6] = PAIR("udp", "true")
        /\ w[10 * i + 7] = END
    BY OpenedNode
  <2> HIDE DEF w
  <2> QED
    BY <1>5, <2>4, <2>5, <2>6
<1>8. CASE Copies(y, resolve_domain)
  <2>1. 6 <= Len(y) /\ y[6].k = "udp" /\ y[6].v = "true"
    <3>1. (IF 6 <= Len(y) THEN y[6].k ELSE "") = "udp"
      <4>1. 6 \in 1..6
        OBVIOUS
      <4>2. <<"type", "server", "port", "cipher", "password", "udp">>[6] = "udp"
        OBVIOUS
      <4>3. (IF 6 <= Len(y) THEN y[6].k ELSE "")
              = <<"type", "server", "port", "cipher", "password", "udp">>[6]
        BY <1>8, <4>1, Zenon DEF Copies
      <4> QED
        BY <4>2, <4>3
    <3> QED
      BY <1>8, <3>1 DEF Copies
  <2>2. j + 5 \in Nat \ {0} /\ y[6] = Read(c, j + 5)
    <3>1. j + 6 - 1 = j + 5 /\ 6 \in Nat \ {0} /\ j + 5 \in Nat \ {0}
      OBVIOUS
    <3>2. y[6] = Read(c, j + 6 - 1)
      BY <1>6, <2>1, <3>1
    <3> QED
      BY <3>1, <3>2
  <2>3. END.k # "udp" /\ NONE.k # "udp"
    BY DEF END, NONE, Tok
  <2>4. got = "cut" => ~(j + 5 >= n + 2)
    <3> SUFFICES ASSUME got = "cut", j + 5 >= n + 2 PROVE FALSE
      OBVIOUS
    <3>1. Read(c, j + 5) \in {END, NONE}
      BY <1>3, <2>2, TokenPast
    <3> QED
      BY <2>1, <2>2, <2>3, <3>1
  <2>5. got = "cut" => j + 5 # n + 1
    <3> SUFFICES ASSUME got = "cut", j + 5 = n + 1 PROVE FALSE
      OBVIOUS
    <3>1. Frayed(y[6], title)
      BY <1>3, <2>2 DEF Opened
    <3> QED
      BY <2>1, <3>1, FrayedIs
  <2>6. ~Past(yat, j, n, got)
    BY <1>4, <2>4 DEF Past
  <2>7. PICK i \in 1..Len(proxies) : j = 10 * i + 1 /\ First(proxies, title, i)
    BY <1>1, <1>3, <2>6 DEF Place
  <2>8. 10 * i + 6 <= n
    <3>1. got = "whole" => n = 10 * Len(proxies) + 7
      BY <1>3 DEF Opened
    <3> QED
      BY <1>4, <2>4, <2>5, <2>7, <3>1
  <2> DEFINE p == proxies[i]
  <2>9. Sound(p)
    OBVIOUS
  <2>10. /\ y[1] = PAIR("type", "ss") /\ y[2] = PAIR("server", p.server)
         /\ y[3] = PAIR("port", p.port) /\ y[4] = PAIR("cipher", p.cipher)
         /\ y[5] = PAIR("password", p.password) /\ y[6] = PAIR("udp", "true")
         /\ Len(y) >= 6
    BY <1>7, <2>7, <2>8
  <2> HIDE DEF p
  <2>11. Found(p, resolve_domain,
               [remote_host |-> IF resolve_domain THEN resolv(y[2].v) ELSE y[2].v,
                remote_port |-> Atoi[y[3].v],
                method      |-> y[4].v, password    |-> y[5].v])
    BY <1>5, <1>8, <2>9, <2>10, NodeCopied
  <2>12. /\ yat' = "done"
         /\ profile' = [remote_host |-> IF resolve_domain THEN resolv(y[2].v) ELSE y[2].v,
                        remote_port |-> Atoi[y[3].v],
                        method      |-> y[4].v, password    |-> y[5].v]
    BY <1>6a, <1>8, CopyNodeIs
  <2>13. Found(p, resolve_domain, profile')
    BY <2>11, <2>12
  <2> QED
    BY <2>7, <2>12, <2>13 DEF p
<1>9. CASE ~Copies(y, resolve_domain)
  <2>1. yat' = "abort"
    BY <1>6a, <1>9, CopyNodeIs
  <2> SUFFICES ASSUME got = "whole"
               PROVE  resolve_domain /\ \E i : /\ First(proxies, title, i)
                                              /\ Len(Addresses[proxies[i].server]) # 1
    BY <2>1
  <2>2. PICK i \in 1..Len(proxies) : j = 10 * i + 1 /\ First(proxies, title, i)
    BY <1>1, <1>3 DEF Place, Past
  <2>3. 10 * i + 6 <= n /\ 10 * i + 7 <= n
    <3>1. n = 10 * Len(proxies) + 7
      BY <1>3 DEF Opened
    <3> QED
      BY <3>1
  <2> DEFINE p == proxies[i]
  <2>4. Sound(p)
    OBVIOUS
  <2>5. /\ y[1] = PAIR("type", "ss") /\ y[2] = PAIR("server", p.server)
        /\ y[3] = PAIR("port", p.port) /\ y[4] = PAIR("cipher", p.cipher)
        /\ y[5] = PAIR("password", p.password) /\ y[6] = PAIR("udp", "true")
        /\ Len(y) >= 6 /\ Len(y) >= 7 /\ y[7] = END
    BY <1>7, <2>2, <2>3
  <2> HIDE DEF p
  <2>6. Copies(y, resolve_domain) <=> (resolve_domain => Len(Addresses[p.server]) = 1)
    BY <1>5, <2>4, <2>5, NodeCopied
  <2> QED
    BY <1>9, <2>2, <2>6 DEF p
<1> QED
  BY <1>8, <1>9

\* The reason that a program has for refusing a whole file.
Excused ==
  \/ Named = {}
  \/ resolve_domain /\ (~TunUsable(NamedNode) \/ json.owner = "other")

\* The node that was looked for is the profile, and fit for its use.
Taken(i) ==
  /\ First(proxies, title, i) /\ Found(proxies[i], resolve_domain, profile)
  /\ yat = "ready" => {proxies[i].password, proxies[i].cipher} \subseteq Bare

\* The inductive invariant of the lookup: a place in the stream before anything is
\* found, and then the node.
LookupInv ==
  /\ yat # "idle" => at \in {"done", "abort"} /\ got \in {"whole", "cut"}
  /\ yat \in LookingUp => Looking
  /\ yat \in {"done", "unlinked", "ready"} => \E i : Taken(i)
  /\ yat \in {"unlinked", "ready"} => resolve_domain
  /\ yat = "abort" /\ got = "whole" => Excused

\* A step that leaves the lookup and the nodes alone.
LEMMA LookupKept ==
  ASSUME LookupInv, UNCHANGED pvars
  PROVE  LookupInv'
<1>1. UNCHANGED <<at, proxies, input, yfile, yat, title, resolve_domain, profile, json, got>>
  BY DEF pvars, cvars, fvars, yvars
<1>2. Looking' <=> Looking
  BY <1>1 DEF Looking
<1>3. Named' = Named /\ NamedNode' = NamedNode
  BY <1>1 DEF Named, NamedNode, WantedOut, Wanted
<1>4. Excused' <=> Excused
  BY <1>1, <1>3 DEF Excused
<1>5. \A i : Taken(i)' <=> Taken(i)
  BY <1>1 DEF Taken
<1> QED
  BY <1>1, <1>2, <1>4, <1>5 DEF LookupInv

\* The converter has ended when the lookup begins.
LEMMA ConversionStep ==
  ASSUME LookupInv, Conversion
  PROVE  LookupInv'
<1>1. UNCHANGED <<yat, got>> /\ ConvertStep
  BY DEF Conversion, fvars, yvars
<1>2. at \notin {"done", "abort"}
  BY <1>1 DEF ConvertStep, SkipHeader, BeginSequence, NextEntry, Extract, Fields, AssertUdp,
              PlainOrObfs, skip_node, EmitGroups
<1>3. yat' = "idle"
  BY <1>1, <1>2 DEF LookupInv
<1> QED
  BY <1>3 DEF LookupInv, LookingUp

\* A stream that was opened is at its second token, or refused if it is no mapping.
LEMMA StartStep ==
  ASSUME NEW c, NEW n, NEW t, NEW r, NEW g \in {"whole", "cut"}, Start(c, t, r),
         Peek(c) = MAP, Opened(c, n, proxies, t, g), got' = g, at \in {"done", "abort"},
         UNCHANGED <<at, proxies>>
  PROVE  LookupInv'
<1>1. /\ yfile' = Drop(c) /\ title' = t /\ yat' = "header"
  BY DEF Start
<1>2. IsSeq(c)
  BY DEF Opened
<1>3. c = Rest(c, 1)
  <2>1. PICK S : c \in Seq(S)
    BY <1>2 DEF IsSeq
  <2> QED
    BY <2>1 DEF Rest
<1>4. Drop(c) = Rest(c, 2)
  <2>1. 1 \in Nat \ {0} /\ 1 + 1 = 2
    OBVIOUS
  <2> QED
    BY <1>2, <1>3, <2>1, RestRead
<1>5. Place("header", 2, n, proxies, t)
  BY DEF Place
<1>6. Opened(c, n, proxies, title, got)' /\ Place(yat, 2, n, proxies, title)'
  BY <1>1, <1>5
<1>7. 2 \in Nat \ {0}
  OBVIOUS
<1>8. Looking'
  BY <1>1, <1>4, <1>6, <1>7 DEF Looking
<1> QED
  BY <1>1, <1>8 DEF LookupInv

\* The whole configuration is opened.
LEMMA OpenWholeStep ==
  ASSUME ConvertInv, GroupInv, OpenWhole, UNCHANGED cvars
  PROVE  LookupInv'
<1>1. at = "done" /\ got' = "whole" /\ UNCHANGED <<at, proxies>>
  BY DEF OpenWhole, cvars
<1>2. PICK t, r : Start(Config, t, r)
  BY DEF OpenWhole, TunLooksUp, Sip002LooksUp
<1>3. IsSeq(proxies) /\ Len(proxies) \in Nat
  BY ProxiesAre
<1>4. IsSeq(groups) /\ \A i \in 1..Len(groups) : IsSeq(groups[i].members)
  BY <1>1 DEF GroupInv, Right, Whole
<1> DEFINE n == 10 * Len(proxies) + 7
<1>5. Opened(Config, n, proxies, t, "whole")
  BY <1>3, <1>4, WholeOpened
<1> HIDE DEF n
<1>6. Peek(Config) = MAP
  <2>1. Config[1] = Written(proxies)[1] /\ 1 <= Len(Config)
    <3>1. 1 \in 1..n /\ 1 <= n
      BY <1>5 DEF Opened
    <3> QED
      BY <1>5, <3>1, TokenWithin
  <2>2. Written(proxies)[1] = MAP
    BY <1>3, WrittenIs
  <2>3. PICK S : Config \in Seq(S)
    BY <1>5 DEF Opened, IsSeq
  <2> DEFINE c == Config
  <2>4. c \in Seq(S) /\ 1 <= Len(c) /\ c[1] = MAP
    BY <2>1, <2>2, <2>3
  <2> HIDE DEF c
  <2>5. Peek(c) = MAP
    <3>1. Len(c) # 0
      BY <2>4
    <3> QED
      BY <2>4, <3>1, PeekFirst
  <2> QED
    BY <2>5 DEF c
<1> QED
  BY <1>1, <1>2, <1>5, <1>6, StartStep

\* A part of it is opened.
LEMMA OpenCutStep ==
  ASSUME ConvertInv, OpenCut, UNCHANGED cvars
  PROVE  LookupInv'
<1>1. at \in {"done", "abort"} /\ got' = "cut" /\ UNCHANGED <<at, proxies>>
  BY DEF OpenCut, cvars
<1>2. PICK t \in Titles : \E n \in CutPoints(Draft) : \E c \in Cuts(Draft, n, t) :
        Sip002LooksUp(c, t)
  BY DEF OpenCut
<1>3. PICK n \in CutPoints(Draft) : \E c \in Cuts(Draft, n, t) : Sip002LooksUp(c, t)
  BY <1>2
<1>4. PICK c \in Cuts(Draft, n, t) : Start(c, t, FALSE)
  BY <1>3 DEF Sip002LooksUp
<1>5. IsSeq(proxies)
  BY ProxiesAre
<1>6. CASE Peek(c) = MAP
  <2>1. Opened(c, n, proxies, t, "cut")
    BY <1>5, <1>6, CutOpened
  <2> QED
    BY <1>1, <1>4, <1>6, <2>1, StartStep
<1>7. CASE Peek(c) # MAP
  <2>1. yat' = "abort"
    BY <1>4, <1>7 DEF Start
  <2> QED
    BY <1>1, <2>1 DEF LookupInv, LookingUp
<1> QED
  BY <1>6, <1>7

\* The node that clash means stays the same.
LEMMA NamedKept ==
  ASSUME UNCHANGED <<cvars, title>>
  PROVE  Named' = Named /\ NamedNode' = NamedNode
<1>1. UNCHANGED <<input, proxies, title>>
  BY DEF cvars
<1>2. Named' = Named
  BY <1>1 DEF Named
<1> QED
  BY <1>1, <1>2 DEF NamedNode, WantedOut, Wanted

\* yaml2profile() keeps its place until it has found the node.
LEMMA YamlStep ==
  ASSUME ConvertInv, LookupInv, yaml2profile, UNCHANGED <<cvars, got>>
  PROVE  LookupInv'
<1>1. UNCHANGED <<at, proxies, title, got, resolve_domain, json>>
  BY DEF yaml2profile, LookupStep, cvars
<1>2. /\ Len(proxies) \in Nat
      /\ \A i \in 1..Len(proxies) : Sound(proxies[i])
  BY ProxiesAre
<1>3. yat \in LookingUp
  BY DEF yaml2profile, LookupStep, SkipConfig, EnterNode, CompareName, SkipNode, CopyNode,
         LookingUp
<1>4. Looking /\ at \in {"done", "abort"} /\ got \in {"whole", "cut"}
  BY <1>3 DEF LookupInv, LookingUp
<1>5. Named' = Named /\ NamedNode' = NamedNode
  BY <1>1, NamedKept
<1>6. ASSUME yat' \in LookingUp, Looking' PROVE LookupInv'
  BY <1>1, <1>4, <1>6 DEF LookupInv, LookingUp
<1>7. ASSUME yat' = "abort", got = "whole" => Excused' PROVE LookupInv'
  BY <1>1, <1>4, <1>7 DEF LookupInv, LookingUp
<1>8. CASE SkipConfig
  BY <1>1, <1>2, <1>4, <1>6, <1>8, SkipConfigStep DEF LookingUp
<1>9. CASE EnterNode
  <2>1. \/ yat' = "name" /\ Looking'
        \/ yat' = "abort" /\ (got = "whole" => Missed(proxies, title, Len(proxies) + 1))
    BY <1>1, <1>2, <1>4, <1>9, EnterNodeStep
  <2>2. ASSUME got = "whole" => Missed(proxies, title, Len(proxies) + 1)
        PROVE  got = "whole" => Excused'
    BY <1>2, <1>5, <2>2, NoneNamed DEF Excused
  <2> QED
    BY <1>6, <1>7, <2>1, <2>2 DEF LookingUp
<1>10. CASE CompareName
  <2>1. \/ yat' \in {"found", "skip"} /\ Looking'
        \/ yat' = "abort" /\ got = "cut"
    BY <1>1, <1>2, <1>4, <1>10, CompareNameStep
  <2> QED
    BY <1>6, <1>7, <2>1 DEF LookingUp
<1>11. CASE SkipNode
  <2>1. \/ yat' \in {"skip", "entry"} /\ Looking'
        \/ yat' = "abort" /\ got = "cut"
    BY <1>1, <1>2, <1>4, <1>11, LookupSkipStep
  <2> QED
    BY <1>6, <1>7, <2>1 DEF LookingUp
<1>12. CASE CopyNode
  <2>1. \/ /\ yat' = "done"
           /\ \E i : First(proxies, title, i) /\ Found(proxies[i], resolve_domain, profile')
        \/ /\ yat' = "abort"
           /\ got = "whole" =>
                resolve_domain /\ \E i : /\ First(proxies, title, i)
                                         /\ Len(Addresses[proxies[i].server]) # 1
    BY <1>2, <1>4, <1>12, CopyNodeStep
  <2>2. CASE /\ yat' = "done"
             /\ \E i : First(proxies, title, i) /\ Found(proxies[i], resolve_domain, profile')
    <3>1. \E i : Taken(i)'
      BY <1>1, <2>2 DEF Taken
    <3> QED
      BY <1>1, <1>4, <2>2, <3>1 DEF LookupInv, LookingUp
  <2>3. CASE /\ yat' = "abort"
             /\ got = "whole" =>
                  resolve_domain /\ \E i : /\ First(proxies, title, i)
                                           /\ Len(Addresses[proxies[i].server]) # 1
    <3>1. ASSUME got = "whole" PROVE Excused'
      <4>1. PICK i : First(proxies, title, i) /\ Len(Addresses[proxies[i].server]) # 1
        BY <2>3, <3>1
      <4>2. NamedNode = proxies[i]
        BY <4>1, FirstIsNamed
      <4>3. ~TunUsable(NamedNode)
        BY <4>1, <4>2 DEF TunUsable
      <4> QED
        BY <1>1, <1>5, <2>3, <3>1, <4>3 DEF Excused, TunUsable
    <3> QED
      BY <1>7, <2>3, <3>1
  <2> QED
    BY <2>1, <2>2, <2>3
<1> QED
  BY <1>8, <1>9, <1>10, <1>11, <1>12 DEF yaml2profile, LookupStep

\* assert(profile_loaded()) does not fail on what yaml2profile() has found.
LEMMA UnlinkStep ==
  ASSUME ConvertInv, LookupInv, unlink_nofail, UNCHANGED <<cvars, got>>
  PROVE  LookupInv'
<1>1. /\ yat = "done" /\ resolve_domain
      /\ UNCHANGED <<at, proxies, title, got, resolve_domain, profile>>
  BY DEF unlink_nofail, cvars
<1>2. PICK i : Taken(i)
  BY <1>1 DEF LookupInv
<1> DEFINE p == proxies[i]
<1>3. Sound(p)
  BY <1>2, ProxiesAre DEF Taken, First
<1>4. profile = Copied(p, TRUE) /\ Len(Addresses[p.server]) = 1
  BY <1>1, <1>2 DEF Taken, Found, Copied
<1> HIDE DEF p
<1>5. Loaded(profile)
  <2>1. /\ profile.remote_host = Addresses[p.server][1] /\ profile.remote_port = Atoi[p.port]
        /\ profile.method = p.cipher /\ profile.password = p.password
    BY <1>4 DEF Copied
  <2>2. Addresses[p.server][1] # ""
    BY <1>3, <1>4, ResolvesOne
  <2>3. p.cipher # "" /\ p.password # ""
    BY <1>3 DEF Sound
  <2>4. Atoi[p.port] >= 1
    <3> DEFINE a == Atoi[p.port]
    <3>1. a \in Nat \ {0}
      BY <1>3 DEF Sound
    <3> HIDE DEF a
    <3>2. a >= 1
      BY <3>1
    <3> QED
      BY <3>2 DEF a
  <2> QED
    BY <2>1, <2>2, <2>3, <2>4 DEF Loaded
<1>6. yat' = "unlinked"
  BY <1>5 DEF unlink_nofail
<1>7. Taken(i)'
  BY <1>1, <1>2, <1>6 DEF Taken
<1> QED
  BY <1>1, <1>6, <1>7 DEF LookupInv, LookingUp

\* profile_to_json() refuses a node that needs quoting, and a file it may not write.
LEMMA JsonStep ==
  ASSUME ConvertInv, LookupInv, profile_to_json, UNCHANGED <<cvars, got>>
  PROVE  LookupInv'
<1>1. /\ yat = "unlinked" /\ resolve_domain
      /\ UNCHANGED <<at, proxies, title, got, resolve_domain, profile>>
  BY DEF profile_to_json, cvars, LookupInv
<1>2. PICK i : Taken(i)
  BY <1>1 DEF LookupInv
<1> DEFINE p == proxies[i]
<1>3. profile.method = p.cipher /\ profile.password = p.password
  BY <1>1, <1>2 DEF Taken, Found, Copied
<1>4. at \in {"done", "abort"} /\ got \in {"whole", "cut"}
  BY <1>1 DEF LookupInv
<1>5. CASE {profile.password, profile.method} \subseteq Bare /\ json.owner # "other"
  <2>1. yat' = "ready"
    BY <1>5 DEF profile_to_json
  <2>2. {p.password, p.cipher} \subseteq Bare
    BY <1>3, <1>5
  <2>3. Taken(i)'
    BY <1>1, <1>2, <2>2 DEF Taken
  <2> QED
    BY <1>1, <1>4, <2>1, <2>3 DEF LookupInv, LookingUp
<1>6. CASE ~({profile.password, profile.method} \subseteq Bare /\ json.owner # "other")
  <2>1. yat' = "abort" /\ UNCHANGED json
    BY <1>6, Zenon DEF profile_to_json
  <2>2. Named' = Named /\ NamedNode' = NamedNode
    BY <1>1, NamedKept
  <2>3. NamedNode = p
    BY <1>2, FirstIsNamed DEF Taken
  <2>4. ~TunUsable(NamedNode) \/ json.owner = "other"
    BY <1>3, <1>6, <2>3 DEF TunUsable
  <2>5. Excused'
    BY <1>1, <2>1, <2>2, <2>4 DEF Excused, TunUsable
  <2> QED
    BY <1>1, <1>4, <2>1, <2>5 DEF LookupInv, LookingUp
<1> QED
  BY <1>5, <1>6

\* What the invariant says of a lookup that has ended.
LEMMA LookupInvFinds ==
  ASSUME ConvertInv, LookupInv
  PROVE  LookupFindsNode
<1>1. yat = "abort" /\ got = "whole" => Excused
  BY DEF LookupInv
<1>2. ASSUME Obtained
      PROVE  /\ Named # {}
             /\ resolve_domain => TunUsable(NamedNode)
             /\ profile = [remote_host |-> IF resolve_domain
                                             THEN Addresses[NamedNode.server][1]
                                             ELSE NamedNode.server,
                           remote_port |-> Atoi[NamedNode.port],
                           method      |-> NamedNode.cipher,
                           password    |-> NamedNode.password]
  <2>1. yat = IF resolve_domain THEN "ready" ELSE "done"
    BY <1>2 DEF Obtained
  <2>2. PICK i : Taken(i)
    BY <2>1 DEF LookupInv
  <2>3. Named # {} /\ NamedNode = proxies[i]
    BY <2>2, FirstIsNamed DEF Taken
  <2>4. resolve_domain => TunUsable(NamedNode)
    BY <2>1, <2>2, <2>3 DEF Taken, Found, TunUsable
  <2>5. profile = Copied(NamedNode, resolve_domain)
    BY <2>2, <2>3 DEF Taken, Found
  <2> QED
    BY <2>3, <2>4, <2>5 DEF Copied
<1> QED
  BY <1>1, <1>2 DEF LookupFindsNode, Excused

\* A node that clash knows from the configuration is found by either program with its
\* own credentials, for any nodes, names and cuts of the file.
THEOREM LookupFindsNodeAlways == PipelineSpec => []LookupFindsNode
<1>1. PipelineInit => ConvertInv /\ LookupInv
  <2> SUFFICES ASSUME PipelineInit PROVE ConvertInv /\ LookupInv
    OBVIOUS
  <2>1. yat = "idle"
    BY DEF PipelineInit, FInit, YInit
  <2> QED
    BY <2>1, ConvertInvInit DEF PipelineInit, LookupInv, LookingUp
<1>2. ASSUME ConvertInv, GroupInv, LookupInv, [PipelineNext]_pvars
      PROVE  LookupInv'
  <2>1. CASE UNCHANGED pvars
    BY <1>2, <2>1, LookupKept
  <2>2. CASE Conversion
    BY <1>2, <2>2, ConversionStep
  <2>3. CASE Lookup
    <3>1. UNCHANGED cvars
      BY <2>3 DEF Lookup
    <3>2. CASE OpenWhole
      BY <1>2, <3>1, <3>2, OpenWholeStep
    <3>3. CASE OpenCut
      BY <1>2, <3>1, <3>3, OpenCutStep
    <3>4. CASE yaml2profile /\ UNCHANGED got
      BY <1>2, <3>1, <3>4, YamlStep
    <3>5. CASE unlink_nofail /\ UNCHANGED got
      BY <1>2, <3>1, <3>5, UnlinkStep
    <3>6. CASE profile_to_json /\ UNCHANGED got
      BY <1>2, <3>1, <3>6, JsonStep
    <3> QED
      BY <2>3, <3>2, <3>3, <3>4, <3>5, <3>6 DEF Lookup, ProfileStep
  <2> QED
    BY <1>2, <2>1, <2>2, <2>3 DEF PipelineNext, Finished
<1>3. ConvertInv /\ [PipelineNext]_pvars => ConvertInv'
  BY ConvertInvNext
<1>4. ConvertInv /\ LookupInv => LookupFindsNode
  BY LookupInvFinds
<1> QED
  BY <1>1, <1>2, <1>3, <1>4, GroupInvAlways, PTL DEF PipelineSpec
==============================================================================
