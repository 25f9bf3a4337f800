------------------------------- MODULE Convert -------------------------------
(***************************************************************************)
(* bin.convert/convert.c: reads a provider's node list as YAML tokens, drops *)
(* the nodes it cannot use, files the others under regional groups and       *)
(* writes a clash configuration in which all nodes share one port, cipher    *)
(* and password.  One action per token read; a failed assert() is "abort".   *)
(***************************************************************************)
EXTENDS YamlTokens

CONSTANTS
  Nodes,     \* the nodes a provider lists
  MaxNodes,  \* how many of them one file holds
  Marks,     \* name -> the countries whose needles strstr() finds in it
  Short      \* the scalars of fewer than three bytes

\* A file holds finitely many nodes.
ASSUME MaxNodesAssumption == MaxNodes \in Nat

\* A node goes on after its password in one of the ways of Extra.
ASSUME NodesAssumption ==
  \A n \in Nodes : n.extra \in {"none", "no_udp", "obfs", "list", "list_then_key"}

Fields == {"name", "type", "server", "port", "cipher", "password"}

Credentials(n) == <<n.port, n.cipher, n.password>>

NoCredentials == <<"", "", "">>

\* The regional lists; "XX" and "NON_HK" are filled by exclusion.
Region == [ASIA   |-> {"hk", "jp", "kr", "ru", "sg", "tw"},
           AUCAUS |-> {"au", "ca", "us"},
           EUGB   |-> {"eu", "gb"},
           HK |-> {"hk"}, JP |-> {"jp"}, KR |-> {"kr"}, TW |-> {"tw"}]

Lists == DOMAIN Region \cup {"XX", "NON_HK"}

\* What a node has after its password: "udp" and nothing more, the options of
\* obfs too, or a list that is indented (libyaml marks it with SEQ and END),
\* last or not; or not even "udp".
Extra(n) ==
  CASE n.extra = "none" -> <<>>
    [] n.extra = "no_udp" -> <<>>
    [] n.extra = "obfs" -> <<PAIR("plugin", "obfs"), KEY("plugin-opts"), MAP,
                             PAIR("mode", "http"), END>>
    [] n.extra = "list" -> <<KEY("alpn"), SEQ, ENTRY, SCALAR("h2"), END>>
    [] n.extra = "list_then_key" ->
         <<KEY("alpn"), SEQ, ENTRY, SCALAR("h2"), END, PAIR("sni", "x")>>

NodeTokens(n) ==
  <<ENTRY, MAP, PAIR("name", n.name), PAIR("type", n.type),
    PAIR("server", n.server), PAIR("port", n.port), PAIR("cipher", n.cipher),
    PAIR("password", n.password)>>
  \o (IF n.extra = "no_udp" THEN <<>> ELSE <<PAIR("udp", "true")>>)
  \o Extra(n) \o <<END>>

\* A provider's file: settings, the node list, and what follows it.  The list
\* may be flush with its key, or be under another key ("Proxy" of old files).
Raw(ns, how) ==
  LET nodes == FlattenSeq([i \in 1..Len(ns) |-> NodeTokens(ns[i])])
  IN  <<MAP, PAIR("port", "7890"), KEY("dns"), MAP, PAIR("enable", "true"), END,
        KEY(IF how = "old" THEN "Proxy" ELSE "proxies")>>
      \o (IF how = "flush" THEN nodes ELSE <<SEQ>> \o nodes \o <<END>>)
      \o <<PAIR("rules", ""), END>>

VARIABLES
  input,    \* the nodes of the file, in order
  layout,   \* how the file lists them
  file,     \* the tokens not yet read
  at,       \* where main() is
  lean,     \* skip_node()'s count
  node,     \* the node being read
  plain,    \* plain_port, plain_cipher, plain_password
  lists,    \* the GSLists
  proxies,  \* the nodes emitted
  groups    \* the groups emitted

cvars == <<input, layout, file, at, lean, node, plain, lists, proxies, groups>>

Blank == [f \in Fields |-> ""]

Init ==
  /\ input \in UNION {[1..n -> Nodes] : n \in 0..MaxNodes}
  /\ layout \in {"indented", "flush", "old"}
  /\ file = Raw(input, layout)
  /\ at = "header"
  /\ lean = 0
  /\ node = Blank
  /\ plain = NoCredentials
  /\ lists = [g \in Lists |-> <<>>]
  /\ proxies = <<>>
  /\ groups = <<>>

------------------------------------------------------------------------------
Token == Peek(file)

\* SCAN(), DEL() and on to l.
ReadThen(l) == file' = Drop(file) /\ at' = l

Abort == at' = "abort" /\ UNCHANGED <<file, lean, node, plain, lists, proxies, groups>>

\* parser_begin(): on to the first key "proxies", at whatever depth.  At the
\* end of the stream libyaml keeps answering, and this loop keeps asking.
SkipHeader ==
  /\ at = "header"
  /\ ReadThen(IF Token = KEY("proxies") THEN "sequence" ELSE "header")
  /\ UNCHANGED <<lean, node, plain, lists, proxies, groups>>

BeginSequence ==
  /\ at = "sequence"
  /\ IF Token = SEQ
       THEN ReadThen("loop") /\ UNCHANGED <<lean, node, plain, lists, proxies, groups>>
       ELSE Abort

\* The head of the loop: the end of the sequence, or another node.
NextEntry ==
  /\ at = "loop"
  /\ \/ /\ Token = END
        /\ ReadThen("groups")
        /\ UNCHANGED <<lean, node, plain, lists, proxies, groups>>
     \/ /\ Token = ENTRY /\ Peek(Drop(file)) = MAP
        /\ file' = Drop(Drop(file))
        /\ at' = "name"
        /\ node' = Blank
        /\ UNCHANGED <<lean, plain, lists, proxies, groups>>
     \/ /\ Token # END
        /\ ~(Token = ENTRY /\ Peek(Drop(file)) = MAP)
        /\ Abort

\* Where main() goes with the value v of key k: on, or to skip_node(0).
After(k, v) ==
  CASE k = "name"     -> IF "cn" \in Marks[v] THEN "skip" ELSE "type"
    [] k = "type"     -> IF v # "ss" THEN "skip" ELSE "server"
    [] k = "server"   -> IF v \in {"ipv6", "127.0.0.1"} THEN "skip" ELSE "port"
    [] k = "port"     -> "cipher"
    [] k = "cipher"   -> "password"
    [] k = "password" -> "udp"

\* extract_value_with_key(k), and the test on the value that follows it.
Extract(k) ==
  /\ at = k
  /\ IF Token.t = "PAIR" /\ Token.k = k
       THEN /\ ReadThen(After(k, Token.v))
            /\ node' = [node EXCEPT ![k] = Token.v]
            /\ UNCHANGED <<lean, plain, lists, proxies, groups>>
       ELSE Abort

\* assert_value_with_key("udp","true")
AssertUdp ==
  /\ at = "udp"
  /\ IF Token = PAIR("udp", "true")
       THEN ReadThen("tail") /\ UNCHANGED <<lean, node, plain, lists, proxies, groups>>
       ELSE Abort

\* Mutant: the list of Asia forgets jp().
BelongsAsiaNoJp(name, g) ==
  CASE g = "NON_HK" -> "hk" \notin Marks[name]
    [] g = "XX"     -> \A r \in DOMAIN Region : Marks[name] \cap Region[r] = {}
    [] g = "ASIA"   -> Marks[name] \cap (Region.ASIA \ {"jp"}) # {}
    [] OTHER        -> Marks[name] \cap Region[g] # {}

\* The lists that group() prepends a name to.
Belongs(name, g) ==
  CASE g = "NON_HK" -> "hk" \notin Marks[name]
    [] g = "XX"     -> \A r \in DOMAIN Region : Marks[name] \cap Region[r] = {}
    [] OTHER        -> Marks[name] \cap Region[g] # {}

group(name) ==
  lists' = [g \in Lists |->
              IF Belongs(name, g) THEN <<name>> \o lists[g] ELSE lists[g]]

\* emit_node(): name and server are the node's, the rest is shared.
emit_node(n, shared) ==
  proxies' = Append(proxies, [name |-> n.name, server |-> n.server,
                              port |-> shared[1], cipher |-> shared[2],
                              password |-> shared[3]])

\* Mutant: later nodes are not compared with the first.
AcceptsAny(c) == TRUE

\* The first plain node stores its credentials, the others must repeat them;
\* stored ones of fewer than three bytes are taken for half a write.
Accepts(c) ==
  plain # NoCredentials => plain = c /\ \A i \in 1..3 : plain[i] \notin Short

\* After "udp": the mapping ends (a plain node) or goes on (an obfs node).
PlainOrObfs ==
  /\ at = "tail"
  /\ \/ /\ Token = END /\ Accepts(Credentials(node))
        /\ ReadThen("loop")
        /\ plain' = IF plain = NoCredentials THEN Credentials(node) ELSE plain
        /\ group(node.name)
        /\ emit_node(node, plain')
        /\ UNCHANGED <<lean, node, groups>>
     \/ /\ Token = END /\ ~Accepts(Credentials(node))
        /\ Abort
     \/ /\ Token.t \in {"PAIR", "KEY"}
        /\ ReadThen("skip")
        /\ UNCHANGED <<lean, node, plain, lists, proxies, groups>>

\* Mutants: skip_node() stops at the first END (as an earlier version did);
\* the count of mappings only grows.
skip_node_flat ==
  /\ at = "skip"
  /\ ReadThen(IF Token = END THEN "loop" ELSE "skip")
  /\ UNCHANGED <<lean, node, plain, lists, proxies, groups>>

skip_node_no_decrement ==
  /\ at = "skip"
  /\ ReadThen(IF Token = END /\ lean = 0 THEN "loop" ELSE "skip")
  /\ lean' = IF Token = MAP THEN lean + 1 ELSE lean
  /\ UNCHANGED <<node, plain, lists, proxies, groups>>

\* skip_node(0): to the END that closes the node, counting nested mappings.
skip_node ==
  /\ at = "skip"
  /\ ReadThen(IF Token = END /\ lean = 0 THEN "loop" ELSE "skip")
  /\ lean' = CASE Token = MAP              -> lean + 1
               [] Token = END /\ lean > 0  -> lean - 1
               [] OTHER                    -> lean
  /\ UNCHANGED <<node, plain, lists, proxies, groups>>

\* An empty group is left out.
emit_and_destroy_group(g) ==
  IF lists[g] = <<>> THEN <<>> ELSE <<[name |-> g, members |-> lists[g]]>>

\* The end of main(): the groups in this order.
EmitGroups ==
  /\ at = "groups"
  /\ LET emit(g) == emit_and_destroy_group(g)
     IN  groups' = emit("XX") \o emit("ASIA") \o emit("NON_HK") \o emit("HK")
                   \o emit("JP") \o emit("EUGB") \o emit("AUCAUS") \o emit("TW")
                   \o emit("KR")
  /\ lists' = [g \in Lists |-> <<>>]
  /\ at' = "done"
  /\ UNCHANGED <<file, lean, node, plain, proxies>>

\* The configuration as libyaml reads it back: its emitter does not indent a
\* list inside a mapping, so the scanner marks neither its start nor its end,
\* and writes an empty one as [].
Listing(key, items) ==
  <<KEY(key)>> \o (IF items = <<>> THEN <<FLOW>> ELSE FlattenSeq(items))

ProxyTokens(p) ==
  <<ENTRY, MAP, PAIR("name", p.name), PAIR("type", "ss"),
    PAIR("server", p.server), PAIR("port", p.port), PAIR("cipher", p.cipher),
    PAIR("password", p.password), PAIR("udp", "true"), END>>

GroupTokens(g) ==
  <<ENTRY, MAP, PAIR("name", g.name), PAIR("type", "select")>>
  \o Listing("proxies",
             [i \in 1..Len(g.members) |-> <<ENTRY, SCALAR(g.members[i])>>])
  \o <<END>>

Header ==
  <<MAP, PAIR("port", "8080"), KEY("profile"), MAP,
    PAIR("store-selected", "true"), END>>

Config ==
  Header
  \o Listing("proxies", [i \in 1..Len(proxies) |-> ProxyTokens(proxies[i])])
  \o Listing("proxy-groups", [i \in 1..Len(groups) |-> GroupTokens(groups[i])])
  \o <<END>>

ConvertStep ==
  /\ \/ SkipHeader \/ BeginSequence \/ NextEntry
     \/ \E k \in Fields : Extract(k)
     \/ AssertUdp \/ PlainOrObfs \/ skip_node \/ EmitGroups
  /\ UNCHANGED <<input, layout>>

------------------------------------------------------------------------------
\* The nodes that clash_tun can use: plain Shadowsocks over IPv4.
Usable(n) ==
  /\ "cn" \notin Marks[n.name]
  /\ n.type = "ss"
  /\ n.server \notin {"ipv6", "127.0.0.1"}
  /\ n.extra = "none"

\* Those of the file, in its order.
Wanted ==
  FlattenSeq([i \in 1..Len(input) |->
                IF Usable(input[i]) THEN <<input[i]>> ELSE <<>>])

Emitted(n) == [name |-> n.name, server |-> n.server, port |-> n.port,
               cipher |-> n.cipher, password |-> n.password]

WantedOut == [i \in 1..Len(Wanted) |-> Emitted(Wanted[i])]

\* The files convert.c is made for: an indented list of nodes that have "udp"
\* and no list of their own.
Expected ==
  /\ layout = "indented"
  /\ \A i \in 1..Len(input) : input[i].extra \in {"none", "obfs"}

\* What has been emitted so far is the start of the usable nodes, in order and
\* each with the port, cipher and password its provider gave it, although only
\* the first node's are stored and whatever was skipped in between.
EmittedAsListed == IsPrefix(proxies, WantedOut)

\* An expected file is converted in full or refused, and refused only for
\* nodes that disagree on their credentials or have some too short to compare.
NothingLost ==
  Expected =>
    /\ at = "done" => proxies = WantedOut
    /\ at = "abort" => \E i, j \in 1..Len(Wanted) :
         /\ i < j
         /\ \/ Credentials(Wanted[i]) # Credentials(Wanted[j])
            \/ \E k \in 1..3 : Credentials(Wanted[i])[k] \in Short

Members(g) ==
  UNION {ToSet(groups[i].members) : i \in {j \in 1..Len(groups) : groups[j].name = g}}

\* The groups of the configuration fit its nodes: HK and NON_HK divide them,
\* XX has exactly those of no region, the parts of Asia are parts of ASIA, and
\* no group names a node that is not there.
GroupsFitNodes ==
  at = "done" =>
    LET names == {proxies[i].name : i \in 1..Len(proxies)} IN
    /\ Members("HK") \cup Members("NON_HK") = names
    /\ Members("HK") \cap Members("NON_HK") = {}
    /\ Members("XX") =
         names \ (Members("ASIA") \cup Members("AUCAUS") \cup Members("EUGB"))
    /\ Members("HK") \cup Members("JP") \cup Members("KR") \cup Members("TW")
         \subseteq Members("ASIA")
    /\ \A i \in 1..Len(groups) :
         groups[i].members # <<>> /\ ToSet(groups[i].members) \subseteq names

\* A file that has a node list is read to an end: skip_node() never runs past
\* the list into the end of the stream, where it would read for ever.  One that
\* has not (the key "Proxy" of old files) is not taken for an empty list: the
\* converter keeps asking at the end of the stream and never says it is done.
ConvertEnds ==
  /\ (layout # "old") ~> (at \in {"done", "abort"})
  /\ [](layout = "old" => at = "header" /\ proxies = <<>>)

\* convert.c:466, "If sequence has ended": the loop is left at the end of the
\* node list, so nothing of the list is unread when the groups are emitted.
LeavesLoopAtSequenceEnd ==
  at = "groups" => \A i \in 1..Len(file) : file[i] # ENTRY
==============================================================================
