-------------------------- MODULE ConfigPipelineMC ---------------------------
(* Nodes of every kind that convert.c tells apart, in files of up to three. *)
EXTENDS ConfigPipeline

MCMarks == [hk_us |-> {"hk", "us"}, jp |-> {"jp"}, plain |-> {}, home |-> {"cn"}]

Node(name, type, server, port, extra) ==
  [name |-> name, type |-> type, server |-> server, port |-> port,
   cipher |-> "aead",
   password |-> IF server = "d.example" THEN "sec+ret" ELSE "secret", extra |-> extra]

MCNodes ==
  { Node("hk_us", "ss", "a.example", "443", "none"),
    Node("jp", "ss", "b.example", "443", "none"),
    Node("plain", "ss", "c.example", "443", "none"),
    Node("plain", "ss", "d.example", "80", "none"),
    Node("jp", "ss", "h.example", "443", "no_udp"),
    Node("home", "ss", "e.example", "443", "obfs"),
    Node("jp", "ss", "f.example", "443", "obfs"),
    Node("plain", "ss", "ipv6", "443", "none"),
    Node("plain", "ss", "127.0.0.1", "443", "none"),
    Node("jp", "trojan", "g.example", "443", "list"),
    Node("jp", "trojan", "g.example", "443", "list_then_key") }

MCAtoi == [p \in {"80", "443"} |-> IF p = "80" THEN 80 ELSE 443]

\* b.example is unknown to the DNS, c.example has two addresses.
MCAddresses ==
  [h \in {n.server : n \in MCNodes} |->
     CASE h = "b.example" -> <<>>
       [] h = "c.example" -> <<"192.0.2.1", "192.0.2.2">>
       [] OTHER -> <<"198.51.100.1">>]

MCTitles == {"hk_us", "plain", "jp", "ASIA"}
==============================================================================
