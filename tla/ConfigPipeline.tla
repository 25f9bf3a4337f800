--------------------------- MODULE ConfigPipeline ----------------------------
(***************************************************************************)
(* The converter and yaml2profile() as clash_tun and clash_sip002 use them  *)
(* together: the configuration written by the one is what the other looks a *)
(* node up in, under the name now() took from clash.  In between is          *)
(* clash_run (clash.sh): the converter writes straight into the file that    *)
(* the others read, which is cut short while it runs and stays so when it    *)
(* aborts; an earlier clash, still running, answers now() meanwhile.         *)
(***************************************************************************)
EXTENDS Convert, Profile

CONSTANTS Titles,       \* the names clash may answer with
          MaxCutNodes   \* how many nodes the files have that are read too early

\* The lists and the resolver of LookupFindsNode: a node that the converter lets
\* through has no empty value and a port that atoi() reads as a positive number,
\* and no address of the DNS is 0.0.0.0.  yaml2profile() aborts without these.
ASSUME UsableAssumption ==
  \A n \in Nodes : Usable(n) =>
    /\ n.server # "" /\ n.port # "" /\ n.cipher # "" /\ n.password # ""
    /\ Atoi[n.port] \in Nat \ {0}
    /\ Addresses[n.server] \in Seq(STRING)
    /\ \A i \in 1..Len(Addresses[n.server]) :
         Addresses[n.server][i] \notin {"", "0.0.0.0"}

VARIABLE got   \* what was opened: "none" yet, the "whole" file, or one cut short

pvars == <<cvars, fvars, got>>

PipelineInit == Init /\ FInit /\ got = "none"

Conversion == ConvertStep /\ UNCHANGED <<fvars, got>>

\* The configuration is there.  clash_run has opencc rewrite it before clash reads
\* it: a renaming, the same for clash and for the lookup, so names are those after
\* it on both sides.
OpenWhole ==
  /\ at = "done" /\ yat = "idle"
  /\ \E config \in {Config}, t \in Titles :
       TunLooksUp(config, t) \/ Sip002LooksUp(config, t)
  /\ got' = "whole"

\* What the converter has handed to its emitter, the groups left out: no lookup
\* reads further than the nodes.
Draft ==
  Header \o <<KEY("proxies")>>
  \o FlattenSeq([i \in 1..Len(proxies) |-> ProxyTokens(proxies[i])])

\* The first n tokens of it and the start of the next, as they are scanned: the
\* value is short (a short name may be the t that is looked for), or the scan
\* fails.
Torn(tok, t) ==
  {<<ERROR>>} \cup
  (IF tok.t = "PAIR" THEN {<<PAIR(tok.k, IF tok.k = "name" THEN t ELSE "torn")>>}
   ELSE {})

Cuts(draft, n, t) ==
  {Closed(SubSeq(draft, 1, n) \o torn) : torn \in
     {<<>>} \cup IF n \in 1..Len(draft) - 1 THEN Torn(draft[n + 1], t) ELSE {}}

\* stdio writes whole blocks, and the header with the key "proxies" is shorter
\* than one: nothing of it is there, or all of it.
CutPoints(draft) == {0} \cup (Len(Header) + 1)..Len(draft)

\* clash_run's redirection, for the provider whose list the converter reads: the
\* file is read before it is all written, or after the converter has aborted and
\* left it like that.  clash_sip002 stands for both readers: what clash_tun does
\* more begins when the node has been found.
OpenCut ==
  /\ at \in {"done", "abort"} /\ yat = "idle" /\ Len(input) <= MaxCutNodes
  /\ \E draft \in {Draft}, t \in Titles : \E n \in CutPoints(draft) :
       \E config \in Cuts(draft, n, t) : Sip002LooksUp(config, t)
  /\ got' = "cut"

Lookup ==
  /\ \/ OpenWhole \/ OpenCut
     \/ ProfileStep /\ UNCHANGED got
  /\ UNCHANGED cvars

\* Both programs have ended, or the configuration was never written.
Finished ==
  /\ at = "abort" \/ Obtained \/ yat = "abort"
  /\ UNCHANGED pvars

PipelineNext == Conversion \/ Lookup \/ Finished

\* Both programs run; nothing else has to happen.
PipelineSpec ==
  PipelineInit /\ [][PipelineNext]_pvars /\ WF_pvars(Conversion \/ Lookup)

------------------------------------------------------------------------------
\* The node clash means by title: the first of that name, as the provider
\* listed it.
Named == {i \in 1..Len(proxies) : proxies[i].name = title}

NamedNode == WantedOut[CHOOSE i \in Named : \A j \in Named : i <= j]

\* clash_tun can use the node: one address, nothing that needs quoting.
TunUsable(n) ==
  /\ Len(Addresses[n.server]) = 1
  /\ {n.password, n.cipher} \subseteq Bare

\* A node that clash knows from this configuration is found by either program,
\* and the profile gets its own credentials and its server, by name or by its
\* only address.  clash_sip002 refuses only other names; clash_tun also a node
\* it cannot use and a foreign JSON file, all before it touches the machine.
\* A file that is cut short, in the middle of a value even, may hide a node,
\* but what is found in it is whole.
LookupFindsNode ==
  /\ yat = "abort" /\ got = "whole" =>
       \/ Named = {}
       \/ resolve_domain /\ (~TunUsable(NamedNode) \/ json.owner = "other")
  /\ Obtained =>
       /\ Named # {}
       /\ resolve_domain => TunUsable(NamedNode)
       /\ profile = [remote_host |-> IF resolve_domain
                                       THEN Addresses[NamedNode.server][1]
                                       ELSE NamedNode.server,
                     remote_port |-> Atoi[NamedNode.port],
                     method      |-> NamedNode.cipher,
                     password    |-> NamedNode.password]

\* The lookup comes to an end, whatever the name and however much of the file is
\* there: neither of its two loops over tokens runs into the end of the stream.
LookupEnds == (yat # "idle") ~> (Obtained \/ yat = "abort")
==============================================================================
