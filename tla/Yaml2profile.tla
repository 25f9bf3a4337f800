---------------------------- MODULE Yaml2profile -----------------------------
(***************************************************************************)
(* lib/yaml2profile.c: finds the node called title among the proxies of a    *)
(* clash configuration and copies its connection data into the profile.     *)
(* One action per token (or per asserted run of them); a failed assert() is  *)
(* "abort".  server_title comes from now(); clash_tun has the server's name   *)
(* resolved (resolve_domain), clash_sip002 does not.                         *)
(***************************************************************************)
EXTENDS YamlTokens, Resolv

CONSTANT Atoi      \* what atoi() makes of a port

VARIABLES
  yfile,    \* the tokens not yet read
  yat,      \* where yaml2profile() is
  title,    \* server_title
  resolve_domain,
  profile   \* the fields it fills

yvars == <<yfile, yat, title, resolve_domain, profile>>

NoProfile == [remote_host |-> "", remote_port |-> 0, method |-> "", password |-> ""]

YInit ==
  /\ yfile = <<>> /\ yat = "idle" /\ title = "" /\ resolve_domain = FALSE
  /\ profile = NoProfile

YToken == Peek(yfile)

YReadThen(l) == yfile' = Drop(yfile) /\ yat' = l

YAbort == yat' = "abort" /\ UNCHANGED <<yfile, profile>>

\* The call, fopen() and the start of the mapping, which an empty file lacks.
Start(config, t, resolve) ==
  /\ yat = "idle"
  /\ yfile' = Drop(config)
  /\ title' = t /\ resolve_domain' = resolve
  /\ yat' = IF Peek(config) = MAP THEN "header" ELSE "abort"
  /\ UNCHANGED profile

\* Mutant: the key of an older format.
SkipConfigOldKey ==
  /\ yat = "header"
  /\ YReadThen(IF YToken = KEY("Proxy") THEN "first" ELSE "header")
  /\ UNCHANGED profile

\* "Skip general config": to the first key "proxies".  At the end of a
\* stream without it libyaml would keep answering, and this loop asking.
SkipConfig ==
  /\ yat = "header"
  /\ IF YToken = ERROR THEN YAbort
     ELSE YReadThen(IF YToken = KEY("proxies") THEN "first" ELSE "header")
          /\ UNCHANGED profile

\* ENTRY and MAP, asserted for the first node and for each one after it.
EnterNode ==
  /\ yat \in {"first", "entry"}
  /\ IF YToken = ENTRY /\ Peek(Drop(yfile)) = MAP
       THEN yfile' = Drop(Drop(yfile)) /\ yat' = "name" /\ UNCHANGED profile
       ELSE YAbort

\* k_v_cmp("name",server_title)
CompareName ==
  /\ yat = "name"
  /\ IF YToken.t = "PAIR" /\ YToken.k = "name"
       THEN YReadThen(IF YToken.v = title THEN "found" ELSE "skip") /\ UNCHANGED profile
       ELSE YAbort

\* Any other node is skipped up to the first END.
SkipNode ==
  /\ yat = "skip"
  /\ IF YToken = ERROR THEN YAbort
     ELSE YReadThen(IF YToken = END THEN "entry" ELSE "skip") /\ UNCHANGED profile

\* The six keys after the name, in this order, the address if it is wanted,
\* and the END of the node.
CopyNode ==
  /\ yat = "found"
  /\ LET key(i) == IF i <= Len(yfile) THEN yfile[i].k ELSE ""
         ok == /\ \A i \in 1..6 :
                    key(i) = <<"type", "server", "port", "cipher", "password",
                               "udp">>[i]
               /\ yfile[1].v = "ss" /\ yfile[6].v = "true"
               /\ yfile[2].v # "" /\ yfile[3].v # "" /\ Atoi[yfile[3].v] >= 1
               /\ resolve_domain => Resolves(yfile[2].v)
               /\ Len(yfile) >= 7 /\ yfile[7] = END
     IN  IF ok
           THEN /\ profile' = [remote_host |-> IF resolve_domain THEN resolv(yfile[2].v)
                                              ELSE yfile[2].v,
                               remote_port |-> Atoi[yfile[3].v],
                               method      |-> yfile[4].v,
                               password    |-> yfile[5].v]
                /\ yfile' = SubSeq(yfile, 8, Len(yfile))
                /\ yat' = "done"
           ELSE YAbort

LookupStep ==
  /\ SkipConfig \/ EnterNode \/ CompareName \/ SkipNode \/ CopyNode
  /\ UNCHANGED <<title, resolve_domain>>
==============================================================================
