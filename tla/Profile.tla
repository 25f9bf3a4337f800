------------------------------- MODULE Profile -------------------------------
(***************************************************************************)
(* bin.tun/profile.c and its use by clash_tun: the static profile is empty, *)
(* yaml2profile() fills it with the resolved server, and the same data go   *)
(* to /tmp/ss-local.json, where the operator's clean-up after an aborted    *)
(* run finds the server whose route has to go (readme.md:62).  clash_sip002 *)
(* uses yaml2profile() alone, on a profile of its own.                      *)
(***************************************************************************)
EXTENDS Yaml2profile

CONSTANT Bare     \* the values that match [0-9A-Za-z_.-]+

VARIABLE json     \* /tmp/ss-local.json: its owner and what it says

fvars == <<yvars, json>>

NoFile == [owner |-> "none", conf |-> NoProfile]

OldConf == [NoProfile EXCEPT !.remote_host = "192.0.2.99"]

\* No file, the one of an earlier run, or one that another user has left.
Leftovers ==
  {NoFile, [owner |-> "self", conf |-> OldConf], [owner |-> "other", conf |-> OldConf]}

FInit == YInit /\ json = NoFile

\* profile_loaded(): TRUE, FALSE, or neither, when its assertions fail.
Loaded(p) ==
  p.remote_host # "" /\ p.method # "" /\ p.password # "" /\ p.remote_port >= 1

NotLoaded(p) == p = NoProfile

\* main(): now() has answered, assert(!profile_loaded()), yaml2profile(true,..).
TunLooksUp(config, t) ==
  /\ NotLoaded(profile)
  /\ Start(config, t, TRUE)
  /\ UNCHANGED json

\* sip002(): profile_t p={}; yaml2profile(false,..).
Sip002LooksUp(config, t) ==
  /\ Start(config, t, FALSE)
  /\ UNCHANGED json

yaml2profile == LookupStep /\ UNCHANGED json

\* assert(profile_loaded()); unlink_nofail().  Whatever an earlier run or someone
\* else has left there by now: in /tmp only the owner can remove a file; a
\* failure passes, because assert(errno=ENOENT) assigns.
unlink_nofail ==
  /\ yat = "done" /\ resolve_domain
  /\ IF Loaded(profile)
       THEN /\ yat' = "unlinked"
            /\ \E old \in Leftovers :
                 json' = IF old.owner = "self" THEN NoFile ELSE old
       ELSE /\ yat' = "abort"
            /\ UNCHANGED json
  /\ UNCHANGED <<yfile, title, profile, resolve_domain>>

\* appendjson() asserts that no value needs quoting (the address and the port
\* never do), json_object_to_file_ext() that the file can be written.
profile_to_json ==
  /\ yat = "unlinked"
  /\ IF {profile.password, profile.method} \subseteq Bare /\ json.owner # "other"
       THEN /\ yat' = "ready"
            /\ json' = [owner |-> "self", conf |-> profile]
       ELSE /\ yat' = "abort"
            /\ UNCHANGED json
  /\ UNCHANGED <<yfile, title, profile, resolve_domain>>

ProfileStep == yaml2profile \/ unlink_nofail \/ profile_to_json

\* What the caller wanted is there.
Obtained == yat = IF resolve_domain THEN "ready" ELSE "done"
==============================================================================
