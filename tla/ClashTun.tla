------------------------------ MODULE ClashTun -------------------------------
(***************************************************************************)
(* bin.tun/main.c: the process clash_tun, run by root, that replaces the    *)
(* clash proxy by a tunnel and puts everything back when the user presses   *)
(* Enter.  In order: take the DNS files, kill clash, start Shadowsocks,     *)
(* make tun0 and move the default route to it, start tun2socks; then undo   *)
(* it all.  Every call asserts on its result: a failure aborts the process  *)
(* on the spot and leaves the machine as it is.                             *)
(*                                                                          *)
(* pc is the next call of main(); todo tells whether main still has to      *)
(* escalate for it, can make it, or has to drop the privileges of the call  *)
(* before (ESCALATED of privilege.h).  The send and the receive of a        *)
(* netlink request, which escalate one after the other, are one call here:  *)
(* the kernel acts on the request inside send().                            *)
(***************************************************************************)
EXTENDS Rtnetlink

CONSTANTS MaxRuns,    \* how often the user starts clash_tun
          MaxFaults   \* how many mishaps happen on the way

ASSUME BoundsAssumption == MaxRuns \in Nat \ {0} /\ MaxFaults \in Nat

VARIABLES
  pc, todo,     \* main(): "off" when there is no process
  cred,         \* effective user and group of the process
  files,        \* the files of resolved.conf.d
  resolved,     \* the configuration systemd-resolved has read
  job,          \* a restart of systemd-resolved is queued
  clash,        \* the clash process: "up", "background" (not the foreground job
                \* of its terminal), "dying" or "gone"
  listed,       \* the clash that readproctab listed: "none", "alive", "dead"
  ss,           \* the Shadowsocks thread (SsThread): "none", "up", "over"
  fds,          \* main()'s bus connection and netlink socket
  gw,           \* the gateway netlink_get_gateway found
  host,         \* the run whose server /tmp/ss-local.json names (0: there is no
                \* such file) and the run that last made the server's route
  child,        \* the tun2socks of each run
  signalled,    \* the runs whose tun2socks has been sent SIGINT
  run,          \* how many runs have begun
  faults,       \* how many mishaps have happened
  outcome,      \* how the last run ended: "none", "clean", "abort"
  before        \* the default route (device and hop), and whether clash ran,
                \* in the foreground, when the run began

mainvars == <<pc, todo, cred>>
dnsvars == <<files, resolved, job>>
procvars == <<clash, listed, ss, child, signalled>>
ghosts == <<run, faults, outcome, before>>
vars == <<mainvars, dnsvars, procvars, fds, gw, host, ghosts, netvars>>

Runs == 1..MaxRuns

Running == {"up", "background"}

Families == {"ali", "google"}

Files == {"ali.conf", "ali.bak", "google.conf", "google.bak"}

Home == {"ali.conf", "google.bak"}      \* no tunnel: the Chinese resolver

Tunnel == {"ali.bak", "google.conf"}    \* the foreign one, through the tunnel

ConfOf == [ali |-> "ali.conf", google |-> "google.conf"]

\* The resolvers whose .conf file is there.
Active == {f \in Families : ConfOf[f] \in files}

\* The calls main() wraps in ESCALATED, or that do so themselves.
Privileged ==
  {"bus_init", "ali_bak", "restart", "flush", "kill", "netlink_init",
   "tun_create", "tun_addr", "tun_up", "get_gw", "del_wlo", "add_tun",
   "add_host", "kill_tun", "del_host", "del_tun", "add_wlo", "tun_down",
   "del_link", "google_bak", "restart_back", "flush_back", "bus_end"}

Pcs == Privileged \cup
  {"off", "select", "record", "google_conf", "readproctab", "poll", "start_ss",
   "fork", "read_r", "netlink_end", "stop_ss", "ali_conf", "return"}

TypeOK ==
  /\ NetTypeOK
  /\ pc \in Pcs
  /\ todo \in {"escalate", "call", "drop"}
  /\ cred \in [euid : {0, 1000}, egid : {0, 1000}]
  /\ files \in SUBSET Files
  /\ resolved \in SUBSET Families
  /\ job \in BOOLEAN
  /\ clash \in Running \cup {"dying", "gone"}
  /\ listed \in {"none", "alive", "dead"}
  /\ ss \in {"none", "up", "over"}
  /\ fds \in SUBSET {"bus", "netlink"}
  /\ gw \in Gateways
  /\ host \in [named : 0..MaxRuns, routed : 0..MaxRuns]
  /\ child \in [Runs -> {"none", "forked", "attached", "detached"}]
  /\ signalled \in SUBSET Runs
  /\ run \in 0..MaxRuns
  /\ faults \in 0..MaxFaults
  /\ outcome \in {"none", "clean", "abort"}
  /\ before \in [dev : Devs \cup {"none"}, via : Hops, clash : BOOLEAN]

\* A machine at rest, clash running, on wlp2s0 alone or with a cable as well.
Init ==
  /\ lease \in Gateways
  /\ \/ routes = {DhcpDefault("wlp2s0", lease)}
     \/ \E g \in Gateways :
          routes = {DhcpDefault("wlp2s0", lease), DhcpDefault("eth", g)}
  /\ tun = "absent" /\ persist = FALSE
  /\ pc = "off" /\ todo = "call"
  /\ cred = [euid |-> 0, egid |-> 0]
  /\ files = Home /\ resolved = {"ali"} /\ job = FALSE
  /\ clash \in Running /\ listed = "none" /\ ss = "none"
  /\ fds = {} /\ gw = lease /\ host = [named |-> 0, routed |-> 0]
  /\ child = [r \in Runs |-> "none"] /\ signalled = {}
  /\ run = 0 /\ faults = 0 /\ outcome = "none"
  /\ before = [dev |-> "wlp2s0", via |-> lease, clash |-> clash = "up"]

------------------------------------------------------------------------------
\* privilege_escalate: user first, then group; the real ids are always root.
privilege_escalate ==
  /\ todo = "escalate"
  /\ cred' = [euid |-> 0, egid |-> 0]
  /\ todo' = "call"
  /\ UNCHANGED <<pc, dnsvars, procvars, fds, gw, host, ghosts, netvars>>

\* The process is gone: threads and descriptors with it, children not.
Dies(how) ==
  /\ pc' = "off" /\ todo' = "call"
  /\ cred' = [euid |-> 0, egid |-> 0]
  /\ ss' = "none" /\ fds' = {}
  /\ outcome' = how

Abort ==
  /\ Dies("abort")
  /\ UNCHANGED <<dnsvars, clash, listed, child, signalled, gw, host, run,
                 faults, before, netvars>>

\* setegid(1000) needs the effective user to be root still.
Setegid(c, g) == c.euid = 0 \/ g = 0 \/ g = c.egid

\* privilege_drop: group first, then user.
privilege_drop ==
  /\ todo = "drop"
  /\ IF Setegid(cred, 1000)
       THEN /\ cred' = [euid |-> 1000, egid |-> 1000]
            /\ todo' = IF pc \in Privileged THEN "escalate" ELSE "call"
            /\ UNCHANGED <<pc, dnsvars, procvars, fds, gw, host, ghosts,
                           netvars>>
       ELSE Abort

\* main() is about to make call p, with the privileges it needs.
At(p) == pc = p /\ todo = "call"

\* Mutant: ESCALATED without the drop at its end.
ThenKeepsRoot(q) ==
  /\ pc' = q
  /\ todo' = IF q \in Privileged THEN "escalate" ELSE "call"
  /\ cred' = cred

\* The call p of main() succeeded and main() goes on at q: a privileged call
\* drops its privileges first, unless q is in the same ESCALATED block.
Then(q) ==
  /\ pc' = q
  /\ todo' = IF cred.euid = 0 /\ q \notin {"google_conf", "ali_conf", "poll"}
               THEN "drop"
               ELSE IF q \in Privileged THEN "escalate" ELSE "call"
  /\ cred' = cred

\* A call whose result is asserted.
Asserted(ok, effect) == IF ok THEN effect ELSE Abort

\* What the calls outside the network leave alone.
RestOfMachine == <<gw, host, ghosts, netvars>>

------------------------------------------------------------------------------
\* The user starts clash_tun; main() drops the privileges it starts with.
Start ==
  /\ pc = "off" /\ run < MaxRuns
  /\ run' = run + 1
  /\ pc' = "select" /\ todo' = "drop"
  /\ outcome' = "none"
  /\ IF \E r \in routes : Best(r)
       THEN \E r \in routes :
              Best(r) /\ before' = [dev |-> r.dev, via |-> r.via,
                                   clash |-> clash = "up"]
       ELSE before' = [dev |-> "none", via |-> Peer, clash |-> clash = "up"]
  /\ listed' = "none"
  /\ UNCHANGED <<cred, dnsvars, clash, ss, child, signalled, fds, gw, host,
                 faults, netvars>>

\* now(), yaml2profile(): the node comes from the clash that is running.  The
\* record of an earlier run is unlinked.  What else makes these calls abort is
\* Restful's and ConfigPipeline's subject, and a Crash here.
Select ==
  /\ At("select")
  /\ Asserted(clash \in Running,
       /\ Then("record")
       /\ host' = [host EXCEPT !.named = 0]
       /\ UNCHANGED <<dnsvars, procvars, fds, gw, ghosts, netvars>>)

\* profile_to_json(): the clean-up finds the server to take the route from in
\* the file it writes.  A profile it refuses, or another user's file, is a Crash
\* here.
Record ==
  /\ At("record")
  /\ Then("bus_init")
  /\ host' = [host EXCEPT !.named = run]
  /\ UNCHANGED <<dnsvars, procvars, fds, gw, ghosts, netvars>>

bus_init ==
  /\ At("bus_init")
  /\ Then("ali_bak")
  /\ fds' = fds \cup {"bus"}
  /\ UNCHANGED <<dnsvars, procvars, RestOfMachine>>

\* assert(0==rename(src,dst)): an existing dst would be overwritten.
Rename(p, src, dst, q) ==
  /\ At(p)
  /\ Asserted(src \in files,
       /\ Then(q)
       /\ files' = (files \ {src}) \cup {dst}
       /\ UNCHANGED <<resolved, job, procvars, fds, RestOfMachine>>)

\* Mutant: the restart is left out.
RestartForgotten(p, q) ==
  /\ At(p)
  /\ Then(q)
  /\ UNCHANGED <<dnsvars, procvars, fds, RestOfMachine>>

\* RestartUnit: systemd queues the job and answers.
Restart(p, q) ==
  /\ At(p)
  /\ Asserted("bus" \in fds,
       /\ Then(q)
       /\ job' = TRUE
       /\ UNCHANGED <<files, resolved, procvars, fds, RestOfMachine>>)

\* FlushCaches: the cache is not modelled, the restart empties it as well.
Flush(p, q) ==
  /\ At(p)
  /\ Asserted("bus" \in fds,
       /\ Then(q)
       /\ UNCHANGED <<dnsvars, procvars, fds, RestOfMachine>>)

\* kill_sync("clash"): a snapshot of the process table; a clash in it has to be
\* the foreground job of its terminal, ...
Readproctab ==
  /\ At("readproctab")
  /\ Asserted(clash # "background",
       /\ listed' = IF clash # "gone" THEN "alive" ELSE "none"
       /\ Then(IF clash # "gone" THEN "kill" ELSE "start_ss")
       /\ UNCHANGED <<dnsvars, clash, ss, child, signalled, fds,
                      RestOfMachine>>)

\* ... then pidfd_open and SIGINT on what it listed, ...
KillClash ==
  /\ At("kill")
  /\ Asserted(listed = "alive",
       /\ Then("poll")
       /\ clash' = "dying"
       /\ UNCHANGED <<dnsvars, listed, ss, child, signalled, fds,
                      RestOfMachine>>)

\* ... and poll() until the process is dead.
PollClash ==
  /\ At("poll")
  /\ listed = "dead"
  /\ Then("start_ss")
  /\ UNCHANGED <<dnsvars, procvars, fds, RestOfMachine>>

\* assert(start_ss()): the server needs clash's port.  SsThread has the rest.
StartSs ==
  /\ At("start_ss")
  /\ Asserted(clash = "gone",
       /\ Then("netlink_init")
       /\ ss' = "up"
       /\ UNCHANGED <<dnsvars, clash, listed, child, signalled, fds,
                      RestOfMachine>>)

netlink_init ==
  /\ At("netlink_init")
  /\ Then("tun_create")
  /\ fds' = fds \cup {"netlink"}
  /\ UNCHANGED <<dnsvars, procvars, RestOfMachine>>

------------------------------------------------------------------------------
Attached == \E r \in Runs : child[r] = "attached"

\* A request on the netlink socket, or the ioctl, with its ack.
Request(p, ok, effect, q) ==
  /\ At(p)
  /\ Asserted(ok /\ (p = "tun_create" \/ "netlink" \in fds),
       /\ Then(q)
       /\ effect
       /\ host' = IF p = "add_host" THEN [host EXCEPT !.routed = run] ELSE host
       /\ UNCHANGED <<dnsvars, procvars, fds, gw, ghosts>>)

\* set(): build tun0, then move the default route to it.
ioctl_tun_create ==
  Request("tun_create", TunCreateOk(Attached), TunCreate, "tun_addr")

netlink_tun_addr == Request("tun_addr", TunAddrOk, TunAddr, "tun_up")

netlink_up == Request("tun_up", FlagsOk, LinkUp, "get_gw")

netlink_get_gateway ==
  /\ At("get_gw")
  /\ Asserted(\E g \in Gateways : GetGatewayOk(g),
       /\ Then("del_wlo")
       /\ \E g \in Gateways : GetGatewayOk(g) /\ gw' = g
       /\ UNCHANGED <<dnsvars, procvars, fds, host, ghosts, netvars>>)

DelWlo == Request("del_wlo", DelRouteOk("default", "wlp2s0", gw),
                  DelRoute("default", "wlp2s0", gw), "add_tun")

AddTun == Request("add_tun", AddRouteOk("default", "tun0", Peer),
                  AddRoute("default", "tun0", Peer), "add_host")

\* Mutant: no route around the tunnel for the server.
AddHostForgotten == Request("add_host", TRUE, UNCHANGED netvars, "fork")

AddHost == Request("add_host", AddRouteOk("server", "wlp2s0", gw),
                   AddRoute("server", "wlp2s0", gw), "fork")

\* start_tun2socks: parent and child both assert an unprivileged process.  The
\* child opens its log so, and escalates just before the exec (ChildExec): what
\* it does between the two is nothing to any other process.
Fork ==
  /\ At("fork")
  /\ Asserted(cred.euid = 1000,
       /\ Then("read_r")
       /\ child' = [child EXCEPT ![run] = "forked"]
       /\ UNCHANGED <<dnsvars, clash, listed, ss, signalled, fds,
                      RestOfMachine>>)

\* sleep(1) gives the child the time to exec; then the user presses Enter.
Enter ==
  /\ At("read_r")
  /\ child[run] # "forked"
  /\ Then("kill_tun")
  /\ UNCHANGED <<dnsvars, procvars, fds, RestOfMachine>>

\* Mutant: tun2socks is not signalled.
KillTunForgotten ==
  /\ At("kill_tun")
  /\ Then("del_host")
  /\ UNCHANGED <<dnsvars, procvars, fds, RestOfMachine>>

\* assert(0==kill(pid,SIGINT)): never waited for, the pid stays valid.
KillTun ==
  /\ At("kill_tun")
  /\ Then("del_host")
  /\ signalled' = IF child[run] = "forked" THEN signalled
                  ELSE signalled \cup {run}
  /\ UNCHANGED <<dnsvars, clash, listed, ss, child, fds, RestOfMachine>>

\* Mutant: the route to the server stays.
DelHostForgotten == Request("del_host", TRUE, UNCHANGED netvars, "del_tun")

\* Mutant: reset() waits for tun2socks to be gone first.
DelHostWaits ==
  /\ At("del_host")
  /\ child[run] = "none"
  /\ Request("del_host", DelRouteOk("server", "wlp2s0", gw),
             DelRoute("server", "wlp2s0", gw), "del_tun")

\* reset(): the default route back, then tun0 away.
DelHost == Request("del_host", DelRouteOk("server", "wlp2s0", gw),
                   DelRoute("server", "wlp2s0", gw), "del_tun")

DelTun == Request("del_tun", DelRouteOk("default", "tun0", Peer),
                  DelRoute("default", "tun0", Peer), "add_wlo")

AddWlo == Request("add_wlo", AddRouteOk("default", "wlp2s0", gw),
                  AddRoute("default", "wlp2s0", gw), "tun_down")

netlink_down == Request("tun_down", FlagsOk, LinkDown, "del_link")

\* Mutant: tun0 is only taken down, not deleted.
netlink_del_link_forgotten ==
  /\ At("del_link")
  /\ Then("netlink_end")
  /\ UNCHANGED <<dnsvars, procvars, fds, RestOfMachine>>

\* A tun2socks that still has the link open keeps a dead descriptor.
netlink_del_link ==
  /\ At("del_link")
  /\ Asserted(DelLinkOk,
       /\ Then("netlink_end")
       /\ DelLink
       /\ child' = [r \in Runs |->
                      IF child[r] = "attached" THEN "detached" ELSE child[r]]
       /\ UNCHANGED <<dnsvars, clash, listed, ss, signalled, fds, gw, host,
                      ghosts>>)

netlink_end ==
  /\ At("netlink_end")
  /\ Then("stop_ss")
  /\ fds' = fds \ {"netlink"}
  /\ UNCHANGED <<dnsvars, procvars, RestOfMachine>>

\* stop_ss() on a server that still serves; on one that a Ctrl-C has ended,
\* pthread_kill succeeds or not, or the signal ends the process (SsThread).
StopSs ==
  /\ At("stop_ss")
  /\ \/ /\ Then("google_bak")
        /\ ss' = "over"
        /\ UNCHANGED <<dnsvars, clash, listed, child, signalled, fds,
                       RestOfMachine>>
     \/ ss = "over" /\ Abort

bus_end ==
  /\ At("bus_end")
  /\ Then("return")
  /\ fds' = fds \ {"bus"}
  /\ UNCHANGED <<dnsvars, procvars, RestOfMachine>>

Return ==
  /\ At("return")
  /\ Dies("clean")
  /\ UNCHANGED <<dnsvars, clash, listed, child, signalled, gw, host, run,
                 faults, before, netvars>>

\* Mutants: the foreign resolver comes before the other one goes; its rename
\* is forgotten; its name is misspelt; the first rename is not asserted.
AliBakForgotten == Rename("ali_bak", "google.bak", "google.conf", "restart")
GoogleConfForgotten ==
  /\ At("google_conf")
  /\ Then("restart")
  /\ UNCHANGED <<dnsvars, procvars, fds, RestOfMachine>>
GoogleConfMisspelt == Rename("google_conf", "google.bak", "google.cnf", "restart")
AliBakUnasserted ==
  /\ At("ali_bak")
  /\ Then("google_conf")
  /\ files' = IF "ali.conf" \in files THEN (files \ {"ali.conf"}) \cup {"ali.bak"}
              ELSE files
  /\ UNCHANGED <<resolved, job, procvars, fds, RestOfMachine>>

AliBak == Rename("ali_bak", "ali.conf", "ali.bak", "google_conf")
GoogleConf == Rename("google_conf", "google.bak", "google.conf", "restart")
GoogleBak == Rename("google_bak", "google.conf", "google.bak", "ali_conf")
AliConf == Rename("ali_conf", "ali.bak", "ali.conf", "restart_back")

\* The steps of main() that only need the processor.
MainStep ==
  \/ privilege_escalate \/ privilege_drop
  \/ Select \/ Record \/ bus_init \/ AliBak \/ GoogleConf
  \/ Restart("restart", "flush") \/ Flush("flush", "readproctab")
  \/ Readproctab \/ KillClash \/ PollClash \/ StartSs
  \/ netlink_init \/ ioctl_tun_create \/ netlink_tun_addr \/ netlink_up
  \/ netlink_get_gateway \/ DelWlo \/ AddTun \/ AddHost \/ Fork
  \/ KillTun \/ DelHost \/ DelTun \/ AddWlo \/ netlink_down
  \/ netlink_del_link \/ netlink_end \/ StopSs
  \/ GoogleBak \/ AliConf
  \/ Restart("restart_back", "flush_back") \/ Flush("flush_back", "bus_end")
  \/ bus_end \/ Return

------------------------------------------------------------------------------
\* systemd restarts systemd-resolved, which reads the files it finds.
JobRuns ==
  /\ job
  /\ job' = FALSE /\ resolved' = Active
  /\ UNCHANGED <<mainvars, files, procvars, fds, RestOfMachine>>

\* clash handles its SIGINT.
ClashDies ==
  /\ clash = "dying"
  /\ clash' = "gone"
  /\ listed' = IF listed = "alive" THEN "dead" ELSE listed
  /\ UNCHANGED <<mainvars, dnsvars, ss, child, signalled, fds, RestOfMachine>>

\* The user runs clash again when there is no tunnel.
ClashStarts ==
  /\ pc = "off" /\ clash = "gone"
  /\ clash' \in Running
  /\ UNCHANGED <<mainvars, dnsvars, listed, ss, child, signalled, fds,
                 RestOfMachine>>

\* The child's exec: tun2socks opens tun0, making it if it is not there (and
\* then only for as long as it runs), and gives up on a link in use.
ChildExec(r) ==
  /\ child[r] = "forked"
  /\ child' = [child EXCEPT ![r] = IF Attached THEN "none" ELSE "attached"]
  /\ tun' = IF tun = "absent" THEN "bare" ELSE tun
  /\ UNCHANGED <<mainvars, dnsvars, clash, listed, ss, signalled, fds, gw,
                 host, ghosts, persist, routes, lease>>

\* tun2socks handles its SIGINT, or fails on a descriptor whose link is gone.
ChildDies(r) ==
  /\ \/ child[r] = "attached" /\ r \in signalled
     \/ child[r] = "detached"
  /\ child' = [child EXCEPT ![r] = "none"]
  /\ IF child[r] = "attached" /\ ~persist
       THEN tun' = "absent" /\ routes' = {q \in routes : q.dev # "tun0"}
       ELSE UNCHANGED <<tun, routes>>
  /\ UNCHANGED <<mainvars, dnsvars, clash, listed, ss, signalled, fds, gw,
                 host, ghosts, persist, lease>>

DhcpRenews ==
  /\ DhcpRenew
  /\ UNCHANGED <<mainvars, dnsvars, procvars, fds, gw, host, ghosts>>

\* After an aborted run: killall tun2socks (readme.md:56), test.sh:17-27, and
\* the DNS files by hand.
OperatorCleans ==
  /\ pc = "off" /\ outcome = "abort"
  /\ OperatorResets
  /\ child' = [r \in Runs |-> "none"]
  /\ files' = Home /\ job' = TRUE
  /\ outcome' = "none"
  /\ UNCHANGED <<mainvars, resolved, clash, listed, ss, signalled, fds, gw,
                 host, run, faults, before>>

------------------------------------------------------------------------------
Mishap == faults < MaxFaults /\ faults' = faults + 1

\* An assert fails for a reason of its own, or the process is killed.
Crash ==
  /\ pc # "off"
  /\ Mishap
  /\ Dies("abort")
  /\ UNCHANGED <<dnsvars, clash, listed, child, signalled, gw, host, run,
                 before, netvars>>

\* Ctrl-C goes to the whole process group: the server thread's watcher takes
\* it in clash_tun, tun2socks ends (but a child before its exec still has the
\* server's handler, which swallows it).
CtrlC ==
  /\ ss = "up"
  /\ Mishap
  /\ ss' = "over"
  /\ signalled' = signalled \cup {r \in Runs : child[r] \in {"attached", "detached"}}
  /\ UNCHANGED <<mainvars, dnsvars, clash, listed, child, fds, gw, host, run,
                 outcome, before, netvars>>

\* clash ends, or comes back, while clash_tun is about to replace it.
ClashRaces ==
  /\ pc # "off"
  /\ Mishap
  /\ \/ /\ clash \in Running /\ clash' = "gone"
        /\ listed' = IF listed = "alive" THEN "dead" ELSE listed
     \/ /\ clash = "gone" /\ ss = "none" /\ clash' \in Running
        /\ listed' = listed
  /\ UNCHANGED <<mainvars, dnsvars, ss, child, signalled, fds, gw, host, run,
                 outcome, before, netvars>>

\* The second of sleep() was not enough for the child.
EnterTooEarly ==
  /\ At("read_r")
  /\ child[run] = "forked"
  /\ Mishap
  /\ Then("kill_tun")
  /\ UNCHANGED <<dnsvars, procvars, fds, gw, host, run, outcome, before,
                 netvars>>

NetworkChanges ==
  /\ Mishap
  /\ LeaseMove \/ WloFlap
  /\ UNCHANGED <<mainvars, dnsvars, procvars, fds, gw, host, run, outcome,
                 before>>

NoMoreRuns == pc = "off" /\ run = MaxRuns /\ UNCHANGED vars

Next ==
  \/ MainStep
  \/ Start \/ Enter \/ JobRuns \/ ClashDies \/ ClashStarts
  \/ \E r \in Runs : ChildExec(r) \/ ChildDies(r)
  \/ DhcpRenews \/ OperatorCleans
  \/ Crash \/ CtrlC \/ ClashRaces \/ EnterTooEarly \/ NetworkChanges
  \/ NoMoreRuns

\* main() and the other processes are scheduled.  Nothing makes the user press
\* Enter or start anything, and no mishap has to happen.
Fairness ==
  /\ WF_vars(MainStep)
  /\ WF_vars(JobRuns)
  /\ WF_vars(ClashDies)
  /\ \A r \in Runs : WF_vars(ChildExec(r)) /\ WF_vars(ChildDies(r))

Spec == Init /\ [][Next]_vars /\ Fairness

------------------------------------------------------------------------------
\* Each resolver keeps exactly one of its two files through any number of
\* crashes and runs, and the two are never active together: no rename ever
\* overwrites a file, and the two directions are ordered so that the gap is
\* "no resolver", not "both".
DnsConserved ==
  \/ files = Home \/ files = Tunnel
  \/ files = {"ali.bak", "google.bak"}

\* main() before it takes the DNS files.
Opening == {"select", "record", "bus_init", "ali_bak"}

\* main() between taking the DNS files and giving them back.
Swapped ==
  Pcs \ (Opening \cup {"off", "google_conf", "ali_conf", "restart_back",
                        "flush_back", "bus_end", "return"})

\* From killing clash to stopping the server the foreign resolver is in place,
\* also in a run that began on what an aborted one left behind: that run stops
\* at its first rename.
DnsWithTunnel == pc \in Swapped => files = Tunnel

\* The steps of main() that the user's identity matters for: files in /tmp, the
\* server thread, the fork.
UserSteps == {"select", "record", "start_ss", "fork", "read_r", "stop_ss"}

\* main() never makes these with root's identity, wherever the escalations around
\* them are: the record and the logs are the user's files, and fork() hands the
\* child the user's identity, which both sides assert.  (Of the child no more is
\* said: it opens its log with that identity and becomes root for its exec.)
UserStepsUnprivileged ==
  /\ pc \in UserSteps /\ todo = "call" => cred = [euid |-> 1000, egid |-> 1000]
  /\ todo = "escalate" => cred = [euid |-> 1000, egid |-> 1000]

\* Without a mishap, when clash is a foreground job and wlp2s0 has the preferred
\* default route, no assertion of main() fails, run after run: what a run leaves
\* (a default route of another kind than it found, a restarted clash, a
\* tun2socks still dying) does not stop the next one.
QuietRunCompletes ==
  outcome = "abort" =>
    faults > 0 \/ before.dev # "wlp2s0" \/ ~before.clash

\* A run that returns from main() has put back what it took, mishaps or not:
\* DNS files, no route to the server, none through tun0; and without a mishap
\* traffic takes the same way as before and tun0 is gone.
CleanExitRestores ==
  outcome = "clean" =>
    /\ files = Home
    /\ \A r \in routes : r.dst # "server" /\ r.dev # "tun0"
    /\ faults = 0 /\ before.dev = "wlp2s0" =>
         tun = "absent" /\ BestIs("wlp2s0", before.via)

\* While main() waits for Enter, without a mishap, the tunnel is whole: all
\* traffic goes to tun0 except the server's own, the server runs, clash is out
\* of the way; DHCP renewals do not change that.
SessionTunnelled ==
  pc = "read_r" /\ faults = 0 =>
    /\ tun = "up" /\ BestIs("tun0", Peer)
    /\ \E r \in routes : r.dst = "server" /\ r.dev = "wlp2s0" /\ r.via = gw
    /\ ss = "up" /\ clash = "gone"

\* The server's traffic never loops through the tunnel it feeds, except while
\* a tun2socks that has its SIGINT is still dying (reset() does not wait for
\* it).
NoLoopBeforeKill ==
  faults = 0 /\ BestIs("tun0", Peer) /\ ss = "up" =>
    \A r \in Runs : child[r] = "attached" /\ r \notin signalled =>
      \E q \in routes : q.dst = "server" /\ q.dev = "wlp2s0"

\* A route to the server is one that the clean-up of readme.md can find: the file
\* names the server of the run that made it, whatever aborted after.  Only a
\* later run hides it, from the moment it has unlinked the file to write its
\* own, and such a run gets no further than its first rename.
RecordNamesRoute ==
  (\E r \in routes : r.dst = "server") =>
    \/ host.named = host.routed
    \/ /\ host.routed < run
       /\ host.named \in {0} \cup (host.routed + 1)..run
       /\ pc \in {"off"} \cup Opening

\* main() hangs nowhere but at the user's prompt, whatever clash, tun2socks and
\* the network do meanwhile: a run comes to the prompt or to its end, and once
\* the user has pressed Enter to its end.
RunEnds == []<>(pc \in {"off", "read_r"})

\* systemd-resolved works with the files that are there whenever main() waits
\* for the user or has returned, although the restart is only queued.
ResolvedFollows ==
  []<>(resolved = Active \/ pc \notin {"read_r", "off"} \/ outcome = "abort")
==============================================================================
