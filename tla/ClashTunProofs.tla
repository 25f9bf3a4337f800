--------------------------- MODULE ClashTunProofs ----------------------------
(***************************************************************************)
(* Proofs about ClashTun for any gateways, any number of runs and of        *)
(* mishaps, in three layers:                                                *)
(*   CoreInv     which identity the process has at each point of main() and *)
(*               which DNS files exist at each; a crash anywhere keeps both;*)
(*   MachineInv  types, the shape of the routing table, what reset() has    *)
(*               undone, descriptors: whatever mishaps happen; on top of it *)
(*               RecordInv, which run's server /tmp/ss-local.json names;    *)
(*   QuietInv    without a mishap, the link, the table and the processes at *)
(*               each point of main(), so that each assertion holds but the *)
(*               four of Refused.                                           *)
(***************************************************************************)
EXTENDS ClashTun, TLAPS

RootCred == [euid |-> 0, egid |-> 0]

UserCred == [euid |-> 1000, egid |-> 1000]

\* The calls made inside an ESCALATED block that an earlier call opened.
InBlock == {"google_conf", "ali_conf", "poll"}

\* What privilege_escalate and privilege_drop leave the process with.
PrivilegeInv ==
  /\ pc \in Pcs
  /\ todo \in {"escalate", "call", "drop"}
  /\ pc = "off" => todo = "call" /\ cred = RootCred
  /\ todo = "escalate" => cred = UserCred /\ pc \in Privileged
  /\ todo = "drop" => cred = RootCred /\ pc \notin InBlock
  /\ todo = "call" /\ pc \in Privileged \cup InBlock => cred = RootCred
  /\ todo = "call" /\ pc \notin Privileged \cup InBlock \cup {"off"} =>
       cred = UserCred

\* The DNS files at each point of main().
DnsInv ==
  /\ DnsConserved
  /\ DnsWithTunnel
  /\ pc \in InBlock \ {"poll"} => files = {"ali.bak", "google.bak"}
  /\ pc \in {"restart_back", "flush_back", "bus_end", "return"} => files = Home

CoreInv == PrivilegeInv /\ DnsInv

USE DEF Pcs, Privileged, InBlock, RootCred, UserCred, Home, Tunnel, Opening,
        Swapped

\* A machine at rest has its own resolver and no process.
LEMMA InitCore == Init => CoreInv
  BY DEF Init, CoreInv, PrivilegeInv, DnsInv, DnsConserved, DnsWithTunnel

\* Escalating and dropping change the identity only; dropping succeeds because
\* it is done by root.
LEMMA PrivilegeCore ==
  ASSUME CoreInv, privilege_escalate \/ privilege_drop
  PROVE  CoreInv'
  BY DEF privilege_escalate, privilege_drop, Setegid, Abort, Dies, dnsvars,
         CoreInv, PrivilegeInv, DnsInv, DnsConserved, DnsWithTunnel

\* However the process ends, the files stay, and the next one starts as root.
LEMMA DiesCore ==
  ASSUME CoreInv, NEW how, Dies(how), UNCHANGED files
  PROVE  CoreInv'
  BY DEF Dies, CoreInv, PrivilegeInv, DnsInv, DnsConserved, DnsWithTunnel

\* The four renames: each finds its source, overwrites nothing, and moves to
\* the point of main() where the new set of files is expected.
LEMMA RenameCore ==
  ASSUME CoreInv, AliBak \/ GoogleConf \/ GoogleBak \/ AliConf
  PROVE  CoreInv'
  BY DEF AliBak, GoogleConf, GoogleBak, AliConf, Rename, Asserted, At, Then,
         Abort, Dies, dnsvars,
         CoreInv, PrivilegeInv, DnsInv, DnsConserved, DnsWithTunnel

\* The stretches of main() in which the files do not change.
Stretch(p, q) ==
  \/ p \in Opening \ {"ali_bak"} /\ q \in Opening
  \/ p \in Swapped \ {"google_bak"} /\ q \in Swapped
  \/ /\ p \in {"restart_back", "flush_back", "bus_end"}
     /\ q \in {"restart_back", "flush_back", "bus_end", "return"}

\* A call of main() that succeeds without touching the files.
LEMMA MoveCore ==
  ASSUME CoreInv, NEW p, NEW q, At(p), Then(q), Stretch(p, q),
         q = "poll" => p = "kill", UNCHANGED files
  PROVE  CoreInv'
  BY DEF At, Then, Stretch, CoreInv, PrivilegeInv, DnsInv, DnsConserved,
         DnsWithTunnel

\* An asserted call: it succeeds and main() goes on, or the process is gone.
LEMMA AssertedCore ==
  ASSUME CoreInv, NEW p, NEW q, At(p), Stretch(p, q), q = "poll" => p = "kill",
         (Then(q) /\ UNCHANGED files) \/ Abort
  PROVE  CoreInv'
  BY MoveCore, DiesCore DEF Abort, dnsvars

\* The calls of main() outside the network.
LEMMA ProcessCore ==
  ASSUME CoreInv,
         \/ Select \/ Record \/ bus_init
         \/ Restart("restart", "flush") \/ Flush("flush", "readproctab")
         \/ Readproctab \/ KillClash \/ PollClash \/ StartSs
         \/ netlink_init \/ Fork \/ Enter \/ EnterTooEarly \/ KillTun
         \/ netlink_end \/ StopSs
         \/ Restart("restart_back", "flush_back")
         \/ Flush("flush_back", "bus_end") \/ bus_end
  PROVE  CoreInv'
<1> USE DEF dnsvars, Asserted, Stretch
<1>1. CASE Select \/ Record \/ bus_init
  BY <1>1, AssertedCore DEF Select, Record, bus_init
<1>2. CASE Restart("restart", "flush") \/ Restart("restart_back", "flush_back")
  BY <1>2, AssertedCore DEF Restart
<1>3. CASE Flush("flush", "readproctab") \/ Flush("flush_back", "bus_end")
  BY <1>3, AssertedCore DEF Flush
<1>4. CASE Readproctab
  BY <1>4, AssertedCore DEF Readproctab
<1>5. CASE KillClash \/ PollClash \/ StartSs
  BY <1>5, AssertedCore DEF KillClash, PollClash, StartSs
<1>6. CASE netlink_init \/ Fork
  BY <1>6, AssertedCore DEF netlink_init, Fork
<1>7. CASE Enter \/ EnterTooEarly \/ KillTun
  BY <1>7, AssertedCore DEF Enter, EnterTooEarly, KillTun
<1>8. CASE netlink_end \/ StopSs \/ bus_end
  BY <1>8, AssertedCore DEF netlink_end, StopSs, bus_end
<1> QED
  BY <1>1, <1>2, <1>3, <1>4, <1>5, <1>6, <1>7, <1>8

\* The requests of set() and reset().
LEMMA NetworkCore ==
  ASSUME CoreInv,
         \/ ioctl_tun_create \/ netlink_tun_addr \/ netlink_up
         \/ netlink_get_gateway \/ DelWlo \/ AddTun \/ AddHost
         \/ DelHost \/ DelTun \/ AddWlo \/ netlink_down \/ netlink_del_link
  PROVE  CoreInv'
<1> USE DEF dnsvars, Asserted, Stretch
<1>1. CASE ioctl_tun_create \/ netlink_tun_addr \/ netlink_up
  BY <1>1, AssertedCore DEF ioctl_tun_create, netlink_tun_addr, netlink_up, Request
<1>2. CASE netlink_get_gateway
  BY <1>2, AssertedCore DEF netlink_get_gateway
<1>3. CASE DelWlo \/ AddTun \/ AddHost
  BY <1>3, AssertedCore DEF DelWlo, AddTun, AddHost, Request
<1>4. CASE DelHost \/ DelTun \/ AddWlo
  BY <1>4, AssertedCore DEF DelHost, DelTun, AddWlo, Request
<1>5. CASE netlink_down
  BY <1>5, AssertedCore DEF netlink_down, Request
<1>6. CASE netlink_del_link
  BY <1>6, AssertedCore DEF netlink_del_link
<1> QED
  BY <1>1, <1>2, <1>3, <1>4, <1>5, <1>6

\* What happens around main() without touching it or the files.
LEMMA AroundCore ==
  ASSUME CoreInv, UNCHANGED <<mainvars, files>>
  PROVE  CoreInv'
  BY DEF mainvars, CoreInv, PrivilegeInv, DnsInv, DnsConserved, DnsWithTunnel

\* The machine around main(): systemd, clash, tun2socks, DHCP, Ctrl-C.
LEMMA EnvironmentCore ==
  ASSUME CoreInv,
         \/ JobRuns \/ ClashDies \/ ClashStarts
         \/ \E r \in Runs : ChildExec(r) \/ ChildDies(r)
         \/ DhcpRenews \/ CtrlC \/ ClashRaces \/ NetworkChanges
         \/ NoMoreRuns \/ UNCHANGED vars
  PROVE  CoreInv'
  BY AroundCore
     DEF JobRuns, ClashDies, ClashStarts, ChildExec, ChildDies, DhcpRenews,
         CtrlC, ClashRaces, NetworkChanges, NoMoreRuns, vars, dnsvars

\* A run begins, ends or is cleaned up after.
LEMMA RunCore ==
  ASSUME CoreInv, Start \/ Return \/ Crash \/ OperatorCleans
  PROVE  CoreInv'
<1>1. CASE Start \/ OperatorCleans
  BY <1>1 DEF Start, OperatorCleans, mainvars, dnsvars, CoreInv, PrivilegeInv,
              DnsInv, DnsConserved, DnsWithTunnel
<1>2. CASE Return \/ Crash
  BY <1>2, DiesCore DEF Return, Crash, dnsvars
<1> QED
  BY <1>1, <1>2

\* Every step keeps the two.
LEMMA CoreStep ==
  ASSUME CoreInv, [Next]_vars
  PROVE  CoreInv'
  BY PrivilegeCore, RenameCore, ProcessCore, NetworkCore, EnvironmentCore, RunCore
     DEF Next, MainStep

\* The identity of the process and the DNS files are right at every point of
\* main(), in every run, whatever the earlier runs and the mishaps left.
THEOREM CoreCorrect == Spec => []CoreInv
  BY CoreStep, InitCore, PTL DEF Spec

\* No DNS file is ever lost and the two resolvers are never active together.
THEOREM DnsConservedAlways == Spec => []DnsConserved
<1>1. CoreInv => DnsConserved
  BY DEF CoreInv, DnsInv
<1> QED
  BY <1>1, CoreCorrect, PTL

\* The foreign resolver is in place whenever main() is between killing clash
\* and stopping the server.
THEOREM DnsWithTunnelAlways == Spec => []DnsWithTunnel
<1>1. CoreInv => DnsWithTunnel
  BY DEF CoreInv, DnsInv
<1> QED
  BY <1>1, CoreCorrect, PTL

\* The calls meant for the user's identity are made with it.
THEOREM UserStepsUnprivilegedAlways == Spec => []UserStepsUnprivileged
<1>1. CoreInv => UserStepsUnprivileged
  BY DEF CoreInv, PrivilegeInv, UserStepsUnprivileged, UserSteps
<1> QED
  BY <1>1, CoreCorrect, PTL

------------------------------------------------------------------------------
(* The machine: link, routes, processes.  The points of main() in order.     *)

Swapping == {"google_conf", "restart", "flush", "readproctab", "kill", "poll",
             "start_ss", "netlink_init", "tun_create"}

Building == {"tun_addr", "tun_up", "get_gw", "del_wlo"}

Diverting == {"add_tun", "add_host"}

Session == {"fork", "read_r", "kill_tun", "del_host"}

Undoing == {"del_tun", "add_wlo", "tun_down", "del_link"}

Closing == {"netlink_end", "stop_ss", "google_bak", "ali_conf", "restart_back",
            "flush_back", "bus_end", "return"}

\* The routes there can be, and one route without a metric per destination:
\* the kernel refuses a second one.
RouteInv ==
  /\ \A r \in routes :
       \/ /\ r.via \in Gateways
          /\ \/ r.dst = "default" /\ r.dev = "wlp2s0" /\ r.metric \in {0, 3003}
             \/ r.dst = "default" /\ r.dev = "eth" /\ r.metric = 3002
             \/ r.dst = "server" /\ r.dev = "wlp2s0" /\ r.metric = 0
       \/ r.dst = "default" /\ r.dev = "tun0" /\ r.via = Peer /\ r.metric = 0
  /\ \A r, q \in routes :
       r.dst = q.dst /\ r.metric = 0 /\ q.metric = 0 => r = q

NoServer == \A r \in routes : r.dst # "server"

NoTun == \A r \in routes : r.dev # "tun0"

\* What reset() has undone stays undone, also after the run.
RunInv ==
  /\ pc # "off" => outcome = "none" /\ run \in Runs
  /\ outcome = "clean" => files = Home
  /\ outcome = "clean" \/ pc \in Undoing \cup Closing => NoServer
  /\ outcome = "clean" \/ pc \in {"del_link"} \cup Closing => NoTun

\* The descriptors main() has at each point.
FdsInv ==
  /\ pc \notin {"off", "select", "record", "bus_init", "return"} => "bus" \in fds
  /\ pc \in {"tun_create", "netlink_end"} \cup Building \cup Diverting
               \cup Session \cup Undoing => "netlink" \in fds

MachineInv == CoreInv /\ TypeOK /\ RouteInv /\ RunInv /\ FdsInv

\* A table that only loses routes.
LEMMA FewerRoutes ==
  ASSUME RouteInv, routes \in SUBSET Route, routes' \subseteq routes
  PROVE  RouteInv' /\ routes' \in SUBSET Route
  BY DEF RouteInv

\* The DHCP client's default joins what is left of the table.
LEMMA DhcpRoutes ==
  ASSUME RouteInv, routes \in SUBSET Route, NEW g \in Gateways,
         routes' \subseteq routes \cup {DhcpDefault("wlp2s0", g)}
  PROVE  RouteInv' /\ routes' \in SUBSET Route
<1> DEFINE d == DhcpDefault("wlp2s0", g)
<1>1. /\ d \in Route /\ d.dst = "default" /\ d.dev = "wlp2s0"
      /\ d.via \in Gateways /\ d.metric = 3003
  BY DEF DhcpDefault, Metric, Route, Dsts, Devs, Hops, Metrics
<1>2. routes' \subseteq routes \cup {d}
  OBVIOUS
<1> HIDE DEF d
<1>3. \A r \in routes' : r \in routes \/ r = d
  BY <1>2
<1>4. \A r \in routes' : r.metric = 0 => r \in routes
  BY <1>1, <1>3
<1>5. \A r, q \in routes' :
        r.dst = q.dst /\ r.metric = 0 /\ q.metric = 0 => r = q
  BY <1>3, <1>4 DEF RouteInv
<1> QED
  BY <1>1, <1>3, <1>5 DEF RouteInv

\* A route the kernel accepts is the only one without a metric to its
\* destination.
LEMMA AddedRoutes ==
  ASSUME RouteInv, routes \in SUBSET Route, NEW dst, NEW dev, NEW via,
         <<dst, dev, via>> \in {<<"default", "tun0", Peer>>}
            \cup {<<"default", "wlp2s0", g>> : g \in Gateways}
            \cup {<<"server", "wlp2s0", g>> : g \in Gateways},
         AddRouteOk(dst, dev, via), AddRoute(dst, dev, via)
  PROVE  RouteInv' /\ routes' \in SUBSET Route
<1> DEFINE b == BootRoute(dst, dev, via)
<1>1. /\ b \in Route
      /\ b.dst = dst /\ b.dev = dev /\ b.via = via /\ b.metric = 0
  BY DEF BootRoute, Metric, Route, Dsts, Devs, Hops, Metrics
<1>2. routes' = routes \cup {b} /\ \A r \in routes : r.dst = dst => r.metric # 0
  BY DEF AddRoute, AddRouteOk, Metric
<1> HIDE DEF b
<1> QED
  BY <1>1, <1>2 DEF RouteInv

\* Deleting a route keeps the table in shape.
LEMMA DeletedRoutes ==
  ASSUME RouteInv, routes \in SUBSET Route, NEW dst, NEW dev, NEW via,
         DelRoute(dst, dev, via)
  PROVE  RouteInv' /\ routes' \in SUBSET Route
  BY FewerRoutes DEF DelRoute

\* The steps that touch the link or the table.
NetActions ==
  \/ ioctl_tun_create \/ netlink_tun_addr \/ netlink_up
  \/ DelWlo \/ AddTun \/ AddHost \/ DelHost \/ DelTun \/ AddWlo
  \/ netlink_down \/ netlink_del_link
  \/ \E r \in Runs : ChildExec(r) \/ ChildDies(r)
  \/ DhcpRenews \/ NetworkChanges \/ OperatorCleans

\* All others leave them alone.
LEMMA NetFrame ==
  ASSUME [Next]_vars
  PROVE  NetActions \/ UNCHANGED netvars
<1>1. CASE privilege_escalate \/ privilege_drop \/ Select \/ Record \/ bus_init \/ AliBak
            \/ GoogleConf \/ GoogleBak \/ AliConf \/ Readproctab \/ KillClash
            \/ PollClash \/ StartSs \/ netlink_init \/ netlink_get_gateway
            \/ Fork \/ KillTun \/ netlink_end \/ StopSs \/ bus_end \/ Return
            \/ Restart("restart", "flush") \/ Flush("flush", "readproctab")
            \/ Restart("restart_back", "flush_back")
            \/ Flush("flush_back", "bus_end")
  BY <1>1
     DEF privilege_escalate, privilege_drop, Select, Record, bus_init, AliBak,
           GoogleConf, GoogleBak, AliConf, Rename, Readproctab, KillClash,
           PollClash, StartSs, netlink_init, netlink_get_gateway, Fork, KillTun,
           netlink_end, StopSs, bus_end, Return, Restart, Flush, Asserted, Abort,
           RestOfMachine
<1>2. CASE Start \/ Enter \/ JobRuns \/ ClashDies \/ ClashStarts \/ Crash
            \/ CtrlC \/ ClashRaces \/ EnterTooEarly \/ NoMoreRuns
            \/ UNCHANGED vars
  BY <1>2 DEF Start, Enter, JobRuns, ClashDies, ClashStarts, Crash, CtrlC,
                 ClashRaces, EnterTooEarly, NoMoreRuns, RestOfMachine, vars
<1> QED
  BY <1>1, <1>2 DEF NetActions, Next, MainStep

\* Every request of main() and every event around it keeps the table in shape.
LEMMA NetStep ==
  ASSUME MachineInv, [Next]_vars
  PROVE  NetTypeOK' /\ RouteInv'
<1>0. NetTypeOK /\ RouteInv /\ gw \in Gateways
  BY DEF MachineInv, TypeOK
<1> USE <1>0 DEF NetTypeOK, Links, netvars
<1>1. CASE UNCHANGED netvars
  BY <1>1 DEF RouteInv
<1>2. CASE ioctl_tun_create \/ netlink_tun_addr \/ netlink_up
  <2>1. routes' = routes /\ tun' \in Links /\ lease' = lease
    BY <1>2 DEF ioctl_tun_create, netlink_tun_addr, netlink_up, Request,
                Asserted, Abort, TunCreate, TunAddr, LinkUp
  <2>2. persist' = persist \/ persist' = TRUE
    BY <1>2 DEF ioctl_tun_create, netlink_tun_addr, netlink_up, Request,
                Asserted, Abort, TunCreate, TunAddr, LinkUp
  <2>3. persist' \in BOOLEAN
    BY <2>2
  <2> QED
    BY <2>1, <2>3, FewerRoutes
<1>3. CASE DelWlo \/ DelHost \/ DelTun
  <2>1. CASE \E dst, dev, via : DelRoute(dst, dev, via)
    BY <2>1, DeletedRoutes DEF DelRoute
  <2> QED
    BY <1>1, <1>3, <2>1 DEF DelWlo, DelHost, DelTun, Request, Asserted, Abort
<1>4. CASE AddTun \/ AddHost \/ AddWlo
  <2>1. CASE AddRouteOk("default", "tun0", Peer) /\ AddRoute("default", "tun0", Peer)
    BY <2>1, AddedRoutes DEF AddRoute
  <2>2. CASE AddRouteOk("server", "wlp2s0", gw) /\ AddRoute("server", "wlp2s0", gw)
    BY <2>2, AddedRoutes DEF AddRoute
  <2>3. CASE AddRouteOk("default", "wlp2s0", gw) /\ AddRoute("default", "wlp2s0", gw)
    BY <2>3, AddedRoutes DEF AddRoute
  <2> QED
    BY <1>1, <1>4, <2>1, <2>2, <2>3
       DEF AddTun, AddHost, AddWlo, Request, Asserted, Abort
<1>5. CASE netlink_down \/ netlink_del_link
  <2>1. routes' \subseteq routes /\ tun' \in Links /\ lease' = lease
    BY <1>5 DEF netlink_down, netlink_del_link, Request, Asserted, Abort,
                LinkDown, DelLink
  <2>2. persist' = persist \/ persist' = FALSE
    BY <1>5 DEF netlink_down, netlink_del_link, Request, Asserted, Abort,
                LinkDown, DelLink
  <2>3. persist' \in BOOLEAN
    BY <2>2
  <2> QED
    BY <2>1, <2>3, FewerRoutes
<1>6. CASE \E r \in Runs : ChildExec(r) \/ ChildDies(r)
  BY <1>6, FewerRoutes DEF ChildExec, ChildDies
<1>7. CASE DhcpRenews
  BY <1>7, DhcpRoutes DEF DhcpRenews, DhcpRenew
<1>8. CASE NetworkChanges
  <2>1. CASE LeaseMove
    <3>1. PICK g \in Gateways \ {lease} :
            /\ lease' = g
            /\ routes' = {r \in routes : ~(r.dev = "wlp2s0" /\ r.proto = "dhcp")}
                           \cup {DhcpDefault("wlp2s0", g)}
            /\ UNCHANGED <<tun, persist>>
      BY <2>1 DEF LeaseMove
    <3>2. routes' \subseteq routes \cup {DhcpDefault("wlp2s0", g)}
      BY <3>1
    <3> QED
      BY <3>1, <3>2, DhcpRoutes
  <2>2. CASE WloFlap
    <3>1. routes' \subseteq routes \cup {DhcpDefault("wlp2s0", lease)}
      BY <2>2 DEF WloFlap
    <3> QED
      BY <2>2, <3>1, DhcpRoutes DEF WloFlap
  <2> QED
    BY <1>8, <2>1, <2>2 DEF NetworkChanges
<1>9. CASE OperatorCleans
  <2> DEFINE d == DhcpDefault("wlp2s0", lease)
  <2>1. /\ d \in Route /\ d.dst = "default" /\ d.dev = "wlp2s0"
        /\ d.via \in Gateways /\ d.metric = 3003
    BY DEF DhcpDefault, Metric, Route, Dsts, Devs, Hops, Metrics
  <2>2. /\ routes' = {d} /\ tun' = "absent" /\ persist' = FALSE
        /\ UNCHANGED lease
    BY <1>9 DEF OperatorCleans, OperatorResets
  <2> HIDE DEF d
  <2>3. persist' \in BOOLEAN
    BY <2>2
  <2>4. NetTypeOK'
    BY <2>1, <2>2, <2>3
  <2> QED
    BY <2>1, <2>2, <2>4 DEF RouteInv
<1> QED
  BY <1>1, <1>2, <1>3, <1>4, <1>5, <1>6, <1>7, <1>8, <1>9, NetFrame DEF NetActions

\* The processes, the descriptors and the counters keep their types.
LEMMA TypeStep ==
  ASSUME MachineInv, CoreInv', [Next]_vars
  PROVE  TypeOK'
<1>1. TypeOK
  BY DEF MachineInv
<1>2. NetTypeOK' /\ pc' \in Pcs /\ todo' \in {"escalate", "call", "drop"}
  BY NetStep DEF CoreInv, PrivilegeInv
<1>3. cred' \in [euid : {0, 1000}, egid : {0, 1000}]
  BY DEF CoreInv, PrivilegeInv
<1>4. files' \in SUBSET Files
  BY DEF CoreInv, DnsInv, DnsConserved, Files
<1> HIDE DEF Pcs, Privileged, Home
<1> USE DEF Next, MainStep, Asserted, Abort, Dies, Then, RestOfMachine, mainvars,
        dnsvars, procvars, ghosts, Mishap
<1> USE DEF privilege_escalate, privilege_drop, Select, Record, bus_init, AliBak,
        GoogleConf, GoogleBak, AliConf, Rename, Readproctab, KillClash,
        PollClash, StartSs, netlink_init, netlink_get_gateway, Fork, KillTun,
        netlink_end, StopSs, bus_end, Return, Restart, Flush
<1> USE DEF ioctl_tun_create, netlink_tun_addr, netlink_up, DelWlo, AddTun,
        AddHost, DelHost, DelTun, AddWlo, netlink_down, netlink_del_link, Request
<1> USE DEF Start, Enter, JobRuns, ClashDies, ClashStarts, ChildExec, ChildDies,
        DhcpRenews, OperatorCleans, Crash, CtrlC, ClashRaces, EnterTooEarly,
        NetworkChanges, NoMoreRuns, vars
<1>5. resolved' \in SUBSET Families
  BY <1>1 DEF TypeOK, Active
<1>6. job' \in BOOLEAN
  <2>1. job' = job \/ job' = TRUE \/ job' = FALSE
    OBVIOUS
  <2>2. job \in BOOLEAN
    BY <1>1 DEF TypeOK
  <2> HIDE DEF Next
  <2> QED
    BY <2>1, <2>2
<1>7. clash' \in Running \cup {"dying", "gone"}
  BY <1>1 DEF TypeOK
<1>8. listed' \in {"none", "alive", "dead"}
  BY <1>1 DEF TypeOK
<1>9. ss' \in {"none", "up", "over"}
  BY <1>1 DEF TypeOK
<1>10. fds' \in SUBSET {"bus", "netlink"}
  <2>1. fds' \in {fds, {}, fds \cup {"bus"}, fds \ {"bus"}, fds \cup {"netlink"},
                  fds \ {"netlink"}}
    OBVIOUS
  <2>2. fds \in SUBSET {"bus", "netlink"}
    BY <1>1 DEF TypeOK
  <2> HIDE DEF Next
  <2> QED
    BY <2>1, <2>2
<1>11. gw' \in Gateways
  BY <1>1 DEF TypeOK
<1>12. child' \in [Runs -> {"none", "forked", "attached", "detached"}]
  BY <1>1 DEF TypeOK
<1>13. signalled' \in SUBSET Runs
  <2>1. CASE KillTun
    <3>1. run \in Runs
      BY <2>1 DEF At, MachineInv, RunInv
    <3> HIDE DEF Next
    <3> QED
      BY <1>1, <2>1, <3>1 DEF TypeOK
  <2>2. CASE CtrlC
    <3> HIDE DEF Next
    <3> QED
      BY <1>1, <2>2 DEF TypeOK
  <2>3. CASE UNCHANGED signalled
    BY <1>1, <2>3 DEF TypeOK
  <2> QED
    BY <2>1, <2>2, <2>3
<1>14. run' \in 0..MaxRuns /\ faults' \in 0..MaxFaults
  BY <1>1, BoundsAssumption DEF TypeOK
<1>15. outcome' \in {"none", "clean", "abort"}
  BY <1>1 DEF TypeOK
<1>16. before' \in [dev : Devs \cup {"none"}, via : Hops, clash : BOOLEAN]
  <2>1. CASE Start
    <3>1. routes \in SUBSET Route
      BY <1>1 DEF TypeOK, NetTypeOK
    <3> DEFINE up == clash = "up"
    <3>2. \/ before' = [dev |-> "none", via |-> Peer, clash |-> up]
          \/ \E r \in routes : before' = [dev |-> r.dev, via |-> r.via,
                                         clash |-> up]
      BY <2>1
    <3>3. \A b \in BOOLEAN, d \in Devs \cup {"none"}, h \in Hops :
            [dev |-> d, via |-> h, clash |-> b]
              \in [dev : Devs \cup {"none"}, via : Hops, clash : BOOLEAN]
      OBVIOUS
    <3>4. up \in BOOLEAN
      OBVIOUS
    <3> HIDE DEF Next, Start, vars, up
    <3>5. \A r \in routes : r.dev \in Devs /\ r.via \in Hops
      BY <3>1 DEF Route
    <3> QED
      BY <3>2, <3>3, <3>4, <3>5 DEF Hops
  <2>2. CASE UNCHANGED before
    BY <1>1, <2>2 DEF TypeOK
  <2> QED
    BY <2>1, <2>2
<1>17. host' \in [named : 0..MaxRuns, routed : 0..MaxRuns]
  <2>1. \/ host' = host
        \/ \E n \in {0, run} : host' = [host EXCEPT !.named = n]
        \/ host' = [host EXCEPT !.routed = run]
    OBVIOUS
  <2> HIDE DEF Next
  <2> QED
    BY <1>1, <2>1, BoundsAssumption DEF TypeOK
<1> HIDE DEF Next, vars
<1> QED
  BY <1>2, <1>3, <1>4, <1>5, <1>6, <1>7, <1>8, <1>9, <1>10, <1>11, <1>12, <1>13,
     <1>14, <1>15, <1>16, <1>17 DEF TypeOK

\* The unique route without a metric to a destination is the one deleted.
LEMMA DeletedLast ==
  ASSUME RouteInv, NEW dst, NEW dev, NEW via, DelRoute(dst, dev, via),
         \E r \in Matching(dst, dev, via) : r.metric = 0,
         routes \in SUBSET Route
  PROVE  \A r \in routes' : r.dst = dst => r.metric # 0
<1>1. PICK r \in Matching(dst, dev, via) :
        /\ \A q \in Matching(dst, dev, via) : r.metric <= q.metric
        /\ routes' = routes \ {r}
  BY DEF DelRoute
<1>2. PICK z \in Matching(dst, dev, via) : z.metric = 0
  OBVIOUS
<1>3. r \in routes /\ r.dst = dst /\ z \in routes
  BY DEF Matching
<1>4. r.metric <= 0 /\ r.metric \in Metrics
  BY <1>1, <1>2, <1>3 DEF Route
<1>5. r.metric = 0
  BY <1>4 DEF Metrics
<1> QED
  BY <1>1, <1>3, <1>5 DEF RouteInv

\* Which steps add a route to the server or through tun0.
LEMMA RouteSources ==
  ASSUME MachineInv, [Next]_vars
  PROVE  /\ \A r \in routes' : r.dst = "server" =>
              r \in routes \/ (AddHost /\ pc = "add_host" /\ pc' # "off")
         /\ \A r \in routes' : r.dev = "tun0" =>
              r \in routes \/ (AddTun /\ pc = "add_tun" /\ pc' # "off")
<1>1. DhcpDefault("wlp2s0", lease).dst = "default"
      /\ DhcpDefault("wlp2s0", lease).dev = "wlp2s0"
  BY DEF DhcpDefault
<1>2. \A g : DhcpDefault("wlp2s0", g).dst = "default"
             /\ DhcpDefault("wlp2s0", g).dev = "wlp2s0"
  BY DEF DhcpDefault
<1>3. \A d, e, g : BootRoute(d, e, g).dst = d /\ BootRoute(d, e, g).dev = e
  BY DEF BootRoute
<1> HIDE DEF Pcs, Privileged, Home
<1> USE DEF Asserted, Abort, Dies, Then, RestOfMachine, mainvars,
        dnsvars, procvars, ghosts, Mishap, netvars
<1>4. CASE AddTun \/ AddHost \/ AddWlo
  BY <1>3, <1>4 DEF AddTun, AddHost, AddWlo, Request, AddRoute, At
<1>5. CASE DhcpRenews
  BY <1>2, <1>5 DEF DhcpRenews, DhcpRenew
<1>6. CASE NetworkChanges
  BY <1>2, <1>6 DEF NetworkChanges, LeaseMove, WloFlap
<1>7. CASE OperatorCleans
  BY <1>1, <1>7 DEF OperatorCleans, OperatorResets
<1>8. CASE routes' \subseteq routes
  BY <1>8
<1>9. CASE DelWlo \/ DelHost \/ DelTun
  BY <1>8, <1>9 DEF DelWlo, DelHost, DelTun, Request, DelRoute
<1>10. CASE netlink_down \/ netlink_del_link
  BY <1>8, <1>10 DEF netlink_down, netlink_del_link, Request, LinkDown, DelLink
<1>11. CASE \E r \in Runs : ChildExec(r) \/ ChildDies(r)
  BY <1>8, <1>11 DEF ChildExec, ChildDies
<1>12. CASE ioctl_tun_create \/ netlink_tun_addr \/ netlink_up \/ UNCHANGED netvars
  BY <1>8, <1>12 DEF ioctl_tun_create, netlink_tun_addr, netlink_up, Request,
                     TunCreate, TunAddr, LinkUp
<1> QED
  BY <1>4, <1>5, <1>6, <1>7, <1>9, <1>10, <1>11, <1>12, NetFrame
     DEF NetActions

\* What main() holds open.
LEMMA FdsStep ==
  ASSUME MachineInv, [Next]_vars
  PROVE  FdsInv'
<1>1. FdsInv /\ pc \in Pcs
  BY DEF MachineInv, TypeOK
<1> USE DEF Next, MainStep, Asserted, Abort, Dies, Then, At, RestOfMachine,
        mainvars, dnsvars, procvars, ghosts, Mishap
<1> USE DEF privilege_escalate, privilege_drop, Select, Record, bus_init, AliBak,
        GoogleConf, GoogleBak, AliConf, Rename, Readproctab, KillClash,
        PollClash, StartSs, netlink_init, netlink_get_gateway, Fork, KillTun,
        netlink_end, StopSs, bus_end, Return, Restart, Flush
<1> USE DEF ioctl_tun_create, netlink_tun_addr, netlink_up, DelWlo, AddTun,
        AddHost, DelHost, DelTun, AddWlo, netlink_down, netlink_del_link, Request
<1> USE DEF Start, Enter, JobRuns, ClashDies, ClashStarts, ChildExec, ChildDies,
        DhcpRenews, OperatorCleans, Crash, CtrlC, ClashRaces, EnterTooEarly,
        NetworkChanges, NoMoreRuns, vars
<1> QED
  BY <1>1 DEF FdsInv, Opening, Swapping, Building, Diverting, Session, Undoing,
              Closing

\* Where reset() and the end of main() are entered from, and a clean exit.
LEMMA Control ==
  ASSUME MachineInv, [Next]_vars
  PROVE  /\ pc' # "off" => outcome' = "none" /\ run' \in Runs
         /\ outcome' = "clean" => pc = "return" \/ (outcome = "clean" /\ pc = "off")
         /\ outcome' = "clean" => UNCHANGED files
         /\ pc' \in Undoing \cup Closing =>
              \/ pc \in Undoing \cup Closing
              \/ DelHost /\ pc = "del_host" /\ pc' = "del_tun"
         /\ pc' \in {"del_link"} \cup Closing =>
              \/ pc \in {"del_link"} \cup Closing
              \/ netlink_down /\ pc = "tun_down" /\ pc' = "del_link"
<1>1. /\ pc # "off" => outcome = "none" /\ run \in Runs
      /\ run \in 0..MaxRuns /\ pc \in Pcs /\ outcome \in {"none", "clean", "abort"}
  BY DEF MachineInv, TypeOK, RunInv
<1> USE <1>1 DEF Undoing, Closing
<1> USE DEF Next, MainStep, Asserted, Abort, Dies, Then, At, RestOfMachine,
        mainvars, dnsvars, procvars, ghosts, Mishap
<1> USE DEF privilege_escalate, privilege_drop, Select, Record, bus_init, AliBak,
        GoogleConf, GoogleBak, AliConf, Rename, Readproctab, KillClash,
        PollClash, StartSs, netlink_init, netlink_get_gateway, Fork, KillTun,
        netlink_end, StopSs, bus_end, Return, Restart, Flush
<1> USE DEF ioctl_tun_create, netlink_tun_addr, netlink_up, DelWlo, AddTun,
        AddHost, DelHost, DelTun, AddWlo, netlink_down, netlink_del_link, Request
<1> USE DEF Start, Enter, JobRuns, ClashDies, ClashStarts, ChildExec, ChildDies,
        DhcpRenews, OperatorCleans, Crash, CtrlC, ClashRaces, EnterTooEarly,
        NetworkChanges, NoMoreRuns, vars
<1>2. pc' # "off" => outcome' = "none"
  OBVIOUS
<1>3. pc' # "off" => run' \in Runs
  BY BoundsAssumption DEF Runs
<1>4. outcome' = "clean" => pc = "return" \/ (outcome = "clean" /\ pc = "off")
  OBVIOUS
<1>5. outcome' = "clean" => UNCHANGED files
  OBVIOUS
<1>6. pc' \in Undoing \cup Closing =>
              \/ pc \in Undoing \cup Closing
              \/ DelHost /\ pc = "del_host" /\ pc' = "del_tun"
  OBVIOUS
<1>7. pc' \in {"del_link"} \cup Closing =>
              \/ pc \in {"del_link"} \cup Closing
              \/ netlink_down /\ pc = "tun_down" /\ pc' = "del_link"
  OBVIOUS
<1> QED
  BY <1>2, <1>3, <1>4, <1>5, <1>6, <1>7

\* What reset() undid stays undone.
LEMMA RunStep ==
  ASSUME MachineInv, CoreInv', [Next]_vars
  PROVE  RunInv'
<1>1. RunInv /\ RouteInv /\ routes \in SUBSET Route
  BY DEF MachineInv, TypeOK, NetTypeOK
<1>2. outcome' = "clean" => files' = Home
  BY <1>1, Control DEF MachineInv, RunInv, CoreInv, DnsInv
<1>3. ASSUME outcome' = "clean" \/ pc' \in Undoing \cup Closing
      PROVE  NoServer'
  <2>1. CASE outcome = "clean" \/ pc \in Undoing \cup Closing
    <3>1. NoServer /\ pc # "add_host"
      BY <1>1, <2>1 DEF RunInv, Undoing, Closing
    <3> QED
      BY <3>1, RouteSources DEF NoServer
  <2>2. CASE DelHost /\ pc = "del_host" /\ pc' = "del_tun"
    <3>1. /\ DelRoute("server", "wlp2s0", gw)
          /\ Matching("server", "wlp2s0", gw) # {}
      BY <2>2 DEF DelHost, Request, Asserted, Abort, Dies, DelRouteOk
    <3>2. PICK z \in Matching("server", "wlp2s0", gw) : TRUE
      BY <3>1
    <3>3. z.metric = 0
      BY <1>1, <3>2 DEF Matching, RouteInv
    <3>4. \A r \in routes' : r.dst = "server" => r.metric # 0
      BY <1>1, <3>1, <3>2, <3>3, DeletedLast
    <3>5. \A r \in routes' : r.dst = "server" => r.metric = 0
      BY NetStep DEF RouteInv
    <3> QED
      BY <3>4, <3>5 DEF NoServer
  <2> QED
    BY <1>3, <2>1, <2>2, Control DEF Closing
<1>4. ASSUME outcome' = "clean" \/ pc' \in {"del_link"} \cup Closing
      PROVE  NoTun'
  <2>1. CASE outcome = "clean" \/ pc \in {"del_link"} \cup Closing
    <3>1. NoTun /\ pc # "add_tun"
      BY <1>1, <2>1 DEF RunInv, Closing
    <3> QED
      BY <3>1, RouteSources DEF NoTun
  <2>2. CASE netlink_down /\ pc = "tun_down" /\ pc' = "del_link"
    BY <2>2 DEF netlink_down, Request, Asserted, Abort, Dies, LinkDown, NoTun
  <2> QED
    BY <1>4, <2>1, <2>2, Control DEF Closing
<1> QED
  BY <1>2, <1>3, <1>4, Control DEF RunInv

\* A machine at rest.
LEMMA InitMachine == Init => MachineInv
<1> SUFFICES ASSUME Init PROVE MachineInv
  OBVIOUS
<1>1. CoreInv
  BY InitCore
<1>2. lease \in Gateways
  BY DEF Init
<1>3. ASSUME NEW d \in {"wlp2s0", "eth"}, NEW g \in Gateways
      PROVE  /\ DhcpDefault(d, g) \in Route
             /\ DhcpDefault(d, g).dst = "default" /\ DhcpDefault(d, g).dev = d
             /\ DhcpDefault(d, g).via = g
             /\ DhcpDefault(d, g).metric = IF d = "eth" THEN 3002 ELSE 3003
  BY <1>3 DEF DhcpDefault, Metric, Route, Dsts, Devs, Hops, Metrics
<1>4. \A r \in routes : \E d \in {"wlp2s0", "eth"}, g \in Gateways :
        r = DhcpDefault(d, g)
  BY <1>2 DEF Init
<1>5. \A r \in routes : /\ r \in Route
                        /\ r.dst = "default" /\ r.dev \in {"wlp2s0", "eth"}
                        /\ r.via \in Gateways
                        /\ r.metric = IF r.dev = "eth" THEN 3002 ELSE 3003
  BY <1>3, <1>4
<1>6. RouteInv
  BY <1>5 DEF RouteInv
<1>7. persist \in BOOLEAN /\ job \in BOOLEAN
  BY DEF Init
<1>8. NetTypeOK
  BY <1>2, <1>5, <1>7 DEF Init, NetTypeOK, Links
<1>9. before \in [dev : Devs \cup {"none"}, via : Hops, clash : BOOLEAN]
  BY <1>2 DEF Init, Devs, Hops
<1>10. TypeOK
  BY <1>2, <1>7, <1>8, <1>9, BoundsAssumption
     DEF Init, TypeOK, Files, Families, Runs, Running
<1>11. RunInv /\ FdsInv
  BY DEF Init, RunInv, FdsInv, Building, Diverting, Session, Undoing, Closing
<1> QED
  BY <1>1, <1>6, <1>10, <1>11 DEF MachineInv

\* In every run, whatever went wrong before.
THEOREM MachineCorrect == Spec => []MachineInv
<1>1. ASSUME MachineInv, [Next]_vars
      PROVE  MachineInv'
  BY <1>1, CoreStep, TypeStep, NetStep, RunStep, FdsStep DEF MachineInv
<1> QED
  BY <1>1, InitMachine, PTL DEF Spec

\* The model's variables keep their types.
THEOREM TypeCorrect == Spec => []TypeOK
<1>1. MachineInv => TypeOK
  BY DEF MachineInv
<1> QED
  BY <1>1, MachineCorrect, PTL

------------------------------------------------------------------------------
(* The record of the server: which run's server /tmp/ss-local.json names.    *)

\* A route to the server keeps the DNS files where its run put them, so that a
\* later run stops in Opening.
RecordInv ==
  /\ host.named \in 0..run /\ host.routed \in 0..run
  /\ pc \in Opening => host.routed < run
  /\ pc \notin {"off", "select", "record"} => host.named = run
  /\ ~NoServer =>
       /\ files = Tunnel
       /\ pc \notin {"off"} \cup Opening => host.routed = run
       /\ RecordNamesRoute

\* The four steps that change the record, the counter of runs or the owner of
\* the route; and what the others do to the point of main().
LEMMA RecordFrame ==
  ASSUME MachineInv, [Next]_vars
  PROVE  \/ Start
         \/ Select /\ pc' = "record"
         \/ Record
         \/ AddHost /\ pc = "add_host" /\ pc' = "fork"
         \/ /\ UNCHANGED <<host, run>>
            /\ \/ pc' = pc \/ pc' = "off"
               \/ pc = "bus_init" /\ pc' = "ali_bak"
               \/ AliBak /\ pc = "ali_bak" /\ "ali.conf" \in files
               \/ pc \notin {"off"} \cup Opening /\ pc' \notin {"off"} \cup Opening
<1>1. pc \in Pcs
  BY DEF MachineInv, TypeOK
<1> USE DEF Next, MainStep, Asserted, Abort, Dies, Then, At, RestOfMachine,
        mainvars, dnsvars, procvars, ghosts, Mishap
<1> USE DEF privilege_escalate, privilege_drop, Select, Record, bus_init, AliBak,
        GoogleConf, GoogleBak, AliConf, Rename, Readproctab, KillClash,
        PollClash, StartSs, netlink_init, netlink_get_gateway, Fork, KillTun,
        netlink_end, StopSs, bus_end, Return, Restart, Flush
<1> USE DEF ioctl_tun_create, netlink_tun_addr, netlink_up, DelWlo, AddTun,
        AddHost, DelHost, DelTun, AddWlo, netlink_down, netlink_del_link, Request
<1> USE DEF Start, Enter, JobRuns, ClashDies, ClashStarts, ChildExec, ChildDies,
        DhcpRenews, OperatorCleans, Crash, CtrlC, ClashRaces, EnterTooEarly,
        NetworkChanges, NoMoreRuns, vars
<1> QED
  BY <1>1

\* Of the steps that leave a route to the server, none changes the files: the
\* first rename of a later run finds nothing, google_bak comes after the route is
\* gone, and the clean-up takes the route too.
LEMMA RouteKeepsFiles ==
  ASSUME MachineInv, [Next]_vars, ~NoServer, ~NoServer', files = Tunnel
  PROVE  files' = Tunnel /\ ~(AliBak /\ "ali.conf" \in files)
<1>1. pc \notin Undoing \cup Closing
  BY DEF MachineInv, RunInv
<1>2. ~OperatorCleans
  BY DEF OperatorCleans, OperatorResets, DhcpDefault, NoServer
<1>3. UNCHANGED files \/ AliBak \/ GoogleConf \/ GoogleBak \/ AliConf
  BY <1>2
     DEF Next, MainStep, Asserted, Abort, RestOfMachine, dnsvars,
         privilege_escalate, privilege_drop, Select, Record, bus_init,
         Readproctab, KillClash, PollClash, StartSs, netlink_init,
         netlink_get_gateway, Fork, KillTun, netlink_end, StopSs, bus_end, Return,
         Restart, Flush, ioctl_tun_create, netlink_tun_addr, netlink_up, DelWlo,
         AddTun, AddHost, DelHost, DelTun, AddWlo, netlink_down,
         netlink_del_link, Request, Start, Enter, JobRuns, ClashDies, ClashStarts,
         ChildExec, ChildDies, DhcpRenews, Crash, CtrlC, ClashRaces,
         EnterTooEarly, NetworkChanges, NoMoreRuns, vars
<1>4. ~("ali.conf" \in files) /\ ~("google.bak" \in files)
  OBVIOUS
<1> QED
  BY <1>1, <1>3, <1>4
     DEF AliBak, GoogleConf, GoogleBak, AliConf, Rename, Asserted, Abort, At,
         dnsvars, Closing

\* Every step keeps the record and the route together.
LEMMA RecordStep ==
  ASSUME MachineInv, MachineInv', RecordInv, [Next]_vars
  PROVE  RecordInv'
<1>1. /\ run \in Nat /\ run' \in Nat /\ pc \in Pcs
      /\ host \in [named : 0..MaxRuns, routed : 0..MaxRuns]
      /\ host.named \in Nat /\ host.routed \in Nat
  BY BoundsAssumption DEF MachineInv, TypeOK
<1>2. ~NoServer' => ~NoServer \/ (AddHost /\ pc = "add_host" /\ pc' = "fork")
  BY RouteSources DEF NoServer, AddHost, Request, Asserted, Abort, Dies, Then
<1>3. ~NoServer /\ ~NoServer' => files' = Tunnel /\ ~(AliBak /\ "ali.conf" \in files)
  BY RouteKeepsFiles DEF RecordInv
<1> HIDE DEF Tunnel, Home, Pcs, Privileged
<1> USE DEF RecordInv, RecordNamesRoute, NoServer
<1>4. CASE Start
  <2>1. pc = "off" /\ pc' = "select" /\ run' = run + 1 /\ UNCHANGED <<host, routes>>
    BY <1>4 DEF Start, netvars
  <2> QED
    BY <1>1, <1>3, <2>1
<1>5. CASE Select /\ pc' = "record"
  <2>1. /\ pc = "select" /\ host' = [host EXCEPT !.named = 0]
        /\ UNCHANGED <<run, routes>>
    BY <1>5 DEF Select, At, Asserted, Abort, Dies, ghosts, netvars
  <2>2. host'.named = 0 /\ host'.routed = host.routed
    BY <1>1, <2>1
  <2> QED
    BY <1>1, <1>3, <1>5, <2>1, <2>2
<1>6. CASE Record
  <2>1. /\ pc = "record" /\ pc' = "bus_init" /\ host' = [host EXCEPT !.named = run]
        /\ UNCHANGED <<run, routes>>
    BY <1>6 DEF Record, At, Then, ghosts, netvars
  <2>2. host'.named = run /\ host'.routed = host.routed
    BY <1>1, <2>1
  <2> QED
    BY <1>1, <1>3, <2>1, <2>2
<1>7. CASE AddHost /\ pc = "add_host" /\ pc' = "fork"
  <2>1. host' = [host EXCEPT !.routed = run] /\ UNCHANGED <<run, files>>
    BY <1>7 DEF AddHost, Request, Asserted, Abort, Dies, ghosts, dnsvars
  <2>2. host'.named = host.named /\ host'.routed = run
    BY <1>1, <2>1
  <2>3. files = Tunnel
    BY <1>7 DEF MachineInv, CoreInv, DnsInv, DnsWithTunnel, Pcs, Privileged
  <2> QED
    BY <1>1, <1>7, <2>1, <2>2, <2>3
<1>8. CASE /\ UNCHANGED <<host, run>>
           /\ \/ pc' = pc \/ pc' = "off"
              \/ pc = "bus_init" /\ pc' = "ali_bak"
              \/ AliBak /\ pc = "ali_bak" /\ "ali.conf" \in files
              \/ pc \notin {"off"} \cup Opening /\ pc' \notin {"off"} \cup Opening
  <2>1. CASE NoServer' \/ ~NoServer
    <3> HIDE DEF NoServer
    <3>1. ~NoServer' => /\ ~NoServer /\ files' = Tunnel
                        /\ ~(AliBak /\ "ali.conf" \in files)
      BY <1>3, <2>1
    <3>2. ~NoServer' => RecordNamesRoute'
      BY <1>1, <1>8, <3>1 DEF NoServer
    <3> HIDE DEF RecordNamesRoute
    <3> QED
      BY <1>1, <1>8, <3>1, <3>2
  <2> QED
    BY <1>2, <1>7, <2>1
<1> QED
  BY <1>4, <1>5, <1>6, <1>7, <1>8, RecordFrame

\* The file names the server of the run that made the route, also after that run
\* aborted, until a later run replaces it, and that one makes no route.
THEOREM RecordNamesRouteAlways == Spec => []RecordNamesRoute
<1>1. Init => RecordInv
  <2> SUFFICES ASSUME Init PROVE RecordInv
    OBVIOUS
  <2>1. \A r \in routes : r.dst = "default"
    BY DEF Init, DhcpDefault
  <2> QED
    BY <2>1 DEF Init, RecordInv, RecordNamesRoute, NoServer
<1>2. ASSUME MachineInv, MachineInv', RecordInv, [Next]_vars
      PROVE  RecordInv'
  BY <1>2, RecordStep
<1>3. RecordInv => RecordNamesRoute
  BY DEF RecordInv, RecordNamesRoute, NoServer
<1> QED
  BY <1>1, <1>2, <1>3, MachineCorrect, PTL DEF Spec

------------------------------------------------------------------------------
(* Without a mishap.                                                         *)

\* A cable with a gateway of its own has the preferred default route.
EthFirst ==
  /\ \E r \in routes : r.dev = "eth" /\ r.via # lease
  /\ \A r \in routes : r.dst = "default" => r.metric # 0

\* What makes every run abort until the operator cleans up.
Blocked == clash = "background" \/ EthFirst

\* The points of main() before kill_sync has looked for clash.
BeforeKill == Opening \cup {"google_conf", "restart", "flush", "readproctab"}

\* clash is found, signalled and waited for.
ClashInv ==
  /\ pc \in {"off", "select"} => clash # "dying"
  /\ pc \in BeforeKill => (before.clash <=> clash = "up")
  /\ pc \in BeforeKill \ {"select"} => clash \in Running
  /\ pc = "kill" => clash = "up" /\ listed = "alive"
  /\ pc = "poll" => \/ clash = "dying" /\ listed = "alive"
                    \/ clash = "gone" /\ listed = "dead"
  /\ pc \notin BeforeKill \cup {"off", "kill", "poll"} => clash = "gone"

\* The server lives from start_ss to stop_ss.
ServerInv ==
  pc \in {"netlink_init", "tun_create", "netlink_end", "stop_ss"} \cup Building
           \cup Diverting \cup Session \cup Undoing => ss = "up"

\* Only this run's tun2socks has tun0 open, and from SIGINT on it is dying.
ChildInv ==
  \A r \in Runs :
    /\ child[r] = "forked" => r = run /\ pc = "read_r"
    /\ child[r] = "attached" =>
         r = run /\ pc \in {"read_r", "kill_tun", "del_host"} \cup Undoing
    /\ child[r] = "attached" /\ pc \in {"del_host"} \cup Undoing => r \in signalled

\* tun0 at each point; between runs a machine that is not as it was is blocked.
LinkInv ==
  /\ pc \in Swapping \cup Closing => tun = "absent"
  /\ pc \in Opening \cup {"off"} => IF files = Home THEN tun = "absent" ELSE Blocked
  /\ pc = "tun_addr" => tun = "bare"
  /\ pc \in {"tun_up", "del_link"} => tun = "addressed"
  /\ pc \in {"get_gw", "del_wlo", "del_tun", "add_wlo", "tun_down"} \cup Diverting
              \cup Session => tun = "up"
  /\ pc \in Building \cup Diverting \cup Session \cup Undoing => persist

\* The routes through wlp2s0 are the lease's, and which ones there are.
TableInv ==
  /\ \A r \in routes : r.dev = "wlp2s0" => r.via = lease
  /\ before.dev = "wlp2s0" => before.via = lease
  /\ pc \in Opening \cup Swapping \cup Building /\ EthFirst => before.dev # "wlp2s0"
  /\ pc \in {"off"} \cup Opening \cup Swapping \cup Building =>
       /\ NoServer /\ NoTun
       /\ \E r \in routes : r.dst = "default" /\ r.dev = "wlp2s0"
  /\ pc = "del_wlo" => gw = lease \/ EthFirst
  /\ pc \in {"del_tun", "add_wlo"} \cup Diverting \cup Session => gw = lease
  /\ pc \in Diverting => NoServer
  /\ pc \in {"add_tun", "add_wlo"} =>
       \A r \in routes : r.dst = "default" => r.metric # 0
  /\ pc \in {"add_host", "del_tun"} \cup Session =>
       \E r \in routes : r.dev = "tun0"
  /\ pc \in Session => \E r \in routes : r.dst = "server"
  /\ pc \in {"tun_down", "del_link"} \cup Closing \/ outcome = "clean" =>
       \E r \in routes : r.dst = "default" /\ r.dev = "wlp2s0" /\ r.metric = 0

QuietParts ==
  /\ QuietRunCompletes
  /\ outcome = "clean" => tun = "absent"
  /\ ClashInv /\ ServerInv /\ ChildInv /\ LinkInv /\ TableInv

QuietInv == faults = 0 => QuietParts

\* The four places where main() gives up although nothing has gone wrong.
Refused ==
  \/ pc = "select" /\ clash \notin Running
  \/ pc = "ali_bak" /\ files # Home
  \/ pc = "readproctab" /\ clash = "background"
  \/ pc = "del_wlo" /\ gw # lease


\* There is always a preferred default route if there is any.
LEMMA BestExists ==
  ASSUME RouteInv, routes \in SUBSET Route, Defaults # {}
  PROVE  \E r \in Defaults : Best(r)
<1>1. \A r \in Defaults : r.metric \in {0, 3002, 3003}
  BY DEF RouteInv, Defaults
<1>2. CASE \E r \in Defaults : r.metric = 0
  BY <1>1, <1>2 DEF Best
<1>3. CASE /\ \A r \in Defaults : r.metric # 0
           /\ \E r \in Defaults : r.metric = 3002
  BY <1>1, <1>3 DEF Best
<1>4. CASE /\ \A r \in Defaults : r.metric # 0
           /\ \A r \in Defaults : r.metric # 3002
  BY <1>1, <1>4 DEF Best
<1> QED
  BY <1>2, <1>3, <1>4

\* No other assertion of main() fails.
LEMMA QuietAborts ==
  ASSUME MachineInv, QuietParts, MainStep, outcome' = "abort"
  PROVE  Refused /\ Abort
<1> USE DEF Asserted, At
<1>0. /\ PrivilegeInv /\ DnsInv /\ FdsInv /\ RouteInv /\ ClashInv /\ ServerInv
      /\ ChildInv /\ LinkInv /\ TableInv
      /\ (pc # "off" => outcome = "none") /\ routes \in SUBSET Route
  BY DEF MachineInv, CoreInv, RunInv, QuietParts, TypeOK, NetTypeOK
<1> USE <1>0
<1>1. CASE privilege_escalate \/ privilege_drop \/ Fork
  BY <1>1 DEF privilege_escalate, privilege_drop, Fork, Setegid, PrivilegeInv,
              ghosts, RestOfMachine
<1>2. CASE Select \/ Record \/ bus_init \/ PollClash \/ netlink_init \/ KillTun
           \/ netlink_end \/ bus_end
  BY <1>2 DEF Select, Record, bus_init, PollClash, netlink_init, KillTun, netlink_end,
              bus_end, ghosts, RestOfMachine, Refused
<1>3. CASE AliBak \/ GoogleConf \/ GoogleBak \/ AliConf
  BY <1>3 DEF AliBak, GoogleConf, GoogleBak, AliConf, Rename, ghosts,
              RestOfMachine, Refused, DnsInv, DnsWithTunnel
<1>4. CASE Restart("restart", "flush") \/ Flush("flush", "readproctab")
           \/ Restart("restart_back", "flush_back")
           \/ Flush("flush_back", "bus_end")
  BY <1>4 DEF Restart, Flush, FdsInv, ghosts, RestOfMachine
<1>5. CASE Readproctab \/ KillClash \/ StartSs
  BY <1>5 DEF Readproctab, KillClash, StartSs, ClashInv, BeforeKill, Opening,
              Running, ghosts, RestOfMachine, Refused
<1>6. CASE StopSs
  BY <1>6 DEF StopSs, ServerInv, ghosts, RestOfMachine
<1>7. CASE Return
  BY <1>7 DEF Return, Dies
<1>8. CASE ioctl_tun_create
  <2>1. pc = "tun_create" => ~Attached
    BY DEF ChildInv, Attached, Undoing
  <2> QED
    BY <1>8, <2>1 DEF ioctl_tun_create, Request, TunCreateOk, ghosts
<1>9. CASE netlink_tun_addr \/ netlink_up \/ netlink_down
  BY <1>9 DEF netlink_tun_addr, netlink_up, netlink_down, Request, TunAddrOk,
              FlagsOk, LinkInv, FdsInv, Building, Undoing, ghosts
<1>10. CASE netlink_del_link
  BY <1>10 DEF netlink_del_link, DelLinkOk, LinkInv, ghosts
<1>11. CASE netlink_get_gateway
  <2>1. /\ pc = "get_gw" /\ outcome = "none"
        /\ (\E g \in Gateways : GetGatewayOk(g)) => UNCHANGED outcome
    BY <1>11 DEF netlink_get_gateway, ghosts
  <2>2. Defaults # {} /\ NoTun
    BY <2>1 DEF TableInv, Building, Defaults
  <2>3. PICK r \in Defaults : Best(r)
    BY <2>2, BestExists
  <2>4. r.dev # "tun0" /\ r.via \in Gateways
    BY <2>2, <2>3 DEF NoTun, Defaults, RouteInv
  <2>5. GetGatewayOk(r.via)
    BY <2>3, <2>4 DEF GetGatewayOk
  <2> QED
    BY <2>1, <2>4, <2>5
<1>12. CASE DelWlo
  <2>1. /\ pc = "del_wlo" /\ outcome = "none"
        /\ DelRouteOk("default", "wlp2s0", gw) /\ "netlink" \in fds =>
             UNCHANGED outcome
        /\ Abort \/ UNCHANGED outcome
    BY <1>12 DEF DelWlo, Request, ghosts
  <2>2. "netlink" \in fds
    BY <2>1 DEF FdsInv, Building
  <2>3. PICK r \in routes : r.dst = "default" /\ r.dev = "wlp2s0" /\ r.via = lease
    BY <2>1 DEF TableInv, Building
  <2>4. gw = lease => DelRouteOk("default", "wlp2s0", gw)
    BY <2>3 DEF DelRouteOk, Matching
  <2> QED
    BY <2>1, <2>2, <2>4 DEF Refused
<1>13. CASE AddTun \/ AddHost \/ AddWlo
  <2>1. pc \in {"add_tun", "add_host", "add_wlo"} => "netlink" \in fds
    BY DEF FdsInv, Diverting, Undoing
  <2>2. pc = "add_tun" => AddRouteOk("default", "tun0", Peer)
    BY DEF AddRouteOk, OnLink, Metric, LinkInv, TableInv, Diverting
  <2>3. pc = "add_host" => AddRouteOk("server", "wlp2s0", gw)
    BY DEF AddRouteOk, OnLink, TableInv, Diverting, NoServer
  <2>4. pc = "add_wlo" => AddRouteOk("default", "wlp2s0", gw)
    BY DEF AddRouteOk, OnLink, Metric, TableInv
  <2> QED
    BY <1>13, <2>1, <2>2, <2>3, <2>4 DEF AddTun, AddHost, AddWlo, Request, ghosts
<1>14. CASE DelHost \/ DelTun
  <2>1. pc \in {"del_host", "del_tun"} => "netlink" \in fds
    BY DEF FdsInv, Session, Undoing
  <2>2. pc = "del_host" => DelRouteOk("server", "wlp2s0", gw)
    BY DEF DelRouteOk, Matching, TableInv, Session, RouteInv
  <2>3. pc = "del_tun" => DelRouteOk("default", "tun0", Peer)
    BY DEF DelRouteOk, Matching, TableInv, RouteInv
  <2> QED
    BY <1>14, <2>1, <2>2, <2>3 DEF DelHost, DelTun, Request, ghosts
<1> QED
  BY <1>1, <1>2, <1>3, <1>4, <1>5, <1>6, <1>7, <1>8, <1>9, <1>10, <1>11, <1>12,
     <1>13, <1>14 DEF MainStep

\* What happens around main() without a mishap.
QuietEvents ==
  \/ Start \/ Enter \/ JobRuns \/ ClashDies \/ ClashStarts
  \/ \E r \in Runs : ChildExec(r) \/ ChildDies(r)
  \/ DhcpRenews \/ OperatorCleans \/ UNCHANGED vars

\* A step that is not a mishap is one of main() or one of these.
LEMMA QuietNext ==
  ASSUME MachineInv, [Next]_vars, faults' = 0
  PROVE  faults = 0 /\ (MainStep \/ QuietEvents)
<1>1. faults \in Nat
  BY BoundsAssumption DEF MachineInv, TypeOK
<1>2. ~Mishap
  BY <1>1 DEF Mishap
<1>3. MainStep \/ QuietEvents
  BY <1>2 DEF Next, QuietEvents, NoMoreRuns, Crash, CtrlC, ClashRaces,
              EnterTooEarly, NetworkChanges
<1>4. UNCHANGED faults
  <2>1. CASE QuietEvents
    BY <2>1 DEF QuietEvents, Start, Enter, JobRuns, ClashDies, ClashStarts,
       ChildExec, ChildDies, DhcpRenews, OperatorCleans, vars, ghosts, RestOfMachine
  <2>2. CASE MainStep
    BY <2>2
       DEF MainStep, Asserted, Abort, RestOfMachine, ghosts,
           privilege_escalate, privilege_drop, Select, Record, bus_init, AliBak,
           GoogleConf, GoogleBak, AliConf, Rename, Readproctab, KillClash,
           PollClash, StartSs, netlink_init, netlink_get_gateway, Fork, KillTun,
           netlink_end, StopSs, bus_end, Return, Restart, Flush,
           ioctl_tun_create, netlink_tun_addr, netlink_up, DelWlo, AddTun,
           AddHost, DelHost, DelTun, AddWlo, netlink_down, netlink_del_link,
           Request
  <2> QED
    BY <1>3, <2>1, <2>2
<1> QED
  BY <1>3, <1>4

\* Giving up leaves a machine that is as it was, or blocked.
LEMMA RefusedQuiet ==
  ASSUME MachineInv, QuietParts, Refused, Abort
  PROVE  QuietParts'
<1>1. /\ ClashInv /\ ServerInv /\ ChildInv /\ LinkInv /\ TableInv /\ pc \in Pcs
      /\ clash \in Running \cup {"dying", "gone"}
  BY DEF MachineInv, QuietParts, TypeOK
<1>2. /\ pc' = "off" /\ outcome' = "abort"
      /\ UNCHANGED <<files, clash, listed, child, signalled, gw, run, before, tun,
                     persist, routes, lease>>
  BY DEF Abort, Dies, dnsvars, netvars
<1>3. EthFirst' = EthFirst /\ NoServer' = NoServer /\ NoTun' = NoTun
  BY <1>2 DEF EthFirst, NoServer, NoTun
<1>4. before.dev # "wlp2s0" \/ ~before.clash
  BY <1>1 DEF Refused, ClashInv, BeforeKill, Opening, Running, LinkInv, Blocked,
              TableInv, Building
<1>5. QuietRunCompletes'
  BY <1>2, <1>4 DEF QuietRunCompletes
<1>6. ClashInv' /\ ServerInv'
  BY <1>1, <1>2
     DEF Refused, ClashInv, ServerInv, BeforeKill, Opening, Running, Building,
         Diverting, Session, Undoing
<1>7. ChildInv'
  BY <1>1, <1>2 DEF Refused, ChildInv, Undoing
<1>8. LinkInv'
  <2>1. pc = "del_wlo" => files = Tunnel
    BY DEF MachineInv, CoreInv, DnsInv, DnsWithTunnel
  <2>2. Home # Tunnel
    OBVIOUS
  <2> HIDE DEF Home, Tunnel
  <2> QED
    BY <1>1, <1>2, <1>3, <2>1, <2>2
       DEF Refused, LinkInv, TableInv, Blocked, Opening, Swapping, Building,
           Diverting, Session, Undoing, Closing
<1>9. TableInv'
  BY <1>1, <1>2, <1>3
     DEF Refused, TableInv, Opening, Swapping, Building, Diverting, Session,
         Undoing, Closing
<1> QED
  BY <1>2, <1>5, <1>6, <1>7, <1>8, <1>9 DEF QuietParts

\* clash, the server and tun2socks.
LEMMA ProcessQuiet ==
  ASSUME MachineInv, QuietParts, MainStep \/ QuietEvents,
         outcome' # "abort" \/ pc = "off"
  PROVE  ClashInv' /\ ServerInv' /\ ChildInv'
<1>1. /\ ClashInv /\ ServerInv /\ ChildInv /\ pc \in Pcs
      /\ clash \in Running \cup {"dying", "gone"}
      /\ child \in [Runs -> {"none", "forked", "attached", "detached"}]
      /\ pc # "off" => outcome = "none" /\ run \in Runs
  BY DEF MachineInv, QuietParts, TypeOK, RunInv
<1> USE DEF QuietEvents, MainStep, Asserted, Abort, Dies, Then, At, RestOfMachine,
        mainvars, dnsvars, procvars, ghosts
<1> USE DEF privilege_escalate, privilege_drop, Select, Record, bus_init, AliBak,
        GoogleConf, GoogleBak, AliConf, Rename, Readproctab, KillClash,
        PollClash, StartSs, netlink_init, netlink_get_gateway, Fork, KillTun,
        netlink_end, StopSs, bus_end, Return, Restart, Flush
<1> USE DEF ioctl_tun_create, netlink_tun_addr, netlink_up, DelWlo, AddTun,
        AddHost, DelHost, DelTun, AddWlo, netlink_down, netlink_del_link, Request
<1> USE DEF Start, Enter, JobRuns, ClashDies, ClashStarts, ChildExec, ChildDies,
        DhcpRenews, OperatorCleans, vars
<1>2. ServerInv'
  BY <1>1 DEF ServerInv, Building, Diverting, Session, Undoing
<1>3. ClashInv'
  <2>1. CASE Start
    <3>1. pc' = "select" /\ clash' = clash /\ pc = "off"
      BY <2>1
    <3>2. before'.clash = (clash = "up")
      BY <2>1
    <3> HIDE DEF MainStep, QuietEvents, Start
    <3> QED
      BY <1>1, <3>1, <3>2 DEF ClashInv, BeforeKill, Opening
  <2>2. CASE ~Start
    BY <1>1, <2>2 DEF ClashInv, BeforeKill, Opening, Running
  <2> QED
    BY <2>1, <2>2
<1>4. ChildInv'
  BY <1>1 DEF ChildInv, Undoing
<1> QED
  BY <1>2, <1>3, <1>4

Early == Opening \cup Swapping \cup Building

\* The way main() takes through its calls when none fails.
Moves ==
  /\ \/ UNCHANGED pc
     \/ pc = "off" /\ pc' = "select" /\ Start
     \/ pc \in Opening /\ pc' \in Opening /\ ~Start
     \/ pc = "ali_bak" /\ pc' = "google_conf" /\ AliBak
     \/ pc \in Swapping /\ pc' \in Swapping
     \/ pc = "tun_create" /\ pc' = "tun_addr" /\ ioctl_tun_create
     \/ pc = "tun_addr" /\ pc' = "tun_up" /\ netlink_tun_addr
     \/ pc = "tun_up" /\ pc' = "get_gw" /\ netlink_up
     \/ pc = "get_gw" /\ pc' = "del_wlo" /\ netlink_get_gateway
     \/ pc = "del_wlo" /\ pc' = "add_tun" /\ DelWlo
     \/ pc = "add_tun" /\ pc' = "add_host" /\ AddTun
     \/ pc = "add_host" /\ pc' = "fork" /\ AddHost
     \/ pc = "fork" /\ pc' = "read_r"
     \/ pc = "read_r" /\ pc' = "kill_tun"
     \/ pc = "kill_tun" /\ pc' = "del_host"
     \/ pc = "del_host" /\ pc' = "del_tun" /\ DelHost
     \/ pc = "del_tun" /\ pc' = "add_wlo" /\ DelTun
     \/ pc = "add_wlo" /\ pc' = "tun_down" /\ AddWlo
     \/ pc = "tun_down" /\ pc' = "del_link" /\ netlink_down
     \/ pc = "del_link" /\ pc' = "netlink_end" /\ netlink_del_link
     \/ pc \in Closing /\ pc' \in Closing
     \/ pc = "return" /\ pc' = "off"
  /\ outcome' = "clean" => \/ UNCHANGED pc /\ outcome = "clean"
                           \/ pc = "return" /\ pc' = "off"

\* ... and it takes no other.
LEMMA QuietMoves ==
  ASSUME MachineInv, MainStep \/ QuietEvents, outcome' # "abort" \/ pc = "off"
  PROVE  Moves
<1>1. /\ pc \in Pcs
      /\ pc # "off" => outcome = "none"
  BY DEF MachineInv, TypeOK, RunInv
<1> USE DEF Moves, Early, Opening, Swapping, Building, Closing, Asserted, Abort,
        Dies, Then, At, RestOfMachine, mainvars, ghosts
<1>2. CASE QuietEvents
  BY <1>1, <1>2
     DEF QuietEvents, Start, Enter, JobRuns, ClashDies, ClashStarts, ChildExec,
         ChildDies, DhcpRenews, OperatorCleans, vars
<1>3. CASE ioctl_tun_create \/ netlink_tun_addr \/ netlink_up
           \/ netlink_get_gateway \/ DelWlo \/ AddTun \/ AddHost
           \/ DelHost \/ DelTun \/ AddWlo \/ netlink_down \/ netlink_del_link
  BY <1>1, <1>3
     DEF ioctl_tun_create, netlink_tun_addr, netlink_up, netlink_get_gateway,
         DelWlo, AddTun, AddHost, DelHost, DelTun, AddWlo, netlink_down,
         netlink_del_link, Request, Start
<1>4. CASE privilege_escalate \/ privilege_drop
  BY <1>1, <1>4 DEF privilege_escalate, privilege_drop
<1>5. CASE \/ Select \/ Record \/ bus_init \/ AliBak \/ GoogleConf
           \/ Restart("restart", "flush") \/ Flush("flush", "readproctab")
           \/ Readproctab \/ KillClash \/ PollClash \/ StartSs \/ netlink_init
           \/ Fork \/ KillTun \/ netlink_end \/ StopSs \/ GoogleBak \/ AliConf
           \/ Restart("restart_back", "flush_back")
           \/ Flush("flush_back", "bus_end") \/ bus_end \/ Return
  BY <1>1, <1>5
     DEF Select, Record, bus_init, AliBak, GoogleConf, GoogleBak, AliConf, Rename,
         Readproctab, KillClash, PollClash, StartSs, netlink_init, Fork, KillTun,
         netlink_end, StopSs, bus_end, Return, Restart, Flush, Start
<1> QED
  BY <1>2, <1>3, <1>4, <1>5 DEF MainStep

\* The requests of main() that change the link or the table.
Requests ==
  \/ pc = "tun_create" /\ ioctl_tun_create
  \/ pc = "tun_addr" /\ netlink_tun_addr
  \/ pc = "tun_up" /\ netlink_up
  \/ pc = "del_wlo" /\ DelWlo
  \/ pc = "add_tun" /\ AddTun
  \/ pc = "add_host" /\ AddHost
  \/ pc = "del_host" /\ DelHost
  \/ pc = "del_tun" /\ DelTun
  \/ pc = "add_wlo" /\ AddWlo
  \/ pc = "tun_down" /\ netlink_down
  \/ pc = "del_link" /\ netlink_del_link

\* Without a mishap an event around main() only adds the DHCP client's default,
\* or the operator cleans up.
LEMMA QuietTable ==
  ASSUME MachineInv, QuietParts, MainStep \/ QuietEvents, UNCHANGED faults
  PROVE  /\ lease' = lease
         /\ \/ UNCHANGED <<tun, persist, routes>>
            \/ DhcpRenews /\ UNCHANGED <<tun, persist, pc>>
            \/ OperatorCleans /\ UNCHANGED pc
            \/ Requests
<1>1. ChildInv /\ LinkInv
  BY DEF QuietParts
<1>2. CASE \E r \in Runs : ChildExec(r) \/ ChildDies(r)
  <2>1. PICK r \in Runs : ChildExec(r) \/ ChildDies(r)
    BY <1>2
  <2>2. child[r] = "attached" => persist
    BY <1>1 DEF ChildInv, LinkInv, Undoing, Session
  <2>3. child[r] = "forked" => tun # "absent"
    BY <1>1 DEF ChildInv, LinkInv, Session
  <2> QED
    BY <2>1, <2>2, <2>3 DEF ChildExec, ChildDies
<1>3. CASE DhcpRenews \/ OperatorCleans
  BY <1>3 DEF DhcpRenews, DhcpRenew, OperatorCleans, OperatorResets, mainvars
<1>4. ~NetworkChanges
  BY BoundsAssumption DEF NetworkChanges, Mishap, MachineInv, TypeOK
<1>5. CASE UNCHANGED netvars
  BY <1>5 DEF netvars
<1>6. CASE Requests
  BY <1>6
     DEF Requests, ioctl_tun_create, netlink_tun_addr, netlink_up, DelWlo, AddTun,
         AddHost, DelHost, DelTun, AddWlo, netlink_down, netlink_del_link, Request,
         Asserted, Abort, netvars, TunCreate, TunAddr, LinkUp, LinkDown, DelLink,
         AddRoute, DelRoute
<1>7. CASE ioctl_tun_create \/ netlink_tun_addr \/ netlink_up \/ DelWlo \/ AddTun
           \/ AddHost \/ DelHost \/ DelTun \/ AddWlo \/ netlink_down
           \/ netlink_del_link
  <2>1. /\ ioctl_tun_create => pc = "tun_create"
        /\ netlink_tun_addr => pc = "tun_addr"
        /\ netlink_up => pc = "tun_up"
        /\ DelWlo => pc = "del_wlo"
        /\ AddTun => pc = "add_tun"
        /\ AddHost => pc = "add_host"
        /\ DelHost => pc = "del_host"
        /\ DelTun => pc = "del_tun"
        /\ AddWlo => pc = "add_wlo"
        /\ netlink_down => pc = "tun_down"
        /\ netlink_del_link => pc = "del_link"
    BY DEF ioctl_tun_create, netlink_tun_addr, netlink_up, DelWlo, AddTun,
           AddHost, DelHost, DelTun, AddWlo, netlink_down, netlink_del_link,
           Request, At
  <2>2. Requests
    BY <1>7, <2>1 DEF Requests
  <2> QED
    BY <1>6, <2>2
<1> QED
  BY <1>2, <1>3, <1>4, <1>5, <1>6, <1>7, NetFrame DEF NetActions, QuietEvents, Next

\* A cable stays preferred as long as only the DHCP client writes the table.
LEMMA EthKept ==
  ASSUME UNCHANGED routes \/ DhcpRenews, UNCHANGED lease
  PROVE  EthFirst' <=> EthFirst
<1> DEFINE d == DhcpDefault("wlp2s0", lease)
<1>1. d.dev = "wlp2s0" /\ d.metric # 0
  BY DEF DhcpDefault, Metric
<1>2. UNCHANGED routes \/ routes' = routes \cup {d}
  BY DEF DhcpRenews, DhcpRenew
<1> HIDE DEF d
<1> QED
  BY <1>1, <1>2 DEF EthFirst

\* The DNS files and a clash in the background stay what they are until main()
\* takes the first file.
LEMMA RestKept ==
  ASSUME MachineInv, QuietParts, MainStep \/ QuietEvents, ~OperatorCleans,
         pc \in Opening \cup {"off"}, pc' \in Opening \cup {"off"}
  PROVE  UNCHANGED files /\ (clash = "background" => clash' = "background")
<1> USE DEF MainStep, QuietEvents, Asserted, Abort, Dies, Then, At, Opening,
        RestOfMachine, mainvars, dnsvars, procvars, ghosts
<1> USE DEF privilege_escalate, privilege_drop, Select, Record, bus_init, AliBak,
        GoogleConf, GoogleBak, AliConf, Rename, Readproctab, KillClash,
        PollClash, StartSs, netlink_init, netlink_get_gateway, Fork, KillTun,
        netlink_end, StopSs, bus_end, Return, Restart, Flush
<1> USE DEF ioctl_tun_create, netlink_tun_addr, netlink_up, DelWlo, AddTun,
        AddHost, DelHost, DelTun, AddWlo, netlink_down, netlink_del_link, Request
<1> USE DEF Start, Enter, JobRuns, ClashDies, ClashStarts, ChildExec, ChildDies,
        DhcpRenews, vars
<1>1. UNCHANGED files
  OBVIOUS
<1>2. clash = "background" => clash' = "background"
  OBVIOUS
<1> QED
  BY <1>1, <1>2

\* main() returns without touching the files again.
LEMMA ReturnKeeps ==
  ASSUME MainStep \/ QuietEvents, pc = "return", pc' \in Opening \cup {"off"}
  PROVE  UNCHANGED files
<1> USE DEF MainStep, QuietEvents, Asserted, Abort, Then, At, Opening,
        RestOfMachine, mainvars, dnsvars, procvars, ghosts
<1> USE DEF privilege_escalate, privilege_drop, Select, Record, bus_init, AliBak,
        GoogleConf, GoogleBak, AliConf, Rename, Readproctab, KillClash,
        PollClash, StartSs, netlink_init, netlink_get_gateway, Fork, KillTun,
        netlink_end, StopSs, bus_end, Return, Restart, Flush
<1> USE DEF ioctl_tun_create, netlink_tun_addr, netlink_up, DelWlo, AddTun,
        AddHost, DelHost, DelTun, AddWlo, netlink_down, netlink_del_link, Request
<1> USE DEF Start, Enter, JobRuns, ClashDies, ClashStarts, ChildExec, ChildDies,
        DhcpRenews, OperatorCleans, vars
<1> QED
  OBVIOUS

\* tun0 is made, configured, taken down and deleted.
LEMMA LinkQuiet ==
  ASSUME MachineInv, QuietParts, MainStep \/ QuietEvents, UNCHANGED faults,
         outcome' # "abort" \/ pc = "off"
  PROVE  LinkInv' /\ (outcome' = "clean" => tun' = "absent")
<1>1. /\ LinkInv /\ pc \in Pcs /\ (outcome = "clean" => tun = "absent")
      /\ (pc # "off" => outcome = "none")
  BY DEF MachineInv, TypeOK, RunInv, QuietParts
<1>2. Moves
  BY QuietMoves
<1>3. DnsInv
  BY DEF MachineInv, CoreInv
<1>4. ASSUME pc' \in Opening \cup {"off"}
      PROVE  IF files' = Home THEN tun' = "absent" ELSE Blocked'
  <2>1. CASE OperatorCleans
    BY <2>1 DEF OperatorCleans, OperatorResets
  <2>2. CASE pc = "return" /\ ~OperatorCleans
    <3>1. files' = Home /\ tun = "absent"
      BY <1>1, <1>3, <1>4, <2>2, ReturnKeeps DEF DnsInv, LinkInv, Closing
    <3>2. UNCHANGED tun
      BY <2>2, QuietTable DEF Requests
    <3> QED
      BY <3>1, <3>2
  <2>3. CASE pc \in Opening \cup {"off"} /\ ~OperatorCleans
    <3>1. UNCHANGED files /\ (clash = "background" => clash' = "background")
      BY <1>4, <2>3, RestKept
    <3>2. UNCHANGED <<tun, lease>> /\ (UNCHANGED routes \/ DhcpRenews)
      BY <2>3, QuietTable DEF Requests, Opening
    <3>3. EthFirst' <=> EthFirst
      BY <3>2, EthKept
    <3>4. IF files = Home THEN tun = "absent" ELSE Blocked
      BY <1>1, <2>3 DEF LinkInv
    <3> HIDE DEF Home
    <3> QED
      BY <3>1, <3>2, <3>3, <3>4 DEF Blocked
  <2> QED
    BY <1>2, <1>4, <2>1, <2>2, <2>3
       DEF Moves, Early, Opening, Swapping, Building, Closing
<1>5. outcome' = "clean" => tun' = "absent"
  <2>1. SUFFICES ASSUME outcome' = "clean" PROVE tun' = "absent"
    OBVIOUS
  <2>2. tun = "absent" /\ pc \in {"return", "off"}
    BY <1>1, <1>2, <2>1 DEF Moves, LinkInv, Closing
  <2>3. UNCHANGED tun \/ OperatorCleans
    BY <2>2, QuietTable DEF Requests
  <2> QED
    BY <2>2, <2>3 DEF OperatorCleans, OperatorResets
<1>6. /\ pc' \in Swapping \cup Closing => tun' = "absent"
      /\ pc' = "tun_addr" => tun' = "bare"
      /\ pc' \in {"tun_up", "del_link"} => tun' = "addressed"
      /\ pc' \in {"get_gw", "del_wlo", "del_tun", "add_wlo", "tun_down"}
                   \cup Diverting \cup Session => tun' = "up"
      /\ pc' \in Building \cup Diverting \cup Session \cup Undoing => persist'
  <2> USE DEF Opening, Swapping, Building, Diverting, Session, Undoing, Closing
  <2>1. CASE UNCHANGED <<tun, persist>> /\ ~Requests
    <3>1. pc = "ali_bak" /\ AliBak /\ pc' = "google_conf" => tun = "absent"
      BY <1>1, <1>3 DEF AliBak, Rename, Asserted, At, Abort, Dies, LinkInv, DnsInv,
                        DnsConserved
    <3> QED
      BY <1>1, <1>2, <2>1, <3>1 DEF LinkInv, Moves, Requests
  <2>2. CASE OperatorCleans
    BY <2>2 DEF OperatorCleans, mainvars
  <2>3. CASE Requests
    BY <1>1, <2>3
       DEF LinkInv, Requests, ioctl_tun_create, netlink_tun_addr, netlink_up,
           DelWlo, AddTun, AddHost, DelHost, DelTun, AddWlo, netlink_down,
           netlink_del_link, Request, Asserted, Abort, Dies, Then, TunCreate,
           TunAddr, LinkUp, LinkDown, DelLink, AddRoute, DelRoute
  <2> QED
    BY <2>1, <2>2, <2>3, QuietTable
<1> QED
  BY <1>4, <1>5, <1>6 DEF LinkInv

\* The requests of main() that change the table, by where they lead.
RouteRequests ==
  \/ pc = "del_wlo" /\ pc' = "add_tun" /\ DelRoute("default", "wlp2s0", gw)
  \/ /\ pc = "add_tun" /\ pc' = "add_host"
     /\ routes' = routes \cup {BootRoute("default", "tun0", Peer)}
  \/ /\ pc = "add_host" /\ pc' = "fork"
     /\ routes' = routes \cup {BootRoute("server", "wlp2s0", lease)}
  \/ pc = "del_host" /\ pc' = "del_tun" /\ DelRoute("server", "wlp2s0", gw)
  \/ pc = "del_tun" /\ pc' = "add_wlo" /\ DelRoute("default", "tun0", Peer)
  \/ /\ pc = "add_wlo" /\ pc' = "tun_down"
     /\ routes' = routes \cup {BootRoute("default", "wlp2s0", lease)}
  \/ /\ <<pc, pc'>> \in {<<"tun_down", "del_link">>, <<"del_link", "netlink_end">>}
     /\ routes' = {r \in routes : r.dev # "tun0"}

RoutePoint ==
  pc \in {"del_wlo", "add_tun", "add_host", "del_host", "del_tun", "add_wlo",
          "tun_down", "del_link"}

\* ... and all that happens to the table without a mishap.
TableMoves ==
  \/ UNCHANGED routes /\ (UNCHANGED pc \/ ~RoutePoint)
  \/ UNCHANGED pc /\ routes' = routes \cup {DhcpDefault("wlp2s0", lease)}
  \/ /\ UNCHANGED pc /\ pc = "off" /\ outcome' = "none"
     /\ routes' = {DhcpDefault("wlp2s0", lease)}
  \/ RouteRequests

\* No other change, and the lease stays.
LEMMA QuietRoutes ==
  ASSUME MachineInv, QuietParts, MainStep \/ QuietEvents, UNCHANGED faults,
         outcome' # "abort" \/ pc = "off"
  PROVE  UNCHANGED lease /\ TableMoves
<1>1. Moves
  BY QuietMoves
<1>2. SUFFICES TableMoves
  BY QuietTable
<1>3. CASE DhcpRenews /\ UNCHANGED pc
  BY <1>3 DEF TableMoves, DhcpRenews, DhcpRenew
<1>4. CASE OperatorCleans /\ UNCHANGED pc
  BY <1>4 DEF TableMoves, OperatorCleans, OperatorResets
<1>5. CASE UNCHANGED routes /\ ~Requests
  <2>1. UNCHANGED pc \/ ~RoutePoint
    BY <1>1, <1>5 DEF Moves, RoutePoint, Requests, Opening, Swapping, Closing
  <2> QED
    BY <1>5, <2>1 DEF TableMoves
<1>6. CASE Requests
  <2>1. TableInv /\ pc # "off"
    BY <1>6 DEF QuietParts, Requests
  <2>2. pc \in {"add_host", "add_wlo"} => gw = lease
    BY <2>1 DEF TableInv, Diverting
  <2>3. CASE pc \in {"tun_create", "tun_addr", "tun_up"}
    BY <1>6, <2>3
       DEF Requests, ioctl_tun_create, netlink_tun_addr, netlink_up, Request,
           Asserted, Abort, Dies, TunCreate, TunAddr, LinkUp, TableMoves, RoutePoint
  <2>4. CASE pc \notin {"tun_create", "tun_addr", "tun_up"}
    <3> USE DEF Request, Asserted, Abort, Dies, Then, RouteRequests, TableMoves
    <3>1. CASE pc = "del_wlo" /\ DelWlo
      BY <2>1, <3>1 DEF DelWlo
    <3>2. CASE pc = "add_tun" /\ AddTun
      BY <2>1, <3>2 DEF AddTun, AddRoute
    <3>3. CASE pc = "add_host" /\ AddHost
      BY <2>1, <2>2, <3>3 DEF AddHost, AddRoute
    <3>4. CASE pc = "del_host" /\ DelHost
      BY <2>1, <3>4 DEF DelHost
    <3>5. CASE pc = "del_tun" /\ DelTun
      BY <2>1, <3>5 DEF DelTun
    <3>6. CASE pc = "add_wlo" /\ AddWlo
      BY <2>1, <2>2, <3>6 DEF AddWlo, AddRoute
    <3>7. CASE pc = "tun_down" /\ netlink_down
      BY <2>1, <3>7 DEF netlink_down, LinkDown
    <3>8. CASE pc = "del_link" /\ netlink_del_link
      BY <2>1, <3>8 DEF netlink_del_link, DelLink
    <3> QED
      BY <1>6, <2>4, <3>1, <3>2, <3>3, <3>4, <3>5, <3>6, <3>7, <3>8 DEF Requests
  <2> QED
    BY <2>3, <2>4
<1> QED
  BY <1>3, <1>4, <1>5, <1>6, QuietTable

\* Who writes the gateway and the memory of the default route.
LEMMA GatewayKept ==
  ASSUME MainStep \/ QuietEvents
  PROVE  /\ UNCHANGED gw \/ (netlink_get_gateway /\ pc = "get_gw")
         /\ UNCHANGED before \/ Start
<1> USE DEF MainStep, QuietEvents, Asserted, Abort, At,
        RestOfMachine, mainvars, dnsvars, procvars, ghosts
<1> USE DEF privilege_escalate, privilege_drop, Select, Record, bus_init, AliBak,
        GoogleConf, GoogleBak, AliConf, Rename, Readproctab, KillClash,
        PollClash, StartSs, netlink_init, netlink_get_gateway, Fork, KillTun,
        netlink_end, StopSs, bus_end, Return, Restart, Flush
<1> USE DEF ioctl_tun_create, netlink_tun_addr, netlink_up, DelWlo, AddTun,
        AddHost, DelHost, DelTun, AddWlo, netlink_down, netlink_del_link, Request
<1> USE DEF Enter, JobRuns, ClashDies, ClashStarts, ChildExec, ChildDies,
        DhcpRenews, OperatorCleans, vars
<1>1. UNCHANGED gw \/ (netlink_get_gateway /\ pc = "get_gw")
  BY DEF Start
<1>2. UNCHANGED before \/ Start
  OBVIOUS
<1> QED
  BY <1>1, <1>2

\* The table at each point of main().
LEMMA TableQuiet ==
  ASSUME MachineInv, QuietParts, MainStep \/ QuietEvents, UNCHANGED faults,
         outcome' # "abort" \/ pc = "off"
  PROVE  TableInv'
<1> DEFINE D == DhcpDefault("wlp2s0", lease)
           B(dst, dev, via) == BootRoute(dst, dev, via)
<1>1. /\ D.dst = "default" /\ D.dev = "wlp2s0" /\ D.via = lease /\ D.metric = 3003
  BY DEF DhcpDefault, Metric
<1>2. \A dst, dev, via :
        /\ B(dst, dev, via).dst = dst /\ B(dst, dev, via).dev = dev
        /\ B(dst, dev, via).via = via /\ B(dst, dev, via).metric = 0
  BY DEF BootRoute, Metric
<1>3. /\ TableInv /\ RouteInv /\ RunInv /\ routes \in SUBSET Route /\ pc \in Pcs
      /\ pc # "off" => outcome = "none"
  BY DEF MachineInv, TypeOK, NetTypeOK, RunInv, QuietParts
<1>4. RouteInv'
  BY NetStep DEF Next, QuietEvents
<1>5. Moves /\ TableMoves /\ lease' = lease
  BY QuietMoves, QuietRoutes
<1>6. /\ UNCHANGED gw \/ (netlink_get_gateway /\ pc = "get_gw")
      /\ UNCHANGED before \/ Start
  BY GatewayKept
<1> USE DEF Early
<1>7. \/ UNCHANGED routes /\ (UNCHANGED pc \/ ~RoutePoint)
      \/ UNCHANGED pc /\ routes' = routes \cup {D}
      \/ UNCHANGED pc /\ pc = "off" /\ outcome' = "none" /\ routes' = {D}
      \/ RouteRequests
  BY <1>5 DEF TableMoves
<1> HIDE DEF D, B
\* Where a route comes from.
<1>8. \A r \in routes' :
        \/ r \in routes \/ r = D
        \/ r = B("default", "tun0", Peer) /\ pc = "add_tun" /\ pc' = "add_host"
        \/ r = B("server", "wlp2s0", lease) /\ pc = "add_host" /\ pc' = "fork"
        \/ r = B("default", "wlp2s0", lease) /\ pc = "add_wlo" /\ pc' = "tun_down"
  BY <1>7 DEF RouteRequests, DelRoute, B
\* Where a route goes.
<1>9. \A r \in routes :
        \/ r \in routes'
        \/ pc = "off" /\ pc' = "off" /\ outcome' = "none" /\ routes' = {D}
        \/ r.dst = "default" /\ r.dev = "wlp2s0" /\ pc = "del_wlo" /\ pc' = "add_tun"
        \/ r.dst = "server" /\ pc = "del_host" /\ pc' = "del_tun"
        \/ r.dev = "tun0" /\ pc = "del_tun" /\ pc' = "add_wlo"
        \/ r.dev = "tun0" /\ pc = "tun_down" /\ pc' = "del_link"
        \/ r.dev = "tun0" /\ pc = "del_link" /\ pc' = "netlink_end"
  BY <1>7 DEF RouteRequests, DelRoute, Matching
<1>10. \A r \in routes' : r.dev = "wlp2s0" => r.via = lease'
  BY <1>1, <1>2, <1>3, <1>5, <1>8 DEF TableInv
<1>11. before'.dev = "wlp2s0" => before'.via = lease'
  <2>1. CASE Start
    BY <1>3, <1>5, <2>1 DEF Start, TableInv
  <2>2. CASE UNCHANGED before
    BY <1>3, <1>5, <2>2 DEF TableInv
  <2> QED
    BY <1>6, <2>1, <2>2
<1>12. ASSUME pc' \in Early, EthFirst'
       PROVE  before'.dev # "wlp2s0"
  <2>1. EthFirst
    <3>1. UNCHANGED routes \/ routes' = routes \cup {D}
      BY <1>7, <1>12 DEF RouteRequests, Opening, Swapping, Building
    <3> QED
      BY <1>1, <1>5, <1>12, <3>1 DEF EthFirst
  <2>2. CASE Start
    <3>1. PICK e \in routes : e.dev = "eth" /\ e.dst = "default" /\ e.metric = 3002
      BY <1>3, <2>1 DEF EthFirst, RouteInv
    <3>2. ASSUME NEW r \in routes, Best(r), r.dev = "wlp2s0"
          PROVE  FALSE
      <4>1. r.metric <= 3002 /\ r.dst = "default"
        BY <3>1, <3>2 DEF Best, Defaults
      <4>2. r.metric = 3003
        BY <1>3, <2>1, <3>2, <4>1 DEF RouteInv, EthFirst
      <4> QED
        BY <4>1, <4>2
    <3> QED
      BY <2>2, <3>2 DEF Start
  <2>3. CASE ~Start
    <3>1. pc \in Early /\ UNCHANGED before
      BY <1>5, <1>6, <1>12, <2>3 DEF Moves, Opening, Swapping, Building, Closing
    <3> QED
      BY <1>3, <2>1, <3>1 DEF TableInv
  <2> QED
    BY <2>2, <2>3
<1>13. ASSUME pc' \in {"off"} \cup Early
       PROVE  /\ NoServer' /\ NoTun'
              /\ \E r \in routes' : r.dst = "default" /\ r.dev = "wlp2s0"
  <2>1. CASE pc \in {"off"} \cup Early
    <3>1. /\ NoServer /\ NoTun
          /\ \E r \in routes : r.dst = "default" /\ r.dev = "wlp2s0"
      BY <1>3, <2>1 DEF TableInv
    <3>2. UNCHANGED routes \/ routes' = routes \cup {D} \/ routes' = {D}
      BY <1>7, <1>13 DEF RouteRequests, Opening, Swapping, Building
    <3> QED
      BY <1>1, <3>1, <3>2 DEF NoServer, NoTun
  <2>2. CASE pc = "return" /\ pc' = "off"
    <3>1. /\ NoServer /\ NoTun
          /\ \E r \in routes : r.dst = "default" /\ r.dev = "wlp2s0"
      BY <1>3, <2>2 DEF TableInv, RunInv, Closing
    <3>2. UNCHANGED routes
      BY <1>7, <2>2 DEF RouteRequests
    <3> QED
      BY <3>1, <3>2 DEF NoServer, NoTun
  <2> QED
    BY <1>5, <1>13, <2>1, <2>2 DEF Moves, Opening, Swapping, Building, Closing
<1>14. ASSUME pc' = "del_wlo"
       PROVE  gw' = lease' \/ EthFirst'
  <2>1. CASE pc = "get_gw"
    <3>1. netlink_get_gateway /\ UNCHANGED routes
      BY <1>5, <1>7, <1>14, <2>1
         DEF Moves, RouteRequests, Opening, Swapping, Closing
    <3>2. PICK r \in Defaults : Best(r) /\ r.dev # "tun0" /\ r.via = gw'
      BY <1>14, <3>1 DEF netlink_get_gateway, Asserted, Abort, Dies, GetGatewayOk
    <3>3. CASE r.dev = "wlp2s0"
      BY <1>3, <1>5, <3>2, <3>3 DEF TableInv, Defaults
    <3>4. CASE r.dev = "eth"
      <4>1. r.metric = 3002 /\ r \in routes
        BY <1>3, <3>2, <3>4 DEF RouteInv, Defaults
      <4>2. \A q \in routes : q.dst = "default" => 3002 <= q.metric
        BY <3>2, <4>1 DEF Best, Defaults
      <4>3. \A q \in routes : q.dst = "default" => q.metric # 0
        BY <4>2
      <4> QED
        BY <1>5, <3>1, <3>2, <3>4, <4>1, <4>3 DEF EthFirst
    <3> QED
      BY <1>3, <3>2, <3>3, <3>4 DEF RouteInv, Defaults
  <2>2. CASE pc = "del_wlo"
    <3>1. UNCHANGED routes \/ routes' = routes \cup {D}
      BY <1>7, <1>14, <2>2 DEF RouteRequests
    <3>2. EthFirst => EthFirst'
      BY <1>1, <1>5, <3>1 DEF EthFirst
    <3> QED
      BY <1>3, <1>5, <1>6, <2>2, <3>2 DEF TableInv
  <2> QED
    BY <1>5, <1>14, <2>1, <2>2 DEF Moves, Opening, Swapping, Closing
<1>15. ASSUME pc' \in {"del_tun", "add_wlo"} \cup Diverting \cup Session
       PROVE  gw' = lease'
  <2> USE DEF Diverting, Session
  <2>1. CASE pc = "del_wlo"
    <3>1. DelRoute("default", "wlp2s0", gw) /\ UNCHANGED gw
      BY <1>6, <1>7, <1>15, <2>1 DEF RouteRequests, RoutePoint
    <3>2. gw = lease
      BY <1>3, <3>1 DEF DelRoute, Matching, TableInv
    <3> QED
      BY <1>5, <3>1, <3>2
  <2>2. CASE pc # "del_wlo"
    <3>1. gw = lease /\ UNCHANGED gw
      BY <1>3, <1>5, <1>6, <1>15, <2>2 DEF Moves, TableInv, Opening, Swapping, Closing
    <3> QED
      BY <1>5, <3>1
  <2> QED
    BY <2>1, <2>2
<1>16. ASSUME pc' \in Diverting
       PROVE  NoServer'
  <2>1. NoServer
    BY <1>3, <1>5, <1>16
       DEF Moves, TableInv, Opening, Swapping, Building, Closing, Diverting
  <2> QED
    BY <1>1, <1>2, <1>8, <1>16, <2>1 DEF NoServer, Diverting
<1>17. ASSUME pc' \in {"add_tun", "add_wlo"}
       PROVE  \A r \in routes' : r.dst = "default" => r.metric # 0
  <2>1. CASE pc = pc'
    BY <1>1, <1>3, <1>8, <1>17, <2>1 DEF TableInv
  <2>2. CASE pc = "del_wlo"
    <3>1. DelRoute("default", "wlp2s0", gw)
      BY <1>7, <1>17, <2>2 DEF RouteRequests, RoutePoint
    <3>2. gw = lease /\ NoTun /\ routes' \subseteq routes
      BY <1>3, <2>2, <3>1 DEF DelRoute, Matching, TableInv, Building
    <3>3. \A r \in routes : r.dst = "default" /\ r.metric = 0 =>
            r \in Matching("default", "wlp2s0", gw)
      BY <1>3, <3>2 DEF RouteInv, TableInv, NoTun, Matching
    <3> QED
      BY <1>3, <3>1, <3>2, <3>3, DeletedLast
  <2>3. CASE pc = "del_tun"
    <3>1. DelRoute("default", "tun0", Peer)
      BY <1>7, <1>17, <2>3 DEF RouteRequests, RoutePoint
    <3>2. \E r \in Matching("default", "tun0", Peer) : r.metric = 0
      BY <1>3, <3>1 DEF RouteInv, DelRoute, Matching
    <3> QED
      BY <1>3, <3>1, <3>2, DeletedLast
  <2> QED
    BY <1>5, <1>17, <2>1, <2>2, <2>3 DEF Moves, Opening, Swapping, Closing
<1>18. ASSUME pc' \in {"add_host", "del_tun"} \cup Session
       PROVE  \E r \in routes' : r.dev = "tun0"
  <2> USE DEF Session
  <2>1. CASE pc = "add_tun"
    <3>1. B("default", "tun0", Peer) \in routes'
      BY <1>7, <1>18, <2>1 DEF RouteRequests, RoutePoint, B
    <3> QED
      BY <1>2, <3>1
  <2>2. CASE pc # "add_tun"
    <3>1. PICK r \in routes : r.dev = "tun0"
      BY <1>3, <1>5, <1>18, <2>2 DEF Moves, TableInv, Opening, Swapping, Closing
    <3>2. r.dst # "server"
      BY <1>3, <3>1 DEF RouteInv
    <3> QED
      BY <1>9, <1>18, <3>1, <3>2
  <2> QED
    BY <2>1, <2>2
<1>19. ASSUME pc' \in Session
       PROVE  \E r \in routes' : r.dst = "server"
  <2> USE DEF Session
  <2>1. CASE pc = "add_host"
    <3>1. B("server", "wlp2s0", lease) \in routes'
      BY <1>7, <1>19, <2>1 DEF RouteRequests, RoutePoint, B
    <3> QED
      BY <1>2, <3>1
  <2>2. CASE pc # "add_host"
    <3>1. PICK r \in routes : r.dst = "server"
      BY <1>3, <1>5, <1>19, <2>2 DEF Moves, TableInv, Opening, Swapping, Closing
    <3> QED
      BY <1>9, <1>19, <3>1
  <2> QED
    BY <2>1, <2>2
<1>20. ASSUME pc' \in {"tun_down", "del_link"} \cup Closing \/ outcome' = "clean"
       PROVE  \E r \in routes' : r.dst = "default" /\ r.dev = "wlp2s0" /\ r.metric = 0
  <2> USE DEF Closing
  <2>1. CASE pc = "add_wlo"
    <3>1. B("default", "wlp2s0", lease) \in routes'
      BY <1>3, <1>5, <1>7, <1>20, <2>1 DEF Moves, RouteRequests, RoutePoint, B
    <3> QED
      BY <1>2, <3>1
  <2>2. CASE pc # "add_wlo"
    <3>1. PICK r \in routes : r.dst = "default" /\ r.dev = "wlp2s0" /\ r.metric = 0
      BY <1>3, <1>5, <1>20, <2>2 DEF Moves, TableInv, Opening, Swapping
    <3> QED
      BY <1>5, <1>9, <1>20, <3>1 DEF Moves
  <2> QED
    BY <2>1, <2>2
<1> QED
  BY <1>10, <1>11, <1>12, <1>13, <1>14, <1>15, <1>16, <1>17, <1>18, <1>19, <1>20
     DEF TableInv, Early

\* The machine the first run finds.
LEMMA InitQuiet == Init => QuietInv
<1> SUFFICES ASSUME Init PROVE QuietParts
  BY DEF QuietInv
<1>1. /\ pc = "off" /\ outcome = "none" /\ tun = "absent" /\ files = Home
      /\ clash \in Running /\ before.dev = "wlp2s0" /\ before.via = lease
  BY DEF Init
<1>2. child = [r \in Runs |-> "none"]
  BY DEF Init
<1>3. ASSUME NEW d \in {"wlp2s0", "eth"}, NEW g \in Gateways
      PROVE  /\ DhcpDefault(d, g).dst = "default" /\ DhcpDefault(d, g).dev = d
             /\ DhcpDefault(d, g).via = g
  BY DEF DhcpDefault
<1>4. /\ DhcpDefault("wlp2s0", lease) \in routes /\ lease \in Gateways
      /\ \A r \in routes : r # DhcpDefault("wlp2s0", lease) =>
           \E g \in Gateways : r = DhcpDefault("eth", g)
  BY DEF Init
<1>5. TableInv
  BY <1>1, <1>3, <1>4
     DEF TableInv, NoServer, NoTun, Opening, Swapping, Building, Diverting,
         Session, Undoing, Closing
<1>6. ClashInv /\ ServerInv
  BY <1>1 DEF ClashInv, ServerInv, Running, BeforeKill, Opening, Building,
              Diverting, Session, Undoing
<1>7. LinkInv
  BY <1>1 DEF LinkInv, Opening, Swapping, Building, Diverting, Session, Undoing,
              Closing
<1>8. ChildInv
  BY <1>2 DEF ChildInv
<1> QED
  BY <1>1, <1>5, <1>6, <1>7, <1>8 DEF QuietParts, QuietRunCompletes

\* An aborted run stays excused until the next one or the clean-up.
LEMMA AbortKept ==
  ASSUME MainStep \/ QuietEvents, pc = "off", todo = "call", outcome' = "abort"
  PROVE  outcome = "abort" /\ UNCHANGED before
<1> USE DEF MainStep, QuietEvents, At, RestOfMachine, ghosts
<1> USE DEF privilege_escalate, privilege_drop, Select, Record, bus_init, AliBak,
        GoogleConf, GoogleBak, AliConf, Rename, Readproctab, KillClash,
        PollClash, StartSs, netlink_init, netlink_get_gateway, Fork, KillTun,
        netlink_end, StopSs, bus_end, Return, Restart, Flush
<1> USE DEF ioctl_tun_create, netlink_tun_addr, netlink_up, DelWlo, AddTun,
        AddHost, DelHost, DelTun, AddWlo, netlink_down, netlink_del_link, Request
<1> USE DEF Start, Enter, JobRuns, ClashDies, ClashStarts, ChildExec, ChildDies,
        DhcpRenews, OperatorCleans, vars
<1> QED
  OBVIOUS

\* A step without a mishap is an abort that Refused allows, or goes on.
LEMMA QuietStep ==
  ASSUME MachineInv, QuietInv, [Next]_vars
  PROVE  QuietInv'
<1> SUFFICES ASSUME faults' = 0 PROVE QuietParts'
  BY DEF QuietInv
<1>1. faults = 0 /\ QuietParts /\ UNCHANGED faults /\ (MainStep \/ QuietEvents)
  BY QuietNext DEF QuietInv
<1>2. CASE outcome' = "abort" /\ pc # "off"
  <2>1. MainStep
    <3>1. outcome = "none"
      BY <1>2 DEF MachineInv, RunInv
    <3> QED
      BY <1>1, <1>2, <3>1
         DEF QuietEvents, Start, Enter, JobRuns, ClashDies, ClashStarts, ChildExec,
             ChildDies, DhcpRenews, OperatorCleans, vars, ghosts, RestOfMachine
  <2> QED
    BY <1>1, <1>2, <2>1, QuietAborts, RefusedQuiet
<1>3. CASE outcome' # "abort" \/ pc = "off"
  <2>1. ClashInv' /\ ServerInv' /\ ChildInv' /\ LinkInv' /\ TableInv'
        /\ (outcome' = "clean" => tun' = "absent")
    BY <1>1, <1>3, ProcessQuiet, LinkQuiet, TableQuiet
  <2>2. QuietRunCompletes'
    <3>1. pc = "off" => todo = "call"
      BY DEF MachineInv, CoreInv, PrivilegeInv
    <3>2. outcome' = "abort" => outcome = "abort" /\ UNCHANGED before
      BY <1>1, <1>3, <3>1, AbortKept
    <3> QED
      BY <1>1, <3>2 DEF QuietParts, QuietRunCompletes
  <2> QED
    BY <2>1, <2>2 DEF QuietParts
<1> QED
  BY <1>2, <1>3

\* As long as nothing goes wrong the machine is what main() takes it for at
\* each of its calls, run after run.
THEOREM QuietCorrect == Spec => [](MachineInv /\ QuietInv)
<1>1. ASSUME MachineInv, QuietInv, [Next]_vars
      PROVE  QuietInv'
  BY <1>1, QuietStep
<1> QED
  BY <1>1, InitQuiet, MachineCorrect, PTL DEF Spec

\* Without a mishap no assertion of main() fails, in any run, when clash is in
\* the foreground and wlp2s0 is preferred.
THEOREM QuietRunCompletesAlways == Spec => []QuietRunCompletes
<1>1. MachineInv /\ QuietInv => QuietRunCompletes
  <2>1. ASSUME MachineInv PROVE faults = 0 \/ faults > 0
    BY <2>1, BoundsAssumption DEF MachineInv, TypeOK
  <2> QED
    BY <2>1 DEF QuietInv, QuietParts, QuietRunCompletes
<1> QED
  BY <1>1, QuietCorrect, PTL

\* A run that returns from main() has put back what it took.
THEOREM CleanExitRestoresAlways == Spec => []CleanExitRestores
<1>1. ASSUME MachineInv, QuietInv, outcome = "clean"
      PROVE  /\ files = Home
             /\ \A r \in routes : r.dst # "server" /\ r.dev # "tun0"
  BY <1>1 DEF MachineInv, RunInv, NoServer, NoTun
<1>2. ASSUME MachineInv, QuietInv, outcome = "clean", faults = 0,
             before.dev = "wlp2s0"
      PROVE  tun = "absent" /\ BestIs("wlp2s0", before.via)
  <2>1. tun = "absent" /\ TableInv /\ RouteInv
    BY <1>2 DEF QuietInv, QuietParts, MachineInv
  <2>2. PICK r \in routes : r.dst = "default" /\ r.dev = "wlp2s0" /\ r.metric = 0
    BY <1>2, <2>1 DEF TableInv
  <2>3. r.via = before.via
    BY <1>2, <2>1, <2>2 DEF TableInv
  <2>4. \A q \in Defaults : 0 <= q.metric
    BY <2>1 DEF RouteInv, Defaults
  <2> QED
    BY <2>1, <2>2, <2>3, <2>4 DEF BestIs, Best, Defaults
<1>3. MachineInv /\ QuietInv => CleanExitRestores
  BY <1>1, <1>2 DEF CleanExitRestores
<1> QED
  BY <1>3, QuietCorrect, PTL

\* While main() waits for Enter, without a mishap, the tunnel is whole.
THEOREM SessionTunnelledAlways == Spec => []SessionTunnelled
<1>1. ASSUME MachineInv, QuietInv, pc = "read_r", faults = 0
      PROVE  /\ tun = "up" /\ BestIs("tun0", Peer)
             /\ \E r \in routes : r.dst = "server" /\ r.dev = "wlp2s0" /\ r.via = gw
             /\ ss = "up" /\ clash = "gone"
  <2>1. ClashInv /\ ServerInv /\ LinkInv /\ TableInv /\ RouteInv
    BY <1>1 DEF QuietInv, QuietParts, MachineInv
  <2>2. tun = "up" /\ ss = "up" /\ clash = "gone"
    BY <1>1, <2>1 DEF ClashInv, ServerInv, LinkInv, BeforeKill, Opening, Session
  <2>3. PICK r \in routes : r.dev = "tun0"
    BY <1>1, <2>1 DEF TableInv, Session
  <2>4. r.dst = "default" /\ r.metric = 0 /\ r.via = Peer
    BY <2>1, <2>3 DEF RouteInv
  <2>5. \A q \in Defaults : 0 <= q.metric
    BY <2>1 DEF RouteInv, Defaults
  <2>6. BestIs("tun0", Peer)
    BY <2>3, <2>4, <2>5 DEF BestIs, Best, Defaults
  <2>7. PICK s \in routes : s.dst = "server"
    BY <1>1, <2>1 DEF TableInv, Session
  <2>8. s.dev = "wlp2s0" /\ s.via = gw
    BY <1>1, <2>1, <2>7 DEF TableInv, RouteInv, Session
  <2> QED
    BY <2>2, <2>6, <2>7, <2>8
<1>2. MachineInv /\ QuietInv => SessionTunnelled
  BY <1>1 DEF SessionTunnelled
<1> QED
  BY <1>2, QuietCorrect, PTL

\* The server's own traffic has its route for as long as an undisturbed
\* tun2socks feeds it from the tunnel.
THEOREM NoLoopBeforeKillAlways == Spec => []NoLoopBeforeKill
<1>1. ASSUME MachineInv, QuietInv, faults = 0, NEW r \in Runs,
             child[r] = "attached", r \notin signalled
      PROVE  \E q \in routes : q.dst = "server" /\ q.dev = "wlp2s0"
  <2>1. ChildInv /\ TableInv /\ RouteInv
    BY <1>1 DEF QuietInv, QuietParts, MachineInv
  <2>2. pc \in {"read_r", "kill_tun"}
    BY <1>1, <2>1 DEF ChildInv
  <2>3. PICK q \in routes : q.dst = "server"
    BY <2>1, <2>2 DEF TableInv, Session
  <2> QED
    BY <2>1, <2>3 DEF RouteInv
<1>2. MachineInv /\ QuietInv => NoLoopBeforeKill
  BY <1>1 DEF NoLoopBeforeKill
<1> QED
  BY <1>2, QuietCorrect, PTL
==============================================================================
