------------------------------ MODULE Rtnetlink ------------------------------
(***************************************************************************)
(* The kernel's side of bin.tun/netlink.c and ioctl.c: the tun0 link and    *)
(* the IPv4 main table, and what each request of these files does to them   *)
(* or is refused for.  A request is a pair: XOk, the ack carries no error;  *)
(* X, its effect.  netlink.c asserts on every ack, so its caller aborts     *)
(* where XOk is false.                                                      *)
(***************************************************************************)
EXTENDS Integers, FiniteSets

CONSTANTS Gateways   \* the routers a network hands out as default gateway

VARIABLES
  tun,      \* tun0: "absent", "bare", "addressed" (and down) or "up"
  persist,  \* TUNSETPERSIST was set on it
  routes,   \* the main table, connected routes left out
  lease     \* the gateway of the network wlp2s0 is in

netvars == <<tun, persist, routes, lease>>

Devs == {"tun0", "wlp2s0", "eth"}

Peer == "10.0.0.2"

Hops == Gateways \cup {Peer}

\* rtm_dst_len 0, or the /32 of profile.remote_host.
Dsts == {"default", "server"}

\* netlink.c sends no RTA_PRIORITY; the DHCP client uses the metrics that
\* netlink_get_gateway expects.
Metric == [eth |-> 3002, wlp2s0 |-> 3003, none |-> 0]

Metrics == {0, 3002, 3003}

Route == [dst : Dsts, dev : Devs, via : Hops, metric : Metrics,
          proto : {"boot", "dhcp"}]

Links == {"absent", "bare", "addressed", "up"}

NetTypeOK ==
  /\ tun \in Links
  /\ persist \in BOOLEAN
  /\ routes \in SUBSET Route
  /\ lease \in Gateways

DhcpDefault(dev, g) ==
  [dst |-> "default", dev |-> dev, via |-> g, metric |-> Metric[dev],
   proto |-> "dhcp"]

\* What netlink_route(true, ...) asks for.
BootRoute(dst, dev, via) ==
  [dst |-> dst, dev |-> dev, via |-> via, metric |-> Metric.none,
   proto |-> "boot"]

Defaults == {r \in routes : r.dst = "default"}

\* The default route traffic takes: the lowest metric.
Best(r) == r \in Defaults /\ \A q \in Defaults : r.metric <= q.metric

BestIs(dev, via) == \E r \in Defaults : Best(r) /\ r.dev = dev /\ r.via = via

------------------------------------------------------------------------------
\* TUNSETIFF attaches to a link nobody else has open, making it if need be;
\* TUNSETPERSIST keeps it when the descriptor is closed.
TunCreateOk(attached) == ~attached

TunCreate ==
  /\ tun' = IF tun = "absent" THEN "bare" ELSE tun
  /\ persist' = TRUE
  /\ UNCHANGED <<routes, lease>>

\* RTM_NEWADDR with NLM_F_EXCL.
TunAddrOk == tun = "bare"

TunAddr ==
  /\ tun' = "addressed"
  /\ UNCHANGED <<persist, routes, lease>>

\* RTM_NEWLINK with IFF_UP set or clear; going down flushes the link's routes.
FlagsOk == tun # "absent"

LinkUp ==
  /\ tun' = IF tun = "addressed" THEN "up" ELSE tun
  /\ UNCHANGED <<persist, routes, lease>>

LinkDown ==
  /\ tun' = IF tun = "up" THEN "addressed" ELSE tun
  /\ routes' = {r \in routes : r.dev # "tun0"}
  /\ UNCHANGED <<persist, lease>>

\* RTM_DELLINK.
DelLinkOk == tun # "absent"

DelLink ==
  /\ tun' = "absent"
  /\ persist' = FALSE
  /\ routes' = {r \in routes : r.dev # "tun0"}
  /\ UNCHANGED lease

\* The next hop has to be on a link that is up.
OnLink(dev, via) ==
  \/ dev = "tun0" /\ tun = "up" /\ via = Peer
  \/ dev = "wlp2s0" /\ via = lease

\* RTM_NEWROUTE with NLM_F_EXCL|NLM_F_CREATE: EEXIST for a route to the same
\* destination with the same metric, whatever its next hop.
AddRouteOk(dst, dev, via) ==
  /\ OnLink(dev, via)
  /\ \A r \in routes : r.dst = dst => r.metric # Metric.none

AddRoute(dst, dev, via) ==
  /\ routes' = routes \cup {BootRoute(dst, dev, via)}
  /\ UNCHANGED <<tun, persist, lease>>

\* RTM_DELROUTE with RTPROT_UNSPEC and no metric takes the first route that
\* matches destination, device and next hop: ESRCH if there is none.
Matching(dst, dev, via) ==
  {r \in routes : r.dst = dst /\ r.dev = dev /\ r.via = via}

DelRouteOk(dst, dev, via) == Matching(dst, dev, via) # {}

DelRoute(dst, dev, via) ==
  /\ \E r \in Matching(dst, dev, via) :
       /\ \A q \in Matching(dst, dev, via) : r.metric <= q.metric
       /\ routes' = routes \ {r}
  /\ UNCHANGED <<tun, persist, lease>>

\* netlink_get_gateway reads the first route of the dump: the preferred
\* default, if there is one; its asserts refuse any other first route and an
\* interface other than the two it knows, but not the wrong one of the two.
GetGatewayOk(g) ==
  \E r \in Defaults : Best(r) /\ r.dev # "tun0" /\ r.via = g

------------------------------------------------------------------------------
\* The DHCP client on wlp2s0 installs the default route of the lease.
DhcpRenew ==
  /\ DhcpDefault("wlp2s0", lease) \notin routes
  /\ routes' = routes \cup {DhcpDefault("wlp2s0", lease)}
  /\ UNCHANGED <<tun, persist, lease>>

\* The network changes under the program: the client replaces its own default
\* route; routes without a source address stay, whether reachable or not.
LeaseMove ==
  \E g \in Gateways \ {lease} :
    /\ lease' = g
    /\ routes' = {r \in routes : ~(r.dev = "wlp2s0" /\ r.proto = "dhcp")}
                   \cup {DhcpDefault("wlp2s0", g)}
    /\ UNCHANGED <<tun, persist>>

\* wlp2s0 loses its carrier and comes back: its routes are flushed and the
\* client installs its default again.
WloFlap ==
  /\ routes' = {r \in routes : r.dev # "wlp2s0"}
                 \cup {DhcpDefault("wlp2s0", lease)}
  /\ UNCHANGED <<tun, persist, lease>>

\* test.sh:17-27: the operator deletes tun0, flushes the main table and writes
\* the default route again.
OperatorResets ==
  /\ tun' = "absent"
  /\ persist' = FALSE
  /\ routes' = {DhcpDefault("wlp2s0", lease)}
  /\ UNCHANGED lease
==============================================================================
