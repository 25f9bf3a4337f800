---------------------------- MODULE NetlinkSocket ----------------------------
(***************************************************************************)
(* bin.tun/netlink.c: how a request and its answer go over the one netlink  *)
(* socket.  All requests carry sequence number 0, so that an answer belongs *)
(* to a request only by being read in its turn.  A request that changes     *)
(* something is answered by one NLMSG_ERROR segment (the ack); the route    *)
(* dump by RTM_NEWROUTE segments and an NLMSG_DONE, which the kernel sends  *)
(* as a segment of its own or packs into the last one (external).           *)
(***************************************************************************)
EXTENDS Naturals, Sequences

CONSTANTS SZ,           \* bytes of recvbuf
          Sizes,        \* the sizes a segment may have
          MaxSegments,  \* how many segments of routes a dump has
          MaxRequests   \* how many requests are sent (bound of the model)

ASSUME SocketAssumption ==
  /\ SZ \in Nat \ {0} /\ Sizes \subseteq Nat \ {0} /\ Sizes # {}
  /\ MaxSegments \in Nat \ {0} /\ MaxRequests \in Nat \ {0}

VARIABLES
  at,      \* "idle", "receive", "use" (the answer) or "abort"
  kind,    \* the request: "change" or "dump"
  n,       \* how many requests have been sent
  queue,   \* the segments the kernel has put into the socket
  packed,  \* the kernel packed NLMSG_DONE into the last segment of a dump
  p,       \* receive(): the offset the next segment goes to
  len,     \* the static length of what is in recvbuf
  first    \* the segment at the start of recvbuf

vars == <<at, kind, n, queue, packed, p, len, first>>

Types == {"ERROR", "ROUTE", "DONE"}

Segment == [type : Types, of : 0..MaxRequests, size : Nat, error : BOOLEAN]

NoSegment == [type |-> "DONE", of |-> 0, size |-> 0, error |-> FALSE]

TypeOK ==
  /\ at \in {"idle", "receive", "use", "abort"}
  /\ kind \in {"change", "dump"}
  /\ n \in 0..MaxRequests
  /\ queue \in Seq(Segment)
  /\ packed \in BOOLEAN
  /\ p \in 0..SZ /\ len \in 0..SZ
  /\ first \in Segment

Init ==
  /\ at = "idle" /\ kind = "change" /\ n = 0
  /\ queue = <<>> /\ packed = FALSE
  /\ p = 0 /\ len = 0 /\ first = NoSegment

------------------------------------------------------------------------------
Answer(type, size, error) ==
  [type |-> type, of |-> n + 1, size |-> size, error |-> error]

Routes(k, size) == [i \in 1..k |-> Answer("ROUTE", size, FALSE)]

\* send(): the kernel acts on the request and queues its answer at once.
Send(k) ==
  /\ at = "idle" /\ n < MaxRequests
  /\ n' = n + 1 /\ kind' = k
  /\ at' = "receive" /\ p' = 0
  /\ UNCHANGED <<len, first>>

\* RTM_NEWROUTE, RTM_DELROUTE, RTM_NEWADDR, RTM_NEWLINK, RTM_DELLINK.
SendChange ==
  /\ Send("change")
  /\ \E e \in BOOLEAN : queue' = Append(queue, Answer("ERROR", 1, e))
  /\ packed' = FALSE

\* RTM_GETROUTE
ask_route ==
  /\ Send("dump")
  /\ \E k \in 1..MaxSegments, size \in Sizes :
       \/ /\ queue' = queue \o Append(Routes(k, size), Answer("DONE", 1, FALSE))
          /\ packed' = FALSE
       \/ /\ queue' = queue \o Routes(k, size)
          /\ packed' = TRUE

\* Mutant: the segment is taken to fit.
SeglenUnbounded(seg) == seg.size

\* What recv() writes of the next segment: a longer one loses its end.
Seglen(seg) == IF seg.size <= SZ - len THEN seg.size ELSE SZ - len

\* Mutant: no loop, the first segment is the answer.
receive_once ==
  /\ at = "receive" /\ queue # <<>>
  /\ len' = len + Seglen(Head(queue))
  /\ p' = p + Seglen(Head(queue))
  /\ first' = Head(queue)
  /\ queue' = Tail(queue)
  /\ at' = "use"
  /\ UNCHANGED <<kind, n, packed>>

\* Mutant: only an error ends the loop.
receive_until_error ==
  /\ at = "receive" /\ queue # <<>>
  /\ len' = len + Seglen(Head(queue))
  /\ p' = p + Seglen(Head(queue))
  /\ first' = IF p = 0 THEN Head(queue) ELSE first
  /\ queue' = Tail(queue)
  /\ at' = IF Head(queue).type = "ERROR" THEN "use" ELSE "receive"
  /\ UNCHANGED <<kind, n, packed>>

\* One round of receive(), which blocks in recv() while nothing is queued: the
\* loop ends with a segment that begins with NLMSG_DONE or NLMSG_ERROR.
receive ==
  /\ at = "receive" /\ queue # <<>>
  /\ LET seg == Head(queue)
         l == Seglen(seg)
     IN  IF l >= 1
           THEN /\ len' = len + l
                /\ p' = p + l
                /\ first' = IF p = 0 THEN seg ELSE first
                /\ at' = IF seg.type \in {"DONE", "ERROR"} THEN "use" ELSE "receive"
           ELSE at' = "abort" /\ UNCHANGED <<len, p, first>>
  /\ queue' = Tail(queue)
  /\ UNCHANGED <<kind, n, packed>>

\* Mutant: the length stays.
clearbuf_forgotten == len' = len

clearbuf == len' = 0

\* ack(); clearbuf();
ack ==
  /\ at = "use" /\ kind = "change"
  /\ IF first.type = "ERROR" /\ ~first.error
       THEN at' = "idle" /\ clearbuf
       ELSE at' = "abort" /\ len' = len
  /\ UNCHANGED <<kind, n, queue, packed, p, first>>

\* The first route of the dump, with clearbuf(), or one of the assertions on it
\* and on its attributes.  A dump begins with the default route when there is one;
\* the branch for routes of the local table is left out, since the kernel has none
\* of the kind that it asserts.
netlink_get_gateway ==
  /\ at = "use" /\ kind = "dump"
  /\ \/ first.type = "ROUTE" /\ at' = "idle" /\ clearbuf
     \/ at' = "abort" /\ len' = len
  /\ UNCHANGED <<kind, n, queue, packed, p, first>>

\* The last request is answered, the process gone, or recv() has nothing left
\* to return.
Stopped ==
  /\ at = "abort" \/ (at = "idle" /\ n = MaxRequests) \/ (at = "receive" /\ queue = <<>>)
  /\ UNCHANGED vars

Next ==
  \/ SendChange \/ ask_route
  \/ receive \/ ack \/ netlink_get_gateway
  \/ Stopped

\* The process is scheduled; it need not send another request.
Spec ==
  Init /\ [][Next]_vars /\ WF_vars(receive \/ ack \/ netlink_get_gateway)

------------------------------------------------------------------------------
\* Although nothing in a segment tells the requests apart, the answer that
\* ack() and netlink_get_gateway() look at is the one to the request just
\* sent, and nothing of it is left in the socket for the next one to find.
AnswerIsOwn == at = "use" => first.of = n /\ queue = <<>>

\* The offset and the remaining room of receive() agree, request after
\* request: recv() is never given more room than there is behind p, and never
\* less because of an answer already dealt with.
RoomIsExact == at = "receive" => len = p

\* A request is answered, unless the kernel packs NLMSG_DONE behind the routes:
\* then receive() waits for a segment that does not come.
ReceiveEnds == (at = "receive" /\ ~packed) ~> (at # "receive")
==============================================================================
