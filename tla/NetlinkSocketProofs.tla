------------------------- MODULE NetlinkSocketProofs -------------------------
(***************************************************************************)
(* Proofs about NetlinkSocket for every size of recvbuf and of the segments, *)
(* every length of a dump and any number of requests.  That an answer is     *)
(* read by its own request rests on what is in the socket at each point      *)
(* (QueueInv): nothing between two requests, and during one only segments of *)
(* it, of which none but the last ends the loop of receive().                *)
(***************************************************************************)
EXTENDS NetlinkSocket, SequenceTheorems, TLAPS

\* The segments at which receive() stops.
Ends(seg) == seg.type \in {"DONE", "ERROR"}

\* What the socket holds.
QueueInv ==
  /\ at \in {"idle", "use"} => queue = <<>>
  /\ at = "receive" => \A i \in 1..Len(queue) :
       queue[i].of = n /\ (Ends(queue[i]) => i = Len(queue))

\* What recvbuf holds.
BufferInv ==
  /\ at = "idle" => len = 0
  /\ at = "receive" => len = p
  /\ at = "receive" /\ p > 0 => first.of = n
  /\ at = "use" => first.of = n

SocketInv == TypeOK /\ QueueInv /\ BufferInv

USE SocketAssumption

\* An answer of the kernel is a segment.
LEMMA AnswerType ==
  ASSUME n \in 0..MaxRequests, n < MaxRequests,
         NEW t \in Types, NEW s \in Nat, NEW e \in BOOLEAN
  PROVE  /\ Answer(t, s, e) \in Segment
         /\ Answer(t, s, e).of = n + 1 /\ Answer(t, s, e).type = t
<1>1. n + 1 \in 0..MaxRequests
  OBVIOUS
<1> QED
  BY <1>1 DEF Answer, Segment

\* Before the first request the socket and the buffer are empty.
LEMMA InitSocket == Init => SocketInv
<1> SUFFICES ASSUME Init PROVE SocketInv
  OBVIOUS
<1>1. NoSegment \in Segment
  <2>1. 0 \in 0..MaxRequests /\ 0 \in Nat
    OBVIOUS
  <2> QED
    BY <2>1 DEF NoSegment, Segment, Types
<1>2. n \in 0..MaxRequests /\ p \in 0..SZ /\ len \in 0..SZ
  BY DEF Init
<1>3. queue \in Seq(Segment)
  BY DEF Init
<1>4. TypeOK
  BY <1>1, <1>2, <1>3, Zenon DEF Init, TypeOK
<1> QED
  BY <1>4 DEF Init, SocketInv, QueueInv, BufferInv

\* The answer of the kernel to a dump: segments of routes.
LEMMA RoutesType ==
  ASSUME n \in 0..MaxRequests, n < MaxRequests,
         NEW k \in 1..MaxSegments, NEW size \in Sizes
  PROVE  /\ Routes(k, size) \in Seq(Segment) /\ Len(Routes(k, size)) > 0
         /\ \A i \in 1..Len(Routes(k, size)) :
              Routes(k, size)[i].of = n + 1 /\ ~Ends(Routes(k, size)[i])
<1> DEFINE a == Answer("ROUTE", size, FALSE)
<1>1. a \in Segment /\ a.of = n + 1 /\ a.type = "ROUTE"
  BY AnswerType DEF Types
<1> HIDE DEF a
<1>2. Routes(k, size) = [i \in 1..k |-> a] /\ k \in Nat /\ k > 0
  BY DEF Routes, a
<1>3. Routes(k, size) \in Seq(Segment) /\ Len(Routes(k, size)) = k
  BY <1>1, <1>2
<1> QED
  BY <1>1, <1>2, <1>3 DEF Ends

\* A request that changes something is answered by one segment, its end.
LEMMA SendChangeInv ==
  ASSUME SocketInv, SendChange
  PROVE  SocketInv'
<1>1. PICK e \in BOOLEAN : queue' = Append(queue, Answer("ERROR", 1, e))
  BY DEF SendChange
<1>2. Answer("ERROR", 1, e) \in Segment /\ Answer("ERROR", 1, e).of = n + 1
  BY AnswerType DEF Types, SendChange, Send, SocketInv, TypeOK
<1>3. queue' = <<Answer("ERROR", 1, e)>>
  BY <1>1 DEF SendChange, Send, SocketInv, QueueInv
<1>4. queue' \in Seq(Segment) /\ Len(queue') = 1 /\ queue'[1].of = n + 1
  BY <1>2, <1>3
<1>5. n' = n + 1 /\ n + 1 \in 0..MaxRequests /\ p' = 0 /\ 0 \in 0..SZ
  BY DEF SendChange, Send, SocketInv, TypeOK
<1>6. TypeOK'
  BY <1>4, <1>5, Zenon DEF SendChange, Send, SocketInv, TypeOK
<1>7. at' = "receive" /\ len' = 0
  BY DEF SendChange, Send, SocketInv, BufferInv
<1> QED
  BY <1>4, <1>5, <1>6, <1>7 DEF SocketInv, QueueInv, BufferInv

\* A dump is answered by segments of routes and an end, or by the routes alone.
LEMMA AskRouteInv ==
  ASSUME SocketInv, ask_route
  PROVE  SocketInv'
<1> DEFINE done == Answer("DONE", 1, FALSE)
<1>1. PICK k \in 1..MaxSegments, size \in Sizes :
        queue' \in {queue \o Append(Routes(k, size), done), queue \o Routes(k, size)}
  BY DEF ask_route
<1> DEFINE r == Routes(k, size)
<1>2. /\ r \in Seq(Segment) /\ Len(r) > 0
      /\ \A i \in 1..Len(r) : r[i].of = n + 1 /\ ~Ends(r[i])
  BY RoutesType DEF SocketInv, TypeOK, ask_route, Send
<1>3. done \in Segment /\ done.of = n + 1
  BY AnswerType DEF Types, ask_route, Send, SocketInv, TypeOK
<1> HIDE DEF done, r
<1>4. queue = <<>>
  BY DEF ask_route, Send, SocketInv, QueueInv
<1>5. Append(r, done) \in Seq(Segment) /\ Len(Append(r, done)) = Len(r) + 1
  BY <1>2, <1>3
<1>6. queue' = Append(r, done) \/ queue' = r
  BY <1>1, <1>2, <1>4, <1>5 DEF r
<1>7. queue' \in Seq(Segment)
  BY <1>2, <1>5, <1>6
<1>8. \A i \in 1..Len(queue') :
        queue'[i].of = n + 1 /\ (Ends(queue'[i]) => i = Len(queue'))
  BY <1>2, <1>3, <1>5, <1>6
<1>9. n' = n + 1 /\ n + 1 \in 0..MaxRequests /\ p' = 0 /\ 0 \in 0..SZ
  BY DEF ask_route, Send, SocketInv, TypeOK
<1>10. TypeOK'
  BY <1>7, <1>9, Zenon DEF ask_route, Send, SocketInv, TypeOK
<1>11. at' = "receive" /\ len' = 0
  BY DEF ask_route, Send, SocketInv, BufferInv
<1> QED
  BY <1>8, <1>9, <1>10, <1>11 DEF SocketInv, QueueInv, BufferInv, Ends

\* A round of receive() takes the head of the queue: its end leaves the queue
\* empty, and any other segment moves length and offset alike.
LEMMA ReceiveInv ==
  ASSUME SocketInv, receive
  PROVE  SocketInv'
<1> DEFINE seg == Head(queue)
           l   == Seglen(seg)
<1>1. queue \in Seq(Segment) /\ queue # <<>>
  BY DEF receive, SocketInv, TypeOK
<1>2. /\ seg \in Segment /\ seg = queue[1]
      /\ queue' = Tail(queue) /\ queue' \in Seq(Segment)
      /\ Len(queue) > 0 /\ Len(queue') = Len(queue) - 1
      /\ \A i \in 1..Len(queue') : queue'[i] = queue[i + 1]
  BY <1>1 DEF receive
<1>3. seg.of = n /\ (Ends(seg) => queue' = <<>>)
  <2>1. 1 \in 1..Len(queue)
    BY <1>1
  <2>2. queue[1].of = n /\ (Ends(queue[1]) => 1 = Len(queue))
    BY <2>1 DEF receive, SocketInv, QueueInv
  <2>3. Len(queue') = 0 => queue' = <<>>
    BY <1>2
  <2> QED
    BY <1>2, <2>2, <2>3
<1>4. \A i \in 1..Len(queue') :
        queue'[i].of = n /\ (Ends(queue'[i]) => i = Len(queue'))
  <2> TAKE i \in 1..Len(queue')
  <2>1. i + 1 \in 1..Len(queue) /\ queue'[i] = queue[i + 1]
    BY <1>2
  <2>2. queue[i + 1].of = n /\ (Ends(queue[i + 1]) => i + 1 = Len(queue))
    BY <2>1 DEF receive, SocketInv, QueueInv
  <2>3. i + 1 = Len(queue) => i = Len(queue')
    <3>1. Len(queue') = Len(queue) - 1 /\ Len(queue) \in Nat
      BY <1>1, <1>2
    <3> QED
      BY <3>1
  <2> QED
    BY <2>1, <2>2, <2>3
<1>5. len = p /\ l \in Nat /\ len + l \in 0..SZ
  <2>1. seg.size \in Nat
    BY <1>2 DEF Segment
  <2>2. len = p /\ len \in 0..SZ
    BY DEF receive, SocketInv, TypeOK, BufferInv
  <2> HIDE DEF seg
  <2> QED
    BY <2>1, <2>2 DEF Seglen
<1> HIDE DEF l
<1>6. CASE l >= 1
  <2>1. /\ len' = len + l /\ p' = p + l
        /\ first' = IF p = 0 THEN seg ELSE first
        /\ at' = IF Ends(seg) THEN "use" ELSE "receive"
        /\ UNCHANGED <<kind, n, packed>>
    BY <1>6 DEF receive, l, Ends
  <2>2. TypeOK'
    BY <1>2, <1>5, <2>1 DEF SocketInv, TypeOK
  <2>3. QueueInv'
    BY <1>3, <1>4, <2>1 DEF QueueInv, Ends
  <2>4. first'.of = n
    BY <1>2, <1>3, <2>1 DEF receive, SocketInv, TypeOK, BufferInv
  <2>5. BufferInv'
    BY <1>5, <2>1, <2>4 DEF BufferInv
  <2> QED
    BY <2>2, <2>3, <2>5 DEF SocketInv
<1>7. CASE ~(l >= 1)
  <2>1. at' = "abort" /\ UNCHANGED <<len, p, first, kind, n, packed>>
    BY <1>7 DEF receive, l
  <2> QED
    BY <1>2, <2>1 DEF SocketInv, TypeOK, QueueInv, BufferInv
<1> QED
  BY <1>6, <1>7

\* The answer is used and the buffer cleared, or the process is gone.
LEMMA UseInv ==
  ASSUME SocketInv, ack \/ netlink_get_gateway
  PROVE  SocketInv'
  BY DEF ack, netlink_get_gateway, clearbuf, SocketInv, TypeOK, QueueInv,
         BufferInv

\* Socket and buffer are as described at every point of every request.
THEOREM SocketCorrect == Spec => []SocketInv
<1>1. ASSUME SocketInv, [Next]_vars
      PROVE  SocketInv'
  <2>1. CASE Stopped \/ UNCHANGED vars
    BY <1>1, <2>1
       DEF Stopped, vars, SocketInv, TypeOK, QueueInv, BufferInv, Ends
  <2> QED
    BY <1>1, <2>1, SendChangeInv, AskRouteInv, ReceiveInv, UseInv DEF Next
<1> QED
  BY <1>1, InitSocket, PTL DEF Spec

\* The variables of netlink.c keep their types; recvbuf is never overrun.
THEOREM SocketTypeCorrect == Spec => []TypeOK
<1>1. SocketInv => TypeOK
  BY DEF SocketInv
<1> QED
  BY <1>1, SocketCorrect, PTL

\* The answer that ack() and netlink_get_gateway() look at is the one to the
\* request just sent, and nothing of it stays in the socket.
THEOREM AnswerIsOwnAlways == Spec => []AnswerIsOwn
<1>1. SocketInv => AnswerIsOwn
  BY DEF SocketInv, QueueInv, BufferInv, AnswerIsOwn
<1> QED
  BY <1>1, SocketCorrect, PTL

\* receive()'s offset and the static length agree, request after request.
THEOREM RoomIsExactAlways == Spec => []RoomIsExact
<1>1. SocketInv => RoomIsExact
  BY DEF SocketInv, BufferInv, RoomIsExact
<1> QED
  BY <1>1, SocketCorrect, PTL
==============================================================================
