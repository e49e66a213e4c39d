------------------------------- MODULE HttpProofs ------------------------------
(***************************************************************************)
(* Proofs about http_get_by_ip_port, over the TCP client: for any number   *)
(* of polls and redirects and buffers of any size, the response is a piece *)
(* of the last connection's stream and no connection is up after the call; *)
(* on a network that keeps the order and loses nothing the page is whole.  *)
(***************************************************************************)
EXTENDS Http, TcpProofs

(* Sizes as the prover needs them. *)
LEMMA HttpNumbers ==
  /\ MaxPoll \in Nat /\ MaxRedirects \in Nat /\ RawCap \in Nat /\ RawCap > 0
  /\ MaxConn = MaxRedirects + 1 /\ MaxConn \in Nat
BY HttpSizes, TcpSizes

--------------------------------------------------------------------------------
(* The call itself. *)

(* The variables of the call; a redirect too many ends it. *)
CallTypes == /\ pc \in {"try", "wait", "read", "done"}
             /\ waited \in 0 .. MaxPoll
             /\ redir \in 0 .. MaxRedirects + 1
             /\ raw \in Seq(Byte) /\ Len(raw) <= RawCap
             /\ ret \in Kind \cup {"none", "no_connection", "empty", "too_many_redirects"}
             /\ pc # "done" => redir <= MaxRedirects

(* What was read is what was taken from the connection opened last. *)
Own == /\ pc # "try" => opened \in Conn
       /\ pc = "wait" => taken[opened] = << >>
       /\ pc = "read" => raw = taken[opened]
       /\ pc = "done" /\ ret # "no_connection" => raw = taken[opened]

HInv == StreamInv /\ CallTypes /\ Own /\ ClosedAtReturn

(* What the call and the polls do to the socket are steps of the TCP client. *)
LEMMA CallSteps == CallTypes /\ [HNext]_allvars => Step
<1> SUFFICES ASSUME CallTypes, [HNext]_allvars PROVE Step
  OBVIOUS
<1>1. CASE Read
  <2>1. Len(raw) \in Nat /\ Len(raw) < RawCap /\ TcpRecv(RawCap - Len(raw))
    BY <1>1 DEF Read, CallTypes
  <2>2. RawCap - Len(raw) \in Nat \ {0}
    BY <2>1, HttpNumbers
  <2>3. QED BY <2>1, <2>2 DEF Step
<1>2. CASE \E k \in Kind : Finish(k)
  BY <1>2 DEF Finish, Step
<1>3. CASE Try \/ WaitPoll \/ GiveUp \/ Request \/ Poll \/ Environment
  BY <1>3 DEF Try, WaitPoll, GiveUp, Request, Poll, Step
<1>4. CASE UNCHANGED allvars
  BY <1>4 DEF allvars, Step
<1>5. QED BY <1>1, <1>2, <1>3, <1>4 DEF HNext, Call

LEMMA StreamInvKept == StreamInv /\ Step => StreamInv'
BY TypesKept, GenuineKept, StreamsKept DEF StreamInv

(* The bytes that Read takes fit in what is left of the response buffer. *)
LEMMA ReadTakes ==
  ASSUME Types, CallTypes, Read
  PROVE  /\ Returned(RawCap - Len(raw)) \in Seq(Byte)
         /\ raw' = raw \o Returned(RawCap - Len(raw))
         /\ raw' \in Seq(Byte) /\ Len(raw') <= RawCap
<1> DEFINE room == RawCap - Len(raw)
           got == Returned(room)
<1>1. Len(raw) \in Nat /\ Len(raw) < RawCap /\ sock.rx # << >> /\ raw \in Seq(Byte)
  BY DEF Read, TcpRecv, CallTypes
<1>2. room \in Nat \ {0}
  BY <1>1, HttpNumbers
<1>3. sock.rx \in Seq(Byte) /\ Len(sock.rx) \in Nat \ {0}
  BY <1>1, EmptySeq DEF Types, SockTypes, Socket
<1> HIDE DEF room
<1>4. Min({room, Len(sock.rx)}) \in 1 .. Len(sock.rx) /\ Min({room, Len(sock.rx)}) <= room
  BY <1>2, <1>3, MinOfTwo
<1>5. got \in Seq(Byte) /\ Len(got) = Min({room, Len(sock.rx)})
  <2>1. PICK m \in 1 .. Len(sock.rx) : m = Min({room, Len(sock.rx)})
    BY <1>4
  <2>2. SubSeq(sock.rx, 1, m) \in Seq(Byte) /\ Len(SubSeq(sock.rx, 1, m)) = m
    BY <1>3, SubSeqIs
  <2>3. QED BY <2>1, <2>2 DEF Returned
<1>6. raw' = raw \o got
  BY DEF Read, room
<1> HIDE DEF got
<1>7. raw \o got \in Seq(Byte) /\ Len(raw \o got) = Len(raw) + Len(got)
  BY <1>1, <1>5, ConcatProperties
<1>8. Len(got) \in Nat /\ Len(got) <= room
  BY <1>3, <1>4, <1>5
<1>9. Len(raw) + Len(got) <= RawCap
  BY <1>1, <1>8, HttpNumbers DEF room
<1>10. QED BY <1>5, <1>6, <1>7, <1>9 DEF got, room

LEMMA CallTypesKept == Types /\ CallTypes /\ [HNext]_allvars => CallTypes'
<1> SUFFICES ASSUME Types, CallTypes, [HNext]_allvars PROVE CallTypes'
  OBVIOUS
<1>1. CASE Try
  BY <1>1, HttpNumbers DEF Try, CallTypes
<1>2. CASE WaitPoll
  BY <1>2, HttpNumbers DEF WaitPoll, CallTypes
<1>3. CASE GiveUp
  BY <1>3 DEF GiveUp, CallTypes
<1>4. CASE Request
  BY <1>4, HttpNumbers DEF Request, CallTypes
<1>5. CASE Read
  <2>1. raw' \in Seq(Byte) /\ Len(raw') <= RawCap
    BY <1>5, ReadTakes
  <2>2. QED BY <1>5, <2>1 DEF Read, CallTypes
<1>6. ASSUME NEW k \in Kind, Finish(k) PROVE CallTypes'
  <2>1. Result(k) \in Kind \cup {"empty"}
    BY DEF Result, Kind
  <2>2. UNCHANGED <<waited, raw>> /\ Evaluate(k) /\ pc = "read"
    BY <1>6 DEF Finish
  <2>3. redir \in 0 .. MaxRedirects + 1 /\ redir <= MaxRedirects
    BY <2>2 DEF CallTypes
  <2>4. redir' \in 0 .. MaxRedirects + 1 /\ (pc' # "done" => redir' <= MaxRedirects)
    BY <2>2, <2>3, HttpNumbers DEF Evaluate
  <2>5. QED BY <2>1, <2>2, <2>4 DEF Evaluate, CallTypes
<1>7. CASE UNCHANGED hvars
  BY <1>7 DEF hvars, CallTypes
<1>8. QED BY <1>1, <1>2, <1>3, <1>4, <1>5, <1>6, <1>7 DEF HNext, Call, Poll, allvars

(* What the TCP client does on its own takes no byte from a stream. *)
LEMMA OthersTake ==
  ASSUME TcpSend \/ TcpClose \/ TcpOnRx \/ Environment \/ UNCHANGED vars
  PROVE  UNCHANGED <<opened, taken>>
BY Zenon DEF TcpSend, TcpClose, TcpOnRx, Environment, PeerRx, PeerData, PeerFin, PeerSynAckAgain,
       PeerReset, LoseSegment, vars

LEMMA OwnKept == StreamInv /\ CallTypes /\ Own /\ [HNext]_allvars => Own'
<1> SUFFICES ASSUME StreamInv, CallTypes, Own, [HNext]_allvars PROVE Own'
  OBVIOUS
<1>0. Types /\ Fresh /\ sock.conn = opened /\ taken \in [Conn -> Seq(Byte)]
  BY DEF StreamInv, Streams, Types, SockTypes, OtherTypes
<1>1. CASE Try
  <2>1. opened \in Nat /\ opened' = opened + 1 /\ opened < MaxConn /\ taken' = taken
    BY <1>0, <1>1, HttpNumbers DEF Types, OtherTypes, Try, Open
  <2>2. opened' \in Conn /\ opened' > opened
    BY <2>1, HttpNumbers DEF Conn
  <2>3. taken'[opened'] = << >>
    BY <1>0, <2>1, <2>2 DEF Fresh
  <2>4. QED BY <1>1, <2>2, <2>3 DEF Try, Own
<1>2. CASE WaitPoll \/ GiveUp
  BY <1>2, OthersTake DEF WaitPoll, GiveUp, Own
<1>3. CASE Request
  BY <1>3, OthersTake DEF Request, Own
<1>4. CASE Read
  <2> DEFINE got == Returned(RawCap - Len(raw))
  <2>1. raw' = raw \o got
    BY <1>0, <1>4, ReadTakes
  <2>2. opened' = opened /\ taken' = [taken EXCEPT ![opened] = @ \o got]
    BY <1>0, <1>4 DEF Read, TcpRecv
  <2>3. pc = "read" /\ pc' = "read" /\ ret' = ret
    BY <1>4 DEF Read
  <2> HIDE DEF got
  <2>4. opened \in Conn /\ taken'[opened] = taken[opened] \o got
    BY <1>0, <2>2, <2>3 DEF Own
  <2>5. QED BY <2>1, <2>2, <2>3, <2>4 DEF Own
<1>5. ASSUME NEW k \in Kind, Finish(k) PROVE Own'
  <2>1. UNCHANGED <<opened, taken, raw>> /\ pc = "read"
    BY <1>5, OthersTake DEF Finish
  <2>2. pc' \in {"try", "done"}
    BY <1>5 DEF Finish, Evaluate
  <2>3. QED BY <2>1, <2>2 DEF Own
<1>6. CASE UNCHANGED hvars /\ (TcpOnRx \/ Environment \/ UNCHANGED vars)
  BY <1>6, OthersTake DEF hvars, Own
<1>7. QED BY <1>1, <1>2, <1>3, <1>4, <1>5, <1>6 DEF HNext, Call, Poll, allvars

(* tcp_on_rx brings no connection up that is not opening. *)
LEMMA StaysDown ==
  ASSUME Types, TcpOnRx, sock.state \notin {"SYN_SENT", "ESTABLISHED"}
  PROVE  sock'.state \notin {"SYN_SENT", "ESTABLISHED"}
<1>1. PICK i \in DOMAIN wire : Handled(wire[i])
  BY OnRxSegment
<1>2. sock \in Socket
  BY DEF Types, SockTypes
<1>3. QED BY <1>1, <1>2 DEF Handled, RxReset, RxSynAck, RxEstablished, RxFinWait1, RxFinWait2,
             RxIgnored, Socket

(* tcp_close leaves no connection up. *)
LEMMA CloseCloses ==
  ASSUME Types, IF sock.in_use THEN TcpClose ELSE UNCHANGED vars
  PROVE  sock'.state \notin {"SYN_SENT", "ESTABLISHED"}
<1>1. sock \in Socket /\ (sock.in_use <=> sock.state # "CLOSED")
  BY DEF Types, SockTypes
<1>2. CASE sock.in_use
  BY <1>1, <1>2 DEF TcpClose, Closed, Socket
<1>3. CASE ~sock.in_use
  BY <1>1, <1>3 DEF vars
<1>4. QED BY <1>2, <1>3

LEMMA ClosedKept == Types /\ ClosedAtReturn /\ [HNext]_allvars => ClosedAtReturn'
<1> SUFFICES ASSUME Types, ClosedAtReturn, [HNext]_allvars PROVE ClosedAtReturn'
  OBVIOUS
<1>1. CASE Try \/ WaitPoll \/ Request \/ Read
  BY <1>1 DEF Try, WaitPoll, Request, Read, ClosedAtReturn
<1>2. CASE GiveUp \/ \E k \in Kind : Finish(k)
  BY <1>2, CloseCloses DEF GiveUp, Finish, ClosedAtReturn
<1>3. CASE Poll
  BY <1>3, StaysDown DEF Poll, hvars, ClosedAtReturn
<1>4. CASE UNCHANGED hvars /\ (Environment \/ UNCHANGED vars)
  <2>1. sock' = sock
    BY Zenon, <1>4 DEF Environment, PeerRx, PeerData, PeerFin, PeerSynAckAgain, PeerReset,
                LoseSegment, vars
  <2>2. QED BY <1>4, <2>1 DEF hvars, ClosedAtReturn
<1>5. QED BY <1>1, <1>2, <1>3, <1>4 DEF HNext, Call, allvars

LEMMA HInvInitially == HInit => HInv
<1> SUFFICES ASSUME HInit PROVE HInv
  OBVIOUS
<1>1. StreamInv
  BY TypesInitially, StreamsInitially DEF HInit, StreamInv
<1>2. CallTypes /\ Own /\ ClosedAtReturn
  BY HttpNumbers DEF HInit, CallTypes, Own, ClosedAtReturn
<1>3. QED BY <1>1, <1>2 DEF HInv

LEMMA HInvKept == HInv /\ [HNext]_allvars => HInv'
<1> SUFFICES ASSUME HInv, [HNext]_allvars PROVE HInv'
  OBVIOUS
<1>1. StreamInv /\ Types /\ CallTypes /\ Own /\ ClosedAtReturn
  BY DEF HInv, StreamInv
<1>2. QED BY <1>1, CallSteps, StreamInvKept, CallTypesKept, OwnKept, ClosedKept DEF HInv

LEMMA HInvHolds == HSpec => []HInv
BY HInvInitially, HInvKept, PTL DEF HSpec

(* The invariant has what is read come from one stream. *)
LEMMA OwnResponse == ASSUME HInv PROVE RawOfLastConnection
<1>1. SUFFICES ASSUME pc \in {"read", "done"}, ret # "no_connection", opened \notin cut
               PROVE  IsPrefix(raw, Stream(opened))
  BY DEF RawOfLastConnection
<1>2. raw = taken[opened] /\ opened \in Conn /\ sock.conn = opened
  BY <1>1 DEF HInv, Own, StreamInv, Types, SockTypes
<1>3. /\ Types /\ Intact(opened) /\ taken[opened] \in Seq(Byte) /\ sock.rx \in Seq(Byte)
      /\ Stored(opened) = taken[opened] \o sock.rx
  BY <1>1, <1>2
     DEF HInv, StreamInv, Streams, Types, SockTypes, OtherTypes, Socket, Stored
<1>4. /\ Len(taken[opened]) \in Nat /\ Len(Stored(opened)) \in Nat
      /\ Len(taken[opened]) <= Len(Stored(opened))
      /\ \A k \in 1 .. Len(taken[opened]) : taken[opened][k] = Stored(opened)[k]
  <2>1. /\ Len(taken[opened]) \in Nat /\ Len(taken[opened] \o sock.rx) \in Nat
        /\ Len(taken[opened]) <= Len(taken[opened] \o sock.rx)
        /\ \A k \in 1 .. Len(taken[opened]) : taken[opened][k] = (taken[opened] \o sock.rx)[k]
    <3>1. taken[opened] \in Seq(Byte) /\ sock.rx \in Seq(Byte)
      BY <1>3
    <3>2. QED BY ONLY <3>1, FirstPart
  <2>2. QED BY <1>3, <2>1, Zenon
<1>5. /\ Len(taken[opened]) <= N
      /\ \A k \in 1 .. Len(taken[opened]) : taken[opened][k] = Stream(opened)[k]
  <2>1. /\ Len(Stored(opened)) <= N /\ N \in Nat
        /\ \A k \in 1 .. Len(Stored(opened)) : Stored(opened)[k] = <<opened, k>>
    BY <1>3, TcpSizes DEF Intact
  <2>2. Len(taken[opened]) <= N
    BY <1>4, <2>1
  <2>3. ASSUME NEW k \in 1 .. Len(taken[opened]) PROVE taken[opened][k] = Stream(opened)[k]
    <3>1. k \in 1 .. Len(Stored(opened)) /\ k \in 1 .. N
      BY <1>4, <2>1, <2>2
    <3>2. Stream(opened)[k] = <<opened, k>>
      BY <1>2, <3>1, StreamIs
    <3>3. QED BY <1>4, <2>1, <3>1, <3>2
  <2>4. QED BY <2>2, <2>3
<1>6. IsPrefix(taken[opened], Stream(opened))
  BY <1>2, <1>3, <1>5, StreamIs, PrefixIs
<1>7. QED BY <1>2, <1>6

--------------------------------------------------------------------------------
(* Theorems. *)

(* The call keeps its counters and its buffer in bounds. *)
THEOREM HttpTypes == HSpec => []HTypeOK
<1>1. Types => TypeOK
  <2> SUFFICES ASSUME Types PROVE TypeOK
    OBVIOUS
  <2>1. \A i \in DOMAIN out : out[i].seq \in SeqNo /\ out[i].ack \in SeqNo
    <3>1. out \in Seq(Outgoing)
      BY DEF Types
    <3>2. \A i \in DOMAIN out : out[i] \in Outgoing
      BY <3>1
    <3>3. QED BY <3>2 DEF Outgoing
  <2>2. \A c \in Conn : peer[c].nxt <= N + 1
    BY TcpSizes DEF Types, OtherTypes, Server
  <2>3. sock \in [in_use : BOOLEAN, state : State, conn : Conn \cup {0},
                  snd : SeqNo, rcv : SeqNo, rx : Seq(Byte)]
    BY DEF Types, SockTypes, Socket
  <2>4. QED BY <2>1, <2>2, <2>3 DEF Types, SockTypes, OtherTypes, TypeOK
<1>2. HInv => HTypeOK
  BY <1>1 DEF HInv, StreamInv, CallTypes, HTypeOK
<1>3. QED BY <1>2, HInvHolds, PTL

(* When the call has returned, no connection is up, nor can it come up when the
   answer to its SYN arrives after the wait was given up. *)
THEOREM NoConnectionLeft == HSpec => []ClosedAtReturn
<1>1. HInv => ClosedAtReturn
  BY DEF HInv
<1>2. QED BY <1>1, HInvHolds, PTL

(* The response is the beginning of the stream of the connection opened last,
   however many redirects came before and whatever they left in the network. *)
THEOREM ResponseIsOwn == HSpec => []RawOfLastConnection
<1>1. HInv => RawOfLastConnection
  BY OwnResponse
<1>2. QED BY <1>1, HInvHolds, PTL

--------------------------------------------------------------------------------
(* An orderly network: it keeps the order, loses nothing, and the server has no
   reason to repeat.  Then the segments of the connection opened last stand on
   the wire in the order of the stream, without gap, the FIN behind the data. *)
Orderly == ~Loss /\ ~Reorder /\ ~Repeat

Data(c, seg) == seg.conn = c /\ seg.data # << >>
End(c, seg) == seg.conn = c /\ "FIN" \in seg.flags
First(seg) == Offset(seg.seq)
Past(seg) == First(seg) + Len(seg.data)

(* The first a bytes of connection c were received and the first n sent. *)
Lined(w, c, a, n) ==
  /\ a <= n
  /\ \A i, j \in DOMAIN w :
       i < j /\ Data(c, w[i]) /\ Data(c, w[j]) => Past(w[i]) <= First(w[j])
  /\ \A i \in DOMAIN w : Data(c, w[i]) => a <= First(w[i]) /\ Past(w[i]) <= n
  /\ \A k \in a + 1 .. N : k <= n =>
       \E i \in DOMAIN w : Data(c, w[i]) /\ First(w[i]) < k /\ k <= Past(w[i])
  /\ \A i \in DOMAIN w : End(c, w[i]) =>
       n = N + 1 /\ \A j \in DOMAIN w : Data(c, w[j]) => j <= i

(* Nothing of connection c was sent before the request. *)
Quiet(c) == /\ peer[c].nxt = 0 /\ ~peer[c].req
            /\ \A i \in DOMAIN wire : ~Data(c, wire[i]) /\ ~End(c, wire[i])
            /\ \A i \in DOMAIN out : out[i].conn = c => out[i].len = 0

Order == /\ \A c \in Conn : c > opened => Quiet(c)
         /\ sock.state = "SYN_SENT" => Quiet(opened)
         /\ sock.state = "ESTABLISHED" =>
              \E a \in 0 .. N : sock.rcv = At(a) /\ Lined(wire, opened, a, peer[opened].nxt)

(* The segment taken first leaves the others as they stood. *)
LEMMA DropFirst ==
  ASSUME NEW S, NEW q \in Seq(S), q # << >>
  PROVE  /\ RemoveAt(q, 1) \in Seq(S) /\ DOMAIN q = 1 .. Len(q) /\ Len(q) \in Nat \ {0}
         /\ DOMAIN RemoveAt(q, 1) = 1 .. Len(q) - 1
         /\ \A j \in 1 .. Len(q) - 1 : RemoveAt(q, 1)[j] = q[j + 1]
<1>1. Len(q) \in Nat \ {0} /\ DOMAIN q = 1 .. Len(q)
  BY EmptySeq
<1> DEFINE before == SubSeq(q, 1, 0)
           after == SubSeq(q, 2, Len(q))
<1>2. before \in Seq(S) /\ Len(before) = 0
  BY <1>1, SubSeqIs
<1>3. /\ after \in Seq(S) /\ Len(after) = Len(q) - 1
      /\ \A j \in 1 .. Len(after) : after[j] = q[2 + j - 1]
  BY <1>1, SubSeqIs
<1>4. RemoveAt(q, 1) = before \o after
  BY DEF RemoveAt
<1> HIDE DEF before, after
<1>5. before = << >>
  BY <1>2, EmptySeq
<1>6. RemoveAt(q, 1) = after
  BY <1>3, <1>4, <1>5
<1>7. \A j \in 1 .. Len(q) - 1 : 2 + j - 1 = j + 1
  OBVIOUS
<1>8. QED BY <1>1, <1>3, <1>6, <1>7

(* The place of a segment in the stream, as its sequence number has it. *)
Placed(seg) == seg.data # << >> =>
                 /\ First(seg) \in 0 .. N /\ Past(seg) \in 0 .. N /\ First(seg) < Past(seg)
                 /\ seg.seq = At(First(seg)) /\ Past(seg) = First(seg) + Len(seg.data)
                 /\ Len(seg.data) \in 0 .. N

LEMMA PieceIsPlaced == ASSUME NEW seg \in Incoming, Piece(seg) PROVE Placed(seg)
<1> SUFFICES ASSUME seg.data # << >> PROVE Placed(seg)
  BY DEF Placed
<1>1. PICK off \in 0 .. N : seg.seq = At(off) /\ off + Len(seg.data) <= N
  BY DEF Piece
<1>2. Len(seg.data) \in Nat \ {0}
  BY EmptySeq DEF Incoming
<1>3. N \in Nat /\ off \in 0 .. N + 1
  BY TcpSizes
<1>4. First(seg) = off
  BY <1>1, <1>3, AtIs DEF First
<1>5. QED BY <1>1, <1>2, <1>3, <1>4 DEF Placed, Past

LEMMA WirePlaced ==
  StreamInv => wire \in Seq(Incoming) /\ \A i \in DOMAIN wire : Placed(wire[i])
<1> SUFFICES ASSUME StreamInv
             PROVE  wire \in Seq(Incoming) /\ \A i \in DOMAIN wire : Placed(wire[i])
  OBVIOUS
<1>1. wire \in Seq(Incoming)
  BY DEF StreamInv, Types
<1>2. \A i \in DOMAIN wire : wire[i] \in Incoming /\ Piece(wire[i])
  BY <1>1 DEF StreamInv, Genuine
<1>3. QED BY <1>1, <1>2, PieceIsPlaced

(* The first segment of the wire: its data is what is expected next, and its
   FIN comes after the last byte. *)
LEMMA FirstIsNext ==
  ASSUME NEW w \in Seq(Incoming), w # << >>, \A i \in DOMAIN w : Placed(w[i]),
         NEW c, NEW a \in 0 .. N, NEW n \in 0 .. N + 1, Lined(w, c, a, n),
         NEW b, b = IF Data(c, w[1]) THEN Past(w[1]) ELSE a
  PROVE  /\ Lined(RemoveAt(w, 1), c, b, n) /\ b \in 0 .. N
         /\ Data(c, w[1]) => First(w[1]) = a
         /\ End(c, w[1]) => b = N
<1> DEFINE rest == RemoveAt(w, 1)
           L == Len(w)
<1>0. N \in Nat
  BY TcpSizes
<1>1. /\ DOMAIN w = 1 .. L /\ DOMAIN rest = 1 .. L - 1 /\ L \in Nat \ {0}
      /\ \A j \in 1 .. L - 1 : rest[j] = w[j + 1]
  BY DropFirst
<1> HIDE DEF rest, L
<1>2. 1 \in DOMAIN w /\ \A j \in DOMAIN rest : j + 1 \in DOMAIN w /\ rest[j] = w[j + 1] /\ j \in Nat
  BY <1>1
<1>3. \A i \in DOMAIN w : i \in Nat /\ i >= 1 /\ (i # 1 => i - 1 \in DOMAIN rest)
  BY <1>1
<1>4. /\ a <= n
      /\ \A i, j \in DOMAIN w :
           i < j /\ Data(c, w[i]) /\ Data(c, w[j]) => Past(w[i]) <= First(w[j])
      /\ \A i \in DOMAIN w : Data(c, w[i]) => a <= First(w[i]) /\ Past(w[i]) <= n
      /\ \A k \in a + 1 .. N : k <= n =>
           \E i \in DOMAIN w : Data(c, w[i]) /\ First(w[i]) < k /\ k <= Past(w[i])
      /\ \A i \in DOMAIN w : End(c, w[i]) =>
           n = N + 1 /\ \A j \in DOMAIN w : Data(c, w[j]) => j <= i
  BY DEF Lined
<1>5. \A i \in DOMAIN w : Data(c, w[i]) =>
        First(w[i]) \in 0 .. N /\ Past(w[i]) \in 0 .. N /\ First(w[i]) < Past(w[i])
  BY DEF Placed, Data
<1>6. ASSUME Data(c, w[1]) PROVE First(w[1]) = a
  <2>1. SUFFICES ASSUME a < First(w[1]) PROVE FALSE
    BY <1>2, <1>4, <1>5, <1>6
  <2>2. a + 1 \in a + 1 .. N /\ a + 1 <= n
    BY <1>0, <1>2, <1>4, <1>5, <1>6, <2>1
  <2>3. PICK i \in DOMAIN w : Data(c, w[i]) /\ First(w[i]) < a + 1 /\ a + 1 <= Past(w[i])
    BY <1>4, <2>2
  <2>4. i # 1 /\ 1 < i
    BY <1>3, <1>5, <2>1, <2>3
  <2>5. Past(w[1]) <= First(w[i])
    BY <1>2, <1>4, <1>6, <2>3, <2>4
  <2>6. QED BY <1>2, <1>5, <1>6, <2>1, <2>3, <2>5
<1>7. b \in 0 .. N /\ a <= b /\ b <= n
  BY <1>2, <1>4, <1>5, <1>6
<1>8. Lined(rest, c, b, n)
  <2>1. \A i, j \in DOMAIN rest :
          i < j /\ Data(c, rest[i]) /\ Data(c, rest[j]) => Past(rest[i]) <= First(rest[j])
    <3> SUFFICES ASSUME NEW i \in DOMAIN rest, NEW j \in DOMAIN rest, i < j,
                        Data(c, rest[i]), Data(c, rest[j])
                 PROVE  Past(rest[i]) <= First(rest[j])
      OBVIOUS
    <3>1. i + 1 < j + 1
      BY <1>2
    <3>2. QED BY <1>2, <1>4, <3>1
  <2>2. \A i \in DOMAIN rest : Data(c, rest[i]) => b <= First(rest[i]) /\ Past(rest[i]) <= n
    <3> SUFFICES ASSUME NEW i \in DOMAIN rest, Data(c, rest[i])
                 PROVE  b <= First(rest[i]) /\ Past(rest[i]) <= n
      OBVIOUS
    <3>1. i + 1 \in DOMAIN w /\ rest[i] = w[i + 1] /\ 1 < i + 1
      BY <1>1, <1>2
    <3>2. QED BY <1>2, <1>4, <3>1
  <2>3. \A k \in b + 1 .. N : k <= n =>
          \E i \in DOMAIN rest : Data(c, rest[i]) /\ First(rest[i]) < k /\ k <= Past(rest[i])
    <3> SUFFICES ASSUME NEW k \in b + 1 .. N, k <= n
                 PROVE  \E i \in DOMAIN rest :
                          Data(c, rest[i]) /\ First(rest[i]) < k /\ k <= Past(rest[i])
      OBVIOUS
    <3>1. k \in a + 1 .. N
      BY <1>7
    <3>2. PICK i \in DOMAIN w : Data(c, w[i]) /\ First(w[i]) < k /\ k <= Past(w[i])
      BY <1>4, <3>1
    <3>3. i # 1
      BY <1>5, <1>7, <3>2
    <3>4. i - 1 \in DOMAIN rest /\ rest[i - 1] = w[i]
      <4>1. i - 1 \in DOMAIN rest /\ i \in Nat
        BY <1>3, <3>3
      <4>2. rest[i - 1] = w[(i - 1) + 1] /\ (i - 1) + 1 = i
        BY <1>2, <4>1
      <4>3. QED BY <4>1, <4>2
    <3>5. QED BY <3>2, <3>4
  <2>4. \A i \in DOMAIN rest : End(c, rest[i]) =>
          n = N + 1 /\ \A j \in DOMAIN rest : Data(c, rest[j]) => j <= i
    <3> SUFFICES ASSUME NEW i \in DOMAIN rest, End(c, rest[i])
                 PROVE  n = N + 1 /\ \A j \in DOMAIN rest : Data(c, rest[j]) => j <= i
      OBVIOUS
    <3>1. n = N + 1 /\ \A j \in DOMAIN w : Data(c, w[j]) => j <= i + 1
      BY <1>2, <1>4
    <3>2. ASSUME NEW j \in DOMAIN rest, Data(c, rest[j]) PROVE j <= i
      <4>1. j + 1 <= i + 1
        BY <1>2, <3>1, <3>2
      <4>2. QED BY <1>2, <4>1
    <3>3. QED BY <3>1, <3>2
  <2>5. QED BY <1>7, <2>1, <2>2, <2>3, <2>4 DEF Lined
<1>9. ASSUME End(c, w[1]) PROVE b = N
  <2>1. n = N + 1 /\ \A j \in DOMAIN w : Data(c, w[j]) => j <= 1
    BY <1>2, <1>4, <1>9
  <2>2. SUFFICES ASSUME b # N PROVE FALSE
    OBVIOUS
  <2>3. b + 1 \in a + 1 .. N /\ b + 1 <= n
    BY <1>0, <1>7, <2>1, <2>2
  <2>4. PICK i \in DOMAIN w : Data(c, w[i]) /\ First(w[i]) < b + 1 /\ b + 1 <= Past(w[i])
    BY <1>4, <2>3
  <2>5. i = 1
    BY <1>3, <2>1, <2>4
  <2>6. QED BY <1>2, <1>5, <1>7, <2>4, <2>5
<1>10. QED BY <1>6, <1>7, <1>8, <1>9 DEF rest

(* What the server sends next on connection c: nothing of the stream, or the
   bytes after the first n, or the FIN, and the count is m then. *)
Sends(c, seg, n, m) ==
  \/ ~Data(c, seg) /\ ~End(c, seg) /\ m = n
  \/ Data(c, seg) /\ First(seg) = n /\ ((~End(c, seg) /\ m = Past(seg)) \/ (Past(seg) = N /\ m = N + 1))
  \/ ~Data(c, seg) /\ End(c, seg) /\ n = N /\ m = N + 1

(* It is put behind the rest. *)
LEMMA SentBehind ==
  ASSUME NEW w \in Seq(Incoming), \A i \in DOMAIN w : Placed(w[i]),
         NEW seg \in Incoming, Placed(seg),
         NEW c, NEW a \in 0 .. N, NEW n \in 0 .. N + 1, NEW m \in 0 .. N + 1,
         Lined(w, c, a, n), Sends(c, seg, n, m)
  PROVE  Lined(Append(w, seg), c, a, m)
<1> USE DEF Sends
<1> DEFINE v == Append(w, seg)
           L == Len(w)
<1>0. N \in Nat /\ L \in Nat /\ DOMAIN w = 1 .. L
  BY TcpSizes
<1>1. /\ DOMAIN v = 1 .. L + 1 /\ v[L + 1] = seg
      /\ \A i \in 1 .. L : v[i] = w[i]
  OBVIOUS
<1> HIDE DEF v, L
<1>2. /\ \A i \in DOMAIN w : i \in DOMAIN v /\ v[i] = w[i] /\ i < L + 1 /\ i \in Nat
      /\ \A i \in DOMAIN v : i \in Nat /\ i <= L + 1 /\ (i # L + 1 => i \in DOMAIN w)
      /\ L + 1 \in DOMAIN v
  BY <1>0, <1>1
<1>3. /\ a <= n
      /\ \A i, j \in DOMAIN w :
           i < j /\ Data(c, w[i]) /\ Data(c, w[j]) => Past(w[i]) <= First(w[j])
      /\ \A i \in DOMAIN w : Data(c, w[i]) => a <= First(w[i]) /\ Past(w[i]) <= n
      /\ \A k \in a + 1 .. N : k <= n =>
           \E i \in DOMAIN w : Data(c, w[i]) /\ First(w[i]) < k /\ k <= Past(w[i])
      /\ \A i \in DOMAIN w : End(c, w[i]) =>
           n = N + 1 /\ \A j \in DOMAIN w : Data(c, w[j]) => j <= i
  BY DEF Lined
<1>4. /\ \A i \in DOMAIN w : Data(c, w[i]) =>
           First(w[i]) \in 0 .. N /\ Past(w[i]) \in 0 .. N /\ First(w[i]) < Past(w[i])
      /\ Data(c, seg) => First(seg) \in 0 .. N /\ Past(seg) \in 0 .. N /\ First(seg) < Past(seg)
  BY DEF Placed, Data
<1>5. n <= m
  BY <1>0, <1>4
<1>6. \A i, j \in DOMAIN v :
        i < j /\ Data(c, v[i]) /\ Data(c, v[j]) => Past(v[i]) <= First(v[j])
  <2> SUFFICES ASSUME NEW i \in DOMAIN v, NEW j \in DOMAIN v, i < j, Data(c, v[i]), Data(c, v[j])
               PROVE  Past(v[i]) <= First(v[j])
    OBVIOUS
  <2>1. i \in DOMAIN w /\ v[i] = w[i]
    BY <1>0, <1>2
  <2>2. CASE j = L + 1
    BY <1>1, <1>3, <2>1, <2>2
  <2>3. CASE j # L + 1
    BY <1>2, <1>3, <2>1, <2>3
  <2>4. QED BY <2>2, <2>3
<1>7. \A i \in DOMAIN v : Data(c, v[i]) => a <= First(v[i]) /\ Past(v[i]) <= m
  <2> SUFFICES ASSUME NEW i \in DOMAIN v, Data(c, v[i])
               PROVE  a <= First(v[i]) /\ Past(v[i]) <= m
    OBVIOUS
  <2>1. CASE i = L + 1
    BY <1>0, <1>1, <1>3, <1>4, <2>1
  <2>2. CASE i # L + 1
    <3>1. i \in DOMAIN w /\ v[i] = w[i]
      BY <1>2, <2>2
    <3>2. QED BY <1>3, <1>4, <1>5, <3>1
  <2>3. QED BY <2>1, <2>2
<1>8. \A k \in a + 1 .. N : k <= m =>
        \E i \in DOMAIN v : Data(c, v[i]) /\ First(v[i]) < k /\ k <= Past(v[i])
  <2> SUFFICES ASSUME NEW k \in a + 1 .. N, k <= m
               PROVE  \E i \in DOMAIN v : Data(c, v[i]) /\ First(v[i]) < k /\ k <= Past(v[i])
    OBVIOUS
  <2>1. CASE k <= n
    <3>1. PICK i \in DOMAIN w : Data(c, w[i]) /\ First(w[i]) < k /\ k <= Past(w[i])
      BY <1>3, <2>1
    <3>2. QED BY <1>2, <3>1
  <2>2. CASE ~(k <= n)
    <3>1. k \in Nat /\ n < k /\ k <= N
      BY <2>2
    <3>2. Data(c, seg) /\ First(seg) = n /\ k <= Past(seg)
      BY <1>0, <3>1
    <3>3. QED BY <1>1, <1>2, <3>1, <3>2
  <2>3. QED BY <2>1, <2>2
<1>9. \A i \in DOMAIN v : End(c, v[i]) =>
        m = N + 1 /\ \A j \in DOMAIN v : Data(c, v[j]) => j <= i
  <2> SUFFICES ASSUME NEW i \in DOMAIN v, End(c, v[i])
               PROVE  m = N + 1 /\ \A j \in DOMAIN v : Data(c, v[j]) => j <= i
    OBVIOUS
  <2>1. CASE i = L + 1
    BY <1>1, <1>2, <2>1
  <2>2. CASE i # L + 1
    <3>1. i \in DOMAIN w /\ v[i] = w[i]
      BY <1>2, <2>2
    <3>2. n = N + 1 /\ \A j \in DOMAIN w : Data(c, w[j]) => j <= i
      BY <1>3, <3>1
    <3>3. ~Data(c, seg) /\ m = N + 1
      BY <1>0, <1>4, <1>5, <3>2
    <3>4. QED BY <1>1, <1>2, <3>2, <3>3
  <2>3. QED BY <2>1, <2>2
<1>10. a <= m
  BY <1>3, <1>5
<1>11. Lined(v, c, a, m)
  BY <1>6, <1>7, <1>8, <1>9, <1>10 DEF Lined
<1>12. QED BY <1>11 DEF v

--------------------------------------------------------------------------------
(* The steps on an orderly network. *)

(* A connection keeps quiet while nothing but empty segments of it is sent. *)
LEMMA QuietStays ==
  ASSUME Types, NEW c \in Conn, Quiet(c), peer'[c].nxt = peer[c].nxt, peer'[c].req = peer[c].req,
         \A i \in DOMAIN wire' : \/ ~Data(c, wire'[i]) /\ ~End(c, wire'[i])
                                 \/ \E k \in DOMAIN wire : wire'[i] = wire[k],
         \A i \in DOMAIN out' : \/ out'[i].conn # c
                                \/ out'[i].len = 0
                                \/ \E k \in DOMAIN out : out'[i] = out[k]
  PROVE  Quiet(c)'
<1>1. \A i \in DOMAIN wire' : ~Data(c, wire'[i]) /\ ~End(c, wire'[i])
  BY DEF Quiet
<1>2. \A i \in DOMAIN out' : out'[i].conn = c => out'[i].len = 0
  BY DEF Quiet
<1>3. QED BY <1>1, <1>2 DEF Quiet

(* What is behind an element is the element or was there before. *)
LEMMA Appended ==
  ASSUME NEW S, NEW q \in Seq(S), NEW e
  PROVE  \A i \in DOMAIN Append(q, e) :
           Append(q, e)[i] = e \/ \E k \in DOMAIN q : Append(q, e)[i] = q[k]
OBVIOUS

(* The segments that the server sends and that bring nothing. *)
LEMMA NothingInIt ==
  /\ \A c, d : ~Data(c, SynAck(d)) /\ ~End(c, SynAck(d))
  /\ \A c, d, off : ~Data(c, Answer(d, {"ACK"}, off, << >>)) /\ ~End(c, Answer(d, {"ACK"}, off, << >>))
  /\ \A c, d, off : /\ ~Data(c, Answer(d, {"RST", "ACK"}, off, << >>))
                    /\ ~End(c, Answer(d, {"RST", "ACK"}, off, << >>))
BY DEF SynAck, Answer, Data, End

(* PeerRx: what the server's answer to a segment is. *)
LEMMA PeerRxIs ==
  ASSUME Types, PeerRx
  PROVE  /\ UNCHANGED <<sock, opened, taken, cut>>
         /\ \A c \in Conn : peer'[c].nxt = peer[c].nxt
         /\ \A c \in Conn : Quiet(c) => peer'[c].req = peer[c].req
         /\ \A j \in DOMAIN out' : \E k \in DOMAIN out : out'[j] = out[k]
         /\ \/ wire' = wire
            \/ \E seg \in Incoming : /\ wire' = Append(wire, seg)
                                     /\ \A c : ~Data(c, seg) /\ ~End(c, seg)
<1>1. PICK i \in Next1(out) :
        LET seg == out[i]
            c == seg.conn
            p == peer[c]
            off == Offset(seg.ack)
            size == seg.len + IF "FIN" \in seg.flags THEN 1 ELSE 0
            next == seg.seq = p.rcv /\ size > 0
        IN /\ out' = RemoveAt(out, i)
           /\ \/ /\ p.st = "listen" /\ "SYN" \in seg.flags
                 /\ peer' = [peer EXCEPT ![c].st = "syn_rcvd",
                                         ![c].rcv = Plus(seg.seq, 1)]
                 /\ wire' = Append(wire, SynAck(c))
              \/ /\ p.st \in {"syn_rcvd", "est"} /\ off \in 0 .. p.nxt
                 /\ peer' = [peer EXCEPT
                      ![c].st = "est",
                      ![c].una = Max({@, off}),
                      ![c].rcv = IF next THEN Plus(@, size) ELSE @,
                      ![c].req = @ \/ (next /\ seg.len > 0)]
                 /\ wire' = IF size > 0
                            THEN Append(wire, Answer(c, {"ACK"}, p.nxt, << >>))
                            ELSE wire
              \/ /\ \/ p.st = "gone" \/ (p.st = "listen" /\ "SYN" \notin seg.flags)
                    \/ p.st \in {"syn_rcvd", "est"} /\ off \notin 0 .. p.nxt
                 /\ UNCHANGED <<peer, wire>>
  BY Zenon DEF PeerRx
<1> DEFINE seg == out[i]
           d == seg.conn
           off == Offset(seg.ack)
           size == seg.len + IF "FIN" \in seg.flags THEN 1 ELSE 0
           next == seg.seq = peer[d].rcv /\ size > 0
<1>2. i \in DOMAIN out /\ out \in Seq(Outgoing) /\ seg \in Outgoing
  BY DEF Next1, Types
<1>3. d \in Conn /\ peer \in [Conn -> Server] /\ seg.len \in {0, 1}
  BY <1>2 DEF Outgoing, Types, OtherTypes
<1>4. \A j \in DOMAIN out' : \E k \in DOMAIN out : out'[j] = out[k]
  BY <1>1, <1>2, Removed
<1>5. UNCHANGED <<sock, opened, taken, cut>>
  BY DEF PeerRx
<1>6. SynAck(d) \in Incoming /\ Answer(d, {"ACK"}, peer[d].nxt, << >>) \in Incoming
  <2>1. {"ACK"} \in SUBSET Flag /\ peer[d].nxt \in Nat
    BY <1>3, TcpSizes DEF Flag, Server
  <2>2. QED BY <1>3, <2>1, EmptyType
<1>7. CASE /\ peer' = [peer EXCEPT ![d].st = "syn_rcvd", ![d].rcv = Plus(seg.seq, 1)]
           /\ wire' = Append(wire, SynAck(d))
  <2>1. \A c \in Conn : peer'[c].nxt = peer[c].nxt /\ peer'[c].req = peer[c].req
    BY <1>3, <1>7 DEF Server
  <2>2. QED BY Zenon, <1>4, <1>5, <1>6, <1>7, <2>1, NothingInIt
<1>8. CASE /\ peer' = [peer EXCEPT
                ![d].st = "est",
                ![d].una = Max({@, off}),
                ![d].rcv = IF next THEN Plus(@, size) ELSE @,
                ![d].req = @ \/ (next /\ seg.len > 0)]
           /\ wire' = IF size > 0
                      THEN Append(wire, Answer(d, {"ACK"}, peer[d].nxt, << >>)) ELSE wire
  <2>2. \A c \in Conn : peer'[c].nxt = peer[c].nxt
    BY <1>3, <1>8 DEF Server
  <2>3. ASSUME NEW c \in Conn, Quiet(c) PROVE peer'[c].req = peer[c].req
    <3>1. CASE c = d
      <4>1. seg.len = 0
        BY <1>2, <2>3, <3>1 DEF Quiet
      <4>2. ~(seg.len > 0)
        BY <4>1
      <4>3. peer'[d].req = (peer[d].req \/ (next /\ seg.len > 0))
        BY <1>3, <1>8 DEF Server
      <4>4. ~peer[d].req
        BY <2>3, <3>1 DEF Quiet
      <4>5. peer'[d].req = FALSE /\ peer[d].req = FALSE
        BY <1>3, <4>2, <4>3, <4>4 DEF Server
      <4>6. QED BY <3>1, <4>5
    <3>2. CASE c # d
      BY <1>3, <1>8, <3>2
    <3>3. QED BY <3>1, <3>2
  <2>4. QED BY Zenon, <1>4, <1>5, <1>6, <1>8, <2>2, <2>3, NothingInIt
<1>9. CASE UNCHANGED <<peer, wire>>
  BY <1>4, <1>5, <1>9
<1>10. \/ /\ peer' = [peer EXCEPT ![d].st = "syn_rcvd", ![d].rcv = Plus(seg.seq, 1)]
          /\ wire' = Append(wire, SynAck(d))
       \/ /\ peer' = [peer EXCEPT
                ![d].st = "est",
                ![d].una = Max({@, off}),
                ![d].rcv = IF next THEN Plus(@, size) ELSE @,
                ![d].req = @ \/ (next /\ seg.len > 0)]
          /\ wire' = IF size > 0
                     THEN Append(wire, Answer(d, {"ACK"}, peer[d].nxt, << >>)) ELSE wire
       \/ UNCHANGED <<peer, wire>>
  BY <1>1
<1>11. QED BY <1>7, <1>8, <1>9, <1>10

(* The elements of two sequences put together. *)
LEMMA Joined ==
  ASSUME NEW S, NEW s \in Seq(S), NEW t \in Seq(S), NEW r, r = s \o t
  PROVE  \A i \in DOMAIN r : (\E k \in DOMAIN s : r[i] = s[k]) \/ (\E k \in DOMAIN t : r[i] = t[k])
<1> SUFFICES ASSUME NEW i \in DOMAIN r
             PROVE  (\E k \in DOMAIN s : r[i] = s[k]) \/ (\E k \in DOMAIN t : r[i] = t[k])
  OBVIOUS
<1>1. Len(s) \in Nat /\ Len(t) \in Nat /\ DOMAIN s = 1 .. Len(s) /\ DOMAIN t = 1 .. Len(t)
  OBVIOUS
<1>2. DOMAIN r = 1 .. Len(s) + Len(t)
  BY ConcatProperties
<1>3. CASE i <= Len(s)
  <2>1. i \in DOMAIN s /\ r[i] = s[i]
    BY <1>1, <1>2, <1>3
  <2>2. QED BY <2>1
<1>4. CASE ~(i <= Len(s))
  <2>1. i - Len(s) \in DOMAIN t /\ r[i] = t[i - Len(s)]
    BY <1>1, <1>2, <1>4
  <2>2. QED BY <2>1
<1>5. QED BY <1>3, <1>4

(* The connection under way. *)
LEMMA UnderWay ==
  ASSUME Types
  PROVE  /\ sock.state # "CLOSED" => opened \in Conn
         /\ opened \in Nat /\ \A c \in Conn : c \in Nat /\ peer[c].nxt \in 0 .. N + 1
<1>1. MaxConn \in Nat /\ opened \in 0 .. MaxConn
  BY TcpSizes DEF Types, OtherTypes
<1>2. opened \in Nat /\ (opened # 0 => opened \in Conn) /\ \A c \in Conn : c \in Nat
  BY <1>1 DEF Conn
<1>3. sock.state # "CLOSED" => opened # 0
  BY DEF Types, SockTypes
<1>4. \A c \in Conn : peer[c].nxt \in 0 .. N + 1
  BY DEF Types, OtherTypes, Server
<1>5. QED BY <1>2, <1>3, <1>4

(* A step in which the server sends a segment. *)
LEMMA ServerSends ==
  ASSUME StreamInv, Types', Order, UNCHANGED <<sock, opened>>,
         \A j \in DOMAIN out' : \E k \in DOMAIN out : out'[j] = out[k],
         NEW seg \in Incoming, Placed(seg), wire' = Append(wire, seg),
         \A c \in Conn : Quiet(c) => peer'[c].req = peer[c].req /\ ~Data(c, seg) /\ ~End(c, seg),
         \A c \in Conn : Sends(c, seg, peer[c].nxt, peer'[c].nxt)
  PROVE  Order'
<1>0. Types /\ wire \in Seq(Incoming) /\ \A i \in DOMAIN wire : Placed(wire[i])
  BY WirePlaced DEF StreamInv
<1>1. ASSUME NEW c \in Conn, Quiet(c) PROVE Quiet(c)'
  <2>1. peer'[c].nxt = peer[c].nxt
    BY <1>1 DEF Sends
  <2>2. \A i \in DOMAIN wire' : \/ ~Data(c, wire'[i]) /\ ~End(c, wire'[i])
                                \/ \E k \in DOMAIN wire : wire'[i] = wire[k]
    BY <1>0, <1>1, Appended
  <2>3. QED BY <1>0, <1>1, <2>1, <2>2, QuietStays
<1>2. ASSUME sock.state = "ESTABLISHED"
      PROVE  \E a \in 0 .. N : sock.rcv = At(a) /\ Lined(wire', opened, a, peer'[opened].nxt)
  <2>1. PICK a \in 0 .. N : sock.rcv = At(a) /\ Lined(wire, opened, a, peer[opened].nxt)
    BY <1>2 DEF Order
  <2>2. opened \in Conn /\ peer[opened].nxt \in 0 .. N + 1
    BY <1>0, <1>2, UnderWay
  <2>3. peer'[opened].nxt \in 0 .. N + 1
    BY <2>2, TcpSizes DEF Types, OtherTypes, Server
  <2>4. Sends(opened, seg, peer[opened].nxt, peer'[opened].nxt)
    BY <2>2
  <2>5. Lined(Append(wire, seg), opened, a, peer'[opened].nxt)
    BY <1>0, <2>1, <2>2, <2>3, <2>4, SentBehind
  <2>6. QED BY <2>1, <2>5
<1>3. sock.state = "SYN_SENT" => opened \in Conn
  BY <1>0, UnderWay
<1>4. QED BY <1>1, <1>2, <1>3 DEF Order

(* A step in which the wire and the server stay as they are. *)
LEMMA WireStays ==
  ASSUME Types, Order, wire' = wire, opened' = opened,
         \A c \in Conn : peer'[c].nxt = peer[c].nxt /\ (Quiet(c) => peer'[c].req = peer[c].req),
         \A c \in Conn, i \in DOMAIN out' :
           Quiet(c) => out'[i].conn # c \/ out'[i].len = 0 \/ \E k \in DOMAIN out : out'[i] = out[k],
         \/ sock'.state = sock.state /\ sock'.rcv = sock.rcv
         \/ sock'.state \notin {"SYN_SENT", "ESTABLISHED"}
  PROVE  Order'
<1>1. ASSUME NEW c \in Conn, Quiet(c) PROVE Quiet(c)'
  <2>1. \A i \in DOMAIN wire' : \/ ~Data(c, wire'[i]) /\ ~End(c, wire'[i])
                                \/ \E k \in DOMAIN wire : wire'[i] = wire[k]
    OBVIOUS
  <2>2. QED BY <1>1, <2>1, QuietStays
<1>2. sock.state # "CLOSED" => opened \in Conn
  BY UnderWay
<1>3. sock'.state = "SYN_SENT" => Quiet(opened)'
  BY <1>1, <1>2 DEF Order
<1>4. sock'.state = "ESTABLISHED" =>
        \E a \in 0 .. N : sock'.rcv = At(a) /\ Lined(wire, opened, a, peer'[opened].nxt)
  BY <1>2 DEF Order
<1>5. QED BY <1>1, <1>3, <1>4 DEF Order

(* The calls of the application. *)
LEMMA CallsOrder ==
  ASSUME StreamInv, Order,
         Open \/ TcpSend \/ (\E maxlen \in Nat \ {0} : TcpRecv(maxlen)) \/ TcpClose \/ UNCHANGED vars
  PROVE  Order'
<1>0. Types /\ sock \in Socket /\ sock.conn = opened /\ out \in Seq(Outgoing)
  BY DEF StreamInv, Types, SockTypes
<1>1. CASE Open
  <2>1. /\ opened' = opened + 1 /\ sock'.state = "SYN_SENT"
        /\ UNCHANGED <<wire, peer>>
    BY <1>1 DEF Open, NewSock
  <2>2. opened + 1 \in Conn /\ opened \in Nat /\ \A c \in Conn : c \in Nat
    <3>1. opened \in Nat /\ \A c \in Conn : c \in Nat
      BY <1>0, UnderWay
    <3>2. opened + 1 \in Conn
      <4>1. opened < MaxConn /\ MaxConn \in Nat
        BY <1>1, TcpSizes DEF Open
      <4>2. QED BY <3>1, <4>1 DEF Conn
    <3>3. QED BY <3>1, <3>2
  <2>3. PICK seg : out' = Append(out, seg) /\ seg.len = 0
    BY <1>1 DEF Open, Segment
  <2>4. ASSUME NEW c \in Conn, Quiet(c) PROVE Quiet(c)'
    <3>1. \A i \in DOMAIN wire' : \E k \in DOMAIN wire : wire'[i] = wire[k]
      BY <2>1
    <3>2. \A i \in DOMAIN out' : out'[i].len = 0 \/ \E k \in DOMAIN out : out'[i] = out[k]
      BY <1>0, <2>3, Appended
    <3>3. QED BY <1>0, <2>1, <2>4, <3>1, <3>2, QuietStays
  <2>5. \A c \in Conn : c > opened => Quiet(c)'
    BY <2>4 DEF Order
  <2>6. PICK d \in Conn : d = opened + 1 /\ d > opened
    BY <2>2
  <2>7. Quiet(d)' /\ opened' = d
    BY <2>1, <2>5, <2>6
  <2>8. /\ peer'[opened'].nxt = 0 /\ ~peer'[opened'].req
        /\ \A i \in DOMAIN wire' : ~Data(opened', wire'[i]) /\ ~End(opened', wire'[i])
        /\ \A i \in DOMAIN out' : out'[i].conn = opened' => out'[i].len = 0
    BY <2>7 DEF Quiet
  <2>9. sock'.state = "SYN_SENT" => Quiet(opened)'
    BY <2>8 DEF Quiet
  <2>10. \A c \in Conn : c > opened' => Quiet(c)'
    BY <2>1, <2>2, <2>5
  <2>11. QED BY <2>1, <2>9, <2>10 DEF Order
<1>2. CASE TcpSend
  <2>1. /\ UNCHANGED <<wire, opened, peer>> /\ sock'.state = sock.state /\ sock'.rcv = sock.rcv
        /\ sock.state = "ESTABLISHED"
    BY <1>0, <1>2 DEF TcpSend, Socket
  <2>2. PICK seg : out' = Append(out, seg) /\ seg.conn = opened
    BY <1>0, <1>2 DEF TcpSend, Segment
  <2>3. ASSUME NEW c \in Conn, c > opened PROVE Quiet(c)'
    <3>1. Quiet(c) /\ c # opened
      BY <1>0, <2>3, UnderWay DEF Order
    <3>2. \A i \in DOMAIN wire' : \E k \in DOMAIN wire : wire'[i] = wire[k]
      BY <2>1
    <3>3. \A i \in DOMAIN out' : out'[i].conn # c \/ \E k \in DOMAIN out : out'[i] = out[k]
      BY <1>0, <2>2, <3>1, Appended
    <3>4. QED BY <1>0, <2>1, <3>1, <3>2, <3>3, QuietStays
  <2>4. \E a \in 0 .. N : sock'.rcv = At(a) /\ Lined(wire', opened', a, peer'[opened'].nxt)
    BY <2>1 DEF Order
  <2>5. QED BY <2>1, <2>3, <2>4 DEF Order
<1>3. CASE \E maxlen \in Nat \ {0} : TcpRecv(maxlen)
  <2>1. /\ UNCHANGED <<wire, opened, peer, out>> /\ sock'.state = sock.state /\ sock'.rcv = sock.rcv
    BY <1>0, <1>3 DEF TcpRecv, Socket
  <2>2. QED BY <1>0, <2>1, WireStays
<1>4. CASE TcpClose
  <2>1. /\ UNCHANGED <<wire, opened, peer>> /\ sock'.state \in {"FIN_WAIT1", "CLOSED"}
    BY <1>0, <1>4 DEF TcpClose, Closed, Socket
  <2>2. out' = out \/ \E seg : out' = Append(out, seg) /\ seg.len = 0
    BY <1>4 DEF TcpClose, Segment
  <2>3. \A i \in DOMAIN out' : out'[i].len = 0 \/ \E k \in DOMAIN out : out'[i] = out[k]
    BY <1>0, <2>2, Appended
  <2>4. QED BY <1>0, <2>1, <2>3, WireStays
<1>5. CASE UNCHANGED vars
  BY <1>0, <1>5, WireStays DEF vars
<1>6. QED BY <1>1, <1>2, <1>3, <1>4, <1>5

--------------------------------------------------------------------------------
(* tcp_on_rx on an orderly network. *)

(* It is handed the oldest segment. *)
LEMMA TakesFirst ==
  ASSUME ~Reorder, Types, TcpOnRx
  PROVE  /\ wire \in Seq(Incoming) /\ wire # << >>
         /\ Handled(wire[1]) /\ wire[1] \in Incoming /\ wire' = RemoveAt(wire, 1)
         /\ UNCHANGED <<opened, peer, taken>>
<1>1. PICK i \in Next1(wire) : Handled(wire[i]) /\ wire' = RemoveAt(wire, i)
  BY DEF TcpOnRx, Handled
<1>2. i = 1 /\ 1 \in DOMAIN wire
  BY <1>1 DEF Next1
<1>3. wire \in Seq(Incoming)
  BY DEF Types
<1>4. wire # << >> /\ wire[1] \in Incoming
  BY <1>2, <1>3, EmptySeq
<1>5. UNCHANGED <<opened, peer, taken>>
  BY DEF TcpOnRx
<1>6. QED BY <1>1, <1>2, <1>3, <1>4, <1>5

(* It answers with segments that carry no data. *)
LEMMA AnswersEmpty ==
  ASSUME Types, NEW seg, seg \in Incoming, Handled(seg)
  PROVE  \A i \in DOMAIN out' : out'[i].len = 0 \/ \E k \in DOMAIN out : out'[i] = out[k]
<1>1. out \in Seq(Outgoing)
  BY DEF Types
<1>2. CASE RxReset(seg) \/ RxFinWait1(seg) \/ RxIgnored(seg)
  BY <1>2 DEF RxReset, RxFinWait1, RxIgnored
<1>3. CASE RxSynAck(seg) \/ RxFinWait2(seg)
  <2>1. PICK e : out' = Append(out, e) /\ e.len = 0
    BY <1>3 DEF RxSynAck, RxFinWait2, Segment
  <2>2. QED BY <1>1, <2>1, Appended
<1>4. CASE RxEstablished(seg)
  <2> DEFINE s == WithData(seg)
             f == [s EXCEPT !.rcv = Plus(@, 1)]
             a == Segment(s, {"ACK"}, 0)
             b == Segment(f, {"ACK"}, 0)
             d == Segment(f, {"FIN", "ACK"}, 0)
             acks == IF InOrder(seg) THEN <<a>> ELSE << >>
             Empty == {a, b, d}
  <2>1. \A e \in Empty : e.len = 0
    BY DEF Segment
  <2>2. acks \in Seq(Empty) /\ <<b, d>> \in Seq(Empty)
    <3> HIDE DEF a, b, d
    <3>1. a \in Empty /\ b \in Empty /\ d \in Empty
      OBVIOUS
    <3> HIDE DEF Empty
    <3>2. << >> \in Seq(Empty) /\ <<a>> \in Seq(Empty) /\ <<b, d>> \in Seq(Empty)
      BY <3>1
    <3>3. QED BY <3>2
  <2>3. out' = out \o acks \/ out' = out \o acks \o <<b, d>>
    BY <1>4 DEF RxEstablished
  <2>4. \A t \in Seq(Empty) : \A k \in DOMAIN t : t[k].len = 0
    BY <2>1
  <2> HIDE DEF acks, Empty, b, d, a
  <2> DEFINE Sent == Outgoing \cup Empty
  <2>5. /\ acks \o <<b, d>> \in Seq(Empty) /\ out \in Seq(Sent) /\ acks \in Seq(Sent)
        /\ <<b, d>> \in Seq(Sent) /\ acks \o <<b, d>> \in Seq(Sent)
    BY <1>1, <2>2, ConcatProperties
  <2> HIDE DEF Sent
  <2>6. (out \o acks) \o <<b, d>> = out \o (acks \o <<b, d>>)
    BY <2>5, ConcatIsAssociative
  <2>7. PICK new \in Seq(Empty) : out' = out \o new /\ new \in Seq(Sent)
    BY <2>2, <2>3, <2>5, <2>6
  <2>8. PICK o, r : o = out /\ r = out' /\ r = o \o new /\ o \in Seq(Sent)
    BY <2>5, <2>7
  <2>9. \A i \in DOMAIN r : \/ \E k \in DOMAIN o : r[i] = o[k]
                           \/ \E k \in DOMAIN new : r[i] = new[k]
    <3>1. new \in Seq(Sent) /\ o \in Seq(Sent) /\ r = o \o new
      BY <2>7, <2>8
    <3>2. \A A : \A q \in Seq(A), p \in Seq(A) : \A j : j = q \o p =>
            \A i \in DOMAIN j : \/ \E k \in DOMAIN q : j[i] = q[k]
                                \/ \E k \in DOMAIN p : j[i] = p[k]
      BY Joined
    <3>3. \A j : j = o \o new =>
            \A i \in DOMAIN j : \/ \E k \in DOMAIN o : j[i] = o[k]
                                \/ \E k \in DOMAIN new : j[i] = new[k]
      BY <3>1, <3>2, SMTT(60)
    <3>4. QED BY <3>1, <3>3
  <2>10. QED BY <2>4, <2>8, <2>9
<1>5. QED BY <1>2, <1>3, <1>4 DEF Handled

(* Before anything was sent, everything is lined up. *)
LEMMA NothingIsLined ==
  ASSUME NEW w, NEW c, \A i \in DOMAIN w : ~Data(c, w[i]) /\ ~End(c, w[i])
  PROVE  Lined(w, c, 0, 0)
<1>1. N \in Nat
  BY TcpSizes
<1>2. \A k \in 0 + 1 .. N : ~(k <= 0)
  BY <1>1
<1>3. QED BY <1>2 DEF Lined

LEMMA FirstNumber == Plus(PeerIss, 1) = At(0) /\ 0 \in 0 .. N
<1>1. PeerIss \in Int /\ N \in Nat
  BY TcpSizes
<1>2. PeerIss + 1 + 0 = PeerIss + 1
  BY <1>1
<1>3. QED BY <1>1, <1>2 DEF Plus, At

LEMMA OnRxOrder ==
  ASSUME ~Reorder, StreamInv, Order, TcpOnRx
  PROVE  Order'
<1> DEFINE seg == wire[1]
<1>0. Types /\ sock \in Socket /\ sock.conn = opened /\ (sock.in_use <=> sock.state # "CLOSED")
  BY DEF StreamInv, Types, SockTypes
<1>1. /\ wire \in Seq(Incoming) /\ wire # << >>
      /\ Handled(seg) /\ seg \in Incoming /\ wire' = RemoveAt(wire, 1)
      /\ UNCHANGED <<opened, peer, taken>>
  BY <1>0, TakesFirst
<1>2. \A i \in DOMAIN wire : Placed(wire[i])
  BY WirePlaced
<1>3. 1 \in DOMAIN wire /\ Piece(seg)
  BY <1>1, EmptySeq DEF StreamInv, Genuine
<1>4. ASSUME NEW c \in Conn, Quiet(c) PROVE Quiet(c)'
  <2>1. \A i \in DOMAIN wire' : \E k \in DOMAIN wire : wire'[i] = wire[k]
    BY <1>1, <1>3, Removed
  <2>2. \A i \in DOMAIN out' : out'[i].len = 0 \/ \E k \in DOMAIN out : out'[i] = out[k]
    BY <1>0, <1>1, AnswersEmpty
  <2>3. QED BY <1>0, <1>1, <1>4, <2>1, <2>2, QuietStays
<1>5. sock'.state = "SYN_SENT" => sock.state = "SYN_SENT"
  <2>1. WithData(seg) \in Socket /\ WithData(seg).state = sock.state
    BY <1>0, <1>1, WithDataIs
  <2>2. QED BY <1>0, <1>1, <2>1 DEF Handled, RxReset, RxSynAck, RxEstablished, RxFinWait1,
               RxFinWait2, RxIgnored, Socket
<1>6. sock'.state = "SYN_SENT" => Quiet(opened)'
  <2>1. sock.state = "SYN_SENT" => opened \in Conn /\ Quiet(opened)
    BY <1>0, UnderWay DEF Order
  <2>2. opened' = opened
    BY <1>1
  <2>3. QED BY <1>4, <1>5, <2>1, <2>2
<1>7. ASSUME sock'.state = "ESTABLISHED"
      PROVE  \E a \in 0 .. N : sock'.rcv = At(a) /\ Lined(wire', opened, a, peer[opened].nxt)
  <2>1. CASE RxSynAck(seg)
    <3>1. sock.state = "SYN_SENT" /\ "SYN" \in seg.flags /\ sock'.rcv = Plus(seg.seq, 1)
      BY <1>0, <2>1 DEF RxSynAck, Socket
    <3>2. seg.seq = PeerIss
      BY <1>3, <3>1 DEF Piece
    <3>3. opened \in Conn /\ Quiet(opened)
      BY <1>0, <3>1, UnderWay DEF Order
    <3>4. \A i \in DOMAIN wire' : ~Data(opened, wire'[i]) /\ ~End(opened, wire'[i])
      <4>1. \A i \in DOMAIN wire' : \E k \in DOMAIN wire : wire'[i] = wire[k]
        BY <1>1, <1>3, Removed
      <4>2. \A k \in DOMAIN wire : ~Data(opened, wire[k]) /\ ~End(opened, wire[k])
        BY <3>3 DEF Quiet
      <4>3. QED BY <4>1, <4>2
    <3>5. Lined(wire', opened, 0, 0) /\ peer[opened].nxt = 0
      BY <3>3, <3>4, NothingIsLined DEF Quiet
    <3>6. QED BY <3>1, <3>2, <3>5, FirstNumber
  <2>2. ASSUME sock.state = "ESTABLISHED",
               NEW a \in 0 .. N, sock.rcv = At(a), Lined(wire, opened, a, peer[opened].nxt),
               NEW b, b = IF Data(opened, seg) THEN Past(seg) ELSE a, sock'.rcv = At(b)
        PROVE  \E d \in 0 .. N : sock'.rcv = At(d) /\ Lined(wire', opened, d, peer[opened].nxt)
    <3>1. peer[opened].nxt \in 0 .. N + 1
      BY <1>0, <2>2, UnderWay
    <3>2. PICK n \in 0 .. N + 1 : n = peer[opened].nxt /\ Lined(wire, opened, a, n)
      BY <2>2, <3>1
    <3>3. Lined(RemoveAt(wire, 1), opened, b, n) /\ b \in 0 .. N
      BY <1>1, <1>2, <2>2, <3>2, FirstIsNext
    <3>4. QED BY <1>1, <2>2, <3>2, <3>3
  <2>3. CASE RxEstablished(seg)
    <3>1. sock.state = "ESTABLISHED" /\ seg.conn = opened
      BY <1>0, <2>3 DEF RxEstablished, ForUs
    <3>2. PICK a \in 0 .. N : sock.rcv = At(a) /\ Lined(wire, opened, a, peer[opened].nxt)
      BY <3>1 DEF Order
    <3>3. WithData(seg) \in Socket
      BY <1>0, <1>1, WithDataIs
    <3>4. sock' = WithData(seg)
      BY <1>7, <2>3, <3>3 DEF RxEstablished, Socket
    <3>5. CASE Data(opened, seg)
      <4>1. peer[opened].nxt \in 0 .. N + 1
        BY <1>0, <3>1, UnderWay
      <4>2. PICK n \in 0 .. N + 1 : n = peer[opened].nxt /\ Lined(wire, opened, a, n)
        BY <3>2, <4>1
      <4>3. PICK b : b = IF Data(opened, wire[1]) THEN Past(wire[1]) ELSE a
        OBVIOUS
      <4>4. First(seg) = a /\ b \in 0 .. N
        BY <1>1, <1>2, <3>5, <4>2, <4>3, FirstIsNext
      <4>5. Placed(seg) /\ seg.data # << >> /\ b = Past(seg)
        BY <1>2, <1>3, <3>5, <4>3 DEF Data
      <4>6. seg.seq = At(a) /\ b = a + Len(seg.data) /\ Len(seg.data) \in 0 .. N
        BY <4>4, <4>5 DEF Placed
      <4>7. InOrder(seg)
        BY <3>2, <4>5, <4>6 DEF InOrder
      <4>8. sock'.rcv = Plus(At(a), Len(seg.data))
        BY <1>0, <1>1, <3>2, <3>4, <4>7, WithDataIs
      <4>9. sock'.rcv = At(b)
        <5>1. PICK l \in 0 .. N : l = Len(seg.data)
          BY <4>6
        <5>2. a + l <= N
          BY <4>4, <4>6, <5>1, TcpSizes
        <5>3. Plus(At(a), l) = At(a + l)
          BY <5>2, AtMoves
        <5>4. QED BY <4>6, <4>8, <5>1, <5>3
      <4>10. QED BY <2>2, <3>1, <3>2, <4>3, <4>9
    <3>6. CASE ~Data(opened, seg)
      <4>1. sock' = sock
        BY <1>0, <1>1, <3>1, <3>4, <3>6, WithDataIs DEF Data, InOrder
      <4>2. sock'.rcv = At(a)
        BY <3>2, <4>1
      <4>3. PICK b : b = IF Data(opened, seg) THEN Past(seg) ELSE a
        OBVIOUS
      <4>4. QED BY <2>2, <3>1, <3>2, <3>6, <4>2, <4>3
    <3>7. QED BY <3>5, <3>6
  <2>4. CASE RxIgnored(seg)
    <3>1. sock' = sock /\ sock.state = "ESTABLISHED"
      BY <1>7, <2>4 DEF RxIgnored
    <3>2. seg.conn # opened
      BY <1>0, <2>4, <3>1 DEF RxIgnored, ForUs
    <3>3. PICK a \in 0 .. N : sock.rcv = At(a) /\ Lined(wire, opened, a, peer[opened].nxt)
      BY <3>1 DEF Order
    <3>4. PICK b : b = IF Data(opened, seg) THEN Past(seg) ELSE a
      OBVIOUS
    <3>5. ~Data(opened, seg)
      BY <3>2 DEF Data
    <3>6. QED BY <2>2, <3>1, <3>3, <3>4, <3>5
  <2>5. CASE RxReset(seg) \/ RxFinWait1(seg) \/ RxFinWait2(seg)
    BY <1>0, <1>7, <2>5 DEF RxReset, RxFinWait1, RxFinWait2, Socket
  <2>6. QED BY <1>1, <2>1, <2>3, <2>4, <2>5 DEF Handled
<1>8. \A c \in Conn : c > opened' => Quiet(c)'
  BY <1>1, <1>4 DEF Order
<1>9. sock'.state = "ESTABLISHED" =>
        \E a \in 0 .. N : sock'.rcv = At(a) /\ Lined(wire', opened', a, peer'[opened'].nxt)
  BY <1>1, <1>7
<1>10. QED BY <1>6, <1>8, <1>9 DEF Order

(* A segment that brings nothing of any stream. *)
LEMMA SendsNothing ==
  ASSUME StreamInv, Types', Order, UNCHANGED <<sock, opened>>,
         \A j \in DOMAIN out' : \E k \in DOMAIN out : out'[j] = out[k],
         NEW seg \in Incoming, wire' = Append(wire, seg),
         \A c : ~Data(c, seg) /\ ~End(c, seg),
         \A c \in Conn : peer'[c].nxt = peer[c].nxt /\ (Quiet(c) => peer'[c].req = peer[c].req)
  PROVE  Order'
<1>1. Placed(seg)
  <2>1. ~Data(seg.conn, seg)
    OBVIOUS
  <2>2. QED BY <2>1 DEF Data, Placed
<1>2. \A c \in Conn : Sends(c, seg, peer[c].nxt, peer'[c].nxt)
  BY DEF Sends
<1>3. QED BY <1>1, <1>2, ServerSends

(* The server sends the bytes that come next. *)
LEMMA DataOrder ==
  ASSUME ~Repeat, StreamInv, Types', Order, NEW c \in Conn, PeerData(c)
  PROVE  Order'
<1>0. Types /\ peer[c].nxt \in 0 .. N + 1 /\ peer \in [Conn -> Server] /\ N \in Nat /\ MaxSeg \in Nat
  BY UnderWay, TcpSizes DEF StreamInv, Types, OtherTypes
<1>1. PICK o \in {peer[c].nxt}, n \in 1 .. MaxSeg :
        /\ o + n <= N
        /\ \E fin \in {FALSE, o + n = N} :
             /\ wire' = Append(wire,
                  Answer(c, IF fin THEN {"FIN", "ACK"} ELSE {"ACK"}, o,
                         [k \in 1 .. n |-> <<c, o + k>>]))
             /\ peer' = [peer EXCEPT ![c].nxt = Max({@, o + n + IF fin THEN 1 ELSE 0})]
  BY DEF PeerData
<1>2. PICK fin \in {FALSE, o + n = N} :
        /\ wire' = Append(wire,
             Answer(c, IF fin THEN {"FIN", "ACK"} ELSE {"ACK"}, o, [k \in 1 .. n |-> <<c, o + k>>]))
        /\ peer' = [peer EXCEPT ![c].nxt = Max({@, o + n + IF fin THEN 1 ELSE 0})]
  BY <1>1
<1>3. PICK data : data = [k \in 1 .. n |-> <<c, o + k>>]
  OBVIOUS
<1>4. n \in 1 .. N /\ o \in 0 .. N /\ o + n \in 0 .. N /\ o = peer[c].nxt
  BY <1>0, <1>1
<1>5. data \in Seq(Byte) /\ Len(data) = n /\ data # << >>
  <2>1. data \in Seq(Byte) /\ Len(data) = n
    BY <1>3, <1>4, PieceType, SMTT(30)
  <2>2. QED BY <1>4, <2>1, EmptySeq
<1>6. PICK flags \in {{"FIN", "ACK"}, {"ACK"}} :
        /\ "FIN" \in flags <=> fin
        /\ wire' = Append(wire, Answer(c, flags, o, data))
  <2>1. CASE fin
    BY <1>2, <1>3, <2>1
  <2>2. CASE ~fin
    BY <1>2, <1>3, <2>2
  <2>3. QED BY <2>1, <2>2
<1>7. PICK seg : /\ seg = Answer(c, flags, o, data)
                 /\ seg.conn = c /\ seg.flags = flags /\ seg.seq = At(o) /\ seg.data = data
  <2>1. PICK seg : seg = Answer(c, flags, o, data)
    OBVIOUS
  <2>2. seg.conn = c /\ seg.flags = flags /\ seg.seq = At(o) /\ seg.data = data
    BY <2>1 DEF Answer, At
  <2>3. QED BY <2>1, <2>2
<1>8. seg \in Incoming
  <2>1. flags \in SUBSET Flag /\ o \in Nat
    BY <1>4, <1>6 DEF Flag
  <2>2. QED BY <1>5, <1>7, <2>1, AnswerType
<1>9. First(seg) = o /\ Past(seg) = o + n
  <2>1. o \in 0 .. N + 1
    BY <1>0, <1>4
  <2>2. Offset(At(o)) = o
    BY <2>1, AtIs
  <2>3. QED BY <1>5, <1>7, <2>2 DEF First, Past
<1>10. Placed(seg)
  <2>1. First(seg) < Past(seg) /\ n \in 0 .. N
    BY <1>4, <1>9
  <2>2. Past(seg) = First(seg) + Len(seg.data)
    BY DEF Past
  <2>3. QED BY <1>4, <1>5, <1>7, <1>9, <2>1, <2>2 DEF Placed
<1>11. peer'[c].nxt = o + n + IF fin THEN 1 ELSE 0
  <2>1. PICK e \in Nat : e = o + n + IF fin THEN 1 ELSE 0
    BY <1>4
  <2>2. peer'[c].nxt = Max({o, e})
    BY <1>0, <1>2, <1>4, <2>1 DEF Server
  <2>3. o \in Int /\ e \in Int /\ o <= e
    BY <1>4, <2>1
  <2>4. Max({o, e}) = e
    BY <2>3, MaxOfTwo
  <2>5. QED BY <2>1, <2>2, <2>4
<1>12. Sends(c, seg, peer[c].nxt, peer'[c].nxt)
  <2>1. Data(c, seg) /\ First(seg) = peer[c].nxt /\ (End(c, seg) <=> fin)
    BY <1>4, <1>5, <1>6, <1>7, <1>9 DEF Data, End
  <2>2. CASE fin
    <3>1. o + n = N
      BY <2>2
    <3>2. Past(seg) = N /\ peer'[c].nxt = N + 1
      BY <1>9, <1>11, <2>2, <3>1
    <3>3. QED BY <2>1, <3>2 DEF Sends
  <2>3. CASE ~fin
    <3>1. peer'[c].nxt = o + n
      BY <1>4, <1>11, <2>3
    <3>2. peer'[c].nxt = Past(seg) /\ ~End(c, seg)
      BY <1>9, <2>1, <2>3, <3>1, Zenon
    <3>3. QED BY <2>1, <3>2 DEF Sends
  <2>4. QED BY <2>2, <2>3
<1>13. ASSUME NEW d \in Conn PROVE Sends(d, seg, peer[d].nxt, peer'[d].nxt)
  <2>1. CASE d = c
    BY <1>12, <2>1
  <2>2. CASE d # c
    BY <1>0, <1>2, <1>7, <2>2 DEF Sends, Data, End
  <2>3. QED BY <2>1, <2>2
<1>14. ASSUME NEW d \in Conn, Quiet(d)
       PROVE  peer'[d].req = peer[d].req /\ ~Data(d, seg) /\ ~End(d, seg)
  <2>1. peer[c].req
    BY DEF PeerData
  <2>2. ~peer[d].req
    BY <1>14 DEF Quiet
  <2>3. d # c
    BY <2>1, <2>2
  <2>4. peer'[d] = peer[d]
    BY <1>0, <1>2, <2>3
  <2>5. QED BY <1>7, <2>3, <2>4 DEF Data, End
<1>15. UNCHANGED <<sock, opened, out>>
  BY DEF PeerData
<1>16. wire' = Append(wire, seg)
  BY <1>6, <1>7
<1>17. QED BY <1>8, <1>10, <1>13, <1>14, <1>15, <1>16, ServerSends

(* The server sends its FIN after the last byte. *)
LEMMA FinOrder ==
  ASSUME ~Repeat, StreamInv, Types', Order, NEW c \in Conn, PeerFin(c)
  PROVE  Order'
<1>0. Types /\ peer \in [Conn -> Server] /\ N \in Nat
  BY TcpSizes DEF StreamInv, Types, OtherTypes
<1>1. /\ peer[c].nxt = N /\ peer' = [peer EXCEPT ![c].nxt = N + 1]
      /\ wire' = Append(wire, Answer(c, {"FIN", "ACK"}, N, << >>))
      /\ UNCHANGED <<sock, opened, out>>
  BY DEF PeerFin
<1>2. PICK seg : /\ seg = Answer(c, {"FIN", "ACK"}, N, << >>)
                 /\ seg.conn = c /\ "FIN" \in seg.flags /\ seg.data = << >>
  <2>1. PICK seg : seg = Answer(c, {"FIN", "ACK"}, N, << >>)
    OBVIOUS
  <2>2. seg.conn = c /\ "FIN" \in seg.flags /\ seg.data = << >>
    BY <2>1 DEF Answer
  <2>3. QED BY <2>1, <2>2
<1>3. seg \in Incoming
  BY <1>0, <1>2, EmptyType DEF Flag
<1>4. Placed(seg)
  BY <1>2 DEF Placed
<1>5. ASSUME NEW d \in Conn PROVE Sends(d, seg, peer[d].nxt, peer'[d].nxt)
  <2>1. CASE d = c
    <3>1. peer'[c].nxt = N + 1
      BY <1>0, <1>1 DEF Server
    <3>2. QED BY <1>1, <1>2, <2>1, <3>1 DEF Sends, Data, End
  <2>2. CASE d # c
    BY <1>0, <1>1, <1>2, <2>2 DEF Sends, Data, End
  <2>3. QED BY <2>1, <2>2
<1>6. ASSUME NEW d \in Conn, Quiet(d)
      PROVE  peer'[d].req = peer[d].req /\ ~Data(d, seg) /\ ~End(d, seg)
  <2>1. peer[c].req
    BY DEF PeerFin
  <2>2. ~peer[d].req
    BY <1>6 DEF Quiet
  <2>3. d # c
    BY <2>1, <2>2
  <2>4. peer'[d] = peer[d]
    BY <1>0, <1>1, <2>3
  <2>5. QED BY <1>2, <2>3, <2>4 DEF Data, End
<1>7. wire' = Append(wire, seg)
  BY <1>1, <1>2
<1>8. QED BY <1>1, <1>3, <1>4, <1>5, <1>6, <1>7, ServerSends

LEMMA EnvironmentOrder ==
  ASSUME Orderly, StreamInv, Order, Environment
  PROVE  Order'
<1>0. Types /\ Types'
  BY StreamInvKept DEF StreamInv, Step
<1>1. CASE PeerRx
  <2>1. /\ UNCHANGED <<sock, opened>>
        /\ \A c \in Conn : peer'[c].nxt = peer[c].nxt /\ (Quiet(c) => peer'[c].req = peer[c].req)
        /\ \A j \in DOMAIN out' : \E k \in DOMAIN out : out'[j] = out[k]
    BY <1>0, <1>1, PeerRxIs
  <2>2. \/ wire' = wire
        \/ \E seg \in Incoming : /\ wire' = Append(wire, seg)
                                 /\ \A c : ~Data(c, seg) /\ ~End(c, seg)
    BY <1>0, <1>1, PeerRxIs
  <2>3. CASE wire' = wire
    BY <1>0, <2>1, <2>3, WireStays
  <2>4. ASSUME NEW seg \in Incoming, wire' = Append(wire, seg),
               \A c : ~Data(c, seg) /\ ~End(c, seg)
        PROVE  Order'
    BY <1>0, <2>1, <2>4, SendsNothing
  <2>5. QED BY <2>2, <2>3, <2>4
<1>2. ASSUME NEW c \in Conn, PeerReset(c) PROVE Order'
  <2>0. peer \in [Conn -> Server]
    BY <1>0 DEF Types, OtherTypes
  <2>1. PICK seg : seg = Answer(c, {"RST", "ACK"}, peer[c].nxt, << >>)
    OBVIOUS
  <2>2. peer[c].nxt \in Nat /\ {"RST", "ACK"} \in SUBSET Flag
    BY <1>0, UnderWay, TcpSizes DEF Flag
  <2>3. seg \in Incoming
    BY <2>1, <2>2, EmptyType
  <2>4. \A d : ~Data(d, seg) /\ ~End(d, seg)
    BY <2>1, NothingInIt
  <2>5. UNCHANGED <<sock, opened, out>> /\ wire' = Append(wire, seg)
    BY <1>2, <2>1 DEF PeerReset
  <2>6. \A d \in Conn : peer'[d].nxt = peer[d].nxt /\ peer'[d].req = peer[d].req
    BY <1>2, <2>0 DEF PeerReset, Server
  <2>7. QED BY <1>0, <2>3, <2>4, <2>5, <2>6, SendsNothing
<1>3. ASSUME NEW c \in Conn, PeerData(c) \/ PeerFin(c) PROVE Order'
  BY <1>0, <1>3, DataOrder, FinOrder DEF Orderly
<1>4. ~LoseSegment /\ \A c \in Conn : ~PeerSynAckAgain(c)
  BY DEF Orderly, LoseSegment, PeerSynAckAgain
<1>5. QED BY <1>1, <1>2, <1>3, <1>4 DEF Environment

LEMMA OrderKept ==
  ASSUME Orderly, StreamInv, Order, Step
  PROVE  Order'
<1>1. ~Reorder
  BY DEF Orderly
<1>2. QED BY <1>1, CallsOrder, OnRxOrder, EnvironmentOrder DEF Step

LEMMA OrderInitially == Init => Order
<1> SUFFICES ASSUME Init PROVE Order
  OBVIOUS
<1>1. ASSUME NEW c \in Conn PROVE Quiet(c)
  <2>1. peer[c].nxt = 0 /\ peer[c].req = FALSE /\ wire = << >> /\ out = << >>
    BY DEF Init
  <2>2. DOMAIN wire = {} /\ DOMAIN out = {}
    BY <2>1
  <2>3. QED BY <2>1, <2>2 DEF Quiet
<1>2. sock.state = "CLOSED"
  BY DEF Init, NoSock
<1>3. QED BY <1>1, <1>2 DEF Order

--------------------------------------------------------------------------------
(* The FIN comes after the last byte. *)

(* tcp_recv moves bytes from the buffer to the application. *)
LEMMA RecvStored ==
  ASSUME Types, NEW maxlen \in Nat \ {0}, TcpRecv(maxlen)
  PROVE  /\ Stored(opened)' = Stored(opened) /\ sock'.state = sock.state
         /\ UNCHANGED <<opened, cut>>
<1>1. /\ sock \in Socket /\ sock.conn = opened /\ sock.rx # << >> /\ opened \in Conn
      /\ taken \in [Conn -> Seq(Byte)] /\ sock.rx \in Seq(Byte) /\ taken[opened] \in Seq(Byte)
  BY DEF TcpRecv, Types, SockTypes, Socket, OtherTypes, Conn
<1>2. PICK m \in 1 .. Len(sock.rx) :
        Returned(maxlen) = SubSeq(sock.rx, 1, m) /\ Len(Returned(maxlen)) = m
  BY <1>1, ReturnedIs
<1>3. /\ sock'.rx = SubSeq(sock.rx, m + 1, Len(sock.rx)) /\ sock'.conn = sock.conn
      /\ sock'.state = sock.state /\ opened' = opened /\ cut' = cut
      /\ taken'[opened] = taken[opened] \o SubSeq(sock.rx, 1, m)
  BY <1>1, <1>2 DEF TcpRecv, Socket
<1>4. m \in 0 .. Len(sock.rx)
  BY <1>2
<1>5. (taken[opened] \o SubSeq(sock.rx, 1, m)) \o SubSeq(sock.rx, m + 1, Len(sock.rx))
        = taken[opened] \o sock.rx
  BY <1>1, <1>4, TakeAndRest
<1>6. QED BY <1>1, <1>3, <1>5 DEF Stored

(* A FIN that is taken while the connection is up comes when all is stored. *)
LEMMA FinIsLast ==
  ASSUME ~Reorder, StreamInv, Order, TcpOnRx, RxEstablished(wire[1]), "FIN" \in wire[1].flags,
         opened \notin cut'
  PROVE  Len(Stored(opened)') = N
<1> DEFINE seg == wire[1]
<1>0. Types /\ sock \in Socket /\ sock.conn = opened /\ N \in Nat
  BY TcpSizes DEF StreamInv, Types, SockTypes
<1>1. /\ wire \in Seq(Incoming) /\ wire # << >> /\ seg \in Incoming
      /\ UNCHANGED <<opened, peer, taken>>
  BY <1>0, TakesFirst
<1>2. \A i \in DOMAIN wire : Placed(wire[i])
  BY WirePlaced
<1>3. 1 \in DOMAIN wire /\ Placed(seg)
  BY <1>1, <1>2, EmptySeq
<1>4. sock.state = "ESTABLISHED" /\ seg.conn = opened /\ End(opened, seg)
  BY <1>0 DEF RxEstablished, ForUs, End
<1>5. opened \in Conn /\ peer[opened].nxt \in 0 .. N + 1
  BY <1>0, <1>4, UnderWay
<1>6. PICK a \in 0 .. N : sock.rcv = At(a) /\ Lined(wire, opened, a, peer[opened].nxt)
  BY <1>4 DEF Order
<1>7. PICK n \in 0 .. N + 1 : n = peer[opened].nxt /\ Lined(wire, opened, a, n)
  BY <1>5, <1>6
<1>8. PICK b : b = IF Data(opened, wire[1]) THEN Past(wire[1]) ELSE a
  OBVIOUS
<1>9. b = N /\ (Data(opened, seg) => First(seg) = a)
  BY <1>1, <1>2, <1>4, <1>7, <1>8, FirstIsNext
<1>10. opened \notin cut /\ (InOrder(seg) => Kept(seg.data) = seg.data)
  BY <1>0 DEF RxEstablished
<1>11. Intact(opened) /\ sock.rcv = At(Len(Stored(opened)))
  BY <1>0, <1>4, <1>5, <1>10 DEF StreamInv, Streams, Acked
<1>12. Len(Stored(opened)) \in 0 .. N
  <2>1. Stored(opened) \in Seq(Byte)
    BY <1>0, <1>5, StoredType
  <2>2. QED BY <1>11, <2>1 DEF Intact
<1>13. Len(Stored(opened)) = a
  <2>1. PICK l \in 0 .. N : l = Len(Stored(opened))
    BY <1>12
  <2>2. Offset(At(l)) = l /\ Offset(At(a)) = a
    <3>1. l \in 0 .. N + 1 /\ a \in 0 .. N + 1
      BY <1>0
    <3>2. QED BY <3>1, AtIs
  <2>3. At(l) = At(a)
    BY <1>6, <1>11, <2>1
  <2>4. QED BY <2>1, <2>2, <2>3
<1>14. /\ taken[opened] \in Seq(Byte) /\ sock.rx \in Seq(Byte) /\ seg.data \in Seq(Byte)
       /\ Stored(opened) = taken[opened] \o sock.rx
  BY <1>0, <1>1, <1>5 DEF Types, OtherTypes, Socket, Incoming, Stored
<1>15. WithData(seg) \in Socket /\ WithData(seg).conn = sock.conn
       /\ sock'.rx = WithData(seg).rx /\ sock'.conn = sock.conn
  <2>1. WithData(seg) \in Socket /\ WithData(seg).conn = sock.conn
    BY <1>0, <1>1, WithDataIs
  <2>2. QED BY <2>1 DEF RxEstablished, Socket
<1>16. Stored(opened)' = taken[opened] \o sock'.rx
  BY <1>0, <1>1, <1>15 DEF Stored
<1>17. CASE Data(opened, seg)
  <2>1. seg.data # << >> /\ b = a + Len(seg.data) /\ seg.seq = At(a)
    BY <1>3, <1>8, <1>9, <1>17 DEF Data, Placed
  <2>2. InOrder(seg)
    BY <1>6, <2>1 DEF InOrder
  <2>3. sock'.rx = sock.rx \o seg.data
    BY <1>0, <1>1, <1>10, <1>15, <2>2, WithDataIs
  <2>4. taken[opened] \o (sock.rx \o seg.data) = (taken[opened] \o sock.rx) \o seg.data
    <3>1. taken[opened] \in Seq(Byte) /\ sock.rx \in Seq(Byte) /\ seg.data \in Seq(Byte)
      BY <1>14
    <3>2. \A t, r, d \in Seq(Byte) : t \o (r \o d) = (t \o r) \o d
      BY ConcatIsAssociative, SMTT(30)
    <3>3. QED BY <3>1, <3>2, ZenonT(40)
  <2>5. Stored(opened)' = Stored(opened) \o seg.data
    BY <1>14, <1>16, <2>3, <2>4
  <2>6. Len(Stored(opened) \o seg.data) = Len(Stored(opened)) + Len(seg.data)
    BY <1>14, ConcatIs
  <2>7. QED BY <1>9, <1>13, <2>1, <2>5, <2>6
<1>18. CASE ~Data(opened, seg)
  <2>1. sock'.rx = sock.rx
    BY <1>0, <1>1, <1>4, <1>15, <1>18, WithDataIs DEF Data, InOrder
  <2>2. QED BY <1>8, <1>9, <1>13, <1>14, <1>16, <1>18, <2>1
<1>19. QED BY <1>17, <1>18

(* tcp_on_rx with the FIN taken or to be taken. *)
LEMMA OnRxStored ==
  ASSUME ~Reorder, StreamInv, Order, TcpOnRx,
         sock'.state \in {"FIN_WAIT1", "FIN_WAIT2", "TIME_WAIT"}, opened \notin cut'
  PROVE  \/ Len(Stored(opened)') = N
         \/ /\ sock.state \in {"FIN_WAIT1", "FIN_WAIT2", "TIME_WAIT"}
            /\ opened \notin cut /\ Stored(opened)' = Stored(opened)
<1> DEFINE seg == wire[1]
<1>0. Types /\ sock \in Socket
  BY DEF StreamInv, Types, SockTypes
<1>1. Handled(seg) /\ seg \in Incoming /\ UNCHANGED <<opened, peer, taken>>
  BY <1>0, TakesFirst
<1>2. CASE RxEstablished(seg)
  <2>1. WithData(seg) \in Socket /\ WithData(seg).state = "ESTABLISHED"
    BY <1>0, <1>1, <1>2, WithDataIs DEF RxEstablished
  <2>2. "FIN" \in seg.flags
    BY <1>2, <2>1 DEF RxEstablished
  <2>3. QED BY <1>2, <2>2, FinIsLast
<1>3. CASE RxFinWait1(seg) \/ RxFinWait2(seg) \/ RxIgnored(seg)
  <2>1. /\ sock'.rx = sock.rx /\ sock'.conn = sock.conn /\ cut' = cut
        /\ sock.state \in {"FIN_WAIT1", "FIN_WAIT2", "TIME_WAIT"}
    BY <1>0, <1>3 DEF RxFinWait1, RxFinWait2, RxIgnored, Socket
  <2>2. QED BY <1>1, <2>1 DEF Stored
<1>4. CASE RxReset(seg) \/ RxSynAck(seg)
  BY <1>0, <1>4 DEF RxReset, RxSynAck, Socket
<1>5. QED BY <1>1, <1>2, <1>3, <1>4 DEF Handled

(* tcp_on_rx forgets no overflow. *)
LEMMA CutStays == TcpOnRx => cut \subseteq cut'
BY DEF TcpOnRx, RxReset, RxSynAck, RxEstablished, RxFinWait1, RxFinWait2, RxIgnored

(* What the FIN says in the read loop, and to the call that returned. *)
Reading == pc = "read" /\ sock.state \in {"FIN_WAIT1", "FIN_WAIT2", "TIME_WAIT"}
           /\ opened \notin cut => Len(Stored(opened)) = N
Returning == pc = "done" /\ ret # "no_connection" /\ opened \notin cut /\ Len(raw) < RawCap =>
               Len(raw) = N

LEMMA ReadingKept ==
  ASSUME ~Reorder, HInv, Order, Reading, [HNext]_allvars
  PROVE  Reading'
<1>0. StreamInv /\ Types /\ sock \in Socket /\ CallTypes
  BY DEF HInv, StreamInv, Types, SockTypes
<1>1. CASE Try \/ WaitPoll \/ GiveUp \/ \E k \in Kind : Finish(k)
  <2>1. pc' \in {"try", "wait", "done"}
    BY <1>0, <1>1 DEF Try, WaitPoll, GiveUp, Finish, Evaluate, CallTypes
  <2>2. QED BY <2>1 DEF Reading
<1>2. CASE Request
  <2>1. sock'.state = "ESTABLISHED"
    BY <1>0, <1>2 DEF Request, TcpSend, Socket
  <2>2. QED BY <2>1 DEF Reading
<1>3. CASE Read
  <2>1. RawCap - Len(raw) \in Nat \ {0} /\ TcpRecv(RawCap - Len(raw)) /\ pc' = pc
    BY <1>0, <1>3, HttpNumbers DEF Read, CallTypes
  <2>2. /\ Stored(opened)' = Stored(opened) /\ sock'.state = sock.state
        /\ UNCHANGED <<opened, cut>>
    BY <1>0, <2>1, RecvStored
  <2>3. QED BY <2>1, <2>2 DEF Reading
<1>4. CASE Poll
  <2>1. pc' = pc /\ TcpOnRx /\ opened' = opened
    BY <1>0, <1>4, TakesFirst DEF Poll, hvars
  <2>2. ASSUME pc = "read", sock'.state \in {"FIN_WAIT1", "FIN_WAIT2", "TIME_WAIT"},
               opened \notin cut'
        PROVE  Len(Stored(opened)') = N
    <3>1. \/ Len(Stored(opened)') = N
          \/ /\ sock.state \in {"FIN_WAIT1", "FIN_WAIT2", "TIME_WAIT"}
             /\ opened \notin cut /\ Stored(opened)' = Stored(opened)
      BY <1>0, <2>1, <2>2, OnRxStored
    <3>2. QED BY <2>2, <3>1 DEF Reading
  <2>3. QED BY <2>1, <2>2 DEF Reading
<1>5. CASE UNCHANGED hvars /\ (Environment \/ UNCHANGED vars)
  <2>1. UNCHANGED <<pc, sock, opened, taken, cut>>
    BY Zenon, <1>5 DEF hvars, vars, Environment, PeerRx, PeerData, PeerFin, PeerSynAckAgain, PeerReset,
                LoseSegment
  <2>2. QED BY Zenon, <2>1 DEF Reading, Stored
<1>6. QED BY <1>1, <1>2, <1>3, <1>4, <1>5 DEF HNext, Call, allvars

(* What is left to read when the read loop ends with room in the buffer. *)
LEMMA ReturningKept ==
  ASSUME HInv, Reading, Returning, [HNext]_allvars
  PROVE  Returning'
<1>0. Types /\ CallTypes /\ Own
  BY DEF HInv, StreamInv
<1>1. CASE Try \/ WaitPoll \/ GiveUp \/ Request \/ Read
  <2>1. pc' # "done" \/ ret' = "no_connection"
    BY <1>0, <1>1 DEF Try, WaitPoll, GiveUp, Request, Read
  <2>2. QED BY <2>1 DEF Returning
<1>2. ASSUME NEW k \in Kind, Finish(k) PROVE Returning'
  <2>1. pc = "read" /\ ReadOver /\ raw' = raw /\ UNCHANGED <<opened, taken, cut>>
    BY <1>2 DEF Finish, TcpClose, vars
  <2>2. ASSUME opened \notin cut, Len(raw) < RawCap PROVE Len(raw) = N
    <3>1. Len(raw) # RawCap
      BY <1>0, <2>2, HttpNumbers DEF CallTypes
    <3>2. sock.rx = << >> /\ sock.state \in {"FIN_WAIT1", "FIN_WAIT2", "TIME_WAIT"}
      BY <2>1, <3>1 DEF ReadOver
    <3>3. Len(Stored(opened)) = N
      BY <2>1, <2>2, <3>2 DEF Reading
    <3>4. Stored(opened) = taken[opened] \o << >> /\ raw = taken[opened] /\ raw \in Seq(Byte)
      BY <1>0, <2>1, <3>2 DEF Stored, Own, CallTypes, Types, SockTypes
    <3>5. raw \o << >> = raw
      BY <3>4
    <3>6. QED BY <3>3, <3>4, <3>5
  <2>3. QED BY <2>1, <2>2 DEF Returning
<1>3. CASE UNCHANGED hvars /\ (TcpOnRx \/ Environment \/ UNCHANGED vars)
  <2>1. UNCHANGED <<pc, ret, raw, opened>> /\ cut \subseteq cut'
    <3>1. UNCHANGED opened /\ cut \subseteq cut'
      BY Zenon, <1>3, CutStays, OthersTake
         DEF vars, Environment, PeerRx, PeerData, PeerFin, PeerSynAckAgain, PeerReset, LoseSegment
    <3>2. QED BY <1>3, <3>1 DEF hvars
  <2>2. QED BY <2>1 DEF Returning
<1>4. QED BY <1>1, <1>2, <1>3 DEF HNext, Call, Poll, allvars

(* The inductive invariant on an orderly network. *)
OrderlyInv == HInv /\ Order /\ Reading /\ Returning

LEMMA OrderlyInvHolds == ASSUME Orderly PROVE HSpec => []OrderlyInv
<1>1. HInit => OrderlyInv
  <2> SUFFICES ASSUME HInit PROVE OrderlyInv
    OBVIOUS
  <2>1. HInv
    BY HInvInitially
  <2>2. Order
    BY OrderInitially DEF HInit
  <2>3. Reading /\ Returning
    BY DEF HInit, Reading, Returning
  <2>4. QED BY <2>1, <2>2, <2>3 DEF OrderlyInv
<1>2. OrderlyInv /\ [HNext]_allvars => OrderlyInv'
  <2> SUFFICES ASSUME OrderlyInv, [HNext]_allvars PROVE OrderlyInv'
    OBVIOUS
  <2>1. StreamInv /\ CallTypes /\ HInv /\ Order
    BY DEF OrderlyInv, HInv
  <2>2. Step /\ ~Reorder
    BY <2>1, CallSteps DEF Orderly
  <2>3. HInv'
    BY <2>1, HInvKept
  <2>4. Order'
    BY <2>1, <2>2, OrderKept
  <2>5. Reading' /\ Returning'
    BY <2>1, <2>2, ReadingKept, ReturningKept DEF OrderlyInv
  <2>6. QED BY <2>3, <2>4, <2>5 DEF OrderlyInv
<1>3. QED BY <1>1, <1>2, PTL DEF HSpec

(* http_get_by_ip_port returns a page whole, unless one of the two buffers was
   too small for it: on a network that keeps the order and loses nothing, the
   FIN which ends the read loop is taken after the last byte of the stream. *)
THEOREM PageComesWhole == ASSUME Orderly PROVE HSpec => []PageIsWhole
<1>1. ASSUME OrderlyInv PROVE PageIsWhole
  <2>1. SUFFICES ASSUME pc = "done", ret = "page", opened \notin cut, Len(raw) < RawCap
                 PROVE  raw = Stream(opened)
    BY DEF PageIsWhole
  <2>2. Len(raw) = N /\ raw \in Seq(Byte) /\ opened \in Conn
    BY <1>1, <2>1 DEF OrderlyInv, Returning, HInv, CallTypes, Own
  <2>3. IsPrefix(raw, Stream(opened))
    <3>1. HInv
      BY <1>1 DEF OrderlyInv
    <3>2. RawOfLastConnection
      BY <3>1, OwnResponse
    <3>3. QED BY <2>1, <3>2 DEF RawOfLastConnection
  <2>4. /\ Stream(opened) \in Seq(Byte) /\ Len(Stream(opened)) = N
        /\ \A k \in 1 .. Len(raw) : raw[k] = Stream(opened)[k]
    BY <2>2, <2>3, StreamIs, PrefixIs
  <2>5. QED BY <2>2, <2>4
<1>2. QED BY <1>1, OrderlyInvHolds, PTL
================================================================================
