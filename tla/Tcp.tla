---------------------------------- MODULE Tcp ----------------------------------
(***************************************************************************)
(* The TCP client of tcp.c (one socket, g_sock) and a server it talks to.  *)
(*                                                                         *)
(* The calls of the application and the delivery of one segment to         *)
(* tcp_on_rx are atomic: one thread runs them, tcp_on_rx from the NIC's    *)
(* poll.  The segments in transit are two queues, `out' to the server and  *)
(* `wire' from it.  The server is external: it accepts the connection,     *)
(* waits for a request, sends N bytes and closes; it repeats what is not   *)
(* acknowledged, and may reset.  Sequence numbers count modulo SeqSpace   *)
(* (2^32 in the code).                                                     *)
(***************************************************************************)
EXTENDS Integers, SequencesExt

CONSTANTS N,           \* bytes the server sends on a connection
          RxCap,       \* size of the receive buffer (8192 in the code)
          Window,      \* window that every segment announces (4096)
          MaxSeg,      \* largest payload of a segment
          SeqSpace,    \* sequence numbers are 0 .. SeqSpace - 1
          PeerIss,     \* first sequence number of the server
          IssStep,     \* distance of two initial sequence numbers (0x1000)
          MaxConn,     \* bound: connections opened
          MaxTransit,  \* bound: segments in transit when the server sends
          Loss,        \* TRUE iff the network may lose a segment
          Reorder,     \* TRUE iff it may deliver a segment before an older one
          Repeat,      \* TRUE iff the server may repeat a segment
          Rst          \* the connections the server may reset

ASSUME TcpSizes == /\ N \in Nat /\ RxCap \in Nat \ {0} /\ Window \in Nat \ {0}
                   /\ MaxSeg \in Nat \ {0} /\ IssStep \in Nat
                   /\ MaxConn \in Nat /\ MaxTransit \in Nat
                   /\ SeqSpace \in Nat /\ SeqSpace > N + 2
                   /\ PeerIss \in 0 .. SeqSpace - 1
ASSUME TcpNetwork == /\ {Loss, Reorder, Repeat} \subseteq BOOLEAN
                     /\ Rst \subseteq 1 .. MaxConn

Conn == 1 .. MaxConn        \* each has its own local port (pick_ephemeral)
SeqNo == 0 .. SeqSpace - 1
Byte == Conn \X (1 .. N)    \* a byte of a stream is its connection and place
State == {"CLOSED", "SYN_SENT", "ESTABLISHED", "FIN_WAIT1", "FIN_WAIT2",
          "TIME_WAIT"}

VARIABLES
  sock,    \* g_sock
  opened,  \* connections opened: the counters of pick_ephemeral and iss
  out,     \* segments on their way to the server
  wire,    \* segments on their way from the server
  peer,    \* the server's end of each connection
  taken,   \* history: what tcp_recv returned on each connection
  cut      \* history: connections on which the receive buffer overflowed

vars == <<sock, opened, out, wire, peer, taken, cut>>

Plus(s, n) == (s + n) % SeqSpace

NoSock == [in_use |-> FALSE, state |-> "CLOSED", conn |-> 0,
           snd |-> 0, rcv |-> 0, rx |-> << >>]

Init == /\ sock = NoSock
        /\ opened = 0
        /\ out = << >>
        /\ wire = << >>
        /\ peer = [c \in Conn |-> [st |-> "listen", rcv |-> 0, una |-> 0,
                                   nxt |-> 0, req |-> FALSE]]
        /\ taken = [c \in Conn |-> << >>]
        /\ cut = {}

--------------------------------------------------------------------------------
(* Calls of the application. *)

(* tcp_send_segment: the segment of len bytes that socket s sends. *)
Segment(s, flags, len) ==
  [conn |-> s.conn, flags |-> flags, seq |-> s.snd, ack |-> s.rcv, len |-> len]

Iss(c) == (c * IssStep) % SeqSpace

(* The socket tcp_connect fills, before it sends the SYN. *)
NewSock(c) == [in_use |-> TRUE, state |-> "SYN_SENT", conn |-> c,
               snd |-> Iss(c), rcv |-> 0, rx |-> << >>]

(* tcp_init, which clears g_sock, and then tcp_connect(&g_sock, ...), which
   therefore finds it free: http.c calls them back to back. *)
Open ==
  LET s == NewSock(opened + 1)
  IN /\ opened < MaxConn
     /\ opened' = opened + 1
     /\ out' = Append(out, Segment(s, {"SYN"}, 0))
     /\ sock' = [s EXCEPT !.snd = Plus(@, 1)]
     /\ UNCHANGED <<wire, peer, taken, cut>>

(* tcp_send of a request, taken to be one byte long. *)
TcpSend == /\ sock.state = "ESTABLISHED"
           /\ out' = Append(out, Segment(sock, {"PSH", "ACK"}, 1))
           /\ sock' = [sock EXCEPT !.snd = Plus(@, 1)]
           /\ UNCHANGED <<opened, wire, peer, taken, cut>>

(* The bytes tcp_recv returns: the first of the buffer, at most maxlen. *)
Returned(maxlen) == SubSeq(sock.rx, 1, Min({maxlen, Len(sock.rx)}))

(* Fault: the bytes returned stay in the buffer. *)
TcpRecv_NoShift(maxlen) ==
  /\ sock.rx # << >>
  /\ taken' = [taken EXCEPT ![sock.conn] = @ \o Returned(maxlen)]
  /\ UNCHANGED <<sock, opened, out, wire, peer, cut>>
TcpRecv(maxlen) ==
  /\ sock.rx # << >>
  /\ taken' = [taken EXCEPT ![sock.conn] = @ \o Returned(maxlen)]
  /\ sock' = [sock EXCEPT !.rx = SubSeq(@, Len(Returned(maxlen)) + 1, Len(@))]
  /\ UNCHANGED <<opened, out, wire, peer, cut>>

(* tcp_close: the socket that it closes, and the segment it sends. *)
Closed == IF sock.state = "ESTABLISHED"
          THEN [sock EXCEPT !.snd = Plus(@, 1), !.state = "FIN_WAIT1"]
          ELSE [sock EXCEPT !.in_use = FALSE, !.state = "CLOSED"]
TcpClose == /\ sock.in_use
            /\ sock' = Closed
            /\ out' = IF sock.state = "ESTABLISHED"
                      THEN Append(out, Segment(sock, {"FIN", "ACK"}, 0))
                      ELSE out
            /\ UNCHANGED <<opened, wire, peer, taken, cut>>

--------------------------------------------------------------------------------
(* tcp_on_rx. *)

(* Fault: the ports are not compared. *)
ForUs_AnyPort(seg) == sock.in_use
(* The tests on addresses and ports. *)
ForUs(seg) == sock.in_use /\ seg.conn = sock.conn

(* Fault: the capacity of the buffer is not checked. *)
Kept_All(data) == data
(* rx_data_into_buf keeps what fits and forgets the rest. *)
Kept(data) == SubSeq(data, 1, Min({Len(data), RxCap - Len(sock.rx)}))

RxReset(seg) ==
  /\ ForUs(seg) /\ "RST" \in seg.flags
  /\ sock' = [sock EXCEPT !.state = "CLOSED", !.in_use = FALSE]
  /\ UNCHANGED <<out, cut>>

RxSynAck(seg) ==
  LET s == [sock EXCEPT !.rcv = Plus(seg.seq, 1)]
  IN /\ ForUs(seg) /\ "RST" \notin seg.flags
     /\ sock.state = "SYN_SENT"
     /\ {"SYN", "ACK"} \subseteq seg.flags
     /\ out' = Append(out, Segment(s, {"ACK"}, 0))
     /\ sock' = [s EXCEPT !.state = "ESTABLISHED"]
     /\ UNCHANGED cut

(* Fault: the sequence number is not compared. *)
InOrder_Any(seg) == seg.data # << >>
InOrder(seg) == seg.data # << >> /\ seg.seq = sock.rcv

(* Fault: the data of a segment that carries a FIN is skipped. *)
WithData_NotWithFin(seg) ==
  IF InOrder(seg) /\ "FIN" \notin seg.flags
  THEN [sock EXCEPT !.rx = @ \o Kept(seg.data), !.rcv = Plus(@, Len(seg.data))]
  ELSE sock
(* The socket once the data of an expected segment is taken: all its bytes
   are acknowledged, also those the buffer had no room for. *)
WithData(seg) ==
  IF InOrder(seg)
  THEN [sock EXCEPT !.rx = @ \o Kept(seg.data), !.rcv = Plus(@, Len(seg.data))]
  ELSE sock

(* Data, when it is expected, and the FIN, wherever it stands. *)
RxEstablished(seg) ==
  LET s == WithData(seg)
      f == [s EXCEPT !.rcv = Plus(@, 1)]
      acks == IF InOrder(seg) THEN <<Segment(s, {"ACK"}, 0)>> ELSE << >>
  IN /\ ForUs(seg) /\ "RST" \notin seg.flags
     /\ sock.state = "ESTABLISHED"
     /\ \/ /\ "FIN" \notin seg.flags
           /\ sock' = s
           /\ out' = out \o acks
        \/ /\ "FIN" \in seg.flags
           /\ sock' = [f EXCEPT !.snd = Plus(@, 1), !.state = "FIN_WAIT1"]
           /\ out' = out \o acks \o <<Segment(f, {"ACK"}, 0),
                                      Segment(f, {"FIN", "ACK"}, 0)>>
     /\ cut' = IF InOrder(seg) /\ Kept(seg.data) # seg.data
               THEN cut \cup {sock.conn} ELSE cut

RxFinWait1(seg) ==
  /\ ForUs(seg) /\ "RST" \notin seg.flags
  /\ sock.state = "FIN_WAIT1"
  /\ "ACK" \in seg.flags
  /\ sock' = [sock EXCEPT !.state = "FIN_WAIT2"]
  /\ UNCHANGED <<out, cut>>

RxFinWait2(seg) ==
  LET s == [sock EXCEPT !.rcv = Plus(@, 1)]
  IN /\ ForUs(seg) /\ "RST" \notin seg.flags
     /\ sock.state = "FIN_WAIT2"
     /\ "FIN" \in seg.flags
     /\ out' = Append(out, Segment(s, {"ACK"}, 0))
     /\ sock' = [s EXCEPT !.state = "TIME_WAIT"]
     /\ UNCHANGED cut

(* A segment of no interest in this state, or for no socket. *)
RxIgnored(seg) ==
  /\ ForUs(seg) =>
       /\ "RST" \notin seg.flags
       /\ sock.state # "ESTABLISHED"
       /\ sock.state = "SYN_SENT" => ~ ({"SYN", "ACK"} \subseteq seg.flags)
       /\ sock.state = "FIN_WAIT1" => "ACK" \notin seg.flags
       /\ sock.state = "FIN_WAIT2" => "FIN" \notin seg.flags
  /\ UNCHANGED <<sock, out, cut>>

(* The places of a queue a segment may be delivered from. *)
Next1(q) == IF Reorder THEN DOMAIN q ELSE DOMAIN q \cap {1}

TcpOnRx ==
  \E i \in Next1(wire) :
    LET seg == wire[i]
    IN /\ \/ RxReset(seg)    \/ RxSynAck(seg)   \/ RxEstablished(seg)
          \/ RxFinWait1(seg) \/ RxFinWait2(seg) \/ RxIgnored(seg)
       /\ wire' = RemoveAt(wire, i)
       /\ UNCHANGED <<opened, peer, taken>>

--------------------------------------------------------------------------------
(* The server and the network. *)

(* How far in the stream sequence number s is: the bytes before it. *)
Offset(s) == (s - PeerIss - 1) % SeqSpace

Answer(c, flags, off, data) ==
  [conn |-> c, flags |-> flags, seq |-> Plus(PeerIss + 1, off), data |-> data]
SynAck(c) == [conn |-> c, flags |-> {"SYN", "ACK"}, seq |-> PeerIss,
              data |-> << >>]

(* The server takes a segment: the SYN; or an acknowledgement, with the request
   or the FIN when they are the next it expects. *)
PeerRx ==
  \E i \in Next1(out) :
    LET seg == out[i]
        c == seg.conn
        p == peer[c]
        off == Offset(seg.ack)
        size == seg.len + IF "FIN" \in seg.flags THEN 1 ELSE 0
        next == seg.seq = p.rcv /\ size > 0
    IN /\ out' = RemoveAt(out, i)
       /\ \/ /\ p.st = "listen" /\ "SYN" \in seg.flags
             /\ peer' = [peer EXCEPT ![c].st = "syn_rcvd",
                                     ![c].rcv = Plus(seg.seq, 1)]
             /\ wire' = Append(wire, SynAck(c))
          \/ /\ p.st \in {"syn_rcvd", "est"} /\ off \in 0 .. p.nxt
             /\ peer' = [peer EXCEPT
                  ![c].st = "est",
                  ![c].una = Max({@, off}),
                  ![c].rcv = IF next THEN Plus(@, size) ELSE @,
                  ![c].req = @ \/ (next /\ seg.len > 0)]
             /\ wire' = IF size > 0
                        THEN Append(wire, Answer(c, {"ACK"}, p.nxt, << >>))
                        ELSE wire
          \/ /\ \/ p.st = "gone" \/ (p.st = "listen" /\ "SYN" \notin seg.flags)
                \/ p.st \in {"syn_rcvd", "est"} /\ off \notin 0 .. p.nxt
             /\ UNCHANGED <<peer, wire>>
       /\ UNCHANGED <<sock, opened, taken, cut>>

Room == Len(wire) + Len(out) < MaxTransit

(* The server sends the next bytes, or repeats the first it has no
   acknowledgement of, within the window; its last bytes may carry its FIN. *)
PeerData(c) ==
  LET p == peer[c]
  IN /\ Room
     /\ p.st = "est" /\ p.req
     /\ \E o \in (IF Repeat THEN {p.una, p.nxt} ELSE {p.nxt}), n \in 1 .. MaxSeg :
          /\ o + n <= N /\ o + n <= p.una + Window
          /\ \E fin \in {FALSE, o + n = N} :
               /\ wire' = Append(wire,
                    Answer(c, IF fin THEN {"FIN", "ACK"} ELSE {"ACK"}, o,
                           [k \in 1 .. n |-> <<c, o + k>>]))
               /\ peer' = [peer EXCEPT ![c].nxt =
                             Max({@, o + n + IF fin THEN 1 ELSE 0})]
     /\ UNCHANGED <<sock, opened, out, taken, cut>>

PeerFin(c) ==
  LET p == peer[c]
  IN /\ Room
     /\ p.st = "est" /\ p.req
     /\ p.nxt = N \/ (Repeat /\ p.nxt = N + 1 /\ p.una = N)
     /\ wire' = Append(wire, Answer(c, {"FIN", "ACK"}, N, << >>))
     /\ peer' = [peer EXCEPT ![c].nxt = N + 1]
     /\ UNCHANGED <<sock, opened, out, taken, cut>>

PeerSynAckAgain(c) ==
  /\ Repeat /\ Room
  /\ peer[c].st = "syn_rcvd"
  /\ wire' = Append(wire, SynAck(c))
  /\ UNCHANGED <<sock, opened, out, peer, taken, cut>>

PeerReset(c) ==
  /\ c \in Rst /\ Room
  /\ peer[c].st \in {"syn_rcvd", "est"}
  /\ wire' = Append(wire, Answer(c, {"RST", "ACK"}, peer[c].nxt, << >>))
  /\ peer' = [peer EXCEPT ![c].st = "gone"]
  /\ UNCHANGED <<sock, opened, out, taken, cut>>

LoseSegment ==
  /\ Loss
  /\ \/ /\ \E i \in DOMAIN wire : wire' = RemoveAt(wire, i)
        /\ UNCHANGED out
     \/ /\ \E i \in DOMAIN out : out' = RemoveAt(out, i)
        /\ UNCHANGED wire
  /\ UNCHANGED <<sock, opened, peer, taken, cut>>

Environment == \/ PeerRx
               \/ \E c \in Conn : \/ PeerData(c) \/ PeerFin(c)
                                  \/ PeerSynAckAgain(c) \/ PeerReset(c)
               \/ LoseSegment

(* An application opens connections, sends one request on each, reads as much
   as it likes and closes. *)
Application == \/ Open
               \/ TcpSend /\ sock.snd = Plus(Iss(sock.conn), 1)
               \/ \E maxlen \in 1 .. RxCap : TcpRecv(maxlen)
               \/ TcpClose

Next == Application \/ TcpOnRx \/ Environment

Spec == Init /\ [][Next]_vars

--------------------------------------------------------------------------------
(* Properties. *)

Stream(c) == [k \in 1 .. N |-> <<c, k>>]

(* What the application got of connection c, and will get of what is stored. *)
Stored(c) == IF sock.conn = c THEN taken[c] \o sock.rx ELSE taken[c]

TypeOK ==
  /\ sock \in [in_use : BOOLEAN, state : State, conn : Conn \cup {0},
               snd : SeqNo, rcv : SeqNo, rx : Seq(Byte)]
  /\ Len(sock.rx) <= RxCap
  /\ opened \in 0 .. MaxConn
  /\ \A i \in DOMAIN out : out[i].seq \in SeqNo /\ out[i].ack \in SeqNo
  /\ \A c \in Conn : peer[c].una <= peer[c].nxt /\ peer[c].nxt <= N + 1
  /\ taken \in [Conn -> Seq(Byte)]
  /\ cut \subseteq Conn

(* Whatever is lost, repeated, reordered or left over from an earlier
   connection, the application reads the server's bytes in order, without gap
   or repetition, as long as the receive buffer did not overflow: the port and
   sequence tests of tcp_on_rx and the shift of tcp_recv. *)
StreamIntact == \A c \in Conn \ cut : IsPrefix(Stored(c), Stream(c))

(* While the connection is up, the bytes acknowledged are exactly the bytes
   stored: none is acknowledged that a retransmission should bring again. *)
AckedWasStored ==
  sock.state = "ESTABLISHED" /\ sock.conn \notin cut =>
    Offset(sock.rcv) = Len(Stored(sock.conn))

(* When the receive buffer is as large as the stream, the client implements
   the byte stream: a segment of an earlier connection is not taken for one of
   the connection opened last. *)
Bytes == INSTANCE ByteStream WITH latest <- opened, got <- taken
ImplementsByteStream == Bytes!BSpec
================================================================================
