------------------------------- MODULE TcpProofs -------------------------------
(***************************************************************************)
(* Proofs about the TCP client of tcp.c, for streams, buffers, windows and *)
(* sequence numbers of any size: what the application reads is a prefix of *)
(* what the server sent, what is acknowledged is stored, and the client    *)
(* implements ByteStream.                                                  *)
(***************************************************************************)
EXTENDS Tcp, SequenceTheorems, TLAPS

--------------------------------------------------------------------------------
(* Sequence numbers. *)

LEMMA Wraps == ASSUME NEW i \in Int, NEW n \in Nat \ {0} PROVE i % n \in 0 .. n - 1
  OBVIOUS

LEMMA WrapsOnce ==
  ASSUME NEW n \in Nat \ {0}, NEW i \in 0 .. n - 1
  PROVE  i % n = i /\ (i + n) % n = i /\ (i - n) % n = i
  OBVIOUS

LEMMA PlusSeqNo == \A s \in SeqNo, n \in Nat : Plus(s, n) \in SeqNo
<1> SUFFICES ASSUME NEW s \in SeqNo, NEW n \in Nat PROVE (s + n) % SeqSpace \in 0 .. SeqSpace - 1
  BY DEF Plus, SeqNo
<1>1. s + n \in Int /\ SeqSpace \in Nat \ {0}
  BY TcpSizes DEF SeqNo
<1> QED BY <1>1, Wraps

(* The sequence number of the byte after the first a of a stream. *)
At(a) == Plus(PeerIss + 1, a)

LEMMA AtIs ==
  ASSUME NEW a \in 0 .. N + 1
  PROVE  /\ At(a) = IF PeerIss + 1 + a < SeqSpace THEN PeerIss + 1 + a
                    ELSE PeerIss + 1 + a - SeqSpace
         /\ Offset(At(a)) = a
<1>0. /\ SeqSpace \in Nat \ {0} /\ PeerIss \in 0 .. SeqSpace - 1
      /\ N \in Nat /\ N + 2 < SeqSpace /\ a \in 0 .. N + 1
  BY TcpSizes
<1>1. CASE PeerIss + 1 + a < SeqSpace
  <2>1. (PeerIss + 1 + a) % SeqSpace = PeerIss + 1 + a
    BY <1>0, <1>1, WrapsOnce
  <2>2. a % SeqSpace = a
    BY <1>0, WrapsOnce
  <2>3. (PeerIss + 1 + a) - PeerIss - 1 = a
    BY <1>0
  <2> QED BY <1>1, <2>1, <2>2, <2>3 DEF At, Plus, Offset
<1>2. CASE ~(PeerIss + 1 + a < SeqSpace)
  <2>1. /\ PeerIss + 1 + a - SeqSpace \in 0 .. SeqSpace - 1
        /\ (PeerIss + 1 + a - SeqSpace) + SeqSpace = PeerIss + 1 + a
        /\ a \in 0 .. SeqSpace - 1
    BY <1>0, <1>2
  <2>2. (PeerIss + 1 + a) % SeqSpace = PeerIss + 1 + a - SeqSpace
    BY <1>0, <2>1, WrapsOnce
  <2>3. (a - SeqSpace) % SeqSpace = a
    BY <1>0, <2>1, WrapsOnce
  <2>4. (PeerIss + 1 + a - SeqSpace) - PeerIss - 1 = a - SeqSpace
    BY <1>0
  <2> QED BY <1>2, <2>2, <2>3, <2>4 DEF At, Plus, Offset
<1> QED BY <1>1, <1>2

(* Bytes that follow move the sequence number on, around its end, too. *)
LEMMA AtMoves ==
  ASSUME NEW a \in 0 .. N, NEW b \in 0 .. N, a + b <= N
  PROVE  Plus(At(a), b) = At(a + b)
<1>0. /\ SeqSpace \in Nat \ {0} /\ PeerIss \in 0 .. SeqSpace - 1
      /\ N \in Nat /\ N + 2 < SeqSpace /\ a + b \in 0 .. N + 1 /\ a \in 0 .. N + 1
  BY TcpSizes
<1>1. CASE PeerIss + 1 + a < SeqSpace
  <2>1. At(a) = PeerIss + 1 + a /\ (PeerIss + 1 + a) + b = PeerIss + 1 + (a + b)
    BY <1>0, <1>1, AtIs
  <2> QED BY <2>1 DEF Plus, At
<1>2. CASE ~(PeerIss + 1 + a < SeqSpace)
  <2>1. At(a) = PeerIss + 1 + a - SeqSpace /\ At(a + b) = PeerIss + 1 + a + b - SeqSpace
    BY <1>0, <1>2, AtIs
  <2>2. At(a) + b = PeerIss + 1 + a + b - SeqSpace /\ At(a) + b \in 0 .. SeqSpace - 1
    BY <1>0, <1>2, <2>1
  <2> QED BY <1>0, <2>1, <2>2, WrapsOnce DEF Plus
<1> QED BY <1>1, <1>2

--------------------------------------------------------------------------------
(* Sequences. *)

LEMMA MinOfTwo ==
  ASSUME NEW a \in Int, NEW b \in Int PROVE Min({a, b}) = IF a <= b THEN a ELSE b
  BY DEF Min

LEMMA MaxOfTwo ==
  ASSUME NEW a \in Int, NEW b \in Int PROVE Max({a, b}) = IF a >= b THEN a ELSE b
  BY DEF Max

LEMMA SubSeqIs ==
  ASSUME NEW S, NEW q \in Seq(S), NEW m \in 1 .. Len(q) + 1, NEW n \in 0 .. Len(q)
  PROVE  /\ SubSeq(q, m, n) \in Seq(S)
         /\ Len(SubSeq(q, m, n)) = IF m <= n THEN n - m + 1 ELSE 0
         /\ \A i \in 1 .. Len(SubSeq(q, m, n)) : SubSeq(q, m, n)[i] = q[m + i - 1]
  BY SubSeqProperties, ElementOfSeq

LEMMA ConcatIs ==
  ASSUME NEW S, NEW s \in Seq(S), NEW t \in Seq(S)
  PROVE  /\ s \o t \in Seq(S)
         /\ Len(s \o t) = Len(s) + Len(t)
         /\ \A i \in 1 .. Len(s) : (s \o t)[i] = s[i]
         /\ \A i \in Len(s) + 1 .. Len(s) + Len(t) : (s \o t)[i] = t[i - Len(s)]
  BY ConcatProperties

LEMMA ConcatIsAssociative ==
  ASSUME NEW S, NEW s \in Seq(S), NEW t \in Seq(S), NEW u \in Seq(S)
  PROVE  (s \o t) \o u = s \o (t \o u)
  BY ConcatAssociative, SMTT(30)

LEMMA FirstPart ==
  ASSUME NEW S, NEW s \in Seq(S), NEW t \in Seq(S)
  PROVE  /\ Len(s) \in Nat /\ Len(s \o t) \in Nat /\ Len(s) <= Len(s \o t)
         /\ \A k \in 1 .. Len(s) : s[k] = (s \o t)[k]
<1>1. Len(s) \in Nat /\ Len(t) \in Nat
  OBVIOUS
<1> DEFINE st == s \o t
<1>2. Len(st) = Len(s) + Len(t) /\ \A i \in 1 .. Len(s) : st[i] = s[i]
  BY ConcatIs
<1> HIDE DEF st
<1>3. Len(st) \in Nat /\ Len(s) <= Len(st) /\ \A k \in 1 .. Len(s) : s[k] = st[k]
  BY <1>1, <1>2
<1> QED BY <1>1, <1>3 DEF st

LEMMA Removed ==
  ASSUME NEW S, NEW q \in Seq(S), NEW i \in DOMAIN q
  PROVE  /\ RemoveAt(q, i) \in Seq(S)
         /\ \A j \in DOMAIN RemoveAt(q, i) : \E k \in DOMAIN q : RemoveAt(q, i)[j] = q[k]
<1>0. i \in 1 .. Len(q) /\ Len(q) \in Nat
  OBVIOUS
<1> DEFINE before == SubSeq(q, 1, i - 1)
           after == SubSeq(q, i + 1, Len(q))
<1>1. /\ before \in Seq(S) /\ Len(before) = i - 1
      /\ \A j \in 1 .. Len(before) : before[j] = q[j]
  BY <1>0, SubSeqIs
<1>2. /\ after \in Seq(S) /\ Len(after) = Len(q) - i
      /\ \A j \in 1 .. Len(after) : after[j] = q[i + j]
  BY <1>0, SubSeqIs, SMTT(30)
<1> HIDE DEF before, after
<1>3. /\ before \o after \in Seq(S)
      /\ Len(before \o after) = Len(q) - 1
      /\ \A j \in 1 .. Len(q) - 1 : (before \o after)[j] = IF j < i THEN q[j] ELSE q[j + 1]
  <2>1. /\ before \o after \in Seq(S)
        /\ Len(before \o after) = Len(before) + Len(after)
        /\ \A j \in 1 .. Len(before) : (before \o after)[j] = before[j]
        /\ \A j \in Len(before) + 1 .. Len(before) + Len(after) :
             (before \o after)[j] = after[j - Len(before)]
    BY <1>1, <1>2, ConcatIs, ZenonT(60)
  <2>2. ASSUME NEW j \in 1 .. Len(q) - 1, j < i PROVE (before \o after)[j] = q[j]
    BY <1>0, <1>1, <2>1, <2>2
  <2>3. ASSUME NEW j \in 1 .. Len(q) - 1, ~(j < i) PROVE (before \o after)[j] = q[j + 1]
    <3>1. j \in Len(before) + 1 .. Len(before) + Len(after) /\ j - Len(before) \in 1 .. Len(after)
      BY <1>0, <1>1, <1>2, <2>3, SMTT(30)
    <3>2. (before \o after)[j] = q[i + (j - Len(before))]
      BY <1>2, <2>1, <3>1
    <3>3. i + (j - Len(before)) = j + 1
      BY <1>0, <1>1
    <3> QED BY <3>2, <3>3
  <2>4. Len(before) + Len(after) = Len(q) - 1
    BY <1>0, <1>1, <1>2
  <2>5. \A j \in 1 .. Len(q) - 1 : (before \o after)[j] = IF j < i THEN q[j] ELSE q[j + 1]
    BY <2>2, <2>3
  <2> QED BY <2>1, <2>4, <2>5
<1>4. RemoveAt(q, i) = before \o after
  BY DEF RemoveAt, before, after
<1>5. \A j \in 1 .. Len(q) - 1 : j \in DOMAIN q /\ j + 1 \in DOMAIN q
  BY <1>0
<1>6. DOMAIN RemoveAt(q, i) = 1 .. Len(q) - 1
  BY <1>0, <1>3, <1>4
<1> QED BY <1>3, <1>4, <1>5, <1>6

(* A buffer read in two parts. *)
LEMMA TakeAndRest ==
  ASSUME NEW S, NEW t \in Seq(S), NEW r \in Seq(S), NEW m \in 0 .. Len(r)
  PROVE  (t \o SubSeq(r, 1, m)) \o SubSeq(r, m + 1, Len(r)) = t \o r
<1>1. /\ SubSeq(r, 1, m) \in Seq(S) /\ SubSeq(r, m + 1, Len(r)) \in Seq(S)
      /\ Len(r) \in Nat
  BY SubSeqIs
<1> DEFINE a == SubSeq(r, 1, m)
           b == SubSeq(r, m + 1, Len(r))
<1>2. (t \o SubSeq(r, 1, m)) \o SubSeq(r, m + 1, Len(r))
        = t \o (SubSeq(r, 1, m) \o SubSeq(r, m + 1, Len(r)))
  <2>1. a \in Seq(S) /\ b \in Seq(S)
    BY <1>1
  <2> HIDE DEF a, b
  <2>2. (t \o a) \o b = t \o (a \o b)
    BY <2>1, ConcatAssociative, SMTT(30)
  <2> QED BY <2>2 DEF a, b
<1>3. SubSeq(r, 1, m) \o SubSeq(r, m + 1, Len(r)) = SubSeq(r, 1, Len(r))
  <2>1. /\ 1 \in 1 .. Len(r) + 1 /\ m \in 1 - 1 .. Len(r) /\ Len(r) \in m .. Len(r)
    BY <1>1
  <2> QED BY <2>1, ConcatAdjacentSubSeq, Zenon
<1> QED BY <1>2, <1>3, SubSeqFull

LEMMA PrefixIs ==
  ASSUME NEW S, NEW s \in Seq(S), NEW t \in Seq(S)
  PROVE  IsPrefix(s, t) <=> Len(s) <= Len(t) /\ \A i \in 1 .. Len(s) : s[i] = t[i]
<1>1. SubSeq(s, 1, Len(s)) = s /\ Len(s) \in Nat /\ Len(t) \in Nat
  BY SubSeqFull
<1>2. ASSUME Len(s) <= Len(t)
      PROVE  SubSeq(t, 1, Len(s)) = s <=> \A i \in 1 .. Len(s) : s[i] = t[i]
  <2>1. /\ SubSeq(t, 1, Len(s)) \in Seq(S) /\ Len(SubSeq(t, 1, Len(s))) = Len(s)
        /\ \A i \in 1 .. Len(s) : SubSeq(t, 1, Len(s))[i] = t[i]
    BY <1>1, <1>2, SubSeqIs
  <2> HIDE <1>2
  <2>2. ASSUME \A i \in 1 .. Len(s) : s[i] = t[i] PROVE SubSeq(t, 1, Len(s)) = s
    BY <2>1, <2>2, SeqEqual
  <2> QED BY <2>1, <2>2
<1> QED BY <1>1, <1>2 DEF IsPrefix

--------------------------------------------------------------------------------
(* Types. *)

Flag == {"SYN", "ACK", "PSH", "FIN", "RST"}
Outgoing == [conn : Conn, flags : SUBSET Flag, seq : SeqNo, ack : SeqNo, len : {0, 1}]
Incoming == [conn : Conn, flags : SUBSET Flag, seq : SeqNo, data : Seq(Byte)]
Socket == [in_use : BOOLEAN, state : State, conn : Conn \cup {0},
           snd : SeqNo, rcv : SeqNo, rx : Seq(Byte)]
Server == [st : {"listen", "syn_rcvd", "est", "gone"}, rcv : SeqNo, una : 0 .. N + 1,
           nxt : 0 .. N + 1, req : BOOLEAN]

(* The socket is that of the connection opened last, and free when it is closed. *)
SockTypes == /\ sock \in Socket
             /\ Len(sock.rx) <= RxCap
             /\ sock.conn = opened
             /\ sock.in_use <=> sock.state # "CLOSED"
             /\ opened = 0 => sock.rx = << >> /\ sock.state = "CLOSED"
OtherTypes == /\ opened \in 0 .. MaxConn
              /\ peer \in [Conn -> Server]
              /\ \A c \in Conn : peer[c].una <= peer[c].nxt
              /\ taken \in [Conn -> Seq(Byte)]
              /\ cut \subseteq Conn
Types == SockTypes /\ OtherTypes /\ out \in Seq(Outgoing) /\ wire \in Seq(Incoming)

(* Any step of the client, its network and the server: tcp_send and tcp_recv are
   called as an application likes. *)
Step == \/ Open \/ TcpSend \/ (\E maxlen \in Nat \ {0} : TcpRecv(maxlen)) \/ TcpClose
        \/ TcpOnRx \/ Environment \/ UNCHANGED vars

LEMMA NextSteps == [Next]_vars => Step
<1>1. 1 .. RxCap \subseteq Nat \ {0}
  BY TcpSizes
<1> QED BY <1>1 DEF Next, Application, Step

LEMMA ZeroIsSeqNo == 0 \in SeqNo /\ PeerIss \in SeqNo /\ SeqNo \subseteq Int
  BY TcpSizes DEF SeqNo

LEMMA TypesInitially == Init => Types
<1> SUFFICES ASSUME Init PROVE Types
  OBVIOUS
<1>1. 0 \in 0 .. MaxConn /\ 0 \in 0 .. N + 1 /\ 0 <= RxCap
  BY TcpSizes
<1>2. sock \in Socket
  BY ZeroIsSeqNo DEF Init, NoSock, Socket, State
<1>3. peer \in [Conn -> Server]
  BY ZeroIsSeqNo, <1>1 DEF Init, Server
<1>4. taken \in [Conn -> Seq(Byte)]
  BY DEF Init
<1> QED BY <1>1, <1>2, <1>3, <1>4 DEF Init, NoSock, Types, SockTypes, OtherTypes

(* tcp_send_segment. *)
LEMMA SegmentType ==
  ASSUME NEW s \in Socket, s.conn \in Conn, NEW flags \in SUBSET Flag, NEW n \in {0, 1}
  PROVE  Segment(s, flags, n) \in Outgoing
  BY DEF Segment, Outgoing, Socket

LEMMA OpenTypes == Types /\ Open => Types'
<1> SUFFICES ASSUME Types, Open PROVE Types'
  OBVIOUS
<1> DEFINE s == NewSock(opened + 1)
<1>1. opened + 1 \in Conn /\ opened + 1 \in 0 .. MaxConn /\ opened + 1 # 0
  BY TcpSizes, SMTT(30) DEF Types, OtherTypes, Open, Conn
<1>2. Iss(opened + 1) \in SeqNo
  <2>1. (opened + 1) * IssStep \in Int /\ SeqSpace \in Nat \ {0}
    BY <1>1, TcpSizes
  <2> QED BY <2>1, Wraps DEF Iss, SeqNo
<1>3. s \in Socket /\ s.conn = opened + 1 /\ s.rx = << >> /\ s.in_use /\ s.state = "SYN_SENT"
  <2>1. << >> \in Seq(Byte) /\ "SYN_SENT" \in State /\ opened + 1 \in Conn \cup {0}
    BY <1>1 DEF State
  <2> QED BY <1>2, <2>1, ZeroIsSeqNo DEF NewSock, Socket
<1> HIDE DEF s
<1>4. Plus(s.snd, 1) \in SeqNo
  BY <1>3, PlusSeqNo DEF Socket
<1>5. Segment(s, {"SYN"}, 0) \in Outgoing
  BY <1>1, <1>3, SegmentType DEF Flag
<1>6. sock' = [s EXCEPT !.snd = Plus(@, 1)] /\ opened' = opened + 1
  BY DEF Open, s
<1>7. SockTypes'
  <2>1. /\ sock' \in Socket /\ sock'.conn = opened + 1 /\ sock'.rx = << >>
        /\ sock'.in_use /\ sock'.state = "SYN_SENT"
    BY <1>3, <1>4, <1>6 DEF Socket
  <2>2. Len(sock'.rx) <= RxCap
    BY <2>1, TcpSizes
  <2> QED BY <1>1, <1>6, <2>1, <2>2 DEF SockTypes
<1>8. out' \in Seq(Outgoing) /\ wire' \in Seq(Incoming)
  BY <1>5 DEF Open, Types, s
<1>9. OtherTypes'
  BY <1>1, <1>6 DEF Open, Types, OtherTypes
<1> QED BY <1>7, <1>8, <1>9 DEF Types

LEMMA SendTypes == Types /\ TcpSend => Types'
<1> SUFFICES ASSUME Types, TcpSend PROVE Types'
  OBVIOUS
<1>1. opened \in Conn /\ sock.conn \in Conn
  BY DEF Types, OtherTypes, SockTypes, TcpSend, Conn
<1>2. Segment(sock, {"PSH", "ACK"}, 1) \in Outgoing
  BY <1>1, SegmentType DEF Flag, Types, SockTypes
<1>3. Plus(sock.snd, 1) \in SeqNo
  BY PlusSeqNo DEF Types, SockTypes, Socket
<1>4. SockTypes'
  BY <1>3 DEF TcpSend, Types, SockTypes, Socket
<1> QED BY <1>2, <1>4 DEF TcpSend, Types, OtherTypes

(* tcp_recv: what it returns and what it keeps. *)
LEMMA ReturnedIs ==
  ASSUME Types, sock.rx # << >>, NEW maxlen \in Nat \ {0}
  PROVE  \E m \in 1 .. Len(sock.rx) :
           /\ Returned(maxlen) = SubSeq(sock.rx, 1, m)
           /\ Returned(maxlen) \in Seq(Byte) /\ Len(Returned(maxlen)) = m
<1>1. sock.rx \in Seq(Byte) /\ Len(sock.rx) \in Nat \ {0}
  BY EmptySeq DEF Types, SockTypes, Socket
<1>2. PICK m \in 1 .. Len(sock.rx) : m = Min({maxlen, Len(sock.rx)})
  BY <1>1, MinOfTwo
<1>3. SubSeq(sock.rx, 1, m) \in Seq(Byte) /\ Len(SubSeq(sock.rx, 1, m)) = m
  BY <1>1, SubSeqIs
<1> QED BY <1>2, <1>3 DEF Returned

LEMMA RecvTypes == ASSUME Types, NEW maxlen \in Nat \ {0}, TcpRecv(maxlen) PROVE Types'
<1>1. sock.rx # << >> /\ sock.rx \in Seq(Byte) /\ sock.conn \in Conn
  BY DEF TcpRecv, Types, SockTypes, Socket, OtherTypes, Conn
<1>2. PICK m \in 1 .. Len(sock.rx) :
        Returned(maxlen) \in Seq(Byte) /\ Len(Returned(maxlen)) = m
  BY <1>1, ReturnedIs
<1>3. /\ SubSeq(sock.rx, m + 1, Len(sock.rx)) \in Seq(Byte)
      /\ Len(SubSeq(sock.rx, m + 1, Len(sock.rx))) <= Len(sock.rx)
  BY <1>1, SubSeqIs
<1>4. sock' = [sock EXCEPT !.rx = SubSeq(sock.rx, m + 1, Len(sock.rx))]
  BY <1>2 DEF TcpRecv
<1>5. SockTypes'
  <2>1. sock' \in Socket
    BY <1>3, <1>4 DEF Types, SockTypes, Socket
  <2>2. /\ sock'.in_use = sock.in_use /\ sock'.state = sock.state /\ sock'.conn = sock.conn
        /\ sock'.rx = SubSeq(sock.rx, m + 1, Len(sock.rx)) /\ opened' = opened /\ opened # 0
    BY <1>1, <1>4 DEF TcpRecv, Types, SockTypes, Socket
  <2>3. Len(sock'.rx) <= RxCap
    BY <1>1, <1>3, <2>2, TcpSizes DEF Types, SockTypes
  <2> QED BY <2>1, <2>2, <2>3 DEF Types, SockTypes
<1>6. taken' \in [Conn -> Seq(Byte)]
  <2>1. taken[sock.conn] \o Returned(maxlen) \in Seq(Byte)
    BY <1>1, <1>2, ConcatProperties DEF Types, OtherTypes
  <2> QED BY <1>1, <2>1 DEF TcpRecv, Types, OtherTypes
<1> QED BY <1>5, <1>6 DEF TcpRecv, Types, OtherTypes

LEMMA CloseTypes == Types /\ TcpClose => Types'
<1> SUFFICES ASSUME Types, TcpClose PROVE Types'
  OBVIOUS
<1>1. sock.conn \in Conn
  BY DEF Types, OtherTypes, SockTypes, TcpClose, Conn
<1>2. Segment(sock, {"FIN", "ACK"}, 0) \in Outgoing
  BY <1>1, SegmentType DEF Flag, Types, SockTypes
<1>3. Plus(sock.snd, 1) \in SeqNo
  BY PlusSeqNo DEF Types, SockTypes, Socket
<1>4. SockTypes'
  <2>1. sock.state = "ESTABLISHED" => SockTypes'
    BY <1>3 DEF TcpClose, Closed, Types, SockTypes, Socket, State
  <2>2. sock.state # "ESTABLISHED" => SockTypes'
    BY DEF TcpClose, Closed, Types, SockTypes, Socket, State
  <2> QED BY <2>1, <2>2
<1> QED BY <1>2, <1>4 DEF TcpClose, Types, OtherTypes

--------------------------------------------------------------------------------
(* What tcp_on_rx does with a segment keeps the types. *)

(* rx_data_into_buf. *)
LEMMA KeptIs ==
  ASSUME Types, NEW data \in Seq(Byte)
  PROVE  /\ Kept(data) \in Seq(Byte)
         /\ Len(Kept(data)) <= Len(data) /\ Len(sock.rx) + Len(Kept(data)) <= RxCap
         /\ \A k \in 1 .. Len(Kept(data)) : Kept(data)[k] = data[k]
         /\ Len(sock.rx) + Len(data) <= RxCap => Kept(data) = data
<1>1. Len(sock.rx) \in Nat /\ Len(data) \in Nat /\ RxCap \in Nat /\ Len(sock.rx) <= RxCap
  BY TcpSizes DEF Types, SockTypes, Socket
<1>2. PICK m \in 0 .. Len(data) :
        /\ m = Min({Len(data), RxCap - Len(sock.rx)})
        /\ m <= Len(data) /\ Len(sock.rx) + m <= RxCap
        /\ Len(sock.rx) + Len(data) <= RxCap => m = Len(data)
  BY <1>1, MinOfTwo
<1>3. /\ SubSeq(data, 1, m) \in Seq(Byte) /\ Len(SubSeq(data, 1, m)) = m
      /\ \A k \in 1 .. m : SubSeq(data, 1, m)[k] = data[k]
  BY <1>1, SubSeqIs
<1>4. Kept(data) = SubSeq(data, 1, m)
  BY <1>2 DEF Kept
<1> QED BY <1>2, <1>3, <1>4, SubSeqFull

(* The socket after the data of a segment. *)
LEMMA WithDataIs ==
  ASSUME Types, NEW seg \in Incoming
  PROVE  /\ WithData(seg) \in Socket
         /\ WithData(seg).in_use = sock.in_use /\ WithData(seg).state = sock.state
         /\ WithData(seg).conn = sock.conn /\ WithData(seg).snd = sock.snd
         /\ Len(WithData(seg).rx) <= RxCap
         /\ ~InOrder(seg) => WithData(seg) = sock
         /\ InOrder(seg) => /\ WithData(seg).rx = sock.rx \o Kept(seg.data)
                            /\ WithData(seg).rcv = Plus(sock.rcv, Len(seg.data))
<1>1. seg.data \in Seq(Byte) /\ sock \in Socket /\ sock.rx \in Seq(Byte) /\ Len(sock.rx) <= RxCap
  BY DEF Incoming, Types, SockTypes, Socket
<1>2. Kept(seg.data) \in Seq(Byte) /\ Len(sock.rx) + Len(Kept(seg.data)) <= RxCap
  BY <1>1, KeptIs
<1>3. /\ sock.rx \o Kept(seg.data) \in Seq(Byte)
      /\ Len(sock.rx \o Kept(seg.data)) <= RxCap
  BY <1>1, <1>2, ConcatProperties
<1>4. Plus(sock.rcv, Len(seg.data)) \in SeqNo
  BY <1>1, PlusSeqNo DEF Socket
<1> QED BY <1>1, <1>3, <1>4 DEF WithData, Socket

(* What each branch of tcp_on_rx leaves behind. *)
RxTypes == SockTypes' /\ out' \in Seq(Outgoing) /\ cut' \subseteq Conn

LEMMA ForUsIs == ASSUME Types, NEW seg \in Incoming, ForUs(seg)
                 PROVE  sock.conn \in Conn /\ sock.conn = seg.conn /\ sock.in_use /\ opened # 0
  BY DEF ForUs, Incoming, Types, SockTypes, Conn

LEMMA ResetTypes ==
  ASSUME Types, NEW seg \in Incoming, RxReset(seg), opened' = opened PROVE RxTypes
<1>1. SockTypes'
  BY ForUsIs DEF RxReset, Types, SockTypes, Socket, State
<1> QED BY <1>1 DEF RxReset, RxTypes, Types, OtherTypes

LEMMA SynAckTypes ==
  ASSUME Types, NEW seg \in Incoming, RxSynAck(seg), opened' = opened PROVE RxTypes
<1> DEFINE s == [sock EXCEPT !.rcv = Plus(seg.seq, 1)]
<1>1. sock.conn \in Conn /\ sock.in_use /\ opened # 0
  BY ForUsIs DEF RxSynAck
<1>2. Plus(seg.seq, 1) \in SeqNo
  BY PlusSeqNo DEF Incoming
<1>3. s \in Socket /\ s.conn \in Conn
  BY <1>1, <1>2 DEF Types, SockTypes, Socket
<1>4. Segment(s, {"ACK"}, 0) \in Outgoing
  BY <1>3, SegmentType DEF Flag
<1>5. SockTypes'
  BY <1>1, <1>2 DEF RxSynAck, Types, SockTypes, Socket, State
<1> QED BY <1>4, <1>5 DEF RxSynAck, RxTypes, Types, OtherTypes

LEMMA EstablishedTypes ==
  ASSUME Types, NEW seg \in Incoming, RxEstablished(seg), opened' = opened PROVE RxTypes
<1> DEFINE s == WithData(seg)
           f == [s EXCEPT !.rcv = Plus(@, 1)]
           acks == IF InOrder(seg) THEN <<Segment(s, {"ACK"}, 0)>> ELSE << >>
<1>1. sock.conn \in Conn /\ sock.in_use /\ opened # 0
  BY ForUsIs DEF RxEstablished
<1>2. /\ s \in Socket /\ s.conn = sock.conn /\ s.in_use /\ s.state = "ESTABLISHED"
      /\ Len(s.rx) <= RxCap
  BY <1>1, WithDataIs DEF RxEstablished
<1>3. Segment(s, {"ACK"}, 0) \in Outgoing
  BY <1>1, <1>2, SegmentType DEF Flag
<1>4. acks \in Seq(Outgoing)
  BY <1>3
<1> HIDE DEF s
<1>5. Plus(s.rcv, 1) \in SeqNo /\ Plus(s.snd, 1) \in SeqNo
  BY <1>2, PlusSeqNo DEF Socket
<1>6. f \in Socket /\ f.conn = sock.conn
  BY <1>2, <1>5 DEF Socket
<1>7. Segment(f, {"ACK"}, 0) \in Outgoing /\ Segment(f, {"FIN", "ACK"}, 0) \in Outgoing
  BY <1>1, <1>6, SegmentType DEF Flag
<1>8. out' \in Seq(Outgoing)
  <2> DEFINE two == <<Segment(f, {"ACK"}, 0), Segment(f, {"FIN", "ACK"}, 0)>>
  <2>1. two \in Seq(Outgoing)
    BY <1>7
  <2>2. out' = out \o acks \/ out' = (out \o acks) \o two
    BY DEF RxEstablished, s
  <2> HIDE DEF acks, two
  <2>3. out \o acks \in Seq(Outgoing)
    BY <1>4, ConcatProperties DEF Types
  <2>4. (out \o acks) \o two \in Seq(Outgoing)
    BY <2>1, <2>3, ConcatProperties
  <2> QED BY <2>2, <2>3, <2>4
<1>9. SockTypes'
  <2>1. sock' = s \/ sock' = [f EXCEPT !.snd = Plus(@, 1), !.state = "FIN_WAIT1"]
    BY DEF RxEstablished, s
  <2>2. CASE sock' = s
    BY <1>1, <1>2, <2>2 DEF Types, SockTypes
  <2>3. CASE sock' = [f EXCEPT !.snd = Plus(@, 1), !.state = "FIN_WAIT1"]
    BY <1>1, <1>2, <1>5, <2>3 DEF Types, SockTypes, Socket, State
  <2> QED BY <2>1, <2>2, <2>3
<1>10. cut' \subseteq Conn
  BY <1>1 DEF RxEstablished, Types, OtherTypes
<1> QED BY <1>8, <1>9, <1>10 DEF RxTypes

LEMMA FinWaitTypes ==
  ASSUME Types, NEW seg \in Incoming, RxFinWait1(seg) \/ RxFinWait2(seg), opened' = opened
  PROVE  RxTypes
<1>1. sock.conn \in Conn /\ sock.in_use /\ opened # 0
  BY ForUsIs DEF RxFinWait1, RxFinWait2
<1>2. CASE RxFinWait1(seg)
  <2>1. SockTypes'
    BY <1>1, <1>2 DEF RxFinWait1, Types, SockTypes, Socket, State
  <2> QED BY <1>2, <2>1 DEF RxFinWait1, RxTypes, Types, OtherTypes
<1>3. CASE RxFinWait2(seg)
  <2> DEFINE s == [sock EXCEPT !.rcv = Plus(@, 1)]
  <2>1. Plus(sock.rcv, 1) \in SeqNo
    BY PlusSeqNo DEF Types, SockTypes, Socket
  <2>2. s \in Socket /\ s.conn \in Conn
    BY <1>1, <2>1 DEF Types, SockTypes, Socket
  <2>3. Segment(s, {"ACK"}, 0) \in Outgoing
    BY <2>2, SegmentType DEF Flag
  <2>4. SockTypes'
    BY <1>1, <1>3, <2>1 DEF RxFinWait2, Types, SockTypes, Socket, State
  <2> QED BY <1>3, <2>3, <2>4 DEF RxFinWait2, RxTypes, Types, OtherTypes
<1> QED BY <1>2, <1>3

LEMMA IgnoredTypes ==
  ASSUME Types, NEW seg \in Incoming, RxIgnored(seg), opened' = opened PROVE RxTypes
  BY DEF RxIgnored, RxTypes, Types, SockTypes, OtherTypes

Handled(seg) == \/ RxReset(seg)    \/ RxSynAck(seg)   \/ RxEstablished(seg)
                \/ RxFinWait1(seg) \/ RxFinWait2(seg) \/ RxIgnored(seg)

(* The segment that tcp_on_rx is called with came from the server. *)
LEMMA OnRxSegment ==
  Types /\ TcpOnRx =>
    /\ \E i \in DOMAIN wire : Handled(wire[i]) /\ wire[i] \in Incoming
    /\ wire' \in Seq(Incoming)
    /\ \A j \in DOMAIN wire' : \E k \in DOMAIN wire : wire'[j] = wire[k]
    /\ UNCHANGED <<opened, peer, taken>>
<1> SUFFICES ASSUME Types, TcpOnRx
             PROVE  /\ \E i \in DOMAIN wire : Handled(wire[i]) /\ wire[i] \in Incoming
                    /\ wire' \in Seq(Incoming)
                    /\ \A j \in DOMAIN wire' : \E k \in DOMAIN wire : wire'[j] = wire[k]
                    /\ UNCHANGED <<opened, peer, taken>>
  OBVIOUS
<1>1. PICK i \in DOMAIN wire : Handled(wire[i]) /\ wire' = RemoveAt(wire, i)
  BY DEF TcpOnRx, Next1, Handled
<1>2. wire \in Seq(Incoming)
  BY DEF Types
<1>3. wire[i] \in Incoming
  BY <1>2
<1>4. /\ wire' \in Seq(Incoming)
      /\ \A j \in DOMAIN wire' : \E k \in DOMAIN wire : wire'[j] = wire[k]
  BY <1>1, <1>2, Removed
<1>5. UNCHANGED <<opened, peer, taken>>
  BY DEF TcpOnRx
<1> QED BY <1>1, <1>3, <1>4, <1>5

LEMMA OnRxTypes == Types /\ TcpOnRx => Types'
<1> SUFFICES ASSUME Types, TcpOnRx PROVE Types'
  OBVIOUS
<1>1. PICK i \in DOMAIN wire : Handled(wire[i]) /\ wire[i] \in Incoming
  BY OnRxSegment
<1>2. wire' \in Seq(Incoming) /\ UNCHANGED <<opened, peer, taken>>
  BY OnRxSegment
<1>3. RxTypes
  BY <1>1, <1>2, ResetTypes, SynAckTypes, EstablishedTypes, FinWaitTypes, IgnoredTypes DEF Handled
<1> QED BY <1>2, <1>3 DEF RxTypes, Types, OtherTypes

--------------------------------------------------------------------------------
(* The server and the network keep the types. *)

LEMMA AnswerType ==
  ASSUME NEW c \in Conn, NEW flags \in SUBSET Flag, NEW off \in Nat, NEW data \in Seq(Byte)
  PROVE  Answer(c, flags, off, data) \in Incoming
<1>1. Plus(PeerIss + 1, off) \in SeqNo
  <2>1. PeerIss + 1 + off \in Int /\ SeqSpace \in Nat \ {0}
    BY TcpSizes
  <2> QED BY <2>1, Wraps DEF Plus, SeqNo
<1> QED BY <1>1 DEF Answer, Incoming

LEMMA EmptyType ==
  /\ \A c \in Conn : SynAck(c) \in Incoming
  /\ \A c \in Conn, flags \in SUBSET Flag, off \in Nat : Answer(c, flags, off, << >>) \in Incoming
<1>1. {"SYN", "ACK"} \in SUBSET Flag /\ << >> \in Seq(Byte)
  BY DEF Flag
<1>2. \A c \in Conn : SynAck(c) \in Incoming
  BY <1>1, ZeroIsSeqNo DEF SynAck, Incoming
<1> QED BY <1>1, <1>2, AnswerType

(* The server counts up what it sent. *)
LEMMA NxtGrows ==
  ASSUME Types, NEW c \in Conn, NEW end \in 0 .. N + 1, peer[c].nxt <= end,
         peer' = [peer EXCEPT ![c].nxt = end], UNCHANGED <<opened, taken, cut>>
  PROVE  OtherTypes'
<1>1. /\ peer \in [Conn -> Server] /\ peer[c].una \in Nat /\ peer[c].nxt \in Nat /\ end \in Nat
      /\ peer[c].una <= peer[c].nxt
  <2>1. peer \in [Conn -> Server] /\ peer[c] \in Server /\ peer[c].una <= peer[c].nxt
    BY DEF Types, OtherTypes
  <2>2. N \in Nat /\ 0 .. N + 1 \subseteq Nat
    BY TcpSizes
  <2>3. peer[c].una \in 0 .. N + 1 /\ peer[c].nxt \in 0 .. N + 1
    BY <2>1 DEF Server
  <2> QED BY <2>1, <2>2, <2>3
<1>2. peer[c].una <= end
  BY <1>1
<1>3. [peer[c] EXCEPT !.nxt = end] \in Server
  BY <1>1 DEF Server
<1>4. /\ peer' \in [Conn -> Server]
      /\ \A d \in Conn : peer'[d] = IF d = c THEN [peer[c] EXCEPT !.nxt = end] ELSE peer[d]
  BY <1>1, <1>3
<1>5. /\ [peer[c] EXCEPT !.nxt = end].una = peer[c].una
      /\ [peer[c] EXCEPT !.nxt = end].nxt = end
  BY <1>1 DEF Server
<1>6. \A d \in Conn : peer'[d].una <= peer'[d].nxt
  BY <1>2, <1>4, <1>5 DEF Types, OtherTypes
<1> QED BY <1>4, <1>6 DEF Types, OtherTypes

(* The bytes of a segment of the server. *)
LEMMA PieceType ==
  ASSUME NEW c \in Conn, NEW o \in Nat, NEW n \in Nat, o + n <= N
  PROVE  /\ [k \in 1 .. n |-> <<c, o + k>>] \in Seq(Byte)
         /\ Len([k \in 1 .. n |-> <<c, o + k>>]) = n
<1>1. \A k \in 1 .. n : <<c, o + k>> \in Byte
  BY TcpSizes DEF Byte
<1> QED BY <1>1

LEMMA PeerRxTypes == Types /\ PeerRx => Types'
<1> SUFFICES ASSUME Types, PeerRx PROVE Types'
  OBVIOUS
<1>1. PICK i \in DOMAIN out :
        LET seg == out[i]
            c == seg.conn
            p == peer[c]
            off == Offset(seg.ack)
            size == seg.len + IF "FIN" \in seg.flags THEN 1 ELSE 0
            next == seg.seq = p.rcv /\ size > 0
        IN /\ out' = RemoveAt(out, i)
           /\ \/ /\ peer' = [peer EXCEPT ![c].st = "syn_rcvd", ![c].rcv = Plus(seg.seq, 1)]
                 /\ wire' = Append(wire, SynAck(c))
              \/ /\ p.st \in {"syn_rcvd", "est"} /\ off \in 0 .. p.nxt
                 /\ peer' = [peer EXCEPT
                      ![c].st = "est",
                      ![c].una = Max({@, off}),
                      ![c].rcv = IF next THEN Plus(@, size) ELSE @,
                      ![c].req = @ \/ (next /\ seg.len > 0)]
                 /\ wire' \in {Append(wire, Answer(c, {"ACK"}, p.nxt, << >>)), wire}
              \/ UNCHANGED <<peer, wire>>
  BY ZenonT(60) DEF PeerRx, Next1
<1> DEFINE seg == out[i]
           c == seg.conn
           p == peer[c]
           off == Offset(seg.ack)
           size == seg.len + IF "FIN" \in seg.flags THEN 1 ELSE 0
           next == seg.seq = p.rcv /\ size > 0
<1>2. seg \in Outgoing /\ c \in Conn /\ p \in Server /\ p.una <= p.nxt
  <2>1. seg \in Outgoing
    BY DEF Types
  <2> QED BY <2>1 DEF Types, OtherTypes, Outgoing
<1>3. out' \in Seq(Outgoing)
  BY <1>1, Removed DEF Types
<1>4. UNCHANGED <<sock, opened, taken, cut>>
  BY DEF PeerRx
<1>5. /\ SynAck(c) \in Incoming /\ Answer(c, {"ACK"}, p.nxt, << >>) \in Incoming
      /\ Plus(seg.seq, 1) \in SeqNo /\ Plus(p.rcv, size) \in SeqNo
  <2>1. size \in Nat /\ << >> \in Seq(Byte) /\ {"ACK"} \in SUBSET Flag /\ p.nxt \in Nat
    BY <1>2, TcpSizes DEF Outgoing, Flag, Server
  <2>2. p.rcv \in SeqNo /\ seg.seq \in SeqNo
    BY <1>2 DEF Server, Outgoing
  <2> QED BY <1>2, <2>1, <2>2, EmptyType, PlusSeqNo
<1>6. CASE /\ peer' = [peer EXCEPT ![c].st = "syn_rcvd", ![c].rcv = Plus(seg.seq, 1)]
           /\ wire' = Append(wire, SynAck(c))
  <2>1. OtherTypes'
    BY <1>2, <1>4, <1>5, <1>6 DEF Types, OtherTypes, Server
  <2>2. wire' \in Seq(Incoming)
    BY <1>5, <1>6 DEF Types
  <2> QED BY <1>3, <1>4, <2>1, <2>2 DEF Types, SockTypes
<1>7. CASE /\ p.st \in {"syn_rcvd", "est"} /\ off \in 0 .. p.nxt
           /\ peer' = [peer EXCEPT
                ![c].st = "est",
                ![c].una = Max({@, off}),
                ![c].rcv = IF next THEN Plus(@, size) ELSE @,
                ![c].req = @ \/ (next /\ seg.len > 0)]
           /\ wire' \in {Append(wire, Answer(c, {"ACK"}, p.nxt, << >>)), wire}
  <2>1. Max({p.una, off}) \in 0 .. N + 1 /\ Max({p.una, off}) <= p.nxt
    <3>1. p.una \in 0 .. N + 1 /\ p.nxt \in 0 .. N + 1 /\ off \in 0 .. p.nxt /\ p.una <= p.nxt
      BY <1>2, <1>7 DEF Server
    <3> HIDE DEF p, off
    <3> QED BY <3>1, MaxOfTwo, TcpSizes
  <2>2. (IF next THEN Plus(p.rcv, size) ELSE p.rcv) \in SeqNo
    BY <1>2, <1>5 DEF Server
  <2>3. OtherTypes'
    BY <1>2, <1>4, <1>7, <2>1, <2>2, ZenonT(40) DEF Types, OtherTypes, Server
  <2>4. wire' \in Seq(Incoming)
    <3>1. wire' = Append(wire, Answer(c, {"ACK"}, p.nxt, << >>)) \/ wire' = wire
      BY <1>7
    <3>2. wire \in Seq(Incoming)
      BY DEF Types
    <3> HIDE DEF c, p
    <3> QED BY <1>5, <3>1, <3>2
  <2> QED BY <1>3, <1>4, <2>3, <2>4 DEF Types, SockTypes
<1>8. CASE UNCHANGED <<peer, wire>>
  BY <1>3, <1>4, <1>8 DEF Types, SockTypes, OtherTypes
<1> QED BY <1>1, <1>6, <1>7, <1>8

(* The segments the server sends of its own accord. *)
LEMMA PeerDataIs ==
  ASSUME Types, NEW c \in Conn, PeerData(c)
  PROVE  \E o \in 0 .. N, n \in 1 .. N, flags \in {{"FIN", "ACK"}, {"ACK"}}, end \in 0 .. N + 1 :
           /\ o + n <= N
           /\ wire' = Append(wire, Answer(c, flags, o, [k \in 1 .. n |-> <<c, o + k>>]))
           /\ Answer(c, flags, o, [k \in 1 .. n |-> <<c, o + k>>]) \in Incoming
           /\ peer' = [peer EXCEPT ![c].nxt = end] /\ peer[c].nxt <= end
<1>1. peer[c] \in Server /\ peer[c].una \in 0 .. N + 1 /\ peer[c].nxt \in 0 .. N + 1 /\ N \in Nat
  BY TcpSizes DEF Types, OtherTypes, Server
<1>2. PICK o \in {peer[c].una, peer[c].nxt}, n \in 1 .. MaxSeg, fin \in BOOLEAN :
        /\ o + n <= N
        /\ fin => o + n = N
        /\ wire' = Append(wire, Answer(c, IF fin THEN {"FIN", "ACK"} ELSE {"ACK"}, o,
                                       [k \in 1 .. n |-> <<c, o + k>>]))
        /\ peer' = [peer EXCEPT ![c].nxt = Max({@, o + n + IF fin THEN 1 ELSE 0})]
  <2>1. \E o \in (IF Repeat THEN {peer[c].una, peer[c].nxt} ELSE {peer[c].nxt}), n \in 1 .. MaxSeg :
          /\ o + n <= N
          /\ \E fin \in {FALSE, o + n = N} :
               /\ wire' = Append(wire, Answer(c, IF fin THEN {"FIN", "ACK"} ELSE {"ACK"}, o,
                                              [k \in 1 .. n |-> <<c, o + k>>]))
               /\ peer' = [peer EXCEPT ![c].nxt = Max({@, o + n + IF fin THEN 1 ELSE 0})]
    BY ZenonT(40) DEF PeerData
  <2>2. PICK o \in (IF Repeat THEN {peer[c].una, peer[c].nxt} ELSE {peer[c].nxt}), n \in 1 .. MaxSeg :
          /\ o + n <= N
          /\ \E fin \in {FALSE, o + n = N} :
               /\ wire' = Append(wire, Answer(c, IF fin THEN {"FIN", "ACK"} ELSE {"ACK"}, o,
                                              [k \in 1 .. n |-> <<c, o + k>>]))
               /\ peer' = [peer EXCEPT ![c].nxt = Max({@, o + n + IF fin THEN 1 ELSE 0})]
    BY <2>1
  <2>3. PICK fin \in {FALSE, o + n = N} :
          /\ wire' = Append(wire, Answer(c, IF fin THEN {"FIN", "ACK"} ELSE {"ACK"}, o,
                                         [k \in 1 .. n |-> <<c, o + k>>]))
          /\ peer' = [peer EXCEPT ![c].nxt = Max({@, o + n + IF fin THEN 1 ELSE 0})]
    BY <2>2
  <2>4. fin \in BOOLEAN /\ (fin => o + n = N)
    OBVIOUS
  <2>5. o \in {peer[c].una, peer[c].nxt}
    BY Zenon
  <2> QED BY <2>2, <2>3, <2>4, <2>5, Zenon
<1>3. o \in 0 .. N /\ n \in 1 .. N
  <2>1. o \in Nat
    BY <1>1
  <2>2. n \in Nat \ {0}
    BY TcpSizes
  <2>3. o + n <= N
    BY <1>2
  <2> QED BY <1>1, <2>1, <2>2, <2>3
<1> DEFINE flags == IF fin THEN {"FIN", "ACK"} ELSE {"ACK"}
           end == Max({peer[c].nxt, o + n + IF fin THEN 1 ELSE 0})
<1>4. end \in 0 .. N + 1 /\ peer[c].nxt <= end
  <2>1. o + n + (IF fin THEN 1 ELSE 0) \in 0 .. N + 1
    BY <1>1, <1>2, <1>3
  <2> QED BY <1>1, <2>1, MaxOfTwo
<1>5. Answer(c, flags, o, [k \in 1 .. n |-> <<c, o + k>>]) \in Incoming
  <2>1. flags \in SUBSET Flag /\ o \in Nat /\ n \in Nat
    BY <1>3 DEF Flag
  <2>2. [k \in 1 .. n |-> <<c, o + k>>] \in Seq(Byte)
    BY <1>2, <2>1, PieceType
  <2> QED BY <2>1, <2>2, AnswerType
<1>6. flags \in {{"FIN", "ACK"}, {"ACK"}}
  OBVIOUS
<1>7. peer' = [peer EXCEPT ![c].nxt = end]
  BY <1>2
<1>8. wire' = Append(wire, Answer(c, flags, o, [k \in 1 .. n |-> <<c, o + k>>]))
  BY <1>2
<1> HIDE DEF flags, end
<1> QED BY <1>2, <1>3, <1>4, <1>5, <1>6, <1>7, <1>8

LEMMA ServerTypes ==
  ASSUME Types, NEW c \in Conn,
         PeerData(c) \/ PeerFin(c) \/ PeerSynAckAgain(c) \/ PeerReset(c)
  PROVE  Types'
<1>1. peer[c] \in Server /\ peer[c].una \in 0 .. N + 1 /\ peer[c].nxt \in 0 .. N + 1 /\ N \in Nat
  BY TcpSizes DEF Types, OtherTypes, Server
<1>2. UNCHANGED <<sock, opened, out, taken, cut>>
  BY DEF PeerData, PeerFin, PeerSynAckAgain, PeerReset
<1>3. CASE PeerData(c)
  <2>1. PICK o \in 0 .. N, n \in 1 .. N, flags \in {{"FIN", "ACK"}, {"ACK"}}, end \in 0 .. N + 1 :
          /\ wire' = Append(wire, Answer(c, flags, o, [k \in 1 .. n |-> <<c, o + k>>]))
          /\ Answer(c, flags, o, [k \in 1 .. n |-> <<c, o + k>>]) \in Incoming
          /\ peer' = [peer EXCEPT ![c].nxt = end] /\ peer[c].nxt <= end
    BY <1>3, PeerDataIs
  <2>2. OtherTypes'
    BY <1>2, <2>1, NxtGrows
  <2> QED BY <1>2, <2>1, <2>2 DEF Types, SockTypes
<1>4. CASE PeerFin(c)
  <2>1. Answer(c, {"FIN", "ACK"}, N, << >>) \in Incoming
    <3>1. {"FIN", "ACK"} \in SUBSET Flag
      BY DEF Flag
    <3> QED BY <1>1, <3>1, EmptyType
  <2>2. OtherTypes'
    <3>1. N + 1 \in 0 .. N + 1 /\ peer[c].nxt <= N + 1
      BY <1>1
    <3>2. peer' = [peer EXCEPT ![c].nxt = N + 1]
      BY <1>4 DEF PeerFin
    <3> QED BY <1>2, <3>1, <3>2, NxtGrows
  <2> QED BY <1>2, <1>4, <2>1, <2>2 DEF PeerFin, Types, SockTypes
<1>5. CASE PeerSynAckAgain(c)
  <2>1. SynAck(c) \in Incoming
    BY EmptyType
  <2> QED BY <1>2, <1>5, <2>1 DEF PeerSynAckAgain, Types, SockTypes, OtherTypes
<1>6. CASE PeerReset(c)
  <2>1. Answer(c, {"RST", "ACK"}, peer[c].nxt, << >>) \in Incoming
    <3>1. {"RST", "ACK"} \in SUBSET Flag /\ peer[c].nxt \in Nat
      BY <1>1 DEF Flag
    <3> QED BY <3>1, EmptyType
  <2>2. OtherTypes'
    BY <1>1, <1>2, <1>6 DEF PeerReset, Types, OtherTypes, Server
  <2> QED BY <1>2, <1>6, <2>1, <2>2 DEF PeerReset, Types, SockTypes
<1> QED BY <1>3, <1>4, <1>5, <1>6

LEMMA LoseTypes == Types /\ LoseSegment => Types'
<1> SUFFICES ASSUME Types, LoseSegment PROVE Types'
  OBVIOUS
<1>1. UNCHANGED <<sock, opened, peer, taken, cut>>
  BY DEF LoseSegment
<1>2. wire' \in Seq(Incoming) /\ out' \in Seq(Outgoing)
  BY Removed DEF LoseSegment, Types
<1> QED BY <1>1, <1>2 DEF Types, SockTypes, OtherTypes

LEMMA TypesKept == Types /\ Step => Types'
<1> SUFFICES ASSUME Types, Step PROVE Types'
  OBVIOUS
<1>1. CASE UNCHANGED vars
  BY <1>1 DEF vars, Types, SockTypes, OtherTypes
<1>2. CASE Environment
  BY <1>2, PeerRxTypes, ServerTypes, LoseTypes DEF Environment
<1> QED BY <1>1, <1>2, OpenTypes, SendTypes, RecvTypes, CloseTypes, OnRxTypes DEF Step

--------------------------------------------------------------------------------
(* The streams. *)

(* The data of a segment is a piece of the stream of its connection, and its
   sequence number says which. *)
Piece(seg) ==
  /\ "SYN" \in seg.flags => seg.seq = PeerIss
  /\ seg.data # << >> =>
       \E off \in 0 .. N : /\ seg.seq = At(off) /\ off + Len(seg.data) <= N
                           /\ \A k \in 1 .. Len(seg.data) : seg.data[k] = <<seg.conn, off + k>>
Genuine == \A i \in DOMAIN wire : Piece(wire[i])

Intact(c) == /\ Len(Stored(c)) <= N
             /\ \A k \in 1 .. Len(Stored(c)) : Stored(c)[k] = <<c, k>>
Fresh == /\ \A c \in Conn : c > opened => taken[c] = << >>
         /\ sock.state = "SYN_SENT" => sock.rx = << >> /\ taken[opened] = << >>
Acked == sock.state = "ESTABLISHED" /\ sock.conn \notin cut =>
           sock.rcv = At(Len(Stored(sock.conn)))
Streams == Fresh /\ Acked /\ \A c \in Conn \ cut : Intact(c)
StreamInv == Types /\ Genuine /\ Streams

LEMMA StoredType == Types => \A c \in Conn : Stored(c) \in Seq(Byte)
<1> SUFFICES ASSUME Types, NEW c \in Conn PROVE Stored(c) \in Seq(Byte)
  OBVIOUS
<1>1. taken[c] \in Seq(Byte) /\ sock.rx \in Seq(Byte)
  BY DEF Types, OtherTypes, SockTypes, Socket
<1> QED BY <1>1, ConcatProperties DEF Stored

(* The server sends pieces of its streams only. *)
LEMMA GenuineKept == Types /\ Genuine /\ Step => Genuine'
<1> SUFFICES ASSUME Types, Genuine, Step PROVE Genuine'
  OBVIOUS
<1>0. wire \in Seq(Incoming)
  BY DEF Types
<1>1. ASSUME \A j \in DOMAIN wire' : \E k \in DOMAIN wire : wire'[j] = wire[k]
      PROVE  Genuine'
  <2> SUFFICES ASSUME NEW j \in DOMAIN wire' PROVE Piece(wire'[j])
    BY DEF Genuine, Piece
  <2>1. PICK k \in DOMAIN wire : wire'[j] = wire[k]
    BY <1>1
  <2> QED BY <2>1 DEF Genuine
<1>2. ASSUME NEW seg \in Incoming, Piece(seg), wire' = Append(wire, seg) PROVE Genuine'
  <2>1. \A j \in DOMAIN wire' : wire'[j] = seg \/ (j \in DOMAIN wire /\ wire'[j] = wire[j])
    BY <1>0, <1>2
  <2> SUFFICES ASSUME NEW j \in DOMAIN wire' PROVE Piece(wire'[j])
    BY DEF Genuine, Piece
  <2>2. CASE wire'[j] = seg
    BY <1>2, <2>2
  <2>3. CASE j \in DOMAIN wire /\ wire'[j] = wire[j]
    BY <2>3 DEF Genuine
  <2> QED BY <2>1, <2>2, <2>3
<1>3. ASSUME wire' = wire PROVE Genuine'
  BY <1>3, <1>1
<1>4. \A c \in Conn : SynAck(c) \in Incoming /\ Piece(SynAck(c))
  BY EmptyType DEF SynAck, Piece
<1>5. \A c \in Conn, flags \in SUBSET (Flag \ {"SYN"}), off \in Nat :
        Answer(c, flags, off, << >>) \in Incoming /\ Piece(Answer(c, flags, off, << >>))
  BY EmptyType DEF Answer, Piece
<1>6. CASE Open \/ TcpSend \/ (\E maxlen \in Nat \ {0} : TcpRecv(maxlen)) \/ TcpClose \/ UNCHANGED vars
  BY <1>3, <1>6 DEF Open, TcpSend, TcpRecv, TcpClose, vars
<1>7. CASE TcpOnRx
  BY <1>1, <1>7, OnRxSegment
<1>8. CASE PeerRx
  <2>1. PICK i \in DOMAIN out : \/ wire' = Append(wire, SynAck(out[i].conn))
                              \/ wire' = Append(wire, Answer(out[i].conn, {"ACK"}, peer[out[i].conn].nxt, << >>))
                              \/ wire' = wire
    BY <1>8 DEF PeerRx, Next1
  <2>2. out[i] \in Outgoing
    BY DEF Types
  <2>3. out[i].conn \in Conn /\ peer[out[i].conn].nxt \in Nat /\ {"ACK"} \in SUBSET (Flag \ {"SYN"})
    BY <2>2, TcpSizes DEF Types, OtherTypes, Outgoing, Server, Flag
  <2> QED BY <1>2, <1>3, <1>4, <1>5, <2>1, <2>3
<1>9. ASSUME NEW c \in Conn, PeerData(c) PROVE Genuine'
  <2>1. PICK o \in 0 .. N, n \in 1 .. N, flags \in {{"FIN", "ACK"}, {"ACK"}} :
          /\ o + n <= N
          /\ wire' = Append(wire, Answer(c, flags, o, [k \in 1 .. n |-> <<c, o + k>>]))
          /\ Answer(c, flags, o, [k \in 1 .. n |-> <<c, o + k>>]) \in Incoming
    BY <1>9, PeerDataIs
  <2> DEFINE seg == Answer(c, flags, o, [k \in 1 .. n |-> <<c, o + k>>])
  <2>2. /\ seg.conn = c /\ seg.flags = flags /\ seg.seq = At(o)
        /\ seg.data = [k \in 1 .. n |-> <<c, o + k>>] /\ Len(seg.data) = n
    BY PieceType, <2>1, TcpSizes DEF Answer, At
  <2>3. \A k \in 1 .. n : seg.data[k] = <<c, o + k>>
    BY <2>2
  <2>4. "SYN" \notin flags
    OBVIOUS
  <2> HIDE DEF seg
  <2>5. Piece(seg)
    BY <2>1, <2>2, <2>3, <2>4 DEF Piece
  <2> QED BY <1>2, <2>1, <2>5 DEF seg
<1>10. ASSUME NEW c \in Conn, PeerFin(c) \/ PeerSynAckAgain(c) \/ PeerReset(c) PROVE Genuine'
  <2>1. /\ {"FIN", "ACK"} \in SUBSET (Flag \ {"SYN"}) /\ {"RST", "ACK"} \in SUBSET (Flag \ {"SYN"})
        /\ N \in Nat /\ peer[c].nxt \in Nat
    BY TcpSizes DEF Flag, Types, OtherTypes, Server
  <2>2. \/ wire' = Append(wire, SynAck(c))
        \/ wire' = Append(wire, Answer(c, {"FIN", "ACK"}, N, << >>))
        \/ wire' = Append(wire, Answer(c, {"RST", "ACK"}, peer[c].nxt, << >>))
    BY <1>10 DEF PeerFin, PeerSynAckAgain, PeerReset
  <2> QED BY <1>2, <1>4, <1>5, <2>1, <2>2
<1>11. CASE LoseSegment
  BY <1>0, <1>1, <1>3, <1>11, Removed DEF LoseSegment
<1> QED BY <1>6, <1>7, <1>8, <1>9, <1>10, <1>11 DEF Step, Environment

(* Nothing enters the stream, and the connection does not come up. *)
LEMMA QuietKeeps ==
  ASSUME Types, Streams,
         UNCHANGED <<opened, taken, cut>>,
         sock'.rx = sock.rx, sock'.conn = sock.conn,
         \/ sock'.state \notin {"SYN_SENT", "ESTABLISHED"}
         \/ sock'.state = sock.state /\ sock'.rcv = sock.rcv
  PROVE  Streams'
<1>1. \A c \in Conn : Stored(c)' = Stored(c)
  BY DEF Stored
<1>2. sock.state = "ESTABLISHED" => sock.conn \in Conn
  BY DEF Types, SockTypes, OtherTypes, Conn
<1>3. Fresh'
  BY DEF Streams, Fresh
<1>4. Acked'
  BY <1>1, <1>2 DEF Streams, Acked
<1>5. \A c \in Conn \ cut' : Intact(c)'
  BY <1>1 DEF Streams, Intact
<1> QED BY <1>3, <1>4, <1>5 DEF Streams

LEMMA OpenStreams == ASSUME Types, Streams, Open PROVE Streams'
<1>1. /\ sock'.conn = opened + 1 /\ sock'.rx = << >> /\ sock'.state = "SYN_SENT"
      /\ opened' = opened + 1 /\ taken' = taken /\ cut' = cut
  BY DEF Open, NewSock
<1>2. opened \in Nat /\ opened + 1 \in Conn /\ sock.conn = opened
  <2>1. MaxConn \in Nat /\ opened \in 0 .. MaxConn /\ opened < MaxConn
    BY TcpSizes DEF Types, OtherTypes, Open
  <2> QED BY <2>1 DEF Types, SockTypes, Conn
<1>3. taken[opened + 1] = << >>
  BY <1>2 DEF Streams, Fresh
<1>4. Fresh'
  BY <1>1, <1>2, <1>3 DEF Streams, Fresh, Conn
<1>5. Acked'
  BY <1>1 DEF Acked
<1>6. ASSUME NEW c \in Conn \ cut' PROVE Intact(c)'
  <2>1. Intact(c) /\ taken[c] \in Seq(Byte) /\ sock.rx \in Seq(Byte)
    BY <1>1 DEF Streams, Types, SockTypes, OtherTypes, Socket
  <2>2. Stored(c)' = taken[c]
    BY <1>1, <1>3, <2>1, ConcatEmptySeq DEF Stored
  <2>3. /\ Len(taken[c]) <= Len(Stored(c)) /\ Len(taken[c]) \in Nat /\ Len(Stored(c)) \in Nat
        /\ \A k \in 1 .. Len(taken[c]) : taken[c][k] = Stored(c)[k]
    <3>1. CASE sock.conn = c
      <4>1. Stored(c) = taken[c] \o sock.rx
        BY <3>1 DEF Stored
      <4>2. taken[c] \in Seq(Byte) /\ sock.rx \in Seq(Byte)
        BY <2>1
      <4>3. /\ Len(taken[c]) \in Nat /\ Len(taken[c] \o sock.rx) \in Nat
            /\ Len(taken[c]) <= Len(taken[c] \o sock.rx)
            /\ \A k \in 1 .. Len(taken[c]) : taken[c][k] = (taken[c] \o sock.rx)[k]
        BY ONLY <4>2, FirstPart
      <4> QED BY <4>1, <4>3, Zenon
    <3>2. CASE sock.conn # c
      BY <2>1, <3>2 DEF Stored
    <3> QED BY <3>1, <3>2
  <2> QED BY <2>1, <2>2, <2>3, TcpSizes DEF Intact
<1> QED BY <1>4, <1>5, <1>6 DEF Streams

LEMMA RecvStreams ==
  ASSUME Types, Streams, NEW maxlen \in Nat \ {0}, TcpRecv(maxlen) PROVE Streams'
<1>1. sock.rx # << >> /\ sock.rx \in Seq(Byte) /\ sock.conn \in Conn /\ sock.conn = opened
  BY DEF TcpRecv, Types, SockTypes, Socket, OtherTypes, Conn
<1>2. PICK m \in 1 .. Len(sock.rx) :
        /\ Returned(maxlen) = SubSeq(sock.rx, 1, m) /\ Len(Returned(maxlen)) = m
  BY <1>1, ReturnedIs
<1>3. /\ sock'.rx = SubSeq(sock.rx, m + 1, Len(sock.rx)) /\ sock'.conn = sock.conn
      /\ sock'.state = sock.state /\ sock'.rcv = sock.rcv /\ opened' = opened /\ cut' = cut
      /\ taken' = [taken EXCEPT ![sock.conn] = @ \o SubSeq(sock.rx, 1, m)]
  BY <1>2 DEF TcpRecv, Types, SockTypes, Socket
<1>4. \A c \in Conn : Stored(c)' = Stored(c)
  <2> SUFFICES ASSUME NEW c \in Conn PROVE Stored(c)' = Stored(c)
    OBVIOUS
  <2>1. CASE c = sock.conn
    <3>1. taken[c] \in Seq(Byte) /\ m \in 0 .. Len(sock.rx)
      BY DEF Types, OtherTypes
    <3>2. (taken[c] \o SubSeq(sock.rx, 1, m)) \o SubSeq(sock.rx, m + 1, Len(sock.rx))
            = taken[c] \o sock.rx
      BY <1>1, <3>1, TakeAndRest
    <3>3. taken'[c] = taken[c] \o SubSeq(sock.rx, 1, m)
      BY <1>3, <2>1 DEF Types, OtherTypes
    <3> QED BY <1>3, <2>1, <3>2, <3>3 DEF Stored
  <2>2. CASE c # sock.conn
    BY <1>3, <2>2 DEF Stored, Types, OtherTypes
  <2> QED BY <2>1, <2>2
<1>5. Fresh'
  <2>1. \A c \in Conn : c > opened' => taken'[c] = << >>
    <3> SUFFICES ASSUME NEW c \in Conn, c > opened' PROVE taken'[c] = << >>
      OBVIOUS
    <3>1. c > opened /\ c # opened
      BY <1>3, TcpSizes DEF Types, OtherTypes, Conn
    <3> QED BY <1>1, <1>3, <3>1 DEF Streams, Fresh, Types, OtherTypes
  <2>2. sock'.state # "SYN_SENT"
    BY <1>1, <1>3 DEF Streams, Fresh
  <2> QED BY <2>1, <2>2 DEF Fresh
<1>6. Acked'
  BY <1>1, <1>3, <1>4 DEF Streams, Acked
<1>7. \A c \in Conn \ cut' : Intact(c)'
  BY <1>3, <1>4 DEF Streams, Intact
<1> QED BY <1>5, <1>6, <1>7 DEF Streams

(* The connection comes up with an empty stream. *)
LEMMA SynAckStreams ==
  ASSUME Types, Streams, NEW seg \in Incoming, Piece(seg), RxSynAck(seg),
         UNCHANGED <<opened, taken>>
  PROVE  Streams'
<1>1. /\ sock.rx = << >> /\ taken[opened] = << >> /\ sock.conn = opened /\ sock.conn \in Conn
      /\ seg.seq = PeerIss
  BY ForUsIs DEF RxSynAck, Streams, Fresh, Types, SockTypes, Piece
<1>2. /\ sock'.rx = << >> /\ sock'.conn = sock.conn /\ sock'.state = "ESTABLISHED"
      /\ sock'.rcv = Plus(PeerIss, 1) /\ cut' = cut
  BY <1>1 DEF RxSynAck, Types, SockTypes, Socket
<1>3. \A c \in Conn : Stored(c)' = Stored(c)
  BY <1>1, <1>2 DEF Stored
<1>4. Stored(opened) = << >>
  BY <1>1 DEF Stored
<1>5. Plus(PeerIss, 1) = At(0)
  BY TcpSizes DEF Plus, At
<1>6. Acked'
  BY <1>1, <1>2, <1>3, <1>4, <1>5 DEF Acked
<1>7. Fresh' /\ \A c \in Conn \ cut' : Intact(c)'
  BY <1>2, <1>3 DEF Streams, Fresh, Intact
<1> QED BY <1>6, <1>7 DEF Streams

(* A segment with the expected number has the bytes that follow those stored. *)
LEMMA InOrderIs ==
  ASSUME Types, Streams, NEW seg \in Incoming, Piece(seg), InOrder(seg), ForUs(seg),
         sock.state = "ESTABLISHED", sock.conn \notin cut
  PROVE  /\ Intact(sock.conn) /\ sock.rcv = At(Len(Stored(sock.conn)))
         /\ Stored(sock.conn) \in Seq(Byte)
         /\ Len(Stored(sock.conn)) \in 0 .. N /\ Len(seg.data) \in 0 .. N
         /\ Len(Stored(sock.conn)) + Len(seg.data) <= N
         /\ \A k \in 1 .. Len(seg.data) :
              seg.data[k] = <<sock.conn, Len(Stored(sock.conn)) + k>>
<1> DEFINE c == sock.conn
           st == Stored(c)
<1>1. /\ c \in Conn /\ c = seg.conn /\ seg.data \in Seq(Byte) /\ seg.data # << >>
      /\ seg.seq = sock.rcv
  BY ForUsIs DEF Incoming, InOrder
<1>2. Intact(c) /\ sock.rcv = At(Len(st))
  BY <1>1 DEF Streams, Acked
<1>3. /\ st \in Seq(Byte) /\ Len(st) \in Nat /\ Len(seg.data) \in Nat /\ N \in Nat
      /\ Len(st) <= N
  <2>1. st \in Seq(Byte) /\ seg.data \in Seq(Byte)
    BY <1>1, StoredType
  <2>2. Len(st) \in Nat /\ Len(seg.data) \in Nat
    BY <2>1, LenProperties
  <2> QED BY <1>2, <2>1, <2>2, TcpSizes DEF Intact
<1>4. PICK off \in 0 .. N : /\ seg.seq = At(off) /\ off + Len(seg.data) <= N
                           /\ \A k \in 1 .. Len(seg.data) : seg.data[k] = <<seg.conn, off + k>>
  BY <1>1 DEF Piece
<1> HIDE DEF st
<1>5. off = Len(st)
  <2>1. off \in 0 .. N + 1 /\ Len(st) \in 0 .. N + 1
    BY <1>3
  <2>2. Offset(At(off)) = off /\ Offset(At(Len(st))) = Len(st)
    BY <2>1, AtIs
  <2> QED BY <1>1, <1>2, <1>4, <2>2
<1>6. /\ Len(st) + Len(seg.data) <= N
      /\ \A k \in 1 .. Len(seg.data) : seg.data[k] = <<c, Len(st) + k>>
  BY <1>1, <1>4, <1>5
<1>7. Len(st) \in 0 .. N /\ Len(seg.data) \in 0 .. N
  <2> DEFINE ls == Len(st)
             ld == Len(seg.data)
  <2>1. ls \in Nat /\ ld \in Nat /\ ls + ld <= N /\ N \in Nat
    BY <1>3, <1>6
  <2> HIDE DEF ls, ld
  <2>2. ls \in 0 .. N /\ ld \in 0 .. N
    BY <2>1
  <2> QED BY <2>2 DEF ls, ld
<1> QED BY <1>2, <1>3, <1>6, <1>7 DEF st

(* The data of a segment in order goes to the end of the stream. *)
LEMMA DataStreams ==
  ASSUME Types, Streams, NEW seg \in Incoming, Piece(seg), InOrder(seg), ForUs(seg),
         sock.state = "ESTABLISHED", UNCHANGED <<opened, taken>>,
         sock'.conn = sock.conn, sock'.rx = sock.rx \o Kept(seg.data),
         cut' = IF Kept(seg.data) # seg.data THEN cut \cup {sock.conn} ELSE cut,
         \/ sock'.state = "FIN_WAIT1"
         \/ sock'.state = "ESTABLISHED" /\ sock'.rcv = Plus(sock.rcv, Len(seg.data))
  PROVE  Streams'
<1> DEFINE c == sock.conn
           kept == Kept(seg.data)
<1>1. /\ c \in Conn /\ c = seg.conn /\ c = opened
      /\ taken[c] \in Seq(Byte) /\ sock.rx \in Seq(Byte) /\ Stored(c) = taken[c] \o sock.rx
      /\ seg.data \in Seq(Byte) /\ seg.data # << >> /\ seg.seq = sock.rcv
  BY ForUsIs DEF Types, SockTypes, OtherTypes, Socket, Incoming, InOrder, Stored
<1>2. /\ kept \in Seq(Byte) /\ Len(kept) <= Len(seg.data)
      /\ \A k \in 1 .. Len(kept) : kept[k] = seg.data[k]
  BY <1>1, KeptIs
<1> HIDE DEF kept
<1>3. Stored(c)' = Stored(c) \o kept
  <2>1. Stored(c)' = taken[c] \o (sock.rx \o kept)
    BY DEF Stored, kept
  <2>2. (taken[c] \o sock.rx) \o kept = taken[c] \o (sock.rx \o kept)
    <3>1. taken[c] \in Seq(Byte) /\ sock.rx \in Seq(Byte) /\ kept \in Seq(Byte)
      BY <1>1, <1>2
    <3> DEFINE t == taken[c]
               r == sock.rx
    <3>2. t \in Seq(Byte) /\ r \in Seq(Byte)
      BY <3>1
    <3> HIDE DEF t, r
    <3>3. (t \o r) \o kept = t \o (r \o kept)
      BY <3>1, <3>2, ConcatIsAssociative, SMTT(30)
    <3> QED BY <3>3 DEF t, r
  <2> QED BY <1>1, <2>1, <2>2
<1>4. \A d \in Conn : d # c => Stored(d)' = Stored(d)
  BY DEF Stored
<1>5. ASSUME c \notin cut PROVE Intact(c)'
  <2> DEFINE st == Stored(c)
  <2>1. /\ Intact(c) /\ st \in Seq(Byte) /\ Len(st) + Len(seg.data) <= N
        /\ Len(st) \in 0 .. N /\ Len(seg.data) \in 0 .. N
        /\ \A k \in 1 .. Len(seg.data) : seg.data[k] = <<c, Len(st) + k>>
    BY <1>5, InOrderIs
  <2>2. \A k \in 1 .. Len(st) : st[k] = <<c, k>>
    BY <2>1 DEF Intact
  <2> HIDE DEF st
  <2>3. Len(st) \in Nat /\ Len(kept) \in Nat /\ N \in Nat /\ Len(st) + Len(kept) <= N
    <3>1. Len(kept) \in Nat
      BY <1>2, LenProperties
    <3> QED BY <1>2, <2>1, <3>1, TcpSizes
  <2>4. \A k \in 1 .. Len(kept) : kept[k] = <<c, Len(st) + k>>
    <3> SUFFICES ASSUME NEW k \in 1 .. Len(kept) PROVE kept[k] = <<c, Len(st) + k>>
      OBVIOUS
    <3>1. k \in 1 .. Len(seg.data)
      BY <1>2, <2>1, <2>3
    <3> QED BY <1>2, <2>1, <3>1
  <2>5. /\ Len(st \o kept) = Len(st) + Len(kept)
        /\ \A k \in 1 .. Len(st) : (st \o kept)[k] = st[k]
        /\ \A k \in Len(st) + 1 .. Len(st) + Len(kept) : (st \o kept)[k] = kept[k - Len(st)]
    BY <1>2, <2>1, ConcatIs
  <2> DEFINE all == st \o kept
  <2> HIDE DEF all
  <2>6. /\ Len(all) <= N
        /\ \A k \in 1 .. Len(all) : all[k] = <<c, k>>
    <3>1. ASSUME NEW k \in Len(st) + 1 .. Len(st) + Len(kept) PROVE all[k] = <<c, k>>
      <4>1. k - Len(st) \in 1 .. Len(kept) /\ Len(st) + (k - Len(st)) = k
        BY <2>3
      <4>2. kept[k - Len(st)] = <<c, Len(st) + (k - Len(st))>>
        BY <2>4, <4>1
      <4> QED BY <2>5, <4>1, <4>2 DEF all
    <3>2. \A k \in 1 .. Len(st) : all[k] = <<c, k>>
      BY <2>2, <2>5 DEF all
    <3>3. \A k \in 1 .. Len(st) + Len(kept) : k \in 1 .. Len(st) \/ k \in Len(st) + 1 .. Len(st) + Len(kept)
      BY <2>3
    <3>4. Len(all) = Len(st) + Len(kept)
      BY <2>5 DEF all
    <3> QED BY <2>3, <3>1, <3>2, <3>3, <3>4
  <2>7. c' = c
    OBVIOUS
  <2> QED BY <1>3, <2>6, <2>7 DEF Intact, st, all
<1>6. Fresh'
  BY DEF Streams, Fresh
<1>7. Acked'
  <2> SUFFICES ASSUME sock'.state = "ESTABLISHED", c \notin cut'
               PROVE  sock'.rcv = At(Len(Stored(c)'))
    BY DEF Acked
  <2>1. kept = seg.data /\ c \notin cut /\ sock'.rcv = Plus(sock.rcv, Len(seg.data))
    BY DEF kept
  <2>2. Len(Stored(c)') = Len(Stored(c)) + Len(seg.data)
    <3>1. Stored(c) \in Seq(Byte)
      BY <1>1, StoredType
    <3>2. Len(Stored(c) \o kept) = Len(Stored(c)) + Len(kept)
      BY <1>2, <3>1, ConcatIs
    <3> QED BY <1>3, <2>1, <3>2
  <2>3. /\ sock.rcv = At(Len(Stored(c))) /\ Len(Stored(c)) + Len(seg.data) <= N
        /\ Len(Stored(c)) \in 0 .. N /\ Len(seg.data) \in 0 .. N
    BY <2>1, InOrderIs
  <2>4. Plus(At(Len(Stored(c))), Len(seg.data)) = At(Len(Stored(c)) + Len(seg.data))
    BY <2>3, AtMoves
  <2> QED BY <2>1, <2>2, <2>3, <2>4
<1>8. ASSUME NEW d \in Conn \ cut' PROVE Intact(d)'
  <2>1. d \notin cut
    OBVIOUS
  <2>2. CASE d = c
    BY <1>5, <2>1, <2>2
  <2>3. CASE d # c
    BY <1>4, <2>1, <2>3 DEF Streams, Intact
  <2> QED BY <2>2, <2>3
<1> QED BY <1>6, <1>7, <1>8 DEF Streams

LEMMA OnRxStreams == ASSUME Types, Genuine, Streams, TcpOnRx PROVE Streams'
<1>1. PICK i \in DOMAIN wire : Handled(wire[i]) /\ wire[i] \in Incoming
  BY OnRxSegment
<1>2. UNCHANGED <<opened, peer, taken>>
  BY OnRxSegment
<1> DEFINE seg == wire[i]
<1>3. seg \in Incoming /\ Piece(seg)
  BY <1>1 DEF Genuine
<1> HIDE DEF seg
<1>4. CASE RxReset(seg)
  <2>1. /\ sock'.rx = sock.rx /\ sock'.conn = sock.conn /\ sock'.state = "CLOSED"
        /\ cut' = cut
    BY <1>4 DEF RxReset, Types, SockTypes, Socket
  <2> QED BY <1>2, <2>1, QuietKeeps
<1>5. CASE RxSynAck(seg)
  BY <1>2, <1>3, <1>5, SynAckStreams
<1>6. CASE RxEstablished(seg)
  <2>1. sock.state = "ESTABLISHED" /\ ForUs(seg)
    BY <1>6 DEF RxEstablished
  <2> DEFINE s == WithData(seg)
             f == [s EXCEPT !.rcv = Plus(@, 1)]
  <2>2. s \in Socket
    BY <1>3, WithDataIs
  <2> HIDE DEF s
  <2>3. /\ sock' = s \/ sock' = [f EXCEPT !.snd = Plus(@, 1), !.state = "FIN_WAIT1"]
        /\ cut' = IF InOrder(seg) /\ Kept(seg.data) # seg.data THEN cut \cup {sock.conn} ELSE cut
    BY <1>6 DEF RxEstablished, s
  <2>4. /\ sock'.rx = s.rx /\ sock'.conn = s.conn
        /\ sock'.state = "FIN_WAIT1" \/ (sock'.state = s.state /\ sock'.rcv = s.rcv)
    BY <2>2, <2>3 DEF Socket
  <2>5. s.conn = sock.conn /\ s.state = sock.state
    BY <1>3, WithDataIs DEF s
  <2>6. CASE InOrder(seg)
    <3>1. s.rx = sock.rx \o Kept(seg.data) /\ s.rcv = Plus(sock.rcv, Len(seg.data))
      BY <1>3, <2>6, WithDataIs DEF s
    <3>2. /\ sock'.conn = sock.conn /\ sock'.rx = sock.rx \o Kept(seg.data)
          /\ cut' = IF Kept(seg.data) # seg.data THEN cut \cup {sock.conn} ELSE cut
          /\ \/ sock'.state = "FIN_WAIT1"
             \/ sock'.state = "ESTABLISHED" /\ sock'.rcv = Plus(sock.rcv, Len(seg.data))
      BY <2>1, <2>3, <2>4, <2>5, <2>6, <3>1
    <3> QED BY <1>2, <1>3, <2>1, <2>6, <3>2, DataStreams
  <2>7. CASE ~InOrder(seg)
    <3>1. s = sock /\ cut' = cut
      BY <1>3, <2>3, <2>7, WithDataIs DEF s
    <3> QED BY <1>2, <2>4, <3>1, QuietKeeps
  <2> QED BY <2>6, <2>7
<1>7. CASE RxFinWait1(seg) \/ RxFinWait2(seg)
  <2>1. /\ sock'.rx = sock.rx /\ sock'.conn = sock.conn /\ cut' = cut
        /\ sock'.state \in {"FIN_WAIT2", "TIME_WAIT"}
    BY <1>7 DEF RxFinWait1, RxFinWait2, Types, SockTypes, Socket
  <2> QED BY <1>2, <2>1, QuietKeeps
<1>8. CASE RxIgnored(seg)
  BY <1>2, <1>8, QuietKeeps DEF RxIgnored
<1> QED BY <1>1, <1>4, <1>5, <1>6, <1>7, <1>8 DEF Handled, seg

LEMMA StreamsKept == Types /\ Genuine /\ Streams /\ Step => Streams'
<1> SUFFICES ASSUME Types, Genuine, Streams, Step PROVE Streams'
  OBVIOUS
<1>1. CASE TcpSend
  <2>1. /\ sock'.rx = sock.rx /\ sock'.conn = sock.conn
        /\ sock'.state = sock.state /\ sock'.rcv = sock.rcv
    BY <1>1 DEF TcpSend, Types, SockTypes, Socket
  <2> QED BY <1>1, <2>1, QuietKeeps DEF TcpSend
<1>2. CASE TcpClose
  <2>1. /\ sock'.rx = sock.rx /\ sock'.conn = sock.conn
        /\ sock'.state \in {"FIN_WAIT1", "CLOSED"}
    BY <1>2 DEF TcpClose, Closed, Types, SockTypes, Socket
  <2> QED BY <1>2, <2>1, QuietKeeps DEF TcpClose
<1>3. CASE Environment \/ UNCHANGED vars
  <2>1. UNCHANGED <<sock, opened, taken, cut>>
    BY Zenon, <1>3 DEF Environment, PeerRx, PeerData, PeerFin, PeerSynAckAgain, PeerReset,
                LoseSegment, vars
  <2> QED BY <2>1, QuietKeeps
<1> QED BY <1>1, <1>2, <1>3, OpenStreams, RecvStreams, OnRxStreams DEF Step

LEMMA StreamsInitially == Init => Genuine /\ Streams
<1> SUFFICES ASSUME Init PROVE Genuine /\ Streams
  OBVIOUS
<1>1. Genuine
  BY DEF Init, Genuine
<1>2. Fresh /\ Acked
  <2>1. sock.state = "CLOSED" /\ \A c \in Conn : taken[c] = << >>
    BY DEF Init, NoSock
  <2> QED BY <2>1 DEF Fresh, Acked
<1>3. \A c \in Conn : Stored(c) = << >>
  BY DEF Init, NoSock, Stored, Conn
<1>4. \A c \in Conn : Intact(c)
  BY <1>3, TcpSizes DEF Intact
<1> QED BY <1>1, <1>2, <1>4 DEF Streams

LEMMA StreamInvHolds == Spec => []StreamInv
<1>1. Init => StreamInv
  BY TypesInitially, StreamsInitially DEF StreamInv
<1>2. StreamInv /\ [Next]_vars => StreamInv'
  BY NextSteps, TypesKept, GenuineKept, StreamsKept DEF StreamInv
<1> QED BY <1>1, <1>2, PTL DEF Spec

--------------------------------------------------------------------------------
(* Theorems. *)

(* tcp.c keeps the socket, the buffers and the segments within their types,
   whatever the network does: the receive buffer never holds more than RxCap. *)
THEOREM TypesHold == Spec => []Types
<1>1. StreamInv => Types
  BY DEF StreamInv
<1> QED BY <1>1, StreamInvHolds, PTL

LEMMA StreamIs ==
  ASSUME NEW c \in Conn
  PROVE  /\ Stream(c) \in Seq(Byte) /\ Len(Stream(c)) = N
         /\ \A k \in 1 .. N : Stream(c)[k] = <<c, k>>
<1>1. \A k \in 1 .. N : <<c, k>> \in Byte
  BY DEF Byte
<1> QED BY <1>1, TcpSizes DEF Stream

LEMMA IntactIsPrefix ==
  ASSUME Types, NEW c \in Conn, Intact(c) PROVE IsPrefix(Stored(c), Stream(c))
<1>1. /\ Stored(c) \in Seq(Byte) /\ Len(Stored(c)) \in Nat
      /\ Len(Stored(c)) <= N /\ N \in Nat
  BY StoredType, LenProperties, TcpSizes DEF Intact
<1>2. \A k \in 1 .. Len(Stored(c)) : Stored(c)[k] = Stream(c)[k]
  BY <1>1, StreamIs DEF Intact
<1> QED BY <1>1, <1>2, StreamIs, PrefixIs

(* tcp_on_rx and tcp_recv: whatever is lost, repeated, reordered, reset or left
   over from an earlier connection, the bytes read are the first ones the server
   sent, unless the receive buffer overflowed. *)
THEOREM StreamIsIntact == Spec => []StreamIntact
<1>1. StreamInv => StreamIntact
  BY IntactIsPrefix DEF StreamInv, Streams, StreamIntact
<1> QED BY <1>1, StreamInvHolds, PTL

(* The number tcp.c acknowledges is that of the byte after those it stored, also
   where the sequence numbers wrap around. *)
THEOREM AckedIsStored == Spec => []AckedWasStored
<1>1. StreamInv => AckedWasStored
  <2> SUFFICES ASSUME StreamInv, sock.state = "ESTABLISHED", sock.conn \notin cut
               PROVE  Offset(sock.rcv) = Len(Stored(sock.conn))
    BY DEF AckedWasStored
  <2>1. sock.conn \in Conn /\ Types
    BY DEF StreamInv, Types, SockTypes, OtherTypes, Conn
  <2>2. sock.rcv = At(Len(Stored(sock.conn))) /\ Intact(sock.conn)
    BY <2>1 DEF StreamInv, Streams, Acked
  <2>3. Len(Stored(sock.conn)) \in 0 .. N + 1
    <3>1. Len(Stored(sock.conn)) \in Nat
      BY <2>1, StoredType, LenProperties
    <3> QED BY <2>2, <3>1, TcpSizes DEF Intact
  <2> QED BY <2>2, <2>3, AtIs
<1> QED BY <1>1, StreamInvHolds, PTL

--------------------------------------------------------------------------------
(* The refinement of ByteStream. *)

(* A buffer as large as the stream never overflows. *)
LEMMA NothingCut ==
  ASSUME N <= RxCap, StreamInv, cut = {}, Step PROVE cut' = {}
<1>1. CASE TcpOnRx
  <2>1. PICK i \in DOMAIN wire : Handled(wire[i]) /\ wire[i] \in Incoming
    <3>1. Types
      BY DEF StreamInv
    <3> QED BY <1>1, <3>1, OnRxSegment
  <2> DEFINE seg == wire[i]
  <2>2. seg \in Incoming /\ Piece(seg)
    BY <2>1 DEF StreamInv, Genuine
  <2> HIDE DEF seg
  <2>3. CASE RxEstablished(seg) /\ InOrder(seg)
    <3>1. /\ Len(Stored(sock.conn)) + Len(seg.data) <= N /\ Stored(sock.conn) \in Seq(Byte)
          /\ Len(seg.data) \in 0 .. N
      BY <2>2, <2>3, InOrderIs DEF StreamInv, RxEstablished
    <3>2. /\ sock.rx \in Seq(Byte) /\ sock.conn \in Conn /\ taken[sock.conn] \in Seq(Byte)
          /\ seg.data \in Seq(Byte)
      BY <2>2, <2>3, ForUsIs DEF StreamInv, RxEstablished, Types, SockTypes, OtherTypes, Socket, Incoming
    <3>3. /\ Len(Stored(sock.conn)) = Len(taken[sock.conn]) + Len(sock.rx)
          /\ Len(taken[sock.conn]) \in Nat /\ Len(sock.rx) \in Nat
      BY <3>2, ConcatIs, LenProperties DEF Stored
    <3>4. Len(sock.rx) + Len(seg.data) <= RxCap
      <4> DEFINE ld == Len(seg.data)
                 lr == Len(sock.rx)
                 lt == Len(taken[sock.conn])
                 ls == Len(Stored(sock.conn))
      <4>1. ls + ld <= N /\ ld \in 0 .. N /\ ls = lt + lr /\ lt \in Nat /\ lr \in Nat
        BY <3>1, <3>3
      <4> HIDE DEF ld, lr, lt, ls
      <4>2. lr + ld <= RxCap
        BY <4>1, TcpSizes
      <4> QED BY <4>2 DEF ld, lr
    <3>5. Kept(seg.data) = seg.data
      BY <3>2, <3>4, KeptIs DEF StreamInv
    <3> QED BY <2>3, <3>5 DEF RxEstablished
  <2>4. CASE ~(RxEstablished(seg) /\ InOrder(seg))
    BY <2>1, <2>4 DEF seg, Handled, RxReset, RxSynAck, RxEstablished, RxFinWait1, RxFinWait2, RxIgnored
  <2> QED BY <2>3, <2>4
<1>2. CASE ~TcpOnRx
  BY Zenon, <1>2 DEF Step, Open, TcpSend, TcpRecv, TcpClose, Environment, PeerRx, PeerData, PeerFin,
              PeerSynAckAgain, PeerReset, LoseSegment, vars
<1> QED BY <1>1, <1>2

(* What tcp_recv returns is the next part of the stream. *)
LEMMA RecvReads ==
  ASSUME StreamInv, StreamInv', cut' = {}, NEW maxlen \in Nat \ {0}, TcpRecv(maxlen)
  PROVE  Bytes!BRead
<1> DEFINE c == sock.conn
<1>1. /\ Types /\ c \in Conn /\ c = opened /\ opened > 0 /\ sock.rx # << >>
      /\ taken[c] \in Seq(Byte) /\ opened' = opened
  BY DEF StreamInv, Types, SockTypes, OtherTypes, TcpRecv, Conn
<1>2. PICK m \in 1 .. Len(sock.rx) : /\ Returned(maxlen) \in Seq(Byte)
                                     /\ Len(Returned(maxlen)) = m
  BY <1>1, ReturnedIs
<1> DEFINE t == taken[c] \o Returned(maxlen)
<1>3. taken' = [taken EXCEPT ![c] = t] /\ taken'[c] = t /\ t \in Seq(Byte)
  <2>1. taken' = [taken EXCEPT ![c] = t]
    BY DEF TcpRecv
  <2>2. t \in Seq(Byte)
    BY <1>1, <1>2, ConcatIs
  <2> QED BY <1>1, <2>1, <2>2 DEF Types, OtherTypes
<1>4. Len(t) = Len(taken[c]) + m /\ Len(taken[c]) \in Nat /\ m \in Nat \ {0}
  <2> DEFINE q == taken[c]
             r == Returned(maxlen)
  <2>1. q \in Seq(Byte) /\ r \in Seq(Byte) /\ Len(r) = m /\ m \in Nat \ {0}
    BY <1>1, <1>2
  <2> HIDE DEF q, r
  <2>2. Len(q \o r) = Len(q) + m /\ Len(q) \in Nat
    BY <2>1, ConcatIs, LenProperties, ZenonT(40)
  <2> QED BY <2>1, <2>2 DEF q, r
<1> HIDE DEF t
<1>5. Len(t) <= N /\ \A k \in 1 .. Len(t) : t[k] = <<c, k>>
  <2>1. Intact(c)' /\ c' = c
    <3>1. sock'.conn = sock.conn
      BY DEF TcpRecv, StreamInv, Types, SockTypes, Socket
    <3>2. \A d \in Conn : Intact(d)'
      BY DEF StreamInv, Streams
    <3> QED BY <1>1, <3>1, <3>2
  <2>2. Stored(c)' = t \o sock'.rx /\ sock'.rx \in Seq(Byte)
    BY <1>3, <2>1 DEF Stored, StreamInv, Types, SockTypes, Socket
  <2> DEFINE all == t \o sock'.rx
  <2>3. /\ Len(t) \in Nat /\ Len(all) \in Nat /\ Len(t) <= Len(all)
        /\ \A k \in 1 .. Len(t) : t[k] = all[k]
    BY <1>3, <2>2, FirstPart
  <2>4. Len(all) <= N /\ \A k \in 1 .. Len(all) : all[k] = <<c, k>>
    BY <2>1, <2>2 DEF Intact
  <2> HIDE DEF all
  <2> QED BY <2>3, <2>4, TcpSizes
<1>6. t = SubSeq(Bytes!Sent(c), 1, Len(t)) /\ Len(t) \in Len(taken[c]) + 1 .. N
  <2>1. Bytes!Sent(c) = Stream(c)
    BY DEF Bytes!Sent, Stream
  <2>2. Len(t) \in 0 .. N /\ Len(t) \in Len(taken[c]) + 1 .. N
    BY <1>4, <1>5, TcpSizes
  <2>3. /\ SubSeq(Stream(c), 1, Len(t)) \in Seq(Byte)
        /\ Len(SubSeq(Stream(c), 1, Len(t))) = Len(t)
        /\ \A i \in 1 .. Len(t) : SubSeq(Stream(c), 1, Len(t))[i] = Stream(c)[i]
    <3>1. 1 \in 1 .. Len(Stream(c)) + 1 /\ Len(t) \in 0 .. Len(Stream(c))
      BY <1>1, <2>2, StreamIs, TcpSizes
    <3> QED BY <1>1, <1>4, <2>2, <3>1, StreamIs, SubSeqIs
  <2>4. \A i \in 1 .. Len(t) : t[i] = SubSeq(Stream(c), 1, Len(t))[i]
    <3> SUFFICES ASSUME NEW i \in 1 .. Len(t) PROVE t[i] = SubSeq(Stream(c), 1, Len(t))[i]
      OBVIOUS
    <3>1. i \in 1 .. N
      BY <2>2, TcpSizes
    <3>2. Stream(c)[i] = <<c, i>>
      BY <1>1, <3>1, StreamIs
    <3> QED BY <1>5, <2>3, <3>2
  <2> QED BY <1>3, <2>1, <2>2, <2>3, <2>4, SeqEqual
<1> QED BY <1>1, <1>3, <1>6 DEF Bytes!BRead

(* Steps of connection, data, close and network that the application does not see
   leave its bytes alone; tcp_connect opens the next stream, tcp_recv reads on. *)
LEMMA StepRefines ==
  ASSUME N <= RxCap, StreamInv, StreamInv', cut' = {}, Step
  PROVE  [Bytes!BOpen \/ Bytes!BRead]_(Bytes!bvars)
<1>1. CASE Open
  BY <1>1 DEF Open, Bytes!BOpen
<1>2. ASSUME NEW maxlen \in Nat \ {0}, TcpRecv(maxlen) PROVE Bytes!BRead
  BY <1>2, RecvReads
<1>3. CASE TcpSend \/ TcpClose \/ TcpOnRx \/ Environment \/ UNCHANGED vars
  <2>1. UNCHANGED <<opened, taken>>
    BY Zenon, <1>3 DEF TcpSend, TcpClose, TcpOnRx, Environment, PeerRx, PeerData, PeerFin,
                PeerSynAckAgain, PeerReset, LoseSegment, vars
  <2> QED BY <2>1 DEF Bytes!bvars
<1> QED BY <1>1, <1>2, <1>3 DEF Step

(* The socket of tcp.c implements the byte stream its application counts on, for
   a buffer that holds the stream: the bytes of the connection opened last, in
   order, each once, none of an earlier connection. *)
THEOREM TcpRefinesByteStream == ASSUME N <= RxCap PROVE Spec => ImplementsByteStream
<1>1. Init => StreamInv /\ cut = {} /\ Bytes!BInit
  <2>1. Init => StreamInv
    BY TypesInitially, StreamsInitially DEF StreamInv
  <2> QED BY <2>1 DEF Init, Conn, Bytes!BInit
<1>2. StreamInv /\ cut = {} /\ [Next]_vars => (StreamInv /\ cut = {})'
  <2>1. StreamInv /\ [Next]_vars => StreamInv'
    BY NextSteps, TypesKept, GenuineKept, StreamsKept DEF StreamInv
  <2> QED BY <2>1, NextSteps, NothingCut
<1>3. StreamInv /\ StreamInv' /\ (cut = {})' /\ [Next]_vars
        => [Bytes!BOpen \/ Bytes!BRead]_(Bytes!bvars)
  BY NextSteps, StepRefines
<1> QED BY <1>1, <1>2, <1>3, PTL DEF Spec, ImplementsByteStream, Bytes!BSpec

================================================================================
