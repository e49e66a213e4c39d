------------------------------ MODULE E1000Proofs -------------------------------
(***************************************************************************)
(* Proofs about E1000: types, that no frame is handed over twice or lost   *)
(* but by arrivals during a poll, and that frames are sent in order, for   *)
(* rings of any size and any number of frames.                             *)
(***************************************************************************)
EXTENDS E1000, TLAPS

(* Indices that wrap around stay in the ring. *)
LEMMA Wraps == ASSUME NEW i \in Int, NEW n \in Nat \ {0} PROVE i % n \in 0 .. n - 1
  OBVIOUS

LEMMA RxWraps == \A i \in Int : i % NRx \in RxDesc
  BY Wraps, E1000Sizes DEF RxDesc
LEMMA TxWraps == \A i \in Int : i % NTx \in TxDesc
  BY Wraps, E1000Sizes DEF TxDesc

(* The two halves of TypeOK. *)
RxTypes == /\ rx_ring \in [RxDesc -> 0 .. MaxRx]
           /\ RDH \in RxDesc /\ RDT \in RxDesc
           /\ at \in 0 .. NRx
           /\ taken \in BOOLEAN
           /\ accepted \in 0 .. MaxRx
           /\ got \in Seq(1 .. MaxRx)
           /\ inPoll \in BOOLEAN
TxTypes == /\ tx_ring \in [TxDesc -> 0 .. MaxTx]
           /\ TDH \in TxDesc /\ tx_tail \in TxDesc
           /\ given \in 0 .. MaxTx
           /\ sent \in Seq(0 .. MaxTx)
           /\ lapped \in BOOLEAN

LEMMA InitTypes == Init => RxTypes /\ TxTypes
<1> SUFFICES ASSUME Init PROVE RxTypes /\ TxTypes
  OBVIOUS
<1>1. /\ 0 \in RxDesc /\ NRx - 1 \in RxDesc /\ NRx \in 0 .. NRx
      /\ 0 \in TxDesc /\ 0 \in 0 .. MaxRx /\ 0 \in 0 .. MaxTx
  BY E1000Sizes DEF RxDesc, TxDesc
<1>2. << >> \in Seq(1 .. MaxRx) /\ << >> \in Seq(0 .. MaxTx)
  OBVIOUS
<1>3. RxTypes
  BY <1>1, <1>2 DEF Init, RxTypes
<1>4. TxTypes
  BY <1>1, <1>2 DEF Init, TxTypes
<1> QED BY <1>3, <1>4

(* Each action on the receive ring keeps its types. *)
LEMMA RxTypesKept == RxTypes /\ [Next]_vars => RxTypes'
<1> SUFFICES ASSUME RxTypes, [Next]_vars PROVE RxTypes'
  OBVIOUS
<1> USE DEF RxTypes
<1>0. at < NRx => at \in RxDesc /\ at + 1 \in 0 .. NRx
  BY E1000Sizes DEF RxDesc
<1>1. CASE CardReceives
  <2>1. accepted + 1 \in 0 .. MaxRx
    BY <1>1, E1000Sizes DEF CardReceives
  <2>2. (RDH + 1) % NRx \in RxDesc
    <3>1. RDH + 1 \in Int
      BY E1000Sizes DEF RxDesc
    <3> QED BY <3>1, RxWraps
  <2>3. inPoll' \in BOOLEAN
    BY <1>1, Zenon DEF CardReceives
  <2> QED BY <1>1, <2>1, <2>2, <2>3 DEF CardReceives
<1>2. CASE Poll
  BY <1>2, E1000Sizes DEF Poll
<1>3. CASE Skip
  BY <1>0, <1>3 DEF Skip, SkipTo
<1>4. CASE Take
  <2>1. rx_ring[at] \in 1 .. MaxRx
    BY <1>0, <1>4, E1000Sizes DEF Take
  <2>2. got' \in Seq(1 .. MaxRx)
    BY <1>4, <2>1 DEF Take
  <2>3. taken' \in BOOLEAN
    BY <1>4, Zenon DEF Take
  <2> QED BY <1>4, <2>2, <2>3 DEF Take
<1>5. CASE GiveBack
  <2>1. rx_ring' \in [RxDesc -> 0 .. MaxRx] /\ RDT' \in RxDesc /\ at' \in 0 .. NRx
    BY <1>0, <1>5, E1000Sizes DEF GiveBack, Return, Cleared
  <2>2. taken' \in BOOLEAN
    BY <1>5, Zenon DEF GiveBack, Return
  <2> QED BY <1>5, <2>1, <2>2 DEF GiveBack, Return
<1>6. CASE NicTx \/ CardSends \/ UNCHANGED vars
  BY <1>6 DEF NicTx, Fill, CardSends, vars, rxvars
<1> QED BY <1>1, <1>2, <1>3, <1>4, <1>5, <1>6 DEF Next, Driver

(* Each action on the transmit ring keeps its types. *)
LEMMA TxTypesKept == TxTypes /\ [Next]_vars => TxTypes'
<1> SUFFICES ASSUME TxTypes, [Next]_vars PROVE TxTypes'
  OBVIOUS
<1> USE DEF TxTypes
<1>1. CASE NicTx
  <2>1. given + 1 \in 0 .. MaxTx
    BY <1>1, E1000Sizes DEF NicTx, Fill
  <2>2. (tx_tail + 1) % NTx \in TxDesc
    <3>1. tx_tail + 1 \in Int
      BY E1000Sizes DEF TxDesc
    <3> QED BY <3>1, TxWraps
  <2>3. lapped' \in BOOLEAN
    BY <1>1, Zenon DEF NicTx, Fill
  <2> QED BY <1>1, <2>1, <2>2, <2>3 DEF NicTx, Fill
<1>2. CASE CardSends
  <2>1. (TDH + 1) % NTx \in TxDesc
    <3>1. TDH + 1 \in Int
      BY E1000Sizes DEF TxDesc
    <3> QED BY <3>1, TxWraps
  <2>2. sent' \in Seq(0 .. MaxTx)
    BY <1>2 DEF CardSends
  <2> QED BY <1>2, <2>1, <2>2 DEF CardSends
<1>3. CASE CardReceives \/ Poll \/ Driver \/ UNCHANGED vars
  BY <1>3 DEF CardReceives, Poll, Driver, Skip, SkipTo, Take, GiveBack, Return, vars, txvars
<1> QED BY <1>1, <1>2, <1>3 DEF Next

LEMMA TypesHold == Spec => [](RxTypes /\ TxTypes)
  BY InitTypes, RxTypesKept, TxTypesKept, PTL DEF Spec

(* Heads, tails and the index of the loop stay in their rings, whatever the
   card and the calls of nic_tx do (e1000e.c:164-199). *)
THEOREM RingTypes == Spec => []TypeOK
<1>1. RxTypes /\ TxTypes => TypeOK
  BY DEF RxTypes, TxTypes, TypeOK
<1> QED BY <1>1, TypesHold, PTL

--------------------------------------------------------------------------------
(* Frames that wait in the ring are different, and none of them was handed
   over, but the one of the descriptor that is about to be given back. *)
Waiting == /\ \A i \in RxDesc : rx_ring[i] <= accepted
           /\ \A i, j \in RxDesc : rx_ring[i] = rx_ring[j] /\ rx_ring[i] # 0 => i = j
           /\ \A k \in DOMAIN got : got[k] <= accepted
           /\ \A i \in RxDesc, k \in DOMAIN got :
                rx_ring[i] = got[k] => taken /\ i = at
OnceInv == RxTypes /\ Waiting /\ NoFrameTwice

LEMMA OnceInitially == Init => Waiting /\ NoFrameTwice
<1> SUFFICES ASSUME Init PROVE Waiting /\ NoFrameTwice
  OBVIOUS
<1>1. DOMAIN got = {}
  BY DEF Init
<1>2. \A i \in RxDesc : rx_ring[i] = 0 /\ accepted = 0
  BY DEF Init
<1> QED BY <1>1, <1>2 DEF Waiting, NoFrameTwice

LEMMA OnceKept == OnceInv /\ [Next]_vars => Waiting' /\ NoFrameTwice'
<1> SUFFICES ASSUME OnceInv, [Next]_vars PROVE Waiting' /\ NoFrameTwice'
  OBVIOUS
<1> USE DEF OnceInv
<1>0. /\ \A i \in RxDesc : rx_ring[i] \in Nat
      /\ \A k \in DOMAIN got : got[k] \in Nat \ {0}
      /\ accepted \in Nat
      /\ rx_ring = [i \in RxDesc |-> rx_ring[i]]
  BY E1000Sizes DEF RxTypes
<1>1. CASE CardReceives
  <2>1. /\ accepted' = accepted + 1 /\ got' = got /\ taken' = taken /\ at' = at
        /\ \A i \in RxDesc : rx_ring'[i] = IF i = RDH THEN accepted + 1 ELSE rx_ring[i]
    BY <1>1 DEF CardReceives, RxTypes
  <2>2. Waiting'
    BY <1>0, <2>1 DEF Waiting
  <2> QED BY <2>1, <2>2 DEF NoFrameTwice
<1>2. CASE Take
  <2>1. /\ at \in RxDesc /\ ~taken /\ rx_ring[at] # 0 /\ taken' /\ at' = at
        /\ rx_ring' = rx_ring /\ accepted' = accepted
    BY <1>2, E1000Sizes DEF Take, RxTypes, RxDesc
  <2>2. /\ DOMAIN got' = DOMAIN got \cup {Len(got) + 1}
        /\ Len(got) + 1 \notin DOMAIN got
        /\ got'[Len(got) + 1] = rx_ring[at]
        /\ \A k \in DOMAIN got : got'[k] = got[k]
    BY <1>2 DEF Take, RxTypes
  <2>3. \A k \in DOMAIN got : got[k] # rx_ring[at]
    BY <2>1 DEF Waiting
  <2>4. NoFrameTwice'
    BY <2>2, <2>3 DEF NoFrameTwice
  <2>5. Waiting'
    BY <1>0, <2>1, <2>2 DEF Waiting
  <2> QED BY <2>4, <2>5
<1>3. CASE GiveBack
  <2>1. /\ at \in RxDesc /\ got' = got /\ accepted' = accepted
        /\ \A i \in RxDesc : rx_ring'[i] = IF i = at THEN 0 ELSE rx_ring[i]
    BY <1>3, E1000Sizes DEF GiveBack, Return, Cleared, RxTypes, RxDesc
  <2>2. Waiting'
    BY <1>0, <2>1 DEF Waiting
  <2> QED BY <2>1, <2>2 DEF NoFrameTwice
<1>4. CASE Poll \/ Skip
  <2>1. rx_ring' = rx_ring /\ got' = got /\ accepted' = accepted /\ taken' = taken
    BY <1>4 DEF Poll, Skip, SkipTo
  <2>2. \A i \in RxDesc, k \in DOMAIN got : rx_ring[i] # got[k]
    BY <1>4, E1000Sizes DEF Poll, Skip, SkipTo, Waiting, RxDesc
  <2> QED BY <2>1, <2>2 DEF Waiting, NoFrameTwice
<1>5. CASE NicTx \/ CardSends \/ UNCHANGED vars
  BY <1>5 DEF NicTx, Fill, CardSends, vars, rxvars, Waiting, NoFrameTwice
<1> QED BY <1>1, <1>2, <1>3, <1>4, <1>5 DEF Next, Driver

(* No frame is handed to net_rx twice (e1000e.c:186-195), though the card may
   fill the descriptor again before it is given back. *)
THEOREM FramesOnce == Spec => []NoFrameTwice
<1>1. Init => OnceInv
  BY InitTypes, OnceInitially DEF OnceInv
<1>2. OnceInv /\ [Next]_vars => OnceInv'
  BY RxTypesKept, OnceKept DEF OnceInv
<1>3. OnceInv => NoFrameTwice
  BY DEF OnceInv
<1> QED BY <1>1, <1>2, <1>3, PTL DEF Spec

--------------------------------------------------------------------------------
(* How far descriptor i is from descriptor h, around the ring; the one after
   i. *)
Ahead(i, h) == IF i >= h THEN i - h ELSE i - h + NTx
After(i) == IF i = NTx - 1 THEN 0 ELSE i + 1

LEMMA ModSmall == ASSUME NEW n \in Nat \ {0}, NEW i \in 0 .. n - 1
                  PROVE  i % n = i /\ (i - n) % n = i /\ n % n = 0
  OBVIOUS

LEMMA RingSteps ==
  ASSUME NEW i \in TxDesc, NEW h \in TxDesc
  PROVE  (i - h) % NTx = Ahead(i, h) /\ (i + 1) % NTx = After(i)
<1>0. NTx \in Nat \ {0} /\ i \in 0 .. NTx - 1 /\ h \in 0 .. NTx - 1
  BY E1000Sizes DEF TxDesc
<1>1. (i - h) % NTx = Ahead(i, h)
  <2>1. CASE i >= h
    <3>1. i - h \in 0 .. NTx - 1
      BY <1>0, <2>1
    <3> QED BY <1>0, <2>1, <3>1, ModSmall DEF Ahead
  <2>2. CASE i < h
    <3>1. i - h + NTx \in 0 .. NTx - 1 /\ (i - h + NTx) - NTx = i - h
      BY <1>0, <2>2
    <3>2. ((i - h + NTx) - NTx) % NTx = i - h + NTx
      BY <1>0, <3>1, ModSmall
    <3> QED BY <1>0, <2>2, <3>1, <3>2 DEF Ahead
  <2> QED BY <1>0, <2>1, <2>2
<1>2. (i + 1) % NTx = After(i)
  <2>1. CASE i = NTx - 1
    <3>1. i + 1 = NTx
      BY <1>0, <2>1
    <3> QED BY <1>0, <2>1, <3>1, ModSmall DEF After
  <2>2. CASE i # NTx - 1
    <3>1. i + 1 \in 0 .. NTx - 1
      BY <1>0, <2>2
    <3> QED BY <1>0, <2>2, <3>1, ModSmall DEF After
  <2> QED BY <2>1, <2>2
<1> QED BY <1>1, <1>2

(* The frames between head and tail are those given last and not yet sent, in
   order. *)
Queued == \A i \in TxDesc : Ahead(i, TDH) < Unsent =>
                             tx_ring[i] = Len(sent) + 1 + Ahead(i, TDH)
SendInv == TxTypes /\ (lapped \/ (InOrder /\ Queued))

LEMMA UnsentIs == TxTypes => Unsent = Ahead(tx_tail, TDH)
  BY RingSteps DEF TxTypes, Unsent

LEMMA SendInitially == Init => SendInv
<1> SUFFICES ASSUME Init PROVE SendInv
  OBVIOUS
<1>1. TxTypes /\ Unsent = 0
  BY InitTypes, UnsentIs, E1000Sizes DEF Init, Ahead
<1>2. InOrder
  BY <1>1 DEF Init, InOrder
<1>3. Queued
  BY <1>1, E1000Sizes DEF Queued, Ahead, Init, TxDesc
<1> QED BY <1>1, <1>2, <1>3 DEF SendInv

LEMMA SendKept == SendInv /\ [Next]_vars => SendInv'
<1> SUFFICES ASSUME SendInv, [Next]_vars PROVE SendInv'
  OBVIOUS
<1> USE DEF SendInv
<1>0. TxTypes' /\ Unsent = Ahead(tx_tail, TDH) /\ Unsent' = Ahead(tx_tail', TDH')
  <2>1. TxTypes' /\ TxTypes
    BY TxTypesKept
  <2>2. Unsent = Ahead(tx_tail, TDH)
    BY <2>1, UnsentIs
  <2>3. (tx_tail' - TDH') % NTx = Ahead(tx_tail', TDH')
    BY <2>1, RingSteps DEF TxTypes
  <2> QED BY <2>1, <2>2, <2>3 DEF Unsent, Ahead
<1>n. /\ NTx \in Nat /\ NTx >= 2
      /\ TDH \in 0 .. NTx - 1 /\ tx_tail \in 0 .. NTx - 1
      /\ given \in Nat /\ Len(sent) \in Nat
  BY E1000Sizes DEF TxTypes, TxDesc
<1>1. CASE NicTx
  <2>1. SUFFICES ASSUME ~lapped' PROVE InOrder' /\ Queued'
    BY <1>0
  <2>2. ~lapped /\ Unsent # NTx - 1
    BY <1>1, <2>1 DEF NicTx, Fill
  <2>3. /\ tx_tail' = After(tx_tail) /\ TDH' = TDH /\ sent' = sent /\ given' = given + 1
        /\ \A i \in TxDesc : tx_ring'[i] = IF i = tx_tail THEN given + 1 ELSE tx_ring[i]
    BY <1>1, RingSteps DEF NicTx, Fill, TxTypes
  <2>4. Unsent' = Unsent + 1 /\ Unsent \in Nat
    BY <1>0, <1>n, <2>2, <2>3 DEF Ahead, After
  <2>5. InOrder'
    BY <1>n, <2>2, <2>3, <2>4 DEF InOrder
  <2>6. ASSUME NEW i \in TxDesc, Ahead(i, TDH) < Unsent + 1
        PROVE  tx_ring'[i] = Len(sent) + 1 + Ahead(i, TDH)
    <3>1. i \in 0 .. NTx - 1
      BY DEF TxDesc
    <3>2. CASE i = tx_tail
      <4>1. tx_ring'[i] = given + 1 /\ Ahead(i, TDH) = Unsent
        BY <1>0, <2>3, <3>2
      <4>2. Len(sent) + Unsent = given
        BY <2>2 DEF InOrder
      <4> QED BY <1>n, <2>4, <4>1, <4>2
    <3>3. CASE i # tx_tail
      <4>1. Ahead(i, TDH) < Unsent
        BY <1>0, <1>n, <2>4, <2>6, <3>1, <3>3 DEF Ahead
      <4> QED BY <2>2, <2>3, <3>3, <4>1 DEF Queued
    <3> QED BY <3>2, <3>3
  <2>7. Queued'
    BY <2>3, <2>4, <2>6 DEF Queued, Ahead
  <2> QED BY <2>5, <2>7
<1>2. CASE CardSends
  <2>1. SUFFICES ASSUME ~lapped PROVE InOrder' /\ Queued'
    BY <1>0, <1>2 DEF CardSends
  <2>2. /\ TDH # tx_tail /\ TDH' = After(TDH) /\ tx_tail' = tx_tail
        /\ tx_ring' = tx_ring /\ given' = given
        /\ sent' = Append(sent, tx_ring[TDH])
    BY <1>2, RingSteps DEF CardSends, TxTypes
  <2>3. Unsent' = Unsent - 1 /\ Unsent \in Nat \ {0}
    BY <1>0, <1>n, <2>2 DEF Ahead, After
  <2>4. tx_ring[TDH] = Len(sent) + 1
    <3>1. TDH \in TxDesc /\ Ahead(TDH, TDH) = 0
      BY <1>n DEF TxTypes, Ahead
    <3> QED BY <1>n, <2>1, <2>3, <3>1 DEF Queued
  <2>5. Len(sent') = Len(sent) + 1 /\ \A k \in DOMAIN sent' : sent'[k] = k
    BY <2>1, <2>2, <2>4 DEF InOrder, TxTypes
  <2>6. InOrder'
    BY <1>n, <2>1, <2>2, <2>3, <2>5 DEF InOrder
  <2>7. ASSUME NEW i \in TxDesc, Ahead(i, After(TDH)) < Unsent - 1
        PROVE  tx_ring[i] = Len(sent) + 2 + Ahead(i, After(TDH))
    <3>1. i \in 0 .. NTx - 1
      BY DEF TxDesc
    <3>2. Ahead(i, TDH) < Unsent /\ Ahead(i, TDH) = Ahead(i, After(TDH)) + 1
      BY <1>0, <1>n, <2>3, <2>7, <3>1 DEF Ahead, After
    <3>3. Ahead(i, After(TDH)) \in Int
      BY <1>n, <3>1 DEF Ahead, After
    <3> QED BY <1>n, <2>1, <3>2, <3>3 DEF Queued
  <2>8. Queued'
    <3>1. ASSUME NEW i \in TxDesc, Ahead(i, After(TDH)) < Unsent - 1
          PROVE  tx_ring[i] = Len(sent) + 1 + 1 + Ahead(i, After(TDH))
      BY <1>n, <2>7, <3>1
    <3> QED BY <2>2, <2>3, <2>5, <3>1 DEF Queued, Ahead
  <2> QED BY <2>6, <2>8
<1>3. CASE CardReceives \/ Poll \/ Driver \/ UNCHANGED vars
  <2>1. UNCHANGED txvars
    BY <1>3 DEF CardReceives, Poll, Driver, Skip, SkipTo, Take, GiveBack, Return, vars
  <2> QED BY <1>0, <2>1 DEF txvars, InOrder, Queued, Unsent, Ahead
<1> QED BY <1>1, <1>2, <1>3 DEF Next

(* The card sends every frame given to nic_tx, once and in order, as long as
   nic_tx does not lap it (e1000e.c:164-179). *)
THEOREM SentInOrder == Spec => []SentUnlessLapped
<1>1. SendInv => SentUnlessLapped
  BY DEF SendInv, SentUnlessLapped
<1> QED BY <1>1, SendInitially, SendKept, PTL DEF Spec

--------------------------------------------------------------------------------
(* Receiving without arrivals during a poll. *)

(* The descriptors between the card's head and the driver's tail. *)
Owned(i) == IF RDH <= RDT THEN RDH <= i /\ i < RDT ELSE RDH <= i \/ i < RDT

(* Descriptors are clear where the card may store a frame: outside of a poll all
   that it owns, in a poll those the loop has passed, and always its head; the
   frame of descriptor `at' is lost by nobody when it is given back. *)
Quiet == /\ at = NRx => \A i \in RxDesc : Owned(i) => rx_ring[i] = 0
         /\ \A i \in RxDesc : at < NRx /\ i < at => rx_ring[i] = 0
         /\ taken => rx_ring[at] # 0 /\ Got(rx_ring[at])
         /\ rx_ring[RDH] = 0
         /\ RDH # RDT \/ \E i \in RxDesc : rx_ring[i] # 0
         /\ \A f \in 1 .. accepted : Ready(f) \/ Got(f)

(* The tail's descriptor is not the card's, and was cleared before it became the
   tail: when the ring is full it is the one that keeps the card going. *)
TailClear == rx_ring[RDT] = 0 /\ (taken => at < NRx)
LossInv == RxTypes /\ TailClear /\ (inPoll \/ Quiet)

(* The card's head moves to the next descriptor around the ring. *)
Next1(i) == IF i = NRx - 1 THEN 0 ELSE i + 1
LEMMA HeadMoves == ASSUME NEW i \in RxDesc PROVE (i + 1) % NRx = Next1(i)
<1>0. NRx \in Nat \ {0} /\ i \in 0 .. NRx - 1
  BY E1000Sizes DEF RxDesc
<1>1. CASE i = NRx - 1
  <2>1. i + 1 = NRx
    BY <1>0, <1>1
  <2> QED BY <1>0, <1>1, <2>1, ModSmall DEF Next1
<1>2. CASE i # NRx - 1
  <2>1. i + 1 \in 0 .. NRx - 1
    BY <1>0, <1>2
  <2> QED BY <1>0, <1>2, <2>1, ModSmall DEF Next1
<1> QED BY <1>1, <1>2

LEMMA LossInitially == Init => LossInv
<1> SUFFICES ASSUME Init PROVE LossInv
  OBVIOUS
<1>1. RxTypes
  BY InitTypes
<1>2. /\ \A i \in RxDesc : rx_ring[i] = 0
      /\ RDH = 0 /\ RDT = NRx - 1 /\ at = NRx /\ ~taken /\ accepted = 0
  BY DEF Init
<1>3. 0 \in RxDesc /\ NRx - 1 \in RxDesc /\ RDH # RDT
  BY <1>2, E1000Sizes DEF RxDesc
<1>4. 1 .. accepted = {}
  BY <1>2
<1>5. TailClear
  BY <1>2, <1>3 DEF TailClear
<1>6. Quiet
  BY <1>2, <1>3, <1>4, E1000Sizes DEF Quiet
<1> QED BY <1>1, <1>5, <1>6 DEF LossInv

(* Each action keeps the invariant: the card's, the loop's and the return of a
   descriptor. *)
LEMMA LossKept == LossInv /\ [Next]_vars => LossInv'
<1> SUFFICES ASSUME LossInv, [Next]_vars PROVE LossInv'
  OBVIOUS
<1>0. RxTypes /\ RxTypes' /\ TailClear /\ (inPoll \/ Quiet)
  BY RxTypesKept DEF LossInv
<1>n. /\ NRx \in Nat /\ NRx >= 2 /\ RxDesc = 0 .. NRx - 1
      /\ RDH \in RxDesc /\ RDT \in RxDesc /\ at \in 0 .. NRx /\ accepted \in Nat
      /\ DOMAIN rx_ring = RxDesc /\ rx_ring = [i \in RxDesc |-> rx_ring[i]]
  BY <1>0, E1000Sizes DEF RxTypes, RxDesc
<1>1. CASE CardReceives
  <2>1. /\ RDH # RDT /\ RDH' = Next1(RDH) /\ RDT' = RDT /\ accepted' = accepted + 1
        /\ \A i \in RxDesc : rx_ring'[i] = IF i = RDH THEN accepted + 1 ELSE rx_ring[i]
        /\ at' = at /\ taken' = taken /\ got' = got
    BY <1>1, <1>n, HeadMoves DEF CardReceives
  <2>2. TailClear'
    BY <1>0, <1>n, <2>1 DEF TailClear
  <2>3. ASSUME ~inPoll' PROVE Quiet'
    <3>1. ~inPoll /\ at = NRx /\ Quiet
      BY <1>0, <1>1, <2>3 DEF CardReceives
    <3>2. ~taken
      BY <1>0, <3>1, <1>n DEF TailClear
    <3>3. ASSUME NEW i \in RxDesc, Owned(i)' PROVE rx_ring'[i] = 0
      <4>1. Owned(i) /\ i # RDH
        BY <1>n, <2>1, <3>3 DEF Owned, Next1
      <4> QED BY <2>1, <3>1, <4>1 DEF Quiet
    <3>4. rx_ring'[RDH'] = 0
      <4>1. RDH' \in RxDesc /\ RDH' # RDH
        BY <1>n, <2>1 DEF Next1
      <4>2. CASE RDH' = RDT
        BY <1>0, <2>1, <4>1, <4>2 DEF TailClear
      <4>3. CASE RDH' # RDT
        <5>1. Owned(RDH')
          BY <1>n, <2>1, <4>3 DEF Owned, Next1
        <5> QED BY <2>1, <3>1, <4>1, <5>1 DEF Quiet
      <4> QED BY <4>2, <4>3
    <3>5. \E i \in RxDesc : rx_ring'[i] # 0
      <4>1. rx_ring'[RDH] = accepted + 1 /\ accepted + 1 # 0
        BY <1>n, <2>1
      <4> QED BY <1>n, <4>1
    <3>6. ASSUME NEW f \in 1 .. accepted' PROVE Ready(f)' \/ Got(f)'
      <4>1. CASE f = accepted + 1
        BY <1>n, <2>1, <4>1 DEF Ready
      <4>2. CASE f # accepted + 1
        <5>1. f \in 1 .. accepted
          BY <1>n, <2>1, <4>2
        <5>2. CASE Got(f)
          BY <2>1, <5>2 DEF Got
        <5>3. CASE Ready(f)
          <6>1. PICK i \in RxDesc : rx_ring[i] = f
            BY <5>3 DEF Ready
          <6>2. i # RDH
            BY <3>1, <5>1, <6>1 DEF Quiet
          <6> QED BY <2>1, <6>1, <6>2 DEF Ready
        <5> QED BY <3>1, <5>1, <5>2, <5>3 DEF Quiet
      <4> QED BY <4>1, <4>2
    <3>7. at' = NRx /\ ~taken'
      BY <2>1, <3>1, <3>2
    <3> QED BY <1>n, <3>3, <3>4, <3>5, <3>6, <3>7 DEF Quiet
  <2> QED BY <1>0, <2>2, <2>3 DEF LossInv
<1>2. CASE Poll \/ Skip
  <2>1. /\ UNCHANGED <<rx_ring, RDH, RDT, taken, accepted, got, inPoll>>
        /\ \/ at' = 0 /\ at = NRx
           \/ at' = at + 1 /\ at < NRx /\ rx_ring[at] = 0 /\ ~taken
    BY <1>2 DEF Poll, Skip, SkipTo
  <2>2. ~taken
    BY <1>0, <1>n, <2>1 DEF TailClear
  <2>3. TailClear'
    BY <1>0, <2>1, <2>2 DEF TailClear
  <2>4. ASSUME ~inPoll' PROVE Quiet'
    <3>1. Quiet
      BY <1>0, <2>1, <2>4
    <3>2. ASSUME NEW i \in RxDesc, i < at' PROVE rx_ring[i] = 0
      BY <1>n, <2>1, <3>1, <3>2 DEF Quiet
    <3>3. at' = NRx => \A i \in RxDesc : rx_ring[i] = 0
      BY <1>n, <3>2
    <3>4. \A f : Ready(f)' = Ready(f) /\ Got(f)' = Got(f)
      BY <2>1 DEF Ready, Got
    <3> QED BY <2>1, <2>2, <3>1, <3>2, <3>3, <3>4 DEF Quiet
  <2> QED BY <1>0, <2>3, <2>4 DEF LossInv
<1>3. CASE Take
  <2>1. /\ UNCHANGED <<rx_ring, RDH, RDT, at, accepted, inPoll>> /\ taken' /\ at < NRx
        /\ rx_ring[at] # 0 /\ got' = Append(got, rx_ring[at]) /\ got \in Seq(1 .. MaxRx)
    BY <1>0, <1>3 DEF Take, RxTypes
  <2>2. TailClear'
    BY <1>0, <2>1 DEF TailClear
  <2>3. ASSUME ~inPoll' PROVE Quiet'
    <3>1. Quiet
      BY <1>0, <2>1, <2>3
    <3>2. /\ Len(got) + 1 \in DOMAIN got' /\ got'[Len(got) + 1] = rx_ring[at]
          /\ \A k \in DOMAIN got : k \in DOMAIN got' /\ got'[k] = got[k]
      BY <2>1
    <3>3. Got(rx_ring[at])' /\ \A f : Got(f) => Got(f)'
      BY <2>1, <3>2 DEF Got
    <3>4. \A f : Ready(f)' = Ready(f)
      BY <2>1 DEF Ready
    <3>5. \A f \in 1 .. accepted' : Ready(f)' \/ Got(f)'
      BY <2>1, <3>1, <3>3, <3>4 DEF Quiet
    <3>6. taken' => rx_ring'[at'] # 0 /\ \E k \in DOMAIN got' : got'[k] = rx_ring'[at']
      BY <2>1, <3>2
    <3>7. at' # NRx /\ \A i \in RxDesc : at' < NRx /\ i < at' => rx_ring'[i] = 0
      BY <1>n, <2>1, <3>1 DEF Quiet
    <3>8. rx_ring'[RDH'] = 0 /\ (RDH' # RDT' \/ \E i \in RxDesc : rx_ring'[i] # 0)
      BY <2>1, <3>1 DEF Quiet
    <3> QED BY <3>5, <3>6, <3>7, <3>8 DEF Quiet, Got
  <2> QED BY <1>0, <2>2, <2>3 DEF LossInv
<1>4. CASE GiveBack
  <2>1. /\ UNCHANGED <<RDH, accepted, got, inPoll>> /\ taken /\ ~taken' /\ at < NRx
        /\ at' = at + 1 /\ RDT' = at
        /\ \A i \in RxDesc : rx_ring'[i] = IF i = at THEN 0 ELSE rx_ring[i]
    BY <1>4, <1>n DEF GiveBack, Return, Cleared
  <2>2. at \in RxDesc
    BY <1>n, <2>1
  <2>3. TailClear'
    BY <2>1, <2>2 DEF TailClear
  <2>4. ASSUME ~inPoll' PROVE Quiet'
    <3>1. Quiet /\ rx_ring[at] # 0 /\ Got(rx_ring[at])
      BY <1>0, <2>1, <2>4 DEF Quiet
    <3>2. ASSUME NEW i \in RxDesc, i < at' PROVE rx_ring'[i] = 0
      BY <1>n, <2>1, <3>1, <3>2 DEF Quiet
    <3>3. at' = NRx => \A i \in RxDesc : rx_ring'[i] = 0
      BY <1>n, <3>2
    <3>4. RDH # at /\ rx_ring'[RDH] = 0
      BY <1>n, <2>1, <3>1 DEF Quiet
    <3>5. ASSUME NEW f \in 1 .. accepted PROVE Ready(f)' \/ Got(f)'
      <4>1. CASE Got(f)
        BY <2>1, <4>1 DEF Got
      <4>2. CASE Ready(f)
        <5>1. PICK i \in RxDesc : rx_ring[i] = f
          BY <4>2 DEF Ready
        <5>2. CASE i = at
          BY <2>1, <3>1, <5>1, <5>2 DEF Got
        <5>3. CASE i # at
          BY <2>1, <5>1, <5>3 DEF Ready
        <5> QED BY <5>2, <5>3
      <4> QED BY <3>1, <4>1, <4>2 DEF Quiet
    <3> QED BY <2>1, <3>2, <3>3, <3>4, <3>5 DEF Quiet
  <2> QED BY <1>0, <2>3, <2>4 DEF LossInv
<1>5. CASE NicTx \/ CardSends \/ UNCHANGED vars
  <2>1. UNCHANGED rxvars
    BY <1>5 DEF NicTx, Fill, CardSends, vars
  <2>2. TailClear' = TailClear /\ Quiet' = Quiet /\ inPoll' = inPoll
    BY <2>1 DEF rxvars, TailClear, Quiet, Owned, Ready, Got
  <2> QED BY <1>0, <2>2 DEF LossInv
<1> QED BY <1>1, <1>2, <1>3, <1>4, <1>5 DEF Next, Driver

LEMMA LossInvHolds == Spec => []LossInv
  BY LossInitially, LossKept, PTL DEF Spec

(* The ring of rtl8139_poll and rtl8139_init loses no frame the card accepted as
   long as none arrives during a poll, though a poll that wraps around leaves
   the tail behind frames it took before (e1000e.c:186-199). *)
THEOREM FramesKept == Spec => []NothingLost
<1>1. LossInv => NothingLost
  BY DEF LossInv, Quiet, NothingLost
<1> QED BY <1>1, LossInvHolds, PTL

(* The card can receive again after every poll in which no frame arrived: a full
   ring is not an empty one for it, because one descriptor is never its own. *)
THEOREM StarvedByBurst == Spec => []StarvedOnlyByBurst
<1>1. LossInv => StarvedOnlyByBurst
  BY DEF LossInv, Quiet, StarvedOnlyByBurst, Starved
<1> QED BY <1>1, LossInvHolds, PTL
================================================================================
