------------------------------- MODULE NetProofs -------------------------------
(***************************************************************************)
(* Proofs about the ARP cache and the pending queue of net.c, for any      *)
(* number of slots, any addresses and any packets.                         *)
(***************************************************************************)
EXTENDS Net, WellFoundedInduction, TLAPS

(* A non-empty set of slots has a first one, which Min returns: the loops of
   arp_lookup, arp_store and net_send_ip stop at it. *)
LEMMA FirstSlot ==
  ASSUME NEW N \in Nat, NEW S, S \subseteq 1 .. N, S # {}
  PROVE  Min(S) \in S /\ \A x \in S : Min(S) <= x
<1> DEFINE R == {ss \in Nat \X Nat : ss[1] < ss[2]}
<1>1. S \subseteq Nat
  OBVIOUS
<1>2. IsWellFoundedOn(R, Nat)
  <2>1. R = OpToRel(<, Nat)
    BY Zenon DEF OpToRel
  <2>2. QED BY <2>1, NatLessThanWellFounded, Zenon
<1>3. PICK x \in S : \A y \in S : <<y, x>> \notin R
  <2> HIDE DEF R
  <2>1. QED BY <1>1, <1>2, WFMin
<1>4. \A y \in S : x <= y
  <2> SUFFICES ASSUME NEW y \in S PROVE x <= y
    OBVIOUS
  <2>1. x \in Nat /\ y \in Nat
    BY <1>1
  <2>2. ~ (y < x)
    BY <1>3, <2>1
  <2>3. QED BY <2>1, <2>2
<1>5. QED BY <1>4 DEF Min

(* arp_lookup finds the entry of the address it is asked for. *)
LEMMA LookupHit ==
  ASSUME NEW ip, Resolved(ip)
  PROVE  Min(Hits(ip)) \in CacheSlot /\ cache[Min(Hits(ip))].ip = ip
<1>1. Hits(ip) \subseteq 1 .. NCache /\ Hits(ip) # {} /\ NCache \in Nat
  BY NetSlots DEF Hits, Resolved, CacheSlot
<1>2. Min(Hits(ip)) \in Hits(ip)
  BY <1>1, FirstSlot
<1>3. QED BY <1>2 DEF Hits

(* arp_store writes one slot: that of the address if it has one. *)
LEMMA StoreSlotProperties ==
  ASSUME NEW ip
  PROVE  /\ StoreSlot(ip) \in CacheSlot
         /\ Resolved(ip) => cache[StoreSlot(ip)].ip = ip
<1>1. CASE Resolved(ip)
  BY <1>1, LookupHit DEF StoreSlot, Resolved
<1>2. CASE ~Resolved(ip) /\ Resolved(NoAddr)
  BY <1>2, LookupHit DEF StoreSlot, Resolved
<1>3. CASE ~Resolved(ip) /\ ~Resolved(NoAddr)
  BY <1>3, NetSlots DEF StoreSlot, Resolved, CacheSlot
<1>4. QED BY <1>1, <1>2, <1>3

(* net_send_ip queues a packet in a free slot, or nowhere. *)
LEMMA EnqueuedSlot ==
  ASSUME NEW p
  PROVE  \/ Enqueued(p) = pending
         \/ \E k \in PendingSlot :
              /\ pending[k].dst = NoAddr
              /\ Enqueued(p) = [pending EXCEPT ![k] = [dst |-> DstOf[p], pkt |-> p]]
<1>1. CASE FreePending = {}
  BY <1>1 DEF Enqueued
<1>2. CASE FreePending # {}
  <2>1. FreePending \subseteq 1 .. NPending /\ NPending \in Nat
    BY NetSlots DEF FreePending, PendingSlot
  <2>2. Min(FreePending) \in FreePending
    BY <1>2, <2>1, FirstSlot
  <2>3. QED BY <1>2, <2>2 DEF Enqueued, FreePending
<1>3. QED BY <1>1, <1>2

(* net_send_ip: the next hop is a host of the subnet, or the gateway. *)
LEMMA NextHopOnLink ==
  ASSUME NEW d PROVE NextHop(d) \in OnLink /\ NextHop(d) \in Addr
BY NetAddrs DEF NextHop, Addr

--------------------------------------------------------------------------------
(* The cache and the types.  A frame goes to a MAC (the type of frames) only
   because an entry in use holds one, which is why TypeOK is proved together
   with CacheFresh. *)
CacheInv == TypeOK /\ SlotHoldsPacket /\ NoDuplicateIP /\ CacheFresh

(* What arp_lookup returns is a MAC, the one its address announced last. *)
LEMMA MacOfHeard ==
  ASSUME CacheInv, NEW ip \in Addr, Resolved(ip)
  PROVE  MacOf(ip) = heard[ip] /\ MacOf(ip) \in Mac
<1>1. Min(Hits(ip)) \in CacheSlot /\ cache[Min(Hits(ip))].ip = ip
  BY LookupHit
<1>2. ip # NoAddr
  BY NetAddrs
<1>3. QED BY <1>1, <1>2 DEF CacheInv, CacheFresh, TypeOK, MacOf

(* A frame carries a MAC, so the frames sent stay sequences of MACs. *)
LEMMA TxType ==
  ASSUME CacheInv, NEW p \in Pkt, Resolved(NextHop(DstOf[p])), Tx(p)
  PROVE  frames' \in [Pkt -> Seq(Mac)]
<1>1. MacOf(NextHop(DstOf[p])) \in Mac
  BY MacOfHeard, NextHopOnLink
<1>2. frames \in [Pkt -> Seq(Mac)]
  BY DEF CacheInv, TypeOK
<1> HIDE DEF MacOf
<1>3. Append(frames[p], MacOf(NextHop(DstOf[p]))) \in Seq(Mac)
  BY <1>1, <1>2
<1>4. QED BY <1>2, <1>3 DEF Tx

(* Queueing keeps the queue's type, and its slots hold what was given. *)
LEMMA EnqueuedType ==
  ASSUME CacheInv, NEW p \in Pkt
  PROVE  /\ Enqueued(p) \in
              [PendingSlot -> [dst : Addr \cup {NoAddr}, pkt : Pkt \cup {NoPkt}]]
         /\ \A i \in PendingSlot : Enqueued(p)[i].dst # NoAddr =>
              /\ Enqueued(p)[i].pkt \in Pkt
              /\ Enqueued(p)[i].dst = DstOf[Enqueued(p)[i].pkt]
<1>1. DstOf[p] \in Addr \cup {NoAddr}
  BY NetValues
<1>2. CASE Enqueued(p) = pending
  BY <1>2 DEF CacheInv, TypeOK, SlotHoldsPacket, Waits
<1>3. ASSUME NEW k \in PendingSlot,
             Enqueued(p) = [pending EXCEPT ![k] = [dst |-> DstOf[p], pkt |-> p]]
      PROVE  Enqueued(p) \in
               [PendingSlot -> [dst : Addr \cup {NoAddr}, pkt : Pkt \cup {NoPkt}]]
             /\ \A i \in PendingSlot : Enqueued(p)[i].dst # NoAddr =>
                  /\ Enqueued(p)[i].pkt \in Pkt
                  /\ Enqueued(p)[i].dst = DstOf[Enqueued(p)[i].pkt]
  <2> HIDE DEF Enqueued
  <2>1. pending \in
          [PendingSlot -> [dst : Addr \cup {NoAddr}, pkt : Pkt \cup {NoPkt}]]
    BY DEF CacheInv, TypeOK
  <2>2. QED BY <1>1, <1>3, <2>1 DEF CacheInv, SlotHoldsPacket, Waits
<1>4. QED BY <1>2, <1>3, EnqueuedSlot

(* The cache and the queue start empty. *)
LEMMA CacheInvInit == Init => CacheInv
<1> SUFFICES ASSUME Init PROVE CacheInv
  OBVIOUS
<1>1. TypeOK
  BY NetValues DEF Init, TypeOK, EmptySlot
<1>2. SlotHoldsPacket /\ NoDuplicateIP /\ CacheFresh
  BY DEF Init, SlotHoldsPacket, Waits, EmptySlot, NoDuplicateIP, CacheFresh
<1>3. QED BY <1>1, <1>2 DEF CacheInv

(* Every step keeps the cache's entries unique and fresh. *)
LEMMA CacheInvStep == CacheInv /\ [Next]_vars => CacheInv'
<1> SUFFICES ASSUME CacheInv, [Next]_vars PROVE CacheInv'
  OBVIOUS
<1>1. ASSUME NEW p \in Pkt, SendIp(p) PROVE CacheInv'
  <2>1. UNCHANGED <<cache, flush, lost, heard>> /\ submitted' \subseteq Pkt
    BY <1>1 DEF SendIp, CacheInv, TypeOK
  <2>2. NoDuplicateIP' /\ CacheFresh'
    BY <2>1 DEF CacheInv, NoDuplicateIP, CacheFresh
  <2>3. CASE Resolved(NextHop(DstOf[p])) /\ Tx(p) /\ UNCHANGED <<pending, asked>>
    <3>1. frames' \in [Pkt -> Seq(Mac)]
      BY <2>3, TxType
    <3>2. QED
      BY <2>1, <2>2, <2>3, <3>1 DEF CacheInv, TypeOK, SlotHoldsPacket, Waits
  <2>4. CASE pending' = Enqueued(p) /\ Ask(p) /\ UNCHANGED frames
    <3>1. asked' \subseteq Addr
      BY <2>4, NextHopOnLink DEF Ask, CacheInv, TypeOK
    <3>2. QED
      BY <2>1, <2>2, <2>4, <3>1, EnqueuedType
      DEF CacheInv, TypeOK, SlotHoldsPacket, Waits
  <2>5. QED BY <1>1, <2>3, <2>4 DEF SendIp
<1>2. ASSUME FlushSlot PROVE CacheInv'
  <2> DEFINE i == flush.at
             p == pending[i].pkt
  <2>1. UNCHANGED <<cache, lost, heard, submitted>> /\ flush # Idle
    BY <1>2 DEF FlushSlot
  <2>2. NoDuplicateIP' /\ CacheFresh'
    BY <2>1 DEF CacheInv, NoDuplicateIP, CacheFresh
  <2>3. i \in PendingSlot /\ flush.ip \in Addr
    BY <2>1 DEF CacheInv, TypeOK
  <2>4. flush' \in [ip : Addr, at : PendingSlot] \cup {Idle}
    BY <1>2, <2>1, <2>3, NetSlots DEF FlushSlot, CacheInv, TypeOK, PendingSlot
  <2>5. CASE pending[i].dst # flush.ip
    BY <1>2, <2>1, <2>2, <2>4, <2>5
    DEF FlushSlot, CacheInv, TypeOK, SlotHoldsPacket, Waits
  <2>6. CASE pending[i].dst = flush.ip
    <3>1. p \in Pkt
      BY <2>3, <2>6, NetAddrs DEF CacheInv, SlotHoldsPacket, Waits
    <3>2. CASE /\ Resolved(NextHop(DstOf[p]))
               /\ Tx(p)
               /\ pending' = [pending EXCEPT ![i] = EmptySlot]
               /\ UNCHANGED asked
      <4>1. frames' \in [Pkt -> Seq(Mac)]
        BY <3>1, <3>2, TxType
      <4>2. QED
        BY <2>1, <2>2, <2>3, <2>4, <3>2, <4>1
        DEF CacheInv, TypeOK, SlotHoldsPacket, Waits, EmptySlot
    <3>3. CASE /\ pending' = [Enqueued(p) EXCEPT ![i] = EmptySlot]
               /\ Ask(p)
               /\ UNCHANGED frames
      <4>1. asked' \subseteq Addr
        BY <3>3, NextHopOnLink DEF Ask, CacheInv, TypeOK
      <4>2. QED
        BY <2>1, <2>2, <2>3, <2>4, <3>1, <3>3, <4>1, EnqueuedType
        DEF CacheInv, TypeOK, SlotHoldsPacket, Waits, EmptySlot
    <3>4. QED BY <1>2, <2>6, <3>2, <3>3 DEF FlushSlot
  <2>7. QED BY <2>5, <2>6
<1>3. ASSUME NEW ip \in Addr, NEW mac \in Mac, RxArp(ip, mac) PROVE CacheInv'
  <2>1. PICK k \in CacheSlot :
          /\ cache' = [cache EXCEPT ![k] = [ip |-> ip, mac |-> mac]]
          /\ Resolved(ip) => cache[k].ip = ip
    BY <1>3, StoreSlotProperties DEF RxArp, ArpStore
  <2>2. heard' = [heard EXCEPT ![ip] = mac]
    BY <1>3 DEF RxArp
  <2>3. TypeOK'
    BY <1>3, <2>1, <2>2, NetSlots DEF RxArp, CacheInv, TypeOK, PendingSlot
  <2>4. \A j \in CacheSlot : j # k => cache[j].ip # ip
    BY <2>1, NetAddrs DEF CacheInv, NoDuplicateIP, Resolved, Hits
  <2>5. NoDuplicateIP'
    BY <2>1, <2>4 DEF CacheInv, TypeOK, NoDuplicateIP
  <2>6. CacheFresh'
    BY <2>1, <2>2, <2>4, NetValues DEF CacheInv, TypeOK, CacheFresh
  <2>7. SlotHoldsPacket'
    BY <1>3 DEF RxArp, CacheInv, SlotHoldsPacket, Waits
  <2>8. QED BY <2>3, <2>5, <2>6, <2>7 DEF CacheInv
<1>4. ASSUME NEW ip \in Addr, LoseArp(ip) PROVE CacheInv'
  BY <1>4 DEF LoseArp, CacheInv, TypeOK, SlotHoldsPacket, Waits, NoDuplicateIP,
              CacheFresh
<1>5. CASE UNCHANGED vars
  BY <1>5 DEF vars, CacheInv, TypeOK, SlotHoldsPacket, Waits, NoDuplicateIP,
              CacheFresh
<1>6. QED BY <1>1, <1>2, <1>3, <1>4, <1>5 DEF Next

(* The types hold: nothing the stack does leaves a table or a table's
   domain, and every frame it sends goes to a MAC. *)
THEOREM TypeCorrect == Spec => []TypeOK
<1>1. CacheInv => TypeOK
  BY DEF CacheInv
<1>2. QED BY CacheInvInit, CacheInvStep, <1>1, PTL DEF Spec

(* The ARP cache never holds two entries of one address. *)
THEOREM NoDuplicates == Spec => []NoDuplicateIP
<1>1. CacheInv => NoDuplicateIP
  BY DEF CacheInv
<1>2. QED BY CacheInvInit, CacheInvStep, <1>1, PTL DEF Spec

(* The ARP cache serves the MAC announced last, whatever was evicted. *)
THEOREM CacheIsFresh == Spec => []CacheFresh
<1>1. CacheInv => CacheFresh
  BY DEF CacheInv
<1>2. QED BY CacheInvInit, CacheInvStep, <1>1, PTL DEF Spec

--------------------------------------------------------------------------------
(* The queue, for the destinations of the subnet. *)
WaitInv == CacheInv /\ FlushResolved /\ OnLinkWaitsUnresolved /\ AskedWhileWaiting

(* A host of the subnet is its own next hop. *)
LEMMA HopOfOnLink == ASSUME NEW d \in OnLink PROVE NextHop(d) = d
BY DEF NextHop

(* Nothing waits at the start. *)
LEMMA WaitInvInit == Init => WaitInv
<1> SUFFICES ASSUME Init PROVE WaitInv
  OBVIOUS
<1>1. CacheInv
  BY CacheInvInit
<1>2. FlushResolved /\ OnLinkWaitsUnresolved /\ AskedWhileWaiting
  BY NetAddrs DEF Init, FlushResolved, OnLinkWaitsUnresolved, AskedWhileWaiting,
                  EmptySlot, Addr
<1>3. QED BY <1>1, <1>2 DEF WaitInv

(* Every step keeps the waiting packets unresolved, and asked for. *)
LEMMA WaitInvStep == WaitInv /\ [Next]_vars => WaitInv'
<1> SUFFICES ASSUME WaitInv, [Next]_vars PROVE WaitInv'
  OBVIOUS
<1>0. CacheInv'
  BY CacheInvStep DEF WaitInv
<1> USE DEF WaitInv
<1>1. ASSUME NEW p \in Pkt, SendIp(p) PROVE WaitInv'
  <2>1. UNCHANGED <<cache, flush, lost>> /\ asked \subseteq asked'
    BY <1>1 DEF SendIp, Ask
  <2>2. \A ip : Resolved(ip)' = Resolved(ip)
    BY <2>1 DEF Resolved, Hits
  <2>3. FlushResolved'
    BY <2>1, <2>2 DEF FlushResolved
  <2>4. CASE UNCHANGED pending
    BY <1>0, <2>1, <2>2, <2>3, <2>4 DEF OnLinkWaitsUnresolved, AskedWhileWaiting
  <2>5. ASSUME NEW k \in PendingSlot,
               pending' = [pending EXCEPT ![k] = [dst |-> DstOf[p], pkt |-> p]],
               ~Resolved(NextHop(DstOf[p])),
               NextHop(DstOf[p]) \in asked'
        PROVE  WaitInv'
    <3>1. pending'[k].dst = DstOf[p]
          /\ \A j \in PendingSlot : j # k => pending'[j] = pending[j]
      BY <2>5 DEF CacheInv, TypeOK
    <3>2. OnLinkWaitsUnresolved'
      BY <2>1, <2>2, <2>5, <3>1, HopOfOnLink DEF OnLinkWaitsUnresolved
    <3>3. AskedWhileWaiting'
      BY <2>1, <2>5, <3>1, HopOfOnLink DEF AskedWhileWaiting
    <3>4. QED BY <1>0, <2>3, <3>2, <3>3
  <2>6. CASE /\ ~Resolved(NextHop(DstOf[p]))
             /\ pending' = Enqueued(p)
             /\ Ask(p)
    BY <2>4, <2>5, <2>6, EnqueuedSlot DEF Ask
  <2>7. QED BY <1>1, <2>4, <2>6 DEF SendIp
<1>2. ASSUME FlushSlot PROVE WaitInv'
  <2> DEFINE i == flush.at
             p == pending[i].pkt
  <2>1. UNCHANGED <<cache, lost>> /\ flush # Idle /\ asked \subseteq asked'
    BY <1>2 DEF FlushSlot, Ask
  <2>2. \A ip : Resolved(ip)' = Resolved(ip)
    BY <2>1 DEF Resolved, Hits
  <2>3. /\ i \in PendingSlot /\ flush.ip \in Addr /\ Resolved(flush.ip)
        /\ NPending \in Nat /\ PendingSlot = 1 .. NPending
    BY <2>1, NetSlots DEF CacheInv, TypeOK, FlushResolved, PendingSlot
  <2>4. flush' = IF i = NPending THEN Idle ELSE [flush EXCEPT !.at = i + 1]
    BY <1>2 DEF FlushSlot
  <2>5. FlushResolved'
    BY <2>1, <2>2, <2>3, <2>4 DEF FlushResolved, CacheInv, TypeOK
  <2>6. \A j \in PendingSlot : j # i /\ i <= j =>
          flush'.ip = flush.ip /\ flush'.at <= j
    BY <2>1, <2>3, <2>4 DEF CacheInv, TypeOK
  <2>7. (* what the iteration does to the slots of a destination of the subnet *)
        \A j \in PendingSlot : pending'[j].dst \in OnLink =>
          pending'[j].dst = pending[j].dst /\ (pending[j].dst = flush.ip => j # i)
    <3>1. CASE pending[i].dst # flush.ip /\ UNCHANGED pending
      BY <3>1
    <3>2. CASE pending' = [pending EXCEPT ![i] = EmptySlot]
      BY <2>3, <3>2, NetAddrs DEF CacheInv, TypeOK, EmptySlot, Addr
    <3>3. CASE /\ pending[i].dst = flush.ip
               /\ ~Resolved(NextHop(DstOf[p]))
               /\ pending' = [Enqueued(p) EXCEPT ![i] = EmptySlot]
      <4>1. DstOf[p] = flush.ip
        BY <2>3, <3>3, NetAddrs DEF CacheInv, SlotHoldsPacket, Waits
      <4>2. DstOf[p] \notin OnLink
        BY <2>3, <3>3, <4>1, HopOfOnLink
      <4>3. Enqueued(p) \in
              [PendingSlot -> [dst : Addr \cup {NoAddr}, pkt : Pkt \cup {NoPkt}]]
        BY <2>3, <3>3, NetAddrs, EnqueuedType DEF CacheInv, SlotHoldsPacket, Waits
      <4>4. \A j \in PendingSlot : Enqueued(p)[j].dst \in OnLink =>
              Enqueued(p)[j].dst = pending[j].dst
        <5>1. CASE Enqueued(p) = pending
          BY <5>1
        <5>2. ASSUME NEW k \in PendingSlot,
                     Enqueued(p) = [pending EXCEPT ![k] = [dst |-> DstOf[p], pkt |-> p]]
              PROVE  \A j \in PendingSlot : Enqueued(p)[j].dst \in OnLink =>
                       Enqueued(p)[j].dst = pending[j].dst
          <6> HIDE DEF Enqueued
          <6>1. QED BY <4>2, <5>2 DEF CacheInv, TypeOK
        <5>3. QED BY <5>1, <5>2, EnqueuedSlot
      <4>5. EmptySlot.dst \notin OnLink
        BY NetAddrs DEF EmptySlot, Addr
      <4> HIDE DEF Enqueued
      <4>6. QED BY <2>3, <3>3, <4>3, <4>4, <4>5
    <3>4. QED BY <1>2, <3>1, <3>2, <3>3 DEF FlushSlot
  <2>8. OnLinkWaitsUnresolved'
    BY <2>2, <2>3, <2>6, <2>7 DEF OnLinkWaitsUnresolved
  <2>9. AskedWhileWaiting'
    BY <2>1, <2>3, <2>6, <2>7 DEF AskedWhileWaiting
  <2>10. QED BY <1>0, <2>5, <2>8, <2>9
<1>3. ASSUME NEW ip \in Addr, NEW mac \in Mac, RxArp(ip, mac) PROVE WaitInv'
  <2>1. PICK k \in CacheSlot :
          cache' = [cache EXCEPT ![k] = [ip |-> ip, mac |-> mac]]
    BY <1>3, StoreSlotProperties DEF RxArp, ArpStore
  <2>2. cache'[k].ip = ip /\ \A j \in CacheSlot : j # k => cache'[j] = cache[j]
    BY <2>1 DEF CacheInv, TypeOK
  <2>3. Resolved(ip)' /\ \A d : d # ip /\ ~Resolved(d) => ~Resolved(d)'
    BY <2>2 DEF Resolved, Hits
  <2>4. /\ flush = Idle
        /\ flush' = [ip |-> ip, at |-> 1]
        /\ UNCHANGED pending
        /\ asked' = asked \ {ip}
        /\ lost' = lost \ {ip}
    BY <1>3 DEF RxArp
  <2>5. flush.ip \notin OnLink
    BY <2>4, NetAddrs DEF Idle, Addr
  <2>6. \A j \in PendingSlot : flush'.at <= j
    BY <2>4, NetSlots DEF PendingSlot
  <2>7. FlushResolved'
    BY <2>3, <2>4 DEF FlushResolved
  <2>8. OnLinkWaitsUnresolved'
    BY <2>3, <2>4, <2>5, <2>6 DEF OnLinkWaitsUnresolved
  <2>9. AskedWhileWaiting'
    BY <2>4, <2>5, <2>6 DEF AskedWhileWaiting
  <2>10. QED BY <1>0, <2>7, <2>8, <2>9
<1>4. ASSUME NEW ip \in Addr, LoseArp(ip) PROVE WaitInv'
  BY <1>0, <1>4 DEF LoseArp, FlushResolved, OnLinkWaitsUnresolved,
                    AskedWhileWaiting, Resolved, Hits
<1>5. CASE UNCHANGED vars
  BY <1>0, <1>5 DEF vars, FlushResolved, OnLinkWaitsUnresolved,
                    AskedWhileWaiting, Resolved, Hits
<1>6. QED BY <1>1, <1>2, <1>3, <1>4, <1>5 DEF Next

(* No packet is left in the queue for a host of the subnet that is resolved:
   flush_pending_for_ip misses none of them, and net_send_ip adds none. *)
THEOREM OnLinkNeverStuck == Spec => []OnLinkWaitsUnresolved
<1>1. WaitInv => OnLinkWaitsUnresolved
  BY DEF WaitInv
<1>2. QED BY WaitInvInit, WaitInvStep, <1>1, PTL DEF Spec

(* A packet that waits for a host of the subnet has an ARP request on its way,
   or is about to be flushed, unless the network lost the request. *)
THEOREM OnLinkIsAsked == Spec => []AskedWhileWaiting
<1>1. WaitInv => AskedWhileWaiting
  BY DEF WaitInv
<1>2. QED BY WaitInvInit, WaitInvStep, <1>1, PTL DEF Spec

--------------------------------------------------------------------------------
(* A packet is never in two places. *)
CopyInv == CacheInv /\ OneCopy

(* No packet is anywhere at the start. *)
LEMMA CopyInvInit == Init => CopyInv
<1> SUFFICES ASSUME Init PROVE CopyInv
  OBVIOUS
<1>1. CacheInv
  BY CacheInvInit
<1>2. OneCopy
  BY DEF Init, OneCopy, InOnePlace, Held, Waits, EmptySlot
<1>3. QED BY <1>1, <1>2 DEF CopyInv

(* The first frame of a packet. *)
LEMMA FirstTx ==
  ASSUME CacheInv, NEW p \in Pkt, Resolved(NextHop(DstOf[p])), Tx(p),
         frames[p] = << >>
  PROVE  /\ Len(frames'[p]) = 1
         /\ frames'[p] = Append(frames[p], heard[NextHop(DstOf[p])])
         /\ frames' = [frames EXCEPT ![p] =
                         Append(@, heard[NextHop(DstOf[p])])]
         /\ heard[NextHop(DstOf[p])] \in Mac
         /\ frames'[p] # << >>
<1>1. /\ MacOf(NextHop(DstOf[p])) = heard[NextHop(DstOf[p])]
      /\ MacOf(NextHop(DstOf[p])) \in Mac
  BY MacOfHeard, NextHopOnLink
<1>2. frames \in [Pkt -> Seq(Mac)]
  BY DEF CacheInv, TypeOK
<1> HIDE DEF MacOf
<1>3. frames' = [frames EXCEPT ![p] = Append(@, heard[NextHop(DstOf[p])])]
  BY <1>1 DEF Tx
<1>4. frames'[p] = Append(<< >>, heard[NextHop(DstOf[p])])
  BY <1>2, <1>3
<1>5. Len(frames'[p]) = 1
  BY <1>1, <1>4
<1>6. QED BY <1>1, <1>3, <1>4, <1>5

(* What matters of a step to one packet. *)
LEMMA InOnePlaceKept ==
  ASSUME NEW q, InOnePlace(q), frames'[q] = frames[q], q \in submitted => q \in submitted',
         \A j \in PendingSlot :
           pending'[j].dst # NoAddr /\ pending'[j].pkt = q =>
             pending'[j] = pending[j]
  PROVE  InOnePlace(q)'
BY DEF InOnePlace, Held, Waits

(* Every step keeps each packet in one place. *)
LEMMA CopyInvStep == CopyInv /\ [Next]_vars => CopyInv'
<1> SUFFICES ASSUME CopyInv, [Next]_vars, NEW q \in Pkt PROVE InOnePlace(q)'
  BY CacheInvStep DEF CopyInv, OneCopy
<1>0. CacheInv /\ InOnePlace(q)
  BY DEF CopyInv, OneCopy
<1>1. ASSUME NEW p \in Pkt, SendIp(p) PROVE InOnePlace(q)'
  <2>1. p \notin submitted /\ submitted' = submitted \cup {p}
    BY <1>1 DEF SendIp
  <2>2. q = p => frames[p] = << >> /\ ~Held(p)
    BY <1>0, <2>1 DEF InOnePlace
  <2>3. CASE Resolved(NextHop(DstOf[p])) /\ Tx(p) /\ UNCHANGED pending
    <3>1. CASE q # p
      <4>1. frames'[q] = frames[q]
        BY <1>0, <2>3, <3>1 DEF Tx, CacheInv, TypeOK
      <4>2. QED BY <1>0, <2>1, <2>3, <4>1, InOnePlaceKept
    <3>2. CASE q = p
      <4>1. Len(frames'[p]) = 1
        BY <1>0, <2>2, <2>3, <3>2, FirstTx
      <4>2. QED
        BY <2>1, <2>2, <2>3, <3>2, <4>1 DEF InOnePlace, Held, Waits
    <3>3. QED BY <3>1, <3>2
  <2>4. CASE UNCHANGED <<pending, frames>>
    BY <1>0, <2>1, <2>4, InOnePlaceKept
  <2>5. ASSUME NEW k \in PendingSlot, pending[k].dst = NoAddr,
               pending' = [pending EXCEPT ![k] = [dst |-> DstOf[p], pkt |-> p]],
               UNCHANGED frames
        PROVE  InOnePlace(q)'
    <3>1. pending'[k].pkt = p
          /\ \A j \in PendingSlot : j # k => pending'[j] = pending[j]
      BY <1>0, <2>5 DEF CacheInv, TypeOK
    <3>2. CASE q # p
      BY <1>0, <2>1, <2>5, <3>1, <3>2, InOnePlaceKept
    <3>3. CASE q = p
      BY <1>0, <2>1, <2>2, <2>5, <3>1, <3>3 DEF InOnePlace, Held, Waits
    <3>4. QED BY <3>2, <3>3
  <2>6. CASE pending' = Enqueued(p) /\ UNCHANGED frames
    BY <2>4, <2>5, <2>6, EnqueuedSlot
  <2>7. QED BY <1>1, <2>3, <2>6 DEF SendIp
<1>2. ASSUME FlushSlot PROVE InOnePlace(q)'
  <2>1. UNCHANGED submitted
    BY <1>2 DEF FlushSlot
  <2>2. PICK i \in PendingSlot : i = flush.at
    BY <1>0, <1>2 DEF FlushSlot, CacheInv, TypeOK
  <2>3. PICK p : p = pending[i].pkt
    OBVIOUS
  <2>4. flush.ip # NoAddr
    BY <1>0, <1>2, NetAddrs DEF FlushSlot, CacheInv, TypeOK
  <2>5. CASE UNCHANGED <<pending, frames>>
    BY <1>0, <2>1, <2>5, InOnePlaceKept
  <2>6. ASSUME pending[i].dst = flush.ip
        PROVE  /\ p \in Pkt /\ p \in submitted /\ frames[p] = << >>
               /\ \A j \in PendingSlot : Waits(j) /\ pending[j].pkt = p => j = i
    <3>1. Waits(i) /\ p \in Pkt
      BY <1>0, <2>2, <2>3, <2>4, <2>6 DEF CacheInv, SlotHoldsPacket, Waits
    <3>2. InOnePlace(p) /\ Held(p)
      BY <2>3, <3>1 DEF CopyInv, OneCopy, Held
    <3>3. QED BY <2>3, <3>1, <3>2 DEF InOnePlace
  <2>7. CASE /\ pending[i].dst = flush.ip
             /\ Resolved(NextHop(DstOf[p]))
             /\ Tx(p)
             /\ pending' = [pending EXCEPT ![i] = EmptySlot]
    <3>1. /\ pending'[i].dst = NoAddr
          /\ \A j \in PendingSlot : j # i => pending'[j] = pending[j]
      BY <1>0, <2>7 DEF CacheInv, TypeOK, EmptySlot
    <3>2. CASE q # p
      <4>1. frames'[q] = frames[q]
        BY <1>0, <2>7, <3>2 DEF Tx, CacheInv, TypeOK
      <4>2. QED BY <1>0, <2>1, <3>1, <4>1, InOnePlaceKept
    <3>3. CASE q = p
      <4>1. Len(frames'[p]) = 1
        BY <1>0, <2>6, <2>7, FirstTx
      <4>2. \A j \in PendingSlot :
              ~ (pending'[j].dst # NoAddr /\ pending'[j].pkt = p)
        BY <2>6, <2>7, <3>1 DEF Waits
      <4>3. QED BY <2>1, <2>6, <2>7, <3>3, <4>1, <4>2 DEF InOnePlace, Held, Waits
    <3>4. QED BY <3>2, <3>3
  <2>8. CASE /\ pending[i].dst = flush.ip
             /\ pending' = [Enqueued(p) EXCEPT ![i] = EmptySlot]
             /\ UNCHANGED frames
    <3>1. CASE Enqueued(p) = pending
      <4>1. /\ pending'[i].dst = NoAddr
            /\ \A j \in PendingSlot : j # i => pending'[j] = pending[j]
        BY <1>0, <2>8, <3>1 DEF CacheInv, TypeOK, EmptySlot
      <4>2. QED BY <1>0, <2>1, <2>8, <4>1, InOnePlaceKept
    <3>2. ASSUME NEW k \in PendingSlot, pending[k].dst = NoAddr,
                 Enqueued(p) = [pending EXCEPT ![k] = [dst |-> DstOf[p], pkt |-> p]]
          PROVE  InOnePlace(q)'
      <4>1. /\ k # i /\ pending'[k].pkt = p /\ pending'[i].dst = NoAddr
            /\ \A j \in PendingSlot : j # k /\ j # i => pending'[j] = pending[j]
        <5> HIDE DEF Enqueued
        <5>1. k # i
          BY <2>4, <2>8, <3>2
        <5>2. QED BY <1>0, <2>8, <3>2, <5>1 DEF CacheInv, TypeOK, EmptySlot
      <4>2. CASE q # p
        BY <1>0, <2>1, <2>8, <4>1, <4>2, InOnePlaceKept
      <4>3. CASE q = p
        <5>1. \A j \in PendingSlot :
                pending'[j].dst # NoAddr /\ pending'[j].pkt = p => j = k
          BY <2>6, <2>8, <4>1 DEF Waits
        <5>2. Len(frames'[p]) <= 1
          BY <1>0, <2>8, <4>3 DEF InOnePlace
        <5>3. QED
          BY <2>1, <2>6, <2>8, <4>3, <5>1, <5>2 DEF InOnePlace, Held, Waits
      <4>4. QED BY <4>2, <4>3
    <3>3. QED BY <3>1, <3>2, EnqueuedSlot
  <2>9. QED BY <1>2, <2>2, <2>3, <2>5, <2>7, <2>8 DEF FlushSlot
<1>3. ASSUME NEW ip \in Addr, NEW mac \in Mac, RxArp(ip, mac)
      PROVE  InOnePlace(q)'
  BY <1>0, <1>3, InOnePlaceKept DEF RxArp
<1>4. ASSUME NEW ip \in Addr, LoseArp(ip) PROVE InOnePlace(q)'
  BY <1>0, <1>4, InOnePlaceKept DEF LoseArp
<1>5. CASE UNCHANGED vars
  BY <1>0, <1>5, InOnePlaceKept DEF vars
<1>6. QED BY <1>1, <1>2, <1>3, <1>4, <1>5 DEF Next

(* No packet is put on the wire twice, nor kept after it was sent. *)
THEOREM NeverTwice == Spec => []OneCopy
<1>1. CopyInv => OneCopy
  BY DEF CopyInv
<1>2. QED BY CopyInvInit, CopyInvStep, <1>1, PTL DEF Spec

(* Every frame goes to the MAC its next hop announced last, also when the
   entry was evicted and learned again between the queueing and the flush. *)
THEOREM LatestMac == Spec => SentToLatestMac
<1>1. CopyInv /\ [Next]_vars =>
        \A p \in Pkt : frames'[p] # frames[p] =>
          frames'[p] = Append(frames[p], heard[NextHop(DstOf[p])])
  <2> SUFFICES ASSUME CopyInv, [Next]_vars, NEW q \in Pkt, frames'[q] # frames[q]
               PROVE  frames'[q] = Append(frames[q], heard[NextHop(DstOf[q])])
    OBVIOUS
  <2>1. CacheInv /\ frames \in [Pkt -> Seq(Mac)]
    BY DEF CopyInv, CacheInv, TypeOK
  <2>2. PICK p \in Pkt : Tx(p) /\ Resolved(NextHop(DstOf[p]))
    <3>1. ASSUME NEW p \in Pkt, SendIp(p)
          PROVE  Tx(p) /\ Resolved(NextHop(DstOf[p]))
      BY <3>1 DEF SendIp
    <3>2. ASSUME FlushSlot
          PROVE  \E p \in Pkt : Tx(p) /\ Resolved(NextHop(DstOf[p]))
      <4>1. flush.at \in PendingSlot /\ flush.ip # NoAddr
        BY <2>1, <3>2, NetAddrs DEF FlushSlot, CacheInv, TypeOK
      <4>2. pending[flush.at].dst = flush.ip
        BY <3>2 DEF FlushSlot
      <4>3. pending[flush.at].pkt \in Pkt
        BY <2>1, <4>1, <4>2 DEF CacheInv, SlotHoldsPacket, Waits
      <4>4. QED BY <3>2, <4>3 DEF FlushSlot
    <3>3. QED BY <3>1, <3>2 DEF Next, RxArp, LoseArp, vars
  <2>3. MacOf(NextHop(DstOf[p])) = heard[NextHop(DstOf[p])]
    BY <2>1, <2>2, MacOfHeard, NextHopOnLink
  <2> HIDE DEF MacOf
  <2>4. QED BY <2>1, <2>2, <2>3 DEF Tx
<1>2. Spec => []CopyInv
  BY CopyInvInit, CopyInvStep, PTL DEF Spec
<1>3. QED BY <1>1, <1>2, PTL DEF Spec, SentToLatestMac

--------------------------------------------------------------------------------
(* What the queue loses. *)

(* A packet queued in a free slot, with a destination that is not the mark of
   a free slot, waits there. *)
LEMMA EnqueuedWaits ==
  ASSUME CacheInv, NEW p \in Pkt, FreePending # {}
  PROVE  \E k \in PendingSlot :
           /\ pending[k].dst = NoAddr
           /\ Enqueued(p)[k] = [dst |-> DstOf[p], pkt |-> p]
           /\ \A j \in PendingSlot : j # k => Enqueued(p)[j] = pending[j]
           /\ Enqueued(p) \in
                [PendingSlot -> [dst : Addr \cup {NoAddr}, pkt : Pkt \cup {NoPkt}]]
<1>1. FreePending \subseteq 1 .. NPending /\ NPending \in Nat
  BY NetSlots DEF FreePending, PendingSlot
<1>2. PICK k : k = Min(FreePending)
  OBVIOUS
<1>3. k \in PendingSlot /\ pending[k].dst = NoAddr
  BY <1>1, <1>2, FirstSlot DEF FreePending
<1>4. Enqueued(p) = [pending EXCEPT ![k] = [dst |-> DstOf[p], pkt |-> p]]
  BY <1>2 DEF Enqueued
<1>5. Enqueued(p) \in
        [PendingSlot -> [dst : Addr \cup {NoAddr}, pkt : Pkt \cup {NoPkt}]]
  BY EnqueuedType
<1> HIDE DEF Enqueued
<1>6. QED BY <1>3, <1>4, <1>5 DEF CacheInv, TypeOK

(* No packet is forgotten while a slot is free: net_send_ip finds the slot, and
   the flush, which clears the slot it sent from after it queued the packet
   again, never clears the one the packet has just been put in. *)
THEOREM NoneForgotten == Spec => LossNeedsFullQueue
<1>1. CacheInv /\ [Next]_vars =>
        \A p \in Pkt :
          (Held(p) \/ p \notin submitted) /\ ~Held(p)' /\ p \in submitted' =>
            frames'[p] # << >> \/ FreePending = {} \/ DstOf[p] = NoAddr
  <2> SUFFICES ASSUME CacheInv, [Next]_vars, NEW q \in Pkt,
                      Held(q) \/ q \notin submitted, q \in submitted',
                      FreePending # {}, DstOf[q] # NoAddr
               PROVE  frames'[q] # << >> \/ Held(q)'
    OBVIOUS
  <2>1. ASSUME NEW s \in Seq(Mac), NEW m \in Mac PROVE Append(s, m) # << >>
    OBVIOUS
  <2>2. ASSUME NEW p \in Pkt, Resolved(NextHop(DstOf[p])), Tx(p)
        PROVE  frames'[p] # << >>
    <3>1. MacOf(NextHop(DstOf[p])) \in Mac
      BY <2>2, MacOfHeard, NextHopOnLink
    <3>2. frames \in [Pkt -> Seq(Mac)]
      BY DEF CacheInv, TypeOK
    <3> HIDE DEF MacOf
    <3>3. frames'[p] = Append(frames[p], MacOf(NextHop(DstOf[p])))
      BY <2>2, <3>2 DEF Tx
    <3>4. QED BY <2>1, <3>1, <3>2, <3>3
  <2>3. CASE UNCHANGED <<pending, submitted>>
    BY <2>3 DEF Held, Waits
  <2>4. ASSUME NEW p \in Pkt, SendIp(p) PROVE frames'[q] # << >> \/ Held(q)'
    <3>1. submitted' = submitted \cup {p}
      BY <2>4 DEF SendIp
    <3>2. CASE Resolved(NextHop(DstOf[p])) /\ Tx(p) /\ UNCHANGED pending
      <4>1. CASE q = p
        BY <2>2, <3>2, <4>1
      <4>2. CASE q # p
        BY <3>1, <3>2, <4>2 DEF Held, Waits
      <4>3. QED BY <4>1, <4>2
    <3>3. CASE pending' = Enqueued(p)
      <4>1. PICK k \in PendingSlot :
              /\ pending[k].dst = NoAddr
              /\ pending'[k] = [dst |-> DstOf[p], pkt |-> p]
              /\ \A j \in PendingSlot : j # k => pending'[j] = pending[j]
        BY <3>3, EnqueuedWaits
      <4>2. CASE q = p
        BY <4>1, <4>2 DEF Held, Waits
      <4>3. CASE q # p
        BY <3>1, <4>1, <4>3 DEF Held, Waits
      <4>4. QED BY <4>2, <4>3
    <3>4. QED BY <2>4, <3>2, <3>3 DEF SendIp
  <2>5. ASSUME FlushSlot PROVE frames'[q] # << >> \/ Held(q)'
    <3>1. PICK i \in PendingSlot : i = flush.at
      BY <2>5 DEF FlushSlot, CacheInv, TypeOK
    <3>2. PICK p : p = pending[i].pkt
      OBVIOUS
    <3>3. flush.ip # NoAddr /\ UNCHANGED submitted
      BY <2>5, NetAddrs DEF FlushSlot, CacheInv, TypeOK
    <3>4. PICK h \in PendingSlot : Waits(h) /\ pending[h].pkt = q
      BY <3>3 DEF Held
    <3>5. CASE UNCHANGED pending
      BY <2>3, <3>3, <3>5
    <3>6. ASSUME pending[i].dst = flush.ip PROVE p \in Pkt /\ DstOf[p] # NoAddr
      BY <3>1, <3>2, <3>3, <3>6 DEF CacheInv, SlotHoldsPacket, Waits
    <3>7. CASE /\ pending[i].dst = flush.ip
               /\ Resolved(NextHop(DstOf[p]))
               /\ Tx(p)
               /\ pending' = [pending EXCEPT ![i] = EmptySlot]
      <4>1. CASE q = p
        BY <2>2, <3>6, <3>7, <4>1
      <4>2. CASE q # p
        <5>1. h # i /\ pending'[h] = pending[h]
          BY <3>2, <3>4, <3>7, <4>2 DEF CacheInv, TypeOK
        <5>2. QED BY <3>4, <5>1 DEF Held, Waits
      <4>3. QED BY <4>1, <4>2
    <3>8. CASE /\ pending[i].dst = flush.ip
               /\ pending' = [Enqueued(p) EXCEPT ![i] = EmptySlot]
      <4>1. PICK k \in PendingSlot :
              /\ pending[k].dst = NoAddr
              /\ Enqueued(p)[k] = [dst |-> DstOf[p], pkt |-> p]
              /\ \A j \in PendingSlot : j # k => Enqueued(p)[j] = pending[j]
              /\ Enqueued(p) \in
                   [PendingSlot -> [dst : Addr \cup {NoAddr}, pkt : Pkt \cup {NoPkt}]]
        BY <3>6, <3>8, EnqueuedWaits
      <4>2. k # i
        BY <3>3, <3>8, <4>1
      <4> HIDE DEF Enqueued
      <4>3. /\ pending'[k] = [dst |-> DstOf[p], pkt |-> p]
            /\ \A j \in PendingSlot : j # k /\ j # i => pending'[j] = pending[j]
        BY <3>8, <4>1, <4>2
      <4>4. CASE q = p
        BY <4>3, <4>4 DEF Held, Waits
      <4>5. CASE q # p
        <5>1. h # i /\ h # k
          BY <3>2, <3>4, <4>1, <4>5 DEF Waits
        <5>2. QED BY <3>4, <4>3, <5>1 DEF Held, Waits
      <4>6. QED BY <4>4, <4>5
    <3>9. QED BY <2>5, <3>1, <3>2, <3>5, <3>7, <3>8 DEF FlushSlot
  <2>6. ASSUME NEW ip \in Addr, NEW mac \in Mac, RxArp(ip, mac)
        PROVE  frames'[q] # << >> \/ Held(q)'
    BY <2>3, <2>6 DEF RxArp
  <2>7. ASSUME NEW ip \in Addr, LoseArp(ip) PROVE frames'[q] # << >> \/ Held(q)'
    BY <2>3, <2>7 DEF LoseArp
  <2>8. QED BY <2>3, <2>4, <2>5, <2>6, <2>7 DEF Next, vars
<1>2. Spec => []CacheInv
  BY CacheInvInit, CacheInvStep, PTL DEF Spec
<1>3. QED BY <1>1, <1>2, PTL DEF Spec, LossNeedsFullQueue

--------------------------------------------------------------------------------
(* The code implements LinkLayer: each step is a step of it, or changes nothing
   of what it sees. *)
Hop == [p \in Pkt |-> NextHop(DstOf[p])]
Fate == [p \in Pkt |-> IF p \notin submitted THEN "new"
                       ELSE IF Held(p) THEN "held" ELSE "gone"]

(* The link layer's HopOf is the next hop of the packet. *)
LEMMA HopIs == ASSUME NEW p \in Pkt PROVE Hop[p] = NextHop(DstOf[p])
BY DEF Hop

(* The packets a step neither sends, queues nor loses keep their fate. *)
LEMMA FateOfOthers ==
  ASSUME NEW p, submitted' \subseteq submitted \cup {p}, submitted \subseteq submitted',
         \A q \in Pkt : q # p => Held(q)' = Held(q)
  PROVE  Fate' = [Fate EXCEPT ![p] = Fate'[p]]
BY DEF Fate

(* Queueing a packet leaves the others where they are. *)
LEMMA HeldOthers ==
  ASSUME NEW p, CacheInv,
         \A i \in PendingSlot : pending'[i] # pending[i] =>
           /\ Waits(i) => pending[i].pkt = p
           /\ pending'[i].dst = NoAddr \/ pending'[i].pkt = p
  PROVE  \A q \in Pkt : q # p => Held(q)' = Held(q)
BY DEF Held, Waits

LinkInv == CacheInv /\ OneCopy /\ CacheInv' /\ OneCopy'

(* net_send_ip is a transmission, a hold or a drop of the link layer. *)
LEMMA SendRefines ==
  ASSUME LinkInv, NEW p \in Pkt, SendIp(p)
  PROVE  Link!Transmit(p) \/ Link!Hold(p) \/ Link!Drop(p)
<1>1. /\ p \notin submitted /\ submitted' = submitted \cup {p}
      /\ UNCHANGED heard
  BY DEF SendIp
<1>2. frames[p] = << >> /\ ~Held(p) /\ Fate[p] = "new"
  BY <1>1 DEF LinkInv, OneCopy, InOnePlace, Fate
<1>3. \A q \in Pkt : q # p => Held(q)' = Held(q)
  <2>1. CASE UNCHANGED pending
    BY <2>1 DEF Held, Waits
  <2>2. ASSUME NEW k \in PendingSlot, pending[k].dst = NoAddr,
               pending' = [pending EXCEPT ![k] = [dst |-> DstOf[p], pkt |-> p]]
        PROVE  \A q \in Pkt : q # p => Held(q)' = Held(q)
    <3>1. pending'[k].pkt = p
          /\ \A j \in PendingSlot : j # k => pending'[j] = pending[j]
      BY <2>2 DEF LinkInv, CacheInv, TypeOK
    <3>2. QED BY <2>2, <3>1, HeldOthers DEF LinkInv, Waits
  <2>3. QED BY <2>1, <2>2, EnqueuedSlot DEF SendIp
<1>4. Fate' = [Fate EXCEPT ![p] = Fate'[p]]
  BY <1>1, <1>3, FateOfOthers
<1>5. CASE Resolved(NextHop(DstOf[p])) /\ Tx(p) /\ UNCHANGED pending
  <2>1. /\ frames' = [frames EXCEPT ![p] = Append(@, heard[Hop[p]])]
        /\ heard[Hop[p]] # NoMac
    BY <1>2, <1>5, FirstTx, HopIs, NetValues DEF LinkInv
  <2>2. Fate'[p] = "gone"
    BY <1>1, <1>2, <1>5 DEF Fate, Held, Waits
  <2>3. QED BY <1>1, <1>2, <1>4, <2>1, <2>2 DEF Link!Transmit, Fate, Hop
<1>6. CASE UNCHANGED frames
  <2>1. CASE Held(p)'
    BY <1>1, <1>2, <1>4, <1>6, <2>1 DEF Link!Hold, Fate
  <2>2. CASE ~Held(p)'
    BY <1>1, <1>2, <1>4, <1>6, <2>2 DEF Link!Drop, Fate
  <2>3. QED BY <2>1, <2>2
<1>7. QED BY <1>5, <1>6 DEF SendIp

(* An iteration of the flush is a transmission, a drop or a stutter. *)
LEMMA FlushRefines ==
  ASSUME LinkInv, FlushSlot
  PROVE  \/ \E p \in Pkt : Link!Transmit(p) \/ Link!Drop(p)
         \/ UNCHANGED <<heard, Fate, frames>>
<1>1. UNCHANGED <<submitted, heard>>
  BY DEF FlushSlot
<1>2. PICK i \in PendingSlot : i = flush.at
  BY DEF FlushSlot, LinkInv, CacheInv, TypeOK
<1>3. PICK p : p = pending[i].pkt
  OBVIOUS
<1>4. flush.ip # NoAddr
  BY NetAddrs DEF FlushSlot, LinkInv, CacheInv, TypeOK
<1>5. CASE UNCHANGED <<pending, frames>>
  BY <1>1, <1>5 DEF Fate, Held, Waits
<1>6. ASSUME pending[i].dst = flush.ip
      PROVE  /\ p \in Pkt /\ Fate[p] = "held" /\ frames[p] = << >>
             /\ p \in submitted
             /\ \A j \in PendingSlot : Waits(j) /\ pending[j].pkt = p => j = i
  <2>1. Waits(i) /\ p \in Pkt
    BY <1>2, <1>3, <1>4, <1>6 DEF LinkInv, CacheInv, SlotHoldsPacket, Waits
  <2>2. InOnePlace(p) /\ Held(p)
    BY <1>3, <2>1 DEF LinkInv, OneCopy, Held
  <2>3. QED BY <1>3, <2>1, <2>2 DEF InOnePlace, Fate
<1>7. CASE /\ pending[i].dst = flush.ip
           /\ Resolved(NextHop(DstOf[p]))
           /\ Tx(p)
           /\ pending' = [pending EXCEPT ![i] = EmptySlot]
  <2>1. /\ pending'[i].dst = NoAddr
        /\ \A j \in PendingSlot : j # i => pending'[j] = pending[j]
    BY <1>7 DEF LinkInv, CacheInv, TypeOK, EmptySlot
  <2>2. \A q \in Pkt : q # p => Held(q)' = Held(q)
    BY <1>3, <2>1, HeldOthers DEF LinkInv
  <2>3. Fate' = [Fate EXCEPT ![p] = Fate'[p]]
    BY <1>1, <2>2, FateOfOthers
  <2>4. Fate'[p] = "gone"
    BY <1>1, <1>6, <1>7, <2>1 DEF Fate, Held, Waits
  <2>5. /\ frames' = [frames EXCEPT ![p] = Append(@, heard[Hop[p]])]
        /\ heard[Hop[p]] # NoMac
    BY <1>6, <1>7, FirstTx, HopIs, NetValues DEF LinkInv
  <2>6. Link!Transmit(p)
    BY <1>1, <1>6, <1>7, <2>3, <2>4, <2>5 DEF Link!Transmit, Fate, Hop
  <2>7. QED BY <1>6, <1>7, <2>6
<1>8. CASE /\ pending[i].dst = flush.ip
           /\ pending' = [Enqueued(p) EXCEPT ![i] = EmptySlot]
           /\ UNCHANGED frames
  <2>1. \A j \in PendingSlot : pending'[j] # pending[j] =>
          /\ Waits(j) => pending[j].pkt = p
          /\ pending'[j].dst = NoAddr \/ pending'[j].pkt = p
    <3>1. CASE Enqueued(p) = pending
      BY <1>3, <1>8, <3>1 DEF LinkInv, CacheInv, TypeOK, EmptySlot
    <3>2. ASSUME NEW k \in PendingSlot, pending[k].dst = NoAddr,
                 Enqueued(p) = [pending EXCEPT ![k] = [dst |-> DstOf[p], pkt |-> p]]
          PROVE  \A j \in PendingSlot : pending'[j] # pending[j] =>
                   /\ Waits(j) => pending[j].pkt = p
                   /\ pending'[j].dst = NoAddr \/ pending'[j].pkt = p
      <4> HIDE DEF Enqueued
      <4>1. QED BY <1>3, <1>8, <3>2 DEF LinkInv, CacheInv, TypeOK, EmptySlot, Waits
    <3>3. QED BY <3>1, <3>2, EnqueuedSlot
  <2>2. \A q \in Pkt : q # p => Held(q)' = Held(q)
    BY <2>1, HeldOthers DEF LinkInv
  <2>3. Fate' = [Fate EXCEPT ![p] = Fate'[p]]
    BY <1>1, <2>2, FateOfOthers
  <2>4. CASE Held(p)'
    <3>1. Fate' = Fate
      BY <1>1, <1>6, <1>8, <2>3, <2>4 DEF Fate
    <3>2. QED BY <1>1, <1>8, <3>1
  <2>5. CASE ~Held(p)'
    <3>1. Fate'[p] = "gone"
      BY <1>1, <1>6, <1>8, <2>5 DEF Fate
    <3>2. Link!Drop(p)
      BY <1>1, <1>6, <1>8, <2>3, <3>1 DEF Link!Drop, Fate
    <3>3. QED BY <1>6, <1>8, <3>2
  <2>6. QED BY <2>4, <2>5
<1>9. QED BY <1>2, <1>3, <1>5, <1>7, <1>8 DEF FlushSlot

(* Every step of net.c is a step of the link layer, or a stutter. *)
LEMMA StepRefines == LinkInv /\ [Next]_vars => [Link!LNext]_(Link!lvars)
<1> SUFFICES ASSUME LinkInv, [Next]_vars PROVE [Link!LNext]_(Link!lvars)
  OBVIOUS
<1>1. ASSUME NEW p \in Pkt, SendIp(p) PROVE Link!LNext
  BY <1>1, SendRefines DEF Link!LNext
<1>2. ASSUME FlushSlot PROVE [Link!LNext]_(Link!lvars)
  BY <1>2, FlushRefines DEF Link!LNext, Link!lvars, Fate
<1>3. ASSUME NEW ip \in Addr, NEW mac \in Mac, RxArp(ip, mac) PROVE Link!LNext
  <2>1. Link!Learn(ip, mac)
    BY <1>3 DEF RxArp, Link!Learn, Held, Waits
  <2>2. QED BY <2>1 DEF Link!LNext
<1>4. ASSUME NEW ip \in Addr, LoseArp(ip) PROVE UNCHANGED Link!lvars
  BY <1>4 DEF LoseArp, Link!lvars, Held, Waits
<1>5. CASE UNCHANGED vars
  BY <1>5 DEF vars, Link!lvars, Held, Waits
<1>6. QED BY <1>1, <1>2, <1>3, <1>4, <1>5 DEF Next

(* net_send_ip, the cache and the queue together put a packet on the wire at
   most once, to the MAC its next hop announced last, or hold it, or lose
   it: eviction and queueing are invisible but for that. *)
THEOREM Refinement == Spec => ImplementsLinkLayer
<1>1. Init => Link!LInit
  BY DEF Init, Link!LInit
<1>2. CacheInv /\ OneCopy <=> CopyInv
  BY DEF CopyInv
<1>3. CopyInv /\ CopyInv' /\ [Next]_vars => [Link!LNext]_(Link!lvars)
  BY StepRefines DEF CopyInv, LinkInv
<1>4. Spec => []CopyInv
  BY CopyInvInit, CopyInvStep, PTL DEF Spec
<1>5. QED BY <1>1, <1>3, <1>4, PTL DEF Spec, ImplementsLinkLayer, Link!LSpec
================================================================================
