---------------------------------- MODULE Net ----------------------------------
(***************************************************************************)
(* The ARP cache and the queue of packets waiting for ARP of net.c.        *)
(*                                                                         *)
(* One thread runs the stack.  net_send_ip and net_rx run to completion    *)
(* except that the loop of flush_pending_for_ip is unrolled: FlushSlot is  *)
(* one iteration, and nothing else runs while `flush' is active.  The      *)
(* hosts of the network answer ARP requests, or announce themselves, at    *)
(* any moment between two calls (RxArp); a request or its answer may be    *)
(* lost (LoseArp).                                                         *)
(***************************************************************************)
EXTENDS Naturals, Sequences, FiniteSetsExt

CONSTANTS NCache,     \* slots of arp_cache (8 in the code)
          NPending,   \* slots of pending (8 in the code)
          OnLink,     \* addresses inside the subnet of g_netif
          OffLink,    \* addresses outside of it
          Gateway,    \* g_netif.gw_ip
          NoAddr,     \* the address 0, which also marks a free slot
          Mac, NoMac, \* hardware addresses; the content of an unused slot
          Pkt, NoPkt, \* packets given to net_send_ip; no packet
          DstOf       \* DstOf[p]: destination of packet p

Addr == OnLink \cup OffLink
CacheSlot == 1 .. NCache
PendingSlot == 1 .. NPending

ASSUME NetSlots == NCache \in Nat \ {0} /\ NPending \in Nat \ {0}
ASSUME NetAddrs == /\ Gateway \in OnLink
                   /\ OnLink \cap OffLink = {}
                   /\ NoAddr \notin Addr
ASSUME NetValues == /\ NoMac \notin Mac
                    /\ NoPkt \notin Pkt
                    /\ DstOf \in [Pkt -> Addr \cup {NoAddr}]

VARIABLES
  cache,      \* arp_cache
  pending,    \* pending: destination and packet of each slot
  flush,      \* the loop of flush_pending_for_ip: its argument and its index
  asked,      \* hosts an ARP request for is on the wire or being answered
  lost,       \* history: hosts for which a request, or its answer, was lost
              \* since they were heard last
  heard,      \* history: heard[a] is the last MAC announced by a
  submitted,  \* history: packets net_send_ip has been called with
  frames      \* history: frames[p] are the MACs nic_tx sent packet p to

vars == <<cache, pending, flush, asked, lost, heard, submitted, frames>>

EmptySlot == [dst |-> NoAddr, pkt |-> NoPkt]
Idle == [ip |-> NoAddr, at |-> 1]

(* The state kmain reaches once net_init and net_set_ipv4 have run. *)
Init == /\ cache = [i \in CacheSlot |-> [ip |-> NoAddr, mac |-> NoMac]]
        /\ pending = [i \in PendingSlot |-> EmptySlot]
        /\ flush = Idle
        /\ asked = {}
        /\ lost = {}
        /\ heard = [a \in Addr |-> NoMac]
        /\ submitted = {}
        /\ frames = [p \in Pkt |-> << >>]

--------------------------------------------------------------------------------
(* The ARP cache. *)

Hits(ip) == {i \in CacheSlot : cache[i].ip = ip}

(* arp_lookup: the first slot that holds ip. *)
Resolved(ip) == Hits(ip) # {}
MacOf(ip) == cache[Min(Hits(ip))].mac

(* Fault: a free slot is taken before looking for the entry of ip. *)
StoreSlot_FreeFirst(ip) == IF Hits(NoAddr) # {} THEN Min(Hits(NoAddr))
                           ELSE IF Hits(ip) # {} THEN Min(Hits(ip))
                           ELSE 1
(* arp_store: refresh the entry of ip, else take a free slot, else evict the
   entry of the first slot. *)
StoreSlot(ip) == IF Hits(ip) # {} THEN Min(Hits(ip))
                 ELSE IF Hits(NoAddr) # {} THEN Min(Hits(NoAddr))
                 ELSE 1
(* Fault: an entry that exists is kept, as dns_cache_store does. *)
ArpStore_KeepOld(ip, mac) ==
  IF Hits(ip) # {} THEN cache
  ELSE [cache EXCEPT ![StoreSlot(ip)] = [ip |-> ip, mac |-> mac]]
ArpStore(ip, mac) == [cache EXCEPT ![StoreSlot(ip)] = [ip |-> ip, mac |-> mac]]

--------------------------------------------------------------------------------
(* Sending. *)

NextHop(dst) == IF dst \in OnLink THEN dst ELSE Gateway

FreePending == {i \in PendingSlot : pending[i].dst = NoAddr}

(* The pending table after net_send_ip queued p: unchanged, and p lost, when
   no slot is free. *)
Enqueued(p) ==
  IF FreePending = {} THEN pending
  ELSE [pending EXCEPT ![Min(FreePending)] = [dst |-> DstOf[p], pkt |-> p]]

(* Fault: no request while another packet already waits. *)
Ask_OnlyFirst(p) ==
  asked' = IF FreePending = PendingSlot THEN asked \cup {NextHop(DstOf[p])}
           ELSE asked
Tx(p) == frames' = [frames EXCEPT ![p] = Append(@, MacOf(NextHop(DstOf[p])))]
Ask(p) == asked' = asked \cup {NextHop(DstOf[p])}

(* net_send_ip, called by UDP or TCP. *)
SendIp(p) ==
  /\ flush = Idle
  /\ p \notin submitted
  /\ submitted' = submitted \cup {p}
  /\ \/ Resolved(NextHop(DstOf[p])) /\ Tx(p) /\ UNCHANGED <<pending, asked>>
     \/ /\ ~Resolved(NextHop(DstOf[p]))
        /\ pending' = Enqueued(p)
        /\ Ask(p)
        /\ UNCHANGED frames
  /\ UNCHANGED <<cache, flush, lost, heard>>

(* Fault: the slot of a packet that was sent is not cleared. *)
FlushSlot_NoClear ==
  LET i == flush.at
      p == pending[i].pkt
  IN /\ flush # Idle
     /\ flush' = IF i = NPending THEN Idle ELSE [flush EXCEPT !.at = i + 1]
     /\ IF pending[i].dst = flush.ip /\ Resolved(NextHop(DstOf[p]))
        THEN Tx(p) ELSE UNCHANGED frames
     /\ UNCHANGED <<cache, pending, asked, lost, heard, submitted>>
(* Fault: the loop ends at the first packet it sends. *)
FlushSlot_OnlyOne ==
  LET i == flush.at
      p == pending[i].pkt
  IN /\ flush # Idle
     /\ \/ /\ pending[i].dst # flush.ip
           /\ flush' = IF i = NPending THEN Idle
                       ELSE [flush EXCEPT !.at = i + 1]
           /\ UNCHANGED <<pending, frames>>
        \/ /\ pending[i].dst = flush.ip
           /\ Resolved(NextHop(DstOf[p]))
           /\ flush' = Idle
           /\ Tx(p)
           /\ pending' = [pending EXCEPT ![i] = EmptySlot]
     /\ UNCHANGED <<cache, asked, lost, heard, submitted>>
(* Fault: the loop runs one slot too far. *)
FlushSlot_OneTooFar ==
  /\ flush # Idle
  /\ flush' = [flush EXCEPT !.at = @ + 1]
  /\ UNCHANGED <<cache, pending, asked, lost, heard, submitted, frames>>
(* Fault: a packet that must wait again is not queued again. *)
FlushSlot_NoRequeue ==
  LET i == flush.at
      p == pending[i].pkt
      due == pending[i].dst = flush.ip
  IN /\ flush # Idle
     /\ flush' = IF i = NPending THEN Idle ELSE [flush EXCEPT !.at = i + 1]
     /\ pending' = IF due THEN [pending EXCEPT ![i] = EmptySlot] ELSE pending
     /\ IF due /\ Resolved(NextHop(DstOf[p])) THEN Tx(p) ELSE UNCHANGED frames
     /\ UNCHANGED <<cache, asked, lost, heard, submitted>>
(* One iteration of flush_pending_for_ip: net_send_ip of the packet of the
   slot, which may queue it again in another slot, and the slot is cleared. *)
FlushSlot ==
  LET i == flush.at
      p == pending[i].pkt
  IN /\ flush # Idle
     /\ flush' = IF i = NPending THEN Idle ELSE [flush EXCEPT !.at = i + 1]
     /\ \/ /\ pending[i].dst # flush.ip
           /\ UNCHANGED <<pending, asked, frames>>
        \/ /\ pending[i].dst = flush.ip
           /\ Resolved(NextHop(DstOf[p]))
           /\ Tx(p)
           /\ pending' = [pending EXCEPT ![i] = EmptySlot]
           /\ UNCHANGED asked
        \/ /\ pending[i].dst = flush.ip
           /\ ~Resolved(NextHop(DstOf[p]))
           /\ pending' = [Enqueued(p) EXCEPT ![i] = EmptySlot]
           /\ Ask(p)
           /\ UNCHANGED frames
     /\ UNCHANGED <<cache, lost, heard, submitted>>

--------------------------------------------------------------------------------
(* Receiving: an ARP packet, request or answer, whose sender is ip. *)
RxArp(ip, mac) ==
  /\ flush = Idle
  /\ cache' = ArpStore(ip, mac)
  /\ heard' = [heard EXCEPT ![ip] = mac]
  /\ asked' = asked \ {ip}
  /\ lost' = lost \ {ip}
  /\ flush' = [ip |-> ip, at |-> 1]
  /\ UNCHANGED <<pending, submitted, frames>>

(* The network loses a request, or its answer: nothing repeats it. *)
LoseArp(ip) == /\ flush = Idle
               /\ ip \in asked
               /\ asked' = asked \ {ip}
               /\ lost' = lost \cup {ip}
               /\ UNCHANGED <<cache, pending, flush, heard, submitted, frames>>

Next == \/ \E p \in Pkt : SendIp(p)
        \/ FlushSlot
        \/ \E ip \in Addr, mac \in Mac : RxArp(ip, mac)
        \/ \E ip \in Addr : LoseArp(ip)

Spec == Init /\ [][Next]_vars

(* The loop runs on, and a host that was asked answers, or the network loses
   the request or the answer.  The answer is in the queue of the NIC, behind a
   finite number of other frames, so it is taken although it cannot be while a
   flush runs. *)
Fairness == /\ WF_vars(FlushSlot)
            /\ \A ip \in Addr :
                 SF_vars(ip \in asked /\ \E mac \in Mac : RxArp(ip, mac))
FairSpec == Spec /\ Fairness

--------------------------------------------------------------------------------
(* Properties. *)

(* The variables keep their types: in particular the loop index of
   flush_pending_for_ip never leaves the table. *)
TypeOK ==
  /\ cache \in [CacheSlot -> [ip : Addr \cup {NoAddr}, mac : Mac \cup {NoMac}]]
  /\ pending \in [PendingSlot ->
                     [dst : Addr \cup {NoAddr}, pkt : Pkt \cup {NoPkt}]]
  /\ flush \in [ip : Addr, at : PendingSlot] \cup {Idle}
  /\ asked \subseteq Addr
  /\ lost \subseteq Addr
  /\ heard \in [Addr -> Mac \cup {NoMac}]
  /\ submitted \subseteq Pkt
  /\ frames \in [Pkt -> Seq(Mac)]

Waits(i) == pending[i].dst # NoAddr
Held(p) == \E i \in PendingSlot : Waits(i) /\ pending[i].pkt = p

(* A slot in use holds a packet and the destination it was given with. *)
SlotHoldsPacket ==
  \A i \in PendingSlot : Waits(i) =>
    pending[i].pkt \in Pkt /\ pending[i].dst = DstOf[pending[i].pkt]

(* The address whose packets are flushed is in the cache. *)
FlushResolved == flush # Idle => Resolved(flush.ip)

(* arp_store never leaves two entries for one address, whatever was evicted
   in between: arp_lookup, which returns the first, would serve the stale
   one. *)
NoDuplicateIP ==
  \A i, j \in CacheSlot :
    cache[i].ip = cache[j].ip /\ cache[i].ip # NoAddr => i = j

(* What the cache holds for an address is the last MAC that address
   announced, through evictions and refreshes. *)
CacheFresh ==
  \A i \in CacheSlot : cache[i].ip # NoAddr =>
    /\ cache[i].mac = heard[cache[i].ip]
    /\ cache[i].mac # NoMac

(* A packet is in at most one place: given once to nic_tx, or in one slot of
   the queue, or nowhere; net_send_ip queueing a packet again from inside the
   flush never leaves a second copy. *)
InOnePlace(p) ==
  /\ Len(frames[p]) <= 1
  /\ p \in submitted \/ frames[p] = << >>
  /\ Held(p) => p \in submitted /\ frames[p] = << >>
  /\ \A i, j \in PendingSlot :
       Waits(i) /\ Waits(j) /\ pending[i].pkt = p /\ pending[j].pkt = p => i = j
OneCopy == \A p \in Pkt : InOnePlace(p)

(* "flush pending packets for an IP once we learn its MAC" (net.c:79), for a
   destination of the subnet: no packet waits for a host whose MAC is in the
   cache, but those the flush under way has still to reach. *)
OnLinkWaitsUnresolved ==
  \A i \in PendingSlot : pending[i].dst \in OnLink =>
    \/ ~Resolved(pending[i].dst)
    \/ flush.ip = pending[i].dst /\ flush.at <= i

(* Nothing repeats an ARP request, so a packet that waits for a host of the
   subnet needs one on its way: it has, unless the network lost it. *)
AskedWhileWaiting ==
  \A i \in PendingSlot : pending[i].dst \in OnLink =>
    \/ pending[i].dst \in asked \cup lost
    \/ flush.ip = pending[i].dst /\ flush.at <= i

(* A frame goes out to the MAC its next hop announced last. *)
SentToLatestMac ==
  [][\A p \in Pkt : frames'[p] # frames[p] =>
       frames'[p] = Append(frames[p], heard[NextHop(DstOf[p])])]_vars

(* net_send_ip and the flush lose a packet only when every slot of the queue
   was taken (or when its destination is the address 0, the mark of a free
   slot). *)
LossNeedsFullQueue ==
  [][\A p \in Pkt :
       (Held(p) \/ p \notin submitted) /\ ~Held(p)' /\ p \in submitted' =>
         frames'[p] # << >> \/ FreePending = {} \/ DstOf[p] = NoAddr]_vars

(* A packet queued for a host of the subnet leaves, unless the network lost a
   request for that host, or its answer, meanwhile. *)
OnLinkDelivered ==
  \A p \in Pkt : DstOf[p] \in OnLink =>
    (Held(p) ~> frames[p] # << >> \/ DstOf[p] \in lost)

(* "pending packets waiting for ARP resolution" (net.c:42): between two calls,
   every packet of the queue waits for a next hop that is not resolved. *)
PendingAwaitsResolution ==
  flush = Idle =>
    \A i \in PendingSlot : Waits(i) => ~Resolved(NextHop(pending[i].dst))

(* The code implements the link layer that has no cache and no queue. *)
Link == INSTANCE LinkLayer WITH
          HopOf <- [p \in Pkt |-> NextHop(DstOf[p])],
          known <- heard,
          state <- [p \in Pkt |-> IF p \notin submitted THEN "new"
                                  ELSE IF Held(p) THEN "held" ELSE "gone"]
ImplementsLinkLayer == Link!LSpec
================================================================================
