------------------------------- MODULE XhciProofs ------------------------------
(***************************************************************************)
(* Proofs about the rings of usb/xhci.c, for rings of any size and any     *)
(* number of jobs and port events: events are consumed in the order of     *)
(* their posting, a wait ends with the completion of its own job unless a  *)
(* wait was given up, and TRBs are overwritten by a lap of the ring only.  *)
(***************************************************************************)
EXTENDS Xhci, TLAPS

--------------------------------------------------------------------------------
(* Arithmetic. *)

LEMMA WrapsOnce ==
  ASSUME NEW n \in Nat \ {0}, NEW i \in 0 .. n - 1
  PROVE  i % n = i /\ (i + n) % n = i
  OBVIOUS

LEMMA Wraps == ASSUME NEW i \in Int, NEW n \in Nat \ {0} PROVE i % n \in 0 .. n - 1
  OBVIOUS

(* The place p beyond d in a ring of n is the only one that is p ahead of d. *)
LEMMA OneAhead ==
  ASSUME NEW n \in Nat, NEW d \in 0 .. n - 1, NEW p \in 0 .. n - 1, NEW i \in 0 .. n - 1,
         i # IF d + p < n THEN d + p ELSE d + p - n
  PROVE  (IF i >= d THEN i - d ELSE i - d + n) # p
<1>1. CASE i >= d
  BY <1>1
<1>2. CASE ~(i >= d)
  BY <1>2
<1> QED BY <1>1, <1>2

(* The place after the one p beyond d, and whether the ring has come around. *)
LEMMA NextBeyond ==
  ASSUME NEW n \in Nat, NEW d \in 0 .. n - 1, NEW p \in Nat, p < n - 1,
         NEW e \in 0 .. n - 1, e = IF d + p < n THEN d + p ELSE d + p - n
  PROVE  /\ (IF e = n - 1 THEN 0 ELSE e + 1) = IF d + (p + 1) < n THEN d + (p + 1) ELSE d + (p + 1) - n
         /\ e = n - 1 <=> d + p < n /\ ~(d + (p + 1) < n)
<1>1. CASE d + p < n
  BY <1>1
<1>2. CASE ~(d + p < n)
  BY <1>2
<1> QED BY <1>1, <1>2

(* A place at most three beyond another of the command ring. *)
LEMMA RingPlace ==
  ASSUME NEW s \in Slots, NEW k \in 0 .. 3
  PROVE  (s + k) % NCmd = IF s + k < NCmd THEN s + k ELSE s + k - NCmd
<1>1. NCmd \in Nat \ {0} /\ s + k \in 0 .. 2 * NCmd - 1
  BY XhciSizes DEF Slots
<1>2. CASE s + k < NCmd
  <2>1. (s + k) % NCmd = s + k
    BY <1>1, <1>2, WrapsOnce
  <2> QED BY <1>2, <2>1
<1>3. CASE ~(s + k < NCmd)
  <2>1. PICK r \in 0 .. NCmd - 1 : r = s + k - NCmd /\ s + k = r + NCmd
    <3>1. s + k - NCmd \in 0 .. NCmd - 1 /\ s + k = (s + k - NCmd) + NCmd
      BY <1>1, <1>3, XhciSizes DEF Slots
    <3> QED BY <3>1
  <2>2. (r + NCmd) % NCmd = r
    BY <1>1, <2>1, WrapsOnce
  <2> QED BY <1>3, <2>1, <2>2
<1> QED BY <1>2, <1>3

--------------------------------------------------------------------------------
(* Types. *)

Kinds == {<< >>, Stages(TRUE), Stages(FALSE)}
Job == [start : Slots, at : Int, kinds : Kinds]
Trb == [kind : {"none", "enable", "setup", "data", "status"}, job : 0 .. MaxJobs]
EventTrb == [n : Nat, job : Nat, port : BOOLEAN, code : {0, 1}, cycle : {0, 1}]
Index == [idx : 0 .. NEr - 1, cycle : {0, 1}]

(* TRBs are prepared and their doorbell is not rung. *)
Prepares == pc = "submit" \/ (pc = "enable" /\ caller = "submit")

(* The driver: xhci_enumerate_once goes on only while the slot is enabled, and
   the jobs that its calls still make are within the bound. *)
DriverTypes ==
  /\ pc \in {"probe", "idle", "next", "submit", "enable", "transfer"}
  /\ bus \in 0 .. NBus - 1 /\ tries \in 0 .. 3 /\ left \in 0 .. 3
  /\ caller \in {"none", "submit", "enumerate"}
  /\ g_slot_enabled \in BOOLEAN /\ g_dev_ctx \in {"none", "blank", "set"}
  /\ pc \in {"probe", "idle"} => left = 0
  /\ pc = "next" => left > 0
  /\ pc \in {"enable", "transfer"} => Len(jobs) > 0
  /\ pc = "enable" => caller = IF left > 0 THEN "enumerate" ELSE "submit"
  /\ left > 0 /\ pc # "enable" => g_slot_enabled
  /\ Len(jobs) + left + (IF Prepares THEN 1 ELSE 0) <= MaxJobs
CommandTypes ==
  /\ cmd_ring \in [Slots -> Trb]
  /\ cmd_ring_head \in Slots
  /\ last_cmd \in [start : Slots, count : {0, 2, 3}]
  /\ jobs \in Seq(Job)
  /\ written \in Nat
  /\ outstanding \subseteq 1 .. Len(jobs)
EventTypes ==
  /\ er \in [0 .. NEr - 1 -> EventTrb]
  /\ deq \in Index /\ enq \in Index
  /\ posted \in Nat /\ ports \in Nat
  /\ seen \in Seq(Nat)
  /\ wrong \in BOOLEAN /\ upset \in BOOLEAN
Types == DriverTypes /\ CommandTypes /\ EventTypes

--------------------------------------------------------------------------------
(* The event ring. *)

(* How far place i of the event ring is ahead of the dequeue index. *)
Ahead(i) == IF i >= deq.idx THEN i - deq.idx ELSE i - deq.idx + NEr
Pending == posted - Len(seen)

(* The pending events are the next places of the ring, numbered on from those
   consumed, with the cycle bit the driver will expect there; all other places are
   empty; the controller's place is the first of these. *)
Events ==
  /\ Pending \in 0 .. NEr - 1
  /\ enq.idx = IF deq.idx + Pending < NEr THEN deq.idx + Pending ELSE deq.idx + Pending - NEr
  /\ enq.cycle = IF deq.idx + Pending < NEr THEN deq.cycle ELSE 1 - deq.cycle
  /\ \A i \in 0 .. NEr - 1 :
       IF Ahead(i) < Pending
       THEN /\ er[i].n = Len(seen) + 1 + Ahead(i)
            /\ er[i].cycle = IF i >= deq.idx THEN deq.cycle ELSE 1 - deq.cycle
       ELSE er[i] = Empty
  /\ \A k \in DOMAIN seen : seen[k] = k

LEMMA AdvanceIs ==
  ASSUME NEW p \in Index
  PROVE  /\ Advance(p) \in Index
         /\ Advance(p).idx = IF p.idx = NEr - 1 THEN 0 ELSE p.idx + 1
         /\ Advance(p).cycle = IF p.idx = NEr - 1 THEN 1 - p.cycle ELSE p.cycle
<1>1. CASE p.idx = NEr - 1
  BY <1>1, XhciSizes DEF Advance, Index
<1>2. CASE p.idx # NEr - 1
  <2>1. Advance(p) = [p EXCEPT !.idx = @ + 1]
    BY <1>2 DEF Advance
  <2>2. p.idx + 1 \in 0 .. NEr - 1
    BY <1>2, XhciSizes DEF Index
  <2> QED BY <1>2, <2>1, <2>2 DEF Index
<1> QED BY <1>1, <1>2

(* xhci_poll_event_ring and xhci_wait_for_command_completion take the event at
   the dequeue index. *)
LEMMA ConsumeKeeps ==
  ASSUME EventTypes, Events, Consume
  PROVE  /\ Events' /\ Event.n = Len(seen) + 1
         /\ er' \in [0 .. NEr - 1 -> EventTrb] /\ deq' \in Index /\ seen' \in Seq(Nat)
         /\ \A i \in 0 .. NEr - 1 : er'[i] # Empty => er'[i] = er[i] /\ i # deq.idx
<1>1. /\ deq.idx \in 0 .. NEr - 1 /\ deq.cycle \in {0, 1} /\ NEr \in Nat /\ NEr >= 2
      /\ Len(seen) \in Nat /\ posted \in Nat
  BY XhciSizes DEF EventTypes, Index
<1>2. /\ Event # Empty /\ er' = [er EXCEPT ![deq.idx] = Empty] /\ deq' = Advance(deq)
      /\ seen' = Append(seen, Event.n) /\ UNCHANGED <<enq, posted>>
  BY DEF Consume, IsEvent, controller
<1>3. Ahead(deq.idx) = 0
  BY <1>1 DEF Ahead
<1>4. Pending > 0 /\ Event.n = Len(seen) + 1
  BY <1>1, <1>2, <1>3 DEF Events, Event, Pending
<1>5. /\ seen' \in Seq(Nat) /\ Len(seen') = Len(seen) + 1
      /\ \A k \in DOMAIN seen' : seen'[k] = k
  BY <1>1, <1>2, <1>4, SMTT(30) DEF EventTypes, Events
<1>6. /\ deq' \in Index
      /\ deq'.idx = IF deq.idx = NEr - 1 THEN 0 ELSE deq.idx + 1
      /\ deq'.cycle = IF deq.idx = NEr - 1 THEN 1 - deq.cycle ELSE deq.cycle
  BY <1>2, AdvanceIs DEF EventTypes
<1>7. Empty \in EventTrb
  BY DEF Empty, EventTrb
<1>8. /\ er' \in [0 .. NEr - 1 -> EventTrb]
      /\ \A i \in 0 .. NEr - 1 : er'[i] = IF i = deq.idx THEN Empty ELSE er[i]
  BY <1>1, <1>2, <1>7 DEF EventTypes
<1>9. Pending' = Pending - 1 /\ Pending \in 0 .. NEr - 1 /\ Pending' \in 0 .. NEr - 1
  BY <1>1, <1>2, <1>4, <1>5 DEF Events, Pending
<1>10. ASSUME NEW i \in 0 .. NEr - 1
       PROVE  Ahead(i)' = IF i = deq.idx THEN NEr - 1 ELSE Ahead(i) - 1
  BY <1>1, <1>6 DEF Ahead
<1>11. ASSUME NEW i \in 0 .. NEr - 1
       PROVE  IF Ahead(i)' < Pending'
              THEN /\ er'[i].n = Len(seen') + 1 + Ahead(i)'
                   /\ er'[i].cycle = IF i >= deq'.idx THEN deq'.cycle ELSE 1 - deq'.cycle
              ELSE er'[i] = Empty
  <2>1. CASE i = deq.idx
    BY <1>1, <1>8, <1>9, <1>10, <2>1
  <2>2. CASE i # deq.idx
    <3>1. er'[i] = er[i] /\ Ahead(i)' = Ahead(i) - 1 /\ Ahead(i) \in Int
      BY <1>1, <1>8, <1>10, <2>2 DEF Ahead
    <3>2. CASE Ahead(i) < Pending
      <4>1. er[i].n = Len(seen) + 1 + Ahead(i) /\ er[i].cycle = IF i >= deq.idx THEN deq.cycle ELSE 1 - deq.cycle
        BY <3>2 DEF Events
      <4>2. er'[i].n = Len(seen') + 1 + Ahead(i)'
        BY <1>1, <1>5, <3>1, <4>1
      <4>3. er'[i].cycle = IF i >= deq'.idx THEN deq'.cycle ELSE 1 - deq'.cycle
        BY <1>1, <1>6, <2>2, <3>1, <4>1
      <4>4. Ahead(i)' < Pending'
        BY <1>9, <3>1, <3>2
      <4> QED BY <4>2, <4>3, <4>4
    <3>3. CASE ~(Ahead(i) < Pending)
      <4>1. er'[i] = Empty
        BY <3>1, <3>3 DEF Events
      <4>2. ~(Ahead(i)' < Pending')
        BY <1>9, <3>1, <3>3
      <4> QED BY <4>1, <4>2
    <3> QED BY <3>2, <3>3
  <2> QED BY <2>1, <2>2
<1>12. /\ enq'.idx = IF deq'.idx + Pending' < NEr THEN deq'.idx + Pending' ELSE deq'.idx + Pending' - NEr
       /\ enq'.cycle = IF deq'.idx + Pending' < NEr THEN deq'.cycle ELSE 1 - deq'.cycle
  BY <1>1, <1>2, <1>4, <1>6, <1>9, SMTT(30) DEF Events
<1>13. Events'
  BY <1>5, <1>9, <1>11, <1>12 DEF Events
<1> QED BY <1>4, <1>5, <1>6, <1>8, <1>13

(* The controller posts an event at its place, which is empty. *)
LEMMA PostKeeps ==
  ASSUME EventTypes, Events, NEW job \in Nat, NEW port \in BOOLEAN, NEW code \in {0, 1},
         Post(job, port, code)
  PROVE  /\ Events' /\ posted' \in Nat
         /\ er' \in [0 .. NEr - 1 -> EventTrb] /\ enq' \in Index
         /\ er[enq.idx] = Empty /\ enq.idx \in 0 .. NEr - 1
         /\ er'[enq.idx].job = job /\ er'[enq.idx].port = port
         /\ \A i \in 0 .. NEr - 1 : i # enq.idx => er'[i] = er[i]
<1> DEFINE e == [n |-> posted + 1, job |-> job, port |-> port, code |-> code, cycle |-> enq.cycle]
<1>1. /\ deq.idx \in 0 .. NEr - 1 /\ deq.cycle \in {0, 1} /\ NEr \in Nat /\ NEr >= 2
      /\ enq.idx \in 0 .. NEr - 1 /\ enq.cycle \in {0, 1}
      /\ Len(seen) \in Nat /\ posted \in Nat
  BY XhciSizes DEF EventTypes, Index
<1>2. /\ Pending < NEr - 1 /\ er' = [er EXCEPT ![enq.idx] = e] /\ enq' = Advance(enq)
      /\ posted' = posted + 1 /\ UNCHANGED <<deq, seen>>
  BY DEF Post, Pending, consumer
<1>3. e \in EventTrb /\ e.n = posted + 1 /\ e.cycle = enq.cycle /\ e.job = job /\ e.port = port
  BY <1>1 DEF EventTrb
<1> HIDE DEF e
<1>4. /\ er' \in [0 .. NEr - 1 -> EventTrb]
      /\ \A i \in 0 .. NEr - 1 : er'[i] = IF i = enq.idx THEN e ELSE er[i]
  BY <1>1, <1>2, <1>3 DEF EventTypes
<1>5. Pending \in 0 .. NEr - 1 /\ Pending' = Pending + 1 /\ Pending' \in 0 .. NEr - 1
  BY <1>1, <1>2, SMTT(30) DEF Events, Pending
<1>6. Ahead(enq.idx) = Pending
  BY <1>1, <1>5, SMTT(30) DEF Events, Ahead
<1>7. er[enq.idx] = Empty
  BY <1>1, <1>5, <1>6, SMTT(30) DEF Events
<1>8. \A i \in 0 .. NEr - 1 : Ahead(i)' = Ahead(i)
  BY <1>2 DEF Ahead
<1>9. ASSUME NEW i \in 0 .. NEr - 1, i # enq.idx PROVE Ahead(i) \in Int /\ Ahead(i) # Pending
  <2>1. enq.idx = IF deq.idx + Pending < NEr THEN deq.idx + Pending ELSE deq.idx + Pending - NEr
    BY DEF Events
  <2>2. Ahead(i) = IF i >= deq.idx THEN i - deq.idx ELSE i - deq.idx + NEr
    BY DEF Ahead
  <2>3. Pending \in 0 .. NEr - 1 /\ NEr \in Nat /\ deq.idx \in 0 .. NEr - 1
    BY <1>1, <1>5
  <2>4. Ahead(i) # Pending
    BY <1>9, <2>1, <2>2, <2>3, OneAhead
  <2>5. Ahead(i) \in Int
    BY <2>2, <2>3
  <2> QED BY <2>4, <2>5
<1>10. ASSUME NEW i \in 0 .. NEr - 1
       PROVE  IF Ahead(i)' < Pending'
              THEN /\ er'[i].n = Len(seen') + 1 + Ahead(i)'
                   /\ er'[i].cycle = IF i >= deq'.idx THEN deq'.cycle ELSE 1 - deq'.cycle
              ELSE er'[i] = Empty
  <2>1. CASE i = enq.idx
    <3>1. Ahead(i)' < Pending' /\ Ahead(i)' = Pending
      BY <1>1, <1>5, <1>6, <1>8, <2>1
    <3>2. er'[i].n = Len(seen') + 1 + Ahead(i)'
      BY <1>1, <1>2, <1>3, <1>4, <2>1, <3>1 DEF Pending
    <3>3. er'[i].cycle = IF i >= deq'.idx THEN deq'.cycle ELSE 1 - deq'.cycle
      <4>1. er'[i].cycle = enq.cycle
        BY <1>3, <1>4, <2>1
      <4> QED BY <1>1, <1>2, <1>5, <2>1, <4>1 DEF Events
    <3> QED BY <3>1, <3>2, <3>3
  <2>2. CASE i # enq.idx
    <3>1. er'[i] = er[i] /\ Ahead(i)' = Ahead(i) /\ Ahead(i) \in Int /\ Ahead(i) # Pending
      BY <1>4, <1>8, <1>9, <2>2
    <3>2. Ahead(i)' < Pending' <=> Ahead(i) < Pending
      BY <1>5, <3>1
    <3> QED BY <1>2, <3>1, <3>2 DEF Events
  <2> QED BY <2>1, <2>2
<1>11. /\ enq' \in Index
       /\ enq'.idx = IF enq.idx = NEr - 1 THEN 0 ELSE enq.idx + 1
       /\ enq'.cycle = IF enq.idx = NEr - 1 THEN 1 - enq.cycle ELSE enq.cycle
  BY <1>2, AdvanceIs DEF EventTypes
<1>12. /\ enq'.idx = IF deq'.idx + Pending' < NEr THEN deq'.idx + Pending' ELSE deq'.idx + Pending' - NEr
       /\ enq'.cycle = IF deq'.idx + Pending' < NEr THEN deq'.cycle ELSE 1 - deq'.cycle
  <2>1. /\ enq.idx = IF deq.idx + Pending < NEr THEN deq.idx + Pending ELSE deq.idx + Pending - NEr
        /\ enq.cycle = IF deq.idx + Pending < NEr THEN deq.cycle ELSE 1 - deq.cycle
    BY DEF Events
  <2>2. deq' = deq /\ Pending' = Pending + 1 /\ Pending \in Nat /\ Pending < NEr - 1
    BY <1>2, <1>5
  <2>3. /\ (IF enq.idx = NEr - 1 THEN 0 ELSE enq.idx + 1)
             = IF deq.idx + (Pending + 1) < NEr THEN deq.idx + (Pending + 1) ELSE deq.idx + (Pending + 1) - NEr
        /\ enq.idx = NEr - 1 <=> deq.idx + Pending < NEr /\ ~(deq.idx + (Pending + 1) < NEr)
    <3>1. /\ NEr \in Nat /\ deq.idx \in 0 .. NEr - 1 /\ enq.idx \in 0 .. NEr - 1
          /\ Pending \in Nat /\ Pending < NEr - 1
          /\ enq.idx = IF deq.idx + Pending < NEr THEN deq.idx + Pending ELSE deq.idx + Pending - NEr
      BY <1>1, <2>1, <2>2
    <3> QED BY <3>1, NextBeyond
  <2>4. deq.idx + (Pending + 1) < NEr => deq.idx + Pending < NEr
    BY <1>1, <2>2
  <2> QED BY <1>11, <2>1, <2>2, <2>3, <2>4
<1>13. Events'
  BY <1>2, <1>5, <1>10, <1>12 DEF Events
<1>14. posted' \in Nat
  BY <1>1, <1>2
<1> QED BY <1>1, <1>3, <1>4, <1>7, <1>11, <1>13, <1>14

--------------------------------------------------------------------------------
(* Types: the driver's calls. *)

(* The TRBs of a transfer are put into places of the ring, and the others stay. *)
LEMMA PreparedIs ==
  ASSUME CommandTypes, NEW data \in BOOLEAN
  PROVE  /\ Prepared(data) \in [Slots -> Trb]
         /\ Len(Stages(data)) = (IF data THEN 3 ELSE 2)
         /\ \A i \in 1 .. Len(Stages(data)) :
              /\ PrepSlot(i) \in Slots
              /\ PrepSlot(i) = IF cmd_ring_head + i - 1 >= NCmd THEN cmd_ring_head + i - 1 - NCmd
                               ELSE cmd_ring_head + i - 1
              /\ Prepared(data)[PrepSlot(i)].kind = Stages(data)[i]
         /\ \A s \in Slots : (\A i \in 1 .. Len(Stages(data)) : PrepSlot(i) # s)
              => Prepared(data)[s] = cmd_ring[s]
<1> DEFINE st == Stages(data)
<1>1. /\ DOMAIN st = 1 .. Len(st) /\ Len(st) = (IF data THEN 3 ELSE 2)
      /\ \A i \in 1 .. Len(st) : st[i] \in {"setup", "data", "status"}
  <2>1. CASE data
    <3>1. st = <<"setup", "data", "status">>
      BY <2>1 DEF Stages
    <3> HIDE DEF st
    <3> QED BY <2>1, <3>1
  <2>2. CASE ~data
    <3>1. st = <<"setup", "status">>
      BY <2>2 DEF Stages
    <3> HIDE DEF st
    <3> QED BY <2>2, <3>1
  <2> QED BY <2>1, <2>2
<1>2. cmd_ring_head \in 0 .. NCmd - 1 /\ NCmd \in Nat /\ NCmd >= 3
  BY XhciSizes DEF CommandTypes, Slots
<1> HIDE DEF st
<1>3. ASSUME NEW i \in 1 .. Len(st)
      PROVE  /\ PrepSlot(i) \in Slots
             /\ PrepSlot(i) = IF cmd_ring_head + i - 1 >= NCmd THEN cmd_ring_head + i - 1 - NCmd
                              ELSE cmd_ring_head + i - 1
             /\ \A k \in 1 .. Len(st) : PrepSlot(k) = PrepSlot(i) => k = i
  <2>1. i \in 1 .. 3 /\ \A k \in 1 .. Len(st) : k \in 1 .. 3
    BY <1>1
  <2> QED BY <1>2, <2>1 DEF PrepSlot, Slots
<1> DEFINE at(s) == CHOOSE i \in DOMAIN st : PrepSlot(i) = s
           trb(s) == IF \E i \in DOMAIN st : PrepSlot(i) = s
                     THEN [kind |-> st[at(s)], job |-> 0] ELSE cmd_ring[s]
<1>4. Prepared(data) = [s \in Slots |-> trb(s)]
  BY DEF Prepared, st
<1>5. ASSUME NEW s \in Slots, NEW i \in 1 .. Len(st), PrepSlot(i) = s
      PROVE  at(s) = i
  <2>1. at(s) \in DOMAIN st /\ PrepSlot(at(s)) = s
    BY <1>1, <1>5
  <2> QED BY <1>1, <1>3, <1>5, <2>1
<1>6. ASSUME NEW s \in Slots PROVE trb(s) \in Trb
  <2>1. CASE \E i \in DOMAIN st : PrepSlot(i) = s
    <3>1. PICK i \in 1 .. Len(st) : PrepSlot(i) = s
      BY <1>1, <2>1
    <3>2. at(s) = i
      BY <1>5, <3>1
    <3>3. trb(s) = [kind |-> st[i], job |-> 0]
      BY <2>1, <3>2
    <3> HIDE DEF trb
    <3> QED BY <1>1, <3>3, XhciSizes DEF Trb
  <2>2. CASE ~ \E i \in DOMAIN st : PrepSlot(i) = s
    BY <2>2 DEF CommandTypes
  <2> QED BY <2>1, <2>2
<1>7. ASSUME NEW i \in 1 .. Len(st) PROVE trb(PrepSlot(i)).kind = st[i]
  <2>1. PrepSlot(i) \in Slots
    BY <1>3
  <2>2. at(PrepSlot(i)) = i
    BY <1>5, <2>1
  <2>3. trb(PrepSlot(i)) = [kind |-> st[i], job |-> 0]
    BY <1>1, <2>2
  <2> HIDE DEF trb
  <2> QED BY <2>3
<1>8. \A s \in Slots : (\A i \in 1 .. Len(st) : PrepSlot(i) # s) => trb(s) = cmd_ring[s]
  BY <1>1
<1> HIDE DEF trb, at
<1>9. Prepared(data) \in [Slots -> Trb] /\ \A s \in Slots : Prepared(data)[s] = trb(s)
  BY <1>4, <1>6
<1> QED BY <1>1, <1>3, <1>7, <1>8, <1>9 DEF st

(* xhci_send_enable_slot. *)
LEMMA EnableTypes ==
  ASSUME CommandTypes, NEW ring \in [Slots -> Trb], NEW by \in {"submit", "enumerate"},
         SendEnableSlot(ring, by)
  PROVE  /\ cmd_ring' \in [Slots -> Trb] /\ jobs' \in Seq(Job) /\ Len(jobs') = Len(jobs) + 1
         /\ outstanding' \subseteq 1 .. Len(jobs')
         /\ caller' = by /\ tries' = 0 /\ pc' = "enable"
<1>1. [kind |-> "enable", job |-> 0] \in Trb /\ 0 \in Slots /\ Len(jobs) \in Nat
  BY XhciSizes DEF Trb, Slots, CommandTypes
<1>2. [start |-> 0, at |-> 0, kinds |-> << >>] \in Job
  BY <1>1 DEF Job, Kinds
<1>3. /\ cmd_ring' = [ring EXCEPT ![0] = [kind |-> "enable", job |-> 0]]
      /\ jobs' = Append(jobs, [start |-> 0, at |-> 0, kinds |-> << >>])
      /\ outstanding' = outstanding \cup {Len(jobs) + 1}
      /\ caller' = by /\ tries' = 0 /\ pc' = "enable"
  BY DEF SendEnableSlot
<1>4. jobs' \in Seq(Job) /\ Len(jobs') = Len(jobs) + 1
  BY <1>2, <1>3 DEF CommandTypes
<1>5. cmd_ring' \in [Slots -> Trb]
  BY <1>1, <1>3
<1>6. outstanding' \subseteq 1 .. Len(jobs')
  <2> SUFFICES ASSUME NEW j \in outstanding' PROVE j \in 1 .. Len(jobs')
    OBVIOUS
  <2>1. j \in outstanding \/ j = Len(jobs) + 1
    BY <1>3
  <2>2. j \in outstanding => j \in 1 .. Len(jobs)
    BY DEF CommandTypes
  <2>3. j \in Nat \ {0} /\ j <= Len(jobs) + 1
    BY <1>1, <2>1, <2>2
  <2> QED BY <1>4, <2>3
<1> QED BY <1>3, <1>4, <1>5, <1>6

(* What xhci_control_transfer leaves, at its first wait or its doorbell. *)
LEMMA TransferIs ==
  ASSUME DriverTypes, CommandTypes, NEW data \in BOOLEAN, Transfer(data)
  PROVE  /\ CommandTypes' /\ g_dev_ctx' = "blank" /\ g_slot_enabled' = g_slot_enabled
         /\ UNCHANGED <<bus, cmd_ring_head, er, consumer, controller>>
         /\ last_cmd'.start = cmd_ring_head /\ last_cmd'.count = Len(Stages(data))
         /\ written' = written + Len(Stages(data))
         /\ IF g_slot_enabled
            THEN /\ pc' = "submit" /\ cmd_ring' = Prepared(data)
                 /\ UNCHANGED <<jobs, outstanding, caller, tries>>
            ELSE SendEnableSlot(Prepared(data), "submit")
<1>1. /\ last_cmd' = [start |-> cmd_ring_head, count |-> Len(Stages(data))]
      /\ written' = written + Len(Stages(data)) /\ g_dev_ctx' = "blank"
      /\ UNCHANGED <<bus, cmd_ring_head, g_slot_enabled, er, consumer, controller>>
      /\ IF g_slot_enabled
         THEN /\ pc' = "submit" /\ cmd_ring' = Prepared(data)
              /\ UNCHANGED <<jobs, outstanding, caller, tries>>
         ELSE SendEnableSlot(Prepared(data), "submit")
  BY DEF Transfer
<1>2. Prepared(data) \in [Slots -> Trb] /\ Len(Stages(data)) = (IF data THEN 3 ELSE 2)
  BY PreparedIs
<1>3. /\ cmd_ring' \in [Slots -> Trb] /\ jobs' \in Seq(Job)
      /\ outstanding' \subseteq 1 .. Len(jobs')
  BY <1>1, <1>2, EnableTypes DEF CommandTypes
<1>4. last_cmd' \in [start : Slots, count : {0, 2, 3}] /\ written' \in Nat
  BY <1>1, <1>2 DEF CommandTypes
<1>5. CommandTypes'
  BY <1>1, <1>3, <1>4 DEF CommandTypes
<1> QED BY <1>1, <1>5

LEMMA CallTypes ==
  ASSUME Types, ControlTransfer \/ Enumerate \/ NextDescriptor PROVE Types'
<1>0. DriverTypes /\ CommandTypes /\ EventTypes /\ MaxJobs \in Nat /\ Len(jobs) \in Nat /\ left \in 0 .. 3
  BY XhciSizes DEF Types, CommandTypes, DriverTypes
<1>1. CASE ControlTransfer
  <2>1. /\ pc = "idle" /\ Len(jobs) + (IF g_slot_enabled THEN 1 ELSE 2) <= MaxJobs /\ left' = left
    BY <1>1 DEF ControlTransfer
  <2>2. PICK data \in BOOLEAN : Transfer(data)
    BY <1>1 DEF ControlTransfer
  <2>3. /\ CommandTypes' /\ g_dev_ctx' = "blank" /\ g_slot_enabled' = g_slot_enabled
        /\ UNCHANGED <<bus, cmd_ring_head, er, consumer, controller>>
        /\ IF g_slot_enabled
           THEN pc' = "submit" /\ UNCHANGED <<jobs, outstanding, caller, tries>>
           ELSE SendEnableSlot(Prepared(data), "submit")
    BY <1>0, <2>2, TransferIs
  <2>4. IF g_slot_enabled
        THEN pc' = "submit" /\ Len(jobs') = Len(jobs) /\ caller' = caller /\ tries' = tries
        ELSE /\ pc' = "enable" /\ Len(jobs') = Len(jobs) + 1 /\ caller' = "submit" /\ tries' = 0
    BY <1>0, <2>3, PreparedIs, EnableTypes
  <2>5. DriverTypes'
    BY <1>0, <2>1, <2>3, <2>4 DEF DriverTypes, Prepares
  <2> QED BY <1>0, <2>3, <2>5 DEF Types, EventTypes, consumer, controller
<1>2. CASE Enumerate
  <2>1. /\ pc = "idle" /\ Len(jobs) + (IF g_slot_enabled THEN 3 ELSE 4) <= MaxJobs /\ left' = 3
        /\ UNCHANGED <<bus, cmd_ring_head, last_cmd, written, slot, er, consumer, controller>>
        /\ IF g_slot_enabled
           THEN pc' = "next" /\ UNCHANGED <<cmd_ring, jobs, outstanding, caller, tries>>
           ELSE SendEnableSlot(cmd_ring, "enumerate")
    BY <1>2 DEF Enumerate
  <2>2. cmd_ring \in [Slots -> Trb]
    BY <1>0 DEF CommandTypes
  <2>3. /\ cmd_ring' \in [Slots -> Trb] /\ jobs' \in Seq(Job) /\ outstanding' \subseteq 1 .. Len(jobs')
        /\ IF g_slot_enabled
           THEN pc' = "next" /\ Len(jobs') = Len(jobs) /\ caller' = caller /\ tries' = tries
           ELSE /\ pc' = "enable" /\ Len(jobs') = Len(jobs) + 1 /\ caller' = "enumerate" /\ tries' = 0
    BY <1>0, <2>1, <2>2, EnableTypes DEF CommandTypes
  <2>4. CommandTypes'
    BY <1>0, <2>1, <2>3 DEF CommandTypes
  <2>5. DriverTypes'
    BY <1>0, <2>1, <2>3 DEF DriverTypes, Prepares, slot
  <2> QED BY <1>0, <2>1, <2>4, <2>5 DEF Types, EventTypes, consumer, controller
<1>3. CASE NextDescriptor
  <2>1. pc = "next" /\ left > 0 /\ left' = left - 1 /\ Transfer(TRUE) /\ g_slot_enabled
    BY <1>0, <1>3 DEF NextDescriptor, DriverTypes
  <2>2. /\ CommandTypes' /\ g_dev_ctx' = "blank" /\ g_slot_enabled' = g_slot_enabled
        /\ UNCHANGED <<bus, cmd_ring_head, er, consumer, controller>>
        /\ pc' = "submit" /\ UNCHANGED <<jobs, outstanding, caller, tries>>
    BY <1>0, <2>1, TransferIs
  <2>3. DriverTypes'
    BY <1>0, <2>1, <2>2 DEF DriverTypes, Prepares
  <2> QED BY <1>0, <2>2, <2>3 DEF Types, EventTypes, consumer, controller
<1> QED BY <1>1, <1>2, <1>3

--------------------------------------------------------------------------------
(* Completions. *)

Waiting == pc \in {"enable", "transfer"}
(* The places that hold a completion. *)
Completions == {i \in 0 .. NEr - 1 : er[i] # Empty /\ ~er[i].port}

(* Until a wait is given up, at most the job waited for is with the controller,
   and its completion, once, is in the event ring only when it is not. *)
Own ==
  /\ pc = "enable" /\ tries = 3 => upset
  /\ ~upset =>
       /\ ~wrong
       /\ outstanding \subseteq {Len(jobs)}
       /\ outstanding # {} => Waiting
       /\ \A i \in Completions : Waiting /\ er[i].job = Len(jobs) /\ outstanding = {}
       /\ \A i, k \in Completions : i = k

--------------------------------------------------------------------------------
(* TRBs. *)

Due == IF Prepares THEN last_cmd.count ELSE 0
(* How far the first TRB of job j is behind the head of the ring. *)
Back(j) == written - Due - jobs[j].at
Holds(s, kind, job) == cmd_ring[s] = [kind |-> kind, job |-> job] \/ (s = 0 /\ cmd_ring[0].kind = "enable")

(* The TRBs prepared are at the head of the ring. *)
PreparedHeld ==
  Prepares =>
    /\ last_cmd.count \in {2, 3} /\ last_cmd.start = cmd_ring_head
    /\ \A i \in 1 .. last_cmd.count :
         \/ cmd_ring[SubmitSlot(i)].kind = Stages(last_cmd.count = 3)[i]
         \/ SubmitSlot(i) = 0 /\ cmd_ring[0].kind = "enable"
(* The TRBs of a job whose doorbell was rung are where it was rung for, as far behind the
   head as TRBs were submitted since, until the ring comes around to them. *)
JobHeld(j) ==
  jobs[j].kinds # << >> =>
    /\ Back(j) >= Len(jobs[j].kinds)
    /\ Back(j) <= NCmd =>
         jobs[j].start = IF Back(j) <= cmd_ring_head THEN cmd_ring_head - Back(j)
                         ELSE cmd_ring_head - Back(j) + NCmd
    /\ Back(j) + Due <= NCmd =>
         \A i \in 1 .. Len(jobs[j].kinds) : Holds(Place(j, i), jobs[j].kinds[i], j)
Trbs == PreparedHeld /\ Due <= written /\ \A j \in 1 .. Len(jobs) : JobHeld(j)

XhciInv == Types /\ Events /\ Own /\ Trbs

--------------------------------------------------------------------------------
(* Types: the doorbell, the waits and the controller. *)

LEMMA SubmitIs ==
  ASSUME Types, PreparedHeld, Submit
  PROVE  /\ Types'
         /\ pc = "submit" /\ pc' = "transfer" /\ Prepares /\ ~Prepares'
         /\ last_cmd.count \in {2, 3} /\ last_cmd.start = cmd_ring_head
         /\ \A i \in 1 .. last_cmd.count :
              /\ SubmitSlot(i) \in Slots
              /\ SubmitSlot(i) = IF cmd_ring_head + i - 1 >= NCmd THEN cmd_ring_head + i - 1 - NCmd
                                 ELSE cmd_ring_head + i - 1
              /\ cmd_ring'[SubmitSlot(i)] = [kind |-> cmd_ring[SubmitSlot(i)].kind, job |-> Len(jobs) + 1]
         /\ \A s \in Slots : (\A i \in 1 .. last_cmd.count : SubmitSlot(i) # s)
              => cmd_ring'[s] = cmd_ring[s]
         /\ Len(jobs') = Len(jobs) + 1 /\ \A j \in 1 .. Len(jobs) : jobs'[j] = jobs[j]
         /\ jobs'[Len(jobs) + 1] = [start |-> cmd_ring_head, at |-> written - last_cmd.count,
                                    kinds |-> Stages(last_cmd.count = 3)]
         /\ outstanding' = outstanding \cup {Len(jobs) + 1}
         /\ cmd_ring_head' = (cmd_ring_head + last_cmd.count) % NCmd
         /\ UNCHANGED <<written, last_cmd, er, tries>> /\ UNCHANGED <<consumer, controller>>
<1> DEFINE mine == {SubmitSlot(i) : i \in 1 .. last_cmd.count}
           n == Len(jobs) + 1
           job == [start |-> last_cmd.start, at |-> written - last_cmd.count,
                   kinds |-> Stages(last_cmd.count = 3)]
<1>1. /\ DriverTypes /\ CommandTypes /\ EventTypes
      /\ pc = "submit" /\ pc' = "transfer" /\ Prepares /\ ~Prepares'
      /\ last_cmd.count \in {2, 3} /\ last_cmd.start = cmd_ring_head
  BY DEF Types, Submit, PreparedHeld, Prepares
<1>2. /\ cmd_ring' = [s \in Slots |-> IF s \in mine THEN [cmd_ring[s] EXCEPT !.job = n] ELSE cmd_ring[s]]
      /\ jobs' = Append(jobs, job)
      /\ outstanding' = outstanding \cup {n}
      /\ cmd_ring_head' = (cmd_ring_head + last_cmd.count) % NCmd
      /\ UNCHANGED <<bus, caller, tries, left, last_cmd, written, slot, er, consumer, controller>>
  BY DEF Submit
<1>3. /\ cmd_ring_head \in 0 .. NCmd - 1 /\ NCmd \in Nat /\ NCmd >= 3 /\ MaxJobs \in Nat
      /\ Len(jobs) \in Nat /\ written \in Nat /\ cmd_ring \in [Slots -> Trb]
      /\ n <= MaxJobs /\ n \in 0 .. MaxJobs /\ Len(jobs) + left + 1 <= MaxJobs /\ left \in 0 .. 3
  BY <1>1, XhciSizes DEF CommandTypes, Slots, DriverTypes
<1>4. \A i \in 1 .. last_cmd.count :
        /\ SubmitSlot(i) \in Slots
        /\ SubmitSlot(i) = IF cmd_ring_head + i - 1 >= NCmd THEN cmd_ring_head + i - 1 - NCmd
                           ELSE cmd_ring_head + i - 1
  BY <1>1, <1>3 DEF SubmitSlot, Slots
<1>5. \A s \in Slots : [cmd_ring[s] EXCEPT !.job = n] = [kind |-> cmd_ring[s].kind, job |-> n]
  BY <1>3 DEF Trb
<1>6. \A s \in Slots : [kind |-> cmd_ring[s].kind, job |-> n] \in Trb
  BY <1>3 DEF Trb
<1> HIDE DEF mine, n
<1>7. cmd_ring' \in [Slots -> Trb]
  BY <1>2, <1>3, <1>5, <1>6, ZenonT(40)
<1>8. /\ \A i \in 1 .. last_cmd.count :
           cmd_ring'[SubmitSlot(i)] = [kind |-> cmd_ring[SubmitSlot(i)].kind, job |-> n]
      /\ \A s \in Slots : (\A i \in 1 .. last_cmd.count : SubmitSlot(i) # s)
              => cmd_ring'[s] = cmd_ring[s]
  <2>1. \A i \in 1 .. last_cmd.count : SubmitSlot(i) \in mine
    BY DEF mine
  <2>2. \A s \in Slots : (\A i \in 1 .. last_cmd.count : SubmitSlot(i) # s) => s \notin mine
    BY DEF mine
  <2> QED BY <1>2, <1>4, <1>5, <2>1, <2>2
<1>9. job \in Job
  <2>1. written - last_cmd.count \in Int
    BY <1>1, <1>3
  <2> QED BY <1>1, <1>3, <2>1 DEF Job, Kinds, Slots
<1> HIDE DEF job
<1>10. /\ jobs' \in Seq(Job) /\ Len(jobs') = n /\ jobs'[n] = job
       /\ \A j \in 1 .. Len(jobs) : jobs'[j] = jobs[j]
  BY <1>1, <1>2, <1>9 DEF CommandTypes, n
<1>11. outstanding' \subseteq 1 .. Len(jobs')
  <2> SUFFICES ASSUME NEW j \in outstanding' PROVE j \in 1 .. Len(jobs')
    OBVIOUS
  <2>1. j = n \/ j \in 1 .. Len(jobs)
    BY <1>1, <1>2 DEF CommandTypes
  <2> QED BY <1>3, <1>10, <2>1 DEF n
<1>12. cmd_ring_head' \in Slots
  <2>1. cmd_ring_head + last_cmd.count \in Int /\ NCmd \in Nat \ {0}
    BY <1>1, <1>3
  <2> QED BY <1>2, <2>1, Wraps DEF Slots
<1>13. CommandTypes'
  BY <1>1, <1>2, <1>7, <1>10, <1>11, <1>12 DEF CommandTypes
<1>14. DriverTypes'
  <2>1. Len(jobs') = Len(jobs) + 1
    BY <1>10 DEF n
  <2> QED BY <1>1, <1>2, <1>3, <2>1, SMTT(30) DEF DriverTypes, Prepares, slot
<1>15. EventTypes'
  BY <1>1, <1>2 DEF EventTypes, consumer, controller
<1> QED BY <1>1, <1>2, <1>4, <1>8, <1>10, <1>13, <1>14, <1>15 DEF Types, job, n

(* Whatever ends xhci_send_enable_slot. *)
LEMMA EnabledTypes ==
  ASSUME DriverTypes, CommandTypes, pc = "enable", NEW ok \in BOOLEAN, Enabled(ok),
         UNCHANGED <<bus, tries, commands>>
  PROVE  DriverTypes'
<1>1. MaxJobs \in Nat /\ Len(jobs) \in Nat /\ left \in 0 .. 3
      /\ caller = (IF left > 0 THEN "enumerate" ELSE "submit") /\ Len(jobs') = Len(jobs)
  <2>1. Len(jobs) \in Nat /\ jobs' = jobs
    BY DEF CommandTypes, commands
  <2> QED BY <2>1, XhciSizes DEF DriverTypes
<1> DEFINE set == ok /\ g_dev_ctx # "none"
<1>2. /\ set \in BOOLEAN /\ g_slot_enabled' = set
      /\ g_dev_ctx' = (IF set THEN "set" ELSE g_dev_ctx)
      /\ pc' = (IF caller = "submit" THEN "submit" ELSE IF set THEN "next" ELSE "idle")
      /\ left' = (IF caller = "submit" \/ set THEN left ELSE 0)
      /\ UNCHANGED <<caller, bus, tries>>
  BY DEF Enabled
<1> HIDE DEF set
<1>3. CASE caller = "submit"
  BY <1>1, <1>2, <1>3 DEF DriverTypes, Prepares
<1>4. CASE caller # "submit" /\ set
  BY <1>1, <1>2, <1>4 DEF DriverTypes, Prepares
<1>5. CASE caller # "submit" /\ ~set
  BY <1>1, <1>2, <1>5 DEF DriverTypes, Prepares
<1> QED BY <1>3, <1>4, <1>5

LEMMA StartTypes ==
  ASSUME DriverTypes, CommandTypes, EventTypes, Probe \/ EnumerateEnds PROVE Types'
<1>1. UNCHANGED <<caller, tries, commands, slot, er, consumer, controller, outstanding>>
  BY DEF Probe, EnumerateEnds
<1>2. bus' \in 0 .. NBus - 1
  <2>1. bus + 1 \in Int /\ NBus \in Nat \ {0} /\ bus \in 0 .. NBus - 1
    BY XhciSizes DEF DriverTypes
  <2>2. (bus + 1) % NBus \in 0 .. NBus - 1
    BY <2>1
  <2> QED BY <2>1, <2>2 DEF Probe, EnumerateEnds
<1>3. CommandTypes' /\ EventTypes' /\ Len(jobs') = Len(jobs) /\ Len(jobs) \in Nat /\ MaxJobs \in Nat
  BY <1>1, XhciSizes DEF CommandTypes, EventTypes, commands, consumer, controller
<1>4. CASE Probe
  BY <1>1, <1>2, <1>3, <1>4 DEF Probe, DriverTypes, Prepares, slot, Types
<1>5. CASE EnumerateEnds
  BY <1>1, <1>2, <1>3, <1>5 DEF EnumerateEnds, DriverTypes, Prepares, slot, Types
<1> QED BY <1>4, <1>5

(* The waits: an event consumed, or a timeout. *)
LEMMA WaitTypes ==
  ASSUME DriverTypes, CommandTypes, EventTypes, Events,
         EnableDone \/ EnableSkip \/ EnableRetry \/ EnableFails \/ TransferDone \/ TransferTimeout
  PROVE  Types'
<1>1. UNCHANGED <<bus, commands>> /\ UNCHANGED <<enq, posted, ports>>
  BY DEF EnableDone, EnableSkip, EnableRetry, EnableFails, TransferDone, TransferTimeout, Consume,
         controller
<1>2. Len(jobs') = Len(jobs) /\ Len(jobs) \in Nat /\ MaxJobs \in Nat
  BY <1>1, XhciSizes DEF CommandTypes, commands
<1>3. /\ outstanding' \subseteq 1 .. Len(jobs)
      /\ cmd_ring' = cmd_ring /\ cmd_ring_head' = cmd_ring_head /\ last_cmd' = last_cmd
      /\ jobs' = jobs /\ written' = written
  <2>1. outstanding' = outstanding \/ (outstanding' = outstanding \cup {Len(jobs)} /\ pc = "enable")
    BY DEF EnableDone, EnableSkip, EnableRetry, EnableFails, TransferDone, TransferTimeout, Consume
  <2>2. pc = "enable" => Len(jobs) \in 1 .. Len(jobs)
    BY <1>2 DEF DriverTypes
  <2> QED BY <1>1, <2>1, <2>2 DEF CommandTypes, commands
<1>4. CommandTypes'
  BY <1>3 DEF CommandTypes
<1>5. EventTypes'
  <2>1. wrong' \in BOOLEAN /\ upset' \in BOOLEAN
    <3>1. /\ wrong' \in {wrong, (wrong \/ Event.job # Len(jobs))}
          /\ upset' \in {upset, TRUE, (upset \/ tries = 2), (upset \/ Event.port)}
      BY DEF EnableDone, EnableSkip, EnableRetry, EnableFails, TransferDone, TransferTimeout, Consume, consumer
    <3> QED BY <3>1, Zenon DEF EventTypes
  <2>2. CASE Consume
    BY <1>1, <2>1, <2>2, ConsumeKeeps DEF EventTypes
  <2>3. CASE ~Consume
    <3>1. UNCHANGED <<er, deq, seen>>
      BY <2>3 DEF EnableDone, EnableSkip, EnableRetry, EnableFails, TransferDone, TransferTimeout, consumer
    <3> QED BY <1>1, <2>1, <3>1 DEF EventTypes
  <2> QED BY <2>2, <2>3
<1>6. DriverTypes'
  <2>1. CASE EnableDone
    <3>1. Enabled(Event.code = 0 \/ tries = 3) /\ pc = "enable" /\ tries' = tries
      BY <2>1 DEF EnableDone
    <3> QED BY <1>1, <3>1, EnabledTypes
  <2>2. CASE EnableFails
    <3>1. Enabled(FALSE) /\ pc = "enable" /\ tries' = tries
      BY <2>2 DEF EnableFails
    <3> QED BY <1>1, <3>1, EnabledTypes
  <2>3. CASE EnableSkip
    BY <1>1, <1>2, <2>3 DEF EnableSkip, DriverTypes, Prepares, slot
  <2>4. CASE EnableRetry
    BY <1>1, <1>2, <2>4 DEF EnableRetry, DriverTypes, Prepares, slot
  <2>5. CASE TransferDone \/ TransferTimeout
    BY <1>1, <1>2, <2>5 DEF TransferDone, TransferTimeout, TransferOver, DriverTypes, Prepares, slot
  <2> QED BY <2>1, <2>2, <2>3, <2>4, <2>5
<1> QED BY <1>4, <1>5, <1>6 DEF Types

(* What the controller posts. *)
LEMMA ControllerPosts ==
  ASSUME CommandTypes, Complete \/ PortEvent
  PROVE  \E job \in Nat, port \in BOOLEAN, code \in {0, 1} :
           /\ Post(job, port, code)
           /\ ports' \in {ports, ports + 1}
           /\ \/ ~port /\ job \in outstanding /\ outstanding' = outstanding \ {job}
              \/ port /\ outstanding' = outstanding
<1>1. CASE Complete
  <2>1. PICK j \in outstanding, code \in {0, 1} :
          outstanding' = outstanding \ {j} /\ Post(j, FALSE, code) /\ UNCHANGED ports
    BY <1>1 DEF Complete, Codes
  <2>2. j \in Nat
    BY DEF CommandTypes
  <2> QED BY <2>1, <2>2
<1>2. CASE PortEvent
  BY <1>2 DEF PortEvent
<1> QED BY <1>1, <1>2

LEMMA ControllerTypes ==
  ASSUME DriverTypes, CommandTypes, EventTypes, Events, Complete \/ PortEvent
  PROVE  Types' /\ Events'
<1>1. PICK job \in Nat, port \in BOOLEAN, code \in {0, 1} :
        /\ Post(job, port, code) /\ ports' \in {ports, ports + 1}
        /\ outstanding' \subseteq outstanding
  BY ControllerPosts
<1>2. UNCHANGED <<driver, commands, slot, consumer>>
  BY <1>1 DEF Post
<1>3. DriverTypes' /\ CommandTypes'
  BY <1>1, <1>2 DEF DriverTypes, CommandTypes, Prepares, driver, commands, slot
<1>4. EventTypes' /\ Events'
  BY <1>1, <1>2, PostKeeps DEF EventTypes, consumer
<1> QED BY <1>3, <1>4 DEF Types

--------------------------------------------------------------------------------
(* Every step keeps the events, and who completes what. *)

Calls == ControlTransfer \/ Enumerate \/ NextDescriptor
Waits == EnableDone \/ EnableSkip \/ EnableRetry \/ EnableFails \/ TransferDone \/ TransferTimeout

LEMMA StepIs ==
  [Next]_vars => \/ Calls \/ Probe \/ EnumerateEnds \/ Submit \/ Waits
                 \/ Complete \/ PortEvent \/ UNCHANGED vars
  BY DEF Next, Call, Driver, Calls, Waits

LEMMA CallsLeaveEvents ==
  Calls \/ Probe \/ EnumerateEnds \/ Submit =>
    UNCHANGED <<er, consumer, controller>>
<1>1. ASSUME NEW data \in BOOLEAN, Transfer(data) PROVE UNCHANGED <<er, consumer, controller>>
  BY <1>1 DEF Transfer
<1> QED BY <1>1 DEF Calls, ControlTransfer, Enumerate, NextDescriptor, Probe, EnumerateEnds, Submit

LEMMA EventsKept == XhciInv /\ [Next]_vars => Events'
<1> SUFFICES ASSUME XhciInv, [Next]_vars PROVE Events'
  OBVIOUS
<1>0. DriverTypes /\ CommandTypes /\ EventTypes /\ Events
  BY DEF XhciInv, Types
<1>1. ASSUME UNCHANGED <<er, deq, seen, enq, posted>> PROVE Events'
  BY <1>0, <1>1 DEF Events, Pending, Ahead
<1>2. CASE Calls \/ Probe \/ EnumerateEnds \/ Submit
  BY <1>1, <1>2, CallsLeaveEvents DEF consumer, controller
<1>3. CASE Waits
  <2>1. CASE Consume
    BY <1>0, <2>1, ConsumeKeeps
  <2>2. CASE ~Consume
    BY <1>1, <1>3, <2>2 DEF Waits, EnableDone, EnableSkip, EnableRetry, EnableFails, TransferDone,
                            TransferTimeout, consumer, controller
  <2> QED BY <2>1, <2>2
<1>4. CASE Complete \/ PortEvent
  BY <1>0, <1>4, ControllerTypes
<1>5. CASE UNCHANGED vars
  BY <1>1, <1>5 DEF vars, consumer, controller
<1> QED BY <1>2, <1>3, <1>4, <1>5, StepIs

(* The calls start with nothing under way. *)
LEMMA CallsOwn == ASSUME XhciInv, Calls PROVE Own'
<1>0. /\ DriverTypes /\ CommandTypes /\ EventTypes /\ Own /\ Types
      /\ pc \in {"idle", "next"} /\ ~Waiting
  BY DEF XhciInv, Types, Calls, ControlTransfer, Enumerate, NextDescriptor, Waiting
<1>1. UNCHANGED <<er, consumer>> /\ Completions' = Completions /\ jobs \in Seq(Job)
  BY <1>0, CallsLeaveEvents DEF Completions, CommandTypes
<1>2. ~upset => ~wrong /\ outstanding = {} /\ Completions = {}
  BY <1>0 DEF Own
<1>3. \/ pc' = "submit" /\ UNCHANGED <<jobs, outstanding>>
      \/ pc' = "next" /\ UNCHANGED <<jobs, outstanding>>
      \/ pc' = "enable" /\ tries' = 0 /\ Len(jobs') = Len(jobs) + 1 /\ outstanding' = outstanding \cup {Len(jobs) + 1}
  <2>1. ASSUME NEW ring \in [Slots -> Trb], NEW by \in {"submit", "enumerate"}, SendEnableSlot(ring, by)
        PROVE  /\ pc' = "enable" /\ tries' = 0 /\ Len(jobs') = Len(jobs) + 1
               /\ outstanding' = outstanding \cup {Len(jobs) + 1}
    BY <1>0, <2>1, EnableTypes DEF SendEnableSlot
  <2>2. ASSUME NEW data \in BOOLEAN, Transfer(data)
        PROVE  \/ pc' = "submit" /\ UNCHANGED <<jobs, outstanding>>
               \/ pc' = "enable" /\ tries' = 0 /\ Len(jobs') = Len(jobs) + 1 /\ outstanding' = outstanding \cup {Len(jobs) + 1}
    <3>1. Prepared(data) \in [Slots -> Trb]
      BY <1>0, PreparedIs
    <3> QED BY <2>1, <2>2, <3>1 DEF Transfer
  <2>3. cmd_ring \in [Slots -> Trb]
    BY <1>0 DEF CommandTypes
  <2> QED BY <2>1, <2>2, <2>3 DEF Calls, ControlTransfer, Enumerate, NextDescriptor
<1>4. pc' = "enable" => tries' # 3
  BY <1>3
<1>5. ASSUME ~upset'
      PROVE  /\ ~wrong' /\ outstanding' \subseteq {Len(jobs')}
             /\ (outstanding' # {} => Waiting') /\ Completions' = {}
  BY <1>1, <1>2, <1>3, <1>5 DEF consumer, Waiting
<1> QED BY <1>4, <1>5 DEF Own

LEMMA SubmitOwn == ASSUME XhciInv, Submit PROVE Own'
<1>1. /\ pc = "submit" /\ pc' = "transfer" /\ Len(jobs') = Len(jobs) + 1
      /\ outstanding' = outstanding \cup {Len(jobs) + 1} /\ UNCHANGED <<er, consumer>>
  BY SubmitIs DEF XhciInv, Trbs
<1>2. ~upset => ~wrong /\ outstanding = {} /\ Completions = {}
  BY <1>1 DEF XhciInv, Own, Waiting
<1>3. Completions' = Completions
  BY <1>1 DEF Completions
<1> QED BY <1>1, <1>2, <1>3 DEF Own, Waiting, consumer

LEMMA WaitsOwn == ASSUME XhciInv, Waits PROVE Own'
<1>0. /\ DriverTypes /\ CommandTypes /\ EventTypes /\ Events /\ Own
      /\ deq.idx \in 0 .. NEr - 1 /\ tries \in 0 .. 3
  BY DEF XhciInv, Types, EventTypes, Index, DriverTypes
<1>1. ASSUME Consume
      PROVE  /\ Completions' = Completions \ {deq.idx}
             /\ ~Event.port => deq.idx \in Completions
             /\ UNCHANGED <<jobs, outstanding>>
  <2>1. /\ \A i \in 0 .. NEr - 1 : er'[i] # Empty => er'[i] = er[i] /\ i # deq.idx
        /\ er' = [er EXCEPT ![deq.idx] = Empty] /\ Event # Empty /\ UNCHANGED <<jobs, outstanding>>
    BY <1>0, <1>1, ConsumeKeeps DEF Consume, IsEvent, commands
  <2>2. \A i \in 0 .. NEr - 1 : i # deq.idx => er'[i] = er[i]
    BY <2>1 DEF EventTypes
  <2> QED BY <1>0, <2>1, <2>2 DEF Completions, Event
<1>2. CASE EnableDone
  <2>1. /\ Consume /\ ~Event.port /\ pc = "enable" /\ tries' = tries /\ upset' = upset
        /\ wrong' = (wrong \/ Event.job # Len(jobs)) /\ pc' \in {"submit", "next", "idle"}
    BY <1>2 DEF EnableDone, IsCompletion, Enabled
  <2>2. ASSUME ~upset
        PROVE  ~wrong' /\ outstanding' = {} /\ Completions' = {}
    <3>1. deq.idx \in Completions /\ er[deq.idx].job = Len(jobs) /\ outstanding = {} /\ ~wrong
      BY <1>0, <1>1, <2>1, <2>2 DEF Own
    <3>2. Completions = {deq.idx}
      BY <1>0, <2>2, <3>1 DEF Own
    <3> QED BY <1>1, <2>1, <3>1, <3>2 DEF Event
  <2> QED BY <2>1, <2>2 DEF Own
<1>3. CASE EnableSkip
  <2>1. /\ Consume /\ Event.port /\ pc' = pc /\ tries' = tries /\ upset' = upset /\ wrong' = wrong
    BY <1>3 DEF EnableSkip, IsCompletion
  <2>2. deq.idx \notin Completions
    BY <2>1 DEF Completions, Event
  <2>3. Completions' = Completions /\ \A i \in Completions : er'[i] = er[i]
    <3>1. er' = [er EXCEPT ![deq.idx] = Empty]
      BY <2>1 DEF Consume
    <3> QED BY <1>1, <2>1, <2>2, <3>1 DEF Completions, EventTypes
  <2>4. jobs' = jobs /\ outstanding' = outstanding /\ Waiting' = Waiting
    BY <1>1, <2>1 DEF Waiting
  <2> QED BY <1>0, <2>1, <2>3, <2>4 DEF Own
<1>4. CASE EnableRetry
  <2>1. /\ pc = "enable" /\ pc' = pc /\ tries' = tries + 1 /\ upset' = (upset \/ tries = 2)
        /\ wrong' = wrong /\ er' = er /\ jobs' = jobs /\ (tries # 2 => outstanding' = outstanding)
    BY <1>4 DEF EnableRetry, commands
  <2>2. Completions' = Completions /\ Waiting' = Waiting
    BY <2>1 DEF Completions, Waiting
  <2>3. tries' = 3 => upset'
    <3>1. tries' = 3 => tries = 2
      BY <1>0, <2>1
    <3> QED BY <2>1, <3>1, Zenon
  <2>4. ~upset' => ~upset /\ outstanding' = outstanding
    BY <2>1
  <2> QED BY <1>0, <2>1, <2>2, <2>3, <2>4 DEF Own
<1>5. CASE EnableFails
  <2>1. upset /\ upset' = upset /\ pc' # "enable"
    BY <1>0, <1>5 DEF EnableFails, Own, Enabled, consumer
  <2> QED BY <2>1 DEF Own
<1>6. CASE TransferDone
  <2>1. /\ Consume /\ pc = "transfer" /\ pc' \in {"next", "idle"} /\ upset' = (upset \/ Event.port)
        /\ wrong' = (wrong \/ Event.job # Len(jobs))
    BY <1>6 DEF TransferDone, TransferOver
  <2>2. ASSUME ~upset'
        PROVE  ~wrong' /\ outstanding' = {} /\ Completions' = {}
    <3>0. ~upset /\ ~Event.port
      BY <2>1, <2>2
    <3>1. deq.idx \in Completions /\ er[deq.idx].job = Len(jobs) /\ outstanding = {} /\ ~wrong
      BY <1>0, <1>1, <2>1, <3>0 DEF Own
    <3>2. Completions = {deq.idx}
      BY <1>0, <3>0, <3>1 DEF Own
    <3> QED BY <1>1, <2>1, <3>1, <3>2 DEF Event
  <2> QED BY <2>1, <2>2 DEF Own
<1>7. CASE TransferTimeout
  <2>1. upset' /\ pc' # "enable"
    BY <1>7 DEF TransferTimeout, TransferOver
  <2> QED BY <2>1 DEF Own
<1> QED BY <1>2, <1>3, <1>4, <1>5, <1>6, <1>7 DEF Waits

LEMMA ControllerOwn == ASSUME XhciInv, Complete \/ PortEvent PROVE Own'
<1>0. CommandTypes /\ EventTypes /\ Events /\ Own
  BY DEF XhciInv, Types
<1>1. PICK job \in Nat, port \in BOOLEAN, code \in {0, 1} :
        /\ Post(job, port, code)
        /\ \/ ~port /\ job \in outstanding /\ outstanding' = outstanding \ {job}
           \/ port /\ outstanding' = outstanding
  BY <1>0, ControllerPosts
<1>2. /\ er[enq.idx] = Empty /\ enq.idx \in 0 .. NEr - 1
      /\ er'[enq.idx].job = job /\ er'[enq.idx].port = port
      /\ \A i \in 0 .. NEr - 1 : i # enq.idx => er'[i] = er[i]
  BY <1>0, <1>1, PostKeeps
<1>3. UNCHANGED <<pc, tries, upset, wrong, jobs>>
  BY <1>1 DEF Post, driver, consumer, commands
<1>4. Waiting' = Waiting
  BY <1>3 DEF Waiting
<1>5. CASE port
  <2>1. Completions' = Completions /\ \A i \in Completions : er'[i] = er[i]
    BY <1>2, <1>5 DEF Completions
  <2> QED BY <1>0, <1>1, <1>3, <1>4, <1>5, <2>1 DEF Own
<1>6. CASE ~port
  <2>1. Completions' \subseteq Completions \cup {enq.idx}
    BY <1>2 DEF Completions
  <2>2. ASSUME ~upset
        PROVE  /\ ~wrong' /\ outstanding' = {} /\ Completions' \subseteq {enq.idx}
               /\ Waiting' /\ er'[enq.idx].job = Len(jobs')
    <3>1. job = Len(jobs) /\ outstanding = {job} /\ Waiting /\ Completions = {} /\ ~wrong
      BY <1>0, <1>1, <1>6, <2>2 DEF Own
    <3> QED BY <1>1, <1>2, <1>3, <1>4, <1>6, <2>1, <3>1
  <2>3. (pc = "enable" /\ tries = 3)' => upset'
    BY <1>0, <1>3 DEF Own
  <2> QED BY <1>3, <2>2, <2>3 DEF Own
<1> QED BY <1>5, <1>6

LEMMA OwnKept == XhciInv /\ [Next]_vars => Own'
<1> SUFFICES ASSUME XhciInv, [Next]_vars PROVE Own'
  OBVIOUS
<1>1. CASE Probe \/ EnumerateEnds
  <2>1. /\ pc \in {"probe", "next"} /\ pc' \in {"probe", "idle"}
        /\ UNCHANGED <<er, upset, wrong, outstanding>> /\ Own
    BY <1>1 DEF Probe, EnumerateEnds, consumer, XhciInv
  <2>2. ~upset => ~wrong /\ outstanding = {} /\ Completions = {}
    BY <2>1 DEF Own, Waiting
  <2>3. Completions' = Completions
    BY <2>1 DEF Completions
  <2> QED BY <2>1, <2>2, <2>3 DEF Own
<1>2. CASE UNCHANGED vars
  <2>1. UNCHANGED <<pc, tries, er, upset, wrong, outstanding, jobs>> /\ Own
    BY <1>2 DEF vars, driver, commands, consumer, XhciInv
  <2>2. Completions' = Completions /\ Waiting' = Waiting
    BY <2>1 DEF Completions, Waiting
  <2> QED BY <2>1, <2>2 DEF Own
<1> QED BY <1>1, <1>2, CallsOwn, SubmitOwn, WaitsOwn, ControllerOwn, StepIs

--------------------------------------------------------------------------------
(* The TRBs stay in their places. *)

LEMMA PlaceIs ==
  ASSUME CommandTypes, NEW j \in 1 .. Len(jobs), NEW i \in 1 .. Len(jobs[j].kinds)
  PROVE  /\ Len(jobs[j].kinds) \in 0 .. 3 /\ jobs[j].start \in 0 .. NCmd - 1 /\ jobs[j].at \in Int
         /\ Place(j, i) \in 0 .. NCmd - 1
         /\ Place(j, i) = IF jobs[j].start + i - 1 < NCmd THEN jobs[j].start + i - 1
                          ELSE jobs[j].start + i - 1 - NCmd
<1>1. jobs[j] \in Job
  BY DEF CommandTypes
<1>2. Len(jobs[j].kinds) \in 0 .. 3
  BY <1>1 DEF Job, Kinds, Stages
<1>3. i \in 1 .. 3
  <2> DEFINE l == Len(jobs[j].kinds)
  <2>1. l \in 0 .. 3 /\ i \in 1 .. l
    BY <1>2
  <2> HIDE DEF l
  <2> QED BY <2>1
<1>4. jobs[j].start \in Slots /\ i - 1 \in 0 .. 3 /\ jobs[j].at \in Int
  BY <1>1, <1>3 DEF Job
<1>5. (jobs[j].start + (i - 1)) % NCmd
        = IF jobs[j].start + (i - 1) < NCmd THEN jobs[j].start + (i - 1)
          ELSE jobs[j].start + (i - 1) - NCmd
  BY <1>4, RingPlace
<1> DEFINE s == jobs[j].start
<1>6. s \in 0 .. NCmd - 1 /\ NCmd \in Nat
  BY <1>4, XhciSizes DEF Slots
<1>7. Place(j, i) = (s + i - 1) % NCmd
  BY DEF Place
<1>8. (s + (i - 1)) % NCmd = IF s + (i - 1) < NCmd THEN s + (i - 1) ELSE s + (i - 1) - NCmd
  BY <1>5
<1> HIDE DEF s
<1>9. s + i - 1 = s + (i - 1)
  BY <1>3, <1>6
<1>10. Place(j, i) = IF s + i - 1 < NCmd THEN s + i - 1 ELSE s + i - 1 - NCmd
  BY <1>7, <1>8, <1>9
<1>11. Place(j, i) \in 0 .. NCmd - 1
  BY <1>3, <1>6, <1>10, XhciSizes
<1> QED BY <1>2, <1>4, <1>6, <1>10, <1>11 DEF s

(* What is written at the head, up to a lap, does not reach a job's TRBs. *)
LEMMA AheadOfHead ==
  ASSUME CommandTypes, NEW j \in 1 .. Len(jobs), NEW i \in 1 .. Len(jobs[j].kinds),
         NEW back \in Int, NEW n \in 0 .. 3, NEW k \in 1 .. n,
         back >= Len(jobs[j].kinds), back + n <= NCmd,
         jobs[j].start = IF back <= cmd_ring_head THEN cmd_ring_head - back
                         ELSE cmd_ring_head - back + NCmd
  PROVE  Place(j, i) # IF cmd_ring_head + k - 1 >= NCmd THEN cmd_ring_head + k - 1 - NCmd
                       ELSE cmd_ring_head + k - 1
<1>1. /\ Len(jobs[j].kinds) \in 0 .. 3 /\ jobs[j].start \in 0 .. NCmd - 1
      /\ Place(j, i) = IF jobs[j].start + i - 1 < NCmd THEN jobs[j].start + i - 1
                       ELSE jobs[j].start + i - 1 - NCmd
  BY PlaceIs
<1>2. cmd_ring_head \in 0 .. NCmd - 1 /\ NCmd \in Nat /\ NCmd >= 3
  BY XhciSizes DEF CommandTypes, Slots
<1> DEFINE h == cmd_ring_head
           s == jobs[j].start
           l == Len(jobs[j].kinds)
           p == Place(j, i)
<1>3. /\ l \in 0 .. 3 /\ s \in 0 .. NCmd - 1 /\ h \in 0 .. NCmd - 1 /\ i \in 1 .. l
      /\ back >= l /\ back + n <= NCmd
      /\ p = IF s + i - 1 < NCmd THEN s + i - 1 ELSE s + i - 1 - NCmd
      /\ s = IF back <= h THEN h - back ELSE h - back + NCmd
  BY <1>1, <1>2
<1> HIDE DEF h, s, l, p
<1>4. p # IF h + k - 1 >= NCmd THEN h + k - 1 - NCmd ELSE h + k - 1
  BY <1>2, <1>3
<1> QED BY <1>4 DEF h, p

LEMMA SameTrbs ==
  ASSUME Trbs, UNCHANGED commands, Prepares' = Prepares PROVE Trbs'
<1>1. Due' = Due /\ \A j \in 1 .. Len(jobs) : Back(j)' = Back(j)
  BY DEF Due, Back, commands
<1>2. \A s, kind, job : Holds(s, kind, job)' <=> Holds(s, kind, job)
  BY DEF Holds, commands
<1>3. \A i : SubmitSlot(i)' = SubmitSlot(i)
  BY DEF SubmitSlot, commands
<1>4. \A j \in 1 .. Len(jobs), i \in 1 .. 3 : Place(j, i)' = Place(j, i)
  BY DEF Place, commands
<1>5. PreparedHeld'
  BY <1>3 DEF Trbs, PreparedHeld, commands
<1>6. \A j \in 1 .. Len(jobs) : JobHeld(j)'
  BY <1>1 DEF Trbs, JobHeld, Holds, Place, commands
<1> QED BY <1>1, <1>5, <1>6 DEF Trbs, commands

(* Enable Slot is written to the place of index 0 only. *)
LEMMA EnableKeepsHolds ==
  ASSUME CommandTypes, NEW ring \in [Slots -> Trb], NEW s \in Slots, NEW kind, NEW job,
         ring[s] = [kind |-> kind, job |-> job] \/ (s = 0 /\ ring[0].kind = "enable"),
         cmd_ring' = [ring EXCEPT ![0] = [kind |-> "enable", job |-> 0]]
  PROVE  Holds(s, kind, job)'
<1>1. CASE s = 0
  BY <1>1 DEF Holds
<1>2. CASE s # 0
  BY <1>2 DEF Holds
<1> QED BY <1>1, <1>2

(* xhci_prepare_control_transfer puts its TRBs ahead of those of all jobs. *)
LEMMA TransferTrbs ==
  ASSUME XhciInv, pc \in {"idle", "next"}, NEW data \in BOOLEAN, Transfer(data) PROVE Trbs'
<1> DEFINE n == Len(Stages(data))
           ring == Prepared(data)
<1>0. DriverTypes /\ CommandTypes /\ Trbs /\ ~Prepares /\ NCmd \in Nat /\ written \in Nat
  BY XhciSizes DEF XhciInv, Types, Prepares, CommandTypes
<1>1. /\ CommandTypes' /\ last_cmd'.start = cmd_ring_head /\ last_cmd'.count = n
      /\ cmd_ring_head' = cmd_ring_head /\ written' = written + n
      /\ IF g_slot_enabled
         THEN pc' = "submit" /\ cmd_ring' = ring /\ UNCHANGED <<jobs, outstanding, caller, tries>>
         ELSE SendEnableSlot(ring, "submit")
  BY <1>0, TransferIs
<1>2. /\ ring \in [Slots -> Trb] /\ n = (IF data THEN 3 ELSE 2)
      /\ \A i \in 1 .. n :
           /\ PrepSlot(i) \in Slots
           /\ PrepSlot(i) = IF cmd_ring_head + i - 1 >= NCmd THEN cmd_ring_head + i - 1 - NCmd
                            ELSE cmd_ring_head + i - 1
           /\ ring[PrepSlot(i)].kind = Stages(data)[i]
      /\ \A s \in Slots : (\A i \in 1 .. n : PrepSlot(i) # s) => ring[s] = cmd_ring[s]
  BY <1>0, PreparedIs
<1> HIDE DEF n, ring
<1>3. /\ Prepares' /\ Len(jobs) \in Nat
      /\ \/ jobs' = jobs /\ cmd_ring' = ring
         \/ /\ jobs' = Append(jobs, [start |-> 0, at |-> 0, kinds |-> << >>])
            /\ cmd_ring' = [ring EXCEPT ![0] = [kind |-> "enable", job |-> 0]]
  BY <1>0, <1>1 DEF Prepares, SendEnableSlot, CommandTypes
<1>4. Due = 0 /\ Due' = n /\ n \in {2, 3}
  BY <1>0, <1>1, <1>2, <1>3 DEF Due
<1>5. ASSUME NEW s \in Slots, NEW kind, NEW job,
             ring[s] = [kind |-> kind, job |-> job] \/ (s = 0 /\ ring[0].kind = "enable")
      PROVE  Holds(s, kind, job)'
  BY <1>0, <1>2, <1>3, <1>5, EnableKeepsHolds DEF Holds
<1>6. ASSUME NEW j \in 1 .. Len(jobs) PROVE JobHeld(j)'
  <2> SUFFICES ASSUME jobs[j].kinds # << >>, jobs'[j] = jobs[j] PROVE JobHeld(j)'
    <3>1. jobs'[j] = jobs[j]
      BY <1>0, <1>3 DEF CommandTypes
    <3> QED BY <3>1 DEF JobHeld
  <2>1. jobs[j].at \in Int
    <3>1. jobs[j] \in Job
      BY <1>0 DEF CommandTypes
    <3> QED BY <3>1 DEF Job
  <2>2. Back(j)' = Back(j) /\ Back(j) \in Int
    BY <1>0, <1>1, <1>4, <2>1 DEF Back
  <2>3. /\ Back(j) >= Len(jobs[j].kinds)
        /\ Back(j) <= NCmd =>
             /\ jobs[j].start = IF Back(j) <= cmd_ring_head THEN cmd_ring_head - Back(j)
                                ELSE cmd_ring_head - Back(j) + NCmd
             /\ \A i \in 1 .. Len(jobs[j].kinds) : Holds(Place(j, i), jobs[j].kinds[i], j)
    BY <1>0, <1>4, <2>2 DEF Trbs, JobHeld
  <2>4. ASSUME Back(j)' + Due' <= NCmd, NEW i \in 1 .. Len(jobs[j].kinds)
        PROVE  Holds(Place(j, i), jobs[j].kinds[i], j)'
    <3>1. /\ Place(j, i) \in Slots /\ Back(j) + n <= NCmd /\ Back(j) <= NCmd /\ n \in 0 .. 3
          /\ Place(j, i)' = Place(j, i)
      BY <1>0, <1>4, <2>2, <2>4, PlaceIs, SMTT(30) DEF Slots, Place
    <3>2. \A k \in 1 .. n : PrepSlot(k) # Place(j, i)
      BY <1>0, <1>2, <2>2, <2>3, <3>1, AheadOfHead, ZenonT(40)
    <3>3. ring[Place(j, i)] = cmd_ring[Place(j, i)]
      BY <1>2, <3>1, <3>2
    <3>4. Holds(Place(j, i), jobs[j].kinds[i], j)
      BY <2>3, <3>1
    <3>5. \/ ring[Place(j, i)] = [kind |-> jobs[j].kinds[i], job |-> j]
          \/ Place(j, i) = 0 /\ ring[0].kind = "enable"
      BY <3>3, <3>4 DEF Holds
    <3>6. Holds(Place(j, i), jobs[j].kinds[i], j)' <=>
            \/ cmd_ring'[Place(j, i)] = [kind |-> jobs[j].kinds[i], job |-> j]
            \/ Place(j, i) = 0 /\ cmd_ring'[0].kind = "enable"
      BY <3>1 DEF Holds
    <3>7. 0 \in Slots
      BY XhciSizes DEF Slots
    <3> QED BY <1>2, <1>3, <3>1, <3>5, <3>6, <3>7
  <2> QED BY <1>1, <2>2, <2>3, <2>4 DEF JobHeld
<1>7. ASSUME NEW j \in 1 .. Len(jobs'), j \notin 1 .. Len(jobs) PROVE JobHeld(j)'
  <2>1. jobs' = Append(jobs, [start |-> 0, at |-> 0, kinds |-> << >>]) /\ jobs \in Seq(Job)
    BY <1>0, <1>3, <1>7 DEF CommandTypes
  <2>2. j = Len(jobs) + 1
    BY <1>3, <1>7, <2>1
  <2>3. jobs'[j].kinds = << >>
    BY <2>1, <2>2
  <2> QED BY <2>3 DEF JobHeld
<1>8. PreparedHeld'
  <2>1. \A i \in 1 .. n : SubmitSlot(i)' = PrepSlot(i)
    BY <1>1 DEF SubmitSlot, PrepSlot
  <2>2. Stages(n = 3) = Stages(data)
    BY <1>2 DEF Stages
  <2>3. \A i \in 1 .. n :
          \/ cmd_ring'[PrepSlot(i)].kind = Stages(data)[i]
          \/ PrepSlot(i) = 0 /\ cmd_ring'[0].kind = "enable"
    <3>1. 0 \in Slots
      BY XhciSizes DEF Slots
    <3> QED BY <1>2, <1>3, <3>1
  <2> QED BY <1>1, <1>4, <2>1, <2>2, <2>3 DEF PreparedHeld
<1>9. Due' <= written'
  BY <1>0, <1>1, <1>4
<1> QED BY <1>3, <1>6, <1>7, <1>8, <1>9 DEF Trbs

(* xhci_enumerate_once with no slot enabled. *)
LEMMA EnumerateTrbs == ASSUME XhciInv, Enumerate PROVE Trbs'
<1>0. /\ DriverTypes /\ CommandTypes /\ Trbs /\ ~Prepares /\ cmd_ring \in [Slots -> Trb]
      /\ Len(jobs) \in Nat
  BY DEF XhciInv, Types, Prepares, CommandTypes, Enumerate
<1>1. /\ UNCHANGED <<cmd_ring_head, last_cmd, written>> /\ ~Prepares'
      /\ \/ jobs' = jobs /\ cmd_ring' = cmd_ring
         \/ /\ jobs' = Append(jobs, [start |-> 0, at |-> 0, kinds |-> << >>])
            /\ cmd_ring' = [cmd_ring EXCEPT ![0] = [kind |-> "enable", job |-> 0]]
  BY DEF Enumerate, SendEnableSlot, Prepares
<1>2. Due = 0 /\ Due' = 0
  BY <1>0, <1>1 DEF Due
<1>3. ASSUME NEW j \in 1 .. Len(jobs) PROVE JobHeld(j)'
  <2> SUFFICES ASSUME jobs[j].kinds # << >>, jobs'[j] = jobs[j] PROVE JobHeld(j)'
    <3>1. jobs'[j] = jobs[j]
      BY <1>0, <1>1 DEF CommandTypes
    <3> QED BY <3>1 DEF JobHeld
  <2>1. Back(j)' = Back(j)
    BY <1>1, <1>2 DEF Back
  <2>2. JobHeld(j)
    BY <1>0 DEF Trbs
  <2>3. ASSUME Back(j) + 0 <= NCmd, NEW i \in 1 .. Len(jobs[j].kinds)
        PROVE  Holds(Place(j, i), jobs[j].kinds[i], j)'
    <3>1. Place(j, i) \in Slots /\ Place(j, i)' = Place(j, i)
      BY <1>0, PlaceIs DEF Slots, Place
    <3>2. Holds(Place(j, i), jobs[j].kinds[i], j)
      BY <1>2, <2>2, <2>3 DEF JobHeld
    <3>3. Holds(Place(j, i), jobs[j].kinds[i], j)' <=>
            \/ cmd_ring'[Place(j, i)] = [kind |-> jobs[j].kinds[i], job |-> j]
            \/ Place(j, i) = 0 /\ cmd_ring'[0].kind = "enable"
      BY <3>1 DEF Holds
    <3>4. 0 \in Slots
      BY XhciSizes DEF Slots
    <3> QED BY <1>0, <1>1, <3>1, <3>2, <3>3, <3>4 DEF Holds
  <2> QED BY <1>1, <1>2, <2>1, <2>2, <2>3 DEF JobHeld
<1>4. ASSUME NEW j \in 1 .. Len(jobs'), j \notin 1 .. Len(jobs) PROVE JobHeld(j)'
  <2>1. jobs' = Append(jobs, [start |-> 0, at |-> 0, kinds |-> << >>]) /\ jobs \in Seq(Job)
    BY <1>0, <1>1, <1>4 DEF CommandTypes
  <2>2. j = Len(jobs) + 1
    BY <1>0, <1>4, <2>1
  <2>3. jobs'[j].kinds = << >>
    BY <2>1, <2>2
  <2> QED BY <2>3 DEF JobHeld
<1>5. PreparedHeld' /\ Due' <= written'
  BY <1>0, <1>1, <1>2 DEF PreparedHeld, CommandTypes
<1> QED BY <1>3, <1>4, <1>5 DEF Trbs

(* xhci_submit_command_ring: the TRBs prepared become those of the new job, and the
   head moves behind them. *)
LEMMA SubmitTrbs == ASSUME XhciInv, Submit PROVE Trbs'
<1> DEFINE n == last_cmd.count
           job == Len(jobs) + 1
<1>0. /\ DriverTypes /\ CommandTypes /\ Trbs /\ NCmd \in Nat /\ NCmd >= 3 /\ written \in Nat
      /\ Len(jobs) \in Nat /\ cmd_ring_head \in 0 .. NCmd - 1 /\ Types /\ PreparedHeld
  BY XhciSizes DEF XhciInv, Types, CommandTypes, Trbs, Slots
<1>1. /\ Types' /\ pc = "submit" /\ Prepares /\ ~Prepares' /\ n \in {2, 3}
      /\ \A i \in 1 .. n :
           /\ SubmitSlot(i) \in Slots
           /\ SubmitSlot(i) = IF cmd_ring_head + i - 1 >= NCmd THEN cmd_ring_head + i - 1 - NCmd
                              ELSE cmd_ring_head + i - 1
           /\ cmd_ring'[SubmitSlot(i)] = [kind |-> cmd_ring[SubmitSlot(i)].kind, job |-> job]
      /\ \A s \in Slots : (\A i \in 1 .. n : SubmitSlot(i) # s) => cmd_ring'[s] = cmd_ring[s]
      /\ Len(jobs') = Len(jobs) + 1 /\ \A j \in 1 .. Len(jobs) : jobs'[j] = jobs[j]
      /\ jobs'[job] = [start |-> cmd_ring_head, at |-> written - n, kinds |-> Stages(n = 3)]
      /\ cmd_ring_head' = (cmd_ring_head + n) % NCmd
      /\ written' = written
  BY <1>0, SubmitIs
<1>2. \A i \in 1 .. n : \/ cmd_ring[SubmitSlot(i)].kind = Stages(n = 3)[i]
                        \/ SubmitSlot(i) = 0 /\ cmd_ring[0].kind = "enable"
  BY <1>1 DEF Trbs, XhciInv, PreparedHeld
<1>3. Due = n /\ Due' = 0
  BY <1>1 DEF Due
<1> HIDE DEF n, job
<1>4. cmd_ring_head' = IF cmd_ring_head + n < NCmd THEN cmd_ring_head + n ELSE cmd_ring_head + n - NCmd
  <2>1. cmd_ring_head \in Slots /\ n \in 0 .. 3
    BY <1>0, <1>1 DEF Slots
  <2> QED BY <1>1, <2>1, RingPlace
<1>5. /\ n \in {2, 3}
       /\ \A i \in 1 .. n :
            /\ SubmitSlot(i) \in Slots
            /\ SubmitSlot(i) = IF cmd_ring_head + i - 1 >= NCmd THEN cmd_ring_head + i - 1 - NCmd
                               ELSE cmd_ring_head + i - 1
  BY <1>1
<1>6. ASSUME NEW j \in 1 .. Len(jobs) PROVE JobHeld(j)'
  <2> SUFFICES ASSUME jobs[j].kinds # << >>, jobs'[j] = jobs[j] PROVE JobHeld(j)'
    BY <1>1 DEF JobHeld
  <2>1. jobs[j].at \in Int
    <3>1. jobs[j] \in Job
      BY <1>0 DEF CommandTypes
    <3> QED BY <3>1 DEF Job
  <2>2. Back(j)' = Back(j) + n /\ Back(j) \in Int /\ n \in {2, 3}
    <3> DEFINE a == jobs[j].at
    <3>1. Back(j) = written - n - a /\ Back(j)' = written - 0 - a
      BY <1>1, <1>3 DEF Back
    <3> HIDE DEF a
    <3>2. a \in Int /\ n \in {2, 3} /\ written \in Nat
      BY <1>0, <1>5, <2>1 DEF a
    <3> QED BY <3>1, <3>2
  <2>3. /\ Back(j) >= Len(jobs[j].kinds)
        /\ Back(j) <= NCmd =>
             jobs[j].start = IF Back(j) <= cmd_ring_head THEN cmd_ring_head - Back(j)
                             ELSE cmd_ring_head - Back(j) + NCmd
        /\ Back(j) + n <= NCmd =>
             \A i \in 1 .. Len(jobs[j].kinds) : Holds(Place(j, i), jobs[j].kinds[i], j)
    BY <1>0, <1>3 DEF Trbs, JobHeld
  <2>4. Len(jobs[j].kinds) \in Nat
    <3>1. jobs[j] \in Job
      BY <1>0 DEF CommandTypes
    <3> QED BY <3>1 DEF Job, Kinds, Stages
  <2>5. Back(j)' >= Len(jobs[j].kinds)
    <3> DEFINE l == Len(jobs[j].kinds)
               b == Back(j)
    <3>1. l \in Nat /\ b \in Int /\ b >= l /\ Back(j)' = b + n
      BY <2>2, <2>3, <2>4
    <3> HIDE DEF l, b
    <3>2. Back(j)' >= l
      BY <2>2, <3>1
    <3> QED BY <3>2 DEF l
  <2>6. ASSUME Back(j)' <= NCmd
        PROVE  jobs[j].start = IF Back(j)' <= cmd_ring_head' THEN cmd_ring_head' - Back(j)'
                               ELSE cmd_ring_head' - Back(j)' + NCmd
    <3> DEFINE b == Back(j)
    <3>1. b \in Int /\ b + n <= NCmd /\ Back(j)' = b + n /\ b >= 0
      BY <2>2, <2>3, <2>4, <2>6
    <3>2. jobs[j].start = IF b <= cmd_ring_head THEN cmd_ring_head - b ELSE cmd_ring_head - b + NCmd
      BY <1>0, <2>2, <2>3, <3>1
    <3> HIDE DEF b
    <3> QED BY <1>0, <1>4, <2>2, <3>1, <3>2
  <2>7. ASSUME Back(j)' + 0 <= NCmd, NEW i \in 1 .. Len(jobs[j].kinds)
        PROVE  Holds(Place(j, i), jobs[j].kinds[i], j)'
    <3>1. /\ Place(j, i) \in Slots /\ Back(j) + n <= NCmd /\ n \in 0 .. 3
          /\ Place(j, i)' = Place(j, i)
      BY <1>0, <2>2, <2>7, PlaceIs DEF Slots, Place
    <3>2. Back(j) <= NCmd
      BY <1>0, <2>2, <3>1
    <3>3. \A k \in 1 .. n : SubmitSlot(k) # Place(j, i)
      <4>1. jobs[j].start = IF Back(j) <= cmd_ring_head THEN cmd_ring_head - Back(j)
                            ELSE cmd_ring_head - Back(j) + NCmd
        BY <2>3, <3>2
      <4> QED BY <1>0, <1>5, <2>2, <2>3, <3>1, <4>1, AheadOfHead
    <3>4. cmd_ring'[Place(j, i)] = cmd_ring[Place(j, i)]
      BY <1>1, <3>1, <3>3
    <3>5. Holds(Place(j, i), jobs[j].kinds[i], j)
      BY <2>3, <3>1
    <3>6. Place(j, i) = 0 => cmd_ring'[0] = cmd_ring[0]
      BY <3>4
    <3> QED BY <3>1, <3>4, <3>5, <3>6 DEF Holds
  <2> QED BY <1>3, <2>5, <2>6, <2>7 DEF JobHeld
<1>7. ASSUME NEW j \in 1 .. Len(jobs'), j \notin 1 .. Len(jobs) PROVE JobHeld(j)'
  <2>1. j = job
    BY <1>0, <1>1, <1>7 DEF job
  <2>2. /\ jobs'[j].start = cmd_ring_head /\ jobs'[j].at = written - n
        /\ jobs'[j].kinds = Stages(n = 3) /\ Len(Stages(n = 3)) = n
    BY <1>1, <2>1 DEF Stages
  <2>3. Back(j)' = n
    BY <1>0, <1>1, <1>3, <2>2 DEF Back
  <2>4. jobs'[j].start = IF n <= cmd_ring_head' THEN cmd_ring_head' - n ELSE cmd_ring_head' - n + NCmd
    <3>1. cmd_ring_head = IF n <= cmd_ring_head' THEN cmd_ring_head' - n ELSE cmd_ring_head' - n + NCmd
      BY <1>0, <1>4, <1>5
    <3> QED BY <2>2, <3>1
  <2>5. ASSUME NEW i \in 1 .. n PROVE Holds(Place(j, i), jobs[j].kinds[i], j)'
    <3>1. i - 1 \in 0 .. 3 /\ cmd_ring_head \in Slots
      BY <1>0, <1>5 DEF Slots
    <3>2. (cmd_ring_head + (i - 1)) % NCmd
            = IF cmd_ring_head + (i - 1) < NCmd THEN cmd_ring_head + (i - 1)
              ELSE cmd_ring_head + (i - 1) - NCmd
      BY <3>1, RingPlace
    <3>3. Place(j, i)' = (cmd_ring_head + i - 1) % NCmd
      BY <2>2 DEF Place
    <3>4. cmd_ring_head + i - 1 = cmd_ring_head + (i - 1)
      BY <1>0
    <3>5. Place(j, i)' = SubmitSlot(i)
      <4>1. Place(j, i)' = IF cmd_ring_head + i - 1 < NCmd THEN cmd_ring_head + i - 1
                           ELSE cmd_ring_head + i - 1 - NCmd
        BY <3>2, <3>3, <3>4
      <4>2. SubmitSlot(i) = IF cmd_ring_head + i - 1 >= NCmd THEN cmd_ring_head + i - 1 - NCmd
                            ELSE cmd_ring_head + i - 1
        BY <1>5
      <4> QED BY <1>0, <4>1, <4>2
    <3>6. \/ cmd_ring'[SubmitSlot(i)] = [kind |-> Stages(n = 3)[i], job |-> j]
          \/ SubmitSlot(i) = 0 /\ cmd_ring'[0].kind = "enable"
      <4>1. cmd_ring'[SubmitSlot(i)] = [kind |-> cmd_ring[SubmitSlot(i)].kind, job |-> j]
        BY <1>1, <2>1
      <4>2. \/ cmd_ring[SubmitSlot(i)].kind = Stages(n = 3)[i]
            \/ SubmitSlot(i) = 0 /\ cmd_ring[0].kind = "enable"
        BY <1>2
      <4> QED BY <4>1, <4>2
    <3> QED BY <2>2, <3>5, <3>6 DEF Holds
  <2> QED BY <1>1, <1>3, <2>2, <2>3, <2>4, <2>5 DEF JobHeld
<1>8. PreparedHeld' /\ Due' <= written'
  BY <1>0, <1>1, <1>3 DEF PreparedHeld
<1> QED BY <1>6, <1>7, <1>8 DEF Trbs

LEMMA TrbsKept == XhciInv /\ [Next]_vars => Trbs'
<1> SUFFICES ASSUME XhciInv, [Next]_vars PROVE Trbs'
  OBVIOUS
<1>0. DriverTypes /\ Trbs
  BY DEF XhciInv, Types
<1>1. CASE Calls
  <2>1. CASE ControlTransfer \/ NextDescriptor
    <3>1. pc \in {"idle", "next"} /\ \E data \in BOOLEAN : Transfer(data)
      BY <2>1 DEF ControlTransfer, NextDescriptor
    <3> QED BY <3>1, TransferTrbs
  <2> QED BY <1>1, <2>1, EnumerateTrbs DEF Calls
<1>2. CASE Probe \/ EnumerateEnds
  BY <1>0, <1>2, SameTrbs DEF Probe, EnumerateEnds, Prepares
<1>3. CASE Waits
  <2>1. UNCHANGED commands
    BY <1>3 DEF Waits, EnableDone, EnableSkip, EnableRetry, EnableFails, TransferDone,
                TransferTimeout, Consume
  <2>2. Prepares' = Prepares
    BY <1>0, <1>3 DEF Waits, EnableDone, EnableSkip, EnableRetry, EnableFails, TransferDone,
                TransferTimeout, TransferOver, Enabled, Prepares, DriverTypes
  <2> QED BY <1>0, <2>1, <2>2, SameTrbs
<1>4. CASE Complete \/ PortEvent \/ UNCHANGED vars
  <2>1. UNCHANGED commands /\ UNCHANGED driver
    BY <1>4 DEF Complete, PortEvent, Post, vars
  <2> QED BY <1>0, <2>1, SameTrbs DEF driver, Prepares
<1> QED BY <1>1, <1>2, <1>3, <1>4, SubmitTrbs, StepIs

LEMMA XhciTypesKept == XhciInv /\ [Next]_vars => Types'
<1> SUFFICES ASSUME XhciInv, [Next]_vars PROVE Types'
  OBVIOUS
<1>0. Types /\ DriverTypes /\ CommandTypes /\ EventTypes /\ Events /\ PreparedHeld
  BY DEF XhciInv, Types, Trbs
<1>1. CASE UNCHANGED vars
  BY <1>0, <1>1 DEF vars, driver, commands, slot, consumer, controller, Types, DriverTypes,
                    CommandTypes, EventTypes, Prepares
<1> QED BY <1>0, <1>1, StepIs, CallTypes, StartTypes, SubmitIs, WaitTypes, ControllerTypes
           DEF Calls, Waits

LEMMA Initially == Init => XhciInv
<1> SUFFICES ASSUME Init PROVE XhciInv
  OBVIOUS
<1>0. 0 \in Slots /\ 0 \in 0 .. NEr - 1 /\ 0 \in 0 .. NBus - 1 /\ MaxJobs \in Nat /\ NEr \in Nat /\ NEr >= 2
  BY XhciSizes DEF Slots
<1>1. [kind |-> "none", job |-> 0] \in Trb /\ Empty \in EventTrb
  BY <1>0 DEF Trb, Empty, EventTrb
<1>2. DriverTypes
  <2>1. Len(jobs) = 0 /\ pc = "probe" /\ left = 0
    BY DEF Init
  <2>2. Len(jobs) + left + (IF Prepares THEN 1 ELSE 0) <= MaxJobs
    BY <1>0, <2>1 DEF Prepares
  <2>3. /\ g_slot_enabled \in BOOLEAN /\ g_dev_ctx = "none" /\ caller = "none"
        /\ tries = 0 /\ bus = 0
    BY DEF Init
  <2> QED BY <1>0, <2>1, <2>2, <2>3 DEF DriverTypes
<1>3. CommandTypes
  BY <1>0, <1>1 DEF Init, CommandTypes
<1>4. EventTypes
  <2>1. [idx |-> 0, cycle |-> 1] \in Index
    BY <1>0 DEF Index
  <2>2. er \in [0 .. NEr - 1 -> EventTrb]
    BY <1>1 DEF Init
  <2>3. seen = << >> /\ posted = 0 /\ ports = 0 /\ wrong = FALSE /\ upset = FALSE
        /\ deq = [idx |-> 0, cycle |-> 1] /\ enq = [idx |-> 0, cycle |-> 1]
    BY DEF Init
  <2>4. wrong \in BOOLEAN /\ upset \in BOOLEAN
    BY <2>3
  <2>5. seen \in Seq(Nat) /\ posted \in Nat /\ ports \in Nat
    BY <2>3
  <2> QED BY <2>1, <2>2, <2>3, <2>4, <2>5 DEF EventTypes
<1>5. Events
  BY <1>0 DEF Init, Events, Pending, Ahead
<1>6. Own
  BY DEF Init, Own, Completions
<1>7. Trbs
  BY DEF Init, Trbs, PreparedHeld, Prepares, Due
<1> QED BY <1>2, <1>3, <1>4, <1>5, <1>6, <1>7 DEF XhciInv, Types

LEMMA XhciInvHolds == Spec => []XhciInv
<1>1. XhciInv /\ [Next]_vars => XhciInv'
  BY XhciTypesKept, EventsKept, OwnKept, TrbsKept DEF XhciInv
<1> QED BY <1>1, Initially, PTL DEF Spec

--------------------------------------------------------------------------------
(* Theorems. *)

(* usb/xhci.c keeps its rings, indexes and counters within their bounds. *)
THEOREM XhciTypes == Spec => []XTypeOK
<1>1. XhciInv => XTypeOK
  <2> SUFFICES ASSUME XhciInv PROVE XTypeOK
    OBVIOUS
  <2>1. Len(jobs) \in Nat /\ Len(jobs) <= MaxJobs /\ MaxJobs \in Nat
    BY XhciSizes DEF XhciInv, Types, DriverTypes, CommandTypes
  <2>2. outstanding \subseteq 1 .. MaxJobs
    <3> SUFFICES ASSUME NEW j \in outstanding PROVE j \in 1 .. MaxJobs
      OBVIOUS
    <3>1. j \in 1 .. Len(jobs)
      BY DEF XhciInv, Types, CommandTypes
    <3> QED BY <2>1, <3>1
  <2> QED BY <2>1, <2>2 DEF XhciInv, Types, DriverTypes, CommandTypes, EventTypes, Trb, Index, XTypeOK
<1> QED BY <1>1, XhciInvHolds, PTL

(* xhci_poll_event_ring and xhci_wait_for_command_completion take the events in the
   order of their posting, each once, across every wrap of the ring. *)
THEOREM EventsInOrder == Spec => []ConsumedInOrder
<1>1. XhciInv => ConsumedInOrder
  <2> SUFFICES ASSUME XhciInv PROVE ConsumedInOrder
    OBVIOUS
  <2>1. Len(seen) \in Nat /\ posted \in Nat /\ posted - Len(seen) \in 0 .. NEr - 1
    BY DEF XhciInv, Types, EventTypes, Events, Pending
  <2> QED BY <2>1, XhciSizes DEF ConsumedInOrder, XhciInv, Events
<1> QED BY <1>1, XhciInvHolds, PTL

(* The cycle bit never hides an event that was posted: what the driver finds at
   its dequeue index is an event exactly when one is pending. *)
PendingIsSeen == posted > Len(seen) <=> IsEvent(Event)
THEOREM NoEventHidden == Spec => []PendingIsSeen
<1>1. XhciInv => PendingIsSeen
  <2> SUFFICES ASSUME XhciInv PROVE PendingIsSeen
    OBVIOUS
  <2>1. /\ Len(seen) \in Nat /\ posted \in Nat /\ Pending \in 0 .. NEr - 1
        /\ deq.idx \in 0 .. NEr - 1 /\ Ahead(deq.idx) = 0 /\ NEr \in Nat
    BY XhciSizes DEF XhciInv, Types, EventTypes, Events, Index, Ahead
  <2>2. posted > Len(seen) <=> 0 < Pending
    BY <2>1 DEF Pending
  <2>3. IF 0 < Pending THEN Event.n = Len(seen) + 1 /\ Event.cycle = deq.cycle ELSE Event = Empty
    BY <2>1 DEF XhciInv, Events, Event
  <2>4. Event.n = Len(seen) + 1 => Event # Empty
    BY <2>1 DEF Empty
  <2> QED BY <2>2, <2>3, <2>4 DEF PendingIsSeen, IsEvent
<1> QED BY <1>1, XhciInvHolds, PTL

(* A wait of usb/xhci.c ends with the completion of its own job, unless an earlier
   wait was given up or a port event was taken for a completion. *)
THEOREM OwnCompletion == Spec => []CompletionIsOwn
<1>1. XhciInv => CompletionIsOwn
  BY DEF XhciInv, Own, CompletionIsOwn
<1> QED BY <1>1, XhciInvHolds, PTL

(* The TRBs that a doorbell announced stay in the command ring until it has come
   around to them, except for the place that Enable Slot is written to. *)
THEOREM OverwrittenByLap == Spec => []OverwrittenOnlyByLap
<1>1. XhciInv => OverwrittenOnlyByLap
  <2> SUFFICES ASSUME XhciInv, NEW j \in outstanding, written - jobs[j].at <= NCmd,
                      NEW i \in DOMAIN jobs[j].kinds
               PROVE  \/ cmd_ring[Place(j, i)] = [kind |-> jobs[j].kinds[i], job |-> j]
                      \/ Place(j, i) = 0 /\ cmd_ring[Place(j, i)].kind = "enable"
    BY DEF OverwrittenOnlyByLap
  <2>1. CommandTypes /\ j \in 1 .. Len(jobs) /\ jobs[j] \in Job /\ JobHeld(j)
    BY DEF XhciInv, Types, CommandTypes, Trbs
  <2>2. DOMAIN jobs[j].kinds = 1 .. Len(jobs[j].kinds) /\ jobs[j].kinds # << >> /\ jobs[j].at \in Int
    BY <2>1 DEF Job, Kinds, Stages
  <2>3. Back(j) + Due = written - jobs[j].at
    <3>1. Due \in Int /\ written \in Int
      BY <2>1 DEF Due, CommandTypes
    <3> QED BY <2>2, <3>1 DEF Back
  <2>4. Holds(Place(j, i), jobs[j].kinds[i], j)
    BY <2>1, <2>2, <2>3 DEF JobHeld
  <2> QED BY <2>4 DEF Holds
<1> QED BY <1>1, XhciInvHolds, PTL

================================================================================
