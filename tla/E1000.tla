--------------------------------- MODULE E1000 ---------------------------------
(***************************************************************************)
(* The receive ring and the transmit ring of drivers/e1000e.c, with the    *)
(* network card (external) working on them at the same time.               *)
(*                                                                         *)
(* rtl8139_poll is unrolled: each step looks at one descriptor, hands its  *)
(* frame to net_rx, or gives it back to the card.  nic_tx is one action;   *)
(* it may be called inside a poll, by what net_rx calls.                   *)
(* The card owns the descriptors from its head up to the tail the driver   *)
(* wrote last, and none when the two are equal.  Frames are numbered in    *)
(* the order the card accepts them, or nic_tx is given them.               *)
(***************************************************************************)
EXTENDS Integers, SequencesExt

CONSTANTS NRx,      \* RX_DESC_COUNT (32)
          NTx,      \* TX_DESC_COUNT (16)
          MaxRx,    \* bound: frames the card accepts
          MaxTx     \* bound: frames given to nic_tx

ASSUME E1000Sizes == /\ NRx \in Nat \ {0, 1} /\ NTx \in Nat \ {0, 1}
                     /\ MaxRx \in Nat /\ MaxTx \in Nat

VARIABLES
  rx_ring,   \* the frame each receive descriptor holds; 0: its status is clear
  RDH, RDT,  \* the card's head and the driver's tail of the receive ring
  at,        \* the index of the loop of rtl8139_poll; NRx: no poll runs
  taken,     \* TRUE iff the frame of descriptor `at' was handed to net_rx
  accepted,  \* frames accepted by the card
  got,       \* history: the frames handed to net_rx
  inPoll,    \* history: TRUE iff a frame arrived while a poll was running
  tx_ring,   \* the frame in each transmit buffer
  TDH,       \* the card's head of the transmit ring
  tx_tail,   \* the driver's tail, written to TDT
  given,     \* frames given to nic_tx
  sent,      \* history: the frames the card put on the wire
  lapped     \* history: TRUE iff nic_tx was called with NTx - 1 frames unsent

rxvars == <<rx_ring, RDH, RDT, at, taken, accepted, got, inPoll>>
txvars == <<tx_ring, TDH, tx_tail, given, sent, lapped>>
vars == <<rxvars, txvars>>

RxDesc == 0 .. NRx - 1
TxDesc == 0 .. NTx - 1

(* rtl8139_init. *)
Init == /\ rx_ring = [i \in RxDesc |-> 0]
        /\ RDH = 0
        /\ RDT = NRx - 1
        /\ at = NRx
        /\ taken = FALSE
        /\ accepted = 0
        /\ got = << >>
        /\ inPoll = FALSE
        /\ tx_ring = [i \in TxDesc |-> 0]
        /\ TDH = 0
        /\ tx_tail = 0
        /\ given = 0
        /\ sent = << >>
        /\ lapped = FALSE

--------------------------------------------------------------------------------
(* Receiving. *)

(* The card stores a frame in a descriptor it owns. *)
CardReceives ==
  /\ accepted < MaxRx
  /\ RDH # RDT
  /\ accepted' = accepted + 1
  /\ rx_ring' = [rx_ring EXCEPT ![RDH] = accepted + 1]
  /\ RDH' = (RDH + 1) % NRx
  /\ inPoll' = (inPoll \/ at # NRx)
  /\ UNCHANGED <<RDT, at, taken, got, txvars>>

(* rtl8139_poll is called, and starts from the first descriptor. *)
Poll == /\ at = NRx
        /\ at' = 0
        /\ UNCHANGED <<rx_ring, RDH, RDT, taken, accepted, got, inPoll, txvars>>

SkipTo(i) == /\ at < NRx /\ ~taken
             /\ rx_ring[at] = 0
             /\ at' = i
             /\ UNCHANGED <<rx_ring, RDH, RDT, taken, accepted, got, inPoll, txvars>>
(* Fault: the poll ends at the first descriptor that is not ready. *)
Skip_Ends == SkipTo(NRx)
Skip == SkipTo(at + 1)

Take == /\ at < NRx /\ ~taken
        /\ rx_ring[at] # 0
        /\ got' = Append(got, rx_ring[at])
        /\ taken' = TRUE
        /\ UNCHANGED <<rx_ring, RDH, RDT, at, accepted, inPoll, txvars>>

(* The loop goes on from descriptor `at', with these statuses and this tail. *)
Return(ring, tail) == /\ at < NRx /\ taken
                      /\ rx_ring' = ring /\ RDT' = tail
                      /\ taken' = FALSE
                      /\ at' = at + 1
                      /\ UNCHANGED <<RDH, accepted, got, inPoll, txvars>>
Cleared(i) == [rx_ring EXCEPT ![i] = 0]
(* Faults: another status is cleared; none is; the tail is not moved. *)
GiveBack_ClearNext == Return(Cleared((at + 1) % NRx), at)
GiveBack_NoClear == Return(rx_ring, at)
GiveBack_NoTail == Return(Cleared(at), RDT)
GiveBack == Return(Cleared(at), at)

--------------------------------------------------------------------------------
(* Sending. *)

Unsent == (tx_tail - TDH) % NTx

(* The frame goes to the buffer of descriptor i. *)
Fill(i) == /\ given < MaxTx
           /\ given' = given + 1
           /\ lapped' = (lapped \/ Unsent = NTx - 1)
           /\ tx_ring' = [tx_ring EXCEPT ![i] = given + 1]
           /\ UNCHANGED <<TDH, sent, rxvars>>
(* Faults: the tail does not wrap around; the buffer is the one after. *)
NicTx_NoWrap == Fill(tx_tail) /\ tx_tail' = tx_tail + 1
NicTx_CopyNext == Fill((tx_tail + 1) % NTx) /\ tx_tail' = (tx_tail + 1) % NTx
(* nic_tx: it does not look whether the card is done with the descriptor. *)
NicTx == Fill(tx_tail) /\ tx_tail' = (tx_tail + 1) % NTx

CardSends == /\ TDH # tx_tail
             /\ sent' = Append(sent, tx_ring[TDH])
             /\ TDH' = (TDH + 1) % NTx
             /\ UNCHANGED <<tx_ring, tx_tail, given, lapped, rxvars>>

Driver == Skip \/ Take \/ GiveBack

Next == CardReceives \/ Poll \/ Driver \/ NicTx \/ CardSends

Spec == Init /\ [][Next]_vars

(* Every loop of the kernel that waits calls rtl8139_poll, again and again. *)
FairSpec == Spec /\ WF_vars(Poll) /\ WF_vars(Driver)

--------------------------------------------------------------------------------
(* Properties. *)

TypeOK == /\ rx_ring \in [RxDesc -> 0 .. MaxRx]
          /\ RDH \in RxDesc /\ RDT \in RxDesc
          /\ at \in 0 .. NRx
          /\ taken \in BOOLEAN
          /\ accepted \in 0 .. MaxRx
          /\ got \in Seq(1 .. MaxRx)
          /\ inPoll \in BOOLEAN /\ lapped \in BOOLEAN
          /\ tx_ring \in [TxDesc -> 0 .. MaxTx]
          /\ TDH \in TxDesc /\ tx_tail \in TxDesc
          /\ given \in 0 .. MaxTx
          /\ sent \in Seq(0 .. MaxTx)

Ready(f) == \E i \in RxDesc : rx_ring[i] = f
Got(f) == \E k \in DOMAIN got : got[k] = f

(* No frame is handed to net_rx twice, also when frames arrive during a poll:
   rtl8139_poll clears the status of what it handed over. *)
NoFrameTwice == \A j, k \in DOMAIN got : got[j] = got[k] => j = k

(* When no frame arrived during a poll, none that the card accepted is lost:
   the card does not overwrite a descriptor before its frame was taken, though
   a poll leaves the tail at the last index and not at the last frame. *)
NothingLost == inPoll \/ \A f \in 1 .. accepted : Ready(f) \/ Got(f)

(* Outside of a poll, the card owns a descriptor, or one is ready for the next
   poll to give back; otherwise it never receives again. *)
Starved == at = NRx /\ RDH = RDT /\ \A i \in RxDesc : rx_ring[i] = 0

(* The receive ring starves only after a frame arrived during a poll. *)
StarvedOnlyByBurst == Starved => inPoll

(* A frame the card accepted is handed to net_rx, unless one arrived during a
   poll. *)
AllTaken == \A f \in 1 .. MaxRx : (accepted >= f) ~> (Got(f) \/ inPoll)

(* What the card sends is what nic_tx was given, in order. *)
InOrder == /\ \A k \in DOMAIN sent : sent[k] = k
           /\ Len(sent) + Unsent = given

(* The card sends what nic_tx was given, in order, as long as nic_tx is not
   called when one descriptor only is left. *)
SentUnlessLapped == lapped \/ InOrder
================================================================================
