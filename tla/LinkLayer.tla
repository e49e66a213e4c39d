------------------------------- MODULE LinkLayer -------------------------------
(***************************************************************************)
(* What net.c promises its callers, with no cache and no queue: the stack  *)
(* remembers for ever the last MAC address each host announced, and a      *)
(* packet given to net_send_ip is put on the wire at most once, addressed  *)
(* to the last MAC announced by its next hop, or kept for later, or lost.  *)
(***************************************************************************)
EXTENDS Sequences

CONSTANTS Addr,      \* IPv4 addresses of the hosts around the machine
          Mac,       \* hardware addresses
          NoMac,     \* no address announced yet
          Pkt,       \* packets given to net_send_ip
          HopOf      \* HopOf[p]: the host whose MAC packet p must carry

VARIABLES known,     \* known[a]: the last MAC announced by a
          state,     \* state[p]: not given yet, held, or out of the stack
          frames     \* frames[p]: the MACs of the frames that carried p

lvars == <<known, state, frames>>

LInit == /\ known = [a \in Addr |-> NoMac]
         /\ state = [p \in Pkt |-> "new"]
         /\ frames = [p \in Pkt |-> << >>]

Learn(a, m) == /\ known' = [known EXCEPT ![a] = m]
               /\ UNCHANGED <<state, frames>>

Transmit(p) == /\ state[p] \in {"new", "held"}
               /\ known[HopOf[p]] # NoMac
               /\ state' = [state EXCEPT ![p] = "gone"]
               /\ frames' = [frames EXCEPT ![p] = Append(@, known[HopOf[p]])]
               /\ UNCHANGED known

Hold(p) == /\ state[p] = "new"
           /\ state' = [state EXCEPT ![p] = "held"]
           /\ UNCHANGED <<known, frames>>

Drop(p) == /\ state[p] \in {"new", "held"}
           /\ state' = [state EXCEPT ![p] = "gone"]
           /\ UNCHANGED <<known, frames>>

LNext == \/ \E a \in Addr, m \in Mac : Learn(a, m)
         \/ \E p \in Pkt : Transmit(p) \/ Hold(p) \/ Drop(p)

LSpec == LInit /\ [][LNext]_lvars
================================================================================
