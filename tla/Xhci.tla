---------------------------------- MODULE Xhci ----------------------------------
(***************************************************************************)
(* The command ring and the event ring of usb/xhci.c, with hardware access *)
(* enabled (xhci_hw_enable = 1), and its callers in usb/usb_host.c.        *)
(*                                                                         *)
(* The driver is sequential: between two waits for an event it makes one   *)
(* step.  The controller (external) completes what a doorbell announced    *)
(* late, or never, posts port events at any time, and does not overrun the *)
(* dequeue index.  Jobs, Enable Slot commands and control transfers alike, *)
(* are numbered in the order of their doorbells; the token the driver puts *)
(* into a TRB stands for the job.                                          *)
(***************************************************************************)
EXTENDS Integers, Sequences

CONSTANTS NCmd,     \* XHCI_CMD_RING_TRBS (256)
          NEr,      \* TRBs of the event ring (4096 / 16)
          NBus,     \* values of uint8_t bus (256)
          Present,  \* the buses with an xHCI controller
          MaxJobs,  \* bound: jobs
          MaxPort   \* bound: port events

ASSUME XhciSizes == /\ NCmd \in Nat /\ NCmd >= 3
                    /\ NEr \in Nat /\ NEr >= 2
                    /\ NBus \in Nat \ {0}
                    /\ Present \subseteq 0 .. NBus - 1 /\ Present # {}
                    /\ MaxJobs \in Nat /\ MaxPort \in Nat

VARIABLES
  pc,             \* what the driver is doing; "enable" and "transfer" are waits
  bus,            \* the loop of xhci_probe
  caller,         \* who called xhci_send_enable_slot
  tries,          \* timeouts of the wait for Enable Slot
  left,           \* transfers xhci_enumerate_once has still to make
  cmd_ring, cmd_ring_head,
  last_cmd,       \* last_cmd_start, last_cmd_trb_count
  g_slot_enabled,
  g_dev_ctx,      \* "none", "blank" (all zeros) or "set"
  er,             \* the event ring
  deq,            \* er_dequeue_idx, er_expected_cycle
  enq,            \* the controller's place and cycle in the event ring
  posted, ports,  \* events posted, and how many of them by a port
  outstanding,    \* jobs the controller has not completed
  jobs,           \* history: where the TRBs of each job are
  written,        \* history: TRBs prepared
  seen,           \* history: the events consumed
  wrong,          \* history: TRUE iff a wait ended with the completion of another job
  upset           \* history: TRUE iff a wait was given up, or a port event taken for a completion

driver == <<pc, bus, caller, tries, left>>
commands == <<cmd_ring, cmd_ring_head, last_cmd, jobs, written>>
slot == <<g_slot_enabled, g_dev_ctx>>
consumer == <<deq, seen, wrong, upset>>
controller == <<enq, posted, ports>>
vars == <<driver, commands, slot, er, consumer, controller, outstanding>>

Slots == 0 .. NCmd - 1
Empty == [n |-> 0, job |-> 0, port |-> FALSE, code |-> 0, cycle |-> 0]

(* Before xhci_probe; the rings are allocated on first use, all zeros. *)
Init == /\ pc = "probe" /\ bus = 0
        /\ caller = "none" /\ tries = 0 /\ left = 0
        /\ cmd_ring = [i \in Slots |-> [kind |-> "none", job |-> 0]]
        /\ cmd_ring_head = 0
        /\ last_cmd = [start |-> 0, count |-> 0]
        /\ g_slot_enabled = FALSE
        /\ g_dev_ctx = "none"
        /\ er = [i \in 0 .. NEr - 1 |-> Empty]
        /\ deq = [idx |-> 0, cycle |-> 1]
        /\ enq = [idx |-> 0, cycle |-> 1]
        /\ posted = 0 /\ ports = 0
        /\ outstanding = {}
        /\ jobs = << >> /\ written = 0
        /\ seen = << >>
        /\ wrong = FALSE /\ upset = FALSE

--------------------------------------------------------------------------------
(* The controller. *)

Advance(p) == IF p.idx = NEr - 1 THEN [idx |-> 0, cycle |-> 1 - p.cycle]
              ELSE [p EXCEPT !.idx = @ + 1]

Post(job, port, code) ==
  /\ posted - Len(seen) < NEr - 1
  /\ er' = [er EXCEPT ![enq.idx] =
              [n |-> posted + 1, job |-> job, port |-> port, code |-> code, cycle |-> enq.cycle]]
  /\ enq' = Advance(enq)
  /\ posted' = posted + 1
  /\ UNCHANGED <<driver, commands, slot, consumer>>

(* The completion code is looked at for Enable Slot only. *)
Codes(j) == IF jobs[j].kinds = << >> THEN {0, 1} ELSE {0}
Complete == \E j \in outstanding : \E code \in Codes(j) :
              /\ outstanding' = outstanding \ {j}
              /\ Post(j, FALSE, code)
              /\ UNCHANGED ports
PortEvent == /\ jobs # << >> /\ ports < MaxPort
             /\ ports' = ports + 1
             /\ Post(0, TRUE, 0)
             /\ UNCHANGED outstanding

--------------------------------------------------------------------------------
(* The driver. *)

Probe == /\ pc = "probe"
         /\ IF bus \in Present THEN pc' = "idle" /\ UNCHANGED bus
            ELSE bus' = (bus + 1) % NBus /\ UNCHANGED pc
         /\ UNCHANGED <<caller, tries, left, commands, slot, er, consumer, controller, outstanding>>

(* xhci_prepare_control_transfer. *)
Stages(data) == IF data THEN <<"setup", "data", "status">> ELSE <<"setup", "status">>
(* Fault: the index is not set back to 0 at the end of the ring. *)
PrepSlot_NoWrap(i) == cmd_ring_head + i - 1
PrepSlot(i) == IF cmd_ring_head + i - 1 >= NCmd THEN cmd_ring_head + i - 1 - NCmd
               ELSE cmd_ring_head + i - 1
Prepared(data) ==
  [s \in Slots |->
     IF \E i \in DOMAIN Stages(data) : PrepSlot(i) = s
     THEN [kind |-> Stages(data)[CHOOSE i \in DOMAIN Stages(data) : PrepSlot(i) = s], job |-> 0]
     ELSE cmd_ring[s]]

(* xhci_send_enable_slot, up to its wait: the TRB goes to index 0. *)
SendEnableSlot(ring, by) ==
  /\ cmd_ring' = [ring EXCEPT ![0] = [kind |-> "enable", job |-> 0]]
  /\ jobs' = Append(jobs, [start |-> 0, at |-> 0, kinds |-> << >>])
  /\ outstanding' = outstanding \cup {Len(jobs) + 1}
  /\ caller' = by /\ tries' = 0
  /\ pc' = "enable"

(* xhci_control_transfer or usb_control_transfer, up to the first wait of
   xhci_submit_command_ring or its doorbell.  The device context is new each
   time. *)
Transfer(data) ==
  /\ last_cmd' = [start |-> cmd_ring_head, count |-> Len(Stages(data))]
  /\ written' = written + Len(Stages(data))
  /\ g_dev_ctx' = "blank"
  /\ IF g_slot_enabled
     THEN /\ cmd_ring' = Prepared(data)
          /\ pc' = "submit"
          /\ UNCHANGED <<jobs, outstanding, caller, tries>>
     ELSE SendEnableSlot(Prepared(data), "submit")
  /\ UNCHANGED <<bus, cmd_ring_head, g_slot_enabled, er, consumer, controller>>

ControlTransfer == /\ pc = "idle" /\ Len(jobs) + (IF g_slot_enabled THEN 1 ELSE 2) <= MaxJobs
                   /\ \E data \in BOOLEAN : Transfer(data)
                   /\ UNCHANGED left

(* xhci_enumerate_once: the device descriptor, the head of the configuration
   descriptor, and all of it when its length is plausible. *)
Enumerate ==
  /\ pc = "idle" /\ Len(jobs) + (IF g_slot_enabled THEN 3 ELSE 4) <= MaxJobs
  /\ left' = 3
  /\ IF g_slot_enabled THEN pc' = "next" /\ UNCHANGED <<cmd_ring, jobs, outstanding, caller, tries>>
     ELSE SendEnableSlot(cmd_ring, "enumerate")
  /\ UNCHANGED <<bus, cmd_ring_head, last_cmd, written, slot, er, consumer, controller>>
NextDescriptor == /\ pc = "next" /\ left > 0
                  /\ left' = left - 1
                  /\ Transfer(TRUE)
EnumerateEnds == /\ pc = "next" /\ left = 1
                 /\ pc' = "idle" /\ left' = 0
                 /\ UNCHANGED <<bus, caller, tries, commands, slot, er, consumer, controller, outstanding>>

(* The second half of xhci_submit_command_ring: the TRBs get their token and
   the doorbell is rung. *)
SubmitSlot(i) == IF last_cmd.start + i - 1 >= NCmd THEN last_cmd.start + i - 1 - NCmd
                 ELSE last_cmd.start + i - 1
Submit ==
  /\ pc = "submit"
  /\ LET mine == {SubmitSlot(i) : i \in 1 .. last_cmd.count}
         j == Len(jobs) + 1
     IN /\ cmd_ring' = [s \in Slots |-> IF s \in mine THEN [cmd_ring[s] EXCEPT !.job = j] ELSE cmd_ring[s]]
        /\ jobs' = Append(jobs, [start |-> last_cmd.start, at |-> written - last_cmd.count,
                                 kinds |-> Stages(last_cmd.count = 3)])
        /\ outstanding' = outstanding \cup {j}
  /\ cmd_ring_head' = (cmd_ring_head + last_cmd.count) % NCmd
  /\ pc' = "transfer"
  /\ UNCHANGED <<bus, caller, tries, left, last_cmd, written, slot, er, consumer, controller>>

--------------------------------------------------------------------------------
(* Events. *)

(* Fault: an event is known by its cycle bit only. *)
IsEvent_CycleOnly(e) == e.cycle = deq.cycle
IsEvent(e) == e # Empty /\ e.cycle = deq.cycle
Event == er[deq.idx]

(* Fault: every event is taken for the completion of the command. *)
IsCompletion_Any(e) == TRUE
(* Transfer events (32) and command completions (33) alike. *)
IsCompletion(e) == ~e.port

Consume == /\ IsEvent(Event)
           /\ er' = [er EXCEPT ![deq.idx] = Empty]
           /\ deq' = Advance(deq)
           /\ seen' = Append(seen, Event.n)
           /\ UNCHANGED <<bus, commands, controller, outstanding>>

(* xhci_init_device_context fails only when no page was ever allocated. *)
Enabled(ok) ==
  LET set == ok /\ g_dev_ctx # "none" IN
  /\ g_slot_enabled' = set
  /\ g_dev_ctx' = IF set THEN "set" ELSE g_dev_ctx
  /\ pc' = IF caller = "submit" THEN "submit" ELSE IF set THEN "next" ELSE "idle"
  /\ left' = IF caller = "submit" \/ set THEN left ELSE 0
  /\ UNCHANGED caller

(* xhci_wait_for_command_completion, called by xhci_send_enable_slot, which
   looks at the code in the first three waits only. *)
EnableDone == /\ pc = "enable" /\ IsCompletion(Event)
              /\ Consume
              /\ Enabled(Event.code = 0 \/ tries = 3)
              /\ wrong' = (wrong \/ Event.job # Len(jobs))
              /\ UNCHANGED <<tries, upset>>
EnableSkip == /\ pc = "enable" /\ ~IsCompletion(Event)
              /\ Consume
              /\ UNCHANGED <<pc, caller, tries, left, slot, wrong, upset>>
(* Fault: the attempts are not counted. *)
EnableRetry_Again ==
  /\ pc = "enable" /\ tries < 3
  /\ UNCHANGED vars
(* A timeout.  The fourth wait comes after a second doorbell. *)
EnableRetry == /\ pc = "enable" /\ tries < 3
               /\ tries' = tries + 1
               /\ upset' = (upset \/ tries = 2)
               /\ outstanding' = IF tries = 2 THEN outstanding \cup {Len(jobs)} ELSE outstanding
               /\ UNCHANGED <<pc, bus, caller, left, commands, slot, er, deq, seen, wrong, controller>>
EnableFails == /\ pc = "enable" /\ tries = 3
               /\ Enabled(FALSE)
               /\ UNCHANGED <<bus, tries, commands, er, consumer, controller, outstanding>>

(* xhci_poll_event_ring takes any event for the completion, and a timeout is
   reported as success. *)
TransferOver == pc' = IF left > 0 THEN "next" ELSE "idle"
TransferDone == /\ pc = "transfer"
                /\ Consume
                /\ TransferOver
                /\ wrong' = (wrong \/ Event.job # Len(jobs))
                /\ upset' = (upset \/ Event.port)
                /\ UNCHANGED <<caller, tries, left, slot>>
TransferTimeout == /\ pc = "transfer"
                   /\ TransferOver
                   /\ upset' = TRUE
                   /\ UNCHANGED <<bus, caller, tries, left, commands, slot, er, deq, seen, wrong, controller, outstanding>>

Call == ControlTransfer \/ Enumerate
Driver == \/ Probe \/ NextDescriptor \/ EnumerateEnds \/ Submit
          \/ EnableDone \/ EnableSkip \/ EnableRetry \/ EnableFails
          \/ TransferDone \/ TransferTimeout
Next == Call \/ Driver \/ Complete \/ PortEvent

(* Every wait of the driver counts its rounds; the controller owes nothing. *)
Spec == Init /\ [][Next]_vars /\ WF_vars(Driver)

--------------------------------------------------------------------------------
(* Properties. *)

(* Types: the command ring, and the places of driver and controller in the
   event ring. *)
XTypeOK == /\ pc \in {"probe", "idle", "next", "submit", "enable", "transfer"}
           /\ bus \in 0 .. NBus - 1 /\ tries \in 0 .. 3 /\ left \in 0 .. 3
           /\ cmd_ring_head \in Slots
           /\ cmd_ring \in [Slots -> [kind : {"none", "enable", "setup", "data", "status"}, job : 0 .. MaxJobs]]
           /\ g_slot_enabled \in BOOLEAN /\ g_dev_ctx \in {"none", "blank", "set"}
           /\ deq \in [idx : 0 .. NEr - 1, cycle : {0, 1}] /\ enq \in [idx : 0 .. NEr - 1, cycle : {0, 1}]
           /\ outstanding \subseteq 1 .. MaxJobs /\ Len(jobs) <= MaxJobs

(* The events are consumed in the order they were posted, each of them once,
   across the end of the ring, where the cycle bit that marks an event becomes
   the one of an empty place. *)
ConsumedInOrder == Len(seen) <= posted /\ \A k \in DOMAIN seen : seen[k] = k

(* What ends a wait is the completion of the job that was waited for, until a
   wait is given up or a transfer takes a port event for its completion: from
   then on a late completion may be taken for the next job's. *)
CompletionIsOwn == wrong => upset

(* A job's TRBs are in the ring until the controller completed it, also when
   the driver gave it up, unless later ones came around to them, or Enable Slot
   was written over the one at index 0; that happens to the Setup TRB of the very
   first transfer, too. *)
Place(j, i) == (jobs[j].start + i - 1) % NCmd
OverwrittenOnlyByLap ==
  \A j \in outstanding :
    written - jobs[j].at <= NCmd =>
      \A i \in DOMAIN jobs[j].kinds :
        LET t == cmd_ring[Place(j, i)] IN
        t = [kind |-> jobs[j].kinds[i], job |-> j] \/ (Place(j, i) = 0 /\ t.kind = "enable")

(* Whatever the controller does, each call of the driver returns, and so does
   xhci_probe when a controller is present. *)
ReturnsToIdle == []<>(pc = "idle")
================================================================================
