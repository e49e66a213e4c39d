# A TLA+ model of os_from_scratch

The repository is a small x86 kernel: it boots, draws a desktop, drives a
network card and fetches web pages over its own ARP, IP, UDP, DNS, TCP and HTTP
code, probes a USB controller and shows the results in a few windows. It has one
thread and no interrupts: every loop of the kernel that waits calls `rtl8139_poll`, which hands the frames that came to
`net_rx`, and so to `dns_on_response` or `tcp_on_rx`. What makes it hard is not
preemption but the order of *calls*: handlers that run from a poll in the middle
of a waiting function, tables of a few slots that evict silently, a network that
loses, repeats and delays, a network card and a USB controller that work on their
rings at the same time, and a mouse whose bytes must stay in step.

## 1. Inventory

| Part | State | Operations | Modelled in |
|---|---|---|---|
| ARP cache and pending queue, `net.c` | `arp_cache[8]`, `pending[8]`, `g_netif` | `net_send_ip`, ARP branch of `net_rx`, `flush_pending_for_ip` | `Net`, `LinkLayer`, `NetProofs` |
| TCP client, `tcp.c` | `g_sock` (one socket), counters of ports and sequence numbers | `tcp_init`, `tcp_connect`, `tcp_send`, `tcp_recv`, `tcp_close`, `tcp_on_rx` | `Tcp`, `ByteStream`, `TcpProofs` |
| HTTP client, `http.c` | locals of one call, static buffers | `http_get_by_ip_port` | `Http`, `HttpProofs` (partly) |
| DNS resolver, `dns.c` | `dns_cache[8]`, `qtracks[8]`, `qid_counter` | `dns_resolve`, `dns_query_async`, `dns_on_response` | `Dns`, `DnsProofs` |
| E1000 driver, `drivers/e1000e.c` | two descriptor rings, head and tail registers | `nic_tx`, `rtl8139_poll`, `rtl8139_init` | `E1000`, `E1000Proofs` (partly) |
| RTL8139 driver, `rtl8139.c` (not linked) | 4 transmit buffers, receive offset | `nic_tx`, `rtl8139_poll` | not modelled |
| xHCI, `usb/xhci.c` | command ring, event ring, device context, the waits | probe, Enable Slot, control transfer, enumerate | `Xhci`, `XhciProofs` (partly) |
| USB host, `usb/usb_host.c`; stubs, `usb/*.c` | none | `usb_control_transfer`; the rest returns constants | `Xhci` (the one call) |
| Kernel UI, `kernel.c`, `mouse.c` | cursor and the pixels under it, packet index, menu, calculator expression | `kmain`, the five screens' loops, `mouse_read_packet` | `Kernel`, `KernelProofs` (partly) |
| ELF loader, system calls | `user_exited`, `user_exit_code` | `elf32_load_and_run`, `int 0x80` | not modelled |
| TLS glue, `tls_mbedtls.c` | its own socket, of which `g_sock` is a copy | `tls_http_get_by_ip`, `net_send`, `net_recv` | `Tls` |
| JSON parser, `json.h` | the tokens of one text | `jsmn_parse` | `Json`, `Brackets`, `JsonProofs` |
| PCI, graphics, font, allocator, strings, boot | little or none | pure functions, port I/O, drawing | not modelled |

Interaction: `kernel.c` calls `dns_resolve`, `http_get_by_ip_port` and, when that
fails, `tls_http_get_by_ip`, and parses a user with `jsmn_parse`; HTTP and TLS call
TCP; DNS (through UDP) and TCP call `net_send_ip`; `net_send_ip` calls `nic_tx`;
the driver's poll calls `net_rx`, which calls the ARP code, `dns_on_response` or
`tcp_on_rx`; those may call `net_send_ip` again, inside the poll.

What makes each part correct, in short:

* ARP: one fresh entry per address whatever is evicted; a packet is in one place,
  goes out once, to the latest MAC; what waits is asked for and leaves.
* TCP: the application reads a prefix of the server's bytes; what is acknowledged
  is stored; an old connection's segments do not enter the new one; the end of
  the stream is the end.
* HTTP: the page belongs to the last connection, is whole, and the call returns
  and leaves no connection up.
* DNS: an address is cached for its own name only, and does not change while it
  is cached; the query being waited for is tracked.
* Card: no frame lost, repeated or reordered; the ring does not starve.
* USB controller: each event is consumed once, a wait ends with its own completion,
  a TRB stays until it is done, every call returns.
* Screens: one cursor, what is shown agrees with what the code believes is shown, and
  a press is acted on only if it was made.
* JSON: the tokens of an accepted text are those of its brackets and values.
* TLS: the call ends.

The hazards behind these, each at its line, are listed in `PROJECT.json`.

## 2. Modules

### Net: the ARP cache and the pending queue
`SendIp` is `net_send_ip` (look up the next hop; transmit, or queue and ask).
`RxArp` is the ARP branch of `net_rx`: `arp_store`, and the start of
`flush_pending_for_ip`, whose loop is unrolled: `FlushSlot` is one iteration, with
the nested `net_send_ip` that may queue the packet again while the loop is at
work. Nothing else runs while `flush` is active, as in the code. `LoseArp` is the
network (external): a request, or its answer, is lost. `heard`, `submitted`,
`frames` and `lost` are history variables: what each host announced last, what
was given to `net_send_ip`, to which MACs each packet went, and for which hosts
the network lost a request or its answer that none has followed since.

A packet's destination is data (`DstOf`); the address 0, which is also the mark
of a free slot in the code, is kept as `NoAddr`, and packets may be addressed
to it.

`LinkLayer` is the abstract specification: a packet is transmitted to the MAC its
next hop announced last, or held, or dropped; there is no cache and no queue. `Net`
implements it under the mapping at the end of `Net` (`ImplementsLinkLayer`).

### Tcp: the client and a server
The five calls and one delivery to `tcp_on_rx` are one action each. The socket is
a record with the code's fields; the port and the addresses are a connection
number, for each connection gets a new port. A byte of a stream is a pair of its
connection and its place, so that mixing, gaps and repetitions show. Sequence
numbers count modulo `SeqSpace` and wrap inside every run. The server is external: it
accepts, waits for the request, sends `N` bytes and closes, repeats what is not
acknowledged, and may reset. `cut` records the connections on which the receive
buffer overflowed: `rx_data_into_buf` drops what has no room and acknowledges it
all the same, so no promise about the stream survives that, and the properties
say so.

`ByteStream` is the abstract specification of what the application sees: the
connection opened last yields the server's bytes in order.

### Http: one call over Tcp
`Http` extends `Tcp`: the call of `http_get_by_ip_port` drives the socket, while
`Poll` delivers segments only where the code polls. Of a response the model keeps
which bytes have come; the first stands for the status line, the second for the
Location header, and `Kind` for what they say. The literal in a redirect may be
another server; all connections go to the same model server.

### Dns: the resolver
`DnsOnResponse` is one whole call of `dns_on_response`: it looks the id up, stores
the A records one after the other, and frees the slot unless the packet was cut
off. It may run between two calls, or inside a poll of `dns_resolve`, with the
answer to any query ever sent, again and again. Each name has its own addresses at
the server (`Auth`), so an address under a wrong name shows.

### E1000: the two rings
The driver's receive loop is unrolled to single descriptors, and between reading
a descriptor and clearing it, since the card fills descriptors at the same time.
The card (external) follows the rule that the driver's own initialisation relies
on: it owns the descriptors from head up to tail, and none when they are equal.
It may fill a descriptor at any time, during a poll too, and send whenever it
likes, so a burst of `nic_tx` may go all the way round the ring.

The driver is right only in part of these behaviours, and two history flags
separate them: `inPoll`, a frame arrived while a poll was running, and `lapped`,
`nic_tx` was called when one descriptor only was left. The properties of
`e1000` promise everything before the flag is up. Without the flags the promises fail:
a burst that arrives during a poll can leave the tail on the head with an empty ring
(`e1000e.c:193`), and a burst of `nic_tx` overwrites or forgets frames
(`e1000e.c:168`). Frames are also handed over out of order once the ring has wrapped
around, for the loop starts from descriptor 0 and not from RDT + 1, as the comment at
`e1000e.c:183` has it.

### Xhci: the USB controller
The driver with `xhci_hw_enable` = 1, as the source has it. It is sequential; each
step runs to the next wait for an event, and each wait is a loop that counts its
rounds, so that it ends by an event or by a timeout at any moment. The controller
(external) completes what a doorbell announced, late or never, and posts port events.
A *job* is one doorbell: an Enable Slot or a control transfer of two or three TRBs.
The model keeps which TRB stands at each place of the command ring and for which job
it was put there, the event ring with its cycle bits, and the order in which events
were posted, so that mixed completions, TRBs overwritten early and events taken twice
show. `EnableDone`, `EnableSkip` and `EnableRetry` are the event that ends the wait
in `xhci_wait_for_command_completion`, one it passes over, and the retries of
`xhci_send_enable_slot`; `TransferDone` and `TransferTimeout` end
`xhci_poll_event_ring`. A transfer takes any event for its completion, a port event
too, as the code does (`upset`).

### Kernel: the screens
The framebuffer is one place, as large as the cursor, for each thing to click on; what
a place shows is the screen that painted it, the menu, or the cursor. The places are
those of the 1450 by 1000 pixels that `boot.asm` asks for, where the menu and the
windows do not overlap. `Restore`, `Put` and `MoveTo` are the cursor's functions;
`Begin` and the five actions after it draw a screen; `Fetched` is the return of the
network calls in the browser and the viewer, during which no mouse byte is read. A
byte read either is collected or completes a packet, and `Press` is the rest of the
loop body. Where a packet moves the cursor is left to chance, any place at once.
Bytes of the mouse may be lost, and keyboard bytes come in between, for the code asks
only status bit 0. The calculator's expression is its length. Two defects show as
exceptions in `OnePatch`: pixels saved from the screen before, or from the menu, are
put back on a repainted one (`kernel.c:101`, after `show_welcome` or a menu item has
drawn), and after the embedded program has run the menu is gone while `start_open` is
set (`kernel.c:267`), so that its items can be clicked unseen.

### Tls: the handshake
`Tls` extends `Tcp`. `own` is the socket that `tls_http_get_by_ip` allocated; `tcp_connect`
copies it into `g_sock`, and only the copy changes from then on. mbedTLS (external)
is reduced to one write and one read for the handshake, one write of the request, and
reads. `Before` is whatever `http.c` did with the one socket before the call.

### Json: the parser
One action is one lexeme of the text, chosen freely; the tokens, `toksuper` and the
count are the code's. `Brackets` is the abstract specification: a parser that keeps the
places of the brackets open, of which the last is the innermost, and a pool of tokens;
`Json`, which keeps no such set but looks back through its tokens, implements it verdict by
verdict.
`json.h` differs from the well-known library in one place: the comma does not give
the parent back (`json.h:357`), and `SizesRight` says for which texts the sizes are
right all the same.

## 3. Runs

| Run | Shows |
|---|---|
| `net` | with lost requests, evictions and a full queue: the cache is unique and fresh, a packet is in one place and is sent to the latest MAC, packets are lost only from a full queue, `Net` implements `LinkLayer`; what waits for a host of the subnet is asked for, and leaves unless the network lost the request |
| `net_offlink` (violated) | `net.c:42,79`: a packet to another subnet stays queued after its gateway is resolved |
| `tcp` | two connections under loss, reordering, repetition and a reset: the stream is intact, what is acknowledged was stored, `Tcp` implements `ByteStream` (old segments do not enter the new connection) |
| `http_lossy` | redirects, given-up waits, late segments, resets: the response is of one connection, none is up afterwards |
| `http_live` | on an orderly network with a server that answers: the call returns, with the whole page |
| `http_reset` (violated) | `http.c:124`: after a reset the read loop does not end |
| `dns` | late, repeated, cut-off answers, full tables: right addresses, stable bindings, tracked queries |
| `e1000` | no frame is handed over twice; until a frame arrives during a poll none is lost, the ring does not starve and every frame is handed over; until `nic_tx` laps the card, frames are sent in order |
| `xhci` | a controller that is late, silent, or reports ports: events are consumed once and in order, completions are mixed up only after a wait was given up or a port event taken for one, TRBs go only by a lap of the ring or by Enable Slot at index 0, every call returns |
| `kernel` | all screens, with lost bytes and keys typed: one cursor, at most one stale patch, the menu shown just when `start_open` says (but for the program), no press that was not made while the packets are in step, the expression within its buffer |
| `json` | every text of up to seven lexemes with four tokens: accepted, refused or out of tokens as a stack of brackets says; tokens nest; sizes where no colon interferes |
| `tls` (violated) | `tls_mbedtls.c:37,113`: the handshake never ends, though the server answers |

### Bounds
Two cache slots and three pending slots, with three addresses (the gateway, a host
of the subnet, a host beyond) and four packets: three addresses fill and overflow
the cache, four packets overflow the queue, and two of them share a destination, so
that a flush has several slots to visit and a packet can be queued again. Two MACs
let an address change its own.

Streams of two (`tcp`) or three bytes in segments of up to two, a receive buffer
of two: partial segments, overlaps, overflows and splits all occur. `Rst` names the
connections the server may reset: in `tcp` the first, so that a late reset can meet
the second. `SeqSpace` is 8 and the
server starts from 5, so the numbers wrap inside a stream. `MaxTransit` bounds only
what the *server* sends on its own. Two connections are enough for stale segments
and for one redirect, with `MaxRedirects` = 1 for the counting.

`Dns` has two slots in each table and four calls over three resolvable names and one
that cannot be packed: both tables overflow, and an evicted name is resolved again.
`QidSpace` is 8 and the ids do not wrap (in the code it takes 49152 queries). When
they do, the id 0 is the mark of a free slot (`dns.c:55,113`) and `WaitingIsTracked`
fails once a slot is freed.

`E1000` has four receive descriptors and eight frames, so the ring wraps around
twice, and three transmit
descriptors with four frames, so `nic_tx` can lap the card.

`Xhci` has a command ring of four TRBs, so that a second transfer of three wraps around
and five jobs lap it, and an event ring of three, which wraps within the jobs; one
port event is enough to be taken for a completion. Three buses with one controller
stand for the scan. `Kernel` has an expression of three characters and results of up to
two; everything else in it is finite as it stands. `Json` has four tokens and texts of
seven lexemes: nesting to depth four, overflow of the pool at every kind of token, and
a comma after a colon inside a bracket inside another. `tls` has the parameters of
`http_live`.

`CHECK_DEADLOCK FALSE` stands where the bounded system ends: all connections,
calls or frames used up.

### Fairness
* `Net!FairSpec`: the flush loop runs on (weak), and a host that was asked answers
  (strong for `RxArp`, which is disabled while a flush runs; the answer lies in the
  card's ring meanwhile and is taken by a later poll). The network may lose the
  request or the answer all the same: `LoseArp` takes the address out of `asked`,
  and `OnLinkDelivered` then promises nothing for that host, for the code never asks
  again by itself.
* `Http!HFairSpec`: the call runs on, its polls take what came, and the reliable
  server does its part. The kernel has one thread: nothing keeps it from running.
* `E1000!FairSpec`: polls are called again and again, which every waiting loop of
  `kernel.c`, `http.c` and `dns.c` does, and a poll runs on.
* `Xhci!Spec`: the driver runs on; nothing is asked of the controller, for every wait
  counts its rounds.
* `Tls!TFairSpec`: the call is made and runs on, its polls take what came, the server
  takes what it is sent. The counterexample keeps all of it: the connection is up, and
  the call polls for ever.

## 4. Proofs

Every invariant, every action property and every refinement that a passing run checks is
also a theorem, for all values of the constants that the named assumptions of its module
allow. Each follows from an inductive invariant named below. A few theorems have a hypothesis of
their own, which is given with the reason for it: `Orderly`, `NoWrap` and `N <= RxCap`; the runs
`http_live`, `dns` and `tcp` satisfy them.

`NetProofs`, for every number of slots, every set of addresses, MACs and packets and every
destination function (assumptions `NetSlots`, `NetAddrs` and `NetValues`: tables are not
empty, the gateway is in the subnet, the markers are no values):

* `TypeCorrect`, `NoDuplicates`, `CacheIsFresh`: from the inductive invariant
  `CacheInv` = `TypeOK`, `SlotHoldsPacket`, `NoDuplicateIP`, `CacheFresh`. The type of
  `frames` needs freshness: a frame goes to a MAC only because an entry in use holds
  one; freshness needs uniqueness, for `arp_store` refreshes only the first entry
  it finds.
* `OnLinkNeverStuck`, `OnLinkIsAsked`: from `WaitInv`, which adds that the address
  being flushed is in the cache; this is why the flush never queues again what it
  was called for, and why slots behind the index are settled.
* `NeverTwice`: from `CopyInv`; the hard case is the nested `net_send_ip`, which
  writes a second slot just before the first one is cleared.
* `LatestMac`, `NoneForgotten`: step properties from `CacheInv`. For the second, the flush
  clears only the slot it sent from, never the one that the nested call has just
  filled (`EnqueuedWaits`).
* `Refinement`: every step of `Net` is a step of `LinkLayer` or a stutter.

`TcpProofs`, for streams, segments, windows, buffers and sequence spaces of any size, and any
combination of loss, reordering, repetition and resets (assumptions `TcpSizes`, `TcpNetwork`;
a stream is shorter than the sequence space):

* `StreamIsIntact` and `AckedIsStored`, from `StreamInv`: types; `Genuine`, every segment with
  data on the wire is a piece of its own connection's stream, at the place its sequence
  number says; `Streams`, what is stored of a connection is a prefix of its stream, and
  `rcv_nxt` is the number of the byte after it. Only the two together tell a repeated
  segment from a new one when the numbers wrap around (`AtIs`).
* `TcpRefinesByteStream`, where the receive buffer holds a whole stream (`N <= RxCap`):
  otherwise `rx_data_into_buf` may drop bytes and acknowledge them, and no stream is
  implemented. The run `tcp` has such a buffer.

`HttpProofs` extends `TcpProofs`: each step of `Http` is one of the client's (`CallSteps`), so
that `StreamInv` carries over.

* `HttpTypes`, `NoConnectionLeft`, `ResponseIsOwn`, from `HInv` = `StreamInv`, the types of the
  call's locals, `ClosedAtReturn` and `Own`: what was read is what was taken from the
  connection opened last.
* `PageComesWhole`, on a network that loses and repeats nothing and keeps the order
  (`Orderly`), as in `http_live`; on another one a FIN that overtakes data ends the page early, for
  `tcp_on_rx` takes a FIN at any sequence number. The invariant `OrderlyInv` adds that the
  segments of the last connection stand lined up on the wire, from the byte the client
  expects to the last one sent, with the FIN behind them (`Lined`), and that nothing of a
  connection was sent before its request (`Quiet`).

`DnsProofs`, for tables of any size, any names and addresses and answers of any length
(assumptions `DnsSizes`, `DnsNames`):

* `DnsTypes`; `NameKeepsAddress`, from the uniqueness of names in the cache, which
  `dns_cache_store` keeps by looking a name up before it stores. `StoreAllKeeps` is the
  induction over the records of an answer, done by a least counterexample.
* `AddressesAreRight`, `OutstandingAreTracked`, `WaitedForIsTracked`, until the ids wrap around
  (`NoWrap`): from `DnsInv`, which says that ids count up and belong to one query each, and that
  the slots in use are distinct outstanding queries. After the wrap the properties fail
  (see Bounds), so the hypothesis cannot be dropped.

`E1000Proofs`, for rings of two or more descriptors and any number of frames
(assumption `E1000Sizes`):

* `RingTypes`: indices that wrap around stay in their ring (`Wraps`).
* `FramesOnce`, from types and `Waiting`, which says that the frames in the receive ring
  differ from each other and from those handed over, but for the one just taken, and
  that none is newer than the last one accepted.
* `FramesKept`, `StarvedByBurst`, from `LossInv`: the descriptor at the tail is empty, and until a
  frame arrives during a poll, the descriptors that the card owns are empty outside of a
  poll and those before the loop's index are empty within one, so that the card never
  writes over a frame and the tail moves on whenever something is in the ring.
* `SentInOrder`, from types and `Queued`: the descriptors between the card's head and
  the driver's tail hold the frames given last, in order. `RingSteps` turns the
  remainders of the code's indices into distances around the ring (`Ahead`).

`XhciProofs`, for command rings of three or more TRBs, event rings of two or more, and any
number of buses, jobs and port events (assumption `XhciSizes`), all from one invariant
`XhciInv`:

* `EventsInOrder` and `NoEventHidden`, by `Events`: the events pending are the next places from the
  dequeue index on, numbered on from those consumed, with the cycle bit that the driver
  will expect there, and every other place is empty.
* `OwnCompletion`, by `Own`: until a wait is given up, the controller has at most the
  job waited for, or its one completion is in the ring.
* `OverwrittenByLap`, by `Trbs`: a job's first TRB is as far behind the head as TRBs were written
  since, so that within one lap its place holds it.

`KernelProofs`, for every size of the expression and of the results (assumption
`KernelSizes`):

* `TypesKept` and `OneCursorShown`, from the invariant `Inv`: types, at most one cursor
  and none saved (`OneCursor`), and that booting is over before a loop runs. The two go
  together, for what is saved is what is shown. `DrawingKeeps` says that each drawing
  function keeps them, for any display; `PressKeeps`, `ReadKeeps`, `DrawKeeps` follow the
  handlers.
* `OnePatchShown`, from `Inv` and `Patchy`, which speaks of what a place shows or would show
  without the cursor (`Behind`), and names the one place that may differ: on the desktop it is
  the menu item of the program.
* `PressesAreReal`, from `InStep` as well: while no byte is stray, `idx` is the byte the
  mouse sends next and `pkt[0]` its status byte.

`JsonProofs`, for a pool of any size and texts of any length (assumption `JsonSizes`):

* `JsonTypes`, `TokensAreNested`, from `NestInv`: each token begins where its lexeme stands and ends
  where its bracket was closed (`Placed`); tokens stand in the order found, and what comes
  after a closed one is apart from it or inside (`InOrder`); `count` is their number (`Counted`).
* `JsonIsAStackParser`: under `NestInv` the tokens without an end are the brackets open, and the
  last of them, which the code's loops look for, is the innermost.
* `SizesAreRight`, from `SizeInv`: `toksuper` is the innermost bracket open or a key, and the
  bracket unless a colon came directly in it (`Superior`); before a colon stands a string
  token (`KeyLast`). Sizes are cardinalities of the sets of tokens directly inside a bracket, and
  `KidsKept` and `ColonKept` say that later lexemes leave those sets alone.

The lemmas at the head of each module say what the code's scans and helpers return:
`FirstSlot` and `LastIndex` (a scan finds the first or last index of a non-empty set, by
well-foundedness of the naturals), `LookupHit`, `EnqueuedSlot`, `CachedSlot`, `Wraps`, `AdvanceIs`.

Model-checked only: liveness (`OnLinkDelivered`, `AllTaken`, `CallReturns` of the HTTP call and
`ReturnsToIdle` of the USB driver), which is out of this prover's reach, and the
counterexamples of the three runs marked violated, which TLC finds. `Tls` has no theorem: the one
property checked of it is a liveness property that fails.

## 5. Not modelled

Checksums, header lengths and all parsing of bytes (they decide whether a message
is taken, which the models leave to chance); wording and drawing; IP fragments
(the code has no notion of them); the IP branch of `net_rx`, which is only the
dispatch to `Dns` and `Tcp`; `net_send_tcp_syn`, which nothing calls; the PCI scan and
register programming of the drivers. In `xhci.c`: the sweep of
`xhci_program_event_ring` over register offsets, the cycle bits of the command ring,
the diagnostics, the bytes transferred. In `kernel.c`: the value that `calc_eval`
computes (it skips a character after each operator, `kernel.c:315`, and nothing says
what is intended), the lines drawn from a page, the text that `console_puts` draws in
the left margin, and `init_mouse`.

The ELF loader and the system calls are straight-line code without another actor, and
the default build embeds no program. `irq80_stub` pushes DS and ES after `pusha` and
passes the address of ES, while `syscall_handler_c` takes the first word for EAX
(`syscalls.c:43`), so no system call is ever recognised; `user_exited`, which nothing
resets, stays 0. `rtl8139.c`, `json.c`, `tls_stub.c` and `net/*.c` are not linked. PCI
access, graphics, the font, the allocator, the string functions and the boot code keep
no state that two callers share; the scans over a `uint8_t` bus number
(`e1000e.c:81`, `xhci.c:1289`) never end when there is no device, which the model of
`xhci_probe` excludes by `Present # {}`.

## 6. What could follow

* A composition of `Net` under `Tcp` and `Dns`: packets lost by the pending queue as the
  loss of the network; its refinement from `NetProofs` and `TcpProofs`.
* `TcpRefinesByteStream` without `N <= RxCap`, for a specification of the stream in which
  the overflow of the receive buffer is a step of its own.
* What becomes of `WaitingIsTracked` once the ids have wrapped around.
* `OnePatch` for every place of the cursor: the patch is where the cursor was when the
  screen was painted.
* Safety properties of `Tls`: what the copy of the socket in `g_sock` and the original
  still agree about.
* The value of `calc_eval` and the registers of `xhci_program_event_ring`.
