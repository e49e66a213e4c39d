--------------------------------- MODULE Kernel ---------------------------------
(***************************************************************************)
(* The screens of kernel.c: the welcome screen, the desktop with its start *)
(* menu, the calculator, the browser and the JSON viewer; the software     *)
(* cursor they share, and the packets of the PS/2 mouse.                   *)
(*                                                                         *)
(* The framebuffer is reduced to one cursor-sized place (8 by 8 pixels)    *)
(* for each thing there is to click on: the spots.  What a spot shows is   *)
(* the screen that painted it, the menu, or the cursor.                    *)
(***************************************************************************)
EXTENDS Integers, FiniteSets

CONSTANTS ExprCap,   \* characters of the calculator's expression (63)
          ResultMax  \* characters of a result (11)

ASSUME KernelSizes == /\ ExprCap \in Nat /\ ResultMax \in 1 .. ExprCap

VARIABLES
  screen,      \* which function runs
  pc,          \* "show": it is about to draw; "fetch": it waits for a page; "loop"
  start_open,  \* the start menu, as show_desktop believes
  expr_len,    \* length of the calculator's expression
  display,     \* fb, and the cursor: cur_x and cur_y, cursor_under, cur_saved
  ps2,         \* mouse_read_packet: idx, and the button in pkt[0]
  dev,         \* the mouse: the byte it sends next, the button in its last status byte
  stray,       \* history: TRUE iff a byte was lost, or came from the keyboard
  ran          \* history: TRUE iff the menu was cleared to run a program

screens == <<screen, pc, start_open, expr_len, ran>>
vars == <<screens, display, ps2, dev, stray>>

(* The items of the start menu that open a screen. *)
AppOf == [calc |-> "calculator", browser |-> "browser", viewer |-> "json"]
(* The start menu; "hello" runs the embedded program, "plain" has no item. *)
Menu == DOMAIN AppOf \cup {"hello", "plain"}
(* Where a window is closed; the middle of the screen is the calculator's
   key 3, and the page of the browser and of the viewer. *)
Close == [calculator |-> "x_calculator", browser |-> "x_window", json |-> "x_window"]
Spots == Menu \cup {"start", "next", "centre", "equals", "x_calculator", "x_window"}

Init == /\ screen = "boot" /\ pc = "show"
        /\ start_open = FALSE /\ expr_len = 0 /\ ran = FALSE
        /\ display = [fb |-> [s \in Spots |-> "boot"], pos |-> "centre",
                      under |-> "boot", saved |-> FALSE]
        /\ ps2 = [idx |-> 0, button |-> FALSE]
        /\ dev = [byte |-> 0, down |-> FALSE]
        /\ stray = FALSE

--------------------------------------------------------------------------------
(* Drawing. *)

Paint(d, S, what) == [fb |-> [s \in Spots |-> IF s \in S THEN what ELSE d.fb[s]],
                      pos |-> d.pos, under |-> d.under, saved |-> d.saved]

(* cursor_restore_under, cursor_move_to. *)
Restore(d) == IF d.saved THEN [fb |-> [d.fb EXCEPT ![d.pos] = d.under],
                               pos |-> d.pos, under |-> d.under, saved |-> FALSE]
              ELSE d
Put(d, p) == [fb |-> [d.fb EXCEPT ![p] = "cursor"], pos |-> p, under |-> d.fb[p], saved |-> TRUE]
(* Fault: the new position is set before the background is restored. *)
MoveTo_PosFirst(d, p) == Put(Restore([d EXCEPT !.pos = p]), p)
MoveTo(d, p) == Put(Restore(d), p)

ClearMenu(d) == Paint(d, Menu \cup {"start"}, "desktop")

(* The calculator draws its display each time around its loop, and the red
   square that closes it lies inside. *)
Refreshed == IF screen = "calculator" THEN Paint(display, {"x_calculator"}, screen)
             ELSE display

(* kmain, up to the first screen. *)
Boot == /\ screen = "boot"
        /\ screen' = "welcome"
        /\ display' = MoveTo(display, "centre")
        /\ UNCHANGED <<pc, start_open, expr_len, ran>>

(* Each screen paints all of the framebuffer, and then moves the cursor to p. *)
Begin(what, p) == /\ pc = "show" /\ screen = what
                  /\ display' = MoveTo(Paint(display, Spots, what), p)
                  /\ UNCHANGED <<screen, expr_len>>
Stay == UNCHANGED <<start_open, ran>>
ShowWelcome == Begin("welcome", "centre") /\ pc' = "loop" /\ Stay
ShowDesktop == Begin("desktop", display.pos) /\ pc' = "loop" /\ start_open' = FALSE /\ ran' = FALSE
ShowCalculator == Begin("calculator", display.pos) /\ pc' = "loop" /\ Stay
ShowBrowser == Begin("browser", display.pos) /\ pc' = "fetch" /\ Stay
ShowViewer == Begin("json", display.pos) /\ pc' = "fetch" /\ Stay

(* dns_resolve and http_get_by_ip_port (and tls_http_get_by_ip) have returned,
   with or without a page, which is drawn over "Fetching...". *)
Fetched(what) == /\ pc = "fetch" /\ screen = what
                 /\ pc' = "loop"
                 /\ display' = MoveTo(Paint(display, {"centre", "equals", "next"}, what), display.pos)
                 /\ UNCHANGED <<screen, start_open, expr_len, ran>>
FetchPage == Fetched("browser")
FetchUser == Fetched("json")

Draw == \/ Boot \/ ShowWelcome \/ ShowDesktop \/ ShowCalculator \/ ShowBrowser \/ ShowViewer
        \/ FetchPage \/ FetchUser

--------------------------------------------------------------------------------
(* The left button is down in a packet; d is the display with the cursor
   moved, and p is where it is. *)

Leave(to) == screen' = to /\ pc' = "show" /\ UNCHANGED <<start_open, expr_len, ran>>
Nothing(d) == display' = d /\ UNCHANGED screens

PressNext(d, p) == /\ screen = "welcome" /\ p = "next"
                   /\ Leave("desktop")
                   /\ display' = Restore(d)

(* The start button is tested in every packet, so that a button held down
   opens and closes the menu again and again. *)
PressStart(d, p) == /\ screen = "desktop" /\ p = "start"
                    /\ start_open' = ~start_open
                    /\ ran' = FALSE
                    /\ display' = IF start_open THEN ClearMenu(d) ELSE Paint(d, Menu, "menu")
                    /\ UNCHANGED <<screen, pc, expr_len>>
PressItem(d, p) == /\ screen = "desktop" /\ start_open /\ p \in DOMAIN AppOf
                   /\ Leave(AppOf[p])
                   /\ display' = ClearMenu(d)
(* The menu is cleared for the program, and stays open. *)
RunHello(d, p) == /\ screen = "desktop" /\ start_open /\ p = "hello"
                  /\ ran' = TRUE
                  /\ display' = ClearMenu(d)
                  /\ UNCHANGED <<screen, pc, start_open, expr_len>>
(* Fault: start_open stays set. *)
PressOutside_StaysOpen(d, p) ==
  /\ screen = "desktop" /\ start_open /\ p \notin Menu \cup {"start"}
  /\ display' = ClearMenu(d)
  /\ UNCHANGED screens
PressOutside(d, p) == /\ screen = "desktop" /\ start_open /\ p \notin Menu \cup {"start"}
                      /\ start_open' = FALSE
                      /\ ran' = FALSE
                      /\ display' = ClearMenu(d)
                      /\ UNCHANGED <<screen, pc, expr_len>>

(* Fault: the buffer's end is not tested. *)
CalcAdd_NoBound(n) == n + 1
(* calc_add; calc_eval clears the expression and writes its result. *)
CalcAdd(n) == IF n < ExprCap THEN n + 1 ELSE n
PressKey(d, p) == /\ screen = "calculator" /\ p \in {"centre", "equals"}
                  /\ expr_len' \in IF p = "equals" THEN 1 .. ResultMax ELSE {CalcAdd(expr_len)}
                  /\ display' = d
                  /\ UNCHANGED <<screen, pc, start_open, ran>>

CloseAt(what, d, p) == /\ screen = what /\ p = Close[what]
                       /\ Leave("desktop")
                       /\ display' = Restore(d)
CloseCalculator(d, p) == CloseAt("calculator", d, p)
CloseBrowser(d, p) == CloseAt("browser", d, p)
CloseViewer(d, p) == CloseAt("json", d, p)

Acts(p) == \/ screen = "welcome" /\ p = "next"
           \/ screen = "desktop" /\ (p = "start" \/ (start_open /\ p # "plain"))
           \/ screen = "calculator" /\ p \in {"centre", "equals"}
           \/ screen \in DOMAIN Close /\ p = Close[screen]

Press(d, p) == \/ PressNext(d, p) \/ PressStart(d, p) \/ PressItem(d, p) \/ RunHello(d, p)
               \/ PressOutside(d, p) \/ PressKey(d, p)
               \/ CloseCalculator(d, p) \/ CloseBrowser(d, p) \/ CloseViewer(d, p)
               \/ ~Acts(p) /\ Nothing(d)

--------------------------------------------------------------------------------
(* The mouse. *)

(* Fault: a packet has two bytes. *)
Complete_Early == ps2.idx = 1
Complete == ps2.idx = 2

(* mouse_read_packet reads a byte whose lowest bit is b, and the loop goes on. *)
Collect(b) == /\ ~Complete
              /\ ps2' = [idx |-> ps2.idx + 1, button |-> IF ps2.idx = 0 THEN b ELSE ps2.button]
              /\ Nothing(Refreshed)
Packet == /\ Complete
          /\ ps2' = [idx |-> 0, button |-> FALSE]
          /\ \E p \in Spots : LET d == MoveTo(Refreshed, p)
                              IN IF ps2.button THEN Press(d, p) ELSE Nothing(d)
Read(b) == pc = "loop" /\ (Collect(b) \/ Packet)

(* The mouse sends its packet byte by byte: status, dx, dy. *)
Send(b) == dev' = [byte |-> (dev.byte + 1) % 3, down |-> IF dev.byte = 0 THEN b ELSE dev.down]
MouseByte == \E b \in BOOLEAN : Send(b) /\ Read(b) /\ UNCHANGED stray

(* No byte is read from the mouse while a page is fetched, and some are lost. *)
LoseByte == /\ \E b \in BOOLEAN : Send(b)
            /\ stray' = TRUE
            /\ UNCHANGED <<screens, display, ps2>>
(* The status register is not asked which of the two devices sent the byte. *)
KeyboardByte == /\ \E b \in BOOLEAN : Read(b)
                /\ stray' = TRUE
                /\ UNCHANGED dev
NoByte == /\ pc = "loop"
          /\ Nothing(Refreshed)
          /\ UNCHANGED <<ps2, dev, stray>>

Next == \/ Draw /\ UNCHANGED <<ps2, dev, stray>>
        \/ MouseByte \/ LoseByte \/ KeyboardByte \/ NoByte

Spec == Init /\ [][Next]_vars

--------------------------------------------------------------------------------
(* Properties. *)

Shown == {"boot", "welcome", "desktop", "menu", "calculator", "browser", "json"}

(* The screens and the cursor keep their types; the calculator's expression
   leaves room for its final 0 (kernel.c:302). *)
KTypeOK == /\ screen \in Shown \ {"menu"}
           /\ pc \in {"show", "fetch", "loop"}
           /\ start_open \in BOOLEAN /\ ran \in BOOLEAN /\ stray \in BOOLEAN
           /\ expr_len \in 0 .. ExprCap
           /\ display \in [fb : [Spots -> Shown \cup {"cursor"}], pos : Spots,
                           under : Shown \cup {"cursor"}, saved : BOOLEAN]
           /\ ps2 \in [idx : 0 .. 2, button : BOOLEAN]
           /\ dev \in [byte : 0 .. 2, down : BOOLEAN]

(* There is at most one cursor on the screen, where cur_x and cur_y say, and
   the pixels saved from under it are never those of a cursor, though screens
   are drawn over it and the cursor is then "restored" (kernel.c:101-110). *)
OneCursor(d) == /\ \A s \in Spots : d.fb[s] = "cursor" => s = d.pos /\ d.saved
                /\ d.under # "cursor"
NoGhostCursor == OneCursor(display)

(* What a spot shows when nothing is wrong. *)
Expected(s) == IF screen = "desktop" /\ s \in Menu /\ start_open /\ ~ran THEN "menu" ELSE screen

(* A screen in its loop shows what it painted, and the desktop its menu just
   when start_open is set and no program was run from it; except for one
   cursor-sized patch, at most, of what was there before (kernel.c:80-92 puts
   back pixels saved before the screen, or the menu, was repainted). *)
OnePatch == pc = "loop" =>
              Cardinality({s \in Spots \ {display.pos} : display.fb[s] # Expected(s)}) <= 1

(* A screen acts on a press only if the button is down in the packet that the
   mouse sent, unless a byte was lost or came from the keyboard: then the index
   of mouse_read_packet is never in step again (kernel.c:124-128). *)
PressIsReal == [][pc = "loop" /\ <<screen, start_open, expr_len>>' # <<screen, start_open, expr_len>>
                  => dev.down \/ stray']_vars
================================================================================
