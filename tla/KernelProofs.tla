------------------------------ MODULE KernelProofs ------------------------------
(***************************************************************************)
(* Proofs about Kernel: types, the cursor and what is behind it, and the   *)
(* packets of the mouse, for expressions and results of any length.        *)
(***************************************************************************)
EXTENDS Kernel, FiniteSetTheorems, TLAPS

Display == [fb : [Spots -> Shown \cup {"cursor"}], pos : Spots,
            under : Shown \cup {"cursor"}, saved : BOOLEAN]

(* What the model draws is one of the things that can be shown, and the places
   it names are spots. *)
LEMMA SpotFacts == /\ "centre" \in Spots
                   /\ \A s \in DOMAIN AppOf : AppOf[s] \in Shown \ {"menu"}
  BY DEF Spots, AppOf, Shown

(* Painting with anything but the cursor leaves one cursor at most. *)
LEMMA PaintKeeps ==
  ASSUME NEW d \in Display, NEW S, NEW what \in Shown
  PROVE  /\ Paint(d, S, what) \in Display
         /\ Paint(d, S, what).pos = d.pos
         /\ OneCursor(d) => OneCursor(Paint(d, S, what))
  BY DEF Display, Paint, OneCursor, Shown

(* cursor_restore_under takes the cursor off the screen. *)
LEMMA RestoreClears ==
  ASSUME NEW d \in Display, OneCursor(d)
  PROVE  /\ Restore(d) \in Display
         /\ OneCursor(Restore(d))
         /\ \A s \in Spots : Restore(d).fb[s] # "cursor"
  BY DEF Display, Restore, OneCursor

(* Saving and drawing where no cursor is shown gives one cursor. *)
LEMMA PutShows ==
  ASSUME NEW d \in Display, NEW p \in Spots, \A s \in Spots : d.fb[s] # "cursor"
  PROVE  Put(d, p) \in Display /\ OneCursor(Put(d, p))
  BY DEF Display, Put, OneCursor

(* cursor_move_to keeps one cursor. *)
LEMMA MoveToKeeps ==
  ASSUME NEW d \in Display, OneCursor(d), NEW p \in Spots
  PROVE  MoveTo(d, p) \in Display /\ OneCursor(MoveTo(d, p))
  BY RestoreClears, PutShows DEF MoveTo

--------------------------------------------------------------------------------
(* The screens, the display and the packet under way: all that reading a byte
   may change.  Boot is over before a loop runs. *)
ScreensOK == /\ screen \in Shown \ {"menu"}
             /\ pc \in {"show", "fetch", "loop"}
             /\ start_open \in BOOLEAN /\ ran \in BOOLEAN
             /\ expr_len \in 0 .. ExprCap
             /\ screen = "boot" => pc = "show"
PacketOK == ps2 \in [idx : 0 .. 2, button : BOOLEAN]
DeviceOK == dev \in [byte : 0 .. 2, down : BOOLEAN] /\ stray \in BOOLEAN
DisplayOK(d) == d \in Display /\ OneCursor(d)

Inv == ScreensOK /\ DisplayOK(display) /\ PacketOK /\ DeviceOK

LEMMA InvGives == Inv => KTypeOK /\ NoGhostCursor
  BY DEF Inv, ScreensOK, DisplayOK, PacketOK, DeviceOK, KTypeOK, NoGhostCursor, Display

LEMMA InvInitially == Init => Inv
<1> SUFFICES ASSUME Init PROVE Inv
  OBVIOUS
<1>1. ScreensOK
  <2>1. expr_len \in 0 .. ExprCap
    BY KernelSizes DEF Init
  <2> QED BY <2>1 DEF Init, ScreensOK, Shown
<1>2. DisplayOK(display)
  BY SpotFacts DEF Init, DisplayOK, Display, OneCursor, Shown
<1>3. PacketOK
  BY DEF Init, PacketOK
<1>4. dev \in [byte : 0 .. 2, down : BOOLEAN]
  BY DEF Init
<1>5. stray \in BOOLEAN
  BY DEF Init
<1> QED BY <1>1, <1>2, <1>3, <1>4, <1>5 DEF Inv, DeviceOK

(* Painting and moving the cursor keep what a display promises. *)
LEMMA DrawingKeeps ==
  ASSUME NEW d, DisplayOK(d)
  PROVE  /\ DisplayOK(Restore(d))
         /\ \A p \in Spots : DisplayOK(MoveTo(d, p))
         /\ \A S : \A what \in Shown : DisplayOK(Paint(d, S, what)) /\ Paint(d, S, what).pos = d.pos
<1>1. DisplayOK(Restore(d))
  BY RestoreClears DEF DisplayOK
<1>2. \A p \in Spots : DisplayOK(MoveTo(d, p))
  BY MoveToKeeps DEF DisplayOK
<1>3. \A S : \A what \in Shown : DisplayOK(Paint(d, S, what)) /\ Paint(d, S, what).pos = d.pos
  BY PaintKeeps DEF DisplayOK
<1> QED BY <1>1, <1>2, <1>3

(* What a press does to the screens and the display keeps them. *)
LEMMA PressKeeps ==
  ASSUME ScreensOK, pc = "loop", NEW d, DisplayOK(d), NEW p, Press(d, p)
  PROVE  ScreensOK' /\ DisplayOK(display')
<1> USE DEF ScreensOK
<1>0. /\ \A S : \A what \in Shown : DisplayOK(Paint(d, S, what))
      /\ DisplayOK(Restore(d)) /\ DisplayOK(ClearMenu(d))
  BY DrawingKeeps DEF ClearMenu, Shown
<1>1. CASE PressNext(d, p)
  BY <1>0, <1>1 DEF PressNext, Leave, Shown
<1>2. CASE PressStart(d, p)
  <2>1. DisplayOK(display')
    BY <1>0, <1>2 DEF PressStart, Shown
  <2>2. start_open' \in BOOLEAN /\ ran' \in BOOLEAN
    BY <1>2, Zenon DEF PressStart
  <2> QED BY <1>2, <2>1, <2>2 DEF PressStart
<1>3. CASE PressItem(d, p)
  BY <1>0, <1>3, SpotFacts DEF PressItem, Leave
<1>4. CASE RunHello(d, p)
  BY <1>0, <1>4 DEF RunHello
<1>5. CASE PressOutside(d, p)
  BY <1>0, <1>5 DEF PressOutside
<1>6. CASE PressKey(d, p)
  <2>1. expr_len' \in 0 .. ExprCap
    BY <1>6, KernelSizes DEF PressKey, CalcAdd
  <2> QED BY <1>6, <2>1 DEF PressKey
<1>7. CASE CloseCalculator(d, p) \/ CloseBrowser(d, p) \/ CloseViewer(d, p)
  BY <1>0, <1>7 DEF CloseCalculator, CloseBrowser, CloseViewer, CloseAt, Leave, Shown
<1>8. CASE Nothing(d)
  BY <1>8 DEF Nothing, screens
<1> QED BY <1>1, <1>2, <1>3, <1>4, <1>5, <1>6, <1>7, <1>8 DEF Press

(* So does reading a byte: it collects part of a packet, or handles one. *)
LEMMA ReadKeeps ==
  ASSUME ScreensOK, DisplayOK(display), PacketOK, NEW b \in BOOLEAN, Read(b)
  PROVE  ScreensOK' /\ DisplayOK(display') /\ PacketOK'
<1>0. pc = "loop"
  BY DEF Read
<1>1. DisplayOK(Refreshed)
  BY DrawingKeeps DEF Refreshed, ScreensOK
<1>2. CASE Collect(b)
  <2>1. ps2'.idx \in 0 .. 2
    BY <1>2 DEF Collect, Complete, PacketOK
  <2>2. (IF ps2.idx = 0 THEN b ELSE ps2.button) \in BOOLEAN
    <3>1. ps2.button \in BOOLEAN
      BY DEF PacketOK
    <3> QED BY <3>1
  <2>3. PacketOK'
    BY <1>2, <2>1, <2>2 DEF Collect, PacketOK
  <2> QED BY <1>1, <1>2, <2>3 DEF Collect, Nothing, screens, ScreensOK
<1>3. CASE Packet
  <2>1. PICK p \in Spots : IF ps2.button THEN Press(MoveTo(Refreshed, p), p)
                           ELSE Nothing(MoveTo(Refreshed, p))
    BY <1>3 DEF Packet
  <2>2. DisplayOK(MoveTo(Refreshed, p))
    BY <1>1, DrawingKeeps
  <2>3. ScreensOK' /\ DisplayOK(display')
    <3>1. CASE ps2.button
      BY <1>0, <2>1, <2>2, <3>1, PressKeeps
    <3>2. CASE ~ps2.button
      BY <2>1, <2>2, <3>2 DEF Nothing, screens, ScreensOK
    <3> QED BY <3>1, <3>2
  <2>4. PacketOK'
    BY <1>3 DEF Packet, PacketOK
  <2> QED BY <2>3, <2>4
<1> QED BY <1>2, <1>3 DEF Read

(* The mouse goes on to its next byte. *)
LEMMA SendKeeps ==
  ASSUME dev \in [byte : 0 .. 2, down : BOOLEAN], NEW b \in BOOLEAN, Send(b)
  PROVE  dev' \in [byte : 0 .. 2, down : BOOLEAN]
<1>1. (dev.byte + 1) % 3 \in 0 .. 2
  OBVIOUS
<1>2. dev.down \in BOOLEAN
  OBVIOUS
<1>3. (IF dev.byte = 0 THEN b ELSE dev.down) \in BOOLEAN
  BY <1>2
<1> QED BY <1>1, <1>3 DEF Send

(* The screens that are drawn, and the page that has come. *)
LEMMA DrawKeeps ==
  ASSUME ScreensOK, DisplayOK(display), Draw
  PROVE  ScreensOK' /\ DisplayOK(display')
<1> DEFINE Drawn(S, what, p) == MoveTo(Paint(display, S, what), p)
<1>0. \A S : \A what \in Shown, p \in Spots : DisplayOK(Drawn(S, what, p))
  BY DrawingKeeps
<1>1. display.pos \in Spots /\ "centre" \in Spots
  BY SpotFacts DEF DisplayOK, Display
<1>2. CASE Boot
  BY <1>1, <1>2, DrawingKeeps DEF Boot, ScreensOK, Shown
<1>3. CASE ShowWelcome
  BY <1>0, <1>1, <1>3 DEF ShowWelcome, Begin, Stay, ScreensOK, Shown
<1>4. CASE ShowDesktop
  <2>1. start_open' \in BOOLEAN /\ ran' \in BOOLEAN
    BY <1>4, Zenon DEF ShowDesktop
  <2> QED BY <1>0, <1>1, <1>4, <2>1 DEF ShowDesktop, Begin, ScreensOK, Shown
<1>5. CASE ShowCalculator
  BY <1>0, <1>1, <1>5 DEF ShowCalculator, Begin, Stay, ScreensOK, Shown
<1>6. CASE ShowBrowser
  BY <1>0, <1>1, <1>6 DEF ShowBrowser, Begin, Stay, ScreensOK, Shown
<1>7. CASE ShowViewer
  BY <1>0, <1>1, <1>7 DEF ShowViewer, Begin, Stay, ScreensOK, Shown
<1>8. CASE FetchPage
  BY <1>0, <1>1, <1>8 DEF FetchPage, Fetched, ScreensOK, Shown
<1>9. CASE FetchUser
  BY <1>0, <1>1, <1>9 DEF FetchUser, Fetched, ScreensOK, Shown
<1> QED BY <1>2, <1>3, <1>4, <1>5, <1>6, <1>7, <1>8, <1>9 DEF Draw

LEMMA InvKept == Inv /\ [Next]_vars => Inv'
<1> SUFFICES ASSUME Inv, [Next]_vars PROVE Inv'
  OBVIOUS
<1> USE DEF Inv
<1>1. CASE Draw /\ UNCHANGED <<ps2, dev, stray>>
  <2>1. ScreensOK' /\ DisplayOK(display')
    BY <1>1, DrawKeeps
  <2>2. PacketOK' /\ DeviceOK'
    BY <1>1 DEF PacketOK, DeviceOK
  <2> QED BY <2>1, <2>2
<1>2. CASE MouseByte
  <2>1. PICK b \in BOOLEAN : Send(b) /\ Read(b) /\ UNCHANGED stray
    BY <1>2 DEF MouseByte
  <2>2. ScreensOK' /\ DisplayOK(display') /\ PacketOK'
    BY <2>1, ReadKeeps
  <2>3. DeviceOK'
    BY <2>1, SendKeeps DEF DeviceOK
  <2> QED BY <2>2, <2>3
<1>3. CASE LoseByte
  <2>1. DeviceOK'
    <3>1. PICK b \in BOOLEAN : Send(b)
      BY <1>3 DEF LoseByte
    <3>2. stray' \in BOOLEAN
      BY <1>3, Zenon DEF LoseByte
    <3> QED BY <3>1, <3>2, SendKeeps DEF DeviceOK
  <2> QED BY <1>3, <2>1 DEF LoseByte, screens, ScreensOK, PacketOK
<1>4. CASE KeyboardByte
  <2>1. PICK b \in BOOLEAN : Read(b)
    BY <1>4 DEF KeyboardByte
  <2>2. ScreensOK' /\ DisplayOK(display') /\ PacketOK'
    BY <2>1, ReadKeeps
  <2>3. stray' \in BOOLEAN
    BY <1>4, Zenon DEF KeyboardByte
  <2>4. DeviceOK'
    BY <1>4, <2>3 DEF KeyboardByte, DeviceOK
  <2> QED BY <2>2, <2>4
<1>5. CASE NoByte
  <2>1. DisplayOK(Refreshed)
    BY DrawingKeeps DEF Refreshed, ScreensOK
  <2> QED BY <1>5, <2>1 DEF NoByte, Nothing, screens, ScreensOK, PacketOK, DeviceOK
<1>6. CASE UNCHANGED vars
  BY <1>6 DEF vars, screens, ScreensOK, PacketOK, DeviceOK
<1> QED BY <1>1, <1>2, <1>3, <1>4, <1>5, <1>6 DEF Next

LEMMA InvHolds == Spec => []Inv
  BY InvInitially, InvKept, PTL DEF Spec

(* The screens and the cursor keep their types, and the calculator's
   expression fits in expr (kernel.c:302-304). *)
THEOREM TypesKept == Spec => []KTypeOK
  BY InvHolds, InvGives, PTL

(* There is one cursor at most, at cur_x and cur_y, and it is never among the
   pixels saved (kernel.c:66-114), whatever is drawn over it. *)
THEOREM OneCursorShown == Spec => []NoGhostCursor
  BY InvHolds, InvGives, PTL

--------------------------------------------------------------------------------
(* While no byte was lost or came from the keyboard, the index of
   mouse_read_packet is that of the mouse, and pkt[0] is its status byte. *)
InStep == ~stray => /\ ps2.idx = dev.byte
                    /\ dev.byte # 0 => ps2.button = dev.down

LEMMA StepsTogether == Inv /\ InStep /\ [Next]_vars => InStep'
<1> SUFFICES ASSUME Inv, InStep, [Next]_vars, ~stray' PROVE InStep'
  BY DEF InStep
<1> USE DEF Inv
<1>1. CASE MouseByte
  <2>1. PICK b \in BOOLEAN : Send(b) /\ Read(b) /\ UNCHANGED stray
    BY <1>1 DEF MouseByte
  <2>2. dev' = [byte |-> (dev.byte + 1) % 3, down |-> IF dev.byte = 0 THEN b ELSE dev.down]
    BY <2>1 DEF Send
  <2>3. dev.byte \in 0 .. 2 /\ ps2.idx = dev.byte
    BY <2>1 DEF DeviceOK, InStep
  <2>4. CASE Collect(b)
    <3>1. dev.byte \in 0 .. 1 /\ (dev.byte + 1) % 3 = dev.byte + 1
      BY <2>3, <2>4 DEF Collect, Complete
    <3>2. ps2' = [idx |-> ps2.idx + 1, button |-> IF ps2.idx = 0 THEN b ELSE ps2.button]
      BY <2>4 DEF Collect
    <3>3. ps2'.idx = dev'.byte
      BY <2>2, <2>3, <3>1, <3>2
    <3>4. ps2'.button = dev'.down
      BY <2>1, <2>2, <2>3, <3>2 DEF InStep
    <3> QED BY <3>3, <3>4 DEF InStep
  <2>5. CASE Packet
    <3>1. dev'.byte = 0
      BY <2>2, <2>3, <2>5 DEF Packet, Complete
    <3>2. ps2'.idx = 0
      BY <2>5 DEF Packet
    <3> QED BY <3>1, <3>2 DEF InStep
  <2> QED BY <2>1, <2>4, <2>5 DEF Read
<1>2. CASE LoseByte \/ KeyboardByte
  BY <1>2 DEF LoseByte, KeyboardByte
<1>3. CASE UNCHANGED <<ps2, dev, stray>>
  BY <1>3 DEF InStep
<1> QED BY <1>1, <1>2, <1>3 DEF Next, NoByte, vars

(* A screen acts on a press only in a packet whose button the mouse reported
   down, unless a byte was lost or came from the keyboard (kernel.c:120-136). *)
THEOREM PressesAreReal == Spec => PressIsReal
<1> DEFINE Acted == pc = "loop" /\ <<screen, start_open, expr_len>>' # <<screen, start_open, expr_len>>
<1>1. Init => InStep
  BY DEF Init, InStep
<1>2. Inv /\ InStep /\ [Next]_vars => [Acted => dev.down \/ stray']_vars
  <2> SUFFICES ASSUME Inv, InStep, Next, Acted, ~stray' PROVE dev.down
    OBVIOUS
  <2> USE DEF Inv
  <2>1. ~Draw
    BY DEF Draw, Boot, ShowWelcome, ShowDesktop, ShowCalculator, ShowBrowser, ShowViewer,
           FetchPage, FetchUser, Begin, Fetched, ScreensOK
  <2>2. ~NoByte
    BY DEF NoByte, Nothing, screens
  <2>3. MouseByte
    BY <2>1, <2>2 DEF Next, LoseByte, KeyboardByte
  <2>4. Packet /\ ps2.button
    BY <2>3 DEF MouseByte, Read, Collect, Packet, Nothing, screens
  <2>5. ~stray /\ ps2.idx = 2
    BY <2>3, <2>4 DEF MouseByte, Packet, Complete
  <2>6. dev.byte # 0
    BY <2>5 DEF InStep
  <2>7. ps2.button = dev.down
    BY <2>5, <2>6 DEF InStep
  <2> QED BY <2>4, <2>7, Zenon
<1> QED BY <1>1, <1>2, InvHolds, StepsTogether, PTL DEF Spec, PressIsReal

--------------------------------------------------------------------------------
(* What spot s shows, or would show without the cursor. *)
Behind(d, s) == IF d.saved /\ s = d.pos THEN d.under ELSE d.fb[s]

(* A screen, once drawn, shows what it should but for one spot.  On the desktop
   this is the item of the program, which was run with the cursor over it; the
   desktop is always drawn with the cursor put away. *)
Patched(d, w) == \A s \in Spots \ {w} : Behind(d, s) = Expected(s)
Patchy == /\ pc # "show" => /\ display.saved
                            /\ \E w \in Spots : /\ Patched(display, w)
                                                /\ screen = "desktop" => w = "hello"
          /\ screen = "desktop" /\ pc = "show" => ~display.saved

LEMMA BehindMoved ==
  ASSUME NEW d \in Display, NEW p \in Spots
  PROVE  /\ MoveTo(d, p).saved /\ MoveTo(d, p).pos = p
         /\ \A s \in Spots : Behind(MoveTo(d, p), s) = Behind(d, s)
  BY DEF Display, MoveTo, Put, Restore, Behind

LEMMA BehindRestored ==
  ASSUME NEW d \in Display
  PROVE  ~Restore(d).saved
  BY DEF Display, Restore

LEMMA BehindPainted ==
  ASSUME NEW d \in Display, NEW S, NEW what
  PROVE  /\ Paint(d, S, what).saved = d.saved /\ Paint(d, S, what).pos = d.pos
         /\ \A s \in Spots : s \notin S => Behind(Paint(d, S, what), s) = Behind(d, s)
         /\ \A s \in Spots : s \in S /\ ~(d.saved /\ s = d.pos) =>
              Behind(Paint(d, S, what), s) = what
         /\ \A s \in Spots : s \in S /\ d.saved /\ s = d.pos =>
              Behind(Paint(d, S, what), s) = Behind(d, s)
  BY DEF Display, Paint, Behind

(* What was right stays so when a part is painted with what it should show. *)
LEMMA PaintPatches ==
  ASSUME NEW d \in Display, NEW S, NEW what, NEW w, Patched(d, w),
         \A s \in S : Expected(s) = what
  PROVE  Patched(Paint(d, S, what), w)
  BY BehindPainted DEF Patched

(* The display of the calculator is drawn again and again. *)
LEMMA RefreshPatches ==
  ASSUME display \in Display, display.saved, NEW w, Patched(display, w)
  PROVE  /\ Refreshed \in Display /\ Refreshed.saved /\ Patched(Refreshed, w)
         /\ \A p \in Spots : Patched(MoveTo(Refreshed, p), w)
<1>1. Refreshed \in Display /\ Refreshed.saved /\ Patched(Refreshed, w)
  <2>1. CASE screen = "calculator"
    <3>1. Expected("x_calculator") = screen /\ screen \in Shown
      BY <2>1 DEF Expected, Shown
    <3> QED BY <2>1, <3>1, PaintKeeps, BehindPainted, PaintPatches DEF Refreshed
  <2>2. CASE screen # "calculator"
    BY <2>2 DEF Refreshed
  <2> QED BY <2>1, <2>2
<1> QED BY <1>1, BehindMoved DEF Patched

(* A screen that is drawn shows what it should, but for what was saved under
   the cursor before. *)
LEMMA BeginPatches ==
  ASSUME display \in Display, NEW what \in Shown, NEW p \in Spots, Begin(what, p)
  PROVE  /\ display'.saved
         /\ \A s \in Spots : (display.saved /\ s = display.pos) \/ Behind(display', s) = what
<1>1. Paint(display, Spots, what) \in Display /\ display' = MoveTo(Paint(display, Spots, what), p)
  BY PaintKeeps DEF Begin
<1> QED BY <1>1, BehindMoved, BehindPainted

(* The menu is cleared, or painted; the press of an item or of the start button
   happens with the cursor on it. *)
LEMMA PressPatches ==
  ASSUME ScreensOK, pc = "loop", NEW p \in Spots, NEW d \in Display, d.saved, d.pos = p,
         NEW w \in Spots, Patched(d, w), screen = "desktop" => w = "hello", Press(d, p)
  PROVE  Patchy'
<1>1. CASE PressNext(d, p) \/ CloseCalculator(d, p) \/ CloseBrowser(d, p) \/ CloseViewer(d, p)
  <2>1. pc' = "show" /\ display' = Restore(d)
    BY <1>1 DEF PressNext, CloseCalculator, CloseBrowser, CloseViewer, CloseAt, Leave
  <2> QED BY <2>1, BehindRestored DEF Patchy
<1>2. CASE PressItem(d, p)
  <2>1. pc' = "show" /\ screen' # "desktop"
    BY <1>2 DEF PressItem, Leave, AppOf
  <2> QED BY <2>1 DEF Patchy
<1>3. CASE PressStart(d, p) \/ PressOutside(d, p)
  <2>1. /\ screen = "desktop" /\ screen' = screen /\ pc' = pc /\ w = "hello" /\ p \notin Menu
        /\ ~ran'
    BY <1>3 DEF PressStart, PressOutside, Menu, AppOf
  <2>2. \/ display' = ClearMenu(d) /\ ~start_open'
        \/ display' = Paint(d, Menu, "menu") /\ start_open'
    BY <1>3 DEF PressStart, PressOutside
  <2>3. ASSUME NEW s \in Spots, s # "hello" PROVE Behind(display', s) = Expected(s)'
    <3>1. Behind(d, s) = Expected(s)
      BY <2>1, <2>3 DEF Patched
    <3>2. CASE s \in Menu
      <4>1. Behind(display', s) = IF start_open' THEN "menu" ELSE "desktop"
        BY <2>1, <2>2, <3>2, BehindPainted DEF ClearMenu
      <4> QED BY <2>1, <3>2, <4>1 DEF Expected
    <3>3. CASE s \notin Menu
      <4>1. Behind(display', s) = "desktop"
        BY <2>1, <2>2, <3>1, <3>3, BehindPainted DEF ClearMenu, Expected
      <4> QED BY <2>1, <3>3, <4>1 DEF Expected
    <3> QED BY <3>2, <3>3
  <2>4. display'.saved
    BY <2>2, BehindPainted DEF ClearMenu
  <2> QED BY <2>1, <2>3, <2>4 DEF Patchy, Patched, Spots, Menu
<1>4. CASE RunHello(d, p)
  <2>1. /\ screen = "desktop" /\ screen' = screen /\ pc' = pc /\ w = "hello" /\ p = "hello"
        /\ ran' /\ display' = ClearMenu(d)
    BY <1>4 DEF RunHello
  <2>2. ASSUME NEW s \in Spots, s # "hello" PROVE Behind(display', s) = Expected(s)'
    <3>1. Behind(d, s) = Expected(s)
      BY <2>1, <2>2 DEF Patched
    <3>2. Behind(display', s) = "desktop"
      BY <2>1, <2>2, <3>1, BehindPainted DEF ClearMenu, Expected
    <3> QED BY <2>1, <3>2 DEF Expected
  <2>3. display'.saved
    BY <2>1, BehindPainted DEF ClearMenu
  <2> QED BY <2>1, <2>2, <2>3 DEF Patchy, Patched, Spots, Menu
<1>5. CASE PressKey(d, p) \/ Nothing(d)
  <2>1. display' = d /\ UNCHANGED <<screen, pc, start_open, ran>>
    BY <1>5 DEF PressKey, Nothing, screens
  <2> QED BY <2>1 DEF Patchy, Patched, Expected
<1> QED BY <1>1, <1>2, <1>3, <1>4, <1>5 DEF Press

LEMMA ReadPatches ==
  ASSUME Inv, Patchy, NEW b \in BOOLEAN, Read(b)
  PROVE  Patchy'
<1>1. ScreensOK /\ display \in Display /\ pc = "loop"
  BY DEF Inv, DisplayOK, Read
<1>2. PICK w \in Spots : Patched(display, w) /\ (screen = "desktop" => w = "hello")
  BY <1>1 DEF Patchy
<1>3. display.saved
  BY <1>1 DEF Patchy
<1>4. /\ Refreshed \in Display /\ Refreshed.saved /\ Patched(Refreshed, w)
      /\ \A p \in Spots : Patched(MoveTo(Refreshed, p), w)
  BY <1>1, <1>2, <1>3, RefreshPatches
<1>5. ASSUME NEW d, Nothing(d), d.saved, Patched(d, w) PROVE Patchy'
  BY <1>1, <1>2, <1>5 DEF Nothing, screens, Patchy, Patched, Expected
<1>6. CASE Collect(b)
  BY <1>4, <1>5, <1>6 DEF Collect
<1>7. CASE Packet
  <2>1. PICK p \in Spots : IF ps2.button THEN Press(MoveTo(Refreshed, p), p)
                           ELSE Nothing(MoveTo(Refreshed, p))
    BY <1>7 DEF Packet
  <2>2. PICK d : d = MoveTo(Refreshed, p)
    OBVIOUS
  <2>3. /\ d \in Display /\ d.saved /\ d.pos = p /\ Patched(d, w)
        /\ Press(d, p) \/ Nothing(d)
    <3>1. DisplayOK(Refreshed)
      BY <1>1, DrawingKeeps DEF Refreshed, ScreensOK, Inv
    <3>2. DisplayOK(d)
      BY <2>2, <3>1, DrawingKeeps
    <3> QED BY <1>4, <2>1, <2>2, <3>2, BehindMoved DEF DisplayOK
  <2>4. CASE Press(d, p)
    BY <1>1, <1>2, <2>3, <2>4, PressPatches
  <2>5. CASE Nothing(d)
    BY <1>5, <2>3, <2>5
  <2> QED BY <2>3, <2>4, <2>5
<1> QED BY <1>6, <1>7 DEF Read

LEMMA DrawPatches ==
  ASSUME Inv, Patchy, Draw
  PROVE  Patchy'
<1>1. ScreensOK /\ display \in Display /\ display.pos \in Spots /\ "centre" \in Spots
  BY SpotFacts DEF Inv, DisplayOK, Display
<1>2. CASE Boot
  <2>1. pc' = "show" /\ screen' # "desktop"
    BY <1>1, <1>2 DEF Boot, ScreensOK
  <2> QED BY <2>1 DEF Patchy
<1>3. ASSUME NEW what \in Shown, NEW p \in Spots, Begin(what, p), pc' # "show",
             what # "desktop" \/ (~start_open' /\ ~display.saved)
      PROVE  Patchy'
  <2>1. screen' = what
    BY <1>3 DEF Begin
  <2>2. display'.saved
    BY <1>1, <1>3, BeginPatches
  <2>3. \A s \in Spots : Expected(s)' = what
    BY <1>3, <2>1 DEF Expected
  <2>4. \A s \in Spots : (display.saved /\ s = display.pos) \/ Behind(display', s) = what
    BY <1>1, <1>3, BeginPatches
  <2>5. CASE what = "desktop"
    <3>1. "hello" \in Spots /\ ~display.saved
      BY <1>3, <2>5 DEF Spots, Menu
    <3> QED BY <1>3, <2>2, <2>3, <2>4, <3>1 DEF Patchy, Patched
  <2>6. CASE what # "desktop"
    <3>1. PICK w \in Spots : w = display.pos
      BY <1>1
    <3>2. \A s \in Spots \ {w} : Behind(display', s) = Expected(s)'
      BY <2>3, <2>4, <3>1
    <3>3. Patched(display, w)'
      BY <3>2 DEF Patched
    <3> QED BY <1>3, <2>1, <2>2, <2>6, <3>3 DEF Patchy
  <2> QED BY <2>5, <2>6
<1>4. CASE ShowDesktop
  <2>1. ~display.saved
    BY <1>4 DEF ShowDesktop, Begin, Patchy
  <2> QED BY <1>1, <1>3, <1>4, <2>1 DEF ShowDesktop, Begin, Shown
<1>5. CASE ShowWelcome \/ ShowCalculator \/ ShowBrowser \/ ShowViewer
  BY <1>1, <1>3, <1>5
     DEF ShowWelcome, ShowCalculator, ShowBrowser, ShowViewer, Begin, Shown
<1>6. ASSUME NEW what \in {"browser", "json"}, Fetched(what) PROVE Patchy'
  <2>1. PICK w \in Spots : Patched(display, w)
    BY <1>6 DEF Fetched, Patchy
  <2>2. PICK d : d = Paint(display, {"centre", "equals", "next"}, what)
    OBVIOUS
  <2>3. /\ screen = what /\ screen # "desktop" /\ display' = MoveTo(d, display.pos)
        /\ UNCHANGED <<screen, start_open, ran>>
    BY <1>6, <2>2 DEF Fetched
  <2>4. d \in Display
    BY <1>1, <1>6, <2>2, PaintKeeps DEF Shown
  <2>5. Patched(d, w)
    <3>1. \A s \in {"centre", "equals", "next"} : Expected(s) = what
      BY <2>3 DEF Expected
    <3> QED BY <1>1, <2>1, <2>2, <3>1, PaintPatches
  <2>6. display'.saved /\ \A s \in Spots : Behind(display', s) = Behind(d, s)
    BY <1>1, <2>3, <2>4, BehindMoved
  <2> QED BY <2>3, <2>5, <2>6 DEF Patchy, Patched, Expected
<1> QED BY <1>2, <1>4, <1>5, <1>6 DEF Draw, FetchPage, FetchUser

LEMMA PatchyKept == Inv /\ Patchy /\ [Next]_vars => Patchy'
<1> SUFFICES ASSUME Inv, Patchy, [Next]_vars PROVE Patchy'
  OBVIOUS
<1>1. CASE MouseByte \/ KeyboardByte
  <2>1. PICK b \in BOOLEAN : Read(b)
    BY <1>1 DEF MouseByte, KeyboardByte
  <2> QED BY <2>1, ReadPatches
<1>2. CASE Draw
  BY <1>2, DrawPatches
<1>3. CASE NoByte
  <2>1. PICK w \in Spots : Patched(display, w) /\ (screen = "desktop" => w = "hello")
    BY <1>3 DEF NoByte, Patchy
  <2>2. Refreshed.saved /\ Patched(Refreshed, w)
    BY <1>3, <2>1, RefreshPatches DEF NoByte, Patchy, Inv, DisplayOK
  <2>3. display' = Refreshed /\ UNCHANGED <<screen, pc, start_open, ran>> /\ pc = "loop"
    BY <1>3 DEF NoByte, Nothing, screens
  <2> QED BY <2>1, <2>2, <2>3 DEF Patchy, Patched, Expected
<1>4. CASE LoseByte \/ UNCHANGED vars
  BY <1>4 DEF LoseByte, screens, vars, Patchy, Patched, Expected
<1> QED BY <1>1, <1>2, <1>3, <1>4 DEF Next

(* A screen in its loop shows what it painted but for one cursor-sized patch
   (kernel.c:80-92): what was saved under the cursor before the screen, or the
   menu, was painted. *)
THEOREM OnePatchShown == Spec => []OnePatch
<1>1. Init => Patchy
  BY DEF Init, Patchy
<1>2. Inv /\ Patchy => OnePatch
  <2> SUFFICES ASSUME Inv, Patchy, pc = "loop"
               PROVE  Cardinality({s \in Spots \ {display.pos} : display.fb[s] # Expected(s)}) <= 1
    BY DEF OnePatch
  <2> DEFINE wrong == {s \in Spots \ {display.pos} : display.fb[s] # Expected(s)}
  <2>1. PICK w \in Spots : Patched(display, w)
    BY DEF Patchy
  <2>2. wrong \subseteq {w}
    BY <2>1 DEF Patched, Behind
  <2> HIDE DEF wrong
  <2>3. IsFiniteSet({w}) /\ Cardinality({w}) = 1
    BY FS_Singleton
  <2>4. IsFiniteSet(wrong) /\ Cardinality(wrong) <= Cardinality({w})
    BY <2>2, <2>3, FS_Subset
  <2>5. Cardinality(wrong) <= 1
    BY <2>3, <2>4
  <2> QED BY <2>5 DEF wrong
<1> QED BY <1>1, <1>2, InvHolds, PatchyKept, PTL DEF Spec
================================================================================
