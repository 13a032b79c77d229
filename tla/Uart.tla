-------------------------------- MODULE Uart --------------------------------
(***************************************************************************)
(* The PL011 driver (uart.cpp), the device it drives, and the contexts     *)
(* that call it: the thread of every core (kernel.cpp) and the interrupt   *)
(* handler of core 0 (exception.cpp), the core both GIC drivers leave the  *)
(* UART's interrupt routed to.                                             *)
(*                                                                         *)
(* _tx_buffer, the device registers and _irqs_ready are shared by all the  *)
(* contexts and protected by nothing, so a step makes at most one access   *)
(* to them; what a context does with values it already loaded belongs to   *)
(* the step that loaded them.  _rx_buffer is only used by the handler.     *)
(***************************************************************************)
EXTENDS CharBuffer, Functions

CONSTANTS Secondary,    \* the threads of the other cores
          BootMsg,      \* what core 0 prints before it unmasks interrupts
          RunMsg,       \* "Running core %d ..." of secondary_kern_main
          Banner,       \* "IRQ INTID %d ..." of irq_handler
          RxHeader,     \* "Ring buffer content: " of print_buffer
          Received,     \* the characters that can arrive
          MaxRx         \* bound: how many characters arrive

CR     == "CR"
NL     == "NL"
NUL    == "NUL"
NoChar == "none"
Char   == {CR, NL, NUL} \cup Received
            \cup UNION {Range(m) : m \in {BootMsg, RunMsg, Banner, RxHeader}}

Core0  == "core0"                       \* the thread of core 0
IRQ    == "irq"                         \* the interrupt handler on core 0
Thread == {Core0} \cup Secondary
Ctx    == Thread \cup {IRQ}

ASSUME ContextsAssumption == Secondary \cap {Core0, IRQ} = {}
ASSUME MessagesAssumption == \A m \in {BootMsg, RunMsg, Banner, RxHeader} : m \in Seq(Char)
ASSUME ReceivedAssumption == NoChar \notin Received /\ MaxRx \in Nat

VARIABLES
    tx,     \* _tx_buffer
    rx,     \* _rx_buffer
    uart,   \* the device: IMSC and RIS as sets of interrupts, THR and RHR
            \* the one-character transmit and receive registers
    cx,     \* per context: pc and the locals of the functions it is in
    sys     \* _irqs_ready, core 0's interrupt mask, _print_lock, arrivals,
            \* and whether the tree gave the UART's clock frequency

vars == <<tx, rx, uart, cx, sys>>

Idle == [pc   |-> "idle",   \* where the context is
         todo |-> << >>,    \* the characters kprintf still has to send
         next |-> "idle",   \* where it goes once they are sent
         ret  |-> "send",   \* who called pl011_drain_tx
         chr  |-> NUL,      \* the character in buffer_char / read_char
         reg  |-> 0,        \* an index loaded from _tx_buffer
         imsc |-> {},       \* old_mask of toggle_imsc_mask
         mis  |-> {}]       \* mis of pl011_handle_irq

(* The device starts as the firmware left it.                              *)
Init ==
    /\ tx = NewBuffer(NUL)
    /\ rx = NewBuffer(NUL)
    /\ uart \in [IMSC : SUBSET {"tx", "rx"}, RIS : {{}}, THR : {NoChar, NUL}, RHR : {NoChar}]
    /\ cx = [x \in Ctx |-> [Idle EXCEPT !.pc = IF x = Core0 THEN "initialize" ELSE "idle"]]
    /\ sys \in [_irqs_ready : {FALSE}, masked : {TRUE}, _print_lock : {{}}, arrived : {0},
               clock : BOOLEAN]

(* Core 0's thread does not run while core 0 handles an interrupt.         *)
At(x, pc) == cx[x].pc = pc /\ (x = Core0 => cx[IRQ].pc = "idle")

Goto(x, pc) == cx' = [cx EXCEPT ![x].pc = pc]

(* An index is loaded, and used.  A local is reset once its value is dead, *)
(* so that states differ only in what the code still looks at.             *)
Load(x, index, pc) == cx' = [cx EXCEPT ![x].reg = index, ![x].pc = pc]

Use(x, pc) == Load(x, 0, pc)

-----------------------------------------------------------------------------
(* The device.  UART::initialize disables the FIFOs, so each direction has *)
(* one character of room.  The TX interrupt is raised when the register    *)
(* empties (a transition, not a level), the RX interrupt when it fills.    *)
TXFF == uart.THR # NoChar

MIS == uart.RIS \cap uart.IMSC

Shift ==
    /\ TXFF
    /\ uart' = [uart EXCEPT !.THR = NoChar, !.RIS = @ \cup {"tx"}]
    /\ UNCHANGED <<tx, rx, cx, sys>>

Arrive(c) ==
    /\ cx[Core0].pc # "initialize"
    /\ sys.arrived < MaxRx
    /\ sys' = [sys EXCEPT !.arrived = @ + 1]
    /\ IF uart.RHR = NoChar
       THEN uart' = [uart EXCEPT !.RHR = c, !.RIS = @ \cup {"rx"}]
       ELSE UNCHANGED uart                      \* overrun: c is lost
    /\ UNCHANGED <<tx, rx, cx>>

-----------------------------------------------------------------------------
(* Mutated operations: the leak is forgotten; the loop that drains before  *)
(* IRQs are ready is missing, or waits for the full flag the wrong way    *)
(* round; the other bits of IMSC are not kept; IMSC is read where MIS      *)
(* should be; the handler waits for _print_lock.                           *)
LeakIfFull_Never(x) ==
    /\ At(x, "b5")
    /\ cx' = [cx EXCEPT ![x].pc = IF cx[x].chr = CR /\ Head(cx[x].todo) = NL THEN "b1" ELSE "d1",
                        ![x].chr = IF @ = CR /\ Head(cx[x].todo) = NL THEN NL ELSE @,
                        ![x].todo = IF cx[x].chr = CR /\ Head(@) = NL THEN @ ELSE Tail(@),
                        ![x].ret = "send"]
    /\ UNCHANGED tx

CheckEmpty_NoSync(x) ==
    \/ At(x, "e1") /\ Load(x, tx._start, "e2")
    \/ /\ At(x, "e2")
       /\ Goto(x, IF elements_in_buffer(cx[x].reg, tx._end) = 0 THEN "off1"
                  ELSE IF cx[x].ret = "irq" THEN "rx" ELSE "on1")

CheckEmpty_WaitsForFull(x) ==
    \/ At(x, "e1") /\ Load(x, tx._start, "e2")
    \/ /\ At(x, "e2")
       /\ Goto(x, IF elements_in_buffer(cx[x].reg, tx._end) = 0 THEN "off1"
                  ELSE IF cx[x].ret = "irq" THEN "rx" ELSE "e3")
    \/ At(x, "e3") /\ Goto(x, IF sys._irqs_ready THEN "on1" ELSE "wait")
    \/ At(x, "wait") /\ TXFF /\ Goto(x, "e1")

ToggleTx_OtherBitsLost(x) ==
    /\ \E l \in {"on1", "off1"} :
          /\ At(x, l)
          /\ uart' = [uart EXCEPT !.IMSC = IF l = "on1" THEN {"tx"} ELSE {}]
          /\ Goto(x, IF cx[x].ret = "irq" THEN "rx" ELSE "send")
    /\ UNCHANGED <<tx, rx, sys>>

HandleTx_ReadsMask ==
    /\ At(IRQ, "mis")
    /\ cx' = [cx EXCEPT ![IRQ].mis = uart.IMSC,
                        ![IRQ].ret = "irq",
                        ![IRQ].pc  = IF "tx" \in uart.IMSC THEN "d1" ELSE "rx"]
    /\ UNCHANGED <<tx, rx, uart, sys>>

HandleTx_WaitsForLock ==
    /\ At(IRQ, "mis")
    /\ sys._print_lock = {}
    /\ cx' = [cx EXCEPT ![IRQ].mis = MIS,
                        ![IRQ].ret = "irq",
                        ![IRQ].pc  = IF "tx" \in MIS THEN "d1" ELSE "rx"]
    /\ UNCHANGED <<tx, rx, uart, sys>>

-----------------------------------------------------------------------------
(* pl011_send_char_async on the next character: '\n' is buffered as '\r'   *)
(* and '\n'.  When the string is sent, the context goes on.                *)
SendChar(x) ==
    /\ At(x, "send")
    /\ LET k == cx[x]
       IN  \/ /\ k.todo = << >>
              /\ cx' = [cx EXCEPT ![x] = [Idle EXCEPT !.pc = k.next, !.mis = k.mis]]
           \/ /\ k.todo # << >>
              /\ cx' = [cx EXCEPT ![x].pc = "b1",
                                  ![x].chr = IF Head(k.todo) = NL THEN CR ELSE Head(k.todo)]
    /\ UNCHANGED <<tx, rx, uart, sys>>

(* CharBuffer::buffer_char on _tx_buffer, one access at a time.            *)
StoreChar(x) ==
    \/ At(x, "b1") /\ Load(x, tx._end, "b2") /\ UNCHANGED tx
    \/ /\ At(x, "b2")
       /\ tx' = [tx EXCEPT !._ring[cx[x].reg] = cx[x].chr]
       /\ Use(x, "b3")

IncrementEnd(x) ==
    \/ At(x, "b3") /\ Load(x, tx._end, "b4") /\ UNCHANGED tx
    \/ At(x, "b4") /\ tx' = [tx EXCEPT !._end = Bump(cx[x].reg)] /\ Use(x, "b5")

(* After buffer_char: '\r' is followed by its '\n', anything else by       *)
(* pl011_drain_tx.                                                         *)
Buffered(x) ==
    LET k == cx[x]
    IN  cx' = [cx EXCEPT ![x] =
                 IF k.chr = CR /\ Head(k.todo) = NL
                 THEN [k EXCEPT !.pc = "b1", !.chr = NL, !.reg = 0]
                 ELSE [k EXCEPT !.pc = "d1", !.todo = Tail(k.todo), !.ret = "send",
                                !.chr = NUL, !.reg = 0]]

LeakIfFull(x) ==
    \/ At(x, "b5") /\ Load(x, tx._end, "b6") /\ UNCHANGED tx
    \/ /\ At(x, "b6")
       /\ IF cx[x].reg = tx._start THEN Use(x, "b7") ELSE Buffered(x)
       /\ UNCHANGED tx
    \/ At(x, "b7") /\ Load(x, tx._start, "b8") /\ UNCHANGED tx
    \/ At(x, "b8") /\ tx' = [tx EXCEPT !._start = Bump(cx[x].reg)] /\ Buffered(x)

BufferChar(x) ==
    /\ StoreChar(x) \/ IncrementEnd(x) \/ LeakIfFull(x)
    /\ UNCHANGED <<rx, uart, sys>>

-----------------------------------------------------------------------------
(* pl011_drain_tx: while there is room in the device, read_char.           *)
PollRoom(x) ==
    /\ At(x, "d1")
    /\ Goto(x, IF TXFF THEN "e1" ELSE "d2")
    /\ UNCHANGED tx

ReadChar(x) ==
    \/ At(x, "d2") /\ Load(x, tx._start, "d3") /\ UNCHANGED tx
    \/ At(x, "d3") /\ Use(x, IF cx[x].reg = tx._end THEN "e1" ELSE "d4") /\ UNCHANGED tx
    \/ At(x, "d4") /\ Load(x, tx._start, "d5") /\ UNCHANGED tx
    \/ /\ At(x, "d5")
       /\ cx' = [cx EXCEPT ![x].chr = tx._ring[cx[x].reg], ![x].reg = 0,
                           ![x].pc = "d6"]
       /\ UNCHANGED tx
    \/ At(x, "d6") /\ Load(x, tx._start, "d7") /\ UNCHANGED tx
    \/ At(x, "d7") /\ tx' = [tx EXCEPT !._start = Bump(cx[x].reg)] /\ Use(x, "d8")

(* A write to DR overwrites the register, full or not.                     *)
WriteDR(x) ==
    /\ At(x, "d8")
    /\ uart' = [uart EXCEPT !.THR = cx[x].chr, !.RIS = @ \ {"tx"}]
    /\ cx' = [cx EXCEPT ![x].pc = "d1", ![x].chr = NUL]
    /\ UNCHANGED tx

DrainTx(x) ==
    /\ \/ (PollRoom(x) \/ ReadChar(x)) /\ UNCHANGED uart
       \/ WriteDR(x)
    /\ UNCHANGED <<rx, sys>>

-----------------------------------------------------------------------------
(* After pl011_drain_tx its caller looks at elements_in_buffer():          *)
(*   "send"  the first test in pl011_send_char_async,                      *)
(*   "sync"  the loop that empties the buffer before IRQs are ready,       *)
(*   "irq"   pl011_handle_irq.                                             *)
AfterDrain(ret, empty) ==
    CASE ret = "send" -> IF empty THEN "off1" ELSE "e3"
      [] ret = "sync" -> IF empty THEN "send" ELSE "wait"
      [] ret = "irq"  -> IF empty THEN "off1" ELSE "rx"

(* elements_in_buffer loads both indexes again for each of its branches.   *)
CheckEmpty(x) ==
    \/ \E l \in {<<"e1", "e2">>, <<"lt1", "lt2">>, <<"neg1", "neg2">>, <<"wrap1", "wrap2">>} :
          At(x, l[1]) /\ Load(x, tx._start, l[2])
    \/ At(x, "e2") /\ Use(x, IF cx[x].reg = tx._end THEN AfterDrain(cx[x].ret, TRUE) ELSE "lt1")
    \/ At(x, "lt2") /\ Use(x, IF cx[x].reg < tx._end THEN "neg1" ELSE "wrap1")
    \/ At(x, "neg2") /\ Use(x, AfterDrain(cx[x].ret, (cx[x].reg - tx._end) % 256 = 0))
    \/ /\ At(x, "wrap2")
       /\ Use(x, AfterDrain(cx[x].ret, (BufferSize - cx[x].reg + tx._end + 1) % 256 = 0))
    \/ /\ At(x, "e3")
       /\ cx' = [cx EXCEPT ![x] = IF sys._irqs_ready
                                  THEN [@ EXCEPT !.pc = "on1"]
                                  ELSE [@ EXCEPT !.pc = "e1", !.ret = "sync"]]
    \/ At(x, "wait") /\ ~TXFF /\ Goto(x, "d1")

(* toggle_imsc_mask on the TX bit: a load and a store of IMSC.             *)
ToggleTx(x) ==
    /\ \/ \E l \in {<<"on1", "on2">>, <<"off1", "off2">>} :
             /\ At(x, l[1])
             /\ cx' = [cx EXCEPT ![x].imsc = uart.IMSC, ![x].pc = l[2]]
             /\ UNCHANGED uart
       \/ \E l \in {"on2", "off2"} :
             /\ At(x, l)
             /\ uart' = [uart EXCEPT !.IMSC = IF l = "on2" THEN cx[x].imsc \cup {"tx"}
                                                          ELSE cx[x].imsc \ {"tx"}]
             /\ cx' = [cx EXCEPT ![x].pc = IF cx[x].ret = "irq" THEN "rx" ELSE "send",
                                 ![x].imsc = {}]
    /\ UNCHANGED <<tx, rx, sys>>

Send(x) ==
    \/ SendChar(x)
    \/ BufferChar(x)
    \/ DrainTx(x)
    \/ CheckEmpty(x) /\ UNCHANGED <<tx, rx, uart, sys>>
    \/ ToggleTx(x)

-----------------------------------------------------------------------------
(* irq_entry and irq_handler on core 0: print the banner, then handle.     *)
irq_handler ==
    /\ cx[IRQ].pc = "idle"
    /\ ~sys.masked
    /\ MIS # {}
    /\ cx' = [cx EXCEPT ![IRQ] = [Idle EXCEPT !.pc = "send", !.todo = Banner, !.next = "mis"]]
    /\ UNCHANGED <<tx, rx, uart, sys>>

(* The top of pl011_handle_irq: load MIS, and drain on a TX interrupt.     *)
HandleTx ==
    /\ At(IRQ, "mis")
    /\ cx' = [cx EXCEPT ![IRQ].mis = MIS,
                        ![IRQ].ret = "irq",
                        ![IRQ].pc  = IF "tx" \in MIS THEN "d1" ELSE "rx"]
    /\ UNCHANGED <<tx, rx, uart, sys>>

(* pl011_send_str_async sends a '\r' before every '\n', and               *)
(* pl011_send_char_async, called for each character, another one.          *)
send_str_async(str) ==
    LET sent[i \in 0 .. Len(str)] ==
          IF i = 0 THEN << >>
          ELSE sent[i - 1] \o (IF str[i] = NL THEN <<CR, NL>> ELSE <<str[i]>>)
    IN  sent[Len(str)]

(* CharBuffer::print_buffer: a header, every character from _start up to   *)
(* _end, and a newline.                                                    *)
print_buffer(b) ==
    IF can_read(b) THEN send_str_async(RxHeader) \o Contents(b) \o <<NL>> ELSE << >>

(* The RX part: read DR, buffer the character, print what is buffered.     *)
HandleRx ==
    /\ At(IRQ, "rx")
    /\ \/ /\ "rx" \in cx[IRQ].mis
          /\ uart' = [uart EXCEPT !.RHR = NoChar, !.RIS = @ \ {"rx"}]
          /\ rx' = buffer_char(rx, uart.RHR)
          /\ cx' = [cx EXCEPT ![IRQ].pc = "send", ![IRQ].next = "icr",
                              ![IRQ].todo = print_buffer(rx')]
       \/ /\ "rx" \notin cx[IRQ].mis
          /\ Goto(IRQ, "icr")
          /\ UNCHANGED <<rx, uart>>
    /\ UNCHANGED <<tx, sys>>

(* The last line of pl011_handle_irq, and the return from the interrupt.   *)
ClearAndReturn ==
    /\ At(IRQ, "icr")
    /\ uart' = [uart EXCEPT !.RIS = @ \ cx[IRQ].mis]
    /\ cx' = [cx EXCEPT ![IRQ] = Idle]
    /\ UNCHANGED <<tx, rx, sys>>

Handler == HandleTx \/ HandleRx \/ ClearAndReturn \/ Send(IRQ)

-----------------------------------------------------------------------------
(* UART::initialize waits for the firmware's last character, flushes, and  *)
(* turns the RX interrupt on.  kern_main prints after it.  Without a clock *)
(* frequency calculate_divisors panics: core 0 never gets past this.       *)
initialize ==
    /\ At(Core0, "initialize")
    /\ ~TXFF
    /\ sys.clock
    /\ uart' = [uart EXCEPT !.IMSC = @ \cup {"rx"}, !.RHR = NoChar]
    /\ cx' = [cx EXCEPT ![Core0] = [@ EXCEPT !.pc = "send", !.todo = BootMsg, !.next = "unmask"]]
    /\ UNCHANGED <<tx, rx, sys>>

unmask_irqs ==
    /\ At(Core0, "unmask")
    /\ sys' = [sys EXCEPT !.masked = FALSE]
    /\ Goto(Core0, "signal")
    /\ UNCHANGED <<tx, rx, uart>>

(* boot_secondary_cores, the last thing core 0 does before it parks.       *)
boot_core(x) ==
    /\ x \in Secondary
    /\ cx[x].pc = "idle"
    /\ cx[Core0].pc = "parked"
    /\ Goto(x, "signal")
    /\ UNCHANGED <<tx, rx, uart, sys>>

signal_irqs_ready(x) ==
    /\ At(x, "signal")
    /\ sys' = [sys EXCEPT !._irqs_ready = TRUE]
    /\ Goto(x, "lock")
    /\ UNCHANGED <<tx, rx, uart>>

(* secondary_kern_main prints inside a SpinLockGuard on _print_lock, which *)
(* module SpinLock shows to be a mutual-exclusion lock.                    *)
LockAndPrint(x) ==
    /\ At(x, "lock")
    /\ sys._print_lock = {}
    /\ sys' = [sys EXCEPT !._print_lock = {x}]
    /\ cx' = [cx EXCEPT ![x] = [@ EXCEPT !.pc = "send", !.todo = RunMsg, !.next = "unlock"]]
    /\ UNCHANGED <<tx, rx, uart>>

Unlock(x) ==
    /\ At(x, "unlock")
    /\ sys' = [sys EXCEPT !._print_lock = {}]
    /\ Goto(x, "parked")
    /\ UNCHANGED <<tx, rx, uart>>

secondary_kern_main(x) ==
    signal_irqs_ready(x) \/ LockAndPrint(x) \/ Send(x) \/ Unlock(x)

Device == Shift \/ \E c \in Received : Arrive(c)

Next ==
    \/ Device
    \/ irq_handler
    \/ Handler
    \/ initialize
    \/ unmask_irqs
    \/ \E x \in Thread : boot_core(x) \/ secondary_kern_main(x)

(* The device shifts out what it is given, every core keeps executing, and *)
(* a pending interrupt is taken (core 0's thread yields to it).            *)
Fairness ==
    /\ WF_vars(Shift)
    /\ WF_vars(irq_handler)
    /\ WF_vars(Handler)
    /\ WF_vars(initialize \/ unmask_irqs)
    /\ \A x \in Thread : WF_vars(boot_core(x) \/ secondary_kern_main(x))

Spec == Init /\ [][Next]_vars /\ Fairness

-----------------------------------------------------------------------------
Storing  == {"b1", "b2", "b3", "b4", "b5", "b6", "b7", "b8"}
Draining == {"d1", "d2", "d3", "d4", "d5", "d6", "d7", "d8", "e1", "e2", "lt1", "lt2",
             "neg1", "neg2", "wrap1", "wrap2", "off1", "off2"}
Pcs      == {"idle", "initialize", "send", "e3", "wait", "on1", "on2", "mis", "rx", "icr",
             "unmask", "signal", "lock", "unlock", "parked"} \cup Storing \cup Draining

CtxType == [pc : Pcs, todo : Seq(Char), next : {"idle", "mis", "icr", "unmask", "unlock"},
            ret : {"send", "sync", "irq"}, chr : Char, reg : Index,
            imsc : SUBSET {"tx", "rx"}, mis : SUBSET {"tx", "rx"}]

TypeOK ==
    /\ tx \in CharBuffers(Char)
    /\ rx \in CharBuffers(Char)
    /\ uart \in [IMSC : SUBSET {"tx", "rx"}, RIS : SUBSET {"tx", "rx"},
                THR : Char \cup {NoChar}, RHR : Char \cup {NoChar}]
    /\ cx \in [Ctx -> CtxType]
    /\ sys \in [_irqs_ready : BOOLEAN, masked : BOOLEAN,
               _print_lock : SUBSET Thread, arrived : 0 .. MaxRx, clock : BOOLEAN]

(* The RX interrupt, once initialize has turned it on, is never turned off *)
(* by a read-modify-write of the TX bit, whatever contexts race on IMSC    *)
(* (toggle_imsc_mask: "we only want to update the bit that we're concerned *)
(* with").                                                                 *)
RxStaysEnabled == cx[Core0].pc # "initialize" => "rx" \in uart.IMSC

(* pl011_handle_irq reads DR only when a received character is there       *)
(* ("there was data to read, so a plain read of DR here is OK").           *)
PlainReadIsOK ==
    cx[IRQ].pc = "rx" /\ "rx" \in cx[IRQ].mis => uart.RHR # NoChar

(* Before IRQs are ready, pl011_send_char_async drains the buffer before   *)
(* it returns, so every call starts with an empty one and nothing leaks.   *)
SyncSendsDrain ==
    ~sys._irqs_ready =>
        \A x \in Ctx : /\ cx[x].pc = "send" => tx._start = tx._end
                       /\ cx[x].pc # "b7"

(* kprintf does not hang before interrupts are unmasked, although it waits *)
(* for the device.                                                         *)
BootPrintReturns == cx[Core0].pc = "send" /\ sys.masked ~> cx[Core0].pc = "unmask"

(* The interrupt handler, which prints too, always returns.                *)
HandlerReturns == cx[IRQ].pc # "idle" ~> cx[IRQ].pc = "idle"

-----------------------------------------------------------------------------
(* What comments in the code say and the code does not do.                 *)
Quiet == sys._irqs_ready /\ \A x \in Ctx : cx[x].pc \in {"idle", "parked"}

(* uart.cpp, pl011_handle_irq: "Drain as much as possible before either    *)
(* deferring again (wait for another TX interrupt)".  When characters are  *)
(* left in the buffer and nobody is sending, another TX interrupt is on    *)
(* its way: the device still holds a character or the interrupt is raised. *)
DeferredIsWoken ==
    Quiet /\ tx._start # tx._end => "tx" \in uart.IMSC /\ (TXFF \/ "tx" \in uart.RIS)

(* exception.cpp, irq_handler: "The UART hardware has sent an interrupt    *)
(* signaling that there is input available to read from".  When a received *)
(* character is waiting and nobody handles it, its interrupt is raised.    *)
InputIsSignalled == Quiet /\ uart.RHR # NoChar => "rx" \in uart.RIS

(* uart.cpp, pl011_handle_irq: "If the buffer is empty, we disable TX      *)
(* interrupts".  Since finitely many characters are received, the buffer   *)
(* is emptied at some point and the interrupts come to an end.             *)
InterruptsDieDown == <>[](cx[IRQ].pc = "idle")

(* uart.cpp, initialize: "Mask all interrupts".                            *)
InitializeMasksAll == [][initialize => uart'.IMSC = {}]_vars
=============================================================================
