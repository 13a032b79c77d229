----------------------------- MODULE Interrupts -----------------------------
(***************************************************************************)
(* Interrupts while the cores boot: irq_entry (exceptions.S), the drivers' *)
(* acknowledge_interrupt and end_of_interrupt, and Exception::irq_handler, *)
(* on top of the threads of module Boot, which they suspend.  A source     *)
(* holds its line up until it is served; the GIC signals a core whose own  *)
(* setup, and the boot core's, let it through.  What the handler does with *)
(* the characters is in module Uart.                                       *)
(***************************************************************************)
EXTENDS Boot

CONSTANT MaxEvents      \* bound: how often a source asks for service

(* Further fields of a board: the INTIDs of the UART and of the timer in   *)
(* the device tree, and the cores whose timer the firmware left enabled    *)
(* (the kernel has set_timer and enable commented out).                    *)
ASSUME InterruptsAssumption ==
    /\ MaxEvents \in Nat
    /\ \A b \in Boards : /\ b.intid.uart \in 32 .. 1019 /\ b.intid.timer \in 16 .. 31
                         /\ b.timers \subseteq DOMAIN b.cpus

VARIABLES
    mis,        \* the PL011's masked interrupt status
    timer,      \* per core: "off", "running" or "expired"
    irq,        \* per core: where irq_entry is, the INTID in x0, mis as read
    active,     \* per core: the interrupt that the GIC holds active
    events

irqvars == <<mis, timer, irq, active, events>>
allvars == <<vars, irqvars>>

None == "none"
Spurious == 1023
IntId(x) == IF x = UART THEN board.intid.uart ELSE board.intid.timer

IrqInit ==
    /\ Init
    /\ mis = {}
    /\ timer = [c \in Core |-> IF c \in board.timers THEN "running" ELSE "off"]
    /\ irq = [c \in Core |-> [pc |-> None, intid |-> 0, mis |-> {}]]
    /\ active = [c \in Core |-> None]
    /\ events = 0

-----------------------------------------------------------------------------
(* The sources.  A source raises its interrupt again at any time, also     *)
(* while a handler is at work on the last one.                             *)
Raise(s) ==
    /\ "uart" \in shared /\ s \notin mis /\ events < MaxEvents
    /\ mis' = mis \cup {s} /\ events' = events + 1
    /\ UNCHANGED <<vars, timer, irq, active>>

(* kprintf drains the transmit buffer: a write to DR takes the TX interrupt*)
(* back, and so does turning it off when the buffer is empty; a full FIFO  *)
(* leaves it.                                                              *)
kprintf == mis' \in {mis, mis \ {"tx"}}

(* A thread prints, also after the GIC has signalled the interrupt.        *)
ThreadPrints(c) ==
    /\ core[c].pc \in {"print", "boot_secondary_cores", "panic"} /\ irq[c].pc = None
    /\ kprintf
    /\ UNCHANGED <<vars, timer, irq, active, events>>

Expire(c) ==
    /\ timer[c] = "running" /\ events < MaxEvents
    /\ timer' = [timer EXCEPT ![c] = "expired"] /\ events' = events + 1
    /\ UNCHANGED <<vars, mis, irq, active>>

(* The GIC.  An SPI that is active on one core is signalled to none; and   *)
(* all have the same priority, so a core with one active gets no other.    *)
Asserted(c) ==
    {x \in gicr[c].enabled : x = TIMER /\ timer[c] = "expired"}
    \cup {x \in gicd.enabled : x = UART /\ c \in gicd.target /\ mis # {}
                               /\ \A d \in Core : active[d] # UART}

Signals(c) ==
    IF gicd.on /\ (board.version = "v3" => gicr[c].awake) /\ Forwards(c) /\ active[c] = None
    THEN Asserted(c) ELSE {}

-----------------------------------------------------------------------------
(* Mutated operations: the INTID of the timer is lost on the way from      *)
(* acknowledge to end; the handler prints under _print_lock; RX is served  *)
(* only when TX is not; the timer is not set again.                        *)
Goes(c, pc, intid) == irq' = [irq EXCEPT ![c].pc = pc, ![c].intid = intid]

irq_handler_LosesIntid(c) ==
    /\ irq[c].pc = "irq_handler"
    /\ kprintf
    /\ IF irq[c].intid = board.intid.uart
       THEN Goes(c, "mis", irq[c].intid) /\ UNCHANGED timer
       ELSE Goes(c, "end", 0) /\ timer' = [timer EXCEPT ![c] = IF @ = "expired" THEN "running" ELSE @]
    /\ UNCHANGED <<vars, active, events>>

acknowledge_interrupt_UnderLock(c) ==
    /\ irq[c].pc = "acknowledge" /\ _print_lock = {}
    /\ \/ \E x \in Signals(c) : /\ active' = [active EXCEPT ![c] = x]
                                /\ Goes(c, "irq_handler", IntId(x))
       \/ Signals(c) = {} /\ Goes(c, "irq_handler", Spurious) /\ UNCHANGED active
    /\ UNCHANGED <<vars, mis, timer, events>>

HandleTx_ElseRx(c) ==
    /\ irq[c].pc = "drain"
    /\ IF "tx" \in irq[c].mis THEN kprintf /\ Goes(c, "icr", irq[c].intid)
                              ELSE UNCHANGED mis /\ Goes(c, "read", irq[c].intid)

set_timer_Never(c) == UNCHANGED timer

-----------------------------------------------------------------------------
(* irq_entry on core c: the thread is suspended and IRQs are masked until  *)
(* eret.                                                                   *)
TakeIrq(c) ==
    /\ irq[c].pc = None /\ ~core[c].masked /\ Signals(c) # {}
    /\ Goes(c, "acknowledge", 0)
    /\ UNCHANGED <<vars, mis, timer, active, events>>

(* IAR: the INTID becomes active; 1023 if nothing is signalled any more.   *)
acknowledge_interrupt(c) ==
    /\ irq[c].pc = "acknowledge"
    /\ \/ \E x \in Signals(c) : /\ active' = [active EXCEPT ![c] = x]
                                /\ Goes(c, "irq_handler", IntId(x))
       \/ Signals(c) = {} /\ Goes(c, "irq_handler", Spurious) /\ UNCHANGED active
    /\ UNCHANGED <<vars, mis, timer, events>>

set_timer(c) == timer' = [timer EXCEPT ![c] = IF @ = "expired" THEN "running" ELSE @]

(* The handler prints, and then looks at the INTID: the timer's is the     *)
(* number 30.                                                              *)
irq_handler(c) ==
    /\ irq[c].pc = "irq_handler"
    /\ kprintf
    /\ LET intid == irq[c].intid
       IN  CASE intid \in {1022, 1023} -> Goes(c, "end", intid) /\ UNCHANGED timer
             [] intid = 30 -> Goes(c, "end", intid) /\ set_timer(c)
             [] intid = board.intid.uart -> Goes(c, "mis", intid) /\ UNCHANGED timer
             [] OTHER -> Goes(c, "end", intid) /\ UNCHANGED timer
    /\ UNCHANGED <<vars, active, events>>

(* pl011_handle_irq, one access to the device at a time: MIS is read, TX   *)
(* drains, RX reads DR, which takes the interrupt back, and prints, and    *)
(* ICR clears what MIS had at the start, whatever was raised since.        *)
ReadMIS(c) ==
    /\ irq[c].pc = "mis"
    /\ irq' = [irq EXCEPT ![c].pc = "drain", ![c].mis = mis]
    /\ UNCHANGED mis

HandleTx(c) ==
    /\ irq[c].pc = "drain"
    /\ IF "tx" \in irq[c].mis THEN kprintf ELSE UNCHANGED mis
    /\ Goes(c, "read", irq[c].intid)

HandleRx(c) ==
    /\ irq[c].pc = "read"
    /\ IF "rx" \in irq[c].mis THEN mis' \in {mis \ {"rx"}, {}} ELSE UNCHANGED mis
    /\ Goes(c, "icr", irq[c].intid)

ClearICR(c) ==
    /\ irq[c].pc = "icr"
    /\ mis' = mis \ irq[c].mis
    /\ irq' = [irq EXCEPT ![c].pc = "end", ![c].mis = {}]

pl011_handle_irq(c) ==
    /\ ReadMIS(c) \/ HandleTx(c) \/ HandleRx(c) \/ ClearICR(c)
    /\ UNCHANGED <<vars, timer, active, events>>

(* EOIR, and eret to the thread.  The special INTIDs are ignored.          *)
end_of_interrupt(c) ==
    /\ irq[c].pc = "end"
    /\ active' = [active EXCEPT ![c] = IF @ # None /\ IntId(@) = irq[c].intid THEN None ELSE @]
    /\ Goes(c, None, 0)
    /\ UNCHANGED <<vars, mis, timer, events>>

irq_entry(c) ==
    \/ TakeIrq(c) \/ acknowledge_interrupt(c) \/ irq_handler(c) \/ pl011_handle_irq(c)
    \/ end_of_interrupt(c)

Thread(c) == irq[c].pc = None /\ Step(c) /\ UNCHANGED irqvars

IrqNext ==
    \/ \E s \in {"tx", "rx"} : Raise(s)
    \/ \E c \in Core : Thread(c) \/ irq_entry(c) \/ ThreadPrints(c) \/ Expire(c)

(* Every core keeps executing, and takes an interrupt that stays signalled.*)
IrqSpec == /\ IrqInit /\ [][IrqNext]_allvars
           /\ \A c \in AnyCore : /\ WF_allvars(c \in Core /\ Thread(c))
                                 /\ WF_allvars(c \in Core /\ irq_entry(c))

-----------------------------------------------------------------------------
(* irq_entry hands the INTID through x0 from acknowledge_interrupt to      *)
(* irq_handler to end_of_interrupt: an interrupt is active on a core only  *)
(* while that core handles it under its own INTID, and the thread never    *)
(* goes on with one still active, spurious ones in between included.       *)
ActiveIsHandled ==
    \A c \in Core : active[c] # None =>
        irq[c].pc \in {"irq_handler", "mis", "drain", "read", "icr", "end"} /\ irq[c].intid = IntId(active[c])

(* The promise behind signal_irqs_ready, as far as the code keeps it.  An  *)
(* interrupt of the UART that is up once a core has set _irqs_ready gets   *)
(* its service in pl011_handle_irq, the read of DR or the drain, before it *)
(* is cleared, unless a kprintf drains first; whichever core printed and   *)
(* whatever the boot core does meanwhile (park, panic, hold _print_lock).  *)
(* Not so an interrupt that comes up between the read of MIS and the write *)
(* of ICR, which clears it unserved (InputIsSignalled of module Uart).     *)
Clearing == \E c \in Core : irq[c].pc \in {"drain", "read", "icr"}

Serves(c, s) == s \in irq[c].mis /\ irq[c].pc = IF s = "tx" THEN "drain" ELSE "read"

UartIsServed ==
    \A s \in {"tx", "rx"} :
        (_irqs_ready /\ s \in mis /\ ~Clearing)
            ~> ((\E c \in Core : Serves(c, s)) \/ (s = "tx" /\ "tx" \notin mis))

(* A timer that expires on a core where its PPI is enabled is set again by *)
(* Timer::set_timer on that core.                                          *)
TimerIsSetAgain ==
    \A c \in AnyCore :
        (c \in Core /\ timer[c] = "expired" /\ TIMER \in gicr[c].enabled /\ ~core[c].masked)
            ~> (c \in Core /\ timer[c] # "expired")

(* kernel.cpp sets the timer's interrupt up for every core: a timer that   *)
(* expires is set again on each core that runs.                            *)
TimerReachesEveryCore ==
    \A c \in AnyCore : (c \in Core /\ timer[c] = "expired" /\ ~core[c].masked)
                            ~> (c \in Core /\ timer[c] # "expired")
=============================================================================
