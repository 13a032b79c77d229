-------------------------------- MODULE Boot --------------------------------
(***************************************************************************)
(* SMP bring-up: start.S, kern_main and secondary_kern_main (kernel.cpp),  *)
(* CPU::boot_secondary_cores (cpu.cpp) with PSCI and spin tables, and what *)
(* the two GIC drivers set up on the way.  One core enters _start, builds  *)
(* what the cores share, and starts the others, which then run at the same *)
(* time as the rest of its loop.                                           *)
(***************************************************************************)
EXTENDS Integers, Sequences, FiniteSets

CONSTANTS Boards,       \* what the firmware and the device tree can present
          NCPUS         \* stacks that the linker script reserves

Method == {"PSCI", "SpinTable", "Unknown"}

(* The calls with an assertion about what the tree says: its nodes, a UART *)
(* clock, RAM and device regions that can be mapped, room for the reserved *)
(* regions, a GIC, interrupts of UART and timer, a CPU_ON function.        *)
Asserting == {"parse_frames", "uart_initialize", "setup_idmap_page_tables", "memory_init",
              "gic_initialize", "initialize_uart_interrupt", "initialize_timer_interrupt",
              "psci_boot_core"}

(* A board: its cpu nodes in tree order, with the MPIDR (_aff1, _aff0) and *)
(* the _enable_method of each; the node of the core that the firmware      *)
(* starts at _start, and the nodes of cores it may let in there as well;   *)
(* the GIC driver that the tree selects; the assertions the tree fails.    *)
ASSUME BoardsAssumption ==
    /\ NCPUS \in Nat \ {0}
    /\ \A b \in Boards :
          /\ b.boot \in DOMAIN b.cpus /\ b.cpus[b.boot]._aff0 = 0
          /\ b.stray \subseteq DOMAIN b.cpus \ {b.boot}
          /\ b.version \in {"v2", "v3"} /\ b.fails \subseteq Asserting
          /\ \A c \in DOMAIN b.cpus : /\ b.cpus[c]._aff0 \in Nat /\ b.cpus[c]._aff1 \in Nat
                                      /\ b.cpus[c]._enable_method \in Method

(* A board the kernel is written for: start.S takes Aff0 for the number of *)
(* a core, so no two cores may share it, there is a stack for each, and    *)
(* the boot core is the one with affinity 0.0.0.0, which gets the SPIs.    *)
GoodBoard(b) ==
    /\ \A c \in DOMAIN b.cpus : b.cpus[c]._aff0 < NCPUS
    /\ \A c, d \in DOMAIN b.cpus : c # d => b.cpus[c]._aff0 # b.cpus[d]._aff0
    /\ b.cpus[b.boot]._aff1 = 0

UART  == "uart"         \* an SPI, shared by the cores
TIMER == "timer"        \* a PPI, one per core
NoStack == -1

VARIABLES
    board,      \* the board this is, which never changes
    core,       \* per core: pc, which stack sp is in, and its own registers
    gicd,       \* the distributor: on, enabled SPIs, the cores they target
    gicr,       \* per core: redistributor awake (v3), enabled PPIs
    shared,     \* what kern_main has set up for everybody
    _irqs_ready, _print_lock,
    i,          \* boot_secondary_cores' loop index
    failed      \* the cores whose CPU_ON returned an error

vars == <<board, core, gicd, gicr, shared, _irqs_ready, _print_lock, i, failed>>

Cpus == board.cpus
Boot == board.boot
Core == DOMAIN Cpus

(* CPU::id, and what setup_stack multiplies STACK_SIZE by.                 *)
Id(c) == Cpus[c]._aff0

Cold == [pc |-> "held", stack |-> NoStack, vbar |-> FALSE,
         cpuif |-> {}, mmu |-> FALSE, masked |-> TRUE]

(* The firmware holds the other cores (off, or spinning on their release   *)
(* address) or lets some into _start as well; interrupts are masked.       *)
Init ==
    /\ board \in Boards
    /\ \E stray \in SUBSET board.stray :
          core = [c \in Core |-> [Cold EXCEPT !.pc = IF c \in stray \cup {Boot} THEN "_start"
                                                     ELSE "held"]]
    /\ gicd = [on |-> FALSE, enabled |-> {}, target |-> {}]
    /\ gicr = [c \in Core |-> [awake |-> FALSE, enabled |-> {}]]
    /\ shared = {}
    /\ _irqs_ready = FALSE
    /\ _print_lock = {}
    /\ i = 1
    /\ failed = {}

At(c, pc) == core[c].pc = pc
Passes(c, call) == At(c, call) /\ call \notin board.fails
Goto(c, pc) == core' = [core EXCEPT ![c].pc = pc]

-----------------------------------------------------------------------------
(* Mutated operations: the cores are started before the boot core has set  *)
(* the interrupts up; the redistributors are left asleep; the loop stops   *)
(* at the first error; the lock is kept.                                   *)
initialize_interrupts_Early(c) ==
    /\ At(c, "initialize_uart_interrupt")
    /\ Goto(c, "boot_secondary_cores")
    /\ UNCHANGED <<board, gicd, gicr, shared, _irqs_ready, _print_lock, i, failed>>

initialize_v3_LeftAsleep(c) ==
    /\ gicd' = [gicd EXCEPT !.on = TRUE]
    /\ UNCHANGED gicr

StartFailed_StopsLoop(c) ==
    /\ failed' = failed \cup {c}
    /\ core' = [core EXCEPT ![Boot].pc = "park"]

PrintRunning_KeepsLock(c) ==
    /\ At(c, "print")
    /\ Goto(c, IF c = Boot THEN "boot_secondary_cores" ELSE "park")
    /\ UNCHANGED <<board, gicd, gicr, shared, _irqs_ready, _print_lock, i, failed>>

-----------------------------------------------------------------------------
(* start.S.  sp = __stacks_bottom + (id + 1) * STACK_SIZE grows down into  *)
(* the stack of the core's id.                                             *)
setup_stack(c) == Id(c)

_start(c) ==
    /\ At(c, "_start")
    /\ core' = [core EXCEPT ![c] =
                  IF Id(c) # 0 THEN [@ EXCEPT !.pc = "park"]
                  ELSE [@ EXCEPT !.pc = "parse_frames", !.stack = setup_stack(c), !.vbar = TRUE]]
    /\ shared' = IF Id(c) # 0 THEN shared ELSE {"bss"}
    /\ UNCHANGED <<board, gicd, gicr, _irqs_ready, _print_lock, i, failed>>

_secondary_start(c) ==
    /\ At(c, "_secondary_start")
    /\ core' = [core EXCEPT ![c] = [@ EXCEPT !.pc = "initialize_core_specific",
                                             !.stack = setup_stack(c), !.vbar = TRUE]]
    /\ UNCHANGED <<board, gicd, gicr, shared, _irqs_ready, _print_lock, i, failed>>

-----------------------------------------------------------------------------
(* kern_main.  A tree that cannot be parsed sends the boot core to park.   *)
parse_frames(c) ==
    /\ Passes(c, "parse_frames")
    /\ \E status \in {"Ok", "error"} :
          Goto(c, IF status = "Ok" THEN "uart_initialize" ELSE "park")
    /\ UNCHANGED <<board, gicd, gicr, shared, _irqs_ready, _print_lock, i, failed>>

(* A failed assertion prints and does not return (report_error).           *)
report_error(c) ==
    /\ core[c].pc \in board.fails
    /\ Goto(c, "panic")
    /\ UNCHANGED <<board, gicd, gicr, shared, _irqs_ready, _print_lock, i, failed>>

(* UART::initialize and setup_idmap_page_tables, which ends with the boot  *)
(* core's MMU on, then Memory::init, whose lists are in module MemoryMap.  *)
SetUpMemory(c) ==
    /\ \/ /\ Passes(c, "uart_initialize")
          /\ shared' = shared \cup {"uart"}
          /\ Goto(c, "setup_idmap_page_tables")
       \/ /\ Passes(c, "setup_idmap_page_tables")
          /\ shared' = shared \cup {"tables"}
          /\ core' = [core EXCEPT ![c] = [@ EXCEPT !.pc = "memory_init", !.mmu = TRUE]]
       \/ Passes(c, "memory_init") /\ Goto(c, "gic_initialize") /\ UNCHANGED shared
    /\ UNCHANGED <<board, gicd, gicr, _irqs_ready, _print_lock, i, failed>>

(* GICDriver::initialize: v2 disables every interrupt (of the PPIs, those  *)
(* of this core), v3 wakes every redistributor.                            *)
initialize_v2(c) ==
    /\ gicd' = [gicd EXCEPT !.on = TRUE, !.enabled = {}]
    /\ gicr' = [gicr EXCEPT ![c].enabled = {}]

initialize_v3(c) ==
    /\ gicd' = [gicd EXCEPT !.on = TRUE]
    /\ gicr' = [d \in Core |-> [gicr[d] EXCEPT !.awake = TRUE]]

gic_initialize(c) ==
    /\ Passes(c, "gic_initialize")
    /\ IF board.version = "v2" THEN initialize_v2(c) ELSE initialize_v3(c)
    /\ Goto(c, "initialize_uart_interrupt")
    /\ UNCHANGED <<board, shared, _irqs_ready, _print_lock, i, failed>>

(* initialize_interrupt: an SPI is set up in the distributor, which v2     *)
(* makes target CPU interface 0 and v3 leaves at affinity 0.0.0.0; a PPI   *)
(* in the banked registers of this core (v2) or in every redistributor.    *)
FirstCore == {d \in Core : Id(d) = 0 /\ Cpus[d]._aff1 = 0}

initialize_interrupt_v2(c, id) ==
    \/ /\ id = UART
       /\ gicd' = [gicd EXCEPT !.enabled = @ \cup {id}, !.target = FirstCore]
       /\ UNCHANGED gicr
    \/ id = TIMER /\ gicr' = [gicr EXCEPT ![c].enabled = @ \cup {id}] /\ UNCHANGED gicd

initialize_interrupt_v3(c, id) ==
    \/ /\ id = UART
       /\ gicd' = [gicd EXCEPT !.enabled = @ \cup {id}, !.target = FirstCore]
       /\ UNCHANGED gicr
    \/ /\ id = TIMER
       /\ gicr' = [d \in Core |-> [gicr[d] EXCEPT !.enabled = @ \cup {id}]]
       /\ UNCHANGED gicd

initialize_interrupt(c, id) ==
    IF board.version = "v2" THEN initialize_interrupt_v2(c, id) ELSE initialize_interrupt_v3(c, id)

initialize_interrupts(c) ==
    /\ \/ /\ Passes(c, "initialize_uart_interrupt")
          /\ initialize_interrupt(c, UART)
          /\ Goto(c, "initialize_timer_interrupt")
       \/ /\ Passes(c, "initialize_timer_interrupt")
          /\ initialize_interrupt(c, TIMER)
          /\ Goto(c, "initialize_core_specific")
    /\ UNCHANGED <<board, shared, _irqs_ready, _print_lock, i, failed>>

-----------------------------------------------------------------------------
(* secondary_kern_main, on every core.  Its own GIC registers: v2 stores   *)
(* Enable to GICC_CTLR, which clears its other bits, then the priority     *)
(* mask, then ORs the group bit in; v3 has a system register for each.     *)
initialize_core_specific_v2(cpuif) ==
    (cpuif \ {"Enable", "EnableGrp1"}) \cup {"Enable", "PMR", "EnableGrp1"}

initialize_core_specific_v3(cpuif) == cpuif \cup {"SRE", "PMR", "IGRPEN1"}

InitializeCoreSpecific(c) ==
    /\ At(c, "initialize_core_specific")
    /\ LET cpuif == IF board.version = "v2" THEN initialize_core_specific_v2(core[c].cpuif)
                                            ELSE initialize_core_specific_v3(core[c].cpuif)
       IN  core' = [core EXCEPT ![c] = [@ EXCEPT !.pc = "setup_core_specific", !.cpuif = cpuif]]
    /\ UNCHANGED <<board, gicd, gicr, shared, _irqs_ready, _print_lock, i, failed>>

SetupCoreSpecific(c) ==
    /\ At(c, "setup_core_specific")
    /\ core' = [core EXCEPT ![c] = [@ EXCEPT !.pc = "unmask_irqs", !.mmu = TRUE]]
    /\ UNCHANGED <<board, gicd, gicr, shared, _irqs_ready, _print_lock, i, failed>>

UnmaskIrqs(c) ==
    /\ At(c, "unmask_irqs")
    /\ core' = [core EXCEPT ![c] = [@ EXCEPT !.pc = "signal_irqs_ready", !.masked = FALSE]]
    /\ UNCHANGED <<board, gicd, gicr, shared, _irqs_ready, _print_lock, i, failed>>

SignalIrqsReady(c) ==
    /\ At(c, "signal_irqs_ready")
    /\ _irqs_ready' = TRUE
    /\ Goto(c, "lock")
    /\ UNCHANGED <<board, gicd, gicr, shared, _print_lock, i, failed>>

TakePrintLock(c) ==
    /\ At(c, "lock")
    /\ _print_lock = {}
    /\ _print_lock' = {c}
    /\ Goto(c, "print")
    /\ UNCHANGED <<board, gicd, gicr, shared, _irqs_ready, i, failed>>

PrintRunning(c) ==
    /\ At(c, "print")
    /\ _print_lock' = {}
    /\ Goto(c, IF c = Boot THEN "boot_secondary_cores" ELSE "park")
    /\ UNCHANGED <<board, gicd, gicr, shared, _irqs_ready, i, failed>>

secondary_kern_main(c) ==
    \/ InitializeCoreSpecific(c) \/ SetupCoreSpecific(c) \/ UnmaskIrqs(c)
    \/ SignalIrqsReady(c) \/ TakePrintLock(c) \/ PrintRunning(c)

-----------------------------------------------------------------------------
(* boot_secondary_cores.  A core the firmware holds is released; CPU_ON    *)
(* may also fail, and must when the core is on already; then an error is   *)
(* printed and the loop goes on.  Writing the release address of a core    *)
(* that does not wait for it does nothing.  A node without enable method,  *)
(* or PSCI::boot_core without a CPU_ON function, is a panic.               *)
Start(c) ==
    /\ core' = [core EXCEPT ![c].pc = IF @ = "held" THEN "released" ELSE @]
    /\ UNCHANGED failed

StartFailed(c) ==
    /\ failed' = failed \cup {c}
    /\ UNCHANGED core

boot_secondary_cores ==
    /\ At(Boot, "boot_secondary_cores")
    /\ i < Len(Cpus)
    /\ LET c == i + 1           \* the node with index i, counted from 0
           method == Cpus[c]._enable_method
           psci == method = "PSCI" /\ "psci_boot_core" \notin board.fails
       IN  \/ psci /\ At(c, "held") /\ Start(c)
           \/ psci /\ StartFailed(c)
           \/ method = "SpinTable" /\ Start(c)
           \/ method # "SpinTable" /\ ~psci /\ Goto(Boot, "panic") /\ UNCHANGED failed
    /\ i' = i + 1
    /\ UNCHANGED <<board, gicd, gicr, shared, _irqs_ready, _print_lock>>

AllStarted ==
    /\ At(Boot, "boot_secondary_cores")
    /\ i >= Len(Cpus)
    /\ Goto(Boot, "park")
    /\ UNCHANGED <<board, gicd, gicr, shared, _irqs_ready, _print_lock, i, failed>>

(* The firmware sends a released core to the address it was given.         *)
Wake(c) ==
    /\ At(c, "released")
    /\ Goto(c, "_secondary_start")
    /\ UNCHANGED <<board, gicd, gicr, shared, _irqs_ready, _print_lock, i, failed>>

kern_main(c) ==
    \/ _start(c) \/ parse_frames(c) \/ SetUpMemory(c) \/ gic_initialize(c)
    \/ initialize_interrupts(c) \/ report_error(c)

Step(c) ==
    \/ kern_main(c)
    \/ _secondary_start(c)
    \/ secondary_kern_main(c)
    \/ Wake(c)
    \/ c = Boot /\ (boot_secondary_cores \/ AllStarted)

Next == \E c \in Core : Step(c)

(* Every core that has been started keeps executing.                       *)
AnyCore == UNION {DOMAIN b.cpus : b \in Boards}
Spec == /\ Init /\ [][Next]_vars
        /\ \A c \in AnyCore : WF_vars(c \in Core /\ Step(c))

-----------------------------------------------------------------------------
(* The CPU interface of core c lets interrupts of group 1 through.         *)
Forwards(c) ==
    (IF board.version = "v2" THEN {"Enable", "EnableGrp1"} ELSE {"SRE", "IGRPEN1"}) \cup {"PMR"}
        \subseteq core[c].cpuif

(* What a core needs is there when the core gets to it, although the boot  *)
(* core set it up: the globals, the page tables and the distributor before *)
(* a secondary core runs, and vectors, GIC and MMU before IRQs are let in. *)
RunsOnWhatIsSetUp ==
    \A c \in Core :
        /\ c # Boot /\ core[c].stack # NoStack =>
              {"bss", "uart", "tables"} \subseteq shared /\ gicd.on /\ UART \in gicd.enabled
        /\ ~core[c].masked => core[c].vbar /\ Forwards(c) /\ core[c].mmu

(* kernel.cpp: "Signal that IRQs for RX and TX is ready for at least one   *)
(* core".  Once _irqs_ready is set and kprintf relies on TX interrupts,    *)
(* some core receives them.                                                *)
Delivers(c) ==
    /\ gicd.on /\ UART \in gicd.enabled /\ c \in gicd.target
    /\ board.version = "v3" => gicr[c].awake
    /\ Forwards(c) /\ ~core[c].masked

IrqsReadyIsTrue == _irqs_ready => \E c \in Core : Delivers(c)

(* Every core that boot_secondary_cores released gets through its setup,   *)
(* prints and parks, whatever becomes of the boot core meanwhile.          *)
ReleasedCoresRun ==
    \A c \in AnyCore : (c \in Core /\ At(c, "released")) ~> (c \in Core /\ At(c, "park"))

(* cpu.cpp: "Loop over all the secondary cores and boot them up, which are *)
(* all cores except the first one (id 0)".  Once the loop is entered every *)
(* core parks in the end, except those whose CPU_ON failed, unless a node  *)
(* without enable method, or a tree without CPU_ON function, makes the     *)
(* boot core panic.                                                        *)
AllCoresBoot ==
    At(Boot, "boot_secondary_cores") ~>
        (At(Boot, "panic") \/ \A c \in Core : At(c, "park") \/ c \in failed)
-----------------------------------------------------------------------------
(* start.S: "Sets up the stack for a specific CPU core".  No two cores     *)
(* that execute C++ share a stack, and every stack is one of the NCPUS the *)
(* linker script reserves.  Only the board can see to that: the kernel     *)
(* records up to 16 cpu nodes and starts each on the stack of its Aff0.    *)
StacksAreSeparate ==
    \A c \in Core : core[c].stack # NoStack =>
        /\ core[c].stack < NCPUS
        /\ \A d \in Core \ {c} : core[d].stack # core[c].stack
=============================================================================
