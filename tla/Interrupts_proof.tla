-------------------------- MODULE Interrupts_proof --------------------------
(***************************************************************************)
(* Proofs about Boot and Interrupts, for boards with any number of cores   *)
(* of either kind, whatever assertions its tree fails: a core finds set up *)
(* what it needs, and a core that signals IRQs ready is right.  Interrupts *)
(* between the steps of the boot add nothing that module Boot does not     *)
(* allow, so what is proved of it holds with them too; and the thread      *)
(* never resumes with one still active.                                    *)
(***************************************************************************)
EXTENDS Interrupts, TLAPS

(* Where a core is: in the part of kern_main that sets up what is shared,  *)
(* or past a step of secondary_kern_main.                                  *)
SettingUp == {"_start", "parse_frames", "uart_initialize", "setup_idmap_page_tables", "memory_init",
              "gic_initialize", "initialize_uart_interrupt", "initialize_timer_interrupt"}
Unmasked  == {"signal_irqs_ready", "lock", "print"}
PastMmu   == {"unmask_irqs"} \cup Unmasked
PastGic   == {"setup_core_specific"} \cup PastMmu
OnItsOwn  == {"initialize_core_specific"} \cup PastGic
Started   == {"released", "_secondary_start"} \cup OnItsOwn

Pcs       == {"held", "boot_secondary_cores", "park", "panic"} \cup SettingUp \cup Started

Flags == {"Enable", "EnableGrp1", "PMR", "SRE", "IGRPEN1"}

CoreRec == [pc : Pcs, stack : Int, vbar : BOOLEAN, cpuif : SUBSET Flags,
            mmu : BOOLEAN, masked : BOOLEAN]

TypeOK ==
    /\ board \in Boards
    /\ core \in [Core -> CoreRec]
    /\ gicd \in [on : BOOLEAN, enabled : SUBSET {UART, TIMER}, target : SUBSET Core]
    /\ gicr \in [Core -> [awake : BOOLEAN, enabled : SUBSET {UART, TIMER}]]
    /\ shared \in SUBSET {"bss", "uart", "tables"}
    /\ _irqs_ready \in BOOLEAN

(* The boot core has set up what is shared; and it takes IRQs itself.      *)
SetUp ==
    /\ {"bss", "uart", "tables"} \subseteq shared
    /\ gicd.on /\ UART \in gicd.enabled /\ Boot \in gicd.target
    /\ board.version = "v3" => gicr[Boot].awake

LetsIn(cpuif) ==
    (IF board.version = "v2" THEN {"Enable", "EnableGrp1"} ELSE {"SRE", "IGRPEN1"}) \cup {"PMR"}
        \subseteq cpuif

Ready == SetUp /\ LetsIn(core[Boot].cpuif) /\ ~core[Boot].masked

(* What holds of core c when its record is r, and what of the boot core.   *)
CoreOK(c, r) ==
    /\ r.pc \in (SettingUp \ {"_start"}) \cup OnItsOwn => r.vbar
    /\ r.pc \in PastGic => LetsIn(r.cpuif)
    /\ r.pc \in PastMmu => r.mmu
    /\ ~r.masked => r.vbar /\ LetsIn(r.cpuif) /\ r.mmu
    /\ c # Boot => r.pc \in {"held", "_start", "park"} \cup Started
    /\ c # Boot /\ (r.pc \in Started \/ r.stack # NoStack) => Ready

BootOK(r) ==
    /\ r.pc \in SettingUp \cup OnItsOwn \cup {"boot_secondary_cores", "park", "panic"}
    /\ r.pc \in SettingUp => r.masked
    /\ r.pc \in SettingUp \ {"_start"} => "bss" \in shared
    /\ r.pc = "setup_idmap_page_tables" => "uart" \in shared
    /\ r.pc \in {"memory_init", "gic_initialize", "initialize_uart_interrupt"} =>
          {"uart", "tables"} \subseteq shared
    /\ r.pc = "initialize_uart_interrupt" => gicd.on /\ (board.version = "v3" => gicr[Boot].awake)
    /\ r.pc \in {"initialize_timer_interrupt"} \cup OnItsOwn => SetUp
    /\ r.pc \in Unmasked => ~r.masked
    /\ r.pc = "boot_secondary_cores" => SetUp /\ LetsIn(r.cpuif) /\ ~r.masked

IInv == /\ TypeOK /\ BootOK(core[Boot]) /\ (_irqs_ready => Ready)
        /\ \A c \in Core : CoreOK(c, core[c])

LEMMA BoardFacts ==
    ASSUME \A b \in Boards : GoodBoard(b), TypeOK
    PROVE  /\ Boot \in Core /\ Id(Boot) = 0 /\ Boot \in FirstCore /\ FirstCore \subseteq Core
           /\ \A c \in Core : Id(c) \in Nat /\ (c # Boot => Id(c) # 0)
           /\ board.version \in {"v2", "v3"} /\ board.fails \subseteq Asserting
BY BoardsAssumption DEF TypeOK, GoodBoard, Boot, Core, Id, Cpus, FirstCore

(* Moving on keeps a core one.                                             *)
LEMMA PcType ==
    ASSUME NEW r \in CoreRec, NEW q \in Pcs
    PROVE  [r EXCEPT !.pc = q] \in CoreRec
BY Zenon DEF CoreRec

LEMMA InitIInv ==
    ASSUME \A b \in Boards : GoodBoard(b)
    PROVE  Init => IInv
<1> SUFFICES ASSUME Init PROVE IInv
  OBVIOUS
<1>1. PICK stray \in SUBSET board.stray :
          core = [c \in Core |-> [Cold EXCEPT !.pc = IF c \in stray \cup {Boot} THEN "_start"
                                                     ELSE "held"]]
  BY DEF Init
<1>2. TypeOK
  <2>1. Cold \in CoreRec
    BY DEF Cold, NoStack, CoreRec, Pcs
  <2>2. \A c \in Core : (IF c \in stray \cup {Boot} THEN "_start" ELSE "held") \in Pcs
    BY DEF Pcs, SettingUp
  <2>3. core \in [Core -> CoreRec]
    BY <1>1, <2>1, <2>2, PcType
  <2> QED BY <2>3 DEF Init, TypeOK
<1>3. \A c \in Core : /\ core[c].pc \in {"_start", "held"} /\ (c = Boot => core[c].pc = "_start")
                      /\ core[c].stack = NoStack /\ core[c].masked
  BY <1>1 DEF Cold
<1>4. Boot \in Core /\ _irqs_ready = FALSE
  BY <1>2, BoardFacts DEF Init
<1>5. {"_start", "held"} \cap (OnItsOwn \cup PastGic \cup PastMmu \cup Unmasked \cup Started) = {}
      /\ "_start" \in SettingUp /\ "held" \notin SettingUp
  BY DEF SettingUp, OnItsOwn, PastGic, PastMmu, Unmasked, Started
<1>6. BootOK(core[Boot])
  BY <1>3, <1>4, <1>5 DEF BootOK
<1>7. ASSUME NEW c \in Core PROVE CoreOK(c, core[c])
  BY <1>3, <1>5 DEF CoreOK
<1> QED BY <1>2, <1>4, <1>6, <1>7 DEF IInv

-----------------------------------------------------------------------------
(* A step that gives core c the record r and changes nothing that is       *)
(* shared.  As no interrupt is closed off, Ready stays true; so it is      *)
(* enough to look at r.                                                    *)
LEMMA OneCore ==
    ASSUME IInv, NEW c \in Core, NEW r \in CoreRec, core' = [core EXCEPT ![c] = r],
           UNCHANGED <<board, gicd, gicr, shared>>, _irqs_ready' \in BOOLEAN,
           core[c].cpuif \subseteq r.cpuif, core[c].masked \/ ~r.masked,
           CoreOK(c, r), c = Boot => BootOK(r), _irqs_ready' => Ready
    PROVE  IInv'
<1>1. Core' = Core /\ Boot' = Boot /\ \A d \in Core : Id(d)' = Id(d)
  BY DEF Core, Boot, Cpus, Id
<1>2. core \in [Core -> CoreRec] /\ Boot \in Core
  BY BoardsAssumption DEF IInv, TypeOK, Boot, Core, Cpus
<1>3. core' \in [Core -> CoreRec] /\ core'[c] = r /\ \A d \in Core \ {c} : core'[d] = core[d]
  BY <1>2
<1>4. TypeOK'
  BY <1>1, <1>3 DEF IInv, TypeOK
<1>5. SetUp' <=> SetUp
  BY <1>1 DEF SetUp
<1>6. Ready => Ready'
  BY <1>1, <1>2, <1>3, <1>5 DEF Ready, LetsIn
<1>7. ASSUME NEW d \in Core PROVE CoreOK(d, core[d])'
  <2>1. CoreOK(d, core'[d])
    BY <1>3 DEF IInv
  <2> QED BY <1>1, <1>6, <2>1 DEF CoreOK, LetsIn
<1>8. BootOK(core[Boot])'
  <2>1. BootOK(core'[Boot])
    BY <1>2, <1>3 DEF IInv
  <2> QED BY <1>1, <1>5, <2>1 DEF BootOK, LetsIn
<1> QED BY <1>1, <1>4, <1>6, <1>7, <1>8 DEF IInv

(* A step of the boot core while it sets up what is shared: no other core  *)
(* runs yet that could miss it.                                            *)
LEMMA BootAlone ==
    ASSUME \A b \in Boards : GoodBoard(b), IInv, core[Boot].pc \in SettingUp,
           NEW r \in CoreRec, core' = [core EXCEPT ![Boot] = r], UNCHANGED <<board, _irqs_ready>>,
           gicd' \in [on : BOOLEAN, enabled : SUBSET {UART, TIMER}, target : SUBSET Core],
           gicr' \in [Core -> [awake : BOOLEAN, enabled : SUBSET {UART, TIMER}]],
           shared' \in SUBSET {"bss", "uart", "tables"},
           CoreOK(Boot, r), BootOK(r)'
    PROVE  IInv'
<1>1. Core' = Core /\ Boot' = Boot /\ \A d \in Core : Id(d)' = Id(d)
  BY DEF Core, Boot, Cpus, Id
<1>2. /\ Boot \in Core /\ core \in [Core -> CoreRec]
      /\ BootOK(core[Boot]) /\ (_irqs_ready => Ready)
  BY BoardFacts DEF IInv, TypeOK
<1>3. core' \in [Core -> CoreRec] /\ core'[Boot] = r /\ \A d \in Core \ {Boot} : core'[d] = core[d]
  BY <1>2
<1>4. ~Ready
  BY <1>2 DEF BootOK, Ready
<1>5. TypeOK'
  BY <1>1, <1>3 DEF IInv, TypeOK
<1>6. ASSUME NEW d \in Core PROVE CoreOK(d, core[d])'
  <2>1. CoreOK(d, core'[d])
    BY <1>3 DEF IInv
  <2> QED BY <1>1, <1>4, <2>1 DEF CoreOK, LetsIn
<1>7. BootOK(core[Boot])'
  BY <1>1, <1>3 DEF BootOK, SetUp, LetsIn
<1> QED BY <1>1, <1>2, <1>4, <1>5, <1>6, <1>7 DEF IInv

(* Wake, parse_frames, report_error, _secondary_start and                  *)
(* secondary_kern_main, which change nothing that is shared.               *)
LEMMA SecondaryIInv ==
    ASSUME \A b \in Boards : GoodBoard(b), IInv, NEW c \in Core,
           \/ Wake(c) \/ parse_frames(c) \/ report_error(c)
           \/ _secondary_start(c) \/ secondary_kern_main(c)
    PROVE  IInv'
<1>0. /\ core \in [Core -> CoreRec] /\ core[c] \in CoreRec /\ Id(c) \in Int
      /\ CoreOK(c, core[c]) /\ (c = Boot => BootOK(core[c])) /\ (_irqs_ready => Ready)
      /\ UNCHANGED <<board, gicd, gicr, shared>> /\ _irqs_ready \in BOOLEAN
  <2>1. UNCHANGED <<board, gicd, gicr, shared>>
    BY DEF Wake, parse_frames, report_error, _secondary_start, secondary_kern_main, InitializeCoreSpecific,
           SetupCoreSpecific, UnmaskIrqs, SignalIrqsReady, TakePrintLock, PrintRunning
  <2>2. Id(c) \in Nat
    BY BoardFacts DEF IInv
  <2> QED BY <2>1, <2>2 DEF IInv, TypeOK
<1>1. CASE _secondary_start(c)
  <2> DEFINE r == [core[c] EXCEPT !.pc = "initialize_core_specific", !.stack = Id(c), !.vbar = TRUE]
  <2>1. core' = [core EXCEPT ![c] = r] /\ core[c].pc = "_secondary_start" /\ _irqs_ready' = _irqs_ready
    BY <1>0, <1>1 DEF _secondary_start, At, Goto, setup_stack
  <2>2. r \in CoreRec
    BY <1>0 DEF CoreRec, Pcs, SettingUp, OnItsOwn, PastGic, PastMmu, Unmasked, Started
  <2>3. /\ r.pc = "initialize_core_specific" /\ r.stack = Id(c) /\ r.vbar /\ r.mmu = core[c].mmu
        /\ r.cpuif = core[c].cpuif /\ r.masked = core[c].masked
    BY <1>0 DEF CoreRec
  <2> HIDE DEF r
  <2>4. CoreOK(c, r) /\ (c = Boot => BootOK(r)) /\ (_irqs_ready' => Ready)
    BY <1>0, <2>1, <2>3 DEF CoreOK, BootOK, Ready, SettingUp, OnItsOwn, PastGic, PastMmu, Unmasked, Started
  <2>5. core[c].cpuif \subseteq r.cpuif /\ (core[c].masked \/ ~r.masked)
    BY <1>0, <2>3 DEF CoreRec
  <2> QED BY <1>0, <2>1, <2>2, <2>4, <2>5, OneCore
<1>2. CASE InitializeCoreSpecific(c)
  <2> DEFINE r == [core[c] EXCEPT !.pc = "setup_core_specific",
                           !.cpuif = IF board.version = "v2" THEN initialize_core_specific_v2(core[c].cpuif)
                                     ELSE initialize_core_specific_v3(core[c].cpuif)]
  <2>1. core' = [core EXCEPT ![c] = r] /\ core[c].pc = "initialize_core_specific" /\ _irqs_ready' = _irqs_ready
    BY <1>0, <1>2 DEF InitializeCoreSpecific, At, Goto
  <2>2. r \in CoreRec
    BY <1>0 DEF CoreRec, Pcs, SettingUp, OnItsOwn, PastGic, PastMmu, Unmasked, Started, initialize_core_specific_v2, initialize_core_specific_v3, Flags
  <2>3. /\ r.pc = "setup_core_specific" /\ LetsIn(r.cpuif) /\ r.masked = core[c].masked
        /\ r.stack = core[c].stack /\ r.vbar = core[c].vbar /\ r.mmu = core[c].mmu
        /\ core[c].cpuif \subseteq r.cpuif
    BY <1>0 DEF CoreRec, initialize_core_specific_v2, initialize_core_specific_v3, LetsIn
  <2> HIDE DEF r
  <2>4. CoreOK(c, r) /\ (c = Boot => BootOK(r)) /\ (_irqs_ready' => Ready)
    BY <1>0, <2>1, <2>3 DEF CoreOK, BootOK, Ready, SettingUp, OnItsOwn, PastGic, PastMmu, Unmasked, Started
  <2>5. core[c].cpuif \subseteq r.cpuif /\ (core[c].masked \/ ~r.masked)
    BY <1>0, <2>3 DEF CoreRec
  <2> QED BY <1>0, <2>1, <2>2, <2>4, <2>5, OneCore
<1>3. CASE SetupCoreSpecific(c)
  <2> DEFINE r == [core[c] EXCEPT !.pc = "unmask_irqs", !.mmu = TRUE]
  <2>1. core' = [core EXCEPT ![c] = r] /\ core[c].pc = "setup_core_specific" /\ _irqs_ready' = _irqs_ready
    BY <1>0, <1>3 DEF SetupCoreSpecific, At, Goto
  <2>2. r \in CoreRec
    BY <1>0 DEF CoreRec, Pcs, SettingUp, OnItsOwn, PastGic, PastMmu, Unmasked, Started
  <2>3. /\ r.pc = "unmask_irqs" /\ r.mmu /\ r.stack = core[c].stack /\ r.vbar = core[c].vbar
        /\ r.cpuif = core[c].cpuif /\ r.masked = core[c].masked
    BY <1>0 DEF CoreRec
  <2> HIDE DEF r
  <2>4. CoreOK(c, r) /\ (c = Boot => BootOK(r)) /\ (_irqs_ready' => Ready)
    BY <1>0, <2>1, <2>3 DEF CoreOK, BootOK, Ready, SettingUp, OnItsOwn, PastGic, PastMmu, Unmasked, Started
  <2>5. core[c].cpuif \subseteq r.cpuif /\ (core[c].masked \/ ~r.masked)
    BY <1>0, <2>3 DEF CoreRec
  <2> QED BY <1>0, <2>1, <2>2, <2>4, <2>5, OneCore
<1>4. CASE UnmaskIrqs(c)
  <2> DEFINE r == [core[c] EXCEPT !.pc = "signal_irqs_ready", !.masked = FALSE]
  <2>1. core' = [core EXCEPT ![c] = r] /\ core[c].pc = "unmask_irqs" /\ _irqs_ready' = _irqs_ready
    BY <1>0, <1>4 DEF UnmaskIrqs, At, Goto
  <2>2. r \in CoreRec
    BY <1>0 DEF CoreRec, Pcs, SettingUp, OnItsOwn, PastGic, PastMmu, Unmasked, Started
  <2>3. /\ r.pc = "signal_irqs_ready" /\ ~r.masked /\ r.cpuif = core[c].cpuif
        /\ r.stack = core[c].stack /\ r.vbar = core[c].vbar /\ r.mmu = core[c].mmu
    BY <1>0 DEF CoreRec
  <2> HIDE DEF r
  <2>4. CoreOK(c, r) /\ (c = Boot => BootOK(r)) /\ (_irqs_ready' => Ready)
    BY <1>0, <2>1, <2>3 DEF CoreOK, BootOK, Ready, SettingUp, OnItsOwn, PastGic, PastMmu, Unmasked, Started
  <2>5. core[c].cpuif \subseteq r.cpuif /\ (core[c].masked \/ ~r.masked)
    BY <1>0, <2>3 DEF CoreRec
  <2> QED BY <1>0, <2>1, <2>2, <2>4, <2>5, OneCore
<1>5. CASE SignalIrqsReady(c)
  <2> DEFINE r == [core[c] EXCEPT !.pc = "lock"]
  <2>1. core' = [core EXCEPT ![c] = r] /\ core[c].pc = "signal_irqs_ready" /\ _irqs_ready' = TRUE
    BY <1>0, <1>5 DEF SignalIrqsReady, At, Goto
  <2>2. r \in CoreRec
    BY <1>0 DEF CoreRec, Pcs, SettingUp, OnItsOwn, PastGic, PastMmu, Unmasked, Started
  <2>3. /\ r.pc = "lock" /\ r.cpuif = core[c].cpuif /\ r.masked = core[c].masked
        /\ r.stack = core[c].stack /\ r.vbar = core[c].vbar /\ r.mmu = core[c].mmu
    BY <1>0 DEF CoreRec
  <2> HIDE DEF r
  <2>4. CoreOK(c, r) /\ (c = Boot => BootOK(r)) /\ (_irqs_ready' => Ready)
    BY <1>0, <2>1, <2>3 DEF CoreOK, BootOK, Ready, SettingUp, OnItsOwn, PastGic, PastMmu, Unmasked, Started
  <2>5. core[c].cpuif \subseteq r.cpuif /\ (core[c].masked \/ ~r.masked)
    BY <1>0, <2>3 DEF CoreRec
  <2> QED BY <1>0, <2>1, <2>2, <2>4, <2>5, OneCore
<1>6. CASE TakePrintLock(c)
  <2> DEFINE r == [core[c] EXCEPT !.pc = "print"]
  <2>1. core' = [core EXCEPT ![c] = r] /\ core[c].pc = "lock" /\ _irqs_ready' = _irqs_ready
    BY <1>0, <1>6 DEF TakePrintLock, At, Goto
  <2>2. r \in CoreRec
    BY <1>0 DEF CoreRec, Pcs, SettingUp, OnItsOwn, PastGic, PastMmu, Unmasked, Started
  <2>3. /\ r.pc = "print" /\ r.cpuif = core[c].cpuif /\ r.masked = core[c].masked
        /\ r.stack = core[c].stack /\ r.vbar = core[c].vbar /\ r.mmu = core[c].mmu
    BY <1>0 DEF CoreRec
  <2> HIDE DEF r
  <2>4. CoreOK(c, r) /\ (c = Boot => BootOK(r)) /\ (_irqs_ready' => Ready)
    BY <1>0, <2>1, <2>3 DEF CoreOK, BootOK, Ready, SettingUp, OnItsOwn, PastGic, PastMmu, Unmasked, Started
  <2>5. core[c].cpuif \subseteq r.cpuif /\ (core[c].masked \/ ~r.masked)
    BY <1>0, <2>3 DEF CoreRec
  <2> QED BY <1>0, <2>1, <2>2, <2>4, <2>5, OneCore
<1>7. CASE PrintRunning(c)
  <2> DEFINE r == [core[c] EXCEPT !.pc = IF c = Boot THEN "boot_secondary_cores" ELSE "park"]
  <2>1. core' = [core EXCEPT ![c] = r] /\ core[c].pc = "print" /\ _irqs_ready' = _irqs_ready
    BY <1>0, <1>7 DEF PrintRunning, At, Goto
  <2>2. r \in CoreRec
    BY <1>0 DEF CoreRec, Pcs, SettingUp, OnItsOwn, PastGic, PastMmu, Unmasked, Started
  <2>3. /\ r.pc = (IF c = Boot THEN "boot_secondary_cores" ELSE "park") /\ r.cpuif = core[c].cpuif /\ r.masked = core[c].masked
        /\ r.stack = core[c].stack /\ r.vbar = core[c].vbar /\ r.mmu = core[c].mmu
    BY <1>0 DEF CoreRec
  <2> HIDE DEF r
  <2>4. CoreOK(c, r) /\ (c = Boot => BootOK(r)) /\ (_irqs_ready' => Ready)
    BY <1>0, <2>1, <2>3 DEF CoreOK, BootOK, Ready, SettingUp, OnItsOwn, PastGic, PastMmu, Unmasked, Started
  <2>5. core[c].cpuif \subseteq r.cpuif /\ (core[c].masked \/ ~r.masked)
    BY <1>0, <2>3 DEF CoreRec
  <2> QED BY <1>0, <2>1, <2>2, <2>4, <2>5, OneCore
<1>8. CASE Wake(c)
  <2> DEFINE r == [core[c] EXCEPT !.pc = "_secondary_start"]
  <2>1. core' = [core EXCEPT ![c] = r] /\ core[c].pc = "released" /\ _irqs_ready' = _irqs_ready
    BY <1>0, <1>8 DEF Wake, At, Goto
  <2>2. r \in CoreRec
    BY <1>0 DEF CoreRec, Pcs, SettingUp, OnItsOwn, PastGic, PastMmu, Unmasked, Started
  <2>3. /\ r.pc = "_secondary_start" /\ r.cpuif = core[c].cpuif /\ r.masked = core[c].masked
        /\ r.stack = core[c].stack /\ r.vbar = core[c].vbar /\ r.mmu = core[c].mmu
    BY <1>0 DEF CoreRec
  <2> HIDE DEF r
  <2>4. CoreOK(c, r) /\ (c = Boot => BootOK(r)) /\ (_irqs_ready' => Ready)
    BY <1>0, <2>1, <2>3 DEF CoreOK, BootOK, Ready, SettingUp, OnItsOwn, PastGic, PastMmu, Unmasked, Started
  <2>5. core[c].cpuif \subseteq r.cpuif /\ (core[c].masked \/ ~r.masked)
    BY <1>0, <2>3 DEF CoreRec
  <2> QED BY <1>0, <2>1, <2>2, <2>4, <2>5, OneCore
<1>9. CASE parse_frames(c)
  <2>0. PICK q \in {"uart_initialize", "park"} : core' = [core EXCEPT ![c].pc = q]
    BY <1>9 DEF parse_frames, Goto
  <2> DEFINE r == [core[c] EXCEPT !.pc = q]
  <2>1. core' = [core EXCEPT ![c] = r] /\ core[c].pc = "parse_frames" /\ _irqs_ready' = _irqs_ready
    BY <1>0, <1>9, <2>0 DEF parse_frames, Passes, At, Goto
  <2>2. r \in CoreRec
    BY <1>0 DEF CoreRec, Pcs, SettingUp, OnItsOwn, PastGic, PastMmu, Unmasked, Started
  <2>3. /\ r.pc = q /\ r.cpuif = core[c].cpuif /\ r.masked = core[c].masked
        /\ r.stack = core[c].stack /\ r.vbar = core[c].vbar /\ r.mmu = core[c].mmu
    BY <1>0 DEF CoreRec
  <2> HIDE DEF r
  <2>4. CoreOK(c, r) /\ (c = Boot => BootOK(r)) /\ (_irqs_ready' => Ready)
    BY <1>0, <2>1, <2>3 DEF CoreOK, BootOK, Ready, SettingUp, OnItsOwn, PastGic, PastMmu, Unmasked, Started
  <2>5. core[c].cpuif \subseteq r.cpuif /\ (core[c].masked \/ ~r.masked)
    BY <1>0, <2>3 DEF CoreRec
  <2> QED BY <1>0, <2>1, <2>2, <2>4, <2>5, OneCore
<1>10. CASE report_error(c)
  <2> DEFINE r == [core[c] EXCEPT !.pc = "panic"]
  <2>0. core[c].pc \in Asserting /\ "psci_boot_core" \notin Pcs /\ core[c].pc \in Pcs
    <3>1. core[c].pc \in board.fails /\ board.fails \subseteq Asserting
      BY <1>10, BoardFacts DEF report_error, IInv
    <3> QED BY <1>0, <3>1 DEF CoreRec, Pcs, SettingUp, OnItsOwn, PastGic, PastMmu, Unmasked, Started
  <2>1. core' = [core EXCEPT ![c] = r] /\ core[c].pc \in SettingUp /\ _irqs_ready' = _irqs_ready
    BY <1>0, <1>10, <2>0 DEF report_error, Goto, Asserting, SettingUp
  <2>2. r \in CoreRec
    BY <1>0 DEF CoreRec, Pcs
  <2>3. /\ r.pc = "panic" /\ r.cpuif = core[c].cpuif /\ r.masked = core[c].masked
        /\ r.stack = core[c].stack /\ r.vbar = core[c].vbar /\ r.mmu = core[c].mmu
    BY <1>0 DEF CoreRec
  <2> HIDE DEF r
  <2>4. CoreOK(c, r) /\ (c = Boot => BootOK(r)) /\ (_irqs_ready' => Ready)
    <3>1. c = Boot
      BY <1>0, <2>0, <2>1 DEF CoreOK, Asserting, OnItsOwn, PastGic, PastMmu, Unmasked, Started
    <3> QED BY <1>0, <2>1, <2>3, <3>1 DEF CoreOK, BootOK, SettingUp, OnItsOwn, PastGic, PastMmu, Unmasked, Started
  <2>5. core[c].cpuif \subseteq r.cpuif /\ (core[c].masked \/ ~r.masked)
    BY <1>0, <2>3 DEF CoreRec
  <2> QED BY <1>0, <2>1, <2>2, <2>4, <2>5, OneCore
<1> QED BY <1>1, <1>2, <1>3, <1>4, <1>5, <1>6, <1>7, <1>8, <1>9, <1>10 DEF secondary_kern_main

(* The loop of boot_secondary_cores: a core is released only once the boot *)
(* core is Ready.                                                          *)
LEMMA LoopIInv ==
    ASSUME \A b \in Boards : GoodBoard(b), IInv, boot_secondary_cores \/ AllStarted
    PROVE  IInv'
<1>0. /\ core[Boot].pc = "boot_secondary_cores" /\ UNCHANGED <<board, gicd, gicr, shared, _irqs_ready>>
  BY DEF boot_secondary_cores, AllStarted, At
<1>1. /\ Boot \in Core /\ BootOK(core[Boot]) /\ Ready
      /\ core \in [Core -> CoreRec] /\ _irqs_ready \in BOOLEAN
  BY <1>0, BoardFacts DEF IInv, TypeOK, BootOK, Ready
<1>2. ASSUME NEW k \in Core, NEW q \in Pcs, core' = [core EXCEPT ![k].pc = q],
             \/ k = Boot /\ q \in {"boot_secondary_cores", "park", "panic"}
             \/ k # Boot /\ q \in {core[k].pc, "released"}
      PROVE  IInv'
  <2> DEFINE r == [core[k] EXCEPT !.pc = q]
  <2>1. core[k] \in CoreRec /\ CoreOK(k, core[k])
    BY <1>1 DEF IInv
  <2>2. r \in CoreRec /\ core' = [core EXCEPT ![k] = r]
    BY <1>2, <2>1, PcType
  <2>3. /\ r.pc = q /\ r.cpuif = core[k].cpuif /\ r.masked = core[k].masked
        /\ r.stack = core[k].stack /\ r.vbar = core[k].vbar /\ r.mmu = core[k].mmu
    BY <2>1 DEF CoreRec
  <2> HIDE DEF r
  <2>4. CoreOK(k, r) /\ (k = Boot => BootOK(r))
    BY <1>0, <1>1, <1>2, <2>1, <2>3 DEF CoreOK, BootOK, SettingUp, OnItsOwn, PastGic, PastMmu, Unmasked, Started
  <2>5. core[k].cpuif \subseteq r.cpuif /\ (core[k].masked \/ ~r.masked)
    BY <2>1, <2>3 DEF CoreRec
  <2> QED BY <1>0, <1>1, <2>2, <2>4, <2>5, OneCore
<1>3. ASSUME NEW q \in {"boot_secondary_cores", "park", "panic"}, core' = [core EXCEPT ![Boot].pc = q]
      PROVE  IInv'
  <2>1. q \in Pcs
    BY DEF Pcs
  <2> QED BY <1>1, <1>2, <1>3, <2>1
<1>4. CASE UNCHANGED core
  <2>1. core' = [core EXCEPT ![Boot].pc = core[Boot].pc]
    BY <1>1, <1>4 DEF CoreRec
  <2> QED BY <1>0, <1>3, <2>1
<1>5. ASSUME NEW k, Start(k) PROVE IInv'
  <2>1. CASE k \in Core
    <3> DEFINE q == IF core[k].pc = "held" THEN "released" ELSE core[k].pc
    <3>1. q \in Pcs /\ core' = [core EXCEPT ![k].pc = q]
      BY <1>1, <1>5, <2>1 DEF Start, CoreRec, Pcs, Started
    <3>2. \/ k = Boot /\ q \in {"boot_secondary_cores", "park", "panic"}
          \/ k # Boot /\ q \in {core[k].pc, "released"}
      BY <1>0
    <3> HIDE DEF q
    <3> QED BY <1>2, <2>1, <3>1, <3>2
  <2>2. CASE k \notin Core
    <3>1. core' = core
      BY <1>1, <1>5, <2>2 DEF Start
    <3> QED BY <1>4, <3>1
  <2> QED BY <2>1, <2>2
<1> QED BY <1>3, <1>4, <1>5 DEF boot_secondary_cores, AllStarted, StartFailed, Goto

(* The boot core on its way through _start and kern_main.                  *)
LEMMA SetupIInv ==
    ASSUME \A b \in Boards : GoodBoard(b), IInv, NEW c \in Core,
           _start(c) \/ SetUpMemory(c) \/ gic_initialize(c) \/ initialize_interrupts(c)
    PROVE  IInv'
<1>0. /\ core[c] \in CoreRec /\ core \in [Core -> CoreRec] /\ CoreOK(c, core[c])
      /\ Boot \in Core /\ BootOK(core[Boot]) /\ (Id(c) = 0 <=> c = Boot) /\ Id(c) \in Int
      /\ board.version \in {"v2", "v3"} /\ Boot \in FirstCore /\ FirstCore \subseteq Core
      /\ UNCHANGED <<board, _irqs_ready>>
  <2>1. UNCHANGED <<board, _irqs_ready>>
    BY DEF _start, SetUpMemory, gic_initialize, initialize_interrupts
  <2>2. Id(c) \in Nat
    BY BoardFacts DEF IInv
  <2> QED BY <2>1, <2>2, BoardFacts DEF IInv, TypeOK
<1>1. /\ gicd \in [on : BOOLEAN, enabled : SUBSET {UART, TIMER}, target : SUBSET Core]
      /\ gicr \in [Core -> [awake : BOOLEAN, enabled : SUBSET {UART, TIMER}]]
      /\ shared \in SUBSET {"bss", "uart", "tables"}
      /\ _irqs_ready \in BOOLEAN /\ (_irqs_ready => Ready)
  BY DEF IInv, TypeOK
<1>2. CASE _start(c) /\ c # Boot
  <2> DEFINE r == [core[c] EXCEPT !.pc = "park"]
  <2>1. core' = [core EXCEPT ![c] = r] /\ UNCHANGED <<gicd, gicr, shared>> /\ core[c].pc = "_start"
    BY <1>0, <1>2 DEF _start, At
  <2>2. r \in CoreRec
    BY <1>0 DEF CoreRec, Pcs
  <2>3. /\ r.pc = "park" /\ r.masked = core[c].masked /\ r.cpuif = core[c].cpuif
        /\ r.stack = core[c].stack /\ r.vbar = core[c].vbar /\ r.mmu = core[c].mmu
    BY <1>0 DEF CoreRec
  <2> HIDE DEF r
  <2>4. CoreOK(c, r)
    BY <1>0, <2>3 DEF CoreOK, SettingUp, OnItsOwn, PastGic, PastMmu, Unmasked, Started
  <2>5. core[c].cpuif \subseteq r.cpuif /\ (core[c].masked \/ ~r.masked)
    BY <1>0, <2>3 DEF CoreRec
  <2> QED BY <1>0, <1>1, <1>2, <2>1, <2>2, <2>4, <2>5, OneCore
<1>3. CASE _start(c) /\ c = Boot
  <2>0. PICK r : r = [core[Boot] EXCEPT !.pc = "parse_frames", !.stack = Id(Boot), !.vbar = TRUE]
    OBVIOUS
  <2>1. c = Boot /\ core[Boot].pc = "_start" /\ core[Boot].pc \in SettingUp
    BY <1>0, <1>3 DEF _start, At, CoreOK, SettingUp, OnItsOwn, PastGic, PastMmu, Unmasked, Started
  <2>2. core' = [core EXCEPT ![Boot] = r]
    BY <1>0, <1>3, <2>0, <2>1 DEF _start, At, Goto, setup_stack
  <2>3. r \in CoreRec
    BY <1>0, <2>0, <2>1 DEF CoreRec, Pcs, SettingUp, OnItsOwn, PastGic, PastMmu, Unmasked, Started
  <2>4. /\ r.pc = "parse_frames" /\ r.masked = core[Boot].masked /\ r.cpuif = core[Boot].cpuif
        /\ r.stack = Id(Boot) /\ r.vbar /\ r.mmu = core[Boot].mmu
    BY <1>0, <2>0, <2>1 DEF CoreRec
  <2>5. /\ shared' = {"bss"}
        /\ shared' \in SUBSET {"bss", "uart", "tables"}
        /\ gicd' \in [on : BOOLEAN, enabled : SUBSET {UART, TIMER}, target : SUBSET Core]
        /\ gicr' \in [Core -> [awake : BOOLEAN, enabled : SUBSET {UART, TIMER}]]
    BY <1>0, <1>1, <1>3 DEF _start
  <2>6. CoreOK(Boot, r)
    BY <1>0, <2>1, <2>4 DEF CoreOK, SettingUp, OnItsOwn, PastGic, PastMmu, Unmasked, Started
  <2>7. BootOK(r)'
    BY <1>0, <2>1, <2>4, <2>5 DEF BootOK, SettingUp, OnItsOwn, PastGic, PastMmu, Unmasked, Started
  <2> QED BY <1>0, <2>1, <2>2, <2>3, <2>5, <2>6, <2>7, BootAlone
<1>4. CASE SetUpMemory(c) /\ At(c, "uart_initialize")
  <2>0. PICK r : r = [core[Boot] EXCEPT !.pc = "setup_idmap_page_tables"]
    OBVIOUS
  <2>1. c = Boot /\ core[Boot].pc = "uart_initialize" /\ core[Boot].pc \in SettingUp
    BY <1>0, <1>4 DEF SetUpMemory, Passes, At, CoreOK, SettingUp, OnItsOwn, PastGic, PastMmu, Unmasked, Started
  <2>2. core' = [core EXCEPT ![Boot] = r]
    BY <1>0, <1>4, <2>0, <2>1 DEF SetUpMemory, Passes, At, Goto
  <2>3. r \in CoreRec
    BY <1>0, <2>0, <2>1 DEF CoreRec, Pcs, SettingUp, OnItsOwn, PastGic, PastMmu, Unmasked, Started
  <2>4. /\ r.pc = "setup_idmap_page_tables" /\ r.masked = core[Boot].masked /\ r.cpuif = core[Boot].cpuif
        /\ r.stack = core[Boot].stack /\ r.vbar = core[Boot].vbar /\ r.mmu = core[Boot].mmu
    BY <1>0, <2>0, <2>1 DEF CoreRec
  <2>5. /\ shared' = shared \cup {"uart"}
        /\ shared' \in SUBSET {"bss", "uart", "tables"}
        /\ gicd' \in [on : BOOLEAN, enabled : SUBSET {UART, TIMER}, target : SUBSET Core]
        /\ gicr' \in [Core -> [awake : BOOLEAN, enabled : SUBSET {UART, TIMER}]]
    BY <1>1, <1>4 DEF SetUpMemory, Passes, At
  <2>6. CoreOK(Boot, r)
    BY <1>0, <2>1, <2>4 DEF CoreOK, SettingUp, OnItsOwn, PastGic, PastMmu, Unmasked, Started
  <2>7. BootOK(r)'
    BY <1>0, <2>1, <2>4, <2>5 DEF BootOK, SettingUp, OnItsOwn, PastGic, PastMmu, Unmasked, Started
  <2> QED BY <1>0, <2>1, <2>2, <2>3, <2>5, <2>6, <2>7, BootAlone
<1>5. CASE SetUpMemory(c) /\ At(c, "setup_idmap_page_tables")
  <2>0. PICK r : r = [core[Boot] EXCEPT !.pc = "memory_init", !.mmu = TRUE]
    OBVIOUS
  <2>1. c = Boot /\ core[Boot].pc = "setup_idmap_page_tables" /\ core[Boot].pc \in SettingUp
    BY <1>0, <1>5 DEF SetUpMemory, Passes, At, CoreOK, SettingUp, OnItsOwn, PastGic, PastMmu, Unmasked, Started
  <2>2. core' = [core EXCEPT ![Boot] = r]
    BY <1>0, <1>5, <2>0, <2>1 DEF SetUpMemory, Passes, At, Goto
  <2>3. r \in CoreRec
    BY <1>0, <2>0, <2>1 DEF CoreRec, Pcs, SettingUp, OnItsOwn, PastGic, PastMmu, Unmasked, Started
  <2>4. /\ r.pc = "memory_init" /\ r.masked = core[Boot].masked /\ r.cpuif = core[Boot].cpuif
        /\ r.stack = core[Boot].stack /\ r.vbar = core[Boot].vbar /\ r.mmu
    BY <1>0, <2>0, <2>1 DEF CoreRec
  <2>5. /\ shared' = shared \cup {"tables"}
        /\ shared' \in SUBSET {"bss", "uart", "tables"}
        /\ gicd' \in [on : BOOLEAN, enabled : SUBSET {UART, TIMER}, target : SUBSET Core]
        /\ gicr' \in [Core -> [awake : BOOLEAN, enabled : SUBSET {UART, TIMER}]]
    BY <1>1, <1>5 DEF SetUpMemory, Passes, At
  <2>6. CoreOK(Boot, r)
    BY <1>0, <2>1, <2>4 DEF CoreOK, SettingUp, OnItsOwn, PastGic, PastMmu, Unmasked, Started
  <2>7. BootOK(r)'
    BY <1>0, <2>1, <2>4, <2>5 DEF BootOK, SettingUp, OnItsOwn, PastGic, PastMmu, Unmasked, Started
  <2> QED BY <1>0, <2>1, <2>2, <2>3, <2>5, <2>6, <2>7, BootAlone
<1>8. CASE SetUpMemory(c) /\ At(c, "memory_init")
  <2>0. PICK r : r = [core[Boot] EXCEPT !.pc = "gic_initialize"]
    OBVIOUS
  <2>1. c = Boot /\ core[Boot].pc = "memory_init" /\ core[Boot].pc \in SettingUp
    BY <1>0, <1>8 DEF SetUpMemory, Passes, At, CoreOK, SettingUp, OnItsOwn, PastGic, PastMmu, Unmasked, Started
  <2>2. core' = [core EXCEPT ![Boot] = r]
    BY <1>0, <1>8, <2>0, <2>1 DEF SetUpMemory, Passes, At, Goto
  <2>3. r \in CoreRec
    BY <1>0, <2>0, <2>1 DEF CoreRec, Pcs, SettingUp, OnItsOwn, PastGic, PastMmu, Unmasked, Started
  <2>4. /\ r.pc = "gic_initialize" /\ r.masked = core[Boot].masked /\ r.cpuif = core[Boot].cpuif
        /\ r.stack = core[Boot].stack /\ r.vbar = core[Boot].vbar /\ r.mmu = core[Boot].mmu
    BY <1>0, <2>0, <2>1 DEF CoreRec
  <2>5. /\ shared' = shared
        /\ shared' \in SUBSET {"bss", "uart", "tables"}
        /\ gicd' \in [on : BOOLEAN, enabled : SUBSET {UART, TIMER}, target : SUBSET Core]
        /\ gicr' \in [Core -> [awake : BOOLEAN, enabled : SUBSET {UART, TIMER}]]
    BY <1>1, <1>8 DEF SetUpMemory, Passes, At
  <2>6. CoreOK(Boot, r)
    BY <1>0, <2>1, <2>4 DEF CoreOK, SettingUp, OnItsOwn, PastGic, PastMmu, Unmasked, Started
  <2>7. BootOK(r)'
    BY <1>0, <2>1, <2>4, <2>5 DEF BootOK, SettingUp, OnItsOwn, PastGic, PastMmu, Unmasked, Started
  <2> QED BY <1>0, <2>1, <2>2, <2>3, <2>5, <2>6, <2>7, BootAlone
<1>6. CASE gic_initialize(c)
  <2>0. PICK r : r = [core[Boot] EXCEPT !.pc = "initialize_uart_interrupt"]
    OBVIOUS
  <2>1. c = Boot /\ core[Boot].pc = "gic_initialize" /\ core[Boot].pc \in SettingUp
    BY <1>0, <1>6 DEF gic_initialize, Passes, At, CoreOK, SettingUp, OnItsOwn, PastGic, PastMmu, Unmasked, Started
  <2>2. core' = [core EXCEPT ![Boot] = r]
    BY <1>0, <1>6, <2>0, <2>1 DEF gic_initialize, Passes, At, Goto
  <2>3. r \in CoreRec
    BY <1>0, <2>0, <2>1 DEF CoreRec, Pcs, SettingUp, OnItsOwn, PastGic, PastMmu, Unmasked, Started
  <2>4. /\ r.pc = "initialize_uart_interrupt" /\ r.masked = core[Boot].masked /\ r.cpuif = core[Boot].cpuif
        /\ r.stack = core[Boot].stack /\ r.vbar = core[Boot].vbar /\ r.mmu = core[Boot].mmu
    BY <1>0, <2>0, <2>1 DEF CoreRec
  <2>5. /\ shared' = shared /\ gicd'.on /\ (board.version = "v3" => gicr'[Boot].awake)
        /\ shared' \in SUBSET {"bss", "uart", "tables"}
        /\ gicd' \in [on : BOOLEAN, enabled : SUBSET {UART, TIMER}, target : SUBSET Core]
        /\ gicr' \in [Core -> [awake : BOOLEAN, enabled : SUBSET {UART, TIMER}]]
    <3>1. shared' = shared
      BY <1>6 DEF gic_initialize
    <3>2. CASE board.version = "v2"
      <4>1. initialize_v2(Boot)
        BY <1>6, <2>1, <3>2 DEF gic_initialize
      <4>2. gicd'.on /\ gicd' \in [on : BOOLEAN, enabled : SUBSET {UART, TIMER}, target : SUBSET Core]
        BY <1>0, <1>1, <4>1 DEF initialize_v2
      <4>3. (board.version = "v3" => gicr'[Boot].awake) /\ gicr' \in [Core -> [awake : BOOLEAN, enabled : SUBSET {UART, TIMER}]]
        BY <1>0, <1>1, <3>2, <4>1 DEF initialize_v2
      <4> QED BY <1>1, <3>1, <4>2, <4>3
    <3>3. CASE board.version = "v3"
      <4>1. initialize_v3(Boot)
        BY <1>6, <2>1, <3>3 DEF gic_initialize
      <4>2. gicd'.on /\ gicd' \in [on : BOOLEAN, enabled : SUBSET {UART, TIMER}, target : SUBSET Core]
        BY <1>0, <1>1, <4>1 DEF initialize_v3
      <4>3. (board.version = "v3" => gicr'[Boot].awake) /\ gicr' \in [Core -> [awake : BOOLEAN, enabled : SUBSET {UART, TIMER}]]
        BY <1>0, <1>1, <3>3, <4>1 DEF initialize_v3
      <4> QED BY <1>1, <3>1, <4>2, <4>3
    <3> QED BY <1>0, <3>2, <3>3
  <2>6. CoreOK(Boot, r)
    BY <1>0, <2>1, <2>4 DEF CoreOK, SettingUp, OnItsOwn, PastGic, PastMmu, Unmasked, Started
  <2>7. BootOK(r)'
    <3>1. Boot' = Boot
      BY <1>0 DEF Boot
    <3> QED BY <1>0, <2>1, <2>4, <2>5, <3>1 DEF BootOK, SettingUp, OnItsOwn, PastGic, PastMmu, Unmasked, Started
  <2> QED BY <1>0, <2>1, <2>2, <2>3, <2>5, <2>6, <2>7, BootAlone
<1>7. CASE initialize_interrupts(c) /\ At(c, "initialize_uart_interrupt")
  <2>0. PICK r : r = [core[Boot] EXCEPT !.pc = "initialize_timer_interrupt"]
    OBVIOUS
  <2>1. c = Boot /\ core[Boot].pc = "initialize_uart_interrupt" /\ core[Boot].pc \in SettingUp
    BY <1>0, <1>7 DEF initialize_interrupts, Passes, At, CoreOK, SettingUp, OnItsOwn, PastGic, PastMmu, Unmasked, Started
  <2>2. core' = [core EXCEPT ![Boot] = r] /\ initialize_interrupt(Boot, UART) /\ shared' = shared
    BY <1>0, <1>7, <2>0, <2>1 DEF initialize_interrupts, Passes, At, Goto
  <2>3. r \in CoreRec
    BY <1>0, <2>0, <2>1 DEF CoreRec, Pcs, SettingUp, OnItsOwn, PastGic, PastMmu, Unmasked, Started
  <2>4. /\ r.pc = "initialize_timer_interrupt" /\ r.masked = core[Boot].masked /\ r.cpuif = core[Boot].cpuif
        /\ r.stack = core[Boot].stack /\ r.vbar = core[Boot].vbar /\ r.mmu = core[Boot].mmu
    BY <1>0, <2>0, <2>1 DEF CoreRec
  <2>5. /\ gicd'.on = gicd.on /\ UART \in gicd'.enabled /\ gicd'.target = FirstCore /\ gicr' = gicr
        /\ gicd' \in [on : BOOLEAN, enabled : SUBSET {UART, TIMER}, target : SUBSET Core]
        /\ gicr' \in [Core -> [awake : BOOLEAN, enabled : SUBSET {UART, TIMER}]]
    <3>1. gicd' = [gicd EXCEPT !.enabled = gicd.enabled \cup {UART}, !.target = FirstCore] /\ gicr' = gicr
      BY <2>2 DEF initialize_interrupt, initialize_interrupt_v2, initialize_interrupt_v3, UART, TIMER
    <3> QED BY <1>0, <1>1, <3>1
  <2>6. CoreOK(Boot, r)
    BY <1>0, <2>1, <2>4 DEF CoreOK, SettingUp, OnItsOwn, PastGic, PastMmu, Unmasked, Started
  <2>7. BootOK(r)'
    <3>1. Boot' = Boot
      BY <1>0 DEF Boot
    <3>2. SetUp'
      BY <1>0, <2>1, <2>2, <2>5, <3>1 DEF SetUp, BootOK, SettingUp
    <3>3. "bss" \in shared'
      BY <3>2 DEF SetUp
    <3> QED BY <1>0, <2>1, <2>4, <3>2, <3>3 DEF BootOK, SettingUp, OnItsOwn, PastGic, PastMmu, Unmasked, Started
  <2> QED BY <1>0, <1>1, <2>1, <2>2, <2>3, <2>5, <2>6, <2>7, BootAlone
<1>9. CASE initialize_interrupts(c) /\ At(c, "initialize_timer_interrupt")
  <2>0. PICK r : r = [core[Boot] EXCEPT !.pc = "initialize_core_specific"]
    OBVIOUS
  <2>1. c = Boot /\ core[Boot].pc = "initialize_timer_interrupt" /\ core[Boot].pc \in SettingUp
    BY <1>0, <1>9 DEF initialize_interrupts, Passes, At, CoreOK, SettingUp, OnItsOwn, PastGic, PastMmu, Unmasked, Started
  <2>2. core' = [core EXCEPT ![Boot] = r] /\ initialize_interrupt(Boot, TIMER) /\ shared' = shared
    BY <1>0, <1>9, <2>0, <2>1 DEF initialize_interrupts, Passes, At, Goto
  <2>3. r \in CoreRec
    BY <1>0, <2>0, <2>1 DEF CoreRec, Pcs, SettingUp, OnItsOwn, PastGic, PastMmu, Unmasked, Started
  <2>4. /\ r.pc = "initialize_core_specific" /\ r.masked = core[Boot].masked /\ r.cpuif = core[Boot].cpuif
        /\ r.stack = core[Boot].stack /\ r.vbar = core[Boot].vbar /\ r.mmu = core[Boot].mmu
    BY <1>0, <2>0, <2>1 DEF CoreRec
  <2>5. /\ gicd' = gicd /\ gicr'[Boot].awake = gicr[Boot].awake
        /\ gicd' \in [on : BOOLEAN, enabled : SUBSET {UART, TIMER}, target : SUBSET Core]
        /\ gicr' \in [Core -> [awake : BOOLEAN, enabled : SUBSET {UART, TIMER}]]
    <3>1. gicd' = gicd
      BY <2>2 DEF initialize_interrupt, initialize_interrupt_v2, initialize_interrupt_v3, UART, TIMER
    <3>2. gicr'[Boot].awake = gicr[Boot].awake /\ gicr' \in [Core -> [awake : BOOLEAN, enabled : SUBSET {UART, TIMER}]]
      <4>1. CASE board.version = "v2"
        <5>1. gicr' = [gicr EXCEPT ![Boot].enabled = gicr[Boot].enabled \cup {TIMER}]
          BY <2>2, <4>1 DEF initialize_interrupt, initialize_interrupt_v2, UART, TIMER
        <5> QED BY <1>0, <1>1, <5>1
      <4>2. CASE board.version # "v2"
        <5>1. gicr' = [d \in Core |-> [gicr[d] EXCEPT !.enabled = gicr[d].enabled \cup {TIMER}]]
          BY <2>2, <4>2 DEF initialize_interrupt, initialize_interrupt_v3, UART, TIMER
        <5> QED BY <1>0, <1>1, <5>1
      <4> QED BY <4>1, <4>2
    <3> QED BY <1>1, <3>1, <3>2
  <2>6. CoreOK(Boot, r)
    BY <1>0, <2>1, <2>4 DEF CoreOK, SettingUp, OnItsOwn, PastGic, PastMmu, Unmasked, Started
  <2>7. BootOK(r)'
    <3>1. Boot' = Boot
      BY <1>0 DEF Boot
    <3>2. SetUp'
      BY <1>0, <2>1, <2>2, <2>5, <3>1 DEF SetUp, BootOK, SettingUp
    <3>3. "bss" \in shared'
      BY <3>2 DEF SetUp
    <3> QED BY <1>0, <2>1, <2>4, <3>2, <3>3 DEF BootOK, SettingUp, OnItsOwn, PastGic, PastMmu, Unmasked, Started
  <2> QED BY <1>0, <1>1, <2>1, <2>2, <2>3, <2>5, <2>6, <2>7, BootAlone
<1> QED BY <1>2, <1>3, <1>4, <1>5, <1>6, <1>7, <1>8, <1>9 DEF SetUpMemory, initialize_interrupts, Passes

LEMMA NextIInv ==
    ASSUME \A b \in Boards : GoodBoard(b)
    PROVE  IInv /\ [Next]_vars => IInv'
<1> SUFFICES ASSUME IInv, [Next]_vars PROVE IInv'
  OBVIOUS
<1>1. CASE UNCHANGED vars
  <2>1. /\ Core' = Core /\ Boot' = Boot /\ core' = core /\ shared' = shared
        /\ board' = board /\ gicd' = gicd /\ gicr' = gicr /\ _irqs_ready' = _irqs_ready
        /\ \A c \in Core : Id(c)' = Id(c)
    BY <1>1 DEF vars, Core, Boot, Cpus, Id
  <2>2. (SetUp' <=> SetUp) /\ \A f : LetsIn(f)' <=> LetsIn(f)
    BY <2>1 DEF SetUp, LetsIn
  <2>3. Ready' <=> Ready
    BY <2>1, <2>2 DEF Ready
  <2>4. TypeOK'
    BY <2>1 DEF IInv, TypeOK
  <2>5. BootOK(core[Boot])'
    BY <2>1, <2>2, <2>3 DEF IInv, BootOK
  <2>6. ASSUME NEW c \in Core PROVE CoreOK(c, core[c])'
    BY <2>1, <2>2, <2>3 DEF IInv, CoreOK
  <2> QED BY <2>1, <2>3, <2>4, <2>5, <2>6 DEF IInv
<1>2. CASE Next
  BY <1>2, SecondaryIInv, LoopIInv, SetupIInv DEF Next, Step, kern_main
<1> QED BY <1>1, <1>2

-----------------------------------------------------------------------------
(* The invariant gives the two properties.                                 *)
LEMMA IInvImplies ==
    ASSUME \A b \in Boards : GoodBoard(b)
    PROVE  IInv => RunsOnWhatIsSetUp /\ IrqsReadyIsTrue
<1> SUFFICES ASSUME IInv PROVE RunsOnWhatIsSetUp /\ IrqsReadyIsTrue
  OBVIOUS
<1>1. RunsOnWhatIsSetUp
  BY DEF IInv, CoreOK, Ready, SetUp, LetsIn, Forwards, RunsOnWhatIsSetUp
<1>2. IrqsReadyIsTrue
  <2>1. Boot \in Core /\ (_irqs_ready => Ready)
    BY BoardFacts DEF IInv, BootOK
  <2>2. Ready => Delivers(Boot)
    BY DEF Ready, SetUp, LetsIn, Forwards, Delivers
  <2> QED BY <2>1, <2>2 DEF IrqsReadyIsTrue
<1> QED BY <1>1, <1>2

(* From here on: on every board of this kind, with any number of cores,    *)
(* and whatever order they run in.                                         *)
LEMMA AlwaysIInv ==
    ASSUME \A b \in Boards : GoodBoard(b)
    PROVE  Init /\ [][Next]_vars => []IInv
<1>1. Init => IInv
  BY InitIInv
<1>2. IInv /\ [Next]_vars => IInv'
  BY NextIInv
<1> QED BY <1>1, <1>2, PTL

(* A secondary core runs only on what the boot core has set up, and a core *)
(* lets IRQs in only with vectors, GIC and MMU of its own in place.        *)
THEOREM CoresRunOnWhatIsSetUp ==
    ASSUME \A b \in Boards : GoodBoard(b)
    PROVE  Spec => []RunsOnWhatIsSetUp
<1>1. IInv => RunsOnWhatIsSetUp
  BY IInvImplies
<1>2. Init /\ [][Next]_vars => []IInv
  BY AlwaysIInv
<1> QED BY <1>1, <1>2, PTL DEF Spec

(* signal_irqs_ready is never early: once any core has set _irqs_ready,    *)
(* the UART's interrupt reaches a core that takes it.                      *)
THEOREM IrqsReadyStaysTrue ==
    ASSUME \A b \in Boards : GoodBoard(b)
    PROVE  Spec => []IrqsReadyIsTrue
<1>1. IInv => IrqsReadyIsTrue
  BY IInvImplies
<1>2. Init /\ [][Next]_vars => []IInv
  BY AlwaysIInv
<1> QED BY <1>1, <1>2, PTL DEF Spec

-----------------------------------------------------------------------------
(* Every step of IrqNext is a step of Boot or leaves its variables alone.  *)
LEMMA IrqImplementsBoot == IrqSpec => Init /\ [][Next]_vars
<1>1. IrqInit => Init
  BY DEF IrqInit
<1>2. [IrqNext]_allvars => [Next]_vars
  <2> SUFFICES ASSUME [IrqNext]_allvars PROVE [Next]_vars
    OBVIOUS
  <2>1. ASSUME NEW c \in Core, Thread(c) PROVE Next
    BY <2>1 DEF Thread, Next
  <2>2. ASSUME NEW c \in Core, irq_entry(c) PROVE UNCHANGED vars
    BY <2>2 DEF irq_entry, TakeIrq, acknowledge_interrupt, irq_handler, pl011_handle_irq,
                end_of_interrupt
  <2>3. ASSUME NEW c \in Core, ThreadPrints(c) \/ Expire(c) PROVE UNCHANGED vars
    BY <2>3 DEF ThreadPrints, Expire
  <2>4. ASSUME NEW s, Raise(s) PROVE UNCHANGED vars
    BY <2>4 DEF Raise
  <2>5. CASE UNCHANGED allvars
    BY <2>5 DEF allvars
  <2> QED BY <2>1, <2>2, <2>3, <2>4, <2>5 DEF IrqNext
<1> QED BY <1>1, <1>2, PTL DEF IrqSpec

(* Whenever interrupts come while the cores boot: cores run on what is set *)
(* up, and _irqs_ready is true.                                            *)
THEOREM BootHoldsUnderInterrupts ==
    ASSUME \A b \in Boards : GoodBoard(b)
    PROVE  IrqSpec => [](RunsOnWhatIsSetUp /\ IrqsReadyIsTrue)
<1>1. IInv => RunsOnWhatIsSetUp /\ IrqsReadyIsTrue
  BY IInvImplies
<1>2. Init /\ [][Next]_vars => []IInv
  BY AlwaysIInv
<1> QED BY <1>1, <1>2, IrqImplementsBoot, PTL

-----------------------------------------------------------------------------
(* The types of irq and active; with them ActiveIsHandled is inductive.    *)
IntIds == {0, Spurious, IntId(UART), IntId(TIMER)}

Handling == {"irq_handler", "mis", "drain", "read", "icr", "end"}

IrqRec == [pc : {None, "acknowledge"} \cup Handling, intid : IntIds,
           mis : SUBSET {"tx", "rx"}]

IrqTypeOK ==
    /\ board \in Boards /\ mis \in SUBSET {"tx", "rx"}
    /\ irq \in [Core -> IrqRec]
    /\ active \in [Core -> {None, UART, TIMER}]

HInv == IrqTypeOK /\ ActiveIsHandled

(* The board of a thread's step does not change.                           *)
LEMMA StepKeepsBoard == ASSUME NEW c, Step(c) PROVE board' = board
BY DEF Step, kern_main, _start, parse_frames, report_error, SetUpMemory, gic_initialize, initialize_interrupts,
       _secondary_start, secondary_kern_main, InitializeCoreSpecific, SetupCoreSpecific, UnmaskIrqs,
       SignalIrqsReady, TakePrintLock, PrintRunning, Wake, boot_secondary_cores, AllStarted

LEMMA IrqInitHInv == IrqInit => HInv
<1> SUFFICES ASSUME IrqInit PROVE HInv
  OBVIOUS
<1>1. irq \in [Core -> IrqRec]
  BY DEF IrqInit, IrqRec, IntIds
<1> QED BY <1>1 DEF IrqInit, Init, HInv, IrqTypeOK, ActiveIsHandled

(* A step of irq_entry on core c, as far as irq and active go.             *)
LEMMA IrqStep ==
    ASSUME HInv, NEW c \in Core, NEW r \in IrqRec, NEW x \in {None, UART, TIMER},
           irq' = [irq EXCEPT ![c] = r], active' = [active EXCEPT ![c] = x], board' = board,
           mis' \in SUBSET {"tx", "rx"},
           x # None => r.pc \in Handling /\ r.intid = IntId(x)
    PROVE  HInv'
<1>1. Core' = Core /\ IrqRec' = IrqRec /\ \A y : IntId(y)' = IntId(y)
  BY DEF Core, Cpus, IntId, IntIds, IrqRec
<1>2. /\ irq' \in [Core -> IrqRec] /\ active' \in [Core -> {None, UART, TIMER}]
      /\ irq'[c] = r /\ active'[c] = x
      /\ \A d \in Core \ {c} : irq'[d] = irq[d] /\ active'[d] = active[d]
  BY DEF HInv, IrqTypeOK
<1>3. ActiveIsHandled'
  BY <1>1, <1>2 DEF HInv, ActiveIsHandled, Handling
<1> QED BY <1>1, <1>2, <1>3 DEF HInv, IrqTypeOK

LEMMA IrqEntryHInv ==
    ASSUME HInv, NEW c \in Core, irq_entry(c)
    PROVE  HInv'
<1>0. /\ irq \in [Core -> IrqRec] /\ irq[c] \in IrqRec /\ active \in [Core -> {None, UART, TIMER}]
      /\ active[c] \in {None, UART, TIMER} /\ mis \in SUBSET {"tx", "rx"}
      /\ \A x \in {UART, TIMER} : IntId(x) \in IntIds
      /\ active[c] # None =>
            irq[c].pc \in Handling /\ irq[c].intid = IntId(active[c])
  <2>1. \A x \in {UART, TIMER} : IntId(x) \in IntIds
    BY DEF IntIds
  <2>2. active[c] # None =>
            irq[c].pc \in Handling /\ irq[c].intid = IntId(active[c])
    BY DEF HInv, ActiveIsHandled, Handling
  <2> QED BY <2>1, <2>2 DEF HInv, IrqTypeOK
<1>1. /\ active' = active => active' = [active EXCEPT ![c] = active[c]]
      /\ None \notin {"acknowledge"} \cup Handling
  BY <1>0 DEF None, Handling
(* A step that goes on with an INTID, whatever becomes of the UART.        *)
<1>2. ASSUME NEW q \in {None, "acknowledge"} \cup Handling, NEW n \in IntIds,
             NEW x \in {None, UART, TIMER}, Goes(c, q, n), active' = [active EXCEPT ![c] = x],
             board' = board, mis' \in SUBSET {"tx", "rx"}, x # None => q \in Handling /\ n = IntId(x)
      PROVE  HInv'
  <2> DEFINE r == [irq[c] EXCEPT !.pc = q, !.intid = n]
  <2>1. r \in IrqRec /\ r.pc = q /\ r.intid = n
    BY <1>0 DEF IrqRec
  <2>2. irq' = [irq EXCEPT ![c] = r]
    BY <1>0, <1>2 DEF Goes
  <2> HIDE DEF r
  <2> QED BY <1>0, <1>2, <2>1, <2>2, IrqStep
<1>3. CASE TakeIrq(c)
  <2>1. /\ Goes(c, "acknowledge", 0) /\ active' = active /\ board' = board /\ mis' = mis
        /\ irq[c].pc = None /\ 0 \in IntIds
    BY <1>3 DEF TakeIrq, vars, IntIds
  <2>2. active[c] = None
    BY <1>0, <1>1, <2>1
  <2> QED BY <1>0, <1>1, <1>2, <2>1, <2>2
<1>4. CASE acknowledge_interrupt(c)
  <2>1. board' = board /\ mis' = mis /\ irq[c].pc = "acknowledge"
    BY <1>4 DEF acknowledge_interrupt, vars
  <2>2. ASSUME NEW x \in Signals(c), active' = [active EXCEPT ![c] = x],
               Goes(c, "irq_handler", IntId(x))
        PROVE  HInv'
    <3>1. x \in {UART, TIMER}
      BY DEF Signals, Asserted
    <3> QED BY <1>0, <1>2, <2>1, <2>2, <3>1 DEF Handling
  <2>3. ASSUME Goes(c, "irq_handler", Spurious), UNCHANGED active PROVE HInv'
    <3>1. active[c] = None /\ Spurious \in IntIds
      BY <1>0, <2>1 DEF IntIds, Handling
    <3> QED BY <1>0, <1>1, <1>2, <2>1, <2>3, <3>1 DEF Handling
  <2> QED BY <1>4, <2>2, <2>3 DEF acknowledge_interrupt
<1>5. CASE irq_handler(c)
  <2>1. board' = board /\ active' = active /\ irq[c].pc = "irq_handler" /\ mis' \in SUBSET {"tx", "rx"}
    BY <1>0, <1>5 DEF irq_handler, kprintf, vars
  <2>2. PICK q \in {"end", "mis"} : Goes(c, q, irq[c].intid)
    BY <1>5 DEF irq_handler
  <2>3. irq[c].intid \in IntIds
    BY <1>0 DEF IrqRec
  <2> QED BY <1>0, <1>1, <1>2, <2>1, <2>2, <2>3 DEF Handling
<1>6. CASE pl011_handle_irq(c)
  <2>1. board' = board /\ active' = active
    BY <1>6 DEF pl011_handle_irq, vars
  <2>2. ASSUME NEW q \in Handling, NEW m \in SUBSET {"tx", "rx"}, irq[c].pc \in Handling,
               irq' = [irq EXCEPT ![c].pc = q, ![c].mis = m], mis' \in SUBSET {"tx", "rx"}
        PROVE  HInv'
    <3> DEFINE r == [irq[c] EXCEPT !.pc = q, !.mis = m]
    <3>1. r \in IrqRec /\ r.pc = q /\ r.intid = irq[c].intid
      BY <1>0 DEF IrqRec
    <3>2. irq' = [irq EXCEPT ![c] = r]
      BY <1>0, <2>2
    <3> HIDE DEF r
    <3> QED BY <1>0, <1>1, <2>1, <2>2, <3>1, <3>2, IrqStep
  <2>3. ASSUME NEW q \in Handling, irq[c].pc \in Handling, Goes(c, q, irq[c].intid),
               mis' \in SUBSET {"tx", "rx"}
        PROVE  HInv'
    <3>1. irq[c].intid \in IntIds
      BY <1>0 DEF IrqRec
    <3> QED BY <1>0, <1>1, <1>2, <2>1, <2>3, <3>1
  <2>4. CASE ReadMIS(c)
    BY <1>0, <2>2, <2>4 DEF ReadMIS, Handling
  <2>5. CASE HandleTx(c)
    BY <1>0, <2>3, <2>5 DEF HandleTx, kprintf, Handling
  <2>6. CASE HandleRx(c)
    BY <1>0, <2>3, <2>6 DEF HandleRx, Handling
  <2>7. CASE ClearICR(c)
    <3>1. irq' = [irq EXCEPT ![c].pc = "end", ![c].mis = {}] /\ irq[c].pc = "icr" /\ mis' \in SUBSET {"tx", "rx"}
      BY <1>0, <2>7 DEF ClearICR
    <3>2. "icr" \in Handling /\ "end" \in Handling /\ {} \in SUBSET {"tx", "rx"}
      BY DEF Handling
    <3> QED BY <2>2, <3>1, <3>2
  <2> QED BY <1>6, <2>4, <2>5, <2>6, <2>7 DEF pl011_handle_irq
<1>7. CASE end_of_interrupt(c)
  <2>1. /\ Goes(c, None, 0) /\ board' = board /\ mis' = mis /\ irq[c].pc = "end"
        /\ active' = [active EXCEPT ![c] = IF active[c] # None /\ IntId(active[c]) = irq[c].intid
                                           THEN None ELSE active[c]]
        /\ 0 \in IntIds
    BY <1>7 DEF end_of_interrupt, vars, IntIds
  <2>2. active' = [active EXCEPT ![c] = None]
    BY <1>0, <2>1
  <2> QED BY <1>0, <1>2, <2>1, <2>2
<1> QED BY <1>3, <1>4, <1>5, <1>6, <1>7 DEF irq_entry

(* acknowledge_interrupt, irq_handler and end_of_interrupt agree on the    *)
(* INTID: no thread resumes with an interrupt active, on any board.        *)
THEOREM InterruptsAreEnded == IrqSpec => []ActiveIsHandled
<1>1. HInv /\ [IrqNext]_allvars => HInv'
  <2> SUFFICES ASSUME HInv, [IrqNext]_allvars PROVE HInv'
    OBVIOUS
  <2>1. ASSUME UNCHANGED <<board, irq, active>>, mis' \in SUBSET {"tx", "rx"} PROVE HInv'
    BY <2>1 DEF HInv, IrqTypeOK, ActiveIsHandled, Core, Cpus, IntId, IntIds, IrqRec
  <2>2. mis \in SUBSET {"tx", "rx"}
    BY DEF HInv, IrqTypeOK
  <2>3. ASSUME NEW c \in Core, Thread(c) PROVE HInv'
    BY <2>1, <2>2, <2>3, StepKeepsBoard DEF Thread, irqvars
  <2>4. ASSUME NEW c \in Core, irq_entry(c) PROVE HInv'
    BY <2>4, IrqEntryHInv
  <2>5. ASSUME NEW c \in Core, ThreadPrints(c) \/ Expire(c) PROVE HInv'
    BY <2>1, <2>2, <2>5 DEF ThreadPrints, kprintf, Expire, vars
  <2>6. ASSUME NEW s \in {"tx", "rx"}, Raise(s) PROVE HInv'
    BY <2>1, <2>2, <2>6 DEF Raise, vars
  <2>7. CASE UNCHANGED allvars
    BY <2>1, <2>2, <2>7 DEF allvars, vars, irqvars
  <2> QED BY <2>3, <2>4, <2>5, <2>6, <2>7 DEF IrqNext
<1>2. HInv => ActiveIsHandled
  BY DEF HInv
<1> QED BY <1>1, <1>2, IrqInitHInv, PTL DEF IrqSpec
=============================================================================
