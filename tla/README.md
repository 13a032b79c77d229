# Floss in TLA+

TLA+ models of the floss kernel (bare-metal AArch64, C++ and assembly), checked
with TLC and, where noted, proved with TLAPS. `PROJECT.json` maps every
definition to the source lines it models.

## The system and its parts

One core enters `_start` (start.S), takes a stack and the vector table, and runs
`kern_main`: parse the device tree, set up the UART, build the identity map and
turn the MMU on, reserve memory, set up the GIC, then `secondary_kern_main` and
`boot_secondary_cores`. Each started core runs `secondary_kern_main` at the same
time as the rest of that loop, then parks. From then on the UART interrupt, on
core 0, is the only thing that happens.

| Part | Source | Module | State of the model |
|---|---|---|---|
| Spin lock | locking/SpinLock.cpp | SpinLock, Mutex | complete, proved |
| Ring buffer | uart.cpp `CharBuffer` | CharBuffer, CharBufferSpec, LossyQueue | complete, proved |
| UART driver | uart.cpp | Uart, UartChannel, TxChannel | async send path, IRQ handler, device; safety proved |
| Device tree | DeviceTree.cpp, and `dt_parse` of uart, map, cpu, timer, gic, psci | FdtParser, DeviceTree | complete, above the byte level |
| Memory map | memory/map.cpp | RegionList, MemoryMap | complete, proved |
| Identity map | memory/mmu.cpp | IdMap | table construction, proved |
| SMP bring-up | start.S, kernel.cpp, cpu.cpp, boot/ | Boot | complete, safety proved |
| GIC drivers | interrupts/ | Boot (set-up), Interrupts (acknowledge, end) | what the kernel calls |
| Exceptions, timer | exception.cpp, exceptions.S, timer.cpp | Interrupts | IRQ path, safety proved |
| kprintf, string functions, baud divisors | kstdio.cpp, libcstubs.cpp, uart.cpp | Algorithms | the loops, as functions; proved |
| Panic | util/assert.cpp | MemoryMap, IdMap, Boot, DeviceTree, Uart | the actor stops |
| Linker script, build | linker/, CMakeLists.txt | none | no behaviour; `NCPUS` is a constant of Boot |

How the parts meet: DeviceTree fills the same lists (RegionList) that MemoryMap
and IdMap start from, and produces what a board of Boot is: cpu nodes, enable
methods, GIC version, INTIDs. Interrupts extends Boot: its threads are Boot's
steps, suspended while `irq_entry` runs. Uart refines what the UART's handler
and kprintf do with the characters.

## How the modules correspond to the code

**SpinLock.** `_lock` is the lock word. `Ldaxr` and `Stxr` are the two exclusive
accesses of `lock()`, each with the branch behind it; `Unlock` is the store.
`monitor` is the processor's exclusive monitor (external), which `IrqEntry`
disarms because `eret` does. `Mutex` is the abstract lock.

**CharBuffer / CharBufferSpec.** The ring, `_start` and `_end`, with
`buffer_char`, `read_char` and `elements_in_buffer` as operators on a buffer;
CharBufferSpec turns them into actions. `LossyQueue` is a bounded queue that
drops its oldest element. `elements_in_buffer` is kept as written: it returns
`start - end` in one branch and one too many in the other, narrowed to 8 bits.
Only its comparison with zero matters to the callers, and that is right.

**Uart.** Contexts are the thread of each core and the interrupt handler of core
0. `_tx_buffer`, IMSC and `_irqs_ready` are shared and unprotected; the debug
build makes every access separately, so a step makes at most one of them. A local
is reset once the code no longer looks at it (`Use`), which merges states that
differ in nothing that matters. The `pc` names follow the functions: `b1`-`b8` buffer_char, `d1`-`d8` drain_tx and
read_char, `e1`-`wrap2` elements_in_buffer, `on`/`off` toggle_imsc_mask. The
device (external) has one character of room each way, because `initialize`
disables the FIFOs; its TX interrupt is raised by the register becoming empty.
`sys.clock` is whether the tree gave a clock frequency, which `calculate_divisors`
asserts; that `uart` is not null, which toggle_imsc_mask asserts after `initialize`
has dereferenced it, is taken for granted. `TxChannel` is what the send side
promises, and `UartChannel` the mapping onto it, with a history variable
`overlapped`: whether two contexts have been inside the ring at once (`Accessing`:
from the load of an index to the store that uses it).

**RegionList / MemoryMap.** `add_region` with its precondition, its merging and
its early returns; then the lists in the order `kern_main` fills them. `given` is
a history variable. Addresses are unbounded integers, so a region whose end
wraps at 2^64 is outside the model.

**IdMap.** Three table levels with the code's index arithmetic; page size and
fan-out are constants. Descriptor writes are ORs in the code, so an entry holds
*sets* of types, outputs and attributes, and a second, different write shows as
a set of two. The lists are at most as long as add_region allows and inside what
the tables reach (`InputAssumption`). `wild` records a store through an entry that is no table. MAIR,
TCR, TTBR and SCTLR values are not modelled.

**Boot.** One `pc` per core. `board` is what firmware and device tree present:
MPIDR and enable method of each cpu node, the boot core, the GIC version, and which
assertions (`Asserting`) the tree fails: `report_error` ends the core that meets one.
`gicd` and `gicr` record what the drivers switch on; GICv3 never writes IROUTER, and
the model takes its reset value to be affinity 0.0.0.0. Firmware is external:
CPU_ON may fail at any time, and other cores may also be let into `_start`.

**FdtParser / DeviceTree.** A structure block is a sequence of items (token plus
name or property); an item that runs over the end of the block is not `whole`,
which is what every bound test in `Parser::next` detects. Values are lists of
strings or of cells; `CellBase` stands for 2^32, so that a two-cell number is
really put together from two cells. `frame` and `_top` are the stack of node
frames, kept as the code keeps it: a frame is used again and only some of its
fields are reset. One action per token and pass, then one per handler; the clock
chain is followed one link per step (`LookupClock`), because it may not end.
`calls` is a history variable. Uninitialized reads are outside the trees that are
checked: a GIC node always has `reg`.

**Interrupts.** `irq` is where `irq_entry` is on each core, with the INTID it
carries in x0; `active` is what the GIC holds active (external). The steps are
take, `acknowledge_interrupt`, `irq_handler`, the four accesses of
`pl011_handle_irq` (read MIS, drain, read DR and print, write ICR),
`end_of_interrupt` with eret. `mis` and `timer` are the sources, which may ask again
between any two of these. Any `kprintf`, the handler's own line and those of
other cores included, may take the TX interrupt back: it fills the transmitter, or
turns TX off when the ring is empty. `kern_main` has
the calls that start the timer commented out, so a timer runs only where firmware
left it running; `set_timer` is called by the handler.

**Algorithms.** Each behaviour is one call. The loops are recursive functions with
the code's tests in the code's order: `strnlen` and `strncmp` look at a byte before
the bound, so a list is checked with every byte that may follow it.
`NumberBufAssumption` is the size of `number_buf`: the digits of the largest number
of the word fit.

## Runs

| Run | States | Bounds | Shows |
|---|---|---|---|
| spin_lock | 2,047 | 4 cores, 3 interrupts | the lock is a mutex; spinning cores make progress |
| char_buffer | 1,944 | 4 slots, 3 characters | lossy queue; zero exactly when empty |
| uart_one_core | 180,206 | 3 slots, 1 received | see below |
| uart_smp | 611,085 | 2 cores + handler, 2 slots, 1 received | indexes stay in range; RX is never switched off |
| memory_map | 2,887,767 | 7 regions, 4 nodes, lists of 3 | merging loses and invents nothing; kernel reserved |
| id_map | 93,037 | 22,518 boards, 64 addresses | exact identity map; stable descriptors; pool suffices |
| boot | 4,053 | two boards of 4 cores, and one per assertion | set-up order, interrupts, all cores boot |
| interrupts | 55,191 | three boards of 2 cores, 5 events | INTIDs are paired; UART and timers are served; cores still boot |
| device_tree | 56,809 | 456 trees | stack, dispatch, addresses, references, limits, termination |
| algorithms | 60,528 | 10-bit words, strings of 5 | printing, matching and divisors compute what they should |

`uart_one_core`: sends before interrupts are ready drain and return; the handler
returns, also when it interrupted the holder of `_print_lock`; DR is not read while
empty. `TxChannelUntilOverlap`: characters keep their order and only the oldest
leak, before interrupts are open and after, in the thread and in the handler, up
to the first overlap of their calls. Nothing in the code keeps the handler out of a
call it interrupts, and from then on the property does not hold
(`UartNested.cfg`).

`UartIsServed` of `interrupts`: an interrupt of the UART that is up once
`_irqs_ready` is set, while no handler stands between its read of MIS and its write
of ICR, gets its drain or its read of DR before anything clears it, or some
`kprintf` drains first. One that comes up between those two accesses is cleared
unserved; that is `uart_lost_rx`.

Why the bounds are enough to be interesting: a 3-slot ring wraps and leaks
within one message, and one received character arrives in every step of the send
and of the handler (`uart_lost_rx` has two); 4 regions in lists that hold 3 reach
merging on both sides, the unmerged bridge of the TODO in map.cpp, and the panic; the boards of id_map
cover offsets inside a page, a block and a gigabyte; four cores mix both enable
methods with failure and panic inside the loop. Stacks are not among the runs: on a
`GoodBoard` they differ because setup_stack assigns them by Aff0, and on another
board nothing makes them differ (`BootStack.cfg`). `uart_smp` has a ring of
two slots, which one waiting character fills, so that a second core, the handler and
a received character fit in one run. The trees of `device_tree` permute the nodes, nest two buses that move addresses, vary cells of one to three
and chains of clocks, and reach every limit and one beyond it; the limits are
lowered (4 frames, 8 properties, 4 phandles, 2 processors, 2 interrupts), the tests
against them are the code's. Blobs are also cut off in every item, have NOPs anywhere and bad
headers. In `interrupts`, two cores suffice for an SPI signalled to one while the
other prints and turns TX off (the spurious acknowledge). In `algorithms` the
numbers are all of a 10-bit word, signed and unsigned.

`IdentityMapIsExact` and `DescriptorsAreStable` assume `WellPlaced`: aligned RAM
that does not straddle, no two devices in one page, no empty device (which lies
nowhere for `regions_overlap` but is rounded outwards to a page). The code checks
none of this; `IdMapStraddle.cfg` and `IdMapShared.cfg` show what happens without it.
`KernelIsReserved` assumes disjoint RAM regions for the hole before the kernel.
`DevicesAreWhereTheTreeSays`, `ReferencesResolve` and `ValidTreesAreAccepted`
speak of walks in which no handler was called for a node that does not name it;
that this can happen is `device_tree_stale`. `NumbersReadBack` leaves out the most
negative number, whose negation overflows, and `DivisorsGiveTheBaudRate` clocks
whose fourfold wraps or whose divisor exceeds the 16 and 6 bits of IBRD and FBRD.

Deadlock is checked for the lock and the ring, which never stop. The others end
in a parked or panicked state.

### Fairness

Only weak fairness. A core that runs keeps executing (nothing schedules it
away); the device shifts out what it holds; a pending unmasked interrupt is
taken. The device-tree walk is one core with interrupts masked. For `UartIsServed`
and `TimerIsSetAgain` nothing is asked of the sources: they may be silent.
`SpinningGetsLock` is global progress: one given core may starve, and
nothing in the code prevents that.

## Disagreements between comments and code

Two are runs expected to be violated, with a finding in `PROJECT.json`.

- **uart_lost_rx**: `ICR = mis` at the end of the handler clears the RX interrupt
  of a character that arrived after DR was read; reception stops.
- **device_tree_stale**: `_compatible_prop_idx` and `_device_type_prop_idx` survive
  in a frame that is used again, so a node without these properties is matched on
  a slot of its sibling.

The others are kept as configurations that violate their property when run by hand
(`tlc -config X.cfg MCModule`):

| Configuration | Shows |
|---|---|
| UartStorm | every interrupt prints a line and each TX interrupt lets one character out: interrupts need not end |
| UartNested | the handler empties the ring between the store of `_end` and the test for a full ring; old characters are sent again |
| UartLostTx | the same ICR write loses a TX interrupt |
| UartInitMask | "Mask all interrupts" masks none |
| IdMapStraddle | RAM across a 1GB boundary is left partly unmapped |
| IdMapShared | two devices in one page mix a block and a table |
| BootStack | ids come from Aff0 only; cores that differ in Aff1 share a stack |
| BootOrder | the loop skips the first node, not the boot core |
| DeviceTreeDefault | a bus that declares no cells uses those of an earlier node at its depth, not the defaults |
| DeviceTreeCycle | a cycle of clocks is followed for ever |
| InterruptsTimer | the handler knows the timer as 30, the set-up as what the tree says; where they differ it repeats for ever |
| InterruptsV2 | with GICv2 the timer's PPI is enabled on the boot core only |

That the Raspberry Pi 5 numbers its cores in Aff1 (BootStack) is knowledge about
the hardware, not about this repository.

## Proofs

Checked by TLAPS for every value of the constants:

- **SpinLock_proof** (any set of cores): `LockInvariant`, `SpinLockMutex`,
  `SpinLockImplementsMutex`. Mutual exclusion is not inductive: a core about to
  store must still see a free lock. `ArmedMeansFree` says so, and holds because
  every store disarms all monitors; `WordIsTruthful` ties the word to the cores.
  `MaxIrqs` is any natural number.
- **CharBuffer_proof** (`BufferSize` in 2..255, any characters):
  `CharBufferType`, `CharBufferZeroIffEmpty`, `CharBufferImplementsQueue`. The
  type invariant is inductive; the refinement rests on two lemmas about what
  buffer_char and read_char do to the contents, by cases on the wrap.
- **MemoryMap_proof** (any regions of natural numbers, any list size):
  `ListsCoverWhatTheyWereGiven`, `DisjointRegionsStayDisjoint`,
  `RamAndDevicesAreApart`, `KernelEndsUpReserved`. Lemmas say what one `add_region`
  does to the addresses covered and to disjointness; the invariant adds to the
  properties the types, that `given` holds what the lists were given, and how far
  the kernel is reserved in each phase of `Memory::init`. That a list with a
  mergeable region has a first one is the well-foundedness of the naturals.
- **Interrupts_proof**, first for Boot (any boards, any number of cores; each board
  a `GoodBoard`: distinct Aff0 below `NCPUS`, the boot core 0.0):
  `CoresRunOnWhatIsSetUp`, `IrqsReadyStaysTrue`. Neither is
  inductive. The invariant `IInv` says per core what holds at its `pc` (`CoreOK`),
  for the boot core what is set up at each step of `kern_main` (`BootOK`), and that
  a secondary core runs, or `_irqs_ready` is set, only when the boot core is
  `Ready`: everything shared is set up and it takes IRQs itself. Two lemmas carry
  the steps: a step of one core that leaves what is shared alone (`OneCore`), and a
  step of the boot core while nobody else runs (`BootAlone`). Then for Interrupts
  (the same, any number of events): `BootHoldsUnderInterrupts`, because every step
  of Interrupts is a step of Boot or leaves its variables alone; and
  `InterruptsAreEnded`, which is inductive with the types of `irq` and `active` and
  asks nothing of the board.
- **Uart_proof** (any secondary cores, messages, received characters and
  `BufferSize` in 2..255): `UartTypes`, `RxIsNeverDisabled`, `ReadsFindACharacter`,
  although cores and handler race on the ring and on IMSC. `Control` says which
  locals go with which `pc`: who is about to store IMSC has loaded it with the RX
  bit set, and who has seen RX in MIS and not read DR yet still has a character
  there, since only the handler takes one out. `SynchronousSendsDrain` needs
  `BufferSize > 2`, because one call may put `\r` and `\n` in. Its invariant
  `Sync` follows the one context that can send before `_irqs_ready` (core 0's
  thread, then its handler) through every access: the index it holds is the one in
  memory, and the ring holds nothing but the character of this call.
- **IdMap_proof** and **IdMapExact_proof** (any page size, fanout, number of
  gigabytes, pool of L3 tables and lists of regions inside the tables):
  `TwoTablesSuffice`, `DescriptorsStay`, `IdentityMap`, the last two on
  `WellPlaced` boards. `Located` says where the loops are; in particular the
  address is a multiple of the page size inside the rounded region. `Counted`
  bounds the L3 tables: one for the L2 entry in which a region starts, and a second
  only once less than an entry is left (`InTail`). `Exact` gives every entry of
  every table as a function of the RAM regions done and of the device addresses
  mapped so far (`Tables`), and that no two L2 entries share an L3 table
  (`OneEntryEach`); a table walk of such tables is the identity (`WalkIsIntended`).
- **Algorithms_proof** (any word width, formats, strings and lists of any length,
  any clock and rate): `NumbersAreLegible`, `FormatsAreObeyed`,
  `CompatibleListsAreSearched`, `BaudRateIsMet`. `Computed` says that a call
  returned what the function of its loop gives; what that function gives is shown
  by taking the least counterexample: of a number, of the characters that are left
  of a format, of the bytes that are left of a list. That the recursions are well
  founded (quotients get nearer to zero, offsets get larger) is proved first, as
  it is what makes them definitions.

The assumptions on constants (`BufferSizeAssumption`, `MessagesAssumption`,
`InputAssumption`, `BoardsAssumption`, `AlgorithmsAssumption` and the others) are
evaluated by TLC in the runs; `MCBoot` checks that its boards are `GoodBoard`s.

Only model-checked:

- all liveness: it needs ENABLED, which is outside TLAPS here;
- `TxChannelUntilOverlap`: the refinement mapping reads the ring and the locals of the
  context in the middle of `buffer_char` and `read_char`, and the proof would have
  to follow one context at a time through every access, as `Sync` does, after
  interrupts are ready too;
- DeviceTree: its invariants compare the walk with the nesting of the whole token
  sequence, through the stack of frames and every handler.

## Not modelled

- `exception_handler` and `exception_entry`: they print registers and then spin or
  return; the faults that lead there are in no module. A class other than UDF and
  data abort returns to the faulting instruction and so repeats.
- RAM or devices above 512GB, which index past `L1_ID_PAGE_TABLE`: nothing in the
  code checks it, and `InputAssumption` of IdMap keeps the regions inside.
- The message of a failed CPU_ON, printed without `_print_lock`: `uart_smp` shows
  that unlocked printing keeps the indexes and IMSC sound, though not the text.
- The byte level of the blob (byte order, alignment, offsets into the strings
  block), `reserve_entry` beyond the entries it yields, and 64-bit wrap of
  addresses.
- MAIR, TCR, TTBR, SCTLR and the bit layout of registers: constants without control.
- `recv_sync`, `send_char_sync`, `send_str_sync`, `disable_interrupt`, GICv3's
  `set_interrupt_routing`, `Timer::enable` and `disable`: nothing calls them.
- `memset`, `memcpy`, `strcmp`: assignment and equality where modelled code uses
  them.
- What a panic prints, beyond its effect on the TX interrupt (`ThreadPrints`).
