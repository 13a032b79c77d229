----------------------------- MODULE DeviceTree -----------------------------
(***************************************************************************)
(* DeviceTree::parse_frames (DeviceTree.cpp): two walks over the flattened *)
(* tree with a stack of node frames.  The first records what other nodes   *)
(* refer to by phandle; the second hands every node, when it ends, to the  *)
(* handlers of the subsystems it matches: dt_parse of PSCI, UART, Memory,  *)
(* CPU, Timer and GIC.  The frame of a depth is used again by the next     *)
(* node at that depth.  A failed check stops the kernel ("panic").         *)
(***************************************************************************)
EXTENDS FdtParser, RegionList, FiniteSets, SequencesExt

CONSTANTS Blobs,                        \* a sequence of device trees: header, items, the tree they encode
          MaxNodeDepth, MaxPropsPerNode, PhandleNodeMappingCapacity,
          MaxSupportedCpus,
          Capacity,                     \* of DeviceTree::Interrupts
          CellBase                      \* 2^32 in the code: the values of a cell

ASSUME DeviceTreeAssumption ==
    \A n \in {MaxNodeDepth, MaxPropsPerNode, PhandleNodeMappingCapacity, MaxSupportedCpus,
              Capacity, CellBase} : n \in Nat \ {0}

Handler(string, kind, node) == [_match_string |-> string, _match_kind |-> kind, _on_node |-> node]

_node_handlers ==
    << Handler("arm,psci-1.0", "compatible", "PSCI"),
       Handler("arm,pl011", "compatible", "UART"),
       Handler("memory", "device_type", "Memory"),
       Handler("cpu", "device_type", "CPU"),
       Handler("arm,armv8-timer", "compatible", "Timer"),
       Handler("arm,gic-400", "compatible", "GICv2"),
       Handler("arm,cortex-a15-gic", "compatible", "GICv2"),
       Handler("arm,gic-v3", "compatible", "GICv3") >>

VARIABLES
    fdt,                    \* which blob it is; it never changes
    pass,                   \* "phandle" or "full"
    q,                      \* the Parser of this pass
    frame, _top,            \* its ParsingFrame
    _phandle_node_mapping,
    pc,                     \* where parse_frames is
    h, phandle,             \* loop variables: of dispatch_if_prop_match, of the clock lookup
    dev,                    \* what the handlers recorded, one field per subsystem
    _ram_regions, _device_regions,
    calls                   \* history: the handler calls, in order

walk == <<fdt, pass, q, frame, _top, _phandle_node_mapping>>
found == <<dev, _ram_regions, _device_regions>>
vars == <<walk, pc, h, phandle, found, calls>>

Blob == Blobs[fdt]

PSCI_CPU_ON == 3            \* function number of the default 0xC4000003

DefaultCells == [_address |-> 2, _size |-> 1, _interrupt_parent |-> 0]

NodeFrame == [_name |-> "", _parent_cells |-> DefaultCells, _own_cells |-> DefaultCells,
              _nprops |-> 0, _compatible_prop_idx |-> -1, _device_type_prop_idx |-> -1,
              _props |-> [k \in 0 .. MaxPropsPerNode - 1 |-> NoProp]]

ParsingFrame == [d \in 0 .. MaxNodeDepth - 1 |-> NodeFrame]

NoDevices == [uart |-> 0, _uart_clock_frequency |-> 0, _uart_interrupts |-> << >>,
              _timer_interrupts |-> << >>, _driver |-> "none", gic |-> << >>,
              cpus |-> << >>, PSCI_CPU_ON |-> PSCI_CPU_ON, PSCI_METHOD |-> "smc"]

Init ==
    /\ fdt \in DOMAIN Blobs
    /\ pass = "phandle" /\ pc = "init"
    /\ q = FreshParser /\ frame = ParsingFrame /\ _top = 0
    /\ _phandle_node_mapping = << >>
    /\ h = 1 /\ phandle = 0
    /\ dev = NoDevices /\ _ram_regions = << >> /\ _device_regions = << >>
    /\ calls = << >>

-----------------------------------------------------------------------------
(* Reading a frame.                                                        *)
Indexes(f, name) == {k \in 0 .. f._nprops - 1 : f._props[k]._name = name}
Has(f, name) == Indexes(f, name) # {}
find_prop(f, name) == f._props[Min(Indexes(f, name))]
Cells(f, name) == IF Has(f, name) THEN find_prop(f, name)._cells ELSE << >>
read_u32(f, name) == IF Has(f, name) THEN Cells(f, name)[1] ELSE 0

(* n cells from position k on as one number of 64 bits (two cells).        *)
read_cells(cells, k, n) ==
    LET v[j \in 0 .. n] == IF j = 0 THEN 0
                           ELSE (v[j - 1] * CellBase + cells[k + j - 1]) % (CellBase * CellBase)
    IN  v[n]

read_reg_pair(nc, cells, k) ==
    Region(IF nc._address \in {1, 2} THEN read_cells(cells, k, nc._address) ELSE 0,
           IF nc._size \in {1, 2} THEN read_cells(cells, k + nc._address, nc._size) ELSE 0)

total(nc) == nc._address + nc._size

(* The pairs of "reg", and the assertion every reader makes about it.      *)
reg_pairs(f) ==
    LET cells == Cells(f, "reg")
        n == total(f._parent_cells)
    IN  [j \in 1 .. Len(cells) \div n |->
            read_reg_pair(f._parent_cells, cells, (j - 1) * n + 1)]

BadReg(f) == Has(f, "reg") /\ Len(Cells(f, "reg")) % total(f._parent_cells) # 0

(* translate_address: one bus, then all from the parent of frame d up.     *)
Through(bus, address) ==
    LET ranges == Cells(bus, "ranges")
        child  == bus._own_cells._address
        parent == bus._parent_cells._address
        n      == child + parent + bus._own_cells._size
        child_base(t)  == read_cells(ranges, t * n + 1, child)
        parent_base(t) == read_cells(ranges, t * n + 1 + child, parent)
        length(t)      == read_cells(ranges, t * n + 1 + child + parent, bus._own_cells._size)
        fitting == {t \in 0 .. Len(ranges) \div n - 1 :
                       child_base(t) <= address /\ address < child_base(t) + length(t)}
    IN  IF ranges = << >> \/ fitting = {} THEN address
        ELSE parent_base(Min(fitting)) + (address - child_base(Min(fitting)))

(* Mutated: only the parent's "ranges" is applied.                         *)
translate_address_OneBus(d, address) ==
    IF d = 0 THEN address ELSE Through(frame[d - 1], address)

translate_address(d, address) ==
    LET at[k \in 0 .. d] == IF k = d THEN address ELSE Through(frame[k], at[k + 1])
    IN  at[0]

(* The first mapping of a phandle, if there is one.                        *)
Mappings(ph) == {k \in DOMAIN _phandle_node_mapping : _phandle_node_mapping[k]._phandle = ph}
Mapping(ph) == _phandle_node_mapping[Min(Mappings(ph))]

(* lookup_interrupt_cells; 0 stands for its three panics.                  *)
lookup_interrupt_cells(nc) ==
    IF nc._interrupt_parent = 0 \/ Mappings(nc._interrupt_parent) = {} THEN 0
    ELSE Mapping(nc._interrupt_parent)._interrupt_cells

read_interrupt_id(cells, j, interrupt_cells) ==
    LET type   == cells[j * interrupt_cells + 1]
        number == cells[j * interrupt_cells + 2]
    IN  IF type = 0 THEN 32 + number ELSE 16 + number

(* Mutated: the last place of the array is not used.                       *)
BadInterrupts_Full(f) ==
    LET n == lookup_interrupt_cells(f._own_cells)
    IN  Has(f, "interrupts") /\ (n = 0 \/ Len(Cells(f, "interrupts")) \div n >= Capacity)

(* The loops of UART::dt_parse and Timer::dt_parse over "interrupts".      *)
BadInterrupts(f) ==
    LET n == lookup_interrupt_cells(f._own_cells)
    IN  Has(f, "interrupts") /\ (n = 0 \/ Len(Cells(f, "interrupts")) \div n > Capacity)

(* Mutated: every interrupt is taken to have three cells.                  *)
register_intids_Three(f, old) ==
    IF ~Has(f, "interrupts") THEN old
    ELSE [j \in 1 .. Len(Cells(f, "interrupts")) \div 3 |->
             read_interrupt_id(Cells(f, "interrupts"), j - 1, 3)]

register_intids(f, old) ==
    LET n == lookup_interrupt_cells(f._own_cells)
        cells == Cells(f, "interrupts")
    IN  IF ~Has(f, "interrupts") THEN old
        ELSE [j \in 1 .. Len(cells) \div n |-> read_interrupt_id(cells, j - 1, n)]

-----------------------------------------------------------------------------
(* The walk.                                                               *)
Panic == pc' = "panic" /\ UNCHANGED <<h, phandle, found, calls>>

(* "aliases", and the names that begin with two underscores.               *)
is_ignored_node(name) == name \in {"aliases", "__symbols__"}

(* The head of parse_frames_phandle and parse_frames_full.                 *)
BeginPass ==
    /\ pc = "init"
    /\ pc' = IF init_status(Blob) = "Ok" THEN "next" ELSE "error"
    /\ q' = FreshParser /\ frame' = ParsingFrame /\ _top' = 0
    /\ UNCHANGED <<fdt, pass, _phandle_node_mapping, h, phandle, found, calls>>

EndPass ==
    /\ pc = "next"
    /\ q' = next(q, Blob.items)
    /\ q'._token = "End"
    /\ IF pass = "phandle" THEN pass' = "full" /\ pc' = "init"
                           ELSE pc' = "Ok" /\ UNCHANGED pass
    /\ UNCHANGED <<fdt, frame, _top, _phandle_node_mapping, h, phandle, found, calls>>

(* Mutated: the check of the depth admits one frame too many; the frame of *)
(* a child of the root is not left.                                        *)
DepthOK_OneMore(top) == top <= MaxNodeDepth

Pop_Kept == _top' = IF _top > 1 THEN _top - 1 ELSE _top

DepthOK(top) == top < MaxNodeDepth

(* What a frame takes over from the cells of the frame below it.           *)
Inherit(f, cells) ==
    LET g == [f EXCEPT !._parent_cells = cells]
    IN  IF pass = "full" THEN [g EXCEPT !._own_cells._interrupt_parent = cells._interrupt_parent]
                         ELSE g

BeginNode ==
    /\ pc = "next"
    /\ q' = next(q, Blob.items)
    /\ q'._token = "BeginNode"
    /\ LET root == q'._node_name = ""
           cells == frame[_top]._own_cells
       IN  /\ _top' = IF root THEN _top ELSE _top + 1
           /\ \/ ~DepthOK(_top') /\ Panic /\ UNCHANGED frame
              \/ /\ DepthOK(_top')
                 /\ frame' = [frame EXCEPT ![_top'] =
                       [(IF root THEN @ ELSE Inherit(@, cells))
                           EXCEPT !._name = q'._node_name, !._nprops = 0]]
                 /\ UNCHANGED <<pc, h, phandle, found, calls>>
    /\ UNCHANGED <<fdt, pass, _phandle_node_mapping>>

(* A property goes to the next slot of the frame, and the second pass      *)
(* keeps the slots it matches handlers with; or it is one of the cells.    *)
Store(f, prop) ==
    [f EXCEPT !._props[f._nprops] = prop, !._nprops = @ + 1,
              !._compatible_prop_idx =
                  IF pass = "full" /\ prop._name = "compatible" THEN f._nprops ELSE @,
              !._device_type_prop_idx =
                  IF pass = "full" /\ prop._name = "device_type" THEN f._nprops ELSE @]

WithProp(f, prop) ==
    CASE is_ignored_node(f._name) -> f
      [] pass = "full" /\ prop._name = "#address-cells" ->
            [f EXCEPT !._own_cells._address = prop._cells[1]]
      [] pass = "full" /\ prop._name = "#size-cells" ->
            [f EXCEPT !._own_cells._size = prop._cells[1]]
      [] pass = "full" /\ prop._name = "interrupt-parent" ->
            [f EXCEPT !._own_cells._interrupt_parent = prop._cells[1]]
      [] OTHER -> Store(f, prop)

PropToken ==
    /\ pc = "next"
    /\ q' = next(q, Blob.items)
    /\ q'._token = "Prop"
    /\ frame' = [frame EXCEPT ![_top] = WithProp(@, q'._prop)]
    /\ IF frame'[_top]._nprops < MaxPropsPerNode
       THEN UNCHANGED <<pc, h, phandle, found, calls>> ELSE Panic
    /\ UNCHANGED <<fdt, pass, _top, _phandle_node_mapping>>

Pop == _top' = IF _top > 0 THEN _top - 1 ELSE 0

(* The end of a node in the first pass, which goes through all the         *)
(* properties: the last of a name stays.  The array bound is tested after  *)
(* the entry has been stored.                                              *)
NodeMapping(f) ==
    LET last(name) == IF Has(f, name) THEN f._props[Max(Indexes(f, name))]._cells[1] ELSE 0
    IN  [_phandle |-> last("phandle"), _interrupt_cells |-> last("#interrupt-cells"),
         _clock_frequency |-> last("clock-frequency"), _parent_clock |-> last("clocks")]

EndNodePhandle ==
    /\ pc = "next" /\ pass = "phandle"
    /\ q' = next(q, Blob.items)
    /\ q'._token = "EndNode"
    /\ _phandle_node_mapping' =
          IF NodeMapping(frame[_top])._phandle = 0 THEN _phandle_node_mapping
          ELSE Append(_phandle_node_mapping, NodeMapping(frame[_top]))
    /\ IF Len(_phandle_node_mapping') < PhandleNodeMappingCapacity
       THEN Pop /\ UNCHANGED <<pc, h, phandle, found, calls>>
       ELSE Panic /\ UNCHANGED _top
    /\ UNCHANGED <<fdt, pass, frame>>

EndNodeFull ==
    /\ pc = "next" /\ pass = "full"
    /\ q' = next(q, Blob.items)
    /\ q'._token = "EndNode"
    /\ pc' = "dispatch" /\ h' = 1
    /\ UNCHANGED <<fdt, pass, frame, _top, _phandle_node_mapping, phandle, found, calls>>
-----------------------------------------------------------------------------
(* dispatch_if_prop_match: every entry of the table that the list behind   *)
(* the remembered slot contains is called, in the order of the table.      *)
Matches(f, k) ==
    LET idx == IF _node_handlers[k]._match_kind = "compatible" THEN f._compatible_prop_idx
                                                              ELSE f._device_type_prop_idx
    IN  /\ idx >= 0
        /\ \E s \in DOMAIN f._props[idx]._strings :
              f._props[idx]._strings[s] = _node_handlers[k]._match_string

Dispatch ==
    /\ pc = "dispatch"
    /\ LET matching == {k \in h .. Len(_node_handlers) : Matches(frame[_top], k)}
       IN  IF matching = {}
           THEN pc' = "next" /\ Pop /\ UNCHANGED <<h, calls>>
           ELSE /\ pc' = "handler" /\ h' = Min(matching)
                /\ calls' = Append(calls, [node |-> frame[_top]._name, handler |-> h'])
                /\ UNCHANGED _top
    /\ UNCHANGED <<fdt, pass, q, frame, _phandle_node_mapping, phandle, found>>

(* The handler at hand, and the return to the loop of dispatch.            *)
On(node) == pc = "handler" /\ _node_handlers[h]._on_node = node
Return == pc' = "dispatch" /\ h' = h + 1 /\ UNCHANGED phandle

psci_dt_parse ==
    /\ On("PSCI")
    /\ LET f == frame[_top]
           cpu_on == Cells(f, "cpu_on")
           method == IF Has(f, "method") THEN find_prop(f, "method")._strings[1]
                                         ELSE dev.PSCI_METHOD
           bad == \/ Has(f, "cpu_on") /\ Len(cpu_on) \notin {1, 2}
                  \/ method \notin {"hvc", "smc"}
       IN  IF bad THEN Panic ELSE
              /\ dev' = [dev EXCEPT !.PSCI_METHOD = method,
                           !.PSCI_CPU_ON = IF Has(f, "cpu_on")
                                           THEN read_cells(cpu_on, 1, Len(cpu_on)) ELSE @]
              /\ Return /\ UNCHANGED <<_ram_regions, _device_regions, calls>>
    /\ UNCHANGED walk

(* UART::dt_parse.  A node that is not "okay" is skipped; the lookup of    *)
(* the clock's frequency follows in LookupClock.                           *)
uart_dt_parse ==
    /\ On("UART")
    /\ LET f == frame[_top]
           pairs == reg_pairs(f)
           phys == translate_address(_top, pairs[1]._start)
           skip == Has(f, "status") /\ find_prop(f, "status")._strings # <<"okay">>
           bad  == \/ BadReg(f) \/ BadInterrupts(f)
                   \/ pairs # << >> /\ ~HasRoom(_device_regions)
       IN  IF skip THEN Return /\ UNCHANGED <<found, calls>>
           ELSE IF bad THEN Panic ELSE
              /\ dev' = [dev EXCEPT !.uart = IF pairs = << >> THEN @ ELSE phys,
                                    !._uart_interrupts = register_intids(f, @)]
              /\ _device_regions' =
                    IF pairs = << >> THEN _device_regions
                    ELSE add_region(_device_regions, Region(phys, pairs[1]._size))
              /\ IF Has(f, "clocks")
                 THEN pc' = "clock" /\ phandle' = read_u32(f, "clocks") /\ UNCHANGED h
                 ELSE Return
              /\ UNCHANGED <<_ram_regions, calls>>
    /\ UNCHANGED walk

(* Mutated: the walk stays at the clock it is at.                          *)
ParentClock_Same(ph) == ph

ParentClock(ph) == Mapping(ph)._parent_clock

(* One round of the loop of lookup_clock_frequency.                        *)
LookupClock ==
    /\ pc = "clock"
    /\ \/ (phandle = 0 \/ Mappings(phandle) = {}) /\ Panic
       \/ /\ phandle # 0 /\ Mappings(phandle) # {}
          /\ Mapping(phandle)._clock_frequency # 0
          /\ dev' = [dev EXCEPT !._uart_clock_frequency = Mapping(phandle)._clock_frequency]
          /\ Return
          /\ UNCHANGED <<_ram_regions, _device_regions, calls>>
       \/ /\ phandle # 0 /\ Mappings(phandle) # {}
          /\ Mapping(phandle)._clock_frequency = 0
          /\ phandle' = ParentClock(phandle)
          /\ UNCHANGED <<pc, h, found, calls>>
    /\ UNCHANGED walk

memory_dt_parse ==
    /\ On("Memory")
    /\ LET f == frame[_top]
           pairs == reg_pairs(f)
           bad == BadReg(f) \/ Len(pairs) # 1 \/ ~HasRoom(_ram_regions)
       IN  IF ~Has(f, "reg") THEN Return /\ UNCHANGED <<found, calls>>
           ELSE IF bad THEN Panic ELSE
              /\ _ram_regions' = add_region(_ram_regions, pairs[1])
              /\ Return /\ UNCHANGED <<dev, _device_regions, calls>>
    /\ UNCHANGED walk

cpu_dt_parse ==
    /\ On("CPU")
    /\ LET f == frame[_top]
           pairs == reg_pairs(f)
           method == IF Has(f, "enable-method") THEN find_prop(f, "enable-method")._strings[1]
                                                ELSE "Unknown"
           bad == \/ Len(dev.cpus) >= MaxSupportedCpus
                  \/ method \notin {"psci", "spin-table", "Unknown"}
                  \/ Has(f, "reg") /\ (BadReg(f) \/ Len(pairs) # 1)
       IN  IF bad THEN Panic ELSE
              /\ dev' = [dev EXCEPT !.cpus = Append(@,
                    [_reg |-> IF pairs = << >> THEN 0 ELSE pairs[1]._start,
                     _enable_method |-> method,
                     _release_address |-> IF Has(f, "cpu-release-addr")
                                          THEN read_cells(Cells(f, "cpu-release-addr"), 1, 2)
                                          ELSE 0])]
              /\ Return /\ UNCHANGED <<_ram_regions, _device_regions, calls>>
    /\ UNCHANGED walk

timer_dt_parse ==
    /\ On("Timer")
    /\ IF BadInterrupts(frame[_top]) THEN Panic ELSE
          /\ dev' = [dev EXCEPT !._timer_interrupts = register_intids(frame[_top], @)]
          /\ Return /\ UNCHANGED <<_ram_regions, _device_regions, calls>>
    /\ UNCHANGED walk

(* GIC::dt_parse_v2 and dt_parse_v3: the distributor, then the CPU         *)
(* interface or the redistributors.  There is only one GIC, and its node   *)
(* has a reg: parse_dt returns uninitialized pairs when it has none.       *)
gic_dt_parse(node) ==
    /\ On(node)
    /\ LET f == frame[_top]
           pairs == reg_pairs(f)
           phys(j) == Region(translate_address(_top, pairs[j]._start), pairs[j]._size)
           after == add_region(_device_regions, phys(1))
           bad == \/ dev._driver # "none" \/ BadReg(f) \/ Len(pairs) < 2
                  \/ ~HasRoom(_device_regions) \/ ~HasRoom(after)
       IN  IF bad THEN Panic ELSE
              /\ _device_regions' = add_region(after, phys(2))
              /\ dev' = [dev EXCEPT !._driver = node, !.gic = <<phys(1)._start, phys(2)._start>>]
              /\ Return /\ UNCHANGED <<_ram_regions, calls>>
    /\ UNCHANGED walk

Next ==
    \/ BeginPass \/ EndPass \/ BeginNode \/ PropToken \/ EndNodePhandle \/ EndNodeFull
    \/ Dispatch \/ psci_dt_parse \/ uart_dt_parse \/ LookupClock \/ memory_dt_parse
    \/ cpu_dt_parse \/ timer_dt_parse \/ gic_dt_parse("GICv2") \/ gic_dt_parse("GICv3")

(* One core, with interrupts masked: the parser keeps running.             *)
Spec == Init /\ [][Next]_vars /\ WF_vars(Next)

-----------------------------------------------------------------------------
(* Blob.tree is the tree that Blob.items encodes: its nodes in the order in  *)
(* which they begin, with their depth, their properties, and in "truth"    *)
(* what the board has there.  Blob.valid: it names one GIC, and every       *)
(* phandle it refers to; Blob.complete: the block is not cut off.           *)
Tree == Blob.tree
Named(name) == Tree[CHOOSE k \in DOMAIN Tree : Tree[k].name = name]

Said(node, name) == {k \in DOMAIN node.props : node.props[k]._name = name}

Lists(node, k) ==
    \E j \in Said(node, _node_handlers[k]._match_kind), s \in 1 .. 3 :
        /\ s <= Len(node.props[j]._strings)
        /\ node.props[j]._strings[s] = _node_handlers[k]._match_string

TypeOK ==
    /\ pass \in {"phandle", "full"} /\ h \in 1 .. Len(_node_handlers) + 1
    /\ pc \in {"init", "next", "dispatch", "handler", "clock", "Ok", "error", "panic"}
    /\ pc # "panic" => /\ _top \in 0 .. MaxNodeDepth - 1
                       /\ \A d \in DOMAIN frame : frame[d]._nprops \in 0 .. MaxPropsPerNode - 1
                       /\ Len(_phandle_node_mapping) < PhandleNodeMappingCapacity
    /\ Len(dev.cpus) <= MaxSupportedCpus
    /\ Len(dev._uart_interrupts) <= Capacity /\ Len(dev._timer_interrupts) <= Capacity

(* Between two tokens, in both passes, the stack is the path to the node   *)
(* that is open, the parser's depth() is its height, and the frames below  *)
(* the top still hold what their nodes said, although children reused the  *)
(* frames above them: translate_address and the inherited cells read them. *)
Count(token) == Cardinality({k \in 1 .. q._pos - 1 : Blob.items[k].token = token})
IsCell(name) == name \in {"#address-cells", "#size-cells", "interrupt-parent"}

StackFollowsTree ==
    (pc = "next" /\ q._depth > 0) =>
        LET begun  == Count("BeginNode")
            height == begun - Count("EndNode")
            open(d) == Tree[Max({k \in 1 .. begun : Tree[k].depth = d})]
            kept(d) == SelectSeq(open(d).props, LAMBDA x : pass = "phandle" \/ ~IsCell(x._name))
        IN  /\ q._depth = height /\ _top = height - 1
            /\ \A d \in 0 .. _top : frame[d]._name = open(d).name
            /\ \A d \in 0 .. _top - 1 :
                  [k \in 1 .. frame[d]._nprops |-> frame[d]._props[k - 1]] = kept(d)

(* "Iterate over the NodeHandler entries in _node_handlers to see if this  *)
(* node should be handled": a handler is only called for a node whose own  *)
(* compatible or device_type list names it.                                *)
OnlyMatchingNodesAreHandled ==
    \A c \in DOMAIN calls : Lists(Named(calls[c].node), calls[c].handler)

(* Whatever the order and the depth of the nodes, one that has a           *)
(* compatible (device_type) list of its own is handed, once each, to       *)
(* exactly the handlers of that kind in its list; NOPs change nothing.     *)
HandledAsItSays ==
    (pc = "Ok" /\ Blob.complete) =>
        \A n \in DOMAIN Tree, k \in DOMAIN _node_handlers :
            (Said(Tree[n], _node_handlers[k]._match_kind) # {} /\ ~is_ignored_node(Tree[n].name)) =>
                Cardinality({c \in DOMAIN calls : calls[c] = [node |-> Tree[n].name, handler |-> k]})
                    = IF Lists(Tree[n], k) THEN 1 ELSE 0

(* The nodes the subsystem was called for, in order; for the UART those    *)
(* that are not switched off.                                              *)
HandledBy(subsystem) ==
    LET mine == SelectSeq(calls, LAMBDA c : _node_handlers[c.handler]._on_node = subsystem
                                            /\ Named(c.node).truth.enabled)
    IN  [k \in DOMAIN mine |-> Named(mine[k].node).truth]

Settled == pc \in {"next", "Ok"} /\ OnlyMatchingNodesAreHandled

Starts(truth) == [k \in DOMAIN truth.regions |-> truth.regions[k]._start]

(* Each subsystem ends up with the physical addresses of the board: reg is *)
(* read with the cells of the parent and taken through the ranges of every *)
(* bus above it, and what was recorded as RAM or device memory is exactly  *)
(* what the handled nodes have.                                            *)
DevicesAreWhereTheTreeSays ==
    Settled =>
        LET uarts == HandledBy("UART")
            gics  == HandledBy("GICv2") \o HandledBy("GICv3")
            all   == FlattenSeq([k \in DOMAIN uarts |-> uarts[k].regions])
                     \o FlattenSeq([k \in DOMAIN gics |-> gics[k].regions])
        IN  /\ uarts # << >> => dev.uart = uarts[Len(uarts)].regions[1]._start
            /\ gics # << >> => dev.gic = Starts(gics[1])
            /\ Covered(_device_regions) = Covered(all)
            /\ Covered(_ram_regions) = UNION {Covered(HandledBy("Memory")[k].regions) :
                                                k \in DOMAIN HandledBy("Memory")}
            /\ [k \in DOMAIN dev.cpus |-> dev.cpus[k]._reg]
                  = [k \in DOMAIN HandledBy("CPU") |-> Starts(HandledBy("CPU")[k])[1]]

(* References by phandle are resolved whether the node they name comes     *)
(* before or after: the interrupt parent of the node or of the nearest     *)
(* node above it gives the width of its interrupts, and a clock without a  *)
(* frequency hands the question to its parent clock.                       *)
ReferencesResolve ==
    Settled =>
        LET uarts == HandledBy("UART")
            timers == HandledBy("Timer")
        IN  /\ uarts # << >> => /\ dev._uart_interrupts = uarts[Len(uarts)].intids
                                /\ dev._uart_clock_frequency = uarts[Len(uarts)].clock
            /\ timers # << >> => dev._timer_interrupts = timers[Len(timers)].intids

(* A valid tree within the limits is never refused: the checks of depth,   *)
(* properties, phandles, processors and interrupts fire only beyond them.  *)
WithinLimits ==
    /\ \A n \in DOMAIN Tree : /\ Tree[n].depth < MaxNodeDepth
                              /\ Len(Tree[n].props) < MaxPropsPerNode
                              /\ Len(Tree[n].truth.intids) <= Capacity
    /\ Cardinality({n \in DOMAIN Tree : Said(Tree[n], "phandle") # {}}) < PhandleNodeMappingCapacity
    /\ Cardinality({n \in DOMAIN Tree : Lists(Tree[n], 4)}) <= MaxSupportedCpus

ValidTreesAreAccepted ==
    (Blob.valid /\ WithinLimits /\ OnlyMatchingNodesAreHandled) => pc # "panic"

(* The walk ends, whatever follows the cut of a truncated block: Parser's  *)
(* "Returns Token::End once the structure block is exhausted (and on any   *)
(* subsequent call)", and a chain of clocks without a cycle is followed to *)
(* its end.                                                                *)
ParseEnds == <>(pc \in {"Ok", "error", "panic"})
=============================================================================
