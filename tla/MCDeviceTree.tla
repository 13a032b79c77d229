---------------------------- MODULE MCDeviceTree ----------------------------
(***************************************************************************)
(* Device trees built from what a board has: each builder puts the same    *)
(* facts into the properties, in cells, and into "truth".                  *)
(***************************************************************************)
EXTENDS DeviceTree

(* FlattenSeq, as a definition that TLC evaluates once in a constant.      *)
Concat(seqs) ==
    LET upto[k \in 0 .. Len(seqs)] == IF k = 0 THEN << >> ELSE upto[k - 1] \o seqs[k]
    IN  upto[Len(seqs)]

Truth(regions, intids, clock, enabled) ==
    [regions |-> regions, intids |-> intids, clock |-> clock, enabled |-> enabled]
Nothing == Truth(<< >>, << >>, 0, TRUE)
Node(name, depth, props, truth) == [name |-> name, depth |-> depth, props |-> props, truth |-> truth]

Str(name, strings) == Prop(name, strings, << >>)
Num(name, cells) == Prop(name, << >>, cells)
CellProps(a, s) == <<Num("#address-cells", <<a>>), Num("#size-cells", <<s>>)>>

(* A number in n cells.                                                    *)
Enc(x, n) == CASE n = 0 -> << >> [] n = 1 -> <<x>>
               [] OTHER -> [k \in 1 .. n - 2 |-> 1] \o <<x \div CellBase, x % CellBase>>

(* "reg" for regions that the bus sees moved down by "shift".              *)
Reg(a, s, regions, shift) ==
    Num("reg", Concat([k \in DOMAIN regions |->
                   Enc(regions[k]._start - shift, a) \o Enc(regions[k]._size, s)]))

(* Interrupts in n cells; PPIs have numbers below 32.                      *)
Interrupts(n, ids) ==
    Num("interrupts", Concat([k \in DOMAIN ids |->
        (IF ids[k] < 32 THEN <<1, ids[k] - 16>> ELSE <<0, ids[k] - 32>>) \o [j \in 1 .. n - 2 |-> 4]]))

-----------------------------------------------------------------------------
Root(a, s) == <<Node("", 0, CellProps(a, s) \o <<Num("interrupt-parent", <<1>>)>>, Nothing)>>

Gic(a, s, compatible, n) ==
    LET regions == <<Region(1, 1), Region(3, 1)>>
    IN  <<Node("intc", 1, <<Str("compatible", compatible), Num("phandle", <<1>>),
                            Num("#interrupt-cells", <<n>>), Reg(a, s, regions, 0)>>,
               Truth(regions, << >>, 0, TRUE))>>

(* The UART's clock, alone or behind a clock that has no frequency.        *)
Clocks(nested) ==
    IF nested THEN <<Node("clk", 1, <<Num("clocks", <<3>>), Num("phandle", <<2>>)>>, Nothing),
                     Node("osc", 1, <<Num("phandle", <<3>>), Num("clock-frequency", <<9>>)>>, Nothing)>>
    ELSE <<Node("clk", 1, <<Num("phandle", <<2>>), Num("clock-frequency", <<9>>)>>, Nothing)>>

Uart(depth, a, s, n, at, shift, more, ok) ==
    Node("serial@" \o ToString(at), depth,
         <<Str("compatible", <<"arm,primecell", "arm,pl011">>), Reg(a, s, <<Region(at, 1)>>, shift),
           Interrupts(n, <<33>>), Num("clocks", <<2>>)>> \o more,
         Truth(<<Region(at, 1)>>, <<33>>, 9, ok))

(* A bus; each of its ranges moves four addresses, to those of a parent    *)
(* with pa address cells.                                                  *)
Bus(name, depth, a, s, ranges) ==
    Node(name, depth, CellProps(a, s) \o <<Str("compatible", <<"simple-bus">>)>> \o ranges, Nothing)
Ranges(pa, a, s, list) ==
    <<Num("ranges", Concat([k \in DOMAIN list |->
        Enc(list[k][1], a) \o Enc(list[k][2], pa) \o Enc(4, s)]))>>

SocModes == <<"none", "empty", "edge", "two", "nested", "pair">>

(* The buses, and how the UART is found on the last of them.               *)
Via(buses, a, s, at, shift) == [buses |-> buses, a |-> a, s |-> s, at |-> at, shift |-> shift]

Layout(pa, mode) ==
    CASE mode \in {"none", "pair"} -> Via(<<Bus("soc", 1, 1, 1, << >>)>>, 1, 1, 8, 0)
      [] mode = "empty"  -> Via(<<Bus("soc", 1, 2, 1, <<Num("ranges", << >>)>>)>>, 2, 1, 8, 0)
      [] mode = "edge"   -> Via(<<Bus("soc", 1, 1, 1, Ranges(pa, 1, 1, << <<2, 10>> >>))>>, 1, 1, 13, 8)
      [] mode = "two"    -> Via(<<Bus("soc", 1, 3, 2, Ranges(pa, 3, 2, << <<0, 4>>, <<4, 11>> >>)),
                                 Node("bridge", 2, CellProps(1, 1) \o
                                      Ranges(3, 1, 1, << <<0, 4>> >>), Nothing)>>, 1, 1, 12, 11)
      [] mode = "nested" -> Via(<<Bus("soc", 1, 1, 1, Ranges(pa, 1, 1, << <<4, 8>> >>)),
                                 Bus("bus", 2, 2, 1, Ranges(1, 2, 1, << <<0, 5>> >>))>>, 2, 1, 11, 9)
      [] mode = "deep"   -> Via([d \in 1 .. 3 |-> Bus("bus" \o ToString(d), d, 1, 1, << >>)], 1, 1, 8, 0)

UartOn(l, n, at, more, ok) == Uart(Len(l.buses) + 1, l.a, l.s, n, at, l.shift, more, ok)
Uarts(l, n, mode, more, ok) ==
    l.buses \o [k \in 1 .. IF mode = "pair" THEN 2 ELSE 1 |->
                    IF k = 1 THEN UartOn(l, n, l.at, more, ok)
                    ELSE UartOn(l, n, l.at + 2, <<Str("status", <<"disabled">>)>>, FALSE)]
Soc(pa, n, mode, more, ok) == Uarts(Layout(pa, mode), n, mode, more, ok)

-----------------------------------------------------------------------------
Memory(a, s, at) ==
    <<Node("memory@" \o ToString(at), 1,
           <<Str("device_type", <<"memory">>), Reg(a, s, <<Region(at, 2)>>, 0)>>,
           Truth(<<Region(at, 2)>>, << >>, 0, TRUE))>>

Cpu(k, method) ==
    Node("cpu@" \o ToString(k), 2,
         <<Str("device_type", <<"cpu">>), Reg(1, 0, <<Region(k, 0)>>, 0),
           Str("enable-method", <<method>>), Num("cpu-release-addr", <<0, 14>>)>>,
         Truth(<<Region(k, 0)>>, << >>, 0, TRUE))

(* The processors, and a node about their topology before or after them.   *)
Cpus(number, map) ==
    LET cpus == [k \in 1 .. number |-> Cpu(k - 1, IF k = 2 THEN "spin-table" ELSE "psci")]
        topology == <<Node("cpu-map", 2, << >>, Nothing)>>
    IN  <<Node("cpus", 1, CellProps(1, 0), Nothing)>>
        \o (IF map = "before" THEN topology ELSE << >>) \o cpus
        \o (IF map = "after" THEN topology ELSE << >>)

Timer(n, ids) == <<Node("timer", 1, <<Interrupts(n, ids), Str("compatible", <<"arm,armv8-timer">>)>>,
                        Truth(<< >>, ids, 0, TRUE))>>
Psci(method, cpu_on) ==
    <<Node("psci", 1, <<Str("compatible", <<"arm,psci-1.0", "arm,psci-0.2">>),
                        Str("method", <<method>>)>> \o cpu_on, Nothing)>>
Aliases == <<Node("aliases", 1, <<Str("serial0", <<"/soc/serial">>)>>, Nothing)>>

-----------------------------------------------------------------------------
(* The items of a tree: before a node begins, those end that it is not in. *)
Ends(n) == [k \in 1 .. n |-> Item("EndNode", "", NoProp)]
Items(tree) ==
    Concat([k \in DOMAIN tree |->
        (IF k = 1 THEN << >> ELSE Ends(tree[k - 1].depth - tree[k].depth + 1))
        \o <<Item("BeginNode", tree[k].name, NoProp)>>
        \o [j \in DOMAIN tree[k].props |-> Item("Prop", "", tree[k].props[j])]])
    \o Ends(tree[Len(tree)].depth + 1) \o <<Item("End", "", NoProp)>>

Fdt(tree, valid) ==
    [null |-> FALSE, _magic |-> TRUE, _version |-> 17, _totalsize |-> 40,
     blocks |-> {[off |-> 8, size |-> 16], [off |-> 24, size |-> 16]},
     items |-> Items(tree), tree |-> tree, valid |-> valid, complete |-> TRUE]

Cut(b, k) == [b EXCEPT !.items = [SubSeq(@, 1, k) EXCEPT ![k].whole = FALSE], !.complete = FALSE, !.valid = FALSE]
WithNop(b, k) == [b EXCEPT !.items = SubSeq(@, 1, k) \o <<Item("Nop", "", NoProp)>>
                                     \o SubSeq(@, k + 1, Len(@))]

(* The orders of four blocks, and the choice that digit k makes in a list. *)
Order(k) == InsertAt(InsertAt(InsertAt(<<1>>, 1 + (k % 2), 2), 1 + ((k \div 2) % 3), 3), 1 + (k \div 6), 4)
InOrder(o, blocks) == Concat([k \in DOMAIN o |-> blocks[o[k]]])
Pick(list, k) == list[1 + (k % Len(list))]

-----------------------------------------------------------------------------
No == << >>
CpuOn == <<Num("cpu_on", <<5>>)>>
Okay == <<Str("status", <<"okay">>)>>
Disabled == <<Str("status", <<"disabled">>)>>
V2 == <<"arm,gic-400">>
V3 == <<"arm,gic-v3">>
Two == <<"arm,cortex-a15-gic", "arm,gic-400">>

(* Every order of the nodes that refer to one another, on every bus.       *)
Boards(a, mode) ==
    [k \in 1 .. 24 |->
        Fdt(Root(a, a) \o Cpus(2, "none") \o Memory(a, a, 20) \o
            InOrder(Order(k - 1), <<Gic(a, a, V2, 3), Clocks(a = 2),
                                    Soc(a, 3, mode, No, TRUE), Timer(3, <<29, 30>>)>>), TRUE)]
OnBuses(a) == Concat([k \in DOMAIN SocModes |-> Boards(a, SocModes[k])])

(* What a node may say of itself.                                          *)
Variant(number, map, compatible, method, cpu_on, n, status) ==
    Fdt(Root(2, 1) \o Cpus(number, map) \o Psci(method, cpu_on) \o Clocks(FALSE)
        \o Soc(2, n, "none", status, status # Disabled) \o Gic(2, 1, compatible, n)
        \o Timer(n, <<30>>) \o Memory(2, 1, 20) \o Memory(2, 1, 22),
        method # "none" /\ compatible # Two)

Options ==
    [k \in 1 .. 18 |-> <<Pick(<<2, 3>>, k), Pick(<<"none", "before", "after">>, k \div 2),
                         Pick(<<V2, V3, Two>>, k \div 6), "smc", No, 3, No>>]
    \o [k \in 1 .. 36 |-> <<2, "none", V3, Pick(<<"hvc", "smc", "none">>, k),
                            Pick(<<No, CpuOn>>, k \div 3),
                            Pick(<<2, 3>>, k \div 6), Pick(<<No, Okay, Disabled>>, k \div 12)>>]
VariantOf(c) == Variant(c[1], c[2], c[3], c[4], c[5], c[6], c[7])
Variants == [k \in 1 .. 54 |-> VariantOf(Options[k])]

(* The limits: depth, interrupts, phandles and properties; a node that is  *)
(* ignored, and one with nothing to say, behind one that is handled; and   *)
(* references to nothing.                                                  *)
Extra(k) == [j \in 1 .. k |-> Num("extra" \o ToString(j), <<j>>)]
Trees(gic, clock, clocks, soc, deep) ==
    << clock \o gic \o deep,
       clock \o gic \o Timer(2, <<27, 29, 30>>),
       clocks \o <<Node("x", 1, <<Num("phandle", <<7>>)>>, Nothing)>> \o gic,
       clocks \o gic \o Aliases,
       clocks \o gic \o Cpus(2, "none"),
       soc[2] \o clock \o gic,
       soc[3] \o clock \o gic,
       soc[4] \o clock \o gic,
       soc[0] \o clocks \o gic,
       soc[0] \o gic,
       clock \o soc[0],
       Memory(1, 2, 20) >>
LimitsOf(trees) == [k \in DOMAIN trees |-> Fdt(Root(1, 1) \o trees[k], k <= 9)]
Limits ==
    LimitsOf(Trees(Gic(1, 1, V3, 2), Clocks(FALSE), Clocks(TRUE),
                   [k \in 0 .. 4 |-> Soc(1, 2, "none", Extra(k), TRUE)], Soc(1, 2, "deep", No, TRUE)))

(* A block that is cut off anywhere, NOPs anywhere, and bad headers.       *)
Sample == Fdt(Root(1, 1) \o Cpus(1, "none") \o Clocks(TRUE) \o Gic(1, 1, V3, 3) \o
              Soc(1, 3, "nested", Okay, TRUE), TRUE)
DamagedOf(b) ==
    [k \in DOMAIN b.items |-> Cut(b, k)] \o [k \in DOMAIN b.items |-> WithNop(b, k - 1)]
    \o <<[b EXCEPT !.null = TRUE], [b EXCEPT !._magic = FALSE],
         [b EXCEPT !._version = 16], [b EXCEPT !._totalsize = 39]>>
Damaged == DamagedOf(Sample)

AllBlobs == Concat([a \in 1 .. 2 |-> OnBuses(a)]) \o Variants \o Limits \o Damaged

(* A LET, which keeps TLC's coverage from expanding it wherever Blobs is.  *)
MCBlobs == LET all == AllBlobs IN all
StaleBlobs == Limits

(* Two clocks that are each other's parent; a bus that leaves its cells to *)
(* the default, behind one that does not.                                  *)
Cycle ==
    <<Fdt(Root(1, 1) \o Soc(1, 2, "none", No, TRUE) \o Gic(1, 1, V3, 2) \o
          <<Node("clk", 1, <<Num("phandle", <<2>>), Num("clocks", <<3>>)>>, Nothing),
            Node("osc", 1, <<Num("phandle", <<3>>), Num("clocks", <<2>>)>>, Nothing)>>, FALSE)>>
CycleBlobs == Cycle
Default ==
    <<Fdt(Root(1, 1) \o Cpus(1, "none") \o Clocks(FALSE) \o Gic(1, 1, V3, 2) \o
          <<Node("soc", 1, <<Str("compatible", <<"simple-bus">>)>>, Nothing),
            Uart(2, 2, 1, 2, 8, 0, No, TRUE)>>, TRUE)>>
DefaultBlobs == Default
=============================================================================
