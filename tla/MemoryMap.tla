----------------------------- MODULE MemoryMap ------------------------------
(***************************************************************************)
(* Memory (memory/map.cpp): the lists of RAM, device and reserved regions  *)
(* and the order in which the boot core fills them.  The handlers of the   *)
(* device-tree nodes add RAM and device regions in whatever order the tree *)
(* lists them; setup_idmap_page_tables validates; Memory::init reserves.   *)
(* A failed precondition or assertion stops the kernel ("panic").          *)
(***************************************************************************)
EXTENDS RegionList

CONSTANTS Input,        \* the regions a device tree can name
          Kernel,       \* [_start, __kernel_end)
          MaxNodes,     \* bound: regions named by nodes of the tree
          MaxReserve    \* bound: entries of the memory reservation block

ASSUME InputAssumption == Input \subseteq Regions /\ Kernel \in Regions

VARIABLES _ram_regions, _device_regions, _reserved_regions,
          phase,        \* where kern_main is
          given         \* history: the regions each list was given, in order

lists == <<_ram_regions, _device_regions, _reserved_regions>>
vars == <<lists, phase, given>>

Init ==
    /\ _ram_regions = << >> /\ _device_regions = << >> /\ _reserved_regions = << >>
    /\ phase = "parse"
    /\ given = [ram |-> << >>, device |-> << >>, reserved |-> << >>]

Panic == phase' = "panic" /\ UNCHANGED <<lists, given>>

Remember(list, r) == given' = [given EXCEPT ![list] = Append(@, r)]

MoreNodes == phase = "parse" /\ Len(given["ram"]) + Len(given["device"]) < MaxNodes

(* Memory::dt_parse, for the one reg pair of a memory node.                *)
dt_parse(r) ==
    /\ MoreNodes
    /\ \/ ~HasRoom(_ram_regions) /\ Panic
       \/ /\ HasRoom(_ram_regions)
          /\ _ram_regions' = add_region(_ram_regions, r)
          /\ Remember("ram", r)
          /\ UNCHANGED <<_device_regions, _reserved_regions, phase>>

(* record_device_region, called by the UART's and the GIC's handlers.      *)
record_device_region(r) ==
    /\ MoreNodes
    /\ \/ ~HasRoom(_device_regions) /\ Panic
       \/ /\ HasRoom(_device_regions)
          /\ _device_regions' = add_region(_device_regions, r)
          /\ Remember("device", r)
          /\ UNCHANGED <<_ram_regions, _reserved_regions, phase>>

(* validate_device_regions, once the tree is parsed.                       *)
validate_device_regions ==
    /\ phase = "parse"
    /\ IF \E i \in DOMAIN _device_regions, j \in DOMAIN _ram_regions :
              regions_overlap(_device_regions[i], _ram_regions[j])
       THEN Panic
       ELSE phase' = "hole" /\ UNCHANGED <<lists, given>>

Reserve(r, next) ==
    \/ ~HasRoom(_reserved_regions) /\ Panic
    \/ /\ HasRoom(_reserved_regions)
       /\ _reserved_regions' = add_region(_reserved_regions, r)
       /\ Remember("reserved", r)
       /\ phase' = next
       /\ UNCHANGED <<_ram_regions, _device_regions>>

(* Memory::init: the hole between the start of the RAM region that holds   *)
(* the kernel and the kernel, ...                                          *)
HoldsKernel(r) == r._start < Kernel._start /\ Kernel._start < End(r)

(* Mutated: the hole ends one address early.                               *)
init_hole_Short ==
    /\ phase = "hole"
    /\ LET holding == {i \in DOMAIN _ram_regions : HoldsKernel(_ram_regions[i])}
       IN  IF holding = {}
           THEN phase' = "entries" /\ UNCHANGED <<lists, given>>
           ELSE \E i \in holding :
                  Reserve(Region(_ram_regions[i]._start,
                                 Kernel._start - _ram_regions[i]._start - 1), "entries")

init_hole ==
    /\ phase = "hole"
    /\ LET holding == {i \in DOMAIN _ram_regions : HoldsKernel(_ram_regions[i])}
           first   == CHOOSE i \in holding : \A j \in holding : i <= j
           start   == _ram_regions[first]._start
       IN  IF holding = {}
           THEN phase' = "entries" /\ UNCHANGED <<lists, given>>
           ELSE Reserve(Region(start, Kernel._start - start), "entries")

(* ... the entries of the memory reservation block, ...                    *)
init_entry(r) ==
    /\ phase = "entries"
    /\ Len(given["reserved"]) < MaxReserve
    /\ Reserve(r, "entries")

(* ... the kernel, and the device tree itself.                             *)
init_kernel == phase = "entries" /\ Reserve(Kernel, "fdt")

init_fdt(r) == phase = "fdt" /\ Reserve(r, "done")

Next ==
    \/ \E r \in Input : dt_parse(r) \/ record_device_region(r) \/ init_entry(r) \/ init_fdt(r)
    \/ validate_device_regions
    \/ init_hole
    \/ init_kernel

Spec == Init /\ [][Next]_vars

-----------------------------------------------------------------------------
TypeOK ==
    /\ \A l \in {_ram_regions, _device_regions, _reserved_regions} :
          l \in Seq(Regions) /\ Len(l) < MaxNumRegions
    /\ phase \in {"parse", "hole", "entries", "fdt", "done", "panic"}

(* However regions are merged, and in whatever order they come, a list     *)
(* covers exactly the addresses it was given: add_region loses no memory   *)
(* and invents none.                                                       *)
CoversWhatItWasGiven ==
    /\ Covered(_ram_regions) = Covered(given["ram"])
    /\ Covered(_device_regions) = Covered(given["device"])
    /\ Covered(_reserved_regions) = Covered(given["reserved"])

(* Regions that were disjoint when they were added stay disjoint, so that  *)
(* no address is mapped or reserved through two entries.                   *)
Disjoint(list) == \A i, j \in DOMAIN list : i # j => ~regions_overlap(list[i], list[j])
DisjointStaysDisjoint ==
    Disjoint(given["ram"]) => Disjoint(_ram_regions)

(* Once the device regions are validated, no address is both RAM and       *)
(* device memory, and it stays that way.                                   *)
RamIsNotDevice ==
    phase \in {"hole", "entries", "fdt", "done"}
        => Covered(_ram_regions) \cap Covered(_device_regions) = {}

(* After Memory::init, the kernel image and everything between the start   *)
(* of its RAM and the kernel is reserved.                                  *)
KernelIsReserved ==
    phase = "done" =>
        /\ Bytes(Kernel) \subseteq Covered(_reserved_regions)
        /\ Disjoint(_ram_regions) =>
              \A i \in DOMAIN _ram_regions : HoldsKernel(_ram_regions[i]) =>
                 _ram_regions[i]._start .. Kernel._start - 1 \subseteq Covered(_reserved_regions)
=============================================================================
