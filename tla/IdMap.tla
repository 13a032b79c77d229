------------------------------- MODULE IdMap --------------------------------
(***************************************************************************)
(* MMU::setup_idmap_page_tables (memory/mmu.cpp): the identity map that    *)
(* the boot core builds from the RAM and device regions before it turns    *)
(* the MMU on, for a granule of PageSize and tables of Fanout entries.     *)
(*                                                                         *)
(* Descriptors are only ever or-ed into zeroed tables, so an entry is what *)
(* has been or-ed into it so far: it is a good descriptor when each of its *)
(* fields has been given one value.                                        *)
(***************************************************************************)
EXTENDS RegionList, Functions, FiniteSets

CONSTANTS PageSize,             \* L3_ENTRY_SIZE
          Fanout,               \* entries of a table
          NumL1,                \* L1 entries in use
          MaxNumL3PageTables,
          RamInput, DevInput    \* the regions device trees name, as sequences

L3_ENTRY_SIZE == PageSize
L2_ENTRY_SIZE == Fanout * L3_ENTRY_SIZE
L1_ENTRY_SIZE == Fanout * L2_ENTRY_SIZE

Address == 0 .. NumL1 * L1_ENTRY_SIZE - 1

ASSUME SizesAssumption ==
    /\ PageSize \in Nat \ {0} /\ Fanout \in Nat \ {0} /\ NumL1 \in Nat \ {0}
    /\ MaxNumL3PageTables \in Nat

(* The lists hold at most MaxNumRegions - 1 regions (add_region's          *)
(* precondition), and the tables reach every region.                       *)
ASSUME InputAssumption ==
    \A s \in RamInput \cup DevInput :
        /\ s \in Seq(Regions) /\ Len(s) <= MaxNumRegions - 1
        /\ \A j \in DOMAIN s : End(s[j]) <= NumL1 * L1_ENTRY_SIZE

VARIABLES ram, device,  \* Memory::ram_regions(), Memory::device_regions()
          L1, L2,       \* the tables; the L2 tables lie one after another
          L3,           \* the L3 tables allocated so far
          pc, i, addr,  \* where setup_idmap_page_tables is
          wild          \* a descriptor was written outside the tables

vars == <<ram, device, L1, L2, L3, pc, i, addr, wild>>

Zero == [type |-> {}, out |-> {}, attr |-> {}]
Table(next) == [type |-> {"table"}, out |-> {next}, attr |-> {}]
Block(phys, attr) == [type |-> {"block"}, out |-> {phys}, attr |-> {attr}]
Page(phys) == [type |-> {"page"}, out |-> {phys}, attr |-> {"device"}]

(* The |= of the pte_ functions, and pte_is_valid.                         *)
Or(e, d) == [f \in DOMAIN e |-> e[f] \cup d[f]]
(* Mutated: only a block descriptor counts as valid.                       *)
pte_is_valid_BlockOnly(e) == "block" \in e.type

pte_is_valid(e) == e.type # {}

(* A list as add_region builds it from the regions of the tree.            *)
ListOf(regions) ==
    LET list[k \in 0 .. Len(regions)] ==
          IF k = 0 THEN << >> ELSE add_region(list[k - 1], regions[k])
    IN  list[Len(regions)]

Init ==
    /\ ram \in {ListOf(s) : s \in RamInput}
    /\ device \in {ListOf(s) : s \in DevInput}
    /\ L1 = [k \in 0 .. NumL1 - 1 |-> Zero]
    /\ L2 = [k \in 0 .. NumL1 * Fanout - 1 |-> Zero]
    /\ L3 = << >>
    /\ pc = "validate" /\ i = 1 /\ addr = 0
    /\ wild = FALSE

-----------------------------------------------------------------------------
validate_device_regions ==
    /\ pc = "validate"
    /\ pc' = IF \E d \in Range(device), r \in Range(ram) : regions_overlap(d, r)
             THEN "panic" ELSE "ram"
    /\ UNCHANGED <<ram, device, L1, L2, L3, i, addr, wild>>

(* The entries a RAM region takes, counted from its first one.             *)
Entries(start, size, entry) == start \div entry .. start \div entry + size \div entry - 1

CeilDiv(a, b) == (a + b - 1) \div b

(* RAM whose size is a multiple of 1GB becomes L1 blocks; otherwise L2     *)
(* blocks under as many L1 table descriptors as the size needs; 4K pages   *)
(* are not implemented.                                                    *)
MapRam ==
    /\ pc = "ram" /\ i <= Len(ram)
    /\ LET r == ram[i]
           l1_mappings == CeilDiv(r._size, L1_ENTRY_SIZE)
           slots == r._start \div L1_ENTRY_SIZE .. r._start \div L1_ENTRY_SIZE + l1_mappings - 1
       IN  CASE r._size % L1_ENTRY_SIZE = 0 ->
                  /\ L1' = [k \in DOMAIN L1 |->
                              IF k \in Entries(r._start, r._size, L1_ENTRY_SIZE)
                              THEN Or(L1[k], Block(k * L1_ENTRY_SIZE, "normal")) ELSE L1[k]]
                  /\ UNCHANGED <<L2, pc>>
             [] r._size % L1_ENTRY_SIZE # 0 /\ r._size % L2_ENTRY_SIZE = 0 ->
                  /\ L1' = [k \in DOMAIN L1 |-> IF k \in slots THEN Or(L1[k], Table(k)) ELSE L1[k]]
                  /\ L2' = [k \in DOMAIN L2 |->
                              IF k \in Entries(r._start, r._size, L2_ENTRY_SIZE)
                              THEN Or(L2[k], Block(k * L2_ENTRY_SIZE, "normal")) ELSE L2[k]]
                  /\ UNCHANGED pc
             [] OTHER -> pc' = "panic" /\ UNCHANGED <<L1, L2>>
    /\ i' = i + 1
    /\ UNCHANGED <<ram, device, L3, addr, wild>>

RamDone ==
    /\ pc = "ram" /\ i > Len(ram)
    /\ pc' = "device" /\ i' = 1
    /\ UNCHANGED <<ram, device, L1, L2, L3, addr, wild>>

-----------------------------------------------------------------------------
align_down(a) == a - (a % L3_ENTRY_SIZE)
align_up(a)   == CeilDiv(a, L3_ENTRY_SIZE) * L3_ENTRY_SIZE

(* map_device_region: round outwards to whole pages, ...                   *)
StartRegion ==
    /\ pc = "device" /\ i <= Len(device)
    /\ addr' = align_down(device[i]._start)
    /\ pc' = "map"
    /\ UNCHANGED <<ram, device, L1, L2, L3, i, wild>>

RegionEnd == align_up(End(device[i]))

(* Mutated: only the alignment is looked at; blocks are never used.        *)
use_block_NoSize == addr % L2_ENTRY_SIZE = 0
use_block_Never  == FALSE

use_block == addr % L2_ENTRY_SIZE = 0 /\ RegionEnd - addr >= L2_ENTRY_SIZE

l1_idx == addr \div L1_ENTRY_SIZE
l2_idx == addr \div L2_ENTRY_SIZE
l3_idx == (addr % L2_ENTRY_SIZE) \div L3_ENTRY_SIZE

ensure_l2_page_table ==
    L1' = IF pte_is_valid(L1[l1_idx]) THEN L1 ELSE [L1 EXCEPT ![l1_idx] = Or(@, Table(l1_idx))]

(* ... then a block where a whole one fits, ...                            *)
map_device_l2_block ==
    /\ pc = "map" /\ addr < RegionEnd /\ use_block
    /\ ensure_l2_page_table
    /\ L2' = [L2 EXCEPT ![l2_idx] = Or(@, Block(addr, "device"))]
    /\ addr' = addr + L2_ENTRY_SIZE
    /\ UNCHANGED <<ram, device, L3, pc, i, wild>>

(* ... and a page elsewhere.  A valid L2 entry is taken for a table; when  *)
(* it is a block, the page descriptor is written into the memory it maps.  *)
NewTable == [k \in 0 .. Fanout - 1 |-> Zero]
WithPage(table) == [table EXCEPT ![l3_idx] = Or(@, Page(addr))]

map_device_l3_page ==
    /\ pc = "map" /\ addr < RegionEnd /\ ~use_block
    /\ ensure_l2_page_table
    /\ LET e == L2[l2_idx]
       IN  \/ /\ pte_is_valid(e) /\ e.type = {"table"}
              /\ LET t == CHOOSE t \in e.out : TRUE IN L3' = [L3 EXCEPT ![t] = WithPage(L3[t])]
              /\ addr' = addr + L3_ENTRY_SIZE
              /\ UNCHANGED <<L2, pc, wild>>
           \/ /\ pte_is_valid(e) /\ e.type # {"table"}
              /\ wild' = TRUE
              /\ addr' = addr + L3_ENTRY_SIZE
              /\ UNCHANGED <<L2, L3, pc>>
           \/ /\ ~pte_is_valid(e)
              /\ IF Len(L3) < MaxNumL3PageTables
                 THEN /\ L3' = Append(L3, WithPage(NewTable))
                      /\ L2' = [L2 EXCEPT ![l2_idx] = Table(Len(L3) + 1)]
                      /\ addr' = addr + L3_ENTRY_SIZE
                      /\ UNCHANGED <<pc, wild>>
                 ELSE /\ pc' = "out of L3 tables"
                      /\ UNCHANGED <<L2, L3, addr, wild>>
    /\ UNCHANGED <<ram, device, i>>

EndRegion ==
    /\ pc = "map" /\ addr >= RegionEnd
    /\ pc' = "device" /\ i' = i + 1
    /\ UNCHANGED <<ram, device, L1, L2, L3, addr, wild>>

(* setup_core_specific turns the MMU on with the tables as they are now.   *)
setup_core_specific ==
    /\ pc = "device" /\ i > Len(device)
    /\ pc' = "enabled"
    /\ UNCHANGED <<ram, device, L1, L2, L3, i, addr, wild>>

Next ==
    \/ validate_device_regions
    \/ MapRam \/ RamDone
    \/ StartRegion \/ map_device_l2_block \/ map_device_l3_page \/ EndRegion
    \/ setup_core_specific

Spec == Init /\ [][Next]_vars

-----------------------------------------------------------------------------
(* What a table walk for address a finds.                                  *)
Good(e) == Cardinality(e.type) = 1 /\ Cardinality(e.out) = 1 /\ Cardinality(e.attr) <= 1
The(S) == CHOOSE x \in S : TRUE

Fault == << >>
Garbled == <<"garbled">>

Mapping(e, a, size) ==
    IF e.type = {} THEN Fault
    ELSE IF ~Good(e) THEN Garbled
    ELSE <<The(e.out) + (a % size), The(e.attr)>>

Walk(a) ==
    LET e1 == L1[a \div L1_ENTRY_SIZE]
        e2 == L2[a \div L2_ENTRY_SIZE]
        e3 == L3[The(e2.out)][(a % L2_ENTRY_SIZE) \div L3_ENTRY_SIZE]
    IN  IF e1.type # {"table"} THEN Mapping(e1, a, L1_ENTRY_SIZE)
        ELSE IF e2.type # {"table"} THEN Mapping(e2, a, L2_ENTRY_SIZE)
        ELSE Mapping(e3, a, L3_ENTRY_SIZE)

(* The pages a device region is rounded outwards to.                       *)
Rounded(d) == Region(align_down(d._start), align_up(End(d)) - align_down(d._start))

(* Boards the code is written for: RAM starts on a boundary of the entries *)
(* that map it and needs no more L1 entries than its size says, RAM        *)
(* regions do not overlap, no two devices share a page and no device is    *)
(* empty (an empty one lies nowhere for regions_overlap, but is rounded    *)
(* outwards to a page all the same).  That devices stay clear of RAM is    *)
(* validate_device_regions' to ensure.                                     *)
WellPlaced ==
    /\ \A r \in Range(ram) :
         /\ r._size % L1_ENTRY_SIZE = 0 => r._start % L1_ENTRY_SIZE = 0
         /\ r._start % L2_ENTRY_SIZE = 0
         /\ (r._start % L1_ENTRY_SIZE) + r._size
               <= CeilDiv(r._size, L1_ENTRY_SIZE) * L1_ENTRY_SIZE
    /\ \A j, k \in DOMAIN ram : j # k => ~regions_overlap(ram[j], ram[k])
    /\ \A k \in DOMAIN device : device[k]._size # 0
    /\ \A j, k \in DOMAIN device :
         j # k => ~regions_overlap(Rounded(device[j]), Rounded(device[k]))

Intended(a) ==
    IF a \in Covered(ram) THEN <<a, "normal">>
    ELSE IF \E d \in Range(device) : a \in Bytes(Rounded(d)) THEN <<a, "device">>
    ELSE Fault

(* The types of the tables and of the position in the setup.               *)
Entry == [type : SUBSET {"table", "block", "page"}, out : SUBSET Nat,
          attr : SUBSET {"normal", "device"}]

TypeOK ==
    /\ L1 \in [0 .. NumL1 - 1 -> Entry]
    /\ L2 \in [0 .. NumL1 * Fanout - 1 -> Entry]
    /\ L3 \in Seq([0 .. Fanout - 1 -> Entry])
    /\ pc \in {"validate", "ram", "device", "map", "enabled", "panic", "out of L3 tables"}
    /\ i \in Nat /\ addr \in Nat /\ wild \in BOOLEAN

(* When the MMU goes on, the tables are exactly the identity map of the    *)
(* board: RAM as Normal, the devices' pages as Device, nothing else.       *)
IdentityMapIsExact ==
    pc = "enabled" /\ WellPlaced => ~wild /\ \A a \in Address : Walk(a) = Intended(a)

(* "an existing L3 page table is reused rather than overwritten", and more *)
(* generally no later region changes a descriptor an earlier one wrote.    *)
Grows(table, next) == \A k \in DOMAIN table : table[k].type # {} => next[k] = table[k]

DescriptorsAreStable ==
    [][WellPlaced => /\ Grows(L1, L1') /\ Grows(L2, L2')
                     /\ \A t \in DOMAIN L3 : Grows(L3[t], L3'[t])]_vars

(* A region of any size and place takes at most two L3 tables, for its     *)
(* first and for its last 2MB, so allocate_l3_page_table never runs out    *)
(* when it has two tables for each region (the code: 32 for 15).           *)
TwoTablesPerRegion ==
    /\ pc \in {"device", "map"} => Len(L3) <= 2 * (IF pc = "map" THEN i ELSE i - 1)
    /\ pc = "out of L3 tables" => MaxNumL3PageTables < 2 * (MaxNumRegions - 1)

(* The comment on step 2: "Map all RAM as Normal".                         *)
AllRamIsNormal ==
    pc = "enabled" => \A a \in Covered(ram) : Walk(a) = <<a, "normal">>

(* The comment on map_device_region: device regions do not overlap, so the *)
(* pass "can never mix a block and pages within one L2 slot".              *)
DevicesDisjoint == \A j, k \in DOMAIN device : j # k => ~regions_overlap(device[j], device[k])

BlocksAndPagesDoNotMix ==
    DevicesDisjoint => ~wild /\ \A k \in DOMAIN L2 : Cardinality(L2[k].type) <= 1
=============================================================================
