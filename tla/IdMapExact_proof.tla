-------------------------- MODULE IdMapExact_proof --------------------------
(***************************************************************************)
(* The tables are the identity map, for every page size, fan-out, number   *)
(* of tables and board: every action keeps the entries what the mapped     *)
(* part of the board says they are, so descriptors are never changed, and  *)
(* walking the finished tables of a well-placed board gives every address  *)
(* of RAM and of the devices itself, with its attribute, and no other.     *)
(***************************************************************************)
EXTENDS IdMap_proof, FiniteSetTheorems

-----------------------------------------------------------------------------
(* The steps.  The lists do not change, so the invariant after a step is   *)
(* what the tables are for the RAM and device addresses mapped by then.    *)
LEMMA SameBoard ==
    ASSUME ram' = ram, device' = device
    PROVE  (WellPlaced' <=> WellPlaced) /\ (RamAndDevicesApart' <=> RamAndDevicesApart)
BY DEF WellPlaced, RamAndDevicesApart

LEMMA SameTables ==
    ASSUME ram' = ram, NEW n, NEW M, n = Done', M = Mapped', Tables(L1', L2', L3', n, M)
    PROVE  Tables(L1, L2, L3, Done, Mapped)'
<1>1. \A a, m : (InL1(a, m) <=> InL1(a, m)') /\ (InL2(a, m) <=> InL2(a, m)')
  BY Zenon DEF InL1, InL2
<1>2. \A k \in 0 .. NumL1 - 1 : L1Is(L1, k, Done, Mapped)'
  <2> TAKE k \in 0 .. NumL1 - 1
  <2>1. L1Is(L1', k, n, M)
    BY DEF Tables
  <2> QED BY <1>1, <2>1 DEF L1Is, InL1, InL2
<1>3. \A k \in 0 .. NumL1 * Fanout - 1 : L2Is(L2, L3, k, Done, Mapped)'
  <2> TAKE k \in 0 .. NumL1 * Fanout - 1
  <2>1. L2Is(L2', L3', k, n, M)
    BY DEF Tables
  <2> QED BY <1>1, <2>1 DEF L2Is, InL2, Serves
<1>4. OneEntryEach(L2, L3)'
  BY DEF Tables, OneEntryEach
<1> QED BY <1>2, <1>3, <1>4 DEF Tables

LEMMA ExactNext ==
    ASSUME ram' = ram, device' = device, NEW n, NEW M, n = Done', M = Mapped',
           pc' # "validate",
           pc' \in {"ram", "device", "map", "enabled"} /\ WellPlaced =>
             /\ wild' = FALSE
             /\ RamAndDevicesApart
             /\ \A j \in 1 .. n : ram[j]._size % L2_ENTRY_SIZE = 0
             /\ Tables(L1', L2', L3', n, M)
    PROVE  Exact'
<1>1. (WellPlaced' <=> WellPlaced) /\ (RamAndDevicesApart' <=> RamAndDevicesApart)
  BY SameBoard
<1>2. Tables(L1', L2', L3', n, M) => Tables(L1, L2, L3, Done, Mapped)'
  BY SameTables
<1> QED
  BY <1>1, <1>2 DEF Exact

(* Nothing of the devices is mapped while RAM is.                          *)
LEMMA NothingMapped ==
    ASSUME ListOK(device), pc = "ram" \/ (i = 1 /\ pc # "map")
    PROVE  Mapped = {}
<1>1. \A j \in DOMAIN device : j \in Nat /\ ~(j < 1)
  BY DEF ListOK
<1> QED
  BY <1>1 DEF Mapped

(* What DescriptorsAreStable says of a step.                               *)
Stable ==
    /\ Grows(L1, L1') /\ Grows(L2, L2')
    /\ \A t \in DOMAIN L3 : Grows(L3[t], L3'[t])

LEMMA StableIfSame ==
    ASSUME UNCHANGED <<L1, L2, L3>>
    PROVE  Stable
BY DEF Stable, Grows

LEMMA ValidateExact ==
    ASSUME Located, Counted, Exact, validate_device_regions
    PROVE  Exact' /\ Stable
<1>1. /\ pc = "validate" /\ pc' \in {"panic", "ram"} /\ i = 1
      /\ UNCHANGED <<ram, device, L1, L2, L3, i, addr, wild>>
      /\ pc' = "ram" => ~\E d \in Range(device), r \in Range(ram) : regions_overlap(d, r)
  BY DEF validate_device_regions, Located, Position
<1>2. ListOK(device)' /\ ListOK(ram) /\ ListOK(device)
  BY <1>1 DEF Located, ListOK
<1>3. CASE pc' = "ram"
  <2>1. RamAndDevicesApart
    BY <1>1, <1>3 DEF RamAndDevicesApart, Range
  <2>2. Mapped' = {}
    BY <1>3 DEF Mapped
  <2>3. Done' = 0
    BY <1>1, <1>3 DEF Done
  <2>4. /\ \A k \in 0 .. NumL1 - 1 : L1'[k] = Zero
        /\ \A k \in 0 .. NumL1 * Fanout - 1 : L2'[k] = Zero
        /\ wild' = FALSE /\ L3' = << >>
    BY <1>1 DEF Exact, Counted
  <2>5. \A a : ~InL1(a, 0) /\ ~InL2(a, 0)
    BY DEF InL1, InL2
  <2>6. Tables(L1', L2', L3', 0, {})
    BY <2>4, <2>5 DEF Tables, L1Is, L2Is, OneEntryEach
  <2>7. \A j \in 1 .. 0 : ram[j]._size % L2_ENTRY_SIZE = 0
    OBVIOUS
  <2> QED BY <1>1, <1>3, <2>1, <2>2, <2>3, <2>4, <2>6, <2>7, ExactNext, StableIfSame
<1>4. CASE pc' = "panic"
  BY <1>1, <1>4, StableIfSame DEF Exact
<1> QED
  BY <1>1, <1>3, <1>4

LEMMA MapRamExact ==
    ASSUME Located, Counted, Exact, MapRam
    PROVE  Exact' /\ (WellPlaced => Stable)
<1> DEFINE r == ram[i]
<1>1. /\ pc = "ram" /\ i \in 1 .. Len(ram) /\ i' = i + 1 /\ L3 = << >> /\ i \in Nat
      /\ UNCHANGED <<ram, device, L3, addr, wild>>
      /\ L1 \in [0 .. NumL1 - 1 -> Entry] /\ L2 \in [0 .. NumL1 * Fanout - 1 -> Entry]
      /\ ListOK(ram) /\ ListOK(device)
  BY DEF Located, Counted, Position, ListOK, TypeOK, MapRam
<1>2. \/ /\ r._size % L1_ENTRY_SIZE = 0 /\ L2' = L2 /\ pc' = pc
         /\ L1' = [k \in DOMAIN L1 |->
                     IF k \in Entries(r._start, r._size, L1_ENTRY_SIZE)
                     THEN Or(L1[k], Block(k * L1_ENTRY_SIZE, "normal")) ELSE L1[k]]
      \/ /\ r._size % L1_ENTRY_SIZE # 0 /\ r._size % L2_ENTRY_SIZE = 0 /\ pc' = pc
         /\ L1' = [k \in DOMAIN L1 |-> IF k \in Slots(r) THEN Or(L1[k], Table(k)) ELSE L1[k]]
         /\ L2' = [k \in DOMAIN L2 |->
                     IF k \in Entries(r._start, r._size, L2_ENTRY_SIZE)
                     THEN Or(L2[k], Block(k * L2_ENTRY_SIZE, "normal")) ELSE L2[k]]
      \/ pc' = "panic" /\ L1' = L1 /\ L2' = L2
  BY DEF MapRam, Slots
<1>3. CASE pc' = "panic" /\ L1' = L1 /\ L2' = L2
  BY <1>1, <1>3, StableIfSame DEF Exact
<1>4. CASE pc' # "panic"
  <2>1. pc' = "ram"
    BY <1>1, <1>2, <1>4
  <2>2. Done = i - 1 /\ Done' = i /\ Mapped = {}
    BY <1>1, <2>1, NothingMapped DEF Done
  <2>3. Mapped' = {}
    BY <2>1 DEF Mapped
  <2>4. SUFFICES ASSUME WellPlaced
                 PROVE  /\ wild' = FALSE /\ RamAndDevicesApart
                        /\ \A j \in 1 .. i : ram[j]._size % L2_ENTRY_SIZE = 0
                        /\ Tables(L1', L2', L3', i, {})
                        /\ Stable
    BY <1>1, <2>1, <2>2, <2>3, ExactNext
  <2>5. /\ wild = FALSE /\ RamAndDevicesApart
        /\ \A j \in 1 .. i - 1 : ram[j]._size % L2_ENTRY_SIZE = 0
        /\ Tables(L1, L2, << >>, i - 1, {})
    BY <1>1, <2>2, <2>4 DEF Exact
  <2>6. /\ \A k \in 0 .. NumL1 - 1 : L1Is(L1, k, i - 1, {})
        /\ \A k \in 0 .. NumL1 * Fanout - 1 : L2Is(L2, << >>, k, i - 1, {})
    BY <2>5 DEF Tables
  <2>7. CASE r._size % L1_ENTRY_SIZE = 0
    <3>1. /\ L2' = L2
          /\ \A k \in 0 .. NumL1 - 1 :
               L1'[k] = IF k \in Entries(r._start, r._size, L1_ENTRY_SIZE)
                        THEN Or(L1[k], Block(k * L1_ENTRY_SIZE, "normal")) ELSE L1[k]
      BY <1>1, <1>2, <1>4, <2>7
    <3>2. \A k \in 0 .. NumL1 - 1 :
             L1Is(L1', k, i, {}) /\ (L1[k] # Zero => L1'[k] = L1[k])
      <4> SUFFICES ASSUME NEW k \in 0 .. NumL1 - 1
                   PROVE  L1Is(L1', k, i, {}) /\ (L1[k] # Zero => L1'[k] = L1[k])
        OBVIOUS
      <4>1. L1Is(L1, k, i - 1, {})
        BY <2>6
      <4>2. L1'[k] = IF k \in Entries(ram[i]._start, ram[i]._size, L1_ENTRY_SIZE)
                     THEN Or(L1[k], Block(k * L1_ENTRY_SIZE, "normal")) ELSE L1[k]
        BY <3>1
      <4> QED BY <1>1, <2>4, <2>7, <4>1, <4>2, RamBlock1
    <3>3. \A k \in 0 .. NumL1 * Fanout - 1 : L2Is(L2', << >>, k, i, {})
      <4>1. \A a : InL2(a, i) <=> InL2(a, i - 1)
        BY <1>1, <2>7, OneMore
      <4> QED BY <2>6, <3>1, <4>1 DEF L2Is
    <3>4. r._size \in Nat /\ r._size % L2_ENTRY_SIZE = 0
      <4>1. ram[i] \in Regions
        BY <1>1 DEF ListOK
      <4>2. r._size \in Nat
        BY <4>1 DEF Regions
      <4> QED BY <2>7, <4>2, Finer
    <3>5. OneEntryEach(L2', << >>)
      BY DEF OneEntryEach
    <3>6. Stable
      <4>1. Grows(L1, L1')
        BY <1>1, <3>2 DEF Grows, Zero
      <4>2. Grows(L2, L2')
        BY <3>1 DEF Grows
      <4> QED BY <1>1, <4>1, <4>2 DEF Stable
    <3>7. \A j \in 1 .. i : ram[j]._size % L2_ENTRY_SIZE = 0
      <4>1. \A j \in 1 .. i : j \in 1 .. i - 1 \/ j = i
        BY <1>1
      <4> QED BY <2>5, <3>4, <4>1
    <3> QED BY <1>1, <2>5, <3>2, <3>3, <3>5, <3>6, <3>7 DEF Tables
  <2>8. CASE r._size % L1_ENTRY_SIZE # 0
    <3>1. /\ r._size % L2_ENTRY_SIZE = 0
          /\ \A k \in 0 .. NumL1 - 1 :
               L1'[k] = IF k \in Slots(r) THEN Or(L1[k], Table(k)) ELSE L1[k]
          /\ \A k \in 0 .. NumL1 * Fanout - 1 :
               L2'[k] = IF k \in Entries(r._start, r._size, L2_ENTRY_SIZE)
                        THEN Or(L2[k], Block(k * L2_ENTRY_SIZE, "normal")) ELSE L2[k]
      BY <1>1, <1>2, <1>4, <2>8
    <3>2. \A k \in 0 .. NumL1 - 1 :
             L1Is(L1', k, i, {}) /\ (L1[k] # Zero => L1'[k] = L1[k])
      <4> SUFFICES ASSUME NEW k \in 0 .. NumL1 - 1
                   PROVE  L1Is(L1', k, i, {}) /\ (L1[k] # Zero => L1'[k] = L1[k])
        OBVIOUS
      <4>1. L1Is(L1, k, i - 1, {})
        BY <2>6
      <4>2. L1'[k] = IF k \in Slots(ram[i]) THEN Or(L1[k], Table(k)) ELSE L1[k]
        BY <3>1
      <4> QED BY <1>1, <2>4, <2>8, <4>1, <4>2, RamTable1
    <3>3. \A k \in 0 .. NumL1 * Fanout - 1 :
             L2Is(L2', << >>, k, i, {}) /\ (L2[k] # Zero => L2'[k] = L2[k])
      <4> SUFFICES ASSUME NEW k \in 0 .. NumL1 * Fanout - 1
                   PROVE  L2Is(L2', << >>, k, i, {}) /\ (L2[k] # Zero => L2'[k] = L2[k])
        OBVIOUS
      <4>1. L2Is(L2, << >>, k, i - 1, {})
        BY <2>6
      <4>2. L2'[k] = IF k \in Entries(ram[i]._start, ram[i]._size, L2_ENTRY_SIZE)
                     THEN Or(L2[k], Block(k * L2_ENTRY_SIZE, "normal")) ELSE L2[k]
        BY <3>1
      <4> QED BY <1>1, <2>4, <2>8, <3>1, <4>1, <4>2, RamBlock2
    <3>4. OneEntryEach(L2', << >>)
      BY DEF OneEntryEach
    <3>5. Stable
      <4>1. Grows(L1, L1')
        BY <1>1, <3>2 DEF Grows, Zero
      <4>2. Grows(L2, L2')
        BY <1>1, <3>3 DEF Grows, Zero
      <4> QED BY <1>1, <4>1, <4>2 DEF Stable
    <3>6. \A j \in 1 .. i : ram[j]._size % L2_ENTRY_SIZE = 0
      <4>1. \A j \in 1 .. i : j \in 1 .. i - 1 \/ j = i
        BY <1>1
      <4> QED BY <2>5, <3>1, <4>1
    <3> QED BY <1>1, <2>5, <3>2, <3>3, <3>4, <3>5, <3>6 DEF Tables
  <2> QED BY <2>7, <2>8
<1> QED
  BY <1>1, <1>2, <1>3, <1>4

-----------------------------------------------------------------------------
(* The next block or page of a device is neither RAM nor mapped, ...       *)
LEMMA NewBytes ==
    ASSUME Located, Exact, WellPlaced, pc = "map", addr < RegionEnd,
           NEW d \in Nat, addr + d <= RegionEnd, NEW a \in addr .. addr + d - 1
    PROVE  /\ a \in Bytes(Rounded(device[i])) /\ a \in Address /\ a \notin Mapped
           /\ ~InL1(a, Len(ram)) /\ ~InL2(a, Len(ram))
<1>1. /\ i \in DOMAIN device /\ i \in 1 .. Len(device) /\ addr \in Nat /\ First <= addr
      /\ First \in Nat /\ RegionEnd \in Nat
  BY LoopFacts
<1>2. ListOK(ram) /\ ListOK(device) /\ DOMAIN ram = 1 .. Len(ram)
  BY DEF Located, ListOK
<1>3. Bytes(Rounded(device[i])) = First .. RegionEnd - 1
  BY <1>1, <1>2, RoundedBytes DEF First, RegionEnd
<1>4. a \in Bytes(Rounded(device[i])) /\ a \in Address /\ a \in Nat /\ ~(a < addr)
  BY <1>1, <1>2, <1>3, RoundedBytes
<1>5. \A j \in DOMAIN device : a \in Bytes(Rounded(device[j])) => j = i /\ ~(i < i)
  BY <1>1, <1>2, <1>4, DevicesDisjointPages
<1>6. a \notin Mapped
  BY <1>4, <1>5 DEF Mapped
<1>7. RamAndDevicesApart /\ \A m \in DOMAIN ram : ram[m]._size % L2_ENTRY_SIZE = 0
  BY <1>2 DEF Exact, Done
<1>8. \A m \in DOMAIN ram : a \notin Bytes(ram[m])
  BY <1>1, <1>2, <1>4, <1>7, DeviceIsNotRam
<1>9. ~InL1(a, Len(ram)) /\ ~InL2(a, Len(ram))
  BY <1>2, <1>8, Zenon DEF InL1, InL2
<1> QED
  BY <1>4, <1>6, <1>9

(* ... and is what the step maps.                                          *)
LEMMA MappedGrows ==
    ASSUME Located, pc = "map", addr < RegionEnd, device' = device, pc' = "map", i' = i,
           NEW d \in Nat, addr + d <= RegionEnd, addr' = addr + d
    PROVE  Mapped' = Mapped \cup (addr .. addr + d - 1)
<1>1. /\ i \in DOMAIN device /\ i \in 1 .. Len(device) /\ addr \in Nat /\ First <= addr
      /\ First \in Nat /\ RegionEnd \in Nat
  BY LoopFacts
<1>2. ListOK(device)
  BY DEF Located
<1>3. Bytes(Rounded(device[i])) = First .. RegionEnd - 1
  BY <1>1, <1>2, RoundedBytes DEF First, RegionEnd
<1>4. Bytes(Rounded(device[i])) \subseteq Address
  BY <1>1, <1>2, RoundedBytes
<1>5. \A a \in Address : a \in Nat
  BY DEF Address
<1>6. \A a \in Address :
         a \in Bytes(Rounded(device[i])) =>
            (a < addr + d <=> a < addr \/ a \in addr .. addr + d - 1)
  BY <1>1, <1>5
<1>7. \A a \in addr .. addr + d - 1 : a \in Address /\ a \in Bytes(Rounded(device[i]))
  BY <1>1, <1>3, <1>4
<1>8. Mapped' = {a \in Address : \E j \in DOMAIN device :
                    /\ a \in Bytes(Rounded(device[j]))
                    /\ (j < i \/ (j = i /\ a < addr + d))}
  BY DEF Mapped
<1>9. Mapped = {a \in Address : \E j \in DOMAIN device :
                    /\ a \in Bytes(Rounded(device[j]))
                    /\ (j < i \/ (j = i /\ a < addr))}
  BY DEF Mapped
<1> HIDE DEF Mapped
<1>10. ASSUME NEW a PROVE a \in Mapped' <=> a \in Mapped \/ a \in addr .. addr + d - 1
  <2>1. CASE a \in Mapped'
    <3>1. PICK j \in DOMAIN device : a \in Bytes(Rounded(device[j]))
                                     /\ (j < i \/ (j = i /\ a < addr + d))
      BY <1>8, <2>1
    <3>2. a \in Address
      BY <1>8, <2>1
    <3>3. (j < i \/ (j = i /\ a < addr)) \/ a \in addr .. addr + d - 1
      BY <1>6, <3>1, <3>2
    <3>4. a \in Mapped \/ a \in addr .. addr + d - 1
      BY <1>9, <3>1, <3>2, <3>3
    <3> QED BY <2>1, <3>4
  <2>2. CASE a \in Mapped
    <3>1. PICK j \in DOMAIN device : a \in Bytes(Rounded(device[j]))
                                     /\ (j < i \/ (j = i /\ a < addr))
      BY <1>9, <2>2
    <3>2. a \in Address
      BY <1>9, <2>2
    <3>3. j < i \/ (j = i /\ a < addr + d)
      BY <1>6, <3>1, <3>2
    <3>4. a \in Mapped'
      BY <1>8, <3>1, <3>2, <3>3
    <3> QED BY <2>2, <3>4
  <2>3. CASE a \in addr .. addr + d - 1
    BY <1>1, <1>6, <1>7, <1>8, <2>3
  <2> QED BY <2>1, <2>2, <2>3
<1> QED
  BY <1>10

LEMMA EnsureGrows ==
    ASSUME TypeOK, ensure_l2_page_table
    PROVE  Grows(L1, L1')
BY DEF TypeOK, ensure_l2_page_table, Grows, pte_is_valid

(* An L2 entry or a page lies in one gigabyte.                             *)
LEMMA InOneGigabyte ==
    ASSUME NEW c \in Nat
    PROVE  /\ c % L2_ENTRY_SIZE = 0 =>
                \A a \in c .. c + L2_ENTRY_SIZE - 1 : a \div L1_ENTRY_SIZE = c \div L1_ENTRY_SIZE
           /\ c % L3_ENTRY_SIZE = 0 =>
                \A a \in c .. c + L3_ENTRY_SIZE - 1 : a \div L1_ENTRY_SIZE = c \div L1_ENTRY_SIZE
<1>1. Fanout \in Nat \ {0} /\ Fanout * Fanout \in Nat \ {0}
  BY SizesAssumption
<1>2. L1_ENTRY_SIZE = Fanout * L2_ENTRY_SIZE
  BY DEF L1_ENTRY_SIZE
<1>3. L1_ENTRY_SIZE = (Fanout * Fanout) * L3_ENTRY_SIZE
  BY <1>1, Sizes DEF L1_ENTRY_SIZE, L2_ENTRY_SIZE
<1>4. c % L2_ENTRY_SIZE = 0 =>
         \A a \in c .. c + L2_ENTRY_SIZE - 1 : a \div L1_ENTRY_SIZE = c \div L1_ENTRY_SIZE
  BY <1>1, <1>2, Nested, Sizes
<1> DEFINE f == Fanout * Fanout
<1> HIDE DEF f
<1>5. c % L3_ENTRY_SIZE = 0 =>
         \A a \in c .. c + L3_ENTRY_SIZE - 1 :
            a \div (f * L3_ENTRY_SIZE) = c \div (f * L3_ENTRY_SIZE)
  BY <1>1, Nested, Sizes DEF f
<1>6. L1_ENTRY_SIZE = f * L3_ENTRY_SIZE
  BY <1>3 DEF f
<1> QED
  BY <1>4, <1>5, <1>6

LEMMA BlockExact ==
    ASSUME Located, Exact, map_device_l2_block
    PROVE  Exact' /\ (WellPlaced => Stable)
<1> DEFINE q == l2_idx
           N == Mapped \cup Span2(q)
<1>1. /\ pc = "map" /\ addr < RegionEnd /\ use_block /\ ensure_l2_page_table
      /\ addr' = addr + L2_ENTRY_SIZE /\ pc' = "map"
      /\ UNCHANGED <<ram, device, L3, pc, i, wild>>
      /\ L2' = [L2 EXCEPT ![q] = Or(L2[q], Block(addr, "device"))]
  BY DEF map_device_l2_block
<1>2. /\ i \in DOMAIN device /\ addr \in Nat /\ addr \in Address
      /\ q \in 0 .. NumL1 * Fanout - 1 /\ addr + L2_ENTRY_SIZE <= RegionEnd
  BY <1>1, LoopFacts
<1>3. /\ ListOK(ram) /\ ListOK(device) /\ TypeOK /\ L1 \in [0 .. NumL1 - 1 -> Entry]
      /\ L2 \in [0 .. NumL1 * Fanout - 1 -> Entry] /\ L3 \in Seq([0 .. Fanout - 1 -> Entry])
  BY DEF Located, TypeOK
<1>4. addr % L2_ENTRY_SIZE = 0 /\ addr = q * L2_ENTRY_SIZE
  BY <1>1, <1>2, Sizes, Multiple DEF use_block, l2_idx
<1> HIDE DEF q
<1>5. Span2(q) = addr .. addr + L2_ENTRY_SIZE - 1 /\ L2_ENTRY_SIZE \in Nat
  BY <1>4, Sizes DEF Span2
<1>6. Mapped' = N
  BY <1>1, <1>2, <1>5, MappedGrows
<1>7. Done = Len(ram) /\ Done' = Len(ram)
  BY <1>1 DEF Done
<1>8. ASSUME WellPlaced
      PROVE  /\ wild' = FALSE /\ RamAndDevicesApart
             /\ \A j \in 1 .. Len(ram) : ram[j]._size % L2_ENTRY_SIZE = 0
             /\ Tables(L1', L2', L3', Len(ram), N)
             /\ Stable
  <2>1. /\ wild = FALSE /\ RamAndDevicesApart
        /\ \A j \in 1 .. Len(ram) : ram[j]._size % L2_ENTRY_SIZE = 0
        /\ Tables(L1, L2, L3, Len(ram), Mapped)
    BY <1>1, <1>7, <1>8 DEF Exact
  <2>2. \A a \in Span2(q) : a \notin Mapped /\ ~InL1(a, Len(ram)) /\ ~InL2(a, Len(ram))
    BY <1>1, <1>2, <1>5, <1>8, NewBytes
  <2>3. addr \in Span2(q)
    BY <1>2, <1>5, Sizes
  <2>4. /\ L2[q] = Zero
        /\ \A k \in 0 .. NumL1 * Fanout - 1 : L2Is(L2', L3, k, Len(ram), N)
        /\ OneEntryEach(L2', L3)
    <3>1. L2' = [L2 EXCEPT ![q] = Or(L2[q], Block(q * L2_ENTRY_SIZE, "device"))]
      BY <1>1, <1>4
    <3>2. Span2(q) \cap Mapped = {} /\ ~InL2(q * L2_ENTRY_SIZE, Len(ram))
      BY <1>4, <2>2, <2>3
    <3>3. /\ \A k \in 0 .. NumL1 * Fanout - 1 : L2Is(L2, L3, k, Len(ram), Mapped)
          /\ OneEntryEach(L2, L3)
      BY <2>1 DEF Tables
    <3> QED BY <1>2, <1>3, <3>1, <3>2, <3>3, AddBlock
  <2>5. \A k \in 0 .. NumL1 - 1 : L1Is(L1', k, Len(ram), N)
    <3>1. \A a \in N : a \in Mapped \/ a \div L1_ENTRY_SIZE = addr \div L1_ENTRY_SIZE
      BY <1>2, <1>4, <1>5, InOneGigabyte
    <3>2. L1' = IF pte_is_valid(L1[addr \div L1_ENTRY_SIZE]) THEN L1
                ELSE [L1 EXCEPT ![addr \div L1_ENTRY_SIZE] =
                        Or(L1[addr \div L1_ENTRY_SIZE], Table(addr \div L1_ENTRY_SIZE))]
      BY <1>1 DEF ensure_l2_page_table, l1_idx
    <3>3. \A k \in 0 .. NumL1 - 1 : L1Is(L1, k, Len(ram), Mapped)
      BY <2>1 DEF Tables
    <3>4. ~InL1(addr, Len(ram))
      BY <2>2, <2>3
    <3> HIDE DEF N
    <3> QED BY <1>2, <1>3, <1>8, <3>1, <3>2, <3>3, <3>4, EnsureL2Is
  <2>6. Stable
    <3>1. Grows(L1, L1')
      BY <1>1, <1>3, EnsureGrows
    <3>2. Grows(L2, L2')
      BY <1>1, <1>3, <2>4 DEF Grows, Zero
    <3>3. \A t \in DOMAIN L3 : Grows(L3[t], L3'[t])
      BY <1>1 DEF Grows
    <3> QED BY <3>1, <3>2, <3>3 DEF Stable
  <2> QED BY <1>1, <2>1, <2>4, <2>5, <2>6 DEF Tables
<1> HIDE DEF N
<1> QED
  BY <1>1, <1>6, <1>7, <1>8, ExactNext

LEMMA PageExact ==
    ASSUME Located, Exact, map_device_l3_page
    PROVE  Exact' /\ (WellPlaced => Stable)
<1> DEFINE q == l2_idx
           x == l3_idx
           N == Mapped \cup (addr .. addr + L3_ENTRY_SIZE - 1)
           Alike == addr' = addr + L3_ENTRY_SIZE /\ pc' = pc
<1>1. /\ pc = "map" /\ addr < RegionEnd /\ ensure_l2_page_table
      /\ UNCHANGED <<ram, device, i>>
  BY DEF map_device_l3_page
<1>2. \/ /\ Alike /\ wild' = wild /\ L2' = L2 /\ pte_is_valid(L2[q]) /\ L2[q].type = {"table"}
         /\ L3' = [L3 EXCEPT ![CHOOSE t \in L2[q].out : TRUE] =
                      WithPage(L3[CHOOSE t \in L2[q].out : TRUE])]
      \/ /\ Alike /\ wild' = TRUE /\ L2' = L2 /\ L3' = L3
         /\ pte_is_valid(L2[q]) /\ L2[q].type # {"table"}
      \/ /\ Alike /\ wild' = wild /\ ~pte_is_valid(L2[q])
         /\ L3' = Append(L3, WithPage(NewTable)) /\ L2' = [L2 EXCEPT ![q] = Table(Len(L3) + 1)]
      \/ /\ pc' = "out of L3 tables" /\ UNCHANGED <<L2, L3>>
  BY DEF map_device_l3_page
<1>3. /\ i \in DOMAIN device /\ addr \in Nat /\ addr \in Address /\ addr % L3_ENTRY_SIZE = 0
      /\ q \in 0 .. NumL1 * Fanout - 1 /\ x \in 0 .. Fanout - 1
      /\ addr + L3_ENTRY_SIZE <= RegionEnd
  BY <1>1, LoopFacts
<1>4. /\ ListOK(ram) /\ ListOK(device) /\ TypeOK /\ L1 \in [0 .. NumL1 - 1 -> Entry]
      /\ L2 \in [0 .. NumL1 * Fanout - 1 -> Entry] /\ L3 \in Seq([0 .. Fanout - 1 -> Entry])
  BY DEF Located, TypeOK
<1>5. addr = PageAt(q, x)
  <2>1. PageAt(q, x) = align_down(addr)
    BY <1>3, PageIndex DEF PageAt, l2_idx, l3_idx
  <2>2. align_down(addr) = addr
    BY <1>3 DEF align_down
  <2> QED BY <2>1, <2>2
<1>6. \A table : WithPage(table) = [table EXCEPT ![x] = Or(table[x], Page(addr))]
  BY DEF WithPage
<1> HIDE DEF q, x
<1>7. Done = Len(ram) /\ (pc' = "map" => Done' = Len(ram))
  BY <1>1 DEF Done
<1>8. Grows(L1, L1')
  BY <1>1, <1>4, EnsureGrows
<1>9. CASE pc' = "out of L3 tables" /\ UNCHANGED <<L2, L3>>
  <2>1. Stable
    BY <1>8, <1>9 DEF Stable, Grows
  <2> QED BY <1>9, <2>1 DEF Exact
<1>10. CASE Alike
  <2>1. addr' = addr + L3_ENTRY_SIZE /\ pc' = "map" /\ L3_ENTRY_SIZE \in Nat
    BY <1>1, <1>10, Sizes
  <2>2. Mapped' = N
    BY <1>1, <1>3, <2>1, MappedGrows
  <2>3. ASSUME WellPlaced
        PROVE  /\ wild' = FALSE /\ RamAndDevicesApart
               /\ \A j \in 1 .. Len(ram) : ram[j]._size % L2_ENTRY_SIZE = 0
               /\ Tables(L1', L2', L3', Len(ram), N)
               /\ Stable
    <3>1. /\ wild = FALSE /\ RamAndDevicesApart
          /\ \A j \in 1 .. Len(ram) : ram[j]._size % L2_ENTRY_SIZE = 0
          /\ Tables(L1, L2, L3, Len(ram), Mapped)
      BY <1>1, <1>7, <2>3 DEF Exact
    <3>2. /\ \A k \in 0 .. NumL1 - 1 : L1Is(L1, k, Len(ram), Mapped)
          /\ \A k \in 0 .. NumL1 * Fanout - 1 : L2Is(L2, L3, k, Len(ram), Mapped)
          /\ OneEntryEach(L2, L3)
      BY <3>1 DEF Tables
    <3>3. addr \notin Mapped /\ ~InL1(addr, Len(ram)) /\ ~InL2(addr, Len(ram))
      <4>1. addr \in addr .. addr + L3_ENTRY_SIZE - 1
        BY <1>3, Sizes
      <4> QED BY <1>1, <1>3, <2>1, <2>3, <4>1, NewBytes
    <3>4. ~InL2(q * L2_ENTRY_SIZE, Len(ram))
      <4>1. addr \in Span2(q) /\ q \in Nat
        BY <1>3, <1>5, PageInSpan, SizesAssumption
      <4>2. \A j \in 1 .. Len(ram) :
               j \in DOMAIN ram /\ (addr \in Bytes(ram[j]) <=> q * L2_ENTRY_SIZE \in Bytes(ram[j]))
        <5> TAKE j \in 1 .. Len(ram)
        <5>1. j \in DOMAIN ram
          BY <1>4 DEF ListOK
        <5>2. ram[j]._size % L2_ENTRY_SIZE = 0
          BY <3>1
        <5> QED BY <1>4, <2>3, <4>1, <5>1, <5>2, RamSpan2
      <4> QED BY <3>3, <4>2, Zenon DEF InL2
    <3>5. \A k \in 0 .. NumL1 - 1 : L1Is(L1', k, Len(ram), N)
      <4>1. \A a \in N : a \in Mapped \/ a \div L1_ENTRY_SIZE = addr \div L1_ENTRY_SIZE
        BY <1>3, InOneGigabyte
      <4>2. L1' = IF pte_is_valid(L1[addr \div L1_ENTRY_SIZE]) THEN L1
                  ELSE [L1 EXCEPT ![addr \div L1_ENTRY_SIZE] =
                          Or(L1[addr \div L1_ENTRY_SIZE], Table(addr \div L1_ENTRY_SIZE))]
        BY <1>1 DEF ensure_l2_page_table, l1_idx
      <4> HIDE DEF N
      <4> QED BY <1>3, <1>4, <2>3, <3>2, <3>3, <4>1, <4>2, EnsureL2Is
    <3>6. \/ L2[q] = Zero /\ \A a \in Span2(q) : a \notin Mapped
          \/ \E t \in DOMAIN L3 : L2[q] = Table(t) /\ Serves(L3, t, q, Mapped)
      BY <1>3, <1>4, <1>5, <3>2, <3>3, <3>4, PageFinds
    <3>7. CASE L2[q] = Zero /\ \A a \in Span2(q) : a \notin Mapped
      <4>1. /\ wild' = wild /\ L2' = [L2 EXCEPT ![q] = Table(Len(L3) + 1)]
            /\ L3' = Append(L3, WithPage(NewTable))
        BY <1>2, <2>1, <3>7 DEF pte_is_valid, Zero
      <4>2. L3' = Append(L3, [NewTable EXCEPT ![x] = Or(NewTable[x], Page(PageAt(q, x)))])
        BY <1>5, <1>6, <4>1
      <4>3. N = Mapped \cup (PageAt(q, x) .. PageAt(q, x) + L3_ENTRY_SIZE - 1)
        BY <1>5
      <4> HIDE DEF N
      <4>4. /\ \A k \in 0 .. NumL1 * Fanout - 1 : L2Is(L2', L3', k, Len(ram), N)
            /\ OneEntryEach(L2', L3')
        BY <1>3, <1>4, <3>2, <3>4, <3>7, <4>1, <4>2, <4>3, AddTable
      <4>5. Grows(L2, L2')
        BY <1>4, <3>7, <4>1 DEF Grows, Zero
      <4>6. \A t \in DOMAIN L3 : Grows(L3[t], L3'[t])
        <5>1. \A t \in DOMAIN L3 : L3'[t] = L3[t]
          BY <1>4, <4>1
        <5> QED BY <5>1 DEF Grows
      <4> QED BY <1>8, <3>1, <3>5, <4>1, <4>4, <4>5, <4>6 DEF Tables, Stable
    <3>8. ASSUME NEW t \in DOMAIN L3, L2[q] = Table(t), Serves(L3, t, q, Mapped)
          PROVE  wild' = FALSE /\ Tables(L1', L2', L3', Len(ram), N) /\ Stable
      <4>1. L2[q].type = {"table"} /\ L2[q].out = {t}
        BY <3>8 DEF Table
      <4>2. (CHOOSE u \in L2[q].out : TRUE) = t
        BY <4>1
      <4>3. /\ wild' = wild /\ L2' = L2
            /\ L3' = [L3 EXCEPT ![t] = WithPage(L3[t])]
        BY <1>2, <2>1, <4>1, <4>2 DEF pte_is_valid
      <4>4. L3' = [L3 EXCEPT ![t] = [L3[t] EXCEPT ![x] = Or(L3[t][x], Page(PageAt(q, x)))]]
        BY <1>5, <1>6, <4>3
      <4>5. N = Mapped \cup (PageAt(q, x) .. PageAt(q, x) + L3_ENTRY_SIZE - 1)
        BY <1>5
      <4>6. PageAt(q, x) \notin Mapped
        BY <1>5, <3>3
      <4> HIDE DEF N
      <4>7. /\ \A k \in 0 .. NumL1 * Fanout - 1 : L2Is(L2, L3', k, Len(ram), N)
            /\ OneEntryEach(L2, L3')
        BY <1>3, <1>4, <3>2, <3>4, <3>8, <4>4, <4>5, <4>6, AddPage
      <4>8. \A u \in DOMAIN L3 : Grows(L3[u], L3'[u])
        <5>1. L3[t][x] = Zero
          BY <1>3, <3>8, <4>6 DEF Serves
        <5>2. ASSUME NEW u \in DOMAIN L3, NEW y \in DOMAIN L3[u], L3[u][y] # Zero
              PROVE  L3'[u][y] = L3[u][y]
          BY <1>3, <1>4, <4>4, <5>1, <5>2
        <5> QED BY <5>2 DEF Grows, Zero
      <4>9. Grows(L2, L2')
        BY <4>3 DEF Grows
      <4> QED BY <1>8, <3>1, <3>5, <4>3, <4>7, <4>8, <4>9 DEF Tables, Stable
    <3> QED BY <3>1, <3>6, <3>7, <3>8
  <2> HIDE DEF N
  <2> QED BY <1>1, <1>7, <2>1, <2>2, <2>3, ExactNext
<1> QED
  BY <1>2, <1>9, <1>10

(* The other steps move on and map nothing.                                *)
LEMMA MovesOn ==
    ASSUME Exact, UNCHANGED <<ram, device, L1, L2, L3, wild>>, Mapped' = Mapped, Done' = Done,
           pc \in {"ram", "device", "map", "enabled"}, pc' # "validate"
    PROVE  Exact' /\ Stable
<1> DEFINE n == Done
           M == Mapped
<1>1. n = Done' /\ M = Mapped'
  OBVIOUS
<1>2. WellPlaced => /\ wild' = FALSE
                    /\ RamAndDevicesApart
                    /\ \A j \in 1 .. n : ram[j]._size % L2_ENTRY_SIZE = 0
                    /\ Tables(L1', L2', L3', n, M)
  BY DEF Exact
<1> HIDE DEF n, M
<1> QED
  BY <1>1, <1>2, ExactNext, StableIfSame

LEMMA RamDoneExact ==
    ASSUME Located, Exact, RamDone
    PROVE  Exact' /\ Stable
<1>1. /\ pc = "ram" /\ pc' = "device" /\ i' = 1 /\ Done = Len(ram) /\ Done' = Len(ram)
      /\ UNCHANGED <<ram, device, L1, L2, L3, addr, wild>>
  BY DEF RamDone, Located, Position, ListOK, Done
<1>2. Mapped = {}
  BY <1>1 DEF Mapped
<1>3. Mapped' = {}
  <2>1. \A j \in DOMAIN device : ~(j < 1) /\ j \in Nat
    BY DEF Located, ListOK
  <2>2. pc' = "device" /\ i' = 1 /\ device' = device
    BY <1>1
  <2> QED BY <2>1, <2>2 DEF Mapped
<1> QED
  BY <1>1, <1>2, <1>3, MovesOn

LEMMA StartRegionExact ==
    ASSUME Located, Exact, StartRegion
    PROVE  Exact' /\ Stable
<1>1. /\ pc = "device" /\ pc' = "map" /\ i \in 1 .. Len(device) /\ i \in DOMAIN device
      /\ addr' = First /\ UNCHANGED <<ram, device, L1, L2, L3, i, wild>>
      /\ ListOK(device) /\ Done' = Done
  BY DEF StartRegion, Located, Position, ListOK, First, Done
<1>2. \A a \in Bytes(Rounded(device[i])) : ~(a < First)
  <2>1. First \in Nat /\ RegionEnd \in Nat
    BY <1>1, RegionBounds DEF First, RegionEnd
  <2>2. Bytes(Rounded(device[i])) = First .. RegionEnd - 1
    BY <1>1, RoundedBytes DEF First, RegionEnd
  <2> QED BY <2>1, <2>2
<1>3. Mapped' = Mapped
  BY <1>1, <1>2 DEF Mapped
<1> QED
  BY <1>1, <1>3, MovesOn

LEMMA EndRegionExact ==
    ASSUME Located, Exact, EndRegion
    PROVE  Exact' /\ Stable
<1>1. /\ pc = "map" /\ pc' = "device" /\ i \in 1 .. Len(device) /\ i \in DOMAIN device
      /\ i' = i + 1 /\ UNCHANGED <<ram, device, L1, L2, L3, addr, wild>>
      /\ ListOK(device) /\ Done' = Done /\ addr \in First .. RegionEnd /\ addr >= RegionEnd
  BY DEF EndRegion, Located, Position, ListOK, Done
<1>2. First \in Nat /\ RegionEnd \in Nat
  BY <1>1, RegionBounds DEF First, RegionEnd
<1>3. \A a \in Bytes(Rounded(device[i])) : a < addr
  <2>1. Bytes(Rounded(device[i])) = First .. RegionEnd - 1
    BY <1>1, RoundedBytes DEF First, RegionEnd
  <2> QED BY <1>1, <1>2, <2>1
<1>4. \A j \in DOMAIN device : j < i + 1 <=> j < i \/ j = i
  BY <1>1 DEF ListOK
<1>5. Mapped' = Mapped
  BY <1>1, <1>3, <1>4 DEF Mapped
<1> QED
  BY <1>1, <1>5, MovesOn

LEMMA NextExact ==
    ASSUME Located, Counted, Exact, [Next]_vars
    PROVE  Exact' /\ (WellPlaced => Stable)
<1>1. CASE validate_device_regions
  BY <1>1, ValidateExact
<1>2. CASE MapRam
  BY <1>2, MapRamExact
<1>3. CASE RamDone
  BY <1>3, RamDoneExact
<1>4. CASE StartRegion
  BY <1>4, StartRegionExact
<1>5. CASE map_device_l2_block
  BY <1>5, BlockExact
<1>6. CASE map_device_l3_page
  BY <1>6, PageExact
<1>7. CASE EndRegion
  BY <1>7, EndRegionExact
<1>8. CASE setup_core_specific
  <2>1. /\ pc = "device" /\ pc' = "enabled" /\ Done' = Done
        /\ UNCHANGED <<ram, device, L1, L2, L3, i, addr, wild>>
    BY <1>8 DEF setup_core_specific, Done
  <2>2. Mapped' = Mapped
    BY <2>1 DEF Mapped
  <2> QED BY <2>1, <2>2, MovesOn
<1>9. CASE UNCHANGED vars
  <2>1. UNCHANGED <<ram, device, L1, L2, L3, pc, i, addr, wild>>
    BY <1>9 DEF vars
  <2>2. Mapped' = Mapped /\ Done' = Done
    BY <2>1 DEF Mapped, Done
  <2>3. CASE pc \in {"ram", "device", "map", "enabled"}
    BY <2>1, <2>2, <2>3, MovesOn
  <2>4. CASE pc \notin {"ram", "device", "map", "enabled"}
    BY <2>1, <2>4, StableIfSame DEF Exact
  <2> QED BY <2>3, <2>4
<1> QED
  BY <1>1, <1>2, <1>3, <1>4, <1>5, <1>6, <1>7, <1>8, <1>9 DEF Next

LEMMA InitExact == Init => Exact
BY DEF Init, Exact

LEMMA InitCounted == Init => Counted
BY DEF Init, Counted

LEMMA AlwaysExact == Spec => [](Located /\ Counted /\ Exact)
<1>1. Located /\ Counted /\ Exact /\ [Next]_vars => (Located /\ Counted /\ Exact)'
  BY NextLocated, NextCounted, NextExact
<1> QED
  BY <1>1, InitLocated, InitCounted, InitExact, PTL DEF Spec

(* No later region changes a descriptor that an earlier one wrote, on any  *)
(* well-placed board: descriptors are only or-ed into the tables, but only *)
(* into empty entries, or a table descriptor into itself; and a device in  *)
(* an L2 entry that has a page table gets its pages from that table.       *)
THEOREM DescriptorsStay == Spec => DescriptorsAreStable
<1>1. Located /\ Counted /\ Exact /\ [Next]_vars =>
         [WellPlaced => /\ Grows(L1, L1') /\ Grows(L2, L2')
                        /\ \A t \in DOMAIN L3 : Grows(L3[t], L3'[t])]_vars
  BY NextExact DEF Stable
<1> QED
  BY <1>1, AlwaysExact, PTL DEF Spec, DescriptorsAreStable

-----------------------------------------------------------------------------
(* What the walk makes of the descriptors.                                 *)
LEMMA MappingOf ==
    ASSUME NEW a, NEW b, NEW attr, NEW size
    PROVE  /\ Mapping(Zero, a, size) = Fault
           /\ Mapping(Block(b, attr), a, size) = <<b + (a % size), attr>>
           /\ Mapping(Page(b), a, size) = <<b + (a % size), "device">>
<1>1. \A x : /\ Cardinality({x}) = 1 /\ Cardinality({x}) <= 1
             /\ The({x}) = x /\ {x} # {}
  <2>1. \A x : Cardinality({x}) = 1 /\ {x} # {}
    BY FS_Singleton
  <2>2. \A x : The({x}) = x
    BY DEF The
  <2>3. \A x : Cardinality({x}) <= 1
    BY <2>1
  <2> QED BY <2>1, <2>2, <2>3
<1>2. Mapping(Zero, a, size) = Fault
  BY DEF Mapping, Zero
<1>3. /\ Block(b, attr).type = {"block"} /\ Block(b, attr).out = {b}
      /\ Block(b, attr).attr = {attr}
      /\ Page(b).type = {"page"} /\ Page(b).out = {b} /\ Page(b).attr = {"device"}
  BY DEF Block, Page
<1>4. Good(Block(b, attr)) /\ Good(Page(b))
  BY <1>1, <1>3, Zenon DEF Good
<1> QED
  BY <1>1, <1>2, <1>3, <1>4 DEF Mapping

(* A well-placed RAM region holds all of an entry's bytes or none.         *)
LEMMA EntryIsRam ==
    ASSUME ListOK(ram), WellPlaced, NEW a \in Nat,
           \A j \in 1 .. Len(ram) : ram[j]._size % L2_ENTRY_SIZE = 0
    PROVE  /\ InL1(a, Len(ram)) <=> InL1((a \div L1_ENTRY_SIZE) * L1_ENTRY_SIZE, Len(ram))
           /\ InL2(a, Len(ram)) <=> InL2((a \div L2_ENTRY_SIZE) * L2_ENTRY_SIZE, Len(ram))
<1> DEFINE p == a \div L1_ENTRY_SIZE
           q == a \div L2_ENTRY_SIZE
<1>1. p \in Nat /\ a \in Span1(p) /\ q \in Nat /\ a \in Span2(q)
  BY Floor, Sizes DEF Span1, Span2
<1> HIDE DEF p, q
<1>2. DOMAIN ram = 1 .. Len(ram)
  BY DEF ListOK
<1>3. \A j \in 1 .. Len(ram) : ram[j]._size % L1_ENTRY_SIZE = 0 =>
         (a \in Bytes(ram[j]) <=> p * L1_ENTRY_SIZE \in Bytes(ram[j]))
  BY <1>1, <1>2, RamSpan1
<1>4. \A j \in 1 .. Len(ram) : a \in Bytes(ram[j]) <=> q * L2_ENTRY_SIZE \in Bytes(ram[j])
  BY <1>1, <1>2, RamSpan2
<1>5. InL1(a, Len(ram)) <=> InL1(p * L1_ENTRY_SIZE, Len(ram))
  BY <1>3, Zenon DEF InL1
<1>6. InL2(a, Len(ram)) <=> InL2(q * L2_ENTRY_SIZE, Len(ram))
  BY <1>4, Zenon DEF InL2
<1> QED
  BY <1>5, <1>6 DEF p, q

(* A page is mapped as a whole or not at all.                              *)
LEMMA PageIsMapped ==
    ASSUME ListOK(device), pc = "enabled", i = Len(device) + 1, NEW a \in Address
    PROVE  /\ a \in Mapped <=> \E d \in Range(device) : a \in Bytes(Rounded(d))
           /\ a \in Mapped <=> align_down(a) \in Mapped
<1>1. DOMAIN device = 1 .. Len(device) /\ Len(device) \in Nat
  BY DEF ListOK
<1>2. \A j \in DOMAIN device : j < i
  BY <1>1
<1>3. \A c \in Address : c \in Mapped <=> \E j \in DOMAIN device : c \in Bytes(Rounded(device[j]))
  BY <1>2 DEF Mapped
<1>4. a \in Mapped <=> \E d \in Range(device) : a \in Bytes(Rounded(d))
  BY <1>3 DEF Range
<1> DEFINE c == align_down(a)
<1>5. a \in Nat /\ a < Top
  BY TopIsAligned DEF Address, Top
<1>6. c \in Nat /\ c % L3_ENTRY_SIZE = 0 /\ c <= a /\ a < c + L3_ENTRY_SIZE
  BY <1>5, AlignDown
<1> HIDE DEF c
<1>7. c \in Address
  BY <1>5, <1>6, TopIsAligned DEF Address, Top
<1>8. ASSUME NEW j \in DOMAIN device
      PROVE  a \in Bytes(Rounded(device[j])) <=> c \in Bytes(Rounded(device[j]))
  <2> DEFINE lo == align_down(device[j]._start)
             hi == align_up(End(device[j]))
  <2>1. /\ lo \in Nat /\ hi \in Nat /\ lo % L3_ENTRY_SIZE = 0 /\ hi % L3_ENTRY_SIZE = 0
        /\ Bytes(Rounded(device[j])) = lo .. hi - 1
    BY RegionBounds, RoundedBytes
  <2> HIDE DEF lo, hi
  <2>2. /\ a < lo => c < lo
        /\ c < lo => a < lo
    <3>1. c < lo => c + L3_ENTRY_SIZE <= lo
      BY <1>6, <2>1, Sizes, NextMultiple
    <3> QED BY <1>5, <1>6, <2>1, <3>1, Sizes
  <2>3. /\ a < hi => c < hi
        /\ c < hi => a < hi
    <3>1. c < hi => c + L3_ENTRY_SIZE <= hi
      BY <1>6, <2>1, Sizes, NextMultiple
    <3> QED BY <1>5, <1>6, <2>1, <3>1, Sizes
  <2> QED BY <1>5, <1>6, <2>1, <2>2, <2>3
<1>9. a \in Mapped <=> c \in Mapped
  BY <1>3, <1>7, <1>8
<1> QED
  BY <1>4, <1>9 DEF c

LEMMA WalkIsIntended ==
    ASSUME Located, Exact, pc = "enabled", WellPlaced, NEW a \in Address
    PROVE  Walk(a) = Intended(a)
<1> DEFINE n == Len(ram)
           p == a \div L1_ENTRY_SIZE
           q == a \div L2_ENTRY_SIZE
           x == (a % L2_ENTRY_SIZE) \div L3_ENTRY_SIZE
           b1 == p * L1_ENTRY_SIZE
           b2 == q * L2_ENTRY_SIZE
<1>1. /\ ListOK(ram) /\ ListOK(device) /\ DOMAIN ram = 1 .. n /\ i = Len(device) + 1
  BY DEF Located, Position, ListOK
<1>2. /\ RamAndDevicesApart /\ Tables(L1, L2, L3, n, Mapped)
      /\ \A j \in 1 .. n : ram[j]._size % L2_ENTRY_SIZE = 0
  BY DEF Exact, Done
<1>3. a \in Nat /\ p \in 0 .. NumL1 - 1 /\ q \in 0 .. NumL1 * Fanout - 1 /\ x \in 0 .. Fanout - 1
  BY Indexes, PageIndex
<1>4. /\ b1 \in Nat /\ a \in Span1(p) /\ b1 + (a % L1_ENTRY_SIZE) = a
      /\ b2 \in Nat /\ a \in Span2(q) /\ b2 + (a % L2_ENTRY_SIZE) = a
      /\ PageAt(q, x) = align_down(a) /\ PageAt(q, x) + (a % L3_ENTRY_SIZE) = a
  <2>1. b1 \in Nat /\ a \in Span1(p) /\ b2 \in Nat /\ a \in Span2(q)
    BY <1>3, Floor, Sizes DEF Span1, Span2
  <2>2. b1 + (a % L1_ENTRY_SIZE) = a /\ b2 + (a % L2_ENTRY_SIZE) = a
    BY <1>3, DivMod, Sizes
  <2>3. PageAt(q, x) = align_down(a)
    BY <1>3, PageIndex DEF PageAt
  <2>4. align_down(a) + (a % L3_ENTRY_SIZE) = a
    <3>1. a % L3_ENTRY_SIZE \in Nat
      BY <1>3, DivMod, Sizes
    <3> QED BY <1>3, <3>1 DEF align_down
  <2> QED BY <2>1, <2>2, <2>3, <2>4
<1>5. /\ InL1(a, n) <=> InL1(b1, n)
      /\ InL2(a, n) <=> InL2(b2, n)
  BY <1>1, <1>2, <1>3, EntryIsRam
<1>6. /\ a \in Mapped <=> \E d \in Range(device) : a \in Bytes(Rounded(d))
      /\ a \in Mapped <=> PageAt(q, x) \in Mapped
  BY <1>1, <1>4, PageIsMapped
<1>7. a \in Covered(ram) <=> InL1(a, n) \/ InL2(a, n)
  <2>1. a \in Covered(ram) <=> \E j \in 1 .. n : a \in Bytes(ram[j])
    BY <1>1, CoveredIff
  <2> QED BY <2>1, Zenon DEF InL1, InL2
<1>8. a \in Mapped => a \notin Covered(ram)
  <2>1. a \in Mapped => \E j \in DOMAIN device : a \in Bytes(Rounded(device[j]))
    BY DEF Mapped
  <2>2. a \in Covered(ram) <=> \E j \in DOMAIN ram : a \in Bytes(ram[j])
    BY CoveredIff
  <2> QED BY <1>1, <1>2, <2>1, <2>2, DeviceIsNotRam
<1>9. /\ L1Is(L1, p, n, Mapped) /\ L2Is(L2, L3, q, n, Mapped)
  BY <1>2, <1>3 DEF Tables
<1>10. /\ Walk(a) = IF L1[p].type # {"table"} THEN Mapping(L1[p], a, L1_ENTRY_SIZE)
                    ELSE IF L2[q].type # {"table"} THEN Mapping(L2[q], a, L2_ENTRY_SIZE)
                    ELSE Mapping(L3[The(L2[q].out)][x], a, L3_ENTRY_SIZE)
       /\ Intended(a) = IF a \in Covered(ram) THEN <<a, "normal">>
                        ELSE IF a \in Mapped THEN <<a, "device">> ELSE Fault
  BY <1>6 DEF Walk, Intended
<1> DEFINE c == PageAt(q, x)
<1>11. \A t, b, attr : /\ Zero.type # {"table"} /\ Block(b, attr).type # {"table"}
                       /\ Table(t).type = {"table"} /\ Table(t).out = {t}
  BY DEF Zero, Block, Table
<1> HIDE DEF n, p, q, x, b1, b2, c
<1>12. CASE L1[p] = Zero /\ ~InL1(b1, n) /\ \A y \in Span1(p) : ~InL2(y, n) /\ y \notin Mapped
  <2>1. Walk(a) = Fault
    BY <1>10, <1>11, <1>12, MappingOf
  <2> QED BY <1>4, <1>5, <1>7, <1>10, <1>12, <2>1
<1>13. CASE L1[p] = Block(b1, "normal") /\ InL1(b1, n)
  <2>1. Walk(a) = <<b1 + (a % L1_ENTRY_SIZE), "normal">>
    <3>1. Walk(a) = Mapping(L1[p], a, L1_ENTRY_SIZE)
      <4>1. L1[p].type # {"table"}
        BY <1>11, <1>13
      <4> QED BY <1>10, <4>1, Zenon
    <3>2. Mapping(Block(b1, "normal"), a, L1_ENTRY_SIZE) = <<b1 + (a % L1_ENTRY_SIZE), "normal">>
      BY MappingOf, Zenon
    <3> QED BY <1>13, <3>1, <3>2
  <2> QED BY <1>4, <1>5, <1>7, <1>10, <1>13, <2>1
<1>14. CASE L1[p] = Table(p) /\ ~InL1(b1, n)
  <2>1. Walk(a) = IF L2[q].type # {"table"} THEN Mapping(L2[q], a, L2_ENTRY_SIZE)
                  ELSE Mapping(L3[The(L2[q].out)][x], a, L3_ENTRY_SIZE)
    <3>1. L1[p].type = {"table"}
      BY <1>11, <1>14
    <3> QED BY <1>10, <3>1, Zenon
  <2>2. a \in Covered(ram) <=> InL2(a, n)
    BY <1>5, <1>7, <1>14
  <2>3. CASE L2[q] = Zero /\ \A y \in Span2(q) : ~InL2(y, n) /\ y \notin Mapped
    <3>1. Walk(a) = Fault
      BY <1>11, <2>1, <2>3, MappingOf
    <3> QED BY <1>4, <1>10, <2>2, <2>3, <3>1
  <2>4. CASE L2[q] = Block(b2, "normal") /\ InL2(b2, n)
    <3>1. Walk(a) = <<b2 + (a % L2_ENTRY_SIZE), "normal">>
      <4>1. Walk(a) = Mapping(L2[q], a, L2_ENTRY_SIZE)
        <5>1. L2[q].type # {"table"}
          BY <1>11, <2>4
        <5> QED BY <2>1, <5>1, Zenon
      <4>2. Mapping(Block(b2, "normal"), a, L2_ENTRY_SIZE) = <<b2 + (a % L2_ENTRY_SIZE), "normal">>
        BY MappingOf, Zenon
      <4> QED BY <2>4, <4>1, <4>2
    <3> QED BY <1>4, <1>5, <1>10, <2>2, <2>4, <3>1
  <2>5. CASE L2[q] = Block(b2, "device") /\ Span2(q) \subseteq Mapped
    <3>1. Walk(a) = <<b2 + (a % L2_ENTRY_SIZE), "device">>
      <4>1. Walk(a) = Mapping(L2[q], a, L2_ENTRY_SIZE)
        <5>1. L2[q].type # {"table"}
          BY <1>11, <2>5
        <5> QED BY <2>1, <5>1, Zenon
      <4>2. Mapping(Block(b2, "device"), a, L2_ENTRY_SIZE) = <<b2 + (a % L2_ENTRY_SIZE), "device">>
        BY MappingOf, Zenon
      <4> QED BY <2>5, <4>1, <4>2
    <3> QED BY <1>4, <1>8, <1>10, <2>5, <3>1
  <2>6. ASSUME NEW t \in DOMAIN L3, L2[q] = Table(t), ~InL2(b2, n), Serves(L3, t, q, Mapped)
        PROVE  Walk(a) = Intended(a)
    <3>1. The(L2[q].out) = t
      BY <1>11, <2>6 DEF The
    <3>2. Walk(a) = Mapping(L3[t][x], a, L3_ENTRY_SIZE)
      <4>1. L2[q].type = {"table"}
        BY <1>11, <2>6
      <4> QED BY <2>1, <3>1, <4>1, Zenon
    <3>3. L3[t][x] = IF c \in Mapped THEN Page(c) ELSE Zero
      BY <1>3, <2>6 DEF Serves, c
    <3>4. Walk(a) = IF c \in Mapped THEN <<c + (a % L3_ENTRY_SIZE), "device">> ELSE Fault
      BY <3>2, <3>3, MappingOf
    <3> QED BY <1>4, <1>5, <1>6, <1>10, <2>2, <2>6, <3>4 DEF c
  <2> QED BY <1>9, <2>3, <2>4, <2>5, <2>6 DEF L2Is, b2, n
<1> QED
  BY <1>9, <1>12, <1>13, <1>14 DEF L1Is, b1, n

(* When the MMU goes on, a table walk gives, for every address of every    *)
(* well-placed board that validate_device_regions lets through, RAM as     *)
(* Normal memory at its own address, the devices' pages as Device memory   *)
(* at theirs, and a fault elsewhere; and setup_idmap_page_tables has       *)
(* written nothing outside the tables.  For any page size and fanout.      *)
THEOREM IdentityMap == Spec => []IdentityMapIsExact
<1>1. Located /\ Exact => IdentityMapIsExact
  <2> SUFFICES ASSUME Located, Exact, pc = "enabled", WellPlaced
               PROVE  ~wild /\ \A a \in Address : Walk(a) = Intended(a)
    BY DEF IdentityMapIsExact
  <2>1. wild = FALSE
    BY DEF Exact
  <2> QED BY <2>1, WalkIsIntended
<1> QED
  BY <1>1, AlwaysExact, PTL
=============================================================================
