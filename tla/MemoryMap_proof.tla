-------------------------- MODULE MemoryMap_proof ---------------------------
(***************************************************************************)
(* Proofs about MemoryMap, for lists of any capacity and any regions:      *)
(* through the whole boot a list covers exactly what it was given, RAM and *)
(* device memory stay apart, and the kernel ends up reserved.              *)
(***************************************************************************)
EXTENDS MemoryMap, WellFoundedInduction, TLAPS

(* Growing a region by one that touches it adds exactly that one's bytes.  *)
LEMMA MergedBytes ==
    ASSUME NEW r \in Regions, NEW s \in Regions, Mergeable(r, s)
    PROVE  Merged(r, s) \in Regions /\ Bytes(Merged(r, s)) = Bytes(r) \cup Bytes(s)
<1>1. CASE End(r) = s._start
  <2>1. Merged(r, s) = [_start |-> r._start, _size |-> r._size + s._size]
    BY <1>1 DEF Merged, Regions
  <2> QED BY <1>1, <2>1 DEF Bytes, End, Regions
<1>2. CASE End(r) # s._start
  <2>1. Merged(r, s) = [_start |-> r._start - s._size, _size |-> r._size + s._size]
    BY <1>2 DEF Merged, Regions
  <2>2. s._start + s._size = r._start
    BY <1>2 DEF Mergeable, End
  <2> QED BY <2>1, <2>2 DEF Bytes, End, Regions
<1> QED BY <1>1, <1>2

(* Every nonempty set of naturals has a least element: what the choice of  *)
(* the first entry, and proofs by induction on a length, rest on.          *)
Less == {ss \in Nat \X Nat : ss[1] < ss[2]}

LEMMA Least ==
    ASSUME NEW T \in SUBSET Nat, T # {}
    PROVE  \E n \in T : \A m \in T : n <= m
<1>1. IsWellFoundedOn(Less, Nat)
  BY NatLessThanWellFounded DEF OpToRel, Less
<1>2. PICK n \in T : \A m \in T : <<m, n>> \notin Less
  BY <1>1, WFMin
<1>3. ASSUME NEW m \in T PROVE n <= m
  <2>1. n \in Nat /\ m \in Nat
    OBVIOUS
  <2>2. ~(m < n)
    BY <1>2, <2>1 DEF Less
  <2> QED BY <2>1, <2>2
<1> QED BY <1>3

-----------------------------------------------------------------------------
(* Covered in terms of the entries.                                        *)
LEMMA CoveredIff ==
    ASSUME NEW list, NEW a
    PROVE  a \in Covered(list) <=> \E k \in DOMAIN list : a \in Bytes(list[k])
BY DEF Covered

(* add_region appends the region, or merges it into one that it touches.   *)
LEMMA AddRegionShape ==
    ASSUME NEW list \in Seq(Regions), NEW s \in Regions
    PROVE  \/ add_region(list, s) = Append(list, s)
           \/ \E k \in DOMAIN list :
                 /\ Mergeable(list[k], s)
                 /\ add_region(list, s) = [list EXCEPT ![k] = Merged(list[k], s)]
<1> DEFINE touching == {k \in DOMAIN list : Mergeable(list[k], s)}
           first    == CHOOSE k \in touching : \A j \in touching : k <= j
<1>1. CASE touching = {}
  BY <1>1 DEF add_region
<1>2. CASE touching # {}
  <2>1. touching \in SUBSET Nat
    OBVIOUS
  <2>2. first \in touching
    <3> HIDE DEF touching
    <3>1. \E k \in touching : \A j \in touching : k <= j
      BY <1>2, <2>1, Least
    <3> QED BY <3>1 DEF first
  <2>3. add_region(list, s) = [list EXCEPT ![first] = Merged(list[first], s)]
    BY <1>2 DEF add_region
  <2> HIDE DEF first
  <2> QED BY <2>2, <2>3
<1> QED BY <1>1, <1>2

(* Wherever the region goes: the list stays one of regions, grows by at    *)
(* most one entry, and covers just the new bytes more.                     *)
LEMMA AddRegionCovers ==
    ASSUME NEW list \in Seq(Regions), NEW s \in Regions
    PROVE  /\ add_region(list, s) \in Seq(Regions)
           /\ Len(add_region(list, s)) <= Len(list) + 1
           /\ Covered(add_region(list, s)) = Covered(list) \cup Bytes(s)
<1> DEFINE new == add_region(list, s)
<1>1. CASE new = Append(list, s)
  <2>1. /\ new \in Seq(Regions) /\ Len(new) = Len(list) + 1
        /\ \A k \in DOMAIN list : k \in DOMAIN new /\ new[k] = list[k]
        /\ Len(list) + 1 \in DOMAIN new /\ new[Len(list) + 1] = s
        /\ \A k \in DOMAIN new : k \in DOMAIN list \/ k = Len(list) + 1
    BY <1>1
  <2> HIDE DEF new
  <2>2. ASSUME NEW a PROVE a \in Covered(new) <=> a \in Covered(list) \cup Bytes(s)
    BY <2>1, CoveredIff
  <2> QED BY <2>1, <2>2 DEF new
<1>2. ASSUME NEW k \in DOMAIN list, Mergeable(list[k], s),
             new = [list EXCEPT ![k] = Merged(list[k], s)]
      PROVE  /\ new \in Seq(Regions) /\ Len(new) <= Len(list) + 1
             /\ Covered(new) = Covered(list) \cup Bytes(s)
  <2>1. /\ Merged(list[k], s) \in Regions
        /\ Bytes(Merged(list[k], s)) = Bytes(list[k]) \cup Bytes(s)
    BY <1>2, MergedBytes
  <2>2. /\ new \in Seq(Regions) /\ Len(new) = Len(list) /\ Len(list) \in Nat
        /\ DOMAIN new = DOMAIN list
        /\ new[k] = Merged(list[k], s)
        /\ \A j \in DOMAIN list : j # k => new[j] = list[j]
    BY <1>2, <2>1
  <2> HIDE DEF new
  <2>3. ASSUME NEW a PROVE a \in Covered(new) <=> a \in Covered(list) \cup Bytes(s)
    BY <2>1, <2>2, CoveredIff
  <2> QED BY <2>2, <2>3
<1> HIDE DEF new
<1> QED BY <1>1, <1>2, AddRegionShape DEF new

-----------------------------------------------------------------------------
(* regions_overlap is what its name says.                                  *)
LEMMA OverlapIffCommonByte ==
    ASSUME NEW r \in Regions, NEW s \in Regions
    PROVE  regions_overlap(r, s) <=> \E a : a \in Bytes(r) /\ a \in Bytes(s)
<1>1. ASSUME regions_overlap(r, s) PROVE \E a : a \in Bytes(r) /\ a \in Bytes(s)
  <2>1. CASE r._start <= s._start
    <3>1. s._start \in Bytes(r) /\ s._start \in Bytes(s)
      BY <1>1, <2>1 DEF regions_overlap, Bytes, End, Regions
    <3> QED BY <3>1
  <2>2. CASE s._start <= r._start
    <3>1. r._start \in Bytes(r) /\ r._start \in Bytes(s)
      BY <1>1, <2>2 DEF regions_overlap, Bytes, End, Regions
    <3> QED BY <3>1
  <2> QED BY <2>1, <2>2 DEF Regions
<1>2. ASSUME NEW a, a \in Bytes(r), a \in Bytes(s) PROVE regions_overlap(r, s)
  BY <1>2 DEF regions_overlap, Bytes, End, Regions
<1> QED BY <1>1, <1>2

-----------------------------------------------------------------------------
(* A region that shares no byte with a list of disjoint ones keeps them    *)
(* disjoint, also when one of them absorbs it.                             *)
LEMMA AddRegionDisjoint ==
    ASSUME NEW list \in Seq(Regions), NEW s \in Regions,
           Disjoint(list), Covered(list) \cap Bytes(s) = {}
    PROVE  Disjoint(add_region(list, s))
<1> DEFINE new == add_region(list, s)
<1>1. \A k \in DOMAIN list : list[k] \in Regions
  OBVIOUS
<1>2. ASSUME NEW i \in DOMAIN list, NEW j \in DOMAIN list, i # j, NEW a,
             a \in Bytes(list[i]), a \in Bytes(list[j])
      PROVE  FALSE
  BY <1>1, <1>2, OverlapIffCommonByte DEF Disjoint
<1>3. ASSUME NEW i \in DOMAIN list, NEW a, a \in Bytes(list[i]), a \in Bytes(s) PROVE FALSE
  BY <1>3, CoveredIff
<1>4. ASSUME NEW i \in DOMAIN new, NEW j \in DOMAIN new, i # j, NEW a,
             a \in Bytes(new[i]), a \in Bytes(new[j])
      PROVE  FALSE
  <2>1. CASE new = Append(list, s)
    <3>1. \A k \in DOMAIN new : \/ k \in DOMAIN list /\ new[k] = list[k]
                                \/ k = Len(list) + 1 /\ new[k] = s
      BY <2>1
    <3> HIDE DEF new
    <3> QED BY <1>2, <1>3, <1>4, <3>1
  <2>2. ASSUME NEW k \in DOMAIN list, Mergeable(list[k], s),
               new = [list EXCEPT ![k] = Merged(list[k], s)]
        PROVE  FALSE
    <3>1. Bytes(Merged(list[k], s)) = Bytes(list[k]) \cup Bytes(s)
      BY <1>1, <2>2, MergedBytes
    <3>2. /\ DOMAIN new = DOMAIN list /\ new[k] = Merged(list[k], s)
          /\ \A m \in DOMAIN list : m # k => new[m] = list[m]
      BY <2>2
    <3> HIDE DEF new
    <3> QED BY <1>2, <1>3, <1>4, <3>1, <3>2
  <2> HIDE DEF new
  <2> QED BY <2>1, <2>2, AddRegionShape DEF new
<1>5. \A k \in DOMAIN new : new[k] \in Regions
  BY AddRegionCovers
<1> HIDE DEF new
<1>6. Disjoint(new)
  BY <1>4, <1>5, OverlapIffCommonByte DEF Disjoint
<1> QED BY <1>6 DEF new

-----------------------------------------------------------------------------
(* The inductive invariant.  Beyond the properties themselves it says that *)
(* the history holds regions, and it has KernelIsReserved from the step on *)
(* that reserves each part, not only at the end.                           *)
GivenOK == given \in [ram : Seq(Regions), device : Seq(Regions), reserved : Seq(Regions)]

HoleReserved ==
    Disjoint(_ram_regions) =>
        \A k \in DOMAIN _ram_regions : HoldsKernel(_ram_regions[k]) =>
            _ram_regions[k]._start .. Kernel._start - 1 \subseteq Covered(_reserved_regions)

KernelSoFar ==
    /\ phase \in {"entries", "fdt", "done"} => HoleReserved
    /\ phase \in {"fdt", "done"} => Bytes(Kernel) \subseteq Covered(_reserved_regions)

IInv == /\ TypeOK /\ GivenOK /\ CoversWhatItWasGiven /\ DisjointStaysDisjoint
        /\ RamIsNotDevice /\ KernelSoFar

(* What the append to the history does to Covered.                         *)
LEMMA AppendCovers ==
    ASSUME NEW list \in Seq(Regions), NEW s \in Regions
    PROVE  /\ Append(list, s) \in Seq(Regions)
           /\ Covered(Append(list, s)) = Covered(list) \cup Bytes(s)
           /\ Disjoint(Append(list, s)) => Disjoint(list) /\ Covered(list) \cap Bytes(s) = {}
<1> DEFINE new == Append(list, s)
<1>1. /\ new \in Seq(Regions)
      /\ \A k \in DOMAIN list : k \in DOMAIN new /\ new[k] = list[k] /\ list[k] \in Regions
      /\ Len(list) + 1 \in DOMAIN new /\ new[Len(list) + 1] = s
      /\ Len(list) + 1 \notin DOMAIN list
      /\ \A k \in DOMAIN new : k \in DOMAIN list \/ k = Len(list) + 1
  OBVIOUS
<1> HIDE DEF new
<1>2. ASSUME NEW a PROVE a \in Covered(new) <=> a \in Covered(list) \cup Bytes(s)
  BY <1>1, CoveredIff
<1>3. ASSUME Disjoint(new) PROVE Disjoint(list)
  BY <1>1, <1>3 DEF Disjoint
<1>4. ASSUME Disjoint(new), NEW a, a \in Covered(list), a \in Bytes(s) PROVE FALSE
  <2>1. PICK k \in DOMAIN list : a \in Bytes(list[k])
    BY <1>4, CoveredIff
  <2>2. ~regions_overlap(new[k], new[Len(list) + 1])
    BY <1>1, <1>4 DEF Disjoint
  <2> QED BY <1>1, <1>4, <2>1, <2>2, OverlapIffCommonByte
<1> QED BY <1>1, <1>2, <1>3, <1>4 DEF new

(* The empty list.                                                         *)
LEMMA EmptyCovers == Covered(<< >>) = {} /\ Disjoint(<< >>) /\ << >> \in Seq(Regions)
BY DEF Covered, Disjoint

LEMMA InitIInv == Init => IInv
BY EmptyCovers, MaxNumRegionsAssumption
DEF Init, IInv, TypeOK, GivenOK, CoversWhatItWasGiven, DisjointStaysDisjoint, RamIsNotDevice,
    KernelSoFar

(* A panic stops everything and breaks nothing.                            *)
LEMMA PanicIInv == IInv /\ Panic => IInv'
<1> SUFFICES ASSUME IInv, Panic PROVE IInv'
  OBVIOUS
<1>1. /\ phase' = "panic" /\ given' = given /\ _ram_regions' = _ram_regions
      /\ _device_regions' = _device_regions /\ _reserved_regions' = _reserved_regions
  BY DEF Panic, lists
<1>2. TypeOK' /\ GivenOK'
  BY <1>1 DEF IInv, TypeOK, GivenOK
<1>3. CoversWhatItWasGiven' /\ DisjointStaysDisjoint'
  BY <1>1 DEF IInv, CoversWhatItWasGiven, DisjointStaysDisjoint
<1>4. RamIsNotDevice' /\ KernelSoFar'
  BY <1>1 DEF RamIsNotDevice, KernelSoFar
<1> QED BY <1>2, <1>3, <1>4 DEF IInv

(* add_region to the reserved list: what was covered stays covered.        *)
LEMMA ReserveIInv ==
    ASSUME IInv, NEW r \in Regions, NEW q \in {"entries", "fdt", "done"}, Reserve(r, q),
           phase \in {"hole", "entries", "fdt"},
           Covered(_reserved_regions') = Covered(_reserved_regions) \cup Bytes(r) => KernelSoFar'
    PROVE  IInv'
<1>1. CASE Panic
  BY <1>1, PanicIInv
<1>2. CASE ~Panic
  <2>1. /\ HasRoom(_reserved_regions)
        /\ _reserved_regions' = add_region(_reserved_regions, r)
        /\ given' = [given EXCEPT !["reserved"] = Append(given["reserved"], r)]
        /\ phase' = q
        /\ UNCHANGED <<_ram_regions, _device_regions>>
    BY <1>2 DEF Reserve, Remember
  <2>2. /\ given' \in [ram : Seq(Regions), device : Seq(Regions), reserved : Seq(Regions)]
        /\ given'["ram"] = given["ram"] /\ given'["device"] = given["device"]
        /\ given'["reserved"] = Append(given["reserved"], r)
        /\ given["reserved"] \in Seq(Regions)
    BY <2>1, AppendCovers DEF IInv, GivenOK
  <2>a. _reserved_regions \in Seq(Regions) /\ Len(_reserved_regions) \in Nat
    BY DEF IInv, TypeOK
  <2>3. /\ _reserved_regions' \in Seq(Regions)
        /\ Len(_reserved_regions') <= Len(_reserved_regions) + 1
        /\ Covered(_reserved_regions') = Covered(_reserved_regions) \cup Bytes(r)
    BY <2>1, <2>a, AddRegionCovers
  <2>4. TypeOK'
    BY <2>1, <2>a, <2>3, MaxNumRegionsAssumption DEF IInv, TypeOK, HasRoom
  <2>5. CoversWhatItWasGiven'
    BY <2>1, <2>2, <2>3, AppendCovers DEF IInv, CoversWhatItWasGiven
  <2>6. DisjointStaysDisjoint' /\ RamIsNotDevice'
    BY <2>1, <2>2 DEF IInv, DisjointStaysDisjoint, RamIsNotDevice, Disjoint, Covered
  <2> QED BY <2>2, <2>3, <2>4, <2>5, <2>6 DEF IInv, GivenOK
<1> QED BY <1>1, <1>2

(* Memory::dt_parse and record_device_region.                              *)
LEMMA ParseIInv ==
    ASSUME IInv, NEW r \in Input, dt_parse(r) \/ record_device_region(r)
    PROVE  IInv'
<1>0. /\ r \in Regions /\ phase = "parse"
      /\ _ram_regions \in Seq(Regions) /\ Len(_ram_regions) \in Nat
      /\ _device_regions \in Seq(Regions) /\ Len(_device_regions) \in Nat
  <2>1. r \in Regions
    BY InputAssumption
  <2>2. phase = "parse"
    BY DEF dt_parse, record_device_region, MoreNodes
  <2>3. _ram_regions \in Seq(Regions) /\ _device_regions \in Seq(Regions)
    BY DEF IInv, TypeOK
  <2> QED BY <2>1, <2>2, <2>3
<1>1. CASE Panic
  BY <1>1, PanicIInv
<1>2. CASE dt_parse(r) /\ ~Panic
  <2>1. /\ HasRoom(_ram_regions) /\ _ram_regions' = add_region(_ram_regions, r)
        /\ given' = [given EXCEPT !["ram"] = Append(given["ram"], r)]
        /\ UNCHANGED <<_device_regions, _reserved_regions, phase>>
    BY <1>2 DEF dt_parse, Remember
  <2>2. /\ given' \in [ram : Seq(Regions), device : Seq(Regions), reserved : Seq(Regions)]
        /\ given'["device"] = given["device"] /\ given'["reserved"] = given["reserved"]
        /\ given'["ram"] = Append(given["ram"], r) /\ given["ram"] \in Seq(Regions)
    BY <1>0, <2>1, AppendCovers DEF IInv, GivenOK
  <2>3. /\ _ram_regions' \in Seq(Regions) /\ Len(_ram_regions') <= Len(_ram_regions) + 1
        /\ Covered(_ram_regions') = Covered(_ram_regions) \cup Bytes(r)
    BY <1>0, <2>1, AddRegionCovers
  <2>4. TypeOK'
    BY <1>0, <2>1, <2>3, MaxNumRegionsAssumption DEF IInv, TypeOK, HasRoom
  <2>5. CoversWhatItWasGiven'
    BY <1>0, <2>1, <2>2, <2>3, AppendCovers DEF IInv, CoversWhatItWasGiven
  <2>6. DisjointStaysDisjoint'
    <3>1. ASSUME Disjoint(given'["ram"])
          PROVE  Disjoint(_ram_regions) /\ Covered(_ram_regions) \cap Bytes(r) = {}
      BY <1>0, <2>2, <3>1, AppendCovers DEF IInv, CoversWhatItWasGiven, DisjointStaysDisjoint
    <3> QED BY <1>0, <2>1, <3>1, AddRegionDisjoint DEF DisjointStaysDisjoint
  <2>7. RamIsNotDevice' /\ KernelSoFar'
    BY <1>0, <2>1 DEF RamIsNotDevice, KernelSoFar
  <2> QED BY <2>2, <2>4, <2>5, <2>6, <2>7 DEF IInv, GivenOK
<1>3. CASE record_device_region(r) /\ ~Panic
  <2>1. /\ HasRoom(_device_regions) /\ _device_regions' = add_region(_device_regions, r)
        /\ given' = [given EXCEPT !["device"] = Append(given["device"], r)]
        /\ UNCHANGED <<_ram_regions, _reserved_regions, phase>>
    BY <1>3 DEF record_device_region, Remember
  <2>2. /\ given' \in [ram : Seq(Regions), device : Seq(Regions), reserved : Seq(Regions)]
        /\ given'["ram"] = given["ram"] /\ given'["reserved"] = given["reserved"]
        /\ given'["device"] = Append(given["device"], r) /\ given["device"] \in Seq(Regions)
    BY <1>0, <2>1, AppendCovers DEF IInv, GivenOK
  <2>3. /\ _device_regions' \in Seq(Regions)
        /\ Len(_device_regions') <= Len(_device_regions) + 1
        /\ Covered(_device_regions') = Covered(_device_regions) \cup Bytes(r)
    BY <1>0, <2>1, AddRegionCovers
  <2>4. TypeOK'
    BY <1>0, <2>1, <2>3, MaxNumRegionsAssumption DEF IInv, TypeOK, HasRoom
  <2>5. CoversWhatItWasGiven'
    BY <1>0, <2>1, <2>2, <2>3, AppendCovers DEF IInv, CoversWhatItWasGiven
  <2>6. DisjointStaysDisjoint'
    BY <2>1, <2>2 DEF IInv, DisjointStaysDisjoint
  <2>7. RamIsNotDevice' /\ KernelSoFar'
    BY <1>0, <2>1 DEF RamIsNotDevice, KernelSoFar
  <2> QED BY <2>2, <2>4, <2>5, <2>6, <2>7 DEF IInv, GivenOK
<1> QED BY <1>1, <1>2, <1>3

(* validate_device_regions: no two regions overlap, so no byte is in both  *)
(* lists.                                                                  *)
LEMMA ValidateIInv ==
    ASSUME IInv, validate_device_regions
    PROVE  IInv'
<1> DEFINE overlap == \E k \in DOMAIN _device_regions, m \in DOMAIN _ram_regions :
                          regions_overlap(_device_regions[k], _ram_regions[m])
<1>1. CASE overlap
  BY <1>1, PanicIInv DEF validate_device_regions
<1>2. CASE ~overlap
  <2>1. /\ phase' = "hole" /\ given' = given /\ _ram_regions' = _ram_regions
        /\ _device_regions' = _device_regions /\ _reserved_regions' = _reserved_regions
    BY <1>2 DEF validate_device_regions, lists
  <2>2. /\ \A k \in DOMAIN _device_regions : _device_regions[k] \in Regions
        /\ \A m \in DOMAIN _ram_regions : _ram_regions[m] \in Regions
    <3>1. _device_regions \in Seq(Regions) /\ _ram_regions \in Seq(Regions)
      BY DEF IInv, TypeOK
    <3> QED BY <3>1
  <2>3. ASSUME NEW a, a \in Covered(_ram_regions), a \in Covered(_device_regions) PROVE FALSE
    <3>1. PICK m \in DOMAIN _ram_regions : a \in Bytes(_ram_regions[m])
      BY <2>3, CoveredIff
    <3>2. PICK k \in DOMAIN _device_regions : a \in Bytes(_device_regions[k])
      BY <2>3, CoveredIff
    <3> QED BY <1>2, <2>2, <3>1, <3>2, OverlapIffCommonByte
  <2>4. RamIsNotDevice' /\ KernelSoFar'
    BY <2>1, <2>3 DEF RamIsNotDevice, KernelSoFar
  <2>5. TypeOK' /\ GivenOK'
    BY <2>1 DEF IInv, TypeOK, GivenOK
  <2>6. CoversWhatItWasGiven' /\ DisjointStaysDisjoint'
    BY <2>1 DEF IInv, CoversWhatItWasGiven, DisjointStaysDisjoint
  <2> QED BY <2>4, <2>5, <2>6 DEF IInv
<1> QED BY <1>1, <1>2

(* Memory::init, the hole: if the RAM regions are disjoint, the first one  *)
(* that holds the kernel is the only one.                                  *)
LEMMA HoleIInv ==
    ASSUME IInv, init_hole
    PROVE  IInv'
<1> DEFINE holding == {k \in DOMAIN _ram_regions : HoldsKernel(_ram_regions[k])}
           first   == CHOOSE k \in holding : \A j \in holding : k <= j
           start   == _ram_regions[first]._start
           hole    == Region(start, Kernel._start - start)
<1>1. /\ phase = "hole" /\ _ram_regions \in Seq(Regions) /\ Kernel \in Regions
  BY InputAssumption DEF init_hole, IInv, TypeOK
<1>2. CASE holding = {}
  <2>1. /\ phase' = "entries" /\ given' = given /\ _ram_regions' = _ram_regions
        /\ _device_regions' = _device_regions /\ _reserved_regions' = _reserved_regions
    BY <1>2 DEF init_hole, lists
  <2>2. KernelSoFar'
    BY <1>2, <2>1 DEF KernelSoFar, HoleReserved
  <2>3. TypeOK' /\ GivenOK'
    BY <2>1 DEF IInv, TypeOK, GivenOK
  <2>4. CoversWhatItWasGiven' /\ DisjointStaysDisjoint' /\ RamIsNotDevice'
    BY <1>1, <2>1 DEF IInv, CoversWhatItWasGiven, DisjointStaysDisjoint, RamIsNotDevice
  <2> QED BY <2>2, <2>3, <2>4 DEF IInv
<1>3. CASE holding # {}
  <2>1. first \in holding
    <3>1. holding \in SUBSET Nat
      BY <1>1
    <3> HIDE DEF holding
    <3>2. \E k \in holding : \A j \in holding : k <= j
      BY <1>3, <3>1, Least
    <3> QED BY <3>2 DEF first
  <2>2. Reserve(hole, "entries")
    BY <1>3 DEF init_hole
  <2> HIDE DEF first
  <2>3. /\ first \in DOMAIN _ram_regions /\ _ram_regions[first] \in Regions
        /\ HoldsKernel(_ram_regions[first])
    BY <1>1, <2>1
  <2>4. hole \in Regions /\ Bytes(hole) = start .. Kernel._start - 1
    BY <1>1, <2>3 DEF Region, Regions, HoldsKernel, Bytes, End
  <2>5. ASSUME Disjoint(_ram_regions), NEW k \in DOMAIN _ram_regions, HoldsKernel(_ram_regions[k])
        PROVE  k = first
    <3>1. _ram_regions[k] \in Regions
      BY <1>1
    <3>2. regions_overlap(_ram_regions[k], _ram_regions[first])
      BY <1>1, <2>3, <2>5, <3>1 DEF regions_overlap, HoldsKernel, End, Regions
    <3> QED BY <2>3, <2>5, <3>2 DEF Disjoint
  <2>6. ASSUME Covered(_reserved_regions') = Covered(_reserved_regions) \cup Bytes(hole)
        PROVE  KernelSoFar'
    <3> HIDE DEF hole
    <3>1. (phase' = "entries" /\ _ram_regions' = _ram_regions) \/ phase' = "panic"
      BY <2>2 DEF Reserve, Panic
    <3>2. start .. Kernel._start - 1 \subseteq Covered(_reserved_regions')
      BY <2>4, <2>6
    <3> QED BY <2>5, <3>1, <3>2 DEF KernelSoFar, HoleReserved
  <2> HIDE DEF hole
  <2> QED BY <1>1, <2>2, <2>4, <2>6, ReserveIInv
<1> QED BY <1>2, <1>3

(* Memory::init, the rest: an entry, the kernel or the device tree.        *)
LEMMA InitIInvStep ==
    ASSUME IInv, init_kernel \/ \E r \in Input : init_entry(r) \/ init_fdt(r)
    PROVE  IInv'
<1>1. PICK r \in Regions, q \in {"entries", "fdt", "done"} :
          /\ phase \in {"entries", "fdt"} /\ Reserve(r, q)
          /\ \/ q = "entries" /\ phase = "entries"
             \/ q = "fdt" /\ r = Kernel /\ phase = "entries"
             \/ q = "done" /\ phase = "fdt"
  BY InputAssumption DEF init_kernel, init_entry, init_fdt
<1>2. ASSUME Covered(_reserved_regions') = Covered(_reserved_regions) \cup Bytes(r)
      PROVE  KernelSoFar'
  <2>1. (phase' = q /\ _ram_regions' = _ram_regions) \/ phase' = "panic"
    BY <1>1 DEF Reserve, Panic
  <2>2. CASE phase' = "panic"
    BY <2>2 DEF KernelSoFar
  <2>3. CASE phase' = q /\ _ram_regions' = _ram_regions
    <3>1. HoleReserved
      BY <1>1 DEF IInv, KernelSoFar
    <3>2. HoleReserved'
      BY <1>2, <2>3, <3>1 DEF HoleReserved
    <3>3. phase' \in {"fdt", "done"} => Bytes(Kernel) \subseteq Covered(_reserved_regions')
      BY <1>1, <1>2, <2>3 DEF IInv, KernelSoFar
    <3> QED BY <3>2, <3>3 DEF KernelSoFar
  <2> QED BY <2>1, <2>2, <2>3
<1> QED BY <1>1, <1>2, ReserveIInv

LEMMA NextIInv == IInv /\ [Next]_vars => IInv'
<1> SUFFICES ASSUME IInv, [Next]_vars PROVE IInv'
  OBVIOUS
<1>1. CASE UNCHANGED vars
  <2>1. /\ phase' = phase /\ given' = given /\ _ram_regions' = _ram_regions
        /\ _device_regions' = _device_regions /\ _reserved_regions' = _reserved_regions
    BY <1>1 DEF vars, lists
  <2>2. TypeOK' /\ GivenOK'
    BY <2>1 DEF IInv, TypeOK, GivenOK
  <2>3. CoversWhatItWasGiven' /\ DisjointStaysDisjoint' /\ RamIsNotDevice'
    BY <2>1 DEF IInv, CoversWhatItWasGiven, DisjointStaysDisjoint, RamIsNotDevice
  <2>4. KernelSoFar'
    BY <2>1 DEF IInv, KernelSoFar, HoleReserved
  <2> QED BY <2>2, <2>3, <2>4 DEF IInv
<1>2. CASE Next
  BY <1>2, ParseIInv, ValidateIInv, HoleIInv, InitIInvStep DEF Next
<1> QED BY <1>1, <1>2

-----------------------------------------------------------------------------
(* From here on: for lists of any capacity, and any regions in any number  *)
(* and any order.                                                          *)
LEMMA AlwaysIInv == Spec => []IInv
BY InitIInv, NextIInv, PTL DEF Spec

(* add_region loses no memory and invents none.                            *)
THEOREM ListsCoverWhatTheyWereGiven == Spec => []CoversWhatItWasGiven
<1>1. IInv => CoversWhatItWasGiven
  BY DEF IInv
<1> QED BY <1>1, AlwaysIInv, PTL

(* RAM regions that are disjoint in the device tree stay disjoint.         *)
THEOREM DisjointRegionsStayDisjoint == Spec => []DisjointStaysDisjoint
<1>1. IInv => DisjointStaysDisjoint
  BY DEF IInv
<1> QED BY <1>1, AlwaysIInv, PTL

(* What validate_device_regions lets pass has no address that is both RAM  *)
(* and device memory.                                                      *)
THEOREM RamAndDevicesAreApart == Spec => []RamIsNotDevice
<1>1. IInv => RamIsNotDevice
  BY DEF IInv
<1> QED BY <1>1, AlwaysIInv, PTL

(* Memory::init reserves the kernel and the hole in front of it.           *)
THEOREM KernelEndsUpReserved == Spec => []KernelIsReserved
<1>1. IInv => KernelIsReserved
  BY DEF IInv, KernelSoFar, HoleReserved, KernelIsReserved
<1> QED BY <1>1, AlwaysIInv, PTL
=============================================================================
