---------------------------- MODULE IdMap_proof -----------------------------
(***************************************************************************)
(* Proofs about module IdMap, for every page size, fan-out, number of      *)
(* tables and board: where the mapping loops are, that two L3 tables per   *)
(* region suffice, and what each kind of store does to the tables.  The    *)
(* identity map itself is in IdMapExact_proof.                             *)
(***************************************************************************)
EXTENDS IdMap, WellFoundedInduction, TLAPS

-----------------------------------------------------------------------------
(* Every nonempty set of naturals has a least element: what the choice of  *)
(* the first entry, and proofs by induction on a length, rest on.          *)
Less == {ss \in Nat \X Nat : ss[1] < ss[2]}

LEMMA Least ==
    ASSUME NEW T \in SUBSET Nat, T # {}
    PROVE  \E n \in T : \A m \in T : n <= m
<1>1. IsWellFoundedOn(Less, Nat)
  BY NatLessThanWellFounded DEF OpToRel, Less
<1>2. PICK n \in T : \A m \in T : <<m, n>> \notin Less
  BY <1>1, WFMin
<1>3. ASSUME NEW m \in T PROVE n <= m
  <2>1. n \in Nat /\ m \in Nat
    OBVIOUS
  <2>2. ~(m < n)
    BY <1>2, <2>1 DEF Less
  <2> QED BY <2>1, <2>2
<1> QED BY <1>3

(* Covered in terms of the entries.                                        *)
LEMMA CoveredIff ==
    ASSUME NEW list, NEW a
    PROVE  a \in Covered(list) <=> \E k \in DOMAIN list : a \in Bytes(list[k])
BY DEF Covered

(* regions_overlap is what its name says.                                  *)
LEMMA OverlapIffCommonByte ==
    ASSUME NEW r \in Regions, NEW s \in Regions
    PROVE  regions_overlap(r, s) <=> \E a : a \in Bytes(r) /\ a \in Bytes(s)
<1>1. ASSUME regions_overlap(r, s) PROVE \E a : a \in Bytes(r) /\ a \in Bytes(s)
  <2>1. CASE r._start <= s._start
    <3>1. s._start \in Bytes(r) /\ s._start \in Bytes(s)
      BY <1>1, <2>1 DEF regions_overlap, Bytes, End, Regions
    <3> QED BY <3>1
  <2>2. CASE s._start <= r._start
    <3>1. r._start \in Bytes(r) /\ r._start \in Bytes(s)
      BY <1>1, <2>2 DEF regions_overlap, Bytes, End, Regions
    <3> QED BY <3>1
  <2> QED BY <2>1, <2>2 DEF Regions
<1>2. ASSUME NEW a, a \in Bytes(r), a \in Bytes(s) PROVE regions_overlap(r, s)
  BY <1>2 DEF regions_overlap, Bytes, End, Regions
<1> QED BY <1>1, <1>2

(* add_region appends the region, or merges it into the first one that it  *)
(* touches: the list grows by at most one entry, and none ends behind the  *)
(* regions that were given.                                                *)
LEMMA AddRegionFits ==
    ASSUME NEW list \in Seq(Regions), NEW s \in Regions, NEW top \in Nat,
           End(s) <= top, \A k \in DOMAIN list : End(list[k]) <= top
    PROVE  /\ add_region(list, s) \in Seq(Regions)
           /\ Len(add_region(list, s)) <= Len(list) + 1
           /\ \A k \in DOMAIN add_region(list, s) : End(add_region(list, s)[k]) <= top
<1> DEFINE new      == add_region(list, s)
           touching == {k \in DOMAIN list : Mergeable(list[k], s)}
           first    == CHOOSE k \in touching : \A j \in touching : k <= j
<1>1. CASE touching = {}
  <2>1. new = Append(list, s)
    BY <1>1 DEF add_region
  <2>2. \A k \in DOMAIN new : \/ k \in DOMAIN list /\ new[k] = list[k]
                              \/ new[k] = s
    BY <2>1
  <2>3. new \in Seq(Regions) /\ Len(new) <= Len(list) + 1
    BY <2>1
  <2> HIDE DEF new
  <2>4. \A k \in DOMAIN new : End(new[k]) <= top
    BY <2>2
  <2> QED BY <2>3, <2>4 DEF new
<1>2. CASE touching # {}
  <2>1. touching \in SUBSET Nat
    OBVIOUS
  <2>2. first \in touching
    <3> HIDE DEF touching
    <3>1. \E k \in touching : \A j \in touching : k <= j
      BY <1>2, <2>1, Least
    <3> QED BY <3>1 DEF first
  <2>3. new = [list EXCEPT ![first] = Merged(list[first], s)]
    BY <1>2 DEF add_region
  <2> DEFINE m == Merged(list[first], s)
  <2>4. first \in DOMAIN list /\ list[first] \in Regions /\ Mergeable(list[first], s)
    BY <2>2
  <2> HIDE DEF first, touching
  <2>5. m \in Regions /\ End(m) \in {End(list[first]), End(s)}
    <3>1. CASE End(list[first]) = s._start
      <4>1. m = [_start |-> list[first]._start, _size |-> list[first]._size + s._size]
        BY <2>4, <3>1 DEF Merged, Regions
      <4> QED BY <2>4, <3>1, <4>1 DEF End, Regions
    <3>2. CASE End(list[first]) # s._start
      <4>1. m = [_start |-> list[first]._start - s._size, _size |-> list[first]._size + s._size]
        BY <2>4, <3>2 DEF Merged, Regions
      <4>2. s._start + s._size = list[first]._start
        BY <2>4, <3>2 DEF Mergeable, End
      <4> QED BY <2>4, <4>1, <4>2 DEF End, Regions
    <3> QED BY <3>1, <3>2
  <2>6. new = [list EXCEPT ![first] = m]
    BY <2>3
  <2> HIDE DEF new, m
  <2>7. /\ new \in Seq(Regions) /\ Len(new) = Len(list) /\ DOMAIN new = DOMAIN list
        /\ new[first] = m /\ \A j \in DOMAIN list : j # first => new[j] = list[j]
    BY <2>4, <2>5, <2>6
  <2>8. End(m) <= top
    BY <2>4, <2>5
  <2>9. \A j \in DOMAIN new : End(new[j]) <= top
    BY <2>7, <2>8
  <2>10. Len(new) <= Len(list) + 1
    BY <2>7
  <2> QED BY <2>7, <2>9, <2>10 DEF new
<1> QED BY <1>1, <1>2

-----------------------------------------------------------------------------
(* Arithmetic of granules: multiples of b, and the granule k * b ..        *)
(* k * b + b - 1 that an address lies in.                                  *)
LEMMA Product ==
    ASSUME NEW p \in Nat, NEW q \in Nat
    PROVE  p * q \in Nat
OBVIOUS

LEMMA DivMod ==
    ASSUME NEW a \in Nat, NEW b \in Nat \ {0}
    PROVE  /\ a \div b \in Nat /\ a % b \in 0 .. b - 1
           /\ a = (a \div b) * b + (a % b)
OBVIOUS

LEMMA Quotient ==
    ASSUME NEW a \in Nat, NEW b \in Nat \ {0}, NEW k \in Nat, a \in k * b .. k * b + b - 1
    PROVE  a \div b = k /\ a % b = a - k * b
<1> DEFINE r == a - k * b
<1>1. k * b \in Nat
  BY Product
<1>2. r \in 0 .. b - 1 /\ a = k * b + r
  BY <1>1
<1> HIDE DEF r
<1>3. a \div b = k /\ a % b = r
  BY <1>2
<1> QED
  BY <1>3 DEF r

LEMMA Apart ==
    ASSUME NEW j \in Nat, NEW k \in Nat, NEW b \in Nat, j < k
    PROVE  j * b + b <= k * b
OBVIOUS

LEMMA Floor ==
    ASSUME NEW a \in Nat, NEW b \in Nat \ {0}
    PROVE  /\ a \div b \in Nat /\ (a \div b) * b \in Nat
           /\ a \in (a \div b) * b .. (a \div b) * b + b - 1
<1> DEFINE q == a \div b
<1>1. q \in Nat /\ a % b \in 0 .. b - 1 /\ a = q * b + (a % b)
  BY DivMod
<1> HIDE DEF q
<1>2. q * b \in Nat
  BY <1>1, Product
<1>3. a \in q * b .. q * b + b - 1
  BY <1>1, <1>2
<1> QED
  BY <1>1, <1>2, <1>3 DEF q

LEMMA Multiple ==
    ASSUME NEW a \in Nat, NEW b \in Nat \ {0}, a % b = 0
    PROVE  a = (a \div b) * b
BY DivMod

LEMMA MultipleOf ==
    ASSUME NEW k \in Nat, NEW b \in Nat \ {0}
    PROVE  (k * b) % b = 0 /\ (k * b) \div b = k
<1>1. k * b \in Nat
  BY Product
<1>2. k * b \in k * b .. k * b + b - 1
  BY <1>1
<1> QED
  BY <1>1, <1>2, Quotient

LEMMA NextMultiple ==
    ASSUME NEW a \in Nat, NEW c \in Nat, NEW b \in Nat \ {0},
           a % b = 0, c % b = 0, a < c
    PROVE  a + b <= c
<1> DEFINE p == a \div b
           q == c \div b
<1>1. p \in Nat /\ q \in Nat /\ a = p * b /\ c = q * b
  BY DivMod, Multiple
<1>2. p < q
  BY <1>1, Apart
<1> QED
  BY <1>1, <1>2, Apart

LEMMA SumOfMultiples ==
    ASSUME NEW a \in Nat, NEW c \in Nat, NEW b \in Nat \ {0}, a % b = 0, c % b = 0
    PROVE  (a + c) % b = 0
<1> DEFINE p == a \div b
           q == c \div b
<1>1. p \in Nat /\ q \in Nat /\ a = p * b /\ c = q * b
  BY DivMod, Multiple
<1> HIDE DEF p, q
<1>2. a + c = (p + q) * b /\ p + q \in Nat
  BY <1>1
<1>3. ((p + q) * b) % b = 0
  BY <1>2, MultipleOf
<1> QED
  BY <1>2, <1>3

LEMMA StepIsMultiple ==
    ASSUME NEW a \in Nat, NEW b \in Nat \ {0}, a % b = 0
    PROVE  (a + b) % b = 0
<1> DEFINE p == a \div b
<1>1. p \in Nat /\ a = p * b
  BY DivMod, Multiple
<1> HIDE DEF p
<1>2. a + b = (p + 1) * b /\ p + 1 \in Nat
  BY <1>1
<1>3. ((p + 1) * b) % b = 0
  BY <1>2, MultipleOf
<1> QED
  BY <1>2, <1>3

(* A multiple of f * b is a multiple of b.                                 *)
LEMMA Coarser ==
    ASSUME NEW a \in Nat, NEW b \in Nat \ {0}, NEW f \in Nat \ {0}, a % (f * b) = 0
    PROVE  a % b = 0
<1> DEFINE p == a \div (f * b)
<1>1. f * b \in Nat \ {0}
  OBVIOUS
<1>2. p \in Nat /\ a = p * (f * b)
  BY <1>1, DivMod, Multiple
<1> HIDE DEF p
<1>3. p * (f * b) = (p * f) * b /\ p * f \in Nat
  BY <1>2
<1>4. ((p * f) * b) % b = 0
  BY <1>3, MultipleOf
<1> QED
  BY <1>2, <1>3, <1>4

(* A region made of whole granules holds all of a granule or none of it.   *)
LEMMA Granule ==
    ASSUME NEW start \in Nat, NEW size \in Nat, NEW b \in Nat \ {0}, NEW k \in Nat,
           start % b = 0, size % b = 0, NEW a \in k * b .. k * b + b - 1
    PROVE  a \in start .. start + size - 1 <=> k * b \in start .. start + size - 1
<1> DEFINE p == start \div b
           q == size \div b
<1>1. p \in Nat /\ q \in Nat /\ start = p * b /\ size = q * b
  BY DivMod, Multiple
<1> HIDE DEF p, q
<1>2. start + size = (p + q) * b /\ p + q \in Nat /\ k * b \in Nat
  BY <1>1
<1>3. k < p => k * b + b <= start
  BY <1>1, Apart
<1>4. ~(k < p) => start <= k * b
  BY <1>1
<1>5. k < p + q => k * b + b <= start + size
  BY <1>2, Apart
<1>6. ~(k < p + q) => start + size <= k * b
  BY <1>2
<1> QED
  BY <1>1, <1>2, <1>3, <1>4, <1>5, <1>6

(* The entries of a region made of whole granules.                         *)
LEMMA EntriesOfGranules ==
    ASSUME NEW start \in Nat, NEW size \in Nat, NEW b \in Nat \ {0}, NEW k \in Nat,
           start % b = 0, size % b = 0
    PROVE  k \in Entries(start, size, b) <=> k * b \in start .. start + size - 1
<1> DEFINE p == start \div b
           q == size \div b
<1>1. p \in Nat /\ q \in Nat /\ start = p * b /\ size = q * b
  BY DivMod, Multiple
<1>2. k \in Entries(start, size, b) <=> k \in p .. p + q - 1
  BY DEF Entries
<1> HIDE DEF p, q
<1>3. start + size = (p + q) * b /\ p + q \in Nat /\ k * b \in Nat
  BY <1>1
<1>4. k < p => k * b + b <= start
  BY <1>1, Apart
<1>5. ~(k < p) => start <= k * b
  BY <1>1
<1>6. k < p + q => k * b + b <= start + size
  BY <1>3, Apart
<1>7. ~(k < p + q) => start + size <= k * b
  BY <1>3
<1> QED
  BY <1>1, <1>2, <1>3, <1>4, <1>5, <1>6, <1>7

(* A granule of b lies in one granule of f * b.                            *)
LEMMA Nested ==
    ASSUME NEW c \in Nat, NEW b \in Nat \ {0}, NEW f \in Nat \ {0}, c % b = 0,
           NEW a \in c .. c + b - 1
    PROVE  a \div (f * b) = c \div (f * b)
<1> DEFINE g == f * b
<1>1. g \in Nat \ {0}
  OBVIOUS
<1>2. \A x \in Nat : x % g = 0 => x % b = 0
  BY Coarser
<1> HIDE DEF g
<1> DEFINE m == c \div g
<1>3. m \in Nat /\ m * g \in Nat /\ c \in m * g .. m * g + g - 1
  BY <1>1, Floor
<1> HIDE DEF m
<1>4. (m + 1) * g = m * g + g /\ m + 1 \in Nat
  BY <1>1, <1>3
<1>5. ((m + 1) * g) % g = 0
  BY <1>1, <1>4, MultipleOf
<1> DEFINE e == m * g + g
<1>6. e \in Nat /\ e % b = 0 /\ c < e
  BY <1>1, <1>2, <1>3, <1>4, <1>5
<1>7. c + b <= e
  <2> HIDE DEF e
  <2> QED
    BY <1>6, NextMultiple
<1>8. a \in Nat /\ a \in m * g .. m * g + g - 1
  BY <1>1, <1>3, <1>7
<1>9. a \div g = m
  BY <1>1, <1>3, <1>8, Quotient
<1> QED
  BY <1>9 DEF g, m

-----------------------------------------------------------------------------
(* The sizes of the entries.                                               *)
LEMMA Sizes ==
    /\ L3_ENTRY_SIZE \in Nat \ {0} /\ L2_ENTRY_SIZE \in Nat \ {0}
    /\ L1_ENTRY_SIZE \in Nat \ {0}
<1>1. L3_ENTRY_SIZE \in Nat \ {0} /\ L2_ENTRY_SIZE \in Nat \ {0}
  BY SizesAssumption DEF L3_ENTRY_SIZE, L2_ENTRY_SIZE
<1> QED
  BY <1>1, SizesAssumption DEF L1_ENTRY_SIZE

LEMMA Finer ==
    ASSUME NEW a \in Nat
    PROVE  /\ a % L2_ENTRY_SIZE = 0 => a % L3_ENTRY_SIZE = 0
           /\ a % L1_ENTRY_SIZE = 0 => a % L2_ENTRY_SIZE = 0
           /\ a % L1_ENTRY_SIZE = 0 => a % L3_ENTRY_SIZE = 0
<1>1. a % L2_ENTRY_SIZE = 0 => a % L3_ENTRY_SIZE = 0
  BY Sizes, SizesAssumption, Coarser DEF L2_ENTRY_SIZE
<1>2. a % L1_ENTRY_SIZE = 0 => a % L2_ENTRY_SIZE = 0
  BY Sizes, SizesAssumption, Coarser DEF L1_ENTRY_SIZE
<1> QED
  BY <1>1, <1>2

(* The end of the address space is a whole number of every entry.          *)
Top == NumL1 * L1_ENTRY_SIZE

LEMMA TopIsAligned ==
    /\ Top \in Nat
    /\ Top % L1_ENTRY_SIZE = 0 /\ Top % L2_ENTRY_SIZE = 0 /\ Top % L3_ENTRY_SIZE = 0
<1>1. Top \in Nat /\ Top % L1_ENTRY_SIZE = 0
  BY Sizes, SizesAssumption, MultipleOf, Product DEF Top
<1> QED
  BY <1>1, Finer

(* Every address has an entry in the L1 and in the L2 tables.              *)
LEMMA Indexes ==
    ASSUME NEW a \in Address
    PROVE  /\ a \in Nat
           /\ a \div L1_ENTRY_SIZE \in 0 .. NumL1 - 1
           /\ a \div L2_ENTRY_SIZE \in 0 .. NumL1 * Fanout - 1
<1> DEFINE p == a \div L1_ENTRY_SIZE
           q == a \div L2_ENTRY_SIZE
<1>1. a \in Nat /\ a < Top
  BY TopIsAligned DEF Address, Top
<1>2. p \in Nat /\ p * L1_ENTRY_SIZE <= a
  <2>1. p \in Nat /\ p * L1_ENTRY_SIZE \in Nat
        /\ a \in p * L1_ENTRY_SIZE .. p * L1_ENTRY_SIZE + L1_ENTRY_SIZE - 1
    BY <1>1, Sizes, Floor
  <2> QED
    BY <2>1, Sizes
<1>3. q \in Nat /\ q * L2_ENTRY_SIZE <= a
  <2>1. q \in Nat /\ q * L2_ENTRY_SIZE \in Nat
        /\ a \in q * L2_ENTRY_SIZE .. q * L2_ENTRY_SIZE + L2_ENTRY_SIZE - 1
    BY <1>1, Sizes, Floor
  <2> QED
    BY <2>1, Sizes
<1> HIDE DEF p, q
<1>4. p < NumL1
  <2>1. NumL1 <= p => NumL1 * L1_ENTRY_SIZE <= p * L1_ENTRY_SIZE
    BY <1>2, Sizes, SizesAssumption
  <2> QED
    BY <1>1, <1>2, <2>1, Sizes, SizesAssumption, Product DEF Top
<1>5. q < NumL1 * Fanout
  <2>1. Top = (NumL1 * Fanout) * L2_ENTRY_SIZE /\ NumL1 * Fanout \in Nat
    BY Sizes, SizesAssumption DEF Top, L1_ENTRY_SIZE
  <2>2. NumL1 * Fanout <= q => (NumL1 * Fanout) * L2_ENTRY_SIZE <= q * L2_ENTRY_SIZE
    BY <1>3, <2>1, Sizes
  <2> QED
    BY <1>1, <1>3, <2>1, <2>2, Sizes, Product
<1> QED
  BY <1>1, <1>2, <1>3, <1>4, <1>5, SizesAssumption DEF p, q

LEMMA AlignDown ==
    ASSUME NEW a \in Nat
    PROVE  /\ align_down(a) \in Nat /\ align_down(a) % L3_ENTRY_SIZE = 0
           /\ align_down(a) <= a /\ a < align_down(a) + L3_ENTRY_SIZE
<1> DEFINE q == a \div L3_ENTRY_SIZE
<1>1. /\ q \in Nat /\ a % L3_ENTRY_SIZE \in 0 .. L3_ENTRY_SIZE - 1
      /\ a = q * L3_ENTRY_SIZE + (a % L3_ENTRY_SIZE)
  BY Sizes, DivMod
<1> HIDE DEF q
<1>2. q * L3_ENTRY_SIZE \in Nat /\ (q * L3_ENTRY_SIZE) % L3_ENTRY_SIZE = 0
  BY <1>1, Sizes, Product, MultipleOf
<1>3. align_down(a) = q * L3_ENTRY_SIZE
  BY <1>1, <1>2, Sizes DEF align_down
<1> QED
  BY <1>1, <1>2, <1>3, Sizes

LEMMA AlignUp ==
    ASSUME NEW a \in Nat
    PROVE  /\ align_up(a) \in Nat /\ align_up(a) % L3_ENTRY_SIZE = 0
           /\ a <= align_up(a) /\ align_up(a) < a + L3_ENTRY_SIZE
           /\ \A y \in Nat : y % L3_ENTRY_SIZE = 0 /\ a <= y => align_up(a) <= y
<1> DEFINE c == a + L3_ENTRY_SIZE - 1
           q == c \div L3_ENTRY_SIZE
           u == q * L3_ENTRY_SIZE
<1>1. c \in Nat
  BY Sizes
<1>2. q \in Nat /\ u \in Nat /\ c \in u .. u + L3_ENTRY_SIZE - 1
  BY <1>1, Sizes, Floor
<1>3. align_up(a) = u
  BY DEF align_up, CeilDiv
<1>4. u % L3_ENTRY_SIZE = 0
  BY <1>2, Sizes, MultipleOf
<1> HIDE DEF u, q
<1>5. a <= u /\ u < a + L3_ENTRY_SIZE
  BY <1>1, <1>2, Sizes
<1>6. ASSUME NEW y \in Nat, y % L3_ENTRY_SIZE = 0, a <= y
      PROVE  u <= y
  <2>1. y < u => y + L3_ENTRY_SIZE <= u
    BY <1>2, <1>4, <1>6, Sizes, NextMultiple
  <2> QED
    BY <1>2, <1>5, <1>6, <2>1, Sizes
<1> QED
  BY <1>2, <1>3, <1>4, <1>5, <1>6

(* The page of an address in the L3 table that serves its L2 entry.        *)
LEMMA PageIndex ==
    ASSUME NEW a \in Nat
    PROVE  /\ (a % L2_ENTRY_SIZE) \div L3_ENTRY_SIZE \in 0 .. Fanout - 1
           /\ (a \div L2_ENTRY_SIZE) * L2_ENTRY_SIZE
                 + ((a % L2_ENTRY_SIZE) \div L3_ENTRY_SIZE) * L3_ENTRY_SIZE = align_down(a)
<1> DEFINE k == a \div L2_ENTRY_SIZE
           r == a % L2_ENTRY_SIZE
           p == a \div L3_ENTRY_SIZE
           t == a % L3_ENTRY_SIZE
<1>1. k \in Nat /\ r \in 0 .. L2_ENTRY_SIZE - 1 /\ a = k * L2_ENTRY_SIZE + r
  BY Sizes, DivMod
<1>2. p \in Nat /\ t \in 0 .. L3_ENTRY_SIZE - 1 /\ a = p * L3_ENTRY_SIZE + t
  BY Sizes, DivMod
<1>3. align_down(a) = a - t
  BY DEF align_down
<1> HIDE DEF k, r, p, t
<1> DEFINE x == p - k * Fanout
<1>4. k * L2_ENTRY_SIZE = (k * Fanout) * L3_ENTRY_SIZE /\ k * Fanout \in Nat
  BY <1>1, Sizes, SizesAssumption DEF L2_ENTRY_SIZE
<1>5. x \in Int /\ x * L3_ENTRY_SIZE = p * L3_ENTRY_SIZE - (k * Fanout) * L3_ENTRY_SIZE
  BY <1>2, <1>4, Sizes
<1> HIDE DEF x
<1>6. p * L3_ENTRY_SIZE \in Nat /\ k * L2_ENTRY_SIZE \in Nat
  BY <1>1, <1>2, Sizes, Product
<1>7. r = x * L3_ENTRY_SIZE + t /\ x * L3_ENTRY_SIZE \in Int
  BY <1>1, <1>2, <1>4, <1>5, <1>6, Sizes
<1>8. x \in Nat
  <2>1. x < 0 => x * L3_ENTRY_SIZE <= -L3_ENTRY_SIZE
    BY <1>5, Sizes
  <2> QED
    BY <1>1, <1>2, <1>5, <1>7, <2>1, Sizes
<1>9. x < Fanout
  <2>1. Fanout <= x => Fanout * L3_ENTRY_SIZE <= x * L3_ENTRY_SIZE
    BY <1>8, Sizes, SizesAssumption
  <2>2. Fanout * L3_ENTRY_SIZE = L2_ENTRY_SIZE
    BY DEF L2_ENTRY_SIZE
  <2> QED
    BY <1>1, <1>2, <1>7, <1>8, <2>1, <2>2, Sizes, SizesAssumption
<1>10. r \in Nat /\ r \in x * L3_ENTRY_SIZE .. x * L3_ENTRY_SIZE + L3_ENTRY_SIZE - 1
  BY <1>1, <1>2, <1>7, Sizes
<1>11. r \div L3_ENTRY_SIZE = x
  BY <1>8, <1>10, Sizes, Quotient
<1>12. k * L2_ENTRY_SIZE + x * L3_ENTRY_SIZE = a - t
  BY <1>1, <1>2, <1>6, <1>7, Sizes
<1> QED
  BY <1>3, <1>8, <1>9, <1>11, <1>12, SizesAssumption DEF k, r

-----------------------------------------------------------------------------
(* The lists that add_region builds hold regions inside the address space. *)
ListOK(list) ==
    /\ list \in Seq(Regions) /\ Len(list) <= MaxNumRegions - 1
    /\ \A j \in DOMAIN list : End(list[j]) <= Top

LEMMA ListOfOK ==
    ASSUME NEW s \in RamInput \cup DevInput
    PROVE  ListOK(ListOf(s))
<1> DEFINE n == Len(s)
           list[k \in 0 .. n] == IF k = 0 THEN << >> ELSE add_region(list[k - 1], s[k])
           Good0(k) == /\ list[k] \in Seq(Regions) /\ Len(list[k]) <= k
                       /\ \A j \in DOMAIN list[k] : End(list[k][j]) <= Top
           T == {k \in 0 .. n : ~Good0(k)}
<1>1. /\ n \in Nat /\ n <= MaxNumRegions - 1
      /\ \A k \in 1 .. n : s[k] \in Regions /\ End(s[k]) <= Top
  BY InputAssumption DEF Top
<1>2. ListOf(s) = list[n]
  BY DEF ListOf
<1>3. FiniteNatInductiveDefHypothesis(list, << >>, LAMBDA v, k : add_region(v, s[k]), 0, n)
  BY DEF FiniteNatInductiveDefHypothesis
<1>4. FiniteNatInductiveDefConclusion(list, << >>, LAMBDA v, k : add_region(v, s[k]), 0, n)
  BY <1>1, <1>3, FiniteNatInductiveDef
<1>5. list = [k \in 0 .. n |-> IF k = 0 THEN << >> ELSE add_region(list[k - 1], s[k])]
  BY <1>4 DEF FiniteNatInductiveDefConclusion
<1> HIDE DEF list
<1>6. ASSUME T # {} PROVE FALSE
  <2>1. PICK k \in T : \A j \in T : k <= j
    <3>1. T \in SUBSET Nat
      BY <1>1
    <3> HIDE DEF T
    <3> QED BY <1>6, <3>1, Least
  <2>2. CASE k = 0
    <3>1. list[0] = << >>
      BY <1>1, <1>5
    <3>2. << >> \in Seq(Regions) /\ Len(<< >>) <= 0 /\ DOMAIN << >> = {}
      OBVIOUS
    <3>3. Good0(0)
      BY <3>1, <3>2
    <3> HIDE DEF Good0
    <3> QED BY <2>1, <2>2, <3>3
  <2>3. CASE k # 0
    <3>1. k \in 1 .. n /\ k \in 0 .. n /\ k - 1 \in 0 .. n /\ k - 1 \notin T
      BY <1>1, <2>1, <2>3
    <3>2. Good0(k - 1)
      BY <3>1
    <3>3. list[k] = add_region(list[k - 1], s[k])
      <4> HIDE DEF T, n
      <4> QED BY <1>5, <2>3, <3>1, Zenon
    <3>4. s[k] \in Regions /\ End(s[k]) <= Top /\ Top \in Nat
      BY <1>1, <3>1, TopIsAligned
    <3> DEFINE old == list[k - 1]
    <3>5. old \in Seq(Regions) /\ Len(old) <= k - 1 /\ \A j \in DOMAIN old : End(old[j]) <= Top
      BY <3>2
    <3> HIDE DEF old
    <3>6. /\ add_region(old, s[k]) \in Seq(Regions)
          /\ Len(add_region(old, s[k])) <= Len(old) + 1
          /\ \A j \in DOMAIN add_region(old, s[k]) : End(add_region(old, s[k])[j]) <= Top
      BY <3>4, <3>5, AddRegionFits
    <3>7. Len(add_region(old, s[k])) <= k
      BY <3>1, <3>5, <3>6
    <3>8. Good0(k)
      BY <3>3, <3>6, <3>7 DEF old
    <3> QED BY <2>1, <3>8
  <2> QED BY <2>2, <2>3
<1>7. Good0(n)
  BY <1>1, <1>6
<1> QED
  BY <1>1, <1>2, <1>7, MaxNumRegionsAssumption DEF ListOK

-----------------------------------------------------------------------------
(* What or-ing two descriptors gives, field by field.                      *)
LEMMA OrFields ==
    ASSUME NEW e \in Entry, NEW d \in Entry
    PROVE  /\ Or(e, d) \in Entry
           /\ Or(e, d).type = e.type \cup d.type
           /\ Or(e, d).out = e.out \cup d.out
           /\ Or(e, d).attr = e.attr \cup d.attr
<1>1. DOMAIN e = {"type", "out", "attr"}
  BY DEF Entry
<1>2. Or(e, d) = [f \in {"type", "out", "attr"} |-> e[f] \cup d[f]]
  BY <1>1 DEF Or
<1>3. /\ Or(e, d)["type"] = e["type"] \cup d["type"]
      /\ Or(e, d)["out"] = e["out"] \cup d["out"]
      /\ Or(e, d)["attr"] = e["attr"] \cup d["attr"]
  BY <1>2
<1>4. Or(e, d) = [type |-> e.type \cup d.type, out |-> e.out \cup d.out,
                  attr |-> e.attr \cup d.attr]
  BY <1>2, <1>3
<1>5. /\ e.type \cup d.type \in SUBSET {"table", "block", "page"}
      /\ e.out \cup d.out \in SUBSET Nat /\ e.attr \cup d.attr \in SUBSET {"normal", "device"}
  BY DEF Entry
<1> QED
  BY <1>4, <1>5 DEF Entry

LEMMA Descriptors ==
    ASSUME NEW n \in Nat
    PROVE  /\ Zero \in Entry /\ Table(n) \in Entry /\ Page(n) \in Entry
           /\ Block(n, "normal") \in Entry /\ Block(n, "device") \in Entry
BY DEF Zero, Table, Page, Block, Entry

LEMMA SameEntry ==
    ASSUME NEW x \in Entry, NEW y \in Entry, x.type = y.type, x.out = y.out, x.attr = y.attr
    PROVE  x = y
BY DEF Entry

(* The two uses of or: into an empty entry, and the same value again.      *)
LEMMA OrValues ==
    ASSUME NEW d \in Entry
    PROVE  Or(Zero, d) = d /\ Or(d, d) = d
<1>1. Zero \in Entry /\ Zero.type = {} /\ Zero.out = {} /\ Zero.attr = {}
  BY DEF Zero, Entry
<1>2. /\ Or(Zero, d) \in Entry /\ Or(Zero, d).type = Zero.type \cup d.type
      /\ Or(Zero, d).out = Zero.out \cup d.out /\ Or(Zero, d).attr = Zero.attr \cup d.attr
  BY <1>1, OrFields
<1>3. /\ Or(d, d) \in Entry /\ Or(d, d).type = d.type \cup d.type
      /\ Or(d, d).out = d.out \cup d.out /\ Or(d, d).attr = d.attr \cup d.attr
  BY OrFields
<1>4. Or(Zero, d).type = d.type /\ Or(Zero, d).out = d.out /\ Or(Zero, d).attr = d.attr
  BY <1>1, <1>2
<1>5. Or(d, d).type = d.type /\ Or(d, d).out = d.out /\ Or(d, d).attr = d.attr
  BY <1>3
<1>6. Or(Zero, d) = d
  BY <1>2, <1>4, SameEntry
<1>7. Or(d, d) = d
  BY <1>3, <1>5, SameEntry
<1> QED BY <1>6, <1>7

-----------------------------------------------------------------------------
(* Where setup_idmap_page_tables is: within the lists, and while it maps a *)
(* device on a page boundary between the region's rounded ends.            *)
First == align_down(device[i]._start)

Position ==
    /\ pc = "validate" => i = 1
    /\ pc = "ram" => i \in 1 .. Len(ram) + 1
    /\ pc = "device" => i \in 1 .. Len(device) + 1
    /\ pc = "enabled" => i = Len(device) + 1
    /\ pc = "map" => /\ i \in 1 .. Len(device)
                     /\ addr \in First .. RegionEnd /\ addr % L3_ENTRY_SIZE = 0

Located == ListOK(ram) /\ ListOK(device) /\ TypeOK /\ Position

LEMMA RegionBounds ==
    ASSUME ListOK(device), NEW j \in DOMAIN device
    PROVE  /\ device[j] \in Regions
           /\ align_down(device[j]._start) \in Nat /\ align_up(End(device[j])) \in Nat
           /\ align_down(device[j]._start) % L3_ENTRY_SIZE = 0
           /\ align_up(End(device[j])) % L3_ENTRY_SIZE = 0
           /\ align_down(device[j]._start) <= device[j]._start
           /\ device[j]._start < align_down(device[j]._start) + L3_ENTRY_SIZE
           /\ End(device[j]) <= align_up(End(device[j]))
           /\ align_up(End(device[j])) < End(device[j]) + L3_ENTRY_SIZE
           /\ align_up(End(device[j])) <= Top
<1>1. device[j] \in Regions /\ End(device[j]) <= Top
  BY DEF ListOK
<1>2. device[j]._start \in Nat /\ End(device[j]) \in Nat
  BY <1>1 DEF Regions, End
<1> QED
  BY <1>1, <1>2, AlignDown, AlignUp, TopIsAligned

(* An iteration of map_device_region's loop stays within the region, and   *)
(* its address has an entry in every table.                                *)
LEMMA LoopFacts ==
    ASSUME Located, pc = "map", addr < RegionEnd
    PROVE  /\ i \in DOMAIN device /\ i \in 1 .. Len(device)
           /\ addr \in Nat /\ addr % L3_ENTRY_SIZE = 0 /\ First <= addr /\ addr \in Address
           /\ First \in Nat /\ First % L3_ENTRY_SIZE = 0
           /\ RegionEnd \in Nat /\ RegionEnd % L3_ENTRY_SIZE = 0 /\ RegionEnd <= Top
           /\ l1_idx \in 0 .. NumL1 - 1 /\ l2_idx \in 0 .. NumL1 * Fanout - 1
           /\ l3_idx \in 0 .. Fanout - 1
           /\ addr + L3_ENTRY_SIZE <= RegionEnd /\ (addr + L3_ENTRY_SIZE) % L3_ENTRY_SIZE = 0
           /\ use_block => /\ addr + L2_ENTRY_SIZE <= RegionEnd
                           /\ (addr + L2_ENTRY_SIZE) % L3_ENTRY_SIZE = 0
<1>1. /\ ListOK(device) /\ i \in 1 .. Len(device) /\ i \in DOMAIN device
      /\ addr \in First .. RegionEnd /\ addr % L3_ENTRY_SIZE = 0
  BY DEF Located, Position, ListOK
<1>2. /\ First \in Nat /\ RegionEnd \in Nat /\ RegionEnd % L3_ENTRY_SIZE = 0 /\ RegionEnd <= Top
      /\ First % L3_ENTRY_SIZE = 0
  BY <1>1, RegionBounds DEF First, RegionEnd
<1>3. addr \in Nat /\ First <= addr /\ addr \in Address
  BY <1>1, <1>2, TopIsAligned DEF Address, Top
<1>4. /\ l1_idx \in 0 .. NumL1 - 1 /\ l2_idx \in 0 .. NumL1 * Fanout - 1
      /\ l3_idx \in 0 .. Fanout - 1
  BY <1>3, Indexes, PageIndex DEF l1_idx, l2_idx, l3_idx
<1>5. addr + L3_ENTRY_SIZE <= RegionEnd
  BY <1>1, <1>2, <1>3, Sizes, NextMultiple
<1>6. L2_ENTRY_SIZE % L3_ENTRY_SIZE = 0
  <2>1. (Fanout * L3_ENTRY_SIZE) % L3_ENTRY_SIZE = 0
    BY Sizes, SizesAssumption, MultipleOf
  <2> QED BY <2>1 DEF L2_ENTRY_SIZE
<1>7. /\ (addr + L3_ENTRY_SIZE) % L3_ENTRY_SIZE = 0
      /\ (addr + L2_ENTRY_SIZE) % L3_ENTRY_SIZE = 0
  BY <1>1, <1>3, <1>6, Sizes, SumOfMultiples, StepIsMultiple
<1>8. use_block => addr + L2_ENTRY_SIZE <= RegionEnd
  BY <1>2, <1>3, Sizes DEF use_block
<1> QED
  BY <1>1, <1>2, <1>3, <1>4, <1>5, <1>7, <1>8

LEMMA InitLocated == Init => Located
<1> SUFFICES ASSUME Init PROVE Located
  OBVIOUS
<1>1. ListOK(ram) /\ ListOK(device)
  BY ListOfOK DEF Init
<1>2. TypeOK
  <2>1. Zero \in Entry
    BY DEF Zero, Entry
  <2>2. /\ L1 \in [0 .. NumL1 - 1 -> Entry] /\ L2 \in [0 .. NumL1 * Fanout - 1 -> Entry]
        /\ L3 \in Seq([0 .. Fanout - 1 -> Entry])
    BY <2>1 DEF Init
  <2> QED BY <2>2 DEF Init, TypeOK
<1>3. Position
  BY DEF Init, Position
<1> QED
  BY <1>1, <1>2, <1>3 DEF Located

(* RAM only ors descriptors into L1 and L2.                                *)
LEMMA MapRamLocated == Located /\ MapRam => Located'
<1> SUFFICES ASSUME Located, MapRam PROVE Located'
  OBVIOUS
<1> DEFINE r == ram[i]
<1>1. /\ pc = "ram" /\ i \in 1 .. Len(ram) /\ i' = i + 1 /\ pc' \in {"ram", "panic"}
      /\ UNCHANGED <<ram, device, L3, addr, wild>> /\ i \in Nat
  BY DEF Located, Position, MapRam, ListOK
<1>2. r \in Regions
  BY <1>1 DEF Located, ListOK
<1>3. L1 \in [0 .. NumL1 - 1 -> Entry] /\ L2 \in [0 .. NumL1 * Fanout - 1 -> Entry]
  BY DEF Located, TypeOK
<1>4. L1' \in [0 .. NumL1 - 1 -> Entry]
  <2>1. \A k \in 0 .. NumL1 - 1 :
          /\ Or(L1[k], Block(k * L1_ENTRY_SIZE, "normal")) \in Entry
          /\ Or(L1[k], Table(k)) \in Entry
    <3> TAKE k \in 0 .. NumL1 - 1
    <3>1. k \in Nat /\ k * L1_ENTRY_SIZE \in Nat /\ L1[k] \in Entry
      BY <1>3, Sizes, SizesAssumption, Product
    <3> QED BY <3>1, Descriptors, OrFields
  <2> QED BY <1>3, <2>1 DEF MapRam
<1>5. L2' \in [0 .. NumL1 * Fanout - 1 -> Entry]
  <2>1. \A k \in 0 .. NumL1 * Fanout - 1 :
          Or(L2[k], Block(k * L2_ENTRY_SIZE, "normal")) \in Entry
    <3> TAKE k \in 0 .. NumL1 * Fanout - 1
    <3>1. k \in Nat /\ k * L2_ENTRY_SIZE \in Nat /\ L2[k] \in Entry
      BY <1>3, Sizes, SizesAssumption, Product
    <3> QED BY <3>1, Descriptors, OrFields
  <2> QED BY <1>3, <2>1 DEF MapRam
<1>6. TypeOK'
  <2>1. i' \in Nat
    BY <1>1
  <2>2. pc' \in {"validate", "ram", "device", "map", "enabled", "panic", "out of L3 tables"}
    BY <1>1, Zenon
  <2>3. L3' \in Seq([0 .. Fanout - 1 -> Entry]) /\ addr' \in Nat /\ wild' \in BOOLEAN
    BY <1>1 DEF Located, TypeOK
  <2> QED BY <1>4, <1>5, <2>1, <2>2, <2>3 DEF TypeOK
<1>7. Position'
  BY <1>1 DEF Located, ListOK, Position
<1> QED
  BY <1>1, <1>6, <1>7 DEF Located, ListOK

LEMMA EnsureL2Type ==
    ASSUME TypeOK, l1_idx \in 0 .. NumL1 - 1, ensure_l2_page_table
    PROVE  L1' \in [0 .. NumL1 - 1 -> Entry]
<1>1. L1 \in [0 .. NumL1 - 1 -> Entry] /\ l1_idx \in Nat
  <2>1. L1 \in [0 .. NumL1 - 1 -> Entry]
    BY DEF TypeOK
  <2> QED BY <2>1, SizesAssumption
<1> HIDE DEF l1_idx
<1> L1[l1_idx] \in Entry
  BY <1>1
<1>2. Or(L1[l1_idx], Table(l1_idx)) \in Entry
  BY <1>1, Descriptors, OrFields
<1> QED
  BY <1>1, <1>2 DEF ensure_l2_page_table

LEMMA BlockLocated == Located /\ map_device_l2_block => Located'
<1> SUFFICES ASSUME Located, map_device_l2_block PROVE Located'
  OBVIOUS
<1>1. /\ pc = "map" /\ addr < RegionEnd /\ use_block /\ ensure_l2_page_table
      /\ addr' = addr + L2_ENTRY_SIZE
      /\ L2' = [L2 EXCEPT ![l2_idx] = Or(L2[l2_idx], Block(addr, "device"))]
      /\ UNCHANGED <<ram, device, L3, pc, i, wild>>
  BY DEF map_device_l2_block
<1>2. /\ i \in 1 .. Len(device) /\ addr \in Nat /\ First \in Nat /\ First <= addr
      /\ l1_idx \in 0 .. NumL1 - 1 /\ l2_idx \in 0 .. NumL1 * Fanout - 1
      /\ RegionEnd \in Nat /\ addr + L2_ENTRY_SIZE <= RegionEnd
      /\ (addr + L2_ENTRY_SIZE) % L3_ENTRY_SIZE = 0
  BY <1>1, LoopFacts
<1>3. L1' \in [0 .. NumL1 - 1 -> Entry]
  BY <1>1, <1>2, EnsureL2Type DEF Located
<1>4. L2' \in [0 .. NumL1 * Fanout - 1 -> Entry]
  <2>1. L2 \in [0 .. NumL1 * Fanout - 1 -> Entry] /\ L2[l2_idx] \in Entry
    BY <1>2 DEF Located, TypeOK
  <2>2. Or(L2[l2_idx], Block(addr, "device")) \in Entry
    BY <1>2, <2>1, Descriptors, OrFields
  <2> QED BY <1>1, <2>1, <2>2
<1>5. TypeOK'
  BY <1>1, <1>2, <1>3, <1>4, Sizes DEF Located, TypeOK
<1>6. First' = First /\ RegionEnd' = RegionEnd
  BY <1>1 DEF First, RegionEnd
<1>7. Position'
  BY <1>1, <1>2, <1>6, Sizes DEF Position
<1> QED
  BY <1>1, <1>5, <1>7 DEF Located, ListOK

(* A page descriptor goes into a table of the right shape.                 *)
LEMMA WithPageType ==
    ASSUME NEW table \in [0 .. Fanout - 1 -> Entry], addr \in Nat, l3_idx \in 0 .. Fanout - 1
    PROVE  WithPage(table) \in [0 .. Fanout - 1 -> Entry]
<1>1. table[l3_idx] \in Entry
  OBVIOUS
<1>2. Or(table[l3_idx], Page(addr)) \in Entry
  BY <1>1, Descriptors, OrFields
<1> QED
  BY <1>2 DEF WithPage

LEMMA PageLocated == Located /\ map_device_l3_page => Located'
<1> SUFFICES ASSUME Located, map_device_l3_page PROVE Located'
  OBVIOUS
<1> DEFINE L3Type == [0 .. Fanout - 1 -> Entry]
           t == CHOOSE x \in L2[l2_idx].out : TRUE
<1>1. /\ pc = "map" /\ addr < RegionEnd /\ ensure_l2_page_table
      /\ UNCHANGED <<ram, device, i>>
  BY DEF map_device_l3_page
<1>2. /\ i \in 1 .. Len(device) /\ addr \in Nat /\ First \in Nat /\ First <= addr
      /\ l1_idx \in 0 .. NumL1 - 1 /\ l2_idx \in 0 .. NumL1 * Fanout - 1
      /\ l3_idx \in 0 .. Fanout - 1
      /\ RegionEnd \in Nat /\ addr + L3_ENTRY_SIZE <= RegionEnd
      /\ (addr + L3_ENTRY_SIZE) % L3_ENTRY_SIZE = 0
  BY <1>1, LoopFacts
<1>3. /\ L2 \in [0 .. NumL1 * Fanout - 1 -> Entry] /\ L3 \in Seq(L3Type)
      /\ i \in Nat /\ Len(L3) \in Nat
  <2>1. /\ L2 \in [0 .. NumL1 * Fanout - 1 -> Entry] /\ L3 \in Seq(L3Type) /\ i \in Nat
    BY DEF Located, TypeOK
  <2> QED BY <2>1
<1>4. L1' \in [0 .. NumL1 - 1 -> Entry]
  BY <1>1, <1>2, EnsureL2Type DEF Located
<1>5. First' = First /\ RegionEnd' = RegionEnd
  BY <1>1 DEF First, RegionEnd
<1>6. /\ pc' = "map" => addr' = addr + L3_ENTRY_SIZE
      /\ addr' = addr \/ addr' = addr + L3_ENTRY_SIZE
      /\ pc' \in {"map", "out of L3 tables"}
  BY <1>1 DEF map_device_l3_page
<1>7. /\ L2' \in {L2, [L2 EXCEPT ![l2_idx] = Table(Len(L3) + 1)]}
      /\ L3' \in {L3, [L3 EXCEPT ![t] = WithPage(L3[t])], Append(L3, WithPage(NewTable))}
  BY <1>1 DEF map_device_l3_page
<1>8. L2' \in [0 .. NumL1 * Fanout - 1 -> Entry]
  <2>1. Table(Len(L3) + 1) \in Entry
    BY <1>3, Descriptors
  <2> QED BY <1>3, <1>7, <2>1
<1>9. L3' \in Seq(L3Type)
  <2>1. NewTable \in L3Type
    BY Descriptors DEF NewTable
  <2>2. WithPage(NewTable) \in L3Type
    BY <1>2, <2>1, WithPageType
  <2>3. [L3 EXCEPT ![t] = WithPage(L3[t])] \in Seq(L3Type)
    <3> HIDE DEF t
    <3>1. CASE t \in DOMAIN L3
      <4>1. L3[t] \in L3Type
        BY <1>3, <3>1
      <4>2. WithPage(L3[t]) \in L3Type
        BY <1>2, <4>1, WithPageType
      <4> HIDE DEF L3Type
      <4> QED BY <1>3, <3>1, <4>2
    <3>2. CASE t \notin DOMAIN L3
      <4>1. [L3 EXCEPT ![t] = WithPage(L3[t])] = L3
        BY <1>3, <3>2
      <4> QED BY <1>3, <4>1
    <3> QED BY <3>1, <3>2
  <2> HIDE DEF L3Type, t
  <2>4. Append(L3, WithPage(NewTable)) \in Seq(L3Type)
    BY <1>3, <2>2
  <2> QED BY <1>3, <1>7, <2>3, <2>4, Zenon
<1>10. TypeOK'
  <2>1. i' \in Nat /\ addr' \in Nat
    <3>1. addr \in Nat /\ i \in Nat /\ i' = i
      BY <1>1, <1>2, <1>3
    <3>2. addr + L3_ENTRY_SIZE \in Nat
      BY <3>1, Sizes
    <3> QED BY <1>6, <3>1, <3>2, Zenon
  <2>2. wild' \in BOOLEAN
    BY DEF map_device_l3_page, Located, TypeOK
  <2>3. pc' \in {"validate", "ram", "device", "map", "enabled", "panic", "out of L3 tables"}
    BY <1>6, Zenon
  <2> QED BY <1>4, <1>8, <1>9, <2>1, <2>2, <2>3 DEF TypeOK
<1>11. Position'
  <2>1. pc' = "map" => addr' \in First' .. RegionEnd'
    <3>1. /\ addr \in Nat /\ First \in Nat /\ First <= addr /\ RegionEnd \in Nat
          /\ addr + L3_ENTRY_SIZE <= RegionEnd
      BY <1>2
    <3> QED BY <1>5, <1>6, <3>1, Sizes
  <2>2. pc' = "map" => addr' % L3_ENTRY_SIZE = 0 /\ i' \in 1 .. Len(device')
    BY <1>1, <1>2, <1>6, Zenon
  <2> QED BY <1>6, <2>1, <2>2, Zenon DEF Position
<1> QED
  BY <1>1, <1>10, <1>11 DEF Located, ListOK

(* The other steps move on without a store to the tables.                  *)
LEMMA NextLocated == Located /\ [Next]_vars => Located'
<1> SUFFICES ASSUME Located, [Next]_vars PROVE Located'
  OBVIOUS
<1> USE DEF Located
<1>1. CASE validate_device_regions
  <2>1. /\ pc' \in {"panic", "ram"} /\ i = 1 /\ Len(ram) \in Nat
        /\ UNCHANGED <<ram, device, L1, L2, L3, i, addr, wild>>
    BY <1>1 DEF validate_device_regions, Position, ListOK
  <2>2. pc' \in {"validate", "ram", "device", "map", "enabled", "panic", "out of L3 tables"}
    BY <2>1, Zenon
  <2>3. TypeOK'
    BY <2>1, <2>2 DEF TypeOK
  <2>4. Position'
    BY <2>1 DEF Position
  <2> QED BY <2>1, <2>3, <2>4 DEF ListOK
<1>2. CASE MapRam
  BY <1>2, MapRamLocated
<1>3. CASE RamDone
  <2>1. Len(device) \in Nat
    BY DEF ListOK
  <2> QED BY <1>3, <2>1 DEF RamDone, TypeOK, Position, ListOK
<1>4. CASE StartRegion
  <2>1. /\ pc = "device" /\ i \in DOMAIN device /\ i \in 1 .. Len(device)
        /\ addr' = align_down(device[i]._start) /\ pc' = "map"
        /\ UNCHANGED <<ram, device, L1, L2, L3, i, wild>>
    BY <1>4 DEF StartRegion, Position, ListOK
  <2>2. /\ First \in Nat /\ RegionEnd \in Nat /\ First % L3_ENTRY_SIZE = 0
        /\ First <= RegionEnd
    <3>1. /\ device[i] \in Regions /\ First \in Nat /\ RegionEnd \in Nat
          /\ First % L3_ENTRY_SIZE = 0 /\ First <= device[i]._start
          /\ End(device[i]) <= RegionEnd
      BY <2>1, RegionBounds DEF First, RegionEnd
    <3> QED BY <3>1 DEF Regions, End
  <2>3. First' = First /\ RegionEnd' = RegionEnd /\ addr' = First
    BY <2>1 DEF First, RegionEnd
  <2>4. TypeOK'
    BY <2>1, <2>2, <2>3 DEF TypeOK
  <2>5. Position'
    BY <2>1, <2>2, <2>3 DEF Position
  <2> QED BY <2>1, <2>4, <2>5 DEF ListOK
<1>5. CASE map_device_l2_block
  BY <1>5, BlockLocated
<1>6. CASE map_device_l3_page
  BY <1>6, PageLocated
<1>7. CASE EndRegion
  BY <1>7 DEF EndRegion, TypeOK, Position, ListOK
<1>8. CASE setup_core_specific
  <2>1. /\ pc = "device" /\ pc' = "enabled" /\ i = Len(device) + 1
        /\ UNCHANGED <<ram, device, L1, L2, L3, i, addr, wild>>
    BY <1>8 DEF setup_core_specific, Position, ListOK
  <2> QED BY <2>1 DEF TypeOK, Position, ListOK
<1>9. CASE UNCHANGED vars
  BY <1>9 DEF vars, TypeOK, Position, ListOK, First, RegionEnd
<1> QED
  BY <1>1, <1>2, <1>3, <1>4, <1>5, <1>6, <1>7, <1>8, <1>9 DEF Next

-----------------------------------------------------------------------------
(* The inductive invariant behind TwoTablesPerRegion.  The entry that      *)
(* serves addr is valid once the loop is inside it, so a new table is      *)
(* taken at the region's first page or on an entry's boundary; there only  *)
(* when less than an entry is left, which then is the last one.            *)
Opened == First < addr /\ addr % L2_ENTRY_SIZE # 0 => pte_is_valid(L2[l2_idx])

InTail == \E c \in 0 .. RegionEnd :
             c % L2_ENTRY_SIZE = 0 /\ c < addr /\ RegionEnd < c + L2_ENTRY_SIZE

Counted ==
    /\ pc \in {"validate", "ram"} => L3 = << >>
    /\ pc = "device" => Len(L3) <= 2 * (i - 1)
    /\ pc = "map" => /\ addr = First => Len(L3) <= 2 * (i - 1)
                     /\ First < addr => Len(L3) <= 2 * i - 1 \/ InTail
                     /\ Len(L3) <= 2 * i
                     /\ Opened
    /\ pc = "out of L3 tables" => MaxNumL3PageTables < 2 * (MaxNumRegions - 1)

(* The next page, unless it starts a new L2 entry, is in the same one.     *)
LEMMA NextPage ==
    ASSUME NEW a \in Nat, a % L3_ENTRY_SIZE = 0, (a + L3_ENTRY_SIZE) % L2_ENTRY_SIZE # 0
    PROVE  (a + L3_ENTRY_SIZE) \div L2_ENTRY_SIZE = a \div L2_ENTRY_SIZE
<1> DEFINE k == a \div L2_ENTRY_SIZE
           e == (k + 1) * L2_ENTRY_SIZE
<1>1. /\ k \in Nat /\ k * L2_ENTRY_SIZE \in Nat
      /\ a \in k * L2_ENTRY_SIZE .. k * L2_ENTRY_SIZE + L2_ENTRY_SIZE - 1
  BY Sizes, Floor
<1> HIDE DEF k
<1>2. e \in Nat /\ e = k * L2_ENTRY_SIZE + L2_ENTRY_SIZE
  BY <1>1, Sizes
<1>3. e % L2_ENTRY_SIZE = 0
  BY <1>1, Sizes, MultipleOf
<1> HIDE DEF e
<1>4. e % L3_ENTRY_SIZE = 0
  BY <1>2, <1>3, Finer
<1>5. a + L3_ENTRY_SIZE <= e
  <2>1. a < e
    BY <1>1, <1>2, Sizes
  <2> QED BY <1>2, <1>4, <2>1, Sizes, NextMultiple
<1>6. a + L3_ENTRY_SIZE # e
  BY <1>3
<1>7. /\ a + L3_ENTRY_SIZE \in Nat
      /\ a + L3_ENTRY_SIZE \in k * L2_ENTRY_SIZE .. k * L2_ENTRY_SIZE + L2_ENTRY_SIZE - 1
  BY <1>1, <1>2, <1>5, <1>6, Sizes
<1> DEFINE n == a + L3_ENTRY_SIZE
<1>8. n \div L2_ENTRY_SIZE = k
  <2>1. n \in Nat /\ n \in k * L2_ENTRY_SIZE .. k * L2_ENTRY_SIZE + L2_ENTRY_SIZE - 1
    BY <1>7
  <2> HIDE DEF n
  <2> QED BY <1>1, <2>1, Sizes, Quotient
<1> QED
  BY <1>8 DEF k

(* A new table is taken where the invariant leaves room for one.           *)
LEMMA RoomForTable ==
    ASSUME Located, Counted, pc = "map", addr < RegionEnd, ~use_block,
           ~pte_is_valid(L2[l2_idx])
    PROVE  /\ Len(L3) <= 2 * i - 1
           /\ addr = First => Len(L3) <= 2 * i - 2
           /\ addr # First => addr % L2_ENTRY_SIZE = 0 /\ RegionEnd < addr + L2_ENTRY_SIZE
<1>1. /\ addr \in Nat /\ First \in Nat /\ First <= addr /\ RegionEnd \in Nat
  BY LoopFacts
<1>2. i \in Nat /\ Len(L3) \in Nat
  <2>1. i \in Nat /\ L3 \in Seq([0 .. Fanout - 1 -> Entry])
    BY DEF Located, TypeOK
  <2> QED BY <2>1
<1>3. CASE addr = First
  BY <1>1, <1>2, <1>3 DEF Counted
<1>4. CASE addr # First
  <2>1. First < addr
    BY <1>1, <1>4
  <2>2. addr % L2_ENTRY_SIZE = 0
    BY <2>1 DEF Counted, Opened
  <2>3. RegionEnd < addr + L2_ENTRY_SIZE
    BY <1>1, <2>2, Sizes DEF use_block
  <2>4. ~InTail
    <3> SUFFICES ASSUME NEW c \in 0 .. RegionEnd, c % L2_ENTRY_SIZE = 0, c < addr,
                        RegionEnd < c + L2_ENTRY_SIZE
                 PROVE  FALSE
      BY DEF InTail
    <3>1. c \in Nat
      BY <1>1
    <3>2. c + L2_ENTRY_SIZE <= addr
      BY <1>1, <2>2, <3>1, Sizes, NextMultiple
    <3> QED BY <1>1, <3>1, <3>2, Sizes
  <2>5. Len(L3) <= 2 * i - 1
    BY <2>1, <2>4 DEF Counted
  <2> QED BY <1>4, <2>2, <2>3, <2>5
<1> QED
  BY <1>3, <1>4

LEMMA PageCounted == Located /\ Counted /\ map_device_l3_page => Counted'
<1> SUFFICES ASSUME Located, Counted, map_device_l3_page PROVE Counted'
  OBVIOUS
<1> DEFINE e == L2[l2_idx]
<1>1. pc = "map" /\ addr < RegionEnd /\ ~use_block /\ UNCHANGED <<ram, device, i>>
  BY DEF map_device_l3_page
<1>2. /\ addr \in Nat /\ First \in Nat /\ First <= addr /\ RegionEnd \in Nat
      /\ addr % L3_ENTRY_SIZE = 0 /\ l2_idx \in 0 .. NumL1 * Fanout - 1
      /\ i \in 1 .. Len(device)
  BY <1>1, LoopFacts
<1>3. /\ i \in Nat /\ L2 \in [0 .. NumL1 * Fanout - 1 -> Entry]
      /\ L3 \in Seq([0 .. Fanout - 1 -> Entry])
  BY DEF Located, TypeOK
<1>4. Len(L3) \in Nat
  BY <1>3
<1>5. First' = First /\ RegionEnd' = RegionEnd
  BY <1>1 DEF First, RegionEnd
<1>6. ASSUME addr' = addr + L3_ENTRY_SIZE PROVE First' < addr' /\ First' # addr'
  BY <1>2, <1>5, <1>6, Sizes
<1>7. ASSUME addr' = addr + L3_ENTRY_SIZE, pte_is_valid(L2'[l2_idx]) PROVE Opened'
  <2>1. SUFFICES ASSUME addr' % L2_ENTRY_SIZE # 0 PROVE l2_idx' = l2_idx
    BY <1>7, Zenon DEF Opened
  <2> QED BY <1>2, <1>7, <2>1, NextPage DEF l2_idx
<1>8. CASE pte_is_valid(e)
  <2>1. /\ addr' = addr + L3_ENTRY_SIZE /\ pc' = "map" /\ L2' = L2
    BY <1>1, <1>8 DEF map_device_l3_page
  <2>2. Len(L3') = Len(L3)
    <3>1. L3' = L3 \/ \E t : L3' = [L3 EXCEPT ![t] = WithPage(L3[t])]
      BY <1>8 DEF map_device_l3_page
    <3> QED BY <1>3, <3>1
  <2>3. InTail => InTail'
    <3> SUFFICES ASSUME NEW c \in 0 .. RegionEnd, c % L2_ENTRY_SIZE = 0, c < addr,
                        RegionEnd < c + L2_ENTRY_SIZE
                 PROVE  InTail'
      BY DEF InTail
    <3>1. c < addr'
      BY <1>2, <2>1, Sizes
    <3> QED BY <1>5, <3>1 DEF InTail
  <2>4. Len(L3') <= 2 * i' /\ (Len(L3') <= 2 * i' - 1 \/ InTail')
    BY <1>1, <1>2, <1>3, <1>4, <2>2, <2>3 DEF Counted
  <2>5. Opened'
    BY <1>7, <1>8, <2>1
  <2> QED BY <1>6, <2>1, <2>4, <2>5 DEF Counted
<1>9. CASE ~pte_is_valid(e) /\ Len(L3) < MaxNumL3PageTables
  <2>1. /\ addr' = addr + L3_ENTRY_SIZE /\ pc' = "map"
        /\ L2' = [L2 EXCEPT ![l2_idx] = Table(Len(L3) + 1)]
        /\ L3' = Append(L3, WithPage(NewTable))
    BY <1>1, <1>9 DEF map_device_l3_page
  <2>2. Len(L3') = Len(L3) + 1
    BY <1>3, <2>1
  <2>3. /\ Len(L3) <= 2 * i - 1
        /\ addr = First => Len(L3) <= 2 * i - 2
        /\ addr # First => addr % L2_ENTRY_SIZE = 0 /\ RegionEnd < addr + L2_ENTRY_SIZE
    BY <1>1, <1>9, RoomForTable
  <2>4. addr # First => InTail'
    <3> SUFFICES ASSUME addr # First PROVE InTail'
      OBVIOUS
    <3>1. addr \in 0 .. RegionEnd' /\ addr < addr' /\ RegionEnd' < addr + L2_ENTRY_SIZE
      BY <1>1, <1>2, <1>5, <2>1, <2>3, Sizes
    <3> QED BY <2>3, <3>1 DEF InTail
  <2>5. Len(L3') <= 2 * i' /\ (Len(L3') <= 2 * i' - 1 \/ InTail')
    BY <1>1, <1>3, <1>4, <2>2, <2>3, <2>4
  <2>6. pte_is_valid(L2'[l2_idx])
    BY <1>2, <1>3, <2>1 DEF pte_is_valid, Table
  <2>7. Opened'
    BY <1>7, <2>1, <2>6
  <2> QED BY <1>6, <2>1, <2>5, <2>7 DEF Counted
<1>10. CASE ~pte_is_valid(e) /\ ~(Len(L3) < MaxNumL3PageTables)
  <2>1. pc' = "out of L3 tables"
    BY <1>1, <1>10 DEF map_device_l3_page
  <2>2. Len(L3) <= 2 * i - 1
    BY <1>1, <1>10, RoomForTable
  <2>3. Len(device) <= MaxNumRegions - 1 /\ Len(device) \in Nat
    BY DEF Located, ListOK
  <2>4. MaxNumL3PageTables < 2 * (MaxNumRegions - 1)
    BY <1>2, <1>4, <1>10, <2>2, <2>3, SizesAssumption, MaxNumRegionsAssumption
  <2> QED BY <2>1, <2>4 DEF Counted
<1> QED
  BY <1>8, <1>9, <1>10

LEMMA BlockCounted == Located /\ Counted /\ map_device_l2_block => Counted'
<1> SUFFICES ASSUME Located, Counted, map_device_l2_block PROVE Counted'
  OBVIOUS
<1>1. /\ pc = "map" /\ addr < RegionEnd /\ addr % L2_ENTRY_SIZE = 0
      /\ addr' = addr + L2_ENTRY_SIZE /\ UNCHANGED <<ram, device, L3, pc, i>>
  BY DEF map_device_l2_block, use_block
<1>2. addr \in Nat /\ First \in Nat /\ First <= addr /\ RegionEnd \in Nat
  BY <1>1, LoopFacts
<1>3. i \in Nat /\ L3 \in Seq([0 .. Fanout - 1 -> Entry])
  BY DEF Located, TypeOK
<1>4. Len(L3) \in Nat
  BY <1>3
<1>5. First' = First /\ RegionEnd' = RegionEnd
  BY <1>1 DEF First, RegionEnd
<1>6. First' < addr' /\ First' # addr'
  BY <1>1, <1>2, <1>5, Sizes
<1>7. addr' % L2_ENTRY_SIZE = 0
  BY <1>1, <1>2, Sizes, StepIsMultiple
<1>8. InTail => InTail'
  <2> SUFFICES ASSUME NEW c \in 0 .. RegionEnd, c % L2_ENTRY_SIZE = 0, c < addr,
                      RegionEnd < c + L2_ENTRY_SIZE
               PROVE  InTail'
    BY DEF InTail
  <2>1. c < addr'
    BY <1>1, <1>2, Sizes
  <2> QED BY <1>5, <2>1 DEF InTail
<1>9. Len(L3') <= 2 * i' /\ (Len(L3') <= 2 * i' - 1 \/ InTail')
  BY <1>1, <1>2, <1>3, <1>4, <1>8 DEF Counted
<1> QED
  BY <1>1, <1>6, <1>7, <1>9 DEF Counted, Opened

LEMMA NextCounted == Located /\ Counted /\ [Next]_vars => Counted'
<1> SUFFICES ASSUME Located, Counted, [Next]_vars PROVE Counted'
  OBVIOUS
<1>1. i \in Nat /\ L3 \in Seq([0 .. Fanout - 1 -> Entry])
  BY DEF Located, TypeOK
<1>2. Len(L3) \in Nat
  BY <1>1
<1>3. CASE validate_device_regions
  BY <1>3 DEF validate_device_regions, Counted
<1>4. CASE MapRam
  BY <1>4 DEF MapRam, Counted
<1>5. CASE RamDone
  BY <1>5 DEF RamDone, Counted
<1>6. CASE StartRegion
  <2>1. pc = "device" /\ pc' = "map" /\ addr' = First' /\ UNCHANGED <<i, L3>>
    BY <1>6 DEF StartRegion, First
  <2>2. First' \in Nat
    <3>1. First' = First /\ i \in DOMAIN device /\ ListOK(device)
      BY <1>1, <1>6 DEF StartRegion, First, Located, Position, ListOK
    <3> QED BY <3>1, RegionBounds DEF First
  <2> QED BY <1>1, <1>2, <2>1, <2>2 DEF Counted, Opened
<1>7. CASE map_device_l2_block
  BY <1>7, BlockCounted
<1>8. CASE map_device_l3_page
  BY <1>8, PageCounted
<1>9. CASE EndRegion
  BY <1>1, <1>2, <1>9 DEF EndRegion, Counted
<1>10. CASE setup_core_specific
  BY <1>10 DEF setup_core_specific, Counted
<1>11. CASE UNCHANGED vars
  BY <1>11 DEF vars, Counted, Opened, InTail, First, RegionEnd, l2_idx
<1> QED
  BY <1>3, <1>4, <1>5, <1>6, <1>7, <1>8, <1>9, <1>10, <1>11 DEF Next

(* allocate_l3_page_table never runs out when it has two tables for each   *)
(* region: a device region of any size, at any place, takes at most one    *)
(* for its first and one for its last L2 entry.                            *)
THEOREM TwoTablesSuffice == Spec => []TwoTablesPerRegion
<1>1. Init => Located /\ Counted
  BY InitLocated DEF Init, Counted
<1>2. Located /\ Counted /\ [Next]_vars => (Located /\ Counted)'
  BY NextLocated, NextCounted
<1>3. Located /\ Counted => TwoTablesPerRegion
  BY DEF Counted, TwoTablesPerRegion
<1> QED
  BY <1>1, <1>2, <1>3, PTL DEF Spec

-----------------------------------------------------------------------------
(* The inductive invariant behind IdentityMapIsExact: what each entry is,  *)
(* for the RAM regions (n of them) and the device addresses (M) mapped so  *)
(* far.                                                                    *)
Done == IF pc = "ram" THEN i - 1 ELSE Len(ram)

Mapped ==
    {a \in Address : \E j \in DOMAIN device :
        /\ a \in Bytes(Rounded(device[j]))
        /\ pc # "ram" /\ (j < i \/ (j = i /\ pc = "map" /\ a < addr))}

InL1(a, n) ==
    \E j \in 1 .. n : ram[j]._size % L1_ENTRY_SIZE = 0 /\ a \in Bytes(ram[j])
InL2(a, n) ==
    \E j \in 1 .. n : ram[j]._size % L1_ENTRY_SIZE # 0 /\ a \in Bytes(ram[j])

Span1(k) == k * L1_ENTRY_SIZE .. k * L1_ENTRY_SIZE + L1_ENTRY_SIZE - 1
Span2(k) == k * L2_ENTRY_SIZE .. k * L2_ENTRY_SIZE + L2_ENTRY_SIZE - 1

L1Is(l1, k, n, M) ==
    \/ /\ l1[k] = Zero /\ ~InL1(k * L1_ENTRY_SIZE, n)
       /\ \A a \in Span1(k) : ~InL2(a, n) /\ a \notin M
    \/ l1[k] = Block(k * L1_ENTRY_SIZE, "normal") /\ InL1(k * L1_ENTRY_SIZE, n)
    \/ l1[k] = Table(k) /\ ~InL1(k * L1_ENTRY_SIZE, Len(ram))

PageAt(k, x) == k * L2_ENTRY_SIZE + x * L3_ENTRY_SIZE

Serves(l3, t, k, M) ==
    \A x \in 0 .. Fanout - 1 :
        l3[t][x] = IF PageAt(k, x) \in M THEN Page(PageAt(k, x)) ELSE Zero

L2Is(l2, l3, k, n, M) ==
    \/ l2[k] = Zero /\ \A a \in Span2(k) : ~InL2(a, n) /\ a \notin M
    \/ l2[k] = Block(k * L2_ENTRY_SIZE, "normal") /\ InL2(k * L2_ENTRY_SIZE, n)
    \/ l2[k] = Block(k * L2_ENTRY_SIZE, "device") /\ Span2(k) \subseteq M
    \/ \E t \in DOMAIN l3 : /\ l2[k] = Table(t) /\ ~InL2(k * L2_ENTRY_SIZE, Len(ram))
                            /\ Span2(k) \cap M # {} /\ Serves(l3, t, k, M)

OneEntryEach(l2, l3) ==
    \A k, m \in 0 .. NumL1 * Fanout - 1 : \A t \in DOMAIN l3 :
        l2[k] = Table(t) /\ l2[m] = Table(t) => k = m

Tables(l1, l2, l3, n, M) ==
    /\ \A k \in 0 .. NumL1 - 1 : L1Is(l1, k, n, M)
    /\ \A k \in 0 .. NumL1 * Fanout - 1 : L2Is(l2, l3, k, n, M)
    /\ OneEntryEach(l2, l3)

RamAndDevicesApart ==
    \A j \in DOMAIN device, m \in DOMAIN ram : ~regions_overlap(device[j], ram[m])

Exact ==
    /\ pc = "validate" => /\ wild = FALSE
                          /\ \A k \in 0 .. NumL1 - 1 : L1[k] = Zero
                          /\ \A k \in 0 .. NumL1 * Fanout - 1 : L2[k] = Zero
    /\ pc \in {"ram", "device", "map", "enabled"} /\ WellPlaced =>
         /\ wild = FALSE
         /\ RamAndDevicesApart
         /\ \A j \in 1 .. Done : ram[j]._size % L2_ENTRY_SIZE = 0
         /\ Tables(L1, L2, L3, Done, Mapped)

-----------------------------------------------------------------------------
(* RAM regions of a well-placed board are made of whole entries.           *)
LEMMA RamSpan1 ==
    ASSUME ListOK(ram), WellPlaced, NEW j \in DOMAIN ram, ram[j]._size % L1_ENTRY_SIZE = 0,
           NEW k \in Nat, NEW a \in Span1(k)
    PROVE  a \in Bytes(ram[j]) <=> k * L1_ENTRY_SIZE \in Bytes(ram[j])
<1>1. ram[j] \in Regions /\ ram[j] \in Range(ram)
  BY DEF ListOK, Range
<1>2. /\ ram[j]._start \in Nat /\ ram[j]._size \in Nat
      /\ Bytes(ram[j]) = ram[j]._start .. ram[j]._start + ram[j]._size - 1
  BY <1>1 DEF Regions, Bytes, End
<1>3. ram[j]._start % L1_ENTRY_SIZE = 0
  BY <1>1 DEF WellPlaced
<1> QED
  BY <1>2, <1>3, Granule, Sizes DEF Span1

LEMMA RamSpan2 ==
    ASSUME ListOK(ram), WellPlaced, NEW j \in DOMAIN ram, ram[j]._size % L2_ENTRY_SIZE = 0,
           NEW k \in Nat, NEW a \in Span2(k)
    PROVE  a \in Bytes(ram[j]) <=> k * L2_ENTRY_SIZE \in Bytes(ram[j])
<1>1. ram[j] \in Regions /\ ram[j] \in Range(ram)
  BY DEF ListOK, Range
<1>2. /\ ram[j]._start \in Nat /\ ram[j]._size \in Nat
      /\ Bytes(ram[j]) = ram[j]._start .. ram[j]._start + ram[j]._size - 1
  BY <1>1 DEF Regions, Bytes, End
<1>3. ram[j]._start % L2_ENTRY_SIZE = 0
  BY <1>1 DEF WellPlaced
<1> QED
  BY <1>2, <1>3, Granule, Sizes DEF Span2

LEMMA RamDisjoint ==
    ASSUME ListOK(ram), WellPlaced, NEW j \in DOMAIN ram, NEW m \in DOMAIN ram, NEW a,
           a \in Bytes(ram[j]), a \in Bytes(ram[m])
    PROVE  j = m
<1>1. ram[j] \in Regions /\ ram[m] \in Regions
  BY DEF ListOK
<1> QED
  BY <1>1, OverlapIffCommonByte DEF WellPlaced

(* The bytes of a device region rounded outwards to pages.                 *)
LEMMA RoundedBytes ==
    ASSUME ListOK(device), NEW j \in DOMAIN device
    PROVE  /\ Rounded(device[j]) \in Regions
           /\ Bytes(Rounded(device[j]))
                 = align_down(device[j]._start) .. align_up(End(device[j])) - 1
           /\ Bytes(Rounded(device[j])) \subseteq Address
<1> DEFINE lo == align_down(device[j]._start)
           hi == align_up(End(device[j]))
<1>1. /\ device[j] \in Regions /\ lo \in Nat /\ hi \in Nat /\ lo <= device[j]._start
      /\ End(device[j]) <= hi /\ hi <= Top
  BY RegionBounds
<1>2. lo <= hi
  <2>1. device[j]._start <= End(device[j]) /\ device[j]._start \in Nat /\ End(device[j]) \in Nat
    BY <1>1 DEF Regions, End
  <2> QED BY <1>1, <2>1
<1>3. Rounded(device[j]) = [_start |-> lo, _size |-> hi - lo]
  BY DEF Rounded, Region
<1> HIDE DEF lo, hi
<1>4. Rounded(device[j]) \in Regions /\ Bytes(Rounded(device[j])) = lo .. hi - 1
  BY <1>1, <1>2, <1>3 DEF Regions, Bytes, End
<1>5. lo .. hi - 1 \subseteq Address
  BY <1>1, TopIsAligned DEF Address, Top
<1> QED
  BY <1>4, <1>5 DEF lo, hi

LEMMA DevicesDisjointPages ==
    ASSUME ListOK(device), WellPlaced, NEW j \in DOMAIN device, NEW m \in DOMAIN device, NEW a,
           a \in Bytes(Rounded(device[j])), a \in Bytes(Rounded(device[m]))
    PROVE  j = m
<1>1. Rounded(device[j]) \in Regions /\ Rounded(device[m]) \in Regions
  BY RoundedBytes
<1> QED
  BY <1>1, OverlapIffCommonByte DEF WellPlaced

(* Every page of a rounded device region holds a byte of the region, ...   *)
LEMMA PageHoldsByte ==
    ASSUME ListOK(device), WellPlaced, NEW j \in DOMAIN device,
           NEW a \in Bytes(Rounded(device[j]))
    PROVE  \E b \in Bytes(device[j]) :
              align_down(a) <= b /\ b < align_down(a) + L3_ENTRY_SIZE
<1> DEFINE d == device[j]
           lo == align_down(d._start)
           hi == align_up(End(d))
           p == align_down(a)
<1>1. /\ d \in Regions /\ lo \in Nat /\ hi \in Nat /\ lo % L3_ENTRY_SIZE = 0
      /\ hi % L3_ENTRY_SIZE = 0 /\ lo <= d._start /\ d._start < lo + L3_ENTRY_SIZE
      /\ hi < End(d) + L3_ENTRY_SIZE
  BY RegionBounds
<1>2. a \in Nat /\ lo <= a /\ a < hi
  BY <1>1, RoundedBytes
<1>3. p \in Nat /\ p % L3_ENTRY_SIZE = 0 /\ p <= a /\ a < p + L3_ENTRY_SIZE
  BY <1>2, AlignDown
<1>4. /\ d._start \in Nat /\ d._size \in Nat /\ d._size # 0
      /\ Bytes(d) = d._start .. d._start + d._size - 1 /\ End(d) = d._start + d._size
  BY <1>1 DEF WellPlaced, Regions, Bytes, End
<1> HIDE DEF lo, hi, p, d
<1>5. lo <= p
  <2>1. p < lo => p + L3_ENTRY_SIZE <= lo
    BY <1>1, <1>3, Sizes, NextMultiple
  <2> QED BY <1>1, <1>2, <1>3, <2>1, Sizes
<1>6. p + L3_ENTRY_SIZE <= hi
  <2>1. p < hi
    BY <1>1, <1>2, <1>3
  <2> QED BY <1>1, <1>3, <2>1, Sizes, NextMultiple
<1>7. \E b \in Bytes(d) : p <= b /\ b < p + L3_ENTRY_SIZE
  <2>1. CASE p <= d._start
    <3>1. d._start \in Bytes(d) /\ d._start < p + L3_ENTRY_SIZE
      BY <1>1, <1>3, <1>4, <1>5, Sizes
    <3> QED BY <2>1, <3>1
  <2>2. CASE d._start < p
    <3>1. p \in Bytes(d) /\ p < p + L3_ENTRY_SIZE
      BY <1>1, <1>3, <1>4, <1>6, <2>2, Sizes
    <3> QED BY <1>3, <3>1
  <2> QED BY <1>3, <1>4, <2>1, <2>2
<1> QED
  BY <1>7 DEF p, d

(* ... so where no device overlaps RAM, no page of one does.               *)
LEMMA DeviceIsNotRam ==
    ASSUME ListOK(ram), ListOK(device), WellPlaced, RamAndDevicesApart,
           NEW j \in DOMAIN device, NEW m \in DOMAIN ram, ram[m]._size % L2_ENTRY_SIZE = 0,
           NEW a \in Bytes(Rounded(device[j])), a \in Bytes(ram[m])
    PROVE  FALSE
<1> DEFINE r == ram[m]
           p == align_down(a)
           k == p \div L3_ENTRY_SIZE
<1>1. r \in Regions /\ r \in Range(ram) /\ device[j] \in Regions
  BY DEF ListOK, Range
<1>2. /\ r._start \in Nat /\ r._size \in Nat
      /\ Bytes(r) = r._start .. r._start + r._size - 1
  BY <1>1 DEF Regions, Bytes, End
<1>3. r._start % L3_ENTRY_SIZE = 0 /\ r._size % L3_ENTRY_SIZE = 0
  BY <1>1, <1>2, Finer DEF WellPlaced
<1>4. PICK b \in Bytes(device[j]) : p <= b /\ b < p + L3_ENTRY_SIZE
  BY PageHoldsByte
<1>5. a \in Nat
  BY <1>2
<1>6. b \in Nat
  BY <1>1 DEF Bytes, End, Regions
<1>7. p \in Nat /\ p % L3_ENTRY_SIZE = 0 /\ p <= a /\ a < p + L3_ENTRY_SIZE
  BY <1>5, AlignDown
<1> HIDE DEF p
<1>8. k \in Nat /\ p = k * L3_ENTRY_SIZE
  BY <1>7, Sizes, DivMod, Multiple
<1> HIDE DEF k
<1>9. /\ a \in k * L3_ENTRY_SIZE .. k * L3_ENTRY_SIZE + L3_ENTRY_SIZE - 1
      /\ b \in k * L3_ENTRY_SIZE .. k * L3_ENTRY_SIZE + L3_ENTRY_SIZE - 1
  BY <1>4, <1>5, <1>6, <1>7, <1>8, Sizes
<1> HIDE DEF r
<1>10. /\ a \in Bytes(r) <=> k * L3_ENTRY_SIZE \in Bytes(r)
       /\ b \in Bytes(r) <=> k * L3_ENTRY_SIZE \in Bytes(r)
  BY <1>2, <1>3, <1>8, <1>9, Granule, Sizes
<1>11. b \in Bytes(ram[m])
  BY <1>10 DEF r
<1> QED
  BY <1>1, <1>4, <1>11, OverlapIffCommonByte DEF RamAndDevicesApart, r

(* The L1 table descriptors written for RAM are those of the gigabytes it  *)
(* reaches into.                                                           *)
Slots(r) ==
    r._start \div L1_ENTRY_SIZE
        .. r._start \div L1_ENTRY_SIZE + CeilDiv(r._size, L1_ENTRY_SIZE) - 1

LEMMA SlotsAreReached ==
    ASSUME ListOK(ram), WellPlaced, NEW j \in DOMAIN ram, ram[j]._size % L1_ENTRY_SIZE # 0,
           NEW k \in Nat
    PROVE  k \in Slots(ram[j]) <=> \E a \in Span1(k) : a \in Bytes(ram[j])
<1> DEFINE r == ram[j]
           g == L1_ENTRY_SIZE
           q == r._start \div g
           c == CeilDiv(r._size, g)
           o == r._start % g
<1>1. r \in Regions /\ r \in Range(ram)
  BY DEF ListOK, Range
<1>2. /\ r._start \in Nat /\ r._size \in Nat
      /\ Bytes(r) = r._start .. r._start + r._size - 1
  BY <1>1 DEF Regions, Bytes, End
<1>3. g \in Nat \ {0}
  BY Sizes
<1>4. q \in Nat /\ q * g \in Nat /\ o \in 0 .. g - 1 /\ r._start = q * g + o
  BY <1>2, <1>3, DivMod, Product
<1>5. c \in Nat /\ c * g \in Nat /\ r._size <= c * g /\ c * g < r._size + g
  <2>1. r._size + g - 1 \in Nat /\ c = (r._size + g - 1) \div g
    BY <1>2, <1>3 DEF CeilDiv
  <2>2. c \in Nat /\ c * g \in Nat /\ r._size + g - 1 \in c * g .. c * g + g - 1
    BY <1>3, <2>1, Floor
  <2> HIDE DEF c, g
  <2> QED BY <1>2, <1>3, <2>2
<1>6. o + r._size <= c * g
  BY <1>1 DEF WellPlaced
<1>7. r._size # 0
  BY <1>3, MultipleOf
<1>8. Span1(k) = k * g .. k * g + g - 1 /\ Slots(r) = q .. q + c - 1 /\ k * g \in Nat
  BY <1>3, Product DEF Span1, Slots
<1> HIDE DEF r, g, q, c, o
<1> DEFINE Q == q * g
           C == c * g
           K == k * g
<1>9. /\ Q \in Nat /\ C \in Nat /\ K \in Nat /\ r._start = Q + o /\ o \in 0 .. g - 1
      /\ r._size <= C /\ C < r._size + g /\ o + r._size <= C
      /\ r._start \in Nat /\ r._size \in Nat /\ r._size # 0 /\ g \in Nat \ {0}
  BY <1>2, <1>3, <1>4, <1>5, <1>6, <1>7, <1>8
<1>10. /\ k = q => K = Q
       /\ q < k => Q + g <= K
       /\ k < q => K + g <= Q
  BY <1>3, <1>4, Apart
<1>11. /\ k < q + c => K + g <= Q + C
       /\ ~(k < q + c) => Q + C <= K
  <2>1. (q + c) * g = Q + C /\ q + c \in Nat
    BY <1>3, <1>4, <1>5
  <2>2. k < q + c => k * g + g <= (q + c) * g
    BY <1>3, <2>1, Apart
  <2>3. ~(k < q + c) => (q + c) * g <= k * g
    BY <1>3, <2>1
  <2> QED BY <2>1, <2>2, <2>3
<1> HIDE DEF Q, C, K
<1>12. ASSUME k \in q .. q + c - 1
       PROVE  \E a \in K .. K + g - 1 : a \in Bytes(r)
  <2>1. q <= k /\ k < q + c
    BY <1>4, <1>5, <1>12
  <2>2. CASE k = q
    <3>1. r._start \in K .. K + g - 1 /\ r._start \in Bytes(r)
      BY <1>2, <1>9, <1>10, <2>2
    <3> QED BY <3>1
  <2>3. CASE k # q
    <3>1. K \in K .. K + g - 1 /\ K \in Bytes(r)
      BY <1>2, <1>4, <1>9, <1>10, <1>11, <2>1, <2>3
    <3> QED BY <3>1
  <2> QED BY <2>2, <2>3
<1>13. ASSUME NEW a \in K .. K + g - 1, a \in Bytes(r)
       PROVE  k \in q .. q + c - 1
  <2>1. ~(k < q)
    BY <1>2, <1>9, <1>10, <1>13
  <2>2. k < q + c
    <3> SUFFICES ASSUME ~(k < q + c) PROVE FALSE
      OBVIOUS
    <3>1. Q + C <= K
      BY <1>11
    <3>2. a \in Int /\ K <= a /\ a < r._start + r._size
      BY <1>2, <1>9, <1>13
    <3> QED BY <1>9, <3>1, <3>2
  <2> QED BY <1>4, <1>5, <2>1, <2>2
<1> QED
  BY <1>8, <1>12, <1>13 DEF r, K

-----------------------------------------------------------------------------
(* What one more RAM region does to the entries.                           *)
LEMMA OneMore ==
    ASSUME ListOK(ram), NEW n \in 1 .. Len(ram), NEW a
    PROVE  /\ InL1(a, n) <=> \/ InL1(a, n - 1)
                             \/ ram[n]._size % L1_ENTRY_SIZE = 0 /\ a \in Bytes(ram[n])
           /\ InL2(a, n) <=> \/ InL2(a, n - 1)
                             \/ ram[n]._size % L1_ENTRY_SIZE # 0 /\ a \in Bytes(ram[n])
<1>1. \A j : j \in 1 .. n <=> j \in 1 .. n - 1 \/ j = n
  BY DEF ListOK
<1> QED
  BY <1>1, Zenon DEF InL1, InL2

LEMMA InWhole ==
    ASSUME ListOK(ram), NEW n \in 0 .. Len(ram), NEW a
    PROVE  /\ InL1(a, n) => InL1(a, Len(ram))
           /\ InL2(a, n) => InL2(a, Len(ram))
<1>1. \A j : j \in 1 .. n => j \in 1 .. Len(ram)
  BY DEF ListOK
<1> QED
  BY <1>1, Zenon DEF InL1, InL2

(* No address is in two regions, or in a block and a table region.         *)
LEMMA InOneRegion ==
    ASSUME ListOK(ram), WellPlaced, NEW n \in 1 .. Len(ram), NEW a \in Bytes(ram[n])
    PROVE  /\ ~InL1(a, n - 1) /\ ~InL2(a, n - 1)
           /\ ram[n]._size % L1_ENTRY_SIZE # 0 => ~InL1(a, Len(ram))
           /\ ram[n]._size % L1_ENTRY_SIZE = 0 => ~InL2(a, Len(ram))
<1>1. n \in DOMAIN ram /\ DOMAIN ram = 1 .. Len(ram) /\ Len(ram) \in Nat
  BY DEF ListOK
<1>2. \A j \in 1 .. n - 1 : j \in DOMAIN ram /\ j # n
  BY <1>1
<1>3. \A j \in DOMAIN ram : a \in Bytes(ram[j]) => j = n
  BY <1>1, RamDisjoint
<1> QED
  BY <1>1, <1>2, <1>3, Zenon DEF InL1, InL2

(* RAM of whole gigabytes: each of its L1 entries is empty before.         *)
LEMMA RamBlock1 ==
    ASSUME ListOK(ram), WellPlaced, i \in 1 .. Len(ram),
           ram[i]._size % L1_ENTRY_SIZE = 0, NEW k \in 0 .. NumL1 - 1,
           L1Is(L1, k, i - 1, {}),
           L1'[k] = IF k \in Entries(ram[i]._start, ram[i]._size, L1_ENTRY_SIZE)
                    THEN Or(L1[k], Block(k * L1_ENTRY_SIZE, "normal")) ELSE L1[k]
    PROVE  L1Is(L1', k, i, {}) /\ (L1[k] # Zero => L1'[k] = L1[k])
<1> DEFINE r == ram[i]
           b == k * L1_ENTRY_SIZE
<1>1. r \in Regions /\ r \in Range(ram) /\ i \in DOMAIN ram
  BY DEF ListOK, Range
<1>2. /\ r._start \in Nat /\ r._size \in Nat /\ r._start % L1_ENTRY_SIZE = 0
      /\ Bytes(r) = r._start .. r._start + r._size - 1 /\ k \in Nat
  <2>1. /\ r._start \in Nat /\ r._size \in Nat /\ k \in Nat
        /\ Bytes(r) = r._start .. r._start + r._size - 1
    BY <1>1, SizesAssumption DEF Regions, Bytes, End
  <2>2. r._start % L1_ENTRY_SIZE = 0
    BY <1>1, Zenon DEF WellPlaced
  <2> QED BY <2>1, <2>2
<1>3. k \in Entries(r._start, r._size, L1_ENTRY_SIZE) <=> b \in Bytes(r)
  BY <1>2, EntriesOfGranules, Sizes
<1>4. /\ \A a : InL1(a, i) <=> InL1(a, i - 1) \/ a \in Bytes(r)
      /\ \A a : InL2(a, i) <=> InL2(a, i - 1)
  BY OneMore
<1>5. b \in Nat /\ Block(b, "normal") \in Entry
  BY <1>2, Sizes, Product, Descriptors
<1>6. CASE b \in Bytes(r)
  <2>1. ~InL1(b, i - 1)
    BY <1>6, InOneRegion
  <2>2. InL1(b, Len(ram))
    <3>1. InL1(b, i)
      BY <1>4, <1>6
    <3>2. i \in 0 .. Len(ram)
      BY DEF ListOK
    <3> QED BY <3>1, <3>2, InWhole
  <2>3. L1[k] = Zero
    BY <2>1, <2>2 DEF L1Is
  <2>4. L1'[k] = Block(b, "normal")
    BY <1>3, <1>5, <1>6, <2>3, OrValues
  <2>5. InL1(b, i)
    BY <1>4, <1>6
  <2> QED BY <2>3, <2>4, <2>5 DEF L1Is
<1>7. CASE b \notin Bytes(r)
  <2>1. L1'[k] = L1[k] /\ (InL1(b, i) <=> InL1(b, i - 1))
    BY <1>3, <1>4, <1>7
  <2> QED BY <1>4, <2>1 DEF L1Is
<1> QED
  BY <1>6, <1>7

(* Other RAM: an L1 entry it reaches into is empty or a table before, ...  *)
LEMMA RamTable1 ==
    ASSUME ListOK(ram), WellPlaced, i \in 1 .. Len(ram),
           ram[i]._size % L1_ENTRY_SIZE # 0, NEW k \in 0 .. NumL1 - 1,
           L1Is(L1, k, i - 1, {}),
           L1'[k] = IF k \in Slots(ram[i]) THEN Or(L1[k], Table(k)) ELSE L1[k]
    PROVE  L1Is(L1', k, i, {}) /\ (L1[k] # Zero => L1'[k] = L1[k])
<1> DEFINE r == ram[i]
           b == k * L1_ENTRY_SIZE
<1>1. i \in DOMAIN ram /\ k \in Nat
  BY SizesAssumption DEF ListOK
<1>2. k \in Slots(r) <=> \E a \in Span1(k) : a \in Bytes(r)
  BY <1>1, SlotsAreReached
<1>3. /\ \A a : InL1(a, i) <=> InL1(a, i - 1)
      /\ \A a : InL2(a, i) <=> InL2(a, i - 1) \/ a \in Bytes(r)
  BY OneMore
<1>4. Table(k) \in Entry
  BY <1>1, Descriptors
<1>5. CASE k \in Slots(r)
  <2>1. PICK a \in Span1(k) : a \in Bytes(r)
    BY <1>2, <1>5
  <2>2. ~InL1(a, Len(ram))
    BY <2>1, InOneRegion
  <2>3. ~InL1(b, Len(ram))
    BY <1>1, <2>1, <2>2, RamSpan1 DEF InL1, ListOK
  <2>4. ~InL1(b, i - 1)
    <3>1. i - 1 \in 0 .. Len(ram)
      BY DEF ListOK
    <3> QED BY <2>3, <3>1, InWhole
  <2>5. L1[k] \in {Zero, Table(k)}
    BY <2>4 DEF L1Is
  <2>6. L1'[k] = Table(k)
    BY <1>4, <1>5, <2>5, OrValues
  <2> QED BY <2>3, <2>5, <2>6 DEF L1Is
<1>6. CASE k \notin Slots(r)
  <2>1. L1'[k] = L1[k] /\ \A a \in Span1(k) : InL2(a, i) <=> InL2(a, i - 1)
    BY <1>2, <1>3, <1>6
  <2> QED BY <1>3, <2>1 DEF L1Is
<1> QED
  BY <1>5, <1>6

(* ... and its L2 entries are empty.                                       *)
LEMMA RamBlock2 ==
    ASSUME ListOK(ram), WellPlaced, i \in 1 .. Len(ram),
           ram[i]._size % L1_ENTRY_SIZE # 0, ram[i]._size % L2_ENTRY_SIZE = 0,
           NEW k \in 0 .. NumL1 * Fanout - 1,
           L2Is(L2, << >>, k, i - 1, {}),
           L2'[k] = IF k \in Entries(ram[i]._start, ram[i]._size, L2_ENTRY_SIZE)
                    THEN Or(L2[k], Block(k * L2_ENTRY_SIZE, "normal")) ELSE L2[k]
    PROVE  L2Is(L2', << >>, k, i, {}) /\ (L2[k] # Zero => L2'[k] = L2[k])
<1> DEFINE r == ram[i]
           b == k * L2_ENTRY_SIZE
<1>1. r \in Regions /\ r \in Range(ram) /\ i \in DOMAIN ram
  BY DEF ListOK, Range
<1>2. k \in Nat
  BY SizesAssumption
<1>3. /\ r._start \in Nat /\ r._size \in Nat /\ r._start % L2_ENTRY_SIZE = 0
      /\ Bytes(r) = r._start .. r._start + r._size - 1
  <2>1. /\ r._start \in Nat /\ r._size \in Nat
        /\ Bytes(r) = r._start .. r._start + r._size - 1
    BY <1>1 DEF Regions, Bytes, End
  <2>2. r._start % L2_ENTRY_SIZE = 0
    BY <1>1, Zenon DEF WellPlaced
  <2> QED BY <2>1, <2>2
<1>4. k \in Entries(r._start, r._size, L2_ENTRY_SIZE) <=> b \in Bytes(r)
  BY <1>2, <1>3, EntriesOfGranules, Sizes
<1>5. \A a : InL2(a, i) <=> InL2(a, i - 1) \/ a \in Bytes(r)
  BY OneMore
<1>6. b \in Nat /\ Block(b, "normal") \in Entry
  BY <1>2, Sizes, Product, Descriptors
<1>7. \/ L2[k] = Zero /\ \A a \in Span2(k) : ~InL2(a, i - 1)
      \/ L2[k] = Block(b, "normal") /\ InL2(b, i - 1)
  <2>1. Span2(k) # {}
    <3>1. b \in Span2(k)
      BY <1>6, Sizes DEF Span2
    <3> QED BY <3>1
  <2>2. DOMAIN << >> = {}
    OBVIOUS
  <2> QED BY <2>1, <2>2 DEF L2Is
<1>8. CASE b \in Bytes(r)
  <2>1. ~InL2(b, i - 1)
    BY <1>8, InOneRegion
  <2>2. L2'[k] = Block(b, "normal")
    BY <1>4, <1>6, <1>7, <1>8, <2>1, OrValues
  <2>3. InL2(b, i)
    BY <1>5, <1>8
  <2> QED BY <1>7, <2>1, <2>2, <2>3 DEF L2Is
<1>9. CASE b \notin Bytes(r)
  <2>1. \A a \in Span2(k) : a \notin Bytes(r)
    BY <1>1, <1>2, <1>9, RamSpan2
  <2>2. L2'[k] = L2[k] /\ (InL2(b, i) <=> InL2(b, i - 1))
    BY <1>4, <1>5, <1>9
  <2>3. \A a \in Span2(k) : InL2(a, i) <=> InL2(a, i - 1)
    BY <1>5, <2>1
  <2> QED BY <1>7, <2>2, <2>3 DEF L2Is
<1> QED
  BY <1>8, <1>9

-----------------------------------------------------------------------------
(* What one more block or page of a device does to the entries, when RAM   *)
(* is mapped and the block or page is neither RAM nor mapped yet.          *)
LEMMA DescriptorsDiffer ==
    ASSUME NEW b \in Nat, NEW t \in Nat
    PROVE  /\ Zero.type = {} /\ Table(t).type = {"table"} /\ Table(t).out = {t}
           /\ Block(b, "normal").type = {"block"} /\ Block(b, "device").type = {"block"}
           /\ Page(b).type = {"page"}
BY DEF Zero, Table, Block, Page

LEMMA EnsureL2Is ==
    ASSUME ListOK(ram), WellPlaced, NEW c \in Address, ~InL1(c, Len(ram)),
           NEW l1 \in [0 .. NumL1 - 1 -> Entry], NEW M, NEW N,
           \A k \in 0 .. NumL1 - 1 : L1Is(l1, k, Len(ram), M),
           \A a \in N : a \in M \/ a \div L1_ENTRY_SIZE = c \div L1_ENTRY_SIZE,
           NEW m1, m1 = IF pte_is_valid(l1[c \div L1_ENTRY_SIZE]) THEN l1
                        ELSE [l1 EXCEPT ![c \div L1_ENTRY_SIZE] =
                                 Or(l1[c \div L1_ENTRY_SIZE], Table(c \div L1_ENTRY_SIZE))]
    PROVE  \A k \in 0 .. NumL1 - 1 : L1Is(m1, k, Len(ram), N)
<1> DEFINE q == c \div L1_ENTRY_SIZE
<1>1. q \in 0 .. NumL1 - 1 /\ c \in Nat
  BY Indexes
<1>2. q \in Nat
  BY <1>1, SizesAssumption
<1>3. c \in Span1(q)
  BY <1>1, Floor, Sizes DEF Span1
<1>4. \A a \in N : a \in M \/ a \div L1_ENTRY_SIZE = q
  OBVIOUS
<1>5. m1 = IF pte_is_valid(l1[q]) THEN l1 ELSE [l1 EXCEPT ![q] = Or(l1[q], Table(q))]
  OBVIOUS
<1> HIDE DEF q
<1>6. ~InL1(q * L1_ENTRY_SIZE, Len(ram))
  BY <1>2, <1>3, RamSpan1 DEF InL1, ListOK
<1>7. m1[q] = Table(q)
  <2>1. l1[q] = Zero \/ l1[q] = Table(q)
    BY <1>1, <1>6 DEF L1Is
  <2>2. Table(q) \in Entry /\ Zero.type = {} /\ Table(q).type = {"table"}
    BY <1>2, Descriptors, DescriptorsDiffer
  <2> QED BY <1>1, <1>5, <2>1, <2>2, OrValues DEF pte_is_valid
<1>8. ASSUME NEW k \in 0 .. NumL1 - 1 PROVE L1Is(m1, k, Len(ram), N)
  <2>1. CASE k = q
    BY <1>6, <1>7, <2>1 DEF L1Is
  <2>2. CASE k # q
    <3>1. m1[k] = l1[k]
      BY <1>1, <1>5, <2>2
    <3>2. ASSUME NEW a \in Span1(k), a \notin M PROVE a \notin N
      <4>1. k \in Nat /\ k * L1_ENTRY_SIZE \in Nat
        BY SizesAssumption, Sizes, Product
      <4>2. a \in Nat
        BY <4>1, Sizes DEF Span1
      <4>3. a \div L1_ENTRY_SIZE = k
        BY <4>1, <4>2, Sizes, Quotient DEF Span1
      <4> QED BY <1>4, <2>2, <3>2, <4>3
    <3>3. L1Is(l1, k, Len(ram), M)
      OBVIOUS
    <3> QED BY <3>1, <3>2, <3>3 DEF L1Is
  <2> QED BY <2>1, <2>2
<1> QED
  BY <1>8

LEMMA SpansApart ==
    ASSUME NEW k \in 0 .. NumL1 * Fanout - 1, NEW q \in 0 .. NumL1 * Fanout - 1,
           NEW a \in Span2(k), a \in Span2(q)
    PROVE  k = q
<1>1. k \in Nat /\ q \in Nat
  BY SizesAssumption
<1>2. k * L2_ENTRY_SIZE \in Nat
  BY <1>1, Sizes, Product
<1>3. a \in Nat
  BY <1>2, Sizes DEF Span2
<1>4. a \div L2_ENTRY_SIZE = k /\ a \div L2_ENTRY_SIZE = q
  BY <1>1, <1>3, Sizes, Quotient DEF Span2
<1> QED
  BY <1>4

LEMMA PageInSpan ==
    ASSUME NEW k \in 0 .. NumL1 * Fanout - 1, NEW x \in 0 .. Fanout - 1
    PROVE  /\ PageAt(k, x) \in Nat /\ PageAt(k, x) \in Span2(k)
           /\ PageAt(k, x) .. PageAt(k, x) + L3_ENTRY_SIZE - 1 \subseteq Span2(k)
<1>1. k \in Nat /\ x \in Nat /\ x < Fanout
  BY SizesAssumption
<1> DEFINE K == k * L2_ENTRY_SIZE
           X == x * L3_ENTRY_SIZE
<1>2. K \in Nat /\ X \in Nat
  BY <1>1, Sizes, Product
<1>3. X + L3_ENTRY_SIZE <= L2_ENTRY_SIZE
  BY <1>1, Apart, Sizes, SizesAssumption DEF L2_ENTRY_SIZE
<1>4. PageAt(k, x) = K + X /\ Span2(k) = K .. K + L2_ENTRY_SIZE - 1
  BY DEF PageAt, Span2
<1> HIDE DEF K, X
<1> QED
  BY <1>2, <1>3, <1>4, Sizes

(* Pages do not overlap.                                                   *)
LEMMA PagesApart ==
    ASSUME NEW k \in 0 .. NumL1 * Fanout - 1, NEW x \in 0 .. Fanout - 1,
           NEW q \in 0 .. NumL1 * Fanout - 1, NEW y \in 0 .. Fanout - 1,
           PageAt(k, x) \in PageAt(q, y) .. PageAt(q, y) + L3_ENTRY_SIZE - 1
    PROVE  k = q /\ x = y
<1>1. k = q
  BY PageInSpan, SpansApart
<1> DEFINE K == k * L2_ENTRY_SIZE
           X == x * L3_ENTRY_SIZE
           Y == y * L3_ENTRY_SIZE
<1>2. x \in Nat /\ y \in Nat /\ k \in Nat
  BY SizesAssumption
<1>3. K \in Nat /\ X \in Nat /\ Y \in Nat
  BY <1>2, Sizes, Product
<1>4. (x < y => X + L3_ENTRY_SIZE <= Y) /\ (y < x => Y + L3_ENTRY_SIZE <= X)
  BY <1>2, Apart, Sizes
<1>5. PageAt(k, x) = K + X /\ PageAt(q, y) = K + Y
  BY <1>1 DEF PageAt
<1> HIDE DEF K, X, Y
<1>6. ~(x < y) /\ ~(y < x)
  BY <1>3, <1>4, <1>5, Sizes
<1> QED
  BY <1>1, <1>2, <1>6

(* A block goes into an empty entry; the other entries do not notice.      *)
LEMMA AddBlock ==
    ASSUME NEW l2 \in [0 .. NumL1 * Fanout - 1 -> Entry],
           NEW l3 \in Seq([0 .. Fanout - 1 -> Entry]), NEW M,
           NEW q \in 0 .. NumL1 * Fanout - 1,
           Span2(q) \cap M = {}, ~InL2(q * L2_ENTRY_SIZE, Len(ram)),
           \A k \in 0 .. NumL1 * Fanout - 1 : L2Is(l2, l3, k, Len(ram), M),
           OneEntryEach(l2, l3),
           NEW m2, m2 = [l2 EXCEPT ![q] = Or(l2[q], Block(q * L2_ENTRY_SIZE, "device"))]
    PROVE  /\ l2[q] = Zero
           /\ \A k \in 0 .. NumL1 * Fanout - 1 : L2Is(m2, l3, k, Len(ram), M \cup Span2(q))
           /\ OneEntryEach(m2, l3)
<1> DEFINE b == q * L2_ENTRY_SIZE
           N == M \cup Span2(q)
<1>1. q \in Nat
  BY SizesAssumption
<1>2. b \in Nat /\ b \in Span2(q) /\ Block(b, "device") \in Entry
  BY <1>1, Sizes, Product, Descriptors DEF Span2
<1>3. l2[q] = Zero
  BY <1>2 DEF L2Is
<1>4. m2[q] = Block(b, "device") /\ \A k \in 0 .. NumL1 * Fanout - 1 : k # q => m2[k] = l2[k]
  BY <1>2, <1>3, OrValues
<1>5. ASSUME NEW k \in 0 .. NumL1 * Fanout - 1 PROVE L2Is(m2, l3, k, Len(ram), N)
  <2>1. CASE k = q
    BY <1>4, <2>1 DEF L2Is
  <2>2. CASE k # q
    <3>1. \A a \in Span2(k) : a \in N <=> a \in M
      BY <2>2, SpansApart
    <3>2. \A t : Serves(l3, t, k, M) => Serves(l3, t, k, N)
      BY <3>1, PageInSpan DEF Serves
    <3>3. L2Is(l2, l3, k, Len(ram), M) /\ m2[k] = l2[k]
      BY <1>4, <2>2
    <3> HIDE DEF N
    <3> QED BY <3>1, <3>2, <3>3 DEF L2Is
  <2> QED BY <2>1, <2>2
<1>6. \A t \in DOMAIN l3 : Block(b, "device") # Table(t)
  <2> SUFFICES ASSUME NEW t \in DOMAIN l3 PROVE Block(b, "device") # Table(t)
    OBVIOUS
  <2>1. t \in Nat
    OBVIOUS
  <2> QED BY <1>2, <2>1, DescriptorsDiffer
<1>7. OneEntryEach(m2, l3)
  BY <1>4, <1>6 DEF OneEntryEach
<1> QED
  BY <1>3, <1>5, <1>7

(* A page finds an empty L2 entry or a table that does not hold it.        *)
LEMMA PageFinds ==
    ASSUME NEW l2, NEW l3 \in Seq([0 .. Fanout - 1 -> Entry]), NEW M,
           NEW q \in 0 .. NumL1 * Fanout - 1, NEW x \in 0 .. Fanout - 1,
           PageAt(q, x) \notin M, ~InL2(q * L2_ENTRY_SIZE, Len(ram)),
           L2Is(l2, l3, q, Len(ram), M)
    PROVE  \/ l2[q] = Zero /\ \A a \in Span2(q) : a \notin M
           \/ \E t \in DOMAIN l3 : l2[q] = Table(t) /\ Serves(l3, t, q, M)
<1>1. PageAt(q, x) \in Span2(q)
  BY PageInSpan
<1> QED
  BY <1>1 DEF L2Is

(* The page in a table that is there already, ...                          *)
LEMMA AddPage ==
    ASSUME NEW l2, NEW l3 \in Seq([0 .. Fanout - 1 -> Entry]), NEW M,
           NEW q \in 0 .. NumL1 * Fanout - 1, NEW x \in 0 .. Fanout - 1,
           PageAt(q, x) \notin M, ~InL2(q * L2_ENTRY_SIZE, Len(ram)),
           \A k \in 0 .. NumL1 * Fanout - 1 : L2Is(l2, l3, k, Len(ram), M),
           OneEntryEach(l2, l3),
           NEW t \in DOMAIN l3, l2[q] = Table(t), Serves(l3, t, q, M), NEW m3,
           m3 = [l3 EXCEPT ![t] =
                   [l3[t] EXCEPT ![x] = Or(l3[t][x], Page(PageAt(q, x)))]],
           NEW N, N = M \cup (PageAt(q, x) .. PageAt(q, x) + L3_ENTRY_SIZE - 1)
    PROVE  /\ \A k \in 0 .. NumL1 * Fanout - 1 : L2Is(l2, m3, k, Len(ram), N)
           /\ OneEntryEach(l2, m3)
<1> DEFINE c == PageAt(q, x)
<1>1. c \in Nat /\ c \in c .. c + L3_ENTRY_SIZE - 1 /\ c \in Span2(q) /\ Page(c) \in Entry
  BY PageInSpan, Sizes, Descriptors
<1>2. c .. c + L3_ENTRY_SIZE - 1 \subseteq Span2(q)
  BY PageInSpan
<1>3. /\ DOMAIN m3 = DOMAIN l3 /\ \A u \in DOMAIN l3 : u # t => m3[u] = l3[u]
      /\ m3[t] = [l3[t] EXCEPT ![x] = Or(l3[t][x], Page(c))]
  OBVIOUS
<1>4. l3[t] \in [0 .. Fanout - 1 -> Entry]
  OBVIOUS
<1>5. l3[t][x] = Zero
  BY DEF Serves
<1>6. m3[t][x] = Page(c) /\ \A y \in 0 .. Fanout - 1 : y # x => m3[t][y] = l3[t][y]
  BY <1>1, <1>3, <1>4, <1>5, OrValues
<1>7. \A k \in 0 .. NumL1 * Fanout - 1, y \in 0 .. Fanout - 1 :
         PageAt(k, y) \in N <=> PageAt(k, y) \in M \/ (k = q /\ y = x)
  BY <1>1, PagesApart
<1>8. Serves(m3, t, q, N)
  BY <1>6, <1>7 DEF Serves
<1>9. ASSUME NEW k \in 0 .. NumL1 * Fanout - 1 PROVE L2Is(l2, m3, k, Len(ram), N)
  <2>1. CASE k = q
    <3>1. c \in Span2(q) \cap N
      BY <1>1
    <3> QED BY <1>3, <1>8, <2>1, <3>1 DEF L2Is
  <2>2. CASE k # q
    <3>1. \A a \in Span2(k) : a \in N <=> a \in M
      BY <1>2, <2>2, SpansApart
    <3>2. ASSUME NEW u \in DOMAIN l3, l2[k] = Table(u), Serves(l3, u, k, M)
          PROVE  Serves(m3, u, k, N)
      <4>1. u # t
        BY <2>2, <3>2 DEF OneEntryEach
      <4>2. m3[u] = l3[u]
        BY <1>3, <4>1
      <4> QED BY <1>7, <2>2, <3>2, <4>2 DEF Serves
    <3>3. L2Is(l2, l3, k, Len(ram), M) /\ DOMAIN m3 = DOMAIN l3
      BY <1>3
    <3> QED BY <3>1, <3>2, <3>3 DEF L2Is
  <2> QED BY <2>1, <2>2
<1>10. OneEntryEach(l2, m3)
  BY <1>3 DEF OneEntryEach
<1> QED
  BY <1>9, <1>10

(* ... and in a new one.                                                   *)
LEMMA AddTable ==
    ASSUME L2 \in [0 .. NumL1 * Fanout - 1 -> Entry],
           L3 \in Seq([0 .. Fanout - 1 -> Entry]), NEW M,
           NEW q \in 0 .. NumL1 * Fanout - 1, NEW x \in 0 .. Fanout - 1,
           ~InL2(q * L2_ENTRY_SIZE, Len(ram)),
           \A k \in 0 .. NumL1 * Fanout - 1 : L2Is(L2, L3, k, Len(ram), M),
           OneEntryEach(L2, L3),
           \A a \in Span2(q) : a \notin M,
           L2' = [L2 EXCEPT ![q] = Table(Len(L3) + 1)],
           L3' = Append(L3, [NewTable EXCEPT ![x] =
                                Or(NewTable[x], Page(PageAt(q, x)))]),
           NEW N, N = M \cup (PageAt(q, x) .. PageAt(q, x) + L3_ENTRY_SIZE - 1)
    PROVE  /\ \A k \in 0 .. NumL1 * Fanout - 1 : L2Is(L2', L3', k, Len(ram), N)
           /\ OneEntryEach(L2', L3')
<1> DEFINE c == PageAt(q, x)
           t == Len(L3) + 1
<1>1. c \in Nat /\ c \in c .. c + L3_ENTRY_SIZE - 1 /\ c \in Span2(q) /\ Page(c) \in Entry
  BY PageInSpan, Sizes, Descriptors
<1>2. c .. c + L3_ENTRY_SIZE - 1 \subseteq Span2(q)
  BY PageInSpan
<1>3. /\ t \in Nat /\ t \notin DOMAIN L3
      /\ DOMAIN L3' = DOMAIN L3 \cup {t} /\ \A u \in DOMAIN L3 : L3'[u] = L3[u]
      /\ L3'[t] = [NewTable EXCEPT ![x] = Or(NewTable[x], Page(c))]
  OBVIOUS
<1>4. /\ L2'[q] = Table(t) /\ \A k \in 0 .. NumL1 * Fanout - 1 : k # q => L2'[k] = L2[k]
  OBVIOUS
<1> HIDE DEF t
<1>5. L3'[t][x] = Page(c) /\ \A y \in 0 .. Fanout - 1 : y # x => L3'[t][y] = Zero
  BY <1>1, <1>3, OrValues DEF NewTable
<1>6. \A k \in 0 .. NumL1 * Fanout - 1, y \in 0 .. Fanout - 1 :
         PageAt(k, y) \in N <=> PageAt(k, y) \in M \/ (k = q /\ y = x)
  BY <1>1, PagesApart
<1>7. Serves(L3', t, q, N)
  <2>1. \A y \in 0 .. Fanout - 1 : PageAt(q, y) \notin M
    BY PageInSpan
  <2> QED BY <1>5, <1>6, <2>1 DEF Serves
<1>8. ASSUME NEW k \in 0 .. NumL1 * Fanout - 1 PROVE L2Is(L2', L3', k, Len(ram), N)
  <2>1. CASE k = q
    <3>1. c \in Span2(q) \cap N
      BY <1>1
    <3> QED BY <1>3, <1>4, <1>7, <2>1, <3>1 DEF L2Is
  <2>2. CASE k # q
    <3>1. \A a \in Span2(k) : a \in N <=> a \in M
      BY <1>2, <2>2, SpansApart
    <3>2. ASSUME NEW u \in DOMAIN L3, Serves(L3, u, k, M) PROVE Serves(L3', u, k, N)
      BY <1>3, <1>6, <2>2, <3>2 DEF Serves
    <3>3. L2Is(L2, L3, k, Len(ram), M) /\ L2'[k] = L2[k] /\ DOMAIN L3 \subseteq DOMAIN L3'
      BY <1>3, <1>4, <2>2
    <3> QED BY <3>1, <3>2, <3>3 DEF L2Is
  <2> QED BY <2>1, <2>2
<1>9. ASSUME NEW k \in 0 .. NumL1 * Fanout - 1, k # q PROVE L2'[k] # Table(t)
  <2>1. L2'[k] = L2[k] /\ L2Is(L2, L3, k, Len(ram), M)
    BY <1>4, <1>9
  <2>2. k * L2_ENTRY_SIZE \in Nat
    BY SizesAssumption, Sizes, Product
  <2>3. ASSUME NEW u \in DOMAIN L3 PROVE Table(u) # Table(t)
    <3>1. u \in Nat /\ u # t
      BY <1>3
    <3>2. Table(u).out = {u} /\ Table(t).out = {t}
      BY <1>3, <2>2, <3>1, DescriptorsDiffer
    <3> QED BY <3>1, <3>2
  <2>4. /\ Table(t) # Zero /\ Table(t) # Block(k * L2_ENTRY_SIZE, "normal")
        /\ Table(t) # Block(k * L2_ENTRY_SIZE, "device")
    <3>1. /\ Zero.type = {} /\ Table(t).type = {"table"}
          /\ Block(k * L2_ENTRY_SIZE, "normal").type = {"block"}
          /\ Block(k * L2_ENTRY_SIZE, "device").type = {"block"}
      BY <1>3, <2>2, DescriptorsDiffer
    <3> QED BY <3>1
  <2> QED BY <2>1, <2>3, <2>4 DEF L2Is
<1>10. OneEntryEach(L2', L3')
  BY <1>3, <1>4, <1>9 DEF OneEntryEach
<1> QED
  BY <1>8, <1>10
=============================================================================
