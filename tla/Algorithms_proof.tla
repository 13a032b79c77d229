-------------------------- MODULE Algorithms_proof --------------------------
(***************************************************************************)
(* What the loops of module Algorithms compute, for every input: each      *)
(* recursive function is shown to satisfy its equation, and what it        *)
(* returns follows by induction (on the number, the position or the        *)
(* offset).                                                                *)
(***************************************************************************)
EXTENDS Algorithms, WellFoundedInduction, FiniteSetTheorems, TLAPS

(* A set of numbers has a smallest element: the induction of this module.  *)
Below == {ss \in Nat \X Nat : ss[1] < ss[2]}

LEMMA Smallest ==
    ASSUME NEW T \in SUBSET Nat, T # {}
    PROVE  \E n \in T : \A m \in T : n <= m
<1>1. IsWellFoundedOn(Below, Nat)
  BY NatLessThanWellFounded DEF OpToRel, Below
<1>2. PICK n \in T : \A m \in T : <<m, n>> \notin Below
  BY <1>1, WFMin
<1>3. \A m \in T : n \in Nat /\ m \in Nat /\ ~(m < n)
  BY <1>2 DEF Below
<1> QED BY <1>3

(* Powers of two, as the numbers of subsets.                               *)
LEMMA PowersOfTwo ==
    ASSUME NEW n \in Nat
    PROVE  2^n \in Nat \ {0} /\ 2^n < 2^(n + 1)
<1> DEFINE small == SUBSET (1 .. n)
           large == SUBSET (1 .. n + 1)
<1>1. /\ IsFiniteSet(1 .. n) /\ Cardinality(1 .. n) = n
      /\ IsFiniteSet(1 .. n + 1) /\ Cardinality(1 .. n + 1) = n + 1
  BY FS_Interval
<1>2. /\ IsFiniteSet(small) /\ Cardinality(small) = 2^n
      /\ IsFiniteSet(large) /\ Cardinality(large) = 2^(n + 1)
  BY <1>1, FS_SUBSET
<1>3. small \in SUBSET large /\ small # large /\ small # {}
  <2>1. (1 .. n + 1) \in large /\ (1 .. n + 1) \notin small
    OBVIOUS
  <2>2. {} \in small
    OBVIOUS
  <2>3. small \subseteq large
    OBVIOUS
  <2> QED BY <2>1, <2>2, <2>3
<1> HIDE DEF small, large
<1>4. Cardinality(small) \in Nat /\ Cardinality(large) \in Nat
  BY <1>2, FS_CardinalityType
<1>5. Cardinality(small) <= Cardinality(large) /\ Cardinality(small) # Cardinality(large)
  BY <1>2, <1>3, FS_Subset
<1>6. Cardinality(small) # 0
  BY <1>2, <1>3, FS_EmptySet
<1> QED BY <1>2, <1>4, <1>5, <1>6

(* A call has one of the inputs, and what it returns is what the operator  *)
(* that models the code computes from it.                                  *)
Computed ==
    /\ job.kind \in {"number", "format", "list", "clock"}
    /\ job.kind = "number" => /\ job.input \in Numbers
                              /\ done => out = kprintf_print_number(job.input[1], job.input[2])
    /\ job.kind = "format" => /\ job.input \in Formats
                              /\ done => out = vkprintf(job.input[1], job.input[2])
    /\ job.kind = "list" =>
          /\ job.input \in Lists
          /\ done => out = <<compatible_list_contains(job.input[1] \o <<job.input[2]>>,
                                                      Len(job.input[1]), job.input[3] \o <<0>>)>>
    /\ job.kind = "clock" => /\ job.input \in Clocks
                             /\ done => out = calculate_divisors(job.input[1], job.input[2])

LEMMA AlwaysComputed == Spec => []Computed
<1>1. Init => Computed
  <2> SUFFICES ASSUME Init PROVE Computed
    OBVIOUS
  <2>1. PICK kind \in {"number", "format", "list", "clock"} :
           \E input \in (CASE kind = "number" -> Numbers [] kind = "format" -> Formats
                          [] kind = "list" -> Lists [] OTHER -> Clocks) :
              job = [kind |-> kind, input |-> input]
    BY DEF Init
  <2>2. done = FALSE
    BY DEF Init
  <2> QED BY <2>1, <2>2 DEF Computed
<1>2. Computed /\ [Next]_vars => Computed'
  <2> SUFFICES ASSUME Computed, [Next]_vars PROVE Computed'
    OBVIOUS
  <2>1. CASE PrintNumber
    BY <2>1 DEF PrintNumber, Return, Computed
  <2>2. CASE PrintFormat
    BY <2>2 DEF PrintFormat, Return, Computed
  <2>3. CASE SearchList
    BY <2>3 DEF SearchList, Return, Computed
  <2>4. CASE Divide
    BY <2>4 DEF Divide, Return, Computed
  <2>5. CASE UNCHANGED vars
    BY <2>5 DEF vars, Computed
  <2> QED BY <2>1, <2>2, <2>3, <2>4, <2>5 DEF Next
<1> QED BY <1>1, <1>2, PTL DEF Spec

-----------------------------------------------------------------------------
(* calculate_divisors: the two registers hold the quotient, and a quotient *)
(* is the largest number whose product stays below.                        *)
LEMMA Quotient ==
    ASSUME NEW a \in Nat, NEW b \in Nat \ {0}
    PROVE  /\ a \div b \in Nat
           /\ b * (a \div b) <= a /\ a < b * (a \div b) + b
OBVIOUS

LEMMA Divisors ==
    ASSUME NEW clock \in Nat \ {0}, NEW baud \in Nat \ {0},
           4 * clock < 2^Width, 4 * clock < 2^22 * baud,
           NEW o, o = calculate_divisors(clock, baud)
    PROVE  /\ o[2] \in 0 .. 63
           /\ 64 * clock >= 16 * baud * (64 * o[1] + o[2])
           /\ ~(64 * clock >= 16 * baud * (64 * o[1] + o[2] + 1))
<1> DEFINE div == (4 * clock) \div baud
<1>1. 2^Width \in Nat \ {0}
  BY AlgorithmsAssumption, PowersOfTwo
<1>2. (4 * clock) % 2^Width = 4 * clock
  <2> DEFINE w == 2^Width
  <2>1. w \in Nat \ {0} /\ 4 * clock < w
    BY <1>1
  <2> HIDE DEF w
  <2>2. (4 * clock) % w = 4 * clock
    BY <2>1
  <2> QED BY <2>2 DEF w
<1>3. div \in Nat /\ baud * div <= 4 * clock /\ 4 * clock < baud * div + baud
  BY Quotient
<1>4. o[1] = (div \div 64) % 2^16 /\ o[2] = div % 64
  BY <1>2 DEF calculate_divisors
<1> HIDE DEF div
<1>5. div < 2^22
  <2>1. baud * div < baud * 2^22
    BY <1>3
  <2>2. SUFFICES ASSUME div >= 2^22 PROVE FALSE
    BY <1>3
  <2>3. baud * div >= baud * 2^22
    BY <1>3, <2>2
  <2> QED BY <1>3, <2>1, <2>3
<1>6. o[1] = div \div 64 /\ o[2] = div % 64
  BY <1>3, <1>4, <1>5
<1>7. 64 * o[1] + o[2] = div /\ o[2] \in 0 .. 63
  BY <1>3, <1>6
<1>8. 16 * baud * div = 16 * (baud * div) /\ 16 * baud * (div + 1) = 16 * (baud * div) + 16 * baud
  BY <1>3
<1>9. baud * div \in Nat /\ 16 * baud \in Nat
  BY <1>3
<1>10. 64 * clock >= 16 * baud * div
  <2> DEFINE p == baud * div
             q == 16 * baud * div
  <2>1. p \in Nat /\ q = 16 * p /\ p <= 4 * clock
    BY <1>3, <1>8, <1>9
  <2> HIDE DEF p, q
  <2>2. 64 * clock >= q
    BY <2>1
  <2> QED BY <2>2 DEF q
<1>11. ~(64 * clock >= 16 * baud * (div + 1))
  <2> DEFINE p == baud * div
             q == 16 * baud * (div + 1)
  <2>1. p \in Nat /\ q = 16 * p + 16 * baud /\ 4 * clock < p + baud
    BY <1>3, <1>8, <1>9
  <2> HIDE DEF p, q
  <2>2. ~(64 * clock >= q)
    BY <2>1
  <2> QED BY <2>2 DEF q
<1> QED BY <1>7, <1>10, <1>11

(* calculate_divisors gives the PL011 the divisor nearest to that of the   *)
(* baud rate, for every word width, clock and baud rate.                   *)
THEOREM BaudRateIsMet == Spec => []DivisorsGiveTheBaudRate
<1>1. Computed => DivisorsGiveTheBaudRate
  <2> SUFFICES ASSUME Computed, Returned("clock"), 4 * job.input[1] < 2^Width,
                      4 * job.input[1] < 2^22 * job.input[2]
               PROVE  /\ out[2] \in 0 .. 63
                      /\ 64 * job.input[1] >= 16 * job.input[2] * (64 * out[1] + out[2])
                      /\ ~(64 * job.input[1] >= 16 * job.input[2] * (64 * out[1] + out[2] + 1))
    BY DEF DivisorsGiveTheBaudRate
  <2>1. job.input \in Clocks /\ out = calculate_divisors(job.input[1], job.input[2])
    BY DEF Computed, Returned
  <2>2. 2^Width \in Nat
    BY AlgorithmsAssumption, PowersOfTwo
  <2>3. job.input[1] \in Nat \ {0} /\ job.input[2] \in Nat \ {0}
    BY <2>1, <2>2, AlgorithmsAssumption
  <2> QED BY <2>1, <2>3, Divisors
<1> QED BY <1>1, AlwaysComputed, PTL
-----------------------------------------------------------------------------
(* kprintf_print_number: the loop divides the number by the base, so it    *)
(* gets nearer to zero.                                                    *)
Nearer ==
    {ss \in Int \X Int : /\ ss[2] > 0 => ss[1] < ss[2] /\ ss[1] > -ss[2]
                         /\ ss[2] < 0 => ss[1] > ss[2] /\ ss[1] < -ss[2]
                         /\ ss[2] # 0}

LEMMA NearerIsWellFounded == IsWellFoundedOn(Nearer, Int)
<1> SUFFICES ASSUME NEW T \in SUBSET Int, T # {}
             PROVE  \E x \in T : \A y \in T : <<y, x>> \notin Nearer
  BY MinWF
<1> DEFINE far == {n \in Nat : n \in T \/ -n \in T}
<1>1. far \in SUBSET Nat /\ far # {}
  <2>1. PICK t \in T : TRUE
    OBVIOUS
  <2>2. t \in far \/ -t \in far
    BY <2>1
  <2> QED BY <2>2
<1>2. PICK n \in far : \A m \in far : n <= m
  <2> HIDE DEF far
  <2> QED BY <1>1, Smallest
<1>3. PICK x \in T : x = n \/ x = -n
  BY <1>2
<1>4. \A y \in T : <<y, x>> \notin Nearer
  <2> SUFFICES ASSUME NEW y \in T, <<y, x>> \in Nearer PROVE FALSE
    OBVIOUS
  <2>1. y \in far \/ -y \in far
    OBVIOUS
  <2>2. n <= y \/ n <= -y
    BY <1>2, <2>1
  <2> QED BY <1>2, <1>3, <2>2 DEF Nearer
<1> QED BY <1>4

(* One round of the loop.                                                  *)
LEMMA NumberBufStep ==
    ASSUME NEW base \in {10, 16}, NEW n \in Int
    PROVE  number_buf(n, base) =
              IF n = 0 THEN << >> ELSE <<Rem(n, base)>> \o number_buf(Quo(n, base), base)
<1> DEFINE Def(f, m) == IF m = 0 THEN << >> ELSE <<Rem(m, base)>> \o f[Quo(m, base)]
           buf[m \in Int] == IF m = 0 THEN << >> ELSE <<Rem(m, base)>> \o buf[Quo(m, base)]
<1>1. \A m \in Int : Quo(m, base) \in Int /\ (m # 0 => <<Quo(m, base), m>> \in Nearer)
  BY DEF Quo, Nearer
<1>2. WFDefOn(Nearer, Int, Def)
  BY <1>1 DEF WFDefOn, SetLessThan
<1>3. OpDefinesFcn(buf, Int, Def)
  BY DEF OpDefinesFcn
<1> HIDE DEF buf
<1>4. WFInductiveDefines(buf, Int, Def)
  BY <1>2, <1>3, NearerIsWellFounded, WFInductiveDef
<1>5. buf = [m \in Int |-> IF m = 0 THEN << >> ELSE <<Rem(m, base)>> \o buf[Quo(m, base)]]
  BY <1>4 DEF WFInductiveDefines
<1>6. \A m \in Int : number_buf(m, base) = buf[m]
  BY DEF number_buf, buf
<1>7. buf[n] = IF n = 0 THEN << >> ELSE <<Rem(n, base)>> \o buf[Quo(n, base)]
  BY <1>5
<1> QED BY <1>1, <1>6, <1>7

(* Reading digits one by one.                                              *)
LEMMA ReadBackStep ==
    ASSUME NEW s \in Seq(Int), NEW d \in Int, NEW base \in Int
    PROVE  /\ ReadBack(<< >>, base) = 0
           /\ ReadBack(s, base) \in Int
           /\ ReadBack(s \o <<d>>, base) = ReadBack(s, base) * base + d
<1> DEFINE v(q) == CHOOSE f : f = [k \in 0 .. Len(q) |-> IF k = 0 THEN 0 ELSE f[k - 1] * base + q[k]]
<1>1. ASSUME NEW q \in Seq(Int)
      PROVE  v(q) = [k \in 0 .. Len(q) |-> IF k = 0 THEN 0 ELSE v(q)[k - 1] * base + q[k]]
  <2> DEFINE f == v(q)
  <2>1. Len(q) \in Nat
    OBVIOUS
  <2>2. FiniteNatInductiveDefHypothesis(f, 0, LAMBDA w, k : w * base + q[k], 0, Len(q))
    BY DEF FiniteNatInductiveDefHypothesis
  <2>3. FiniteNatInductiveDefConclusion(f, 0, LAMBDA w, k : w * base + q[k], 0, Len(q))
    <3> HIDE DEF f
    <3> QED BY <2>1, <2>2, FiniteNatInductiveDef
  <2> HIDE DEF f
  <2>4. f = [k \in 0 .. Len(q) |-> IF k = 0 THEN 0 ELSE f[k - 1] * base + q[k]]
    BY <2>3 DEF FiniteNatInductiveDefConclusion
  <2> QED BY <2>4 DEF f
<1>2. \A q \in Seq(Int) : ReadBack(q, base) = v(q)[Len(q)]
  BY DEF ReadBack
<1> HIDE DEF v
<1> DEFINE e == s \o <<d>>
<1>3. /\ e \in Seq(Int) /\ Len(e) = Len(s) + 1 /\ e[Len(e)] = d /\ Len(s) \in Nat
      /\ \A k \in 1 .. Len(s) : e[k] = s[k]
  OBVIOUS
<1> HIDE DEF e
<1>4. /\ v(s) = [k \in 0 .. Len(s) |-> IF k = 0 THEN 0 ELSE v(s)[k - 1] * base + s[k]]
      /\ v(e) = [k \in 0 .. Len(e) |-> IF k = 0 THEN 0 ELSE v(e)[k - 1] * base + e[k]]
  BY <1>1, <1>3
<1> DEFINE T == {k \in 0 .. Len(s) : ~(v(s)[k] \in Int /\ v(e)[k] = v(s)[k])}
<1>5. T = {}
  <2> SUFFICES ASSUME T # {} PROVE FALSE
    OBVIOUS
  <2>1. T \in SUBSET Nat
    BY <1>3
  <2>2. PICK k \in T : \A j \in T : k <= j
    <3> HIDE DEF T
    <3> QED BY <2>1, Smallest
  <2>3. CASE k = 0
    BY <1>4, <1>3, <2>3
  <2>4. CASE k # 0
    <3>1. k \in 1 .. Len(s) /\ k - 1 \in 0 .. Len(s) /\ k - 1 \notin T
      BY <2>2, <2>4, <1>3
    <3>2. v(s)[k - 1] \in Int /\ v(e)[k - 1] = v(s)[k - 1] /\ e[k] = s[k] /\ s[k] \in Int
      BY <3>1, <1>3
    <3>3. v(s)[k] = v(s)[k - 1] * base + s[k] /\ v(e)[k] = v(e)[k - 1] * base + e[k]
      <4>1. k \in 0 .. Len(s) /\ k \in 0 .. Len(e) /\ k # 0
        BY <1>3, <3>1
      <4>2. v(s)[k] = IF k = 0 THEN 0 ELSE v(s)[k - 1] * base + s[k]
        BY <1>4, <4>1, Zenon
      <4>3. v(e)[k] = IF k = 0 THEN 0 ELSE v(e)[k - 1] * base + e[k]
        BY <1>4, <4>1, Zenon
      <4> QED BY <4>1, <4>2, <4>3, Zenon
    <3>4. v(s)[k] \in Int /\ v(e)[k] = v(s)[k]
      BY <3>2, <3>3
    <3> QED BY <3>1, <3>4
  <2> QED BY <2>3, <2>4
<1>6. v(s)[Len(s)] \in Int /\ v(e)[Len(s)] = v(s)[Len(s)]
  BY <1>3, <1>5
<1>7. v(e)[Len(e)] = v(e)[Len(e) - 1] * base + e[Len(e)]
  BY <1>4, <1>3
<1>8. v(<< >>)[0] = 0
  <2>1. << >> \in Seq(Int) /\ Len(<< >>) = 0
    OBVIOUS
  <2>2. v(<< >>) = [k \in 0 .. Len(<< >>) |->
                       IF k = 0 THEN 0 ELSE v(<< >>)[k - 1] * base + << >>[k]]
    BY <1>1, <2>1
  <2> QED BY <2>1, <2>2
<1>9. ReadBack(<< >>, base) = 0
  <2>1. << >> \in Seq(Int) /\ Len(<< >>) = 0
    OBVIOUS
  <2>2. ReadBack(<< >>, base) = v(<< >>)[Len(<< >>)]
    BY <1>2, <2>1
  <2> QED BY <1>8, <2>1, <2>2
<1>10. ReadBack(s, base) = v(s)[Len(s)] /\ ReadBack(e, base) = v(e)[Len(e)]
  BY <1>2, <1>3
<1>11. Len(e) - 1 = Len(s)
  BY <1>3
<1>12. ReadBack(e, base) = ReadBack(s, base) * base + d
  BY <1>3, <1>6, <1>7, <1>10, <1>11
<1> QED BY <1>6, <1>9, <1>10, <1>12 DEF e

(* The loop that prints the digits in reverse.                             *)
LEMMA ReversedStep ==
    ASSUME NEW S, NEW s \in Seq(S), NEW d \in S
    PROVE  /\ Reversed(<< >>) = << >>
           /\ Reversed(s) \in Seq(S) /\ Len(Reversed(s)) = Len(s)
           /\ Reversed(<<d>> \o s) = Reversed(s) \o <<d>>
<1>1. Reversed(s) \in Seq(S) /\ Len(Reversed(s)) = Len(s)
  BY DEF Reversed
<1>2. Reversed(<< >>) = << >>
  BY DEF Reversed
<1> DEFINE e == <<d>> \o s
           r == Reversed(s) \o <<d>>
<1>3. /\ e \in Seq(S) /\ Len(e) = Len(s) + 1 /\ Len(s) \in Nat
      /\ e[1] = d /\ \A k \in 2 .. Len(e) : e[k] = s[k - 1]
  OBVIOUS
<1>4. /\ r \in Seq(S) /\ Len(r) = Len(s) + 1
      /\ \A k \in 1 .. Len(s) : r[k] = Reversed(s)[k]
      /\ r[Len(r)] = d
  BY <1>1
<1>5. \A k \in 1 .. Len(s) : Reversed(s)[k] = s[Len(s) + 1 - k]
  BY DEF Reversed
<1> HIDE DEF e, r
<1>6. Reversed(e) \in Seq(S) /\ Len(Reversed(e)) = Len(e)
  BY <1>3 DEF Reversed
<1>7. \A k \in 1 .. Len(e) : Reversed(e)[k] = e[Len(e) + 1 - k]
  BY DEF Reversed
<1>8. ASSUME NEW k \in 1 .. Len(e) PROVE Reversed(e)[k] = r[k]
  <2>1. CASE k = Len(e)
    BY <1>3, <1>4, <1>7, <2>1
  <2>2. CASE k # Len(e)
    <3>1. k \in 1 .. Len(s) /\ Len(e) + 1 - k \in 2 .. Len(e)
      BY <1>3, <2>2
    <3>2. e[Len(e) + 1 - k] = s[Len(s) + 1 - k]
      BY <1>3, <3>1
    <3> QED BY <1>4, <1>5, <1>7, <3>1, <3>2
  <2> QED BY <2>1, <2>2
<1>9. Reversed(e) = r
  BY <1>3, <1>4, <1>6, <1>8
<1> QED BY <1>1, <1>2, <1>9 DEF e, r

(* The digits of a number that is not negative: they are below the base,   *)
(* and the last one to be found, which is printed first, is not zero.      *)
LEMMA DigitsReadBack ==
    ASSUME NEW base \in {10, 16}, NEW number \in Nat
    PROVE  /\ number_buf(number, base) \in Seq(0 .. base - 1)
           /\ ReadBack(Reversed(number_buf(number, base)), base) = number
           /\ number # 0 => /\ number_buf(number, base) # << >>
                            /\ number_buf(number, base)[Len(number_buf(number, base))] # 0
<1> DEFINE b(n) == number_buf(n, base)
           Good(n) == /\ b(n) \in Seq(0 .. base - 1)
                      /\ ReadBack(Reversed(b(n)), base) = n
                      /\ n # 0 => b(n) # << >> /\ b(n)[Len(b(n))] # 0
           T == {n \in Nat : ~Good(n)}
<1>1. SUFFICES ASSUME T # {} PROVE FALSE
  OBVIOUS
<1>2. PICK n \in T : \A m \in T : n <= m
  <2>1. T \in SUBSET Nat
    OBVIOUS
  <2> HIDE DEF T
  <2> QED BY <1>1, <2>1, Smallest
<1> DEFINE q == Quo(n, base)
           r == Rem(n, base)
<1>3. n \in Nat /\ ~Good(n)
  OBVIOUS
<1>4. b(0) = << >>
  <2>1. 0 \in Int
    OBVIOUS
  <2>2. number_buf(0, base) =
           IF 0 = 0 THEN << >> ELSE <<Rem(0, base)>> \o number_buf(Quo(0, base), base)
    BY <2>1, NumberBufStep, Zenon
  <2> QED BY <2>2
<1>5. CASE n = 0
  <2>1. b(n) = << >>
    BY <1>5, <1>4
  <2>2. << >> \in Seq(0 .. base - 1) /\ << >> \in Seq(Int) /\ 0 \in Int /\ base \in Int
    OBVIOUS
  <2>3. Reversed(<< >>) = << >>
    BY <2>2, ReversedStep
  <2>4. ReadBack(<< >>, base) = 0
    BY <2>2, ReadBackStep
  <2> QED BY <1>3, <1>5, <2>1, <2>2, <2>3, <2>4
<1>6. CASE n # 0
  <2>1. q \in Nat /\ q < n /\ r \in 0 .. base - 1 /\ q * base + r = n /\ (q = 0 => r # 0)
    <3>1. CASE base = 10
      BY <1>3, <1>6, <3>1 DEF Quo, Rem
    <3>2. CASE base = 16
      BY <1>3, <1>6, <3>2 DEF Quo, Rem
    <3> QED BY <3>1, <3>2
  <2>2. b(n) = <<r>> \o b(q)
    BY <1>3, <1>6, NumberBufStep
  <2>3. Good(q)
    <3>1. q \notin T
      BY <1>2, <1>3, <2>1
    <3> QED BY <2>1, <3>1
  <2>4. base \in Int
    OBVIOUS
  <2> HIDE DEF q, r
  <2> DEFINE s == b(q)
  <2>5. s \in Seq(0 .. base - 1) /\ ReadBack(Reversed(s), base) = q /\ (q # 0 => s # << >> /\ s[Len(s)] # 0)
    BY <2>3
  <2>6. q = 0 => s = << >>
    BY <1>4
  <2>7. b(n) = <<r>> \o s
    BY <2>2
  <2> HIDE DEF b
  <2> HIDE DEF s
  <2>8. b(n) \in Seq(0 .. base - 1)
    BY <2>1, <2>5, <2>7
  <2>9. /\ Reversed(b(n)) = Reversed(s) \o <<r>>
        /\ Reversed(s) \in Seq(0 .. base - 1)
    <3> DEFINE D == 0 .. base - 1
    <3>1. s \in Seq(D) /\ r \in D
      BY <2>1, <2>5
    <3> HIDE DEF D
    <3>2. Reversed(<<r>> \o s) = Reversed(s) \o <<r>> /\ Reversed(s) \in Seq(D)
      BY <3>1, ReversedStep
    <3> QED BY <2>7, <3>2 DEF D
  <2>10. ReadBack(Reversed(b(n)), base) = n
    <3>1. Reversed(s) \in Seq(Int) /\ r \in Int
      BY <2>1, <2>9
    <3>2. ReadBack(Reversed(s) \o <<r>>, base) = ReadBack(Reversed(s), base) * base + r
      BY <2>4, <3>1, ReadBackStep
    <3> QED BY <2>1, <2>5, <2>9, <3>2
  <2>11. b(n) # << >> /\ b(n)[Len(b(n))] # 0
    <3>1. CASE q = 0
      BY <2>1, <2>6, <2>7, <3>1
    <3>2. CASE q # 0
      <4>1. Len(s) \in Nat \ {0} /\ Len(b(n)) = Len(s) + 1 /\ b(n)[Len(s) + 1] = s[Len(s)]
        BY <2>1, <2>5, <2>7, <3>2
      <4>2. Len(b(n)) # 0
        BY <4>1
      <4> QED BY <2>5, <3>2, <4>1, <4>2
    <3> QED BY <3>1, <3>2
  <2> QED BY <1>3, <2>8, <2>10, <2>11
<1> QED BY <1>5, <1>6

(* A smaller number, in the same base or in a larger one, has no more      *)
(* digits.                                                                 *)
LEMMA FewerDigits ==
    ASSUME NEW base \in {10, 16}, NEW number \in Nat, NEW most \in Nat, number <= most
    PROVE  Len(number_buf(number, base)) <= Len(number_buf(most, 10))
<1> DEFINE Fits(n) == \A m \in 0 .. n : Len(number_buf(m, base)) <= Len(number_buf(n, 10))
           T == {n \in Nat : ~Fits(n)}
<1>1. SUFFICES ASSUME T # {} PROVE FALSE
  <2>1. most \notin T => Fits(most)
    OBVIOUS
  <2>2. Fits(most) => Len(number_buf(number, base)) <= Len(number_buf(most, 10))
    OBVIOUS
  <2> QED BY <2>1, <2>2
<1>2. PICK n \in T : \A j \in T : n <= j
  <2>1. T \in SUBSET Nat
    OBVIOUS
  <2> HIDE DEF T
  <2> QED BY <1>1, <2>1, Smallest
<1>3. PICK m \in 0 .. n : ~(Len(number_buf(m, base)) <= Len(number_buf(n, 10)))
  BY <1>2
<1>4. n \in Nat /\ m \in Nat /\ m <= n /\ 10 \in {10, 16}
  BY <1>2, <1>3
<1>5. /\ number_buf(m, base) \in Seq(0 .. base - 1) /\ number_buf(n, 10) \in Seq(0 .. 9)
      /\ Len(number_buf(m, base)) \in Nat /\ Len(number_buf(n, 10)) \in Nat
  <2>1. number_buf(m, base) \in Seq(0 .. base - 1)
    BY <1>4, DigitsReadBack
  <2>2. number_buf(n, 10) \in Seq(0 .. 10 - 1)
    BY <1>4, DigitsReadBack
  <2> QED BY <2>1, <2>2
<1>6. m # 0
  <2>1. m \in Int
    BY <1>4
  <2>2. number_buf(m, base) =
           IF m = 0 THEN << >> ELSE <<Rem(m, base)>> \o number_buf(Quo(m, base), base)
    BY <2>1, NumberBufStep, Zenon
  <2>3. m = 0 => Len(number_buf(m, base)) = 0
    BY <2>2
  <2> QED BY <1>3, <1>5, <2>3
<1>7. n # 0
  BY <1>4, <1>6
<1> DEFINE mq == Quo(m, base)
           nq == Quo(n, 10)
<1>8. mq \in Nat /\ nq \in Nat /\ mq <= nq /\ nq < n
  <2>1. CASE base = 10
    BY <1>4, <1>7, <2>1 DEF Quo
  <2>2. CASE base = 16
    BY <1>4, <1>7, <2>2 DEF Quo
  <2> QED BY <2>1, <2>2
<1>9. Len(number_buf(mq, base)) <= Len(number_buf(nq, 10))
  <2>1. nq \notin T
    BY <1>2, <1>4, <1>8
  <2>2. Fits(nq)
    BY <1>8, <2>1
  <2> QED BY <1>8, <2>2
<1>10. /\ number_buf(m, base) = <<Rem(m, base)>> \o number_buf(mq, base)
       /\ number_buf(n, 10) = <<Rem(n, 10)>> \o number_buf(nq, 10)
  <2>1. m \in Int /\ n \in Int
    BY <1>4
  <2>2. number_buf(m, base) =
           IF m = 0 THEN << >> ELSE <<Rem(m, base)>> \o number_buf(Quo(m, base), base)
    BY <2>1, NumberBufStep, Zenon
  <2>3. number_buf(n, 10) =
           IF n = 0 THEN << >> ELSE <<Rem(n, 10)>> \o number_buf(Quo(n, 10), 10)
    BY <1>4, <2>1, NumberBufStep, Zenon
  <2> QED BY <1>6, <1>7, <2>2, <2>3, Zenon
<1>11. number_buf(mq, base) \in Seq(Int) /\ number_buf(nq, 10) \in Seq(Int)
  <2>1. number_buf(mq, base) \in Seq(0 .. base - 1)
    BY <1>8, DigitsReadBack
  <2>2. number_buf(nq, 10) \in Seq(0 .. 10 - 1)
    BY <1>4, <1>8, DigitsReadBack
  <2> HIDE DEF mq, nq
  <2>3. number_buf(mq, base) \in Seq(Int)
    BY <2>1
  <2>4. number_buf(nq, 10) \in Seq(Int)
    BY <2>2
  <2> QED BY <2>3, <2>4
<1> HIDE DEF mq, nq
<1>12. /\ Len(number_buf(m, base)) = 1 + Len(number_buf(mq, base))
       /\ Len(number_buf(n, 10)) = 1 + Len(number_buf(nq, 10))
       /\ Len(number_buf(mq, base)) \in Nat /\ Len(number_buf(nq, 10)) \in Nat
  <2>1. Rem(m, base) \in Int /\ Rem(n, 10) \in Int
    BY <1>4 DEF Rem
  <2> QED BY <1>10, <1>11, <2>1
<1> QED BY <1>3, <1>9, <1>12

(* What is printed for a number above zero.                                *)
LEMMA PrintedNumber ==
    ASSUME NEW number \in Nat \ {0}, NEW base \in {10, 16}, number <= 2^Width - 1
    PROVE  LET digits == Reversed(number_buf(number, base))
           IN  /\ digits \in Seq(0 .. base - 1) /\ digits # << >>
               /\ ReadBack(digits, base) = number
               /\ digits[1] # 0
               /\ Len(digits) <= NumberBuf
<1> DEFINE b == number_buf(number, base)
<1>1. number \in Nat /\ number # 0
  OBVIOUS
<1>2. 2^Width - 1 \in Nat
  BY AlgorithmsAssumption, PowersOfTwo
<1>3. /\ b \in Seq(0 .. base - 1) /\ b # << >> /\ b[Len(b)] # 0
      /\ ReadBack(Reversed(b), base) = number
  BY <1>1, DigitsReadBack
<1>4. Len(b) <= NumberBuf
  <2>1. Len(b) <= Len(number_buf(2^Width - 1, 10))
    BY <1>1, <1>2, FewerDigits
  <2>2. number_buf(2^Width - 1, 10) \in Seq(0 .. 10 - 1)
    BY <1>2, DigitsReadBack
  <2>3. Len(number_buf(2^Width - 1, 10)) \in Nat /\ Len(b) \in Nat /\ NumberBuf \in Nat
    BY <1>3, <2>2, AlgorithmsAssumption
  <2> QED BY <2>1, <2>3, NumberBufAssumption
<1> HIDE DEF b
<1>5. Reversed(b) \in Seq(0 .. base - 1) /\ Len(Reversed(b)) = Len(b)
  BY <1>3 DEF Reversed
<1>6. Len(b) \in Nat \ {0} /\ Reversed(b)[1] = b[Len(b)]
  BY <1>3 DEF Reversed
<1>7. Reversed(b) # << >>
  BY <1>5, <1>6
<1> QED BY <1>3, <1>4, <1>5, <1>6, <1>7 DEF b

(* kprintf_print_number: for every width, every number of that width but   *)
(* the most negative one, and both bases, the digits read back as the      *)
(* number, begin with none that is zero, and fit in number_buf.            *)
THEOREM NumbersAreLegible == Spec => []NumbersReadBack
<1>1. Computed => NumbersReadBack
  <2> DEFINE number == job.input[1]
             base   == job.input[2]
             digits == IF number < 0 THEN Tail(out) ELSE out
  <2> SUFFICES ASSUME Computed, Returned("number"), number # MostNegative
               PROVE  /\ number < 0 => out[1] = -1
                      /\ \A k \in DOMAIN digits : digits[k] \in 0 .. base - 1
                      /\ ReadBack(digits, base) = (IF number < 0 THEN -number ELSE number)
                      /\ number # 0 => digits[1] # 0
                      /\ Len(digits) <= NumberBuf
    BY DEF NumbersReadBack
  <2>1. job.input \in Numbers /\ out = kprintf_print_number(number, base)
    BY DEF Computed, Returned
  <2>2. /\ 2^Width \in Nat /\ 2^(Width - 1) \in Nat /\ 2^(Width - 1) < 2^Width
    <3>1. Width - 1 \in Nat /\ (Width - 1) + 1 = Width /\ Width \in Nat
      BY AlgorithmsAssumption
    <3>2. 2^(Width - 1) \in Nat /\ 2^(Width - 1) < 2^((Width - 1) + 1) /\ 2^Width \in Nat
      BY <3>1, PowersOfTwo
    <3> QED BY <3>1, <3>2
  <2>3. number \in -(2^(Width - 1)) .. 2^Width - 1 /\ base \in {10, 16}
    BY <2>1, AlgorithmsAssumption
  <2> HIDE DEF number, base
  <2>4. CASE number = 0
    <3>1. digits = <<0>>
      BY <2>1, <2>4 DEF kprintf_print_number
    <3>2. ReadBack(<<0>>, base) = 0
      <4>1. << >> \in Seq(Int) /\ 0 \in Int /\ base \in Int /\ << >> \o <<0>> = <<0>>
        BY <2>3
      <4>2. ReadBack(<< >>, base) = 0 /\ ReadBack(<< >> \o <<0>>, base) = ReadBack(<< >>, base) * base + 0
        BY <4>1, ReadBackStep
      <4> QED BY <4>1, <4>2
    <3>3. 1 <= NumberBuf
      <4>1. 1 \in Nat \ {0} /\ 1 <= 2^Width - 1
        BY <2>2, <2>3, AlgorithmsAssumption, PowersOfTwo
      <4>2. /\ Reversed(number_buf(1, base)) \in Seq(0 .. base - 1)
            /\ Reversed(number_buf(1, base)) # << >>
            /\ Len(Reversed(number_buf(1, base))) <= NumberBuf
        BY <2>3, <4>1, PrintedNumber
      <4> DEFINE r == Reversed(number_buf(1, base))
      <4>3. r \in Seq(0 .. base - 1) /\ r # << >> /\ Len(r) <= NumberBuf
        BY <4>2
      <4> HIDE DEF r
      <4>4. Len(r) \in Nat \ {0} /\ NumberBuf \in Nat
        BY <4>3, AlgorithmsAssumption
      <4> QED BY <4>3, <4>4
    <3> HIDE DEF digits
    <3>4. \A k \in DOMAIN digits : digits[k] \in 0 .. base - 1
      BY <2>3, <3>1
    <3>5. Len(digits) <= NumberBuf
      BY <3>1, <3>3
    <3> QED BY <2>4, <3>1, <3>2, <3>4, <3>5
  <2>5. ASSUME NEW n \in Nat \ {0}, n = (IF number < 0 THEN -number ELSE number), n <= 2^Width - 1,
               digits = Reversed(number_buf(n, base)), number # 0
        PROVE  /\ \A k \in DOMAIN digits : digits[k] \in 0 .. base - 1
               /\ ReadBack(digits, base) = (IF number < 0 THEN -number ELSE number)
               /\ digits[1] # 0
               /\ Len(digits) <= NumberBuf
    <3> HIDE DEF digits
    <3>1. /\ digits \in Seq(0 .. base - 1)
          /\ ReadBack(digits, base) = n
          /\ digits[1] # 0
          /\ Len(digits) <= NumberBuf
      BY <2>3, <2>5, PrintedNumber
    <3>2. \A k \in DOMAIN digits : digits[k] \in 0 .. base - 1
      <4> DEFINE D == 0 .. base - 1
      <4>1. digits \in Seq(D)
        BY <3>1
      <4> HIDE DEF D
      <4>2. \A k \in DOMAIN digits : digits[k] \in D
        BY <4>1
      <4> QED BY <4>2 DEF D
    <3> QED BY <2>5, <3>1, <3>2
  <2>6. CASE number > 0
    <3>1. digits = Reversed(number_buf(number, base))
      BY <2>1, <2>2, <2>3, <2>6 DEF kprintf_print_number
    <3>2. /\ number \in Nat \ {0} /\ number = (IF number < 0 THEN -number ELSE number)
          /\ number <= 2^Width - 1 /\ number # 0 /\ ~(number < 0)
      BY <2>2, <2>3, <2>6
    <3> HIDE DEF digits
    <3> QED BY <2>5, <3>1, <3>2
  <2>7. CASE number < 0
    <3>1. Negated(number) = -number
      BY DEF Negated, number
    <3>2. out = <<-1>> \o Reversed(number_buf(-number, base))
      BY <2>1, <2>2, <2>3, <2>7, <3>1 DEF kprintf_print_number
    <3>3. /\ -number \in Nat \ {0} /\ -number = (IF number < 0 THEN -number ELSE number)
          /\ -number <= 2^Width - 1 /\ number # 0
      BY <2>2, <2>3, <2>7
    <3> DEFINE r == Reversed(number_buf(-number, base))
    <3>4. r \in Seq(0 .. base - 1)
      BY <2>3, <3>3, PrintedNumber
    <3>5. out = <<-1>> \o r
      BY <3>2
    <3> HIDE DEF r
    <3>6. out[1] = -1 /\ Tail(out) = r
      BY <3>4, <3>5
    <3>7. digits = Reversed(number_buf(-number, base))
      BY <2>7, <3>6 DEF r
    <3> HIDE DEF digits
    <3> QED BY <2>5, <3>3, <3>6, <3>7
  <2>8. number < 0 \/ number = 0 \/ number > 0
    BY <2>2, <2>3
  <2> QED BY <2>4, <2>6, <2>7, <2>8
<1> QED BY <1>1, AlwaysComputed, PTL

-----------------------------------------------------------------------------
(* The loops of libcstubs.cpp go up until they stop: such a function       *)
(* exists, and its value is the one at the next stop.                      *)
IsLoop(h, S, g) == h = [k \in Nat |-> IF k \in S THEN g[k] ELSE h[k + 1]]

LEMMA LoopExists ==
    ASSUME NEW S \in SUBSET Nat, NEW g
    PROVE  \E h : IsLoop(h, S, g)
<1> DEFINE Stop(k) == {m \in S : m >= k}
           First(k) == CHOOSE m \in Stop(k) : \A j \in Stop(k) : m <= j
           h == [k \in Nat |-> IF Stop(k) = {} THEN g ELSE g[First(k)]]
<1>1. ASSUME NEW k \in Nat PROVE h[k] = IF k \in S THEN g[k] ELSE h[k + 1]
  <2>1. h[k] = IF Stop(k) = {} THEN g ELSE g[First(k)]
    OBVIOUS
  <2>2. h[k + 1] = IF Stop(k + 1) = {} THEN g ELSE g[First(k + 1)]
    OBVIOUS
  <2> HIDE DEF h
  <2>3. CASE k \in S
    <3>1. k \in Stop(k) /\ \A j \in Stop(k) : k <= j
      BY <2>3
    <3>2. First(k) \in Stop(k) /\ First(k) <= k
      <4> HIDE DEF Stop
      <4> QED BY <3>1
    <3>3. First(k) = k
      <4> HIDE DEF First
      <4>1. First(k) \in Nat /\ First(k) >= k
        BY <3>2
      <4> QED BY <3>2, <4>1
    <3> QED BY <2>1, <2>3, <3>1, <3>3
  <2>4. CASE k \notin S
    <3>1. \A m \in S : m >= k <=> m >= k + 1
      BY <2>4
    <3>2. Stop(k) = Stop(k + 1)
      BY <3>1, Zenon
    <3> HIDE DEF Stop
    <3> QED BY <2>1, <2>2, <2>4, <3>2
  <2> QED BY <2>3, <2>4
<1>2. h = [k \in Nat |-> h[k]]
  OBVIOUS
<1> HIDE DEF h
<1>3. h = [k \in Nat |-> IF k \in S THEN g[k] ELSE h[k + 1]]
  BY <1>1, <1>2, Zenon
<1> QED BY <1>3 DEF IsLoop

LEMMA LoopStops ==
    ASSUME NEW S \in SUBSET Nat, NEW g, NEW h, IsLoop(h, S, g),
           NEW m \in S, \A j \in 0 .. m - 1 : j \notin S
    PROVE  h[0] = g[m]
<1> DEFINE T == {d \in 0 .. m : h[m - d] # g[m]}
<1>1. \A k \in Nat : h[k] = IF k \in S THEN g[k] ELSE h[k + 1]
  BY Zenon DEF IsLoop
<1>2. SUFFICES ASSUME T # {} PROVE FALSE
  <2>1. m \in 0 .. m /\ m - m = 0
    OBVIOUS
  <2>2. m \notin T => h[m - m] = g[m]
    BY <2>1
  <2> QED BY <2>1, <2>2
<1>3. PICK d \in T : \A e \in T : d <= e
  <2>1. T \in SUBSET Nat
    OBVIOUS
  <2> HIDE DEF T
  <2> QED BY <1>2, <2>1, Smallest
<1>4. CASE d = 0
  <2>1. m \in Nat /\ h[m - d] # g[m]
    OBVIOUS
  <2>2. h[m] = g[m]
    BY <1>1, <2>1
  <2>3. m - d = m
    BY <1>4, <2>1
  <2> QED BY <2>1, <2>2, <2>3
<1>5. CASE d # 0
  <2>1. d - 1 \in 0 .. m /\ d - 1 \notin T /\ m - d \in 0 .. m - 1
    BY <1>3, <1>5
  <2>2. h[m - (d - 1)] = g[m] /\ m - (d - 1) = (m - d) + 1
    BY <2>1
  <2>3. h[m - d] = h[(m - d) + 1]
    BY <1>1, <2>1
  <2> QED BY <1>3, <2>2, <2>3
<1> QED BY <1>4, <1>5

(* strlen finds the 0 that ends a string.                                  *)
LEMMA StrlenFinds ==
    ASSUME NEW mem, NEW m \in Nat, mem[m + 1] = 0, \A j \in 0 .. m - 1 : mem[j + 1] # 0
    PROVE  strlen(mem) = m
<1> DEFINE n == CHOOSE h : h = [k \in Nat |-> IF mem[k + 1] = 0 THEN k ELSE h[k + 1]]
           S == {k \in Nat : mem[k + 1] = 0}
           g == [k \in Nat |-> k]
<1>1. \E h : IsLoop(h, S, g)
  <2>1. S \in SUBSET Nat
    OBVIOUS
  <2> HIDE DEF S, g
  <2> QED BY <2>1, LoopExists
<1>2. \A h : [k \in Nat |-> IF k \in S THEN g[k] ELSE h[k + 1]]
             = [k \in Nat |-> IF mem[k + 1] = 0 THEN k ELSE h[k + 1]]
  OBVIOUS
<1>3. IsLoop(n, S, g)
  <2>1. \E h : h = [k \in Nat |-> IF mem[k + 1] = 0 THEN k ELSE h[k + 1]]
    BY <1>1, <1>2, Zenon DEF IsLoop
  <2>2. n = [k \in Nat |-> IF mem[k + 1] = 0 THEN k ELSE n[k + 1]]
    BY <2>1, Zenon
  <2> HIDE DEF n
  <2> QED BY <1>2, <2>2, Zenon DEF IsLoop
<1>4. strlen(mem) = n[0]
  BY DEF strlen
<1>5. m \in S /\ (\A j \in 0 .. m - 1 : j \notin S) /\ S \in SUBSET Nat /\ g[m] = m
  OBVIOUS
<1> HIDE DEF n, S, g
<1> QED BY <1>3, <1>4, <1>5, LoopStops

(* strnlen stops at a 0 or at the bound.                                   *)
LEMMA StrnlenFinds ==
    ASSUME NEW mem, NEW offset \in Nat, NEW maxlen \in Nat
    PROVE  LET r == strnlen(mem, offset, maxlen)
           IN  /\ r \in 0 .. maxlen
               /\ \A j \in 0 .. r - 1 : mem[offset + j + 1] # 0
               /\ r < maxlen => mem[offset + r + 1] = 0
<1> DEFINE n == CHOOSE h : h = [k \in Nat |-> IF mem[offset + k + 1] = 0 THEN k
                                              ELSE IF k = maxlen THEN maxlen ELSE h[k + 1]]
           S == {k \in Nat : mem[offset + k + 1] = 0 \/ k = maxlen}
           g == [k \in Nat |-> k]
<1>1. \E h : IsLoop(h, S, g)
  <2>1. S \in SUBSET Nat
    OBVIOUS
  <2> HIDE DEF S, g
  <2> QED BY <2>1, LoopExists
<1>2. \A h : [k \in Nat |-> IF k \in S THEN g[k] ELSE h[k + 1]]
             = [k \in Nat |-> IF mem[offset + k + 1] = 0 THEN k
                              ELSE IF k = maxlen THEN maxlen ELSE h[k + 1]]
  OBVIOUS
<1>3. IsLoop(n, S, g)
  <2>1. \E h : h = [k \in Nat |-> IF mem[offset + k + 1] = 0 THEN k
                                  ELSE IF k = maxlen THEN maxlen ELSE h[k + 1]]
    <3>1. PICK h : IsLoop(h, S, g)
      BY <1>1
    <3>2. h = [k \in Nat |-> IF mem[offset + k + 1] = 0 THEN k
                             ELSE IF k = maxlen THEN maxlen ELSE h[k + 1]]
      <4> HIDE DEF S, g
      <4> QED BY <1>2, <3>1, Zenon DEF IsLoop
    <3> QED BY <3>2
  <2>2. n = [k \in Nat |-> IF mem[offset + k + 1] = 0 THEN k
                           ELSE IF k = maxlen THEN maxlen ELSE n[k + 1]]
    BY <2>1, Zenon
  <2> HIDE DEF n
  <2> QED BY <1>2, <2>2, Zenon DEF IsLoop
<1>4. strnlen(mem, offset, maxlen) = n[0]
  BY DEF strnlen
<1>5. PICK m \in S : \A j \in S : m <= j
  <2>1. S \in SUBSET Nat /\ maxlen \in S
    OBVIOUS
  <2> HIDE DEF S
  <2> QED BY <2>1, Smallest
<1>6. /\ m \in 0 .. maxlen /\ g[m] = m /\ \A j \in 0 .. m - 1 : j \notin S
      /\ \A j \in 0 .. m - 1 : mem[offset + j + 1] # 0
      /\ m < maxlen => mem[offset + m + 1] = 0
  <2>1. maxlen \in S /\ m \in Nat
    OBVIOUS
  <2>2. m <= maxlen /\ \A j \in 0 .. m - 1 : j \notin S
    BY <1>5, <2>1
  <2> QED BY <2>1, <2>2
<1>7. n[0] = m
  <2>1. S \in SUBSET Nat
    OBVIOUS
  <2> HIDE DEF n, S, g
  <2> QED BY <1>3, <1>6, <2>1, LoopStops
<1> HIDE DEF n
<1> QED BY <1>4, <1>6, <1>7

(* strncmp of n bytes of which the first string has no 0.                  *)
Comparable(mem, offset, s2, n) ==
    \A j \in 0 .. n - 1 : mem[offset + j + 1] \in Nat \ {0} /\ s2[j + 1] \in Nat
SameBytes(mem, offset, s2, n) == \A j \in 0 .. n - 1 : mem[offset + j + 1] = s2[j + 1]

LEMMA StrncmpDecides ==
    ASSUME NEW mem, NEW offset \in Nat, NEW s2, NEW n \in Nat \ {0}, Comparable(mem, offset, s2, n)
    PROVE  strncmp(mem, offset, s2, n) = 0 <=> SameBytes(mem, offset, s2, n)
<1> DEFINE c1(k) == mem[offset + k + 1]
           c2(k) == s2[k + 1]
           Same(k) == c1(k) # 0 /\ c1(k) = c2(k) /\ n - k > 1
           d == CHOOSE h : h = [k \in Nat |-> IF Same(k) THEN h[k + 1] ELSE c1(k) - c2(k)]
           S == {k \in Nat : ~Same(k)}
           g == [k \in Nat |-> c1(k) - c2(k)]
<1>1. \E h : IsLoop(h, S, g)
  <2>1. S \in SUBSET Nat
    OBVIOUS
  <2> HIDE DEF S, g
  <2> QED BY <2>1, LoopExists
<1>2. \A h : [k \in Nat |-> IF k \in S THEN g[k] ELSE h[k + 1]]
             = [k \in Nat |-> IF Same(k) THEN h[k + 1] ELSE c1(k) - c2(k)]
  <2> HIDE DEF c1, c2, Same
  <2> QED OBVIOUS
<1>3. IsLoop(d, S, g)
  <2> HIDE DEF S, g
  <2>1. \E h : h = [k \in Nat |-> IF Same(k) THEN h[k + 1] ELSE c1(k) - c2(k)]
    <3> HIDE DEF c1, c2, Same
    <3>1. PICK h : IsLoop(h, S, g)
      BY <1>1
    <3>2. h = [k \in Nat |-> IF Same(k) THEN h[k + 1] ELSE c1(k) - c2(k)]
      BY <1>2, <3>1, Zenon DEF IsLoop
    <3> QED BY <3>2
  <2>2. d = [k \in Nat |-> IF Same(k) THEN d[k + 1] ELSE c1(k) - c2(k)]
    BY <2>1, Zenon
  <2> HIDE DEF d, c1, c2, Same
  <2> QED BY <1>2, <2>2, Zenon DEF IsLoop
<1>4. strncmp(mem, offset, s2, n) = d[0]
  BY DEF strncmp
<1>5. PICK m \in S : \A j \in S : m <= j
  <2>1. S \in SUBSET Nat /\ n - 1 \in S
    OBVIOUS
  <2> HIDE DEF S
  <2> QED BY <2>1, Smallest
<1>6. /\ m \in 0 .. n - 1 /\ g[m] = c1(m) - c2(m) /\ \A j \in 0 .. m - 1 : j \notin S
  <2>1. n - 1 \in S /\ m \in Nat
    OBVIOUS
  <2>2. m <= n - 1 /\ \A j \in 0 .. m - 1 : j \notin S
    BY <1>5, <2>1
  <2> QED BY <2>1, <2>2
<1>7. d[0] = c1(m) - c2(m)
  <2>1. S \in SUBSET Nat
    OBVIOUS
  <2> HIDE DEF d, S, g, c1, c2
  <2>2. \A j \in 0 .. m - 1 : j \notin S
    BY <1>6
  <2>3. d[0] = g[m]
    BY <1>3, <2>1, <2>2, LoopStops
  <2> QED BY <1>6, <2>3
<1>8. \A j \in 0 .. n - 1 : c1(j) \in Nat \ {0} /\ c2(j) \in Nat
  BY DEF Comparable
<1>9. ~Same(m) /\ \A j \in 0 .. m - 1 : Same(j)
  BY <1>6
<1> HIDE DEF d, S, g, c1, c2
<1>10. d[0] = 0 <=> c1(m) = c2(m)
  BY <1>6, <1>7, <1>8
<1>11. c1(m) = c2(m) => m = n - 1
  BY <1>6, <1>8, <1>9
<1>12. \A j \in 0 .. m - 1 : c1(j) = c2(j)
  BY <1>9
<1>13. d[0] = 0 <=> \A j \in 0 .. n - 1 : c1(j) = c2(j)
  BY <1>6, <1>10, <1>11, <1>12
<1> QED BY <1>4, <1>13 DEF c1, c2, SameBytes

(* compatible_list_contains goes on behind the string it has looked at, so *)
(* its offset grows until it reaches the end.                              *)
Later(len) == {ss \in Nat \X Nat : ss[2] < ss[1] /\ ss[2] < len}

LEMMA LaterIsWellFounded ==
    ASSUME NEW len \in Nat
    PROVE  IsWellFoundedOn(Later(len), Nat)
<1> SUFFICES ASSUME NEW T \in SUBSET Nat, T # {}
             PROVE  \E x \in T : \A y \in T : <<y, x>> \notin Later(len)
  BY MinWF
<1>1. CASE \E x \in T : x >= len
  BY <1>1 DEF Later
<1>2. CASE \A x \in T : x < len
  <2> DEFINE D == {d \in Nat : \E x \in T : d = len - x}
  <2>1. D \in SUBSET Nat /\ D # {} /\ \A x \in T : len - x \in D
    <3>1. \A x \in T : len - x \in Nat
      BY <1>2
    <3>2. \A x \in T : len - x \in D
      BY <3>1, Zenon
    <3> QED BY <3>2
  <2>2. PICK d \in D : \A e \in D : d <= e
    <3> HIDE DEF D
    <3> QED BY <2>1, Smallest
  <2>3. PICK x \in T : d = len - x
    BY <2>2
  <2>4. ASSUME NEW y \in T PROVE <<y, x>> \notin Later(len)
    <3>1. len - x <= len - y
      BY <2>1, <2>2, <2>3
    <3> QED BY <3>1 DEF Later
  <2> QED BY <2>4
<1> QED BY <1>1, <1>2

(* One round of the search.                                                *)
Behind(mem, len, offset) ==
    LET end == offset + strnlen(mem, offset, len - offset)
    IN  IF end < len /\ mem[end + 1] = 0 THEN end + 1 ELSE end

LEMMA BehindIsLater ==
    ASSUME NEW mem, NEW len \in Nat, NEW offset \in Nat, offset < len
    PROVE  Behind(mem, len, offset) \in Nat /\ Behind(mem, len, offset) > offset
<1> DEFINE r == strnlen(mem, offset, len - offset)
<1>1. len - offset \in Nat
  OBVIOUS
<1>2. /\ r \in 0 .. len - offset
      /\ r < len - offset => mem[offset + r + 1] = 0
  BY <1>1, StrnlenFinds
<1>3. Behind(mem, len, offset) = IF offset + r < len /\ mem[offset + r + 1] = 0
                                 THEN offset + r + 1 ELSE offset + r
  BY DEF Behind
<1> HIDE DEF r
<1> QED BY <1>1, <1>2, <1>3

Found(mem, len, needle, offset) ==
    LET slen == strnlen(mem, offset, len - offset)
    IN  SameLength(needle, slen) /\ strncmp(mem, offset, needle, slen) = 0

Searches(from, mem, len, needle) ==
    \A offset \in Nat : from[offset] = IF offset >= len THEN FALSE
                                      ELSE IF Found(mem, len, needle, offset) THEN TRUE
                                      ELSE from[Behind(mem, len, offset)]

LEMMA SearchStep ==
    ASSUME NEW mem, NEW len \in Nat, NEW needle
    PROVE  \E from : /\ compatible_list_contains(mem, len, needle) = from[0]
                     /\ Searches(from, mem, len, needle)
<1> DEFINE Def(f, offset) ==
              IF offset >= len THEN FALSE
              ELSE LET slen == strnlen(mem, offset, len - offset)
                       end  == offset + slen
                   IN  IF SameLength(needle, slen) /\ strncmp(mem, offset, needle, slen) = 0 THEN TRUE
                       ELSE f[IF end < len /\ mem[end + 1] = 0 THEN end + 1 ELSE end]
           from == CHOOSE f : f = [offset \in Nat |-> Def(f, offset)]
<1>1. ASSUME NEW f, NEW offset \in Nat
      PROVE  Def(f, offset) = IF offset >= len THEN FALSE
                              ELSE IF Found(mem, len, needle, offset) THEN TRUE
                              ELSE f[Behind(mem, len, offset)]
  BY Zenon DEF Found, Behind
<1>2. WFDefOn(Later(len), Nat, Def)
  <2> SUFFICES ASSUME NEW g, NEW h, NEW x \in Nat,
                      \A y \in SetLessThan(x, Later(len), Nat) : g[y] = h[y]
               PROVE  Def(g, x) = Def(h, x)
    BY DEF WFDefOn
  <2> HIDE DEF Def
  <2>1. CASE x >= len
    BY <1>1, <2>1
  <2>2. CASE ~(x >= len)
    <3>1. Behind(mem, len, x) \in SetLessThan(x, Later(len), Nat)
      BY <2>2, BehindIsLater DEF SetLessThan, Later
    <3>2. g[Behind(mem, len, x)] = h[Behind(mem, len, x)]
      BY <3>1
    <3> QED BY <1>1, <2>2, <3>2
  <2> QED BY <2>1, <2>2
<1>3. OpDefinesFcn(from, Nat, Def)
  <2> HIDE DEF Def
  <2> QED BY DEF OpDefinesFcn
<1>4. compatible_list_contains(mem, len, needle) = from[0]
  BY DEF compatible_list_contains
<1>5. WFInductiveDefines(from, Nat, Def)
  <2> HIDE DEF Def, from
  <2> QED BY <1>2, <1>3, LaterIsWellFounded, WFInductiveDef
<1> HIDE DEF from
<1>6. from = [offset \in Nat |-> Def(from, offset)]
  <2> HIDE DEF Def
  <2> QED BY <1>5 DEF WFInductiveDefines
<1>7. \A offset \in Nat : from[offset] = Def(from, offset)
  <2> HIDE DEF Def
  <2> QED BY <1>6, Zenon
<1> HIDE DEF Def
<1>8. \A offset \in Nat : from[offset] = IF offset >= len THEN FALSE
                                         ELSE IF Found(mem, len, needle, offset) THEN TRUE
                                         ELSE from[Behind(mem, len, offset)]
  BY <1>1, <1>7, Zenon
<1> QED BY <1>4, <1>8, Zenon DEF Searches

(* It stands at the offset just when strnlen and strncmp find it there.    *)
LEMMA FoundIffStands ==
    ASSUME NEW value \in Seq(Nat), NEW next \in Nat,
           NEW needle \in Seq(Nat \ {0}), needle # << >>,
           NEW offset \in Nat, offset < Len(value), offset > 0 => value[offset] = 0
    PROVE  Found(value \o <<next>>, Len(value), needle \o <<0>>, offset)
              <=> StandsAt(value, needle, offset + 1)
<1> DEFINE mem == value \o <<next>>
           len == Len(value)
           s2  == needle \o <<0>>
           L   == Len(needle)
           r   == strnlen(mem, offset, len - offset)
<1>1. /\ len \in Nat /\ L \in Nat \ {0} /\ len - offset \in Nat
      /\ \A k \in 1 .. len : mem[k] = value[k] /\ value[k] \in Nat
      /\ \A k \in 1 .. L : s2[k] = needle[k] /\ needle[k] \in Nat \ {0}
      /\ s2[L + 1] = 0
  OBVIOUS
<1>2. /\ r \in 0 .. len - offset
      /\ \A j \in 0 .. r - 1 : mem[offset + j + 1] # 0
      /\ r < len - offset => mem[offset + r + 1] = 0
  <2>1. len - offset \in Nat
    BY <1>1
  <2> HIDE DEF mem, len
  <2> QED BY <2>1, StrnlenFinds, Zenon
<1>3. strlen(s2) = L
  <2>1. L \in Nat /\ s2[L + 1] = 0 /\ \A j \in 0 .. L - 1 : s2[j + 1] # 0
    BY <1>1
  <2> HIDE DEF s2, L
  <2> QED BY <2>1, StrlenFinds
<1>4. Found(mem, len, s2, offset) <=> r = L /\ strncmp(mem, offset, s2, r) = 0
  BY <1>3, Zenon DEF Found, SameLength
<1> DEFINE Equal == \A j \in 0 .. L - 1 : value[offset + j + 1] = needle[j + 1]
<1>5. offset + L <= len => (SubSeq(value, offset + 1, offset + L) = needle <=> Equal)
  <2> SUFFICES ASSUME offset + L <= len
               PROVE  SubSeq(value, offset + 1, offset + L) = needle <=> Equal
    OBVIOUS
  <2> DEFINE sub == SubSeq(value, offset + 1, offset + L)
  <2>1. /\ sub \in Seq(Nat) /\ Len(sub) = L
        /\ \A k \in 1 .. L : sub[k] = value[offset + k]
    BY <1>1
  <2> HIDE DEF sub
  <2>2. sub = needle => Equal
    BY <1>1, <2>1
  <2>3. Equal => \A k \in 1 .. L : sub[k] = needle[k]
    <3> SUFFICES ASSUME Equal, NEW k \in 1 .. L PROVE sub[k] = needle[k]
      OBVIOUS
    <3>1. k - 1 \in 0 .. L - 1 /\ offset + (k - 1) + 1 = offset + k /\ (k - 1) + 1 = k
      BY <1>1
    <3>2. value[offset + (k - 1) + 1] = needle[(k - 1) + 1]
      BY <3>1
    <3> QED BY <2>1, <3>1, <3>2
  <2>4. Equal => sub = needle
    <3>1. needle \in Seq(Nat) /\ Len(needle) = L
      OBVIOUS
    <3> HIDE DEF Equal, L
    <3> QED BY <2>1, <2>3, <3>1
  <2> QED BY <2>2, <2>4 DEF sub
<1>6. StandsAt(value, needle, offset + 1) <=>
         /\ offset + L <= len /\ Equal
         /\ offset + L < len => value[offset + L + 1] = 0
  <2>1. /\ offset + 1 + L - 1 = offset + L /\ offset + 1 - 1 = offset
        /\ offset + 1 + L = offset + L + 1
        /\ offset + 1 > 1 <=> offset > 0
        /\ offset + L + 1 <= len <=> offset + L < len
    BY <1>1
  <2>2. StandsAt(value, needle, offset + 1) <=>
           /\ offset + 1 > 1 => value[offset + 1 - 1] = 0
           /\ offset + 1 + L - 1 <= len
           /\ SubSeq(value, offset + 1, offset + 1 + L - 1) = needle
           /\ offset + 1 + L <= len => value[offset + 1 + L] = 0
    BY DEF StandsAt
  <2> HIDE DEF Equal, L, len
  <2> QED BY <1>5, <2>1, <2>2
<1> HIDE DEF mem, len, s2, L, r
<1>7. ASSUME r = L PROVE strncmp(mem, offset, s2, r) = 0 <=> Equal
  <2>1. \A j \in 0 .. r - 1 : /\ mem[offset + j + 1] \in Nat \ {0}
                              /\ s2[j + 1] \in Nat
                              /\ mem[offset + j + 1] = value[offset + j + 1]
                              /\ s2[j + 1] = needle[j + 1]
    <3> TAKE j \in 0 .. r - 1
    <3>1. j + 1 \in 1 .. L /\ offset + j + 1 \in 1 .. len
      BY <1>1, <1>2, <1>7
    <3>2. mem[offset + j + 1] # 0
      BY <1>2
    <3> QED BY <1>1, <3>1, <3>2
  <2>2. r \in Nat \ {0}
    BY <1>1, <1>7
  <2>3. strncmp(mem, offset, s2, r) = 0 <=> \A j \in 0 .. r - 1 : mem[offset + j + 1] = s2[j + 1]
    <3>1. Comparable(mem, offset, s2, r)
      BY <2>1 DEF Comparable
    <3>2. strncmp(mem, offset, s2, r) = 0 <=> SameBytes(mem, offset, s2, r)
      BY <2>2, <3>1, StrncmpDecides
    <3> QED BY <3>2 DEF SameBytes
  <2>4. (\A j \in 0 .. r - 1 : mem[offset + j + 1] = s2[j + 1]) <=> Equal
    BY <1>7, <2>1
  <2> QED BY <2>3, <2>4
<1>8. ASSUME r = L, Equal
      PROVE  offset + L <= len /\ (offset + L < len => value[offset + L + 1] = 0)
  BY <1>1, <1>2, <1>8
<1>9. ASSUME offset + L <= len, Equal, offset + L < len => value[offset + L + 1] = 0
      PROVE  r = L
  <2>1. ~(r < L)
    <3> SUFFICES ASSUME r < L PROVE FALSE
      OBVIOUS
    <3>1. /\ r \in 0 .. L - 1 /\ r < len - offset /\ offset + r + 1 \in 1 .. len
          /\ r + 1 \in 1 .. L
      BY <1>1, <1>2, <1>9
    <3>2. mem[offset + r + 1] = value[offset + r + 1]
      BY <1>1, <3>1
    <3>3. value[offset + r + 1] = needle[r + 1]
      BY <1>9, <3>1
    <3>4. needle[r + 1] # 0 /\ mem[offset + r + 1] = 0
      BY <1>1, <1>2, <3>1
    <3> QED BY <3>2, <3>3, <3>4
  <2>2. ~(L < r)
    <3> SUFFICES ASSUME L < r PROVE FALSE
      OBVIOUS
    <3>1. L \in 0 .. r - 1 /\ offset + L < len /\ offset + L + 1 \in 1 .. len
      BY <1>1, <1>2
    <3>2. mem[offset + L + 1] # 0
      BY <1>2, <3>1
    <3> QED BY <1>1, <1>9, <3>1, <3>2
  <2> QED BY <1>1, <1>2, <2>1, <2>2
<1>10. r = L /\ strncmp(mem, offset, s2, r) = 0 <=> StandsAt(value, needle, offset + 1)
  <2> HIDE DEF Equal
  <2> QED BY <1>6, <1>7, <1>8, <1>9
<1> QED BY <1>4, <1>10 DEF mem, len, s2

(* The search goes on behind the string at the offset and its zero, and no *)
(* string begins in between.                                               *)
LEMMA NoneInBetween ==
    ASSUME NEW value \in Seq(Nat), NEW next \in Nat, NEW offset \in Nat, offset < Len(value),
           NEW e, e = Behind(value \o <<next>>, Len(value), offset)
    PROVE  /\ e \in Nat /\ offset < e /\ e <= Len(value)
           /\ e < Len(value) => value[e] = 0
           /\ \A b \in offset + 2 .. e : value[b - 1] # 0
<1> DEFINE mem == value \o <<next>>
           len == Len(value)
           r   == strnlen(mem, offset, len - offset)
<1>1. /\ len \in Nat /\ len - offset \in Nat
      /\ \A k \in 1 .. len : mem[k] = value[k]
  OBVIOUS
<1>2. /\ r \in 0 .. len - offset
      /\ \A j \in 0 .. r - 1 : mem[offset + j + 1] # 0
      /\ r < len - offset => mem[offset + r + 1] = 0
  <2>1. len - offset \in Nat
    BY <1>1
  <2> HIDE DEF mem, len
  <2> QED BY <2>1, StrnlenFinds, Zenon
<1>3. e = IF offset + r < len /\ mem[offset + r + 1] = 0 THEN offset + r + 1 ELSE offset + r
  BY DEF Behind
<1> HIDE DEF mem, r
<1>4. e = IF offset + r < len THEN offset + r + 1 ELSE len
  BY <1>1, <1>2, <1>3
<1>5. e \in Nat /\ offset < e /\ e <= len
  BY <1>1, <1>2, <1>4
<1>6. ASSUME e < len PROVE value[e] = 0
  <2>1. e = offset + r + 1 /\ r < len - offset /\ e \in 1 .. len
    BY <1>1, <1>2, <1>4, <1>6
  <2> QED BY <1>1, <1>2, <2>1
<1>7. ASSUME NEW b \in offset + 2 .. e PROVE value[b - 1] # 0
  <2> DEFINE j == b - 2 - offset
  <2>1. j \in 0 .. r - 1 /\ offset + j + 1 = b - 1 /\ b - 1 \in 1 .. len
    BY <1>1, <1>2, <1>4
  <2> HIDE DEF j
  <2> QED BY <1>1, <1>2, <2>1
<1> QED BY <1>5, <1>6, <1>7

(* Where the search stands, what is left of it returns whether the needle  *)
(* stands behind.  By induction on the bytes that are left.                *)
LEMMA SearchFinds ==
    ASSUME NEW value \in Seq(Nat), NEW next \in Nat,
           NEW needle \in Seq(Nat \ {0}), needle # << >>
    PROVE  compatible_list_contains(value \o <<next>>, Len(value), needle \o <<0>>)
              = \E b \in 1 .. Len(value) : StandsAt(value, needle, b)
<1> DEFINE mem == value \o <<next>>
           len == Len(value)
           s2  == needle \o <<0>>
           Starts(o) == o > 0 /\ o < len => value[o] = 0
           Some(o)   == \E b \in o + 1 .. len : StandsAt(value, needle, b)
           Next1(o)  == Behind(mem, len, o)
<1>1. len \in Nat
  OBVIOUS
<1>2. PICK from : compatible_list_contains(mem, len, s2) = from[0] /\ Searches(from, mem, len, s2)
  <2> HIDE DEF mem, len, s2
  <2> QED BY <1>1, SearchStep, Zenon
<1> DEFINE Right(o) == (Some(o) => from[o] = TRUE) /\ (~Some(o) => from[o] = FALSE)
<1>3. ASSUME NEW o \in Nat, o >= len PROVE Right(o)
  <2>1. ~Some(o)
    BY <1>1, <1>3
  <2>2. from[o] = FALSE
    BY <1>2, <1>3 DEF Searches
  <2> HIDE DEF Some
  <2> QED BY <2>1, <2>2
<1>4. ASSUME NEW o \in Nat, o < len, Starts(o), Found(mem, len, s2, o) PROVE Right(o)
  <2>1. from[o] = TRUE
    <3>1. ~(o >= len)
      BY <1>1, <1>4
    <3> HIDE DEF mem, len, s2
    <3> QED BY <1>2, <1>4, <3>1, Zenon DEF Searches
  <2>2. StandsAt(value, needle, o + 1)
    BY <1>4, FoundIffStands DEF mem, len, s2
  <2>3. Some(o)
    BY <1>1, <1>4, <2>2
  <2> HIDE DEF Some
  <2> QED BY <2>1, <2>3
<1>5. ASSUME NEW o \in Nat, o < len, Starts(o), ~Found(mem, len, s2, o), Right(Next1(o))
      PROVE  Right(o)
  <2>1. from[o] = from[Next1(o)]
    <3>1. ~(o >= len)
      BY <1>1, <1>5
    <3> HIDE DEF mem, len, s2
    <3> QED BY <1>2, <1>5, <3>1, Zenon DEF Searches
  <2>2. ~StandsAt(value, needle, o + 1)
    BY <1>5, FoundIffStands DEF mem, len, s2
  <2>3. PICK e : e = Next1(o)
    OBVIOUS
  <2>4. /\ e \in Nat /\ o < e /\ e <= len
        /\ \A b \in o + 2 .. e : value[b - 1] # 0
    BY <1>5, <2>3, NoneInBetween
  <2>5. \A b \in o + 2 .. e : ~StandsAt(value, needle, b)
    BY <2>4 DEF StandsAt
  <2>6. Some(o) <=> Some(e)
    <3> HIDE DEF len
    <3> QED BY <1>1, <2>2, <2>4, <2>5
  <2> HIDE DEF Some
  <2> QED BY <1>5, <2>1, <2>3, <2>6
<1>6. ASSUME NEW o \in Nat, o < len
      PROVE  Next1(o) \in Nat /\ o < Next1(o) /\ Next1(o) <= len /\ Starts(Next1(o))
  <2>1. PICK e : e = Next1(o)
    OBVIOUS
  <2>2. e \in Nat /\ o < e /\ e <= len /\ (e < len => value[e] = 0)
    BY <1>6, <2>1, NoneInBetween
  <2> HIDE DEF Next1
  <2> QED BY <2>1, <2>2
<1>7. \A o \in 0 .. len : Starts(o) => Right(o)
  <2> HIDE DEF len, Starts, Right, Next1
  <2> SUFFICES ASSUME NEW w \in 0 .. len, Starts(w), ~Right(w) PROVE FALSE
    OBVIOUS
  <2> DEFINE T == {d \in 0 .. len : Starts(len - d) /\ ~Right(len - d)}
  <2>1. len - w \in T /\ T \in SUBSET Nat
    <3>1. len - w \in 0 .. len /\ len - (len - w) = w
      BY <1>1
    <3>2. Starts(len - (len - w)) /\ ~Right(len - (len - w))
      BY <3>1
    <3> QED BY <1>1, <3>1, <3>2
  <2>2. PICK d \in T : \A k \in T : d <= k
    <3> HIDE DEF T
    <3> QED BY <2>1, Smallest
  <2> DEFINE o == len - d
  <2>3. d \in 0 .. len /\ o \in Nat /\ Starts(o) /\ ~Right(o)
    BY <1>1, <2>2
  <2>4. o < len
    BY <1>1, <1>3, <2>3
  <2>5. Next1(o) \in Nat /\ o < Next1(o) /\ Next1(o) <= len /\ Starts(Next1(o))
    <3> HIDE DEF o
    <3> QED BY <1>6, <2>3, <2>4
  <2>6. Right(Next1(o))
    <3> DEFINE k == len - Next1(o)
    <3>1. k \in 0 .. len /\ len - k = Next1(o) /\ k < d
      BY <1>1, <2>3, <2>5
    <3>2. k \notin T
      <4> HIDE DEF k, T
      <4> QED BY <1>1, <2>1, <2>2, <2>3, <3>1
    <3>3. Starts(len - k)
      BY <2>5, <3>1
    <3>4. Right(len - k)
      <4> HIDE DEF k
      <4> QED BY <3>1, <3>2, <3>3
    <3> QED BY <3>1, <3>4
  <2>7. Right(o)
    <3> HIDE DEF o
    <3> QED BY <1>4, <1>5, <2>3, <2>4, <2>6
  <2> QED BY <2>3, <2>7
<1>8. Right(0)
  <2>1. 0 \in 0 .. len /\ Starts(0)
    BY <1>1
  <2> HIDE DEF Starts, Right
  <2> QED BY <1>7, <2>1
<1>9. Some(0) <=> \E b \in 1 .. len : StandsAt(value, needle, b)
  BY <1>1
<1>10. (\E b \in 1 .. len : StandsAt(value, needle, b)) \in BOOLEAN
  OBVIOUS
<1>11. from[0] = \E b \in 1 .. len : StandsAt(value, needle, b)
  <2> HIDE DEF Some, len
  <2> QED BY <1>8, <1>9, Zenon
<1> QED BY <1>2, <1>11, Zenon DEF mem, len, s2

(* compatible_list_contains: for every list of bytes, whatever byte        *)
(* follows it and whatever non-empty string is looked for, it returns      *)
(* whether one of the strings of the list equals that string.              *)
THEOREM CompatibleListsAreSearched == Spec => []ListsAreSearched
<1>1. Computed => ListsAreSearched
  <2> DEFINE value  == job.input[1]
             next   == job.input[2]
             needle == job.input[3]
  <2> SUFFICES ASSUME Computed, Returned("list")
               PROVE  out[1] = \E b \in DOMAIN value : StandsAt(value, needle, b)
    BY Zenon DEF ListsAreSearched
  <2>1. /\ job.input \in Lists
        /\ out = <<compatible_list_contains(value \o <<next>>, Len(value), needle \o <<0>>)>>
    BY DEF Computed, Returned
  <2>2. /\ value \in Seq(Nat) /\ next \in Nat
        /\ needle \in Seq(Nat \ {0}) /\ needle # << >>
    BY <2>1, AlgorithmsAssumption
  <2>3. DOMAIN value = 1 .. Len(value)
    BY <2>2
  <2> HIDE DEF value, next, needle
  <2>4. out[1] = compatible_list_contains(value \o <<next>>, Len(value), needle \o <<0>>)
    BY <2>1
  <2> QED BY <2>2, <2>3, <2>4, SearchFinds, Zenon
<1> QED
  BY <1>1, AlwaysComputed, PTL

-----------------------------------------------------------------------------
(* vkprintf.  The k characters before p are '%', and no more.              *)
Run(format, p, k) ==
    /\ k \in 0 .. p - 1
    /\ \A j \in p - k .. p - 1 : format[j] = "%"
    /\ p - k > 1 => format[p - k - 1] # "%"

LEMMA RunExists ==
    ASSUME NEW format, NEW p \in Nat \ {0}
    PROVE  \E k \in Nat : Run(format, p, k)
<1> DEFINE T == {k \in 0 .. p - 1 : p - k > 1 => format[p - k - 1] # "%"}
<1>1. p - 1 \in T /\ T \in SUBSET Nat
  OBVIOUS
<1>2. PICK k \in T : \A m \in T : k <= m
  <2> HIDE DEF T
  <2> QED BY <1>1, Smallest
<1>3. ASSUME NEW j \in p - k .. p - 1 PROVE format[j] = "%"
  <2> DEFINE m == p - j - 1
  <2>1. k \in 0 .. p - 1
    BY <1>2
  <2>2. m \in 0 .. p - 1 /\ m < k /\ p - m - 1 = j
    BY <2>1
  <2>3. m \notin T
    <3> HIDE DEF m, T
    <3> QED BY <1>1, <1>2, <2>1, <2>2
  <2> HIDE DEF m
  <2> QED BY <2>2, <2>3
<1> QED BY <1>2, <1>3 DEF Run

LEMMA RunIsUnique ==
    ASSUME NEW format, NEW p \in Nat \ {0}, NEW k \in Nat, NEW m \in Nat,
           Run(format, p, k), Run(format, p, m)
    PROVE  ~(k < m)
<1> SUFFICES ASSUME k < m PROVE FALSE
  OBVIOUS
<1>1. p - k > 1 /\ p - k - 1 \in p - m .. p - 1
  BY DEF Run
<1> QED BY <1>1 DEF Run

LEMMA RunGoesOn ==
    ASSUME NEW format, NEW p \in Nat \ {0, 1}, NEW k \in Nat, Run(format, p - 1, k)
    PROVE  IF format[p - 1] = "%" THEN Run(format, p, k + 1) ELSE Run(format, p, 0)
<1>1. k \in 0 .. p - 2
  BY DEF Run
<1>2. CASE format[p - 1] = "%"
  <2>1. \A j \in p - (k + 1) .. p - 1 : format[j] = "%"
    <3> TAKE j \in p - (k + 1) .. p - 1
    <3>1. j = p - 1 \/ j \in (p - 1) - k .. (p - 1) - 1
      BY <1>1
    <3> QED BY <1>2, <3>1 DEF Run
  <2>2. p - (k + 1) = (p - 1) - k /\ p - (k + 1) - 1 = (p - 1) - k - 1 /\ k + 1 \in 0 .. p - 1
    BY <1>1
  <2>3. p - (k + 1) > 1 => format[p - (k + 1) - 1] # "%"
    BY <2>2 DEF Run
  <2>4. Run(format, p, k + 1)
    BY <2>1, <2>2, <2>3 DEF Run
  <2> QED BY <1>2, <2>4
<1>3. CASE format[p - 1] # "%"
  <2>1. p - 0 = p /\ p - 0 - 1 = p - 1 /\ 0 \in 0 .. p - 1
    OBVIOUS
  <2>2. \A j \in p - 0 .. p - 1 : FALSE
    OBVIOUS
  <2>3. Run(format, p, 0)
    BY <1>3, <2>1, <2>2 DEF Run
  <2> QED BY <1>3, <2>3
<1> QED BY <1>2, <1>3

(* A '%' begins a specifier unless the one right before it does.           *)
LEMMA BeginsStep ==
    ASSUME NEW format, NEW p \in Nat \ {0}
    PROVE  Begins(format, p) <=> format[p] = "%" /\ (p > 1 => ~Begins(format, p - 1))
<1>1. ASSUME NEW o \in Nat \ {0}
      PROVE  Begins(format, o) <=> format[o] = "%" /\ \E k \in Nat : Run(format, o, k) /\ k % 2 = 0
  BY DEF Begins, Run
<1>2. PICK m \in Nat : Run(format, p, m)
  BY RunExists
<1>3. (\E k \in Nat : Run(format, p, k) /\ k % 2 = 0) <=> m % 2 = 0
  <2>1. ASSUME NEW k \in Nat, Run(format, p, k) PROVE k = m
    <3>1. ~(k < m) /\ ~(m < k)
      BY <1>2, <2>1, RunIsUnique
    <3> QED BY <3>1
  <2> QED BY <1>2, <2>1
<1>4. Begins(format, p) <=> format[p] = "%" /\ m % 2 = 0
  BY <1>1, <1>3
<1>5. CASE p = 1
  <2>1. m = 0
    BY <1>2, <1>5 DEF Run
  <2> QED BY <1>4, <1>5, <2>1
<1>6. CASE p # 1
  <2>1. p - 1 \in Nat \ {0} /\ p \in Nat \ {0, 1} /\ p > 1
    BY <1>6
  <2>2. PICK n \in Nat : Run(format, p - 1, n)
    BY <2>1, RunExists
  <2>3. (\E k \in Nat : Run(format, p - 1, k) /\ k % 2 = 0) <=> n % 2 = 0
    <3>1. ASSUME NEW k \in Nat, Run(format, p - 1, k) PROVE k = n
      <4>1. ~(k < n) /\ ~(n < k)
        BY <2>1, <2>2, <3>1, RunIsUnique
      <4> QED BY <4>1
    <3> QED BY <2>2, <3>1
  <2>4. Begins(format, p - 1) <=> format[p - 1] = "%" /\ n % 2 = 0
    BY <1>1, <2>1, <2>3
  <2>5. IF format[p - 1] = "%" THEN Run(format, p, n + 1) ELSE Run(format, p, 0)
    BY <2>1, <2>2, RunGoesOn
  <2>6. m = IF format[p - 1] = "%" THEN n + 1 ELSE 0
    <3>1. ASSUME NEW k \in Nat, Run(format, p, k) PROVE m = k
      <4>1. ~(k < m) /\ ~(m < k)
        BY <1>2, <3>1, RunIsUnique
      <4> QED BY <4>1
    <3> QED BY <2>5, <3>1
  <2>7. m % 2 = 0 <=> ~(format[p - 1] = "%" /\ n % 2 = 0)
    BY <2>6
  <2> QED BY <1>4, <2>1, <2>4, <2>7
<1> QED BY <1>5, <1>6

(* How many of the places P lie in lo .. hi.                               *)
CountIn(P, lo, hi) == Cardinality({j \in P : lo <= j /\ j <= hi})

LEMMA Counting ==
    ASSUME NEW L \in Nat, NEW P \in SUBSET (1 .. L), NEW lo \in Int, NEW hi \in Int
    PROVE  /\ CountIn(P, lo, hi) \in Nat
           /\ hi < lo => CountIn(P, lo, hi) = 0
           /\ lo <= hi => CountIn(P, lo, hi) = CountIn(P, lo + 1, hi) + (IF lo \in P THEN 1 ELSE 0)
           /\ lo <= hi => CountIn(P, lo, hi) = CountIn(P, lo, hi - 1) + (IF hi \in P THEN 1 ELSE 0)
           /\ hi <= L => CountIn(P, lo, hi) <= CountIn(P, lo, L)
<1> DEFINE In(a, b) == {j \in P : a <= j /\ j <= b}
<1>1. \A a, b : IsFiniteSet(In(a, b)) /\ Cardinality(In(a, b)) \in Nat
  <2>1. IsFiniteSet(1 .. L)
    BY FS_Interval
  <2>2. \A a, b : In(a, b) \subseteq 1 .. L
    OBVIOUS
  <2> HIDE DEF In
  <2> QED BY <2>1, <2>2, FS_Subset, FS_CardinalityType
<1>2. /\ \A a \in Int, b \in Int : \A j \in Int : j \in In(a, b) <=> j \in P /\ a <= j /\ j <= b
      /\ \A j \in P : j \in Int
      /\ \A a, b, j : j \in In(a, b) => j \in Int
  <2>1. \A j \in P : j \in Int
    OBVIOUS
  <2> QED BY <2>1, Zenon
<1> HIDE DEF In
<1>3. /\ hi < lo => In(lo, hi) = {}
      /\ hi <= L => In(lo, hi) \subseteq In(lo, L)
  <2>1. L \in Int
    OBVIOUS
  <2> QED BY <1>2, <2>1
<1>4. ASSUME lo <= hi
      PROVE  In(lo, hi) = IF lo \in P THEN In(lo + 1, hi) \cup {lo} ELSE In(lo + 1, hi)
  <2>1. ASSUME NEW j PROVE j \in In(lo, hi) <=> (j \in In(lo + 1, hi) \/ (j = lo /\ lo \in P))
    <3>1. lo + 1 \in Int /\ (j \in In(lo, hi) \/ j \in In(lo + 1, hi) \/ j = lo => j \in Int)
      BY <1>2
    <3> QED BY <1>2, <1>4, <3>1
  <2> QED BY <2>1
<1>5. ASSUME lo <= hi
      PROVE  In(lo, hi) = IF hi \in P THEN In(lo, hi - 1) \cup {hi} ELSE In(lo, hi - 1)
  <2>1. ASSUME NEW j PROVE j \in In(lo, hi) <=> (j \in In(lo, hi - 1) \/ (j = hi /\ hi \in P))
    <3>1. hi - 1 \in Int /\ (j \in In(lo, hi) \/ j \in In(lo, hi - 1) \/ j = hi => j \in Int)
      BY <1>2
    <3> QED BY <1>2, <1>5, <3>1
  <2> QED BY <2>1
<1>6. lo \notin In(lo + 1, hi) /\ hi \notin In(lo, hi - 1)
  BY <1>2
<1>7. hi < lo => Cardinality(In(lo, hi)) = 0
  BY <1>3, FS_EmptySet
<1>8. lo <= hi => Cardinality(In(lo, hi)) = Cardinality(In(lo + 1, hi)) + (IF lo \in P THEN 1 ELSE 0)
  <2>1. Cardinality(In(lo + 1, hi) \cup {lo}) = Cardinality(In(lo + 1, hi)) + 1
    BY <1>1, <1>6, FS_AddElement
  <2> DEFINE c == Cardinality(In(lo + 1, hi))
  <2>2. c \in Nat
    BY <1>1
  <2>3. lo <= hi /\ lo \in P => Cardinality(In(lo, hi)) = c + 1
    BY <1>4, <2>1
  <2>4. lo <= hi /\ lo \notin P => Cardinality(In(lo, hi)) = c
    BY <1>4
  <2> HIDE DEF c
  <2>5. lo <= hi => Cardinality(In(lo, hi)) = c + (IF lo \in P THEN 1 ELSE 0)
    BY <2>2, <2>3, <2>4
  <2> QED BY <2>5 DEF c
<1>9. lo <= hi => Cardinality(In(lo, hi)) = Cardinality(In(lo, hi - 1)) + (IF hi \in P THEN 1 ELSE 0)
  <2>1. Cardinality(In(lo, hi - 1) \cup {hi}) = Cardinality(In(lo, hi - 1)) + 1
    BY <1>1, <1>6, FS_AddElement
  <2> DEFINE c == Cardinality(In(lo, hi - 1))
  <2>2. c \in Nat
    BY <1>1
  <2>3. lo <= hi /\ hi \in P => Cardinality(In(lo, hi)) = c + 1
    BY <1>5, <2>1
  <2>4. lo <= hi /\ hi \notin P => Cardinality(In(lo, hi)) = c
    BY <1>5
  <2> HIDE DEF c
  <2>5. lo <= hi => Cardinality(In(lo, hi)) = c + (IF hi \in P THEN 1 ELSE 0)
    BY <2>2, <2>3, <2>4
  <2> QED BY <2>5 DEF c
<1>10. hi <= L => Cardinality(In(lo, hi)) <= Cardinality(In(lo, L))
  BY <1>1, <1>3, FS_Subset
<1>11. \A a, b : CountIn(P, a, b) = Cardinality(In(a, b))
  BY DEF CountIn, In
<1> QED BY <1>1, <1>7, <1>8, <1>9, <1>10, <1>11

(* The sequence s is what is sent for the places of P from p on, W of each *)
(* in their order.                                                         *)
Follows(s, S, P, L, W, p) ==
    /\ s \in Seq(S) /\ Len(s) = CountIn(P, p, L)
    /\ \A q \in P : q >= p => s[CountIn(P, p, q)] = W[q]

LEMMA FollowsOn ==
    ASSUME NEW L \in Nat, NEW P \in SUBSET (1 .. L), NEW S, NEW W, NEW p \in 1 .. L,
           NEW s, Follows(s, S, P, L, W, p + 1)
    PROVE  /\ p \notin P => Follows(s, S, P, L, W, p)
           /\ p \in P => \A x \in S : x = W[p] => Follows(<<x>> \o s, S, P, L, W, p)
<1>1. \A q \in P : q \in Int /\ q <= L /\ (q >= p /\ q # p => q >= p + 1)
  OBVIOUS
<1>2. \A q \in P \cup {L} : q >= p => CountIn(P, p, q) = CountIn(P, p + 1, q) + (IF p \in P THEN 1 ELSE 0)
  <2> TAKE q \in P \cup {L}
  <2>1. q \in Int
    OBVIOUS
  <2> QED BY <2>1, Counting
<1>3. s \in Seq(S) /\ Len(s) = CountIn(P, p + 1, L) /\ CountIn(P, p + 1, L) \in Nat
  BY Counting DEF Follows
<1>4. ASSUME p \notin P PROVE Follows(s, S, P, L, W, p)
  <2>1. \A q \in P \cup {L} : q >= p => CountIn(P, p, q) = CountIn(P, p + 1, q)
    <3> TAKE q \in P \cup {L}
    <3>1. CountIn(P, p + 1, q) \in Nat
      BY Counting
    <3> QED BY <1>2, <1>4, <3>1
  <2>2. \A q \in P : q >= p => s[CountIn(P, p, q)] = W[q]
    BY <1>1, <1>4, <2>1 DEF Follows
  <2> QED BY <1>3, <2>1, <2>2 DEF Follows
<1>5. ASSUME p \in P, NEW x \in S, x = W[p] PROVE Follows(<<x>> \o s, S, P, L, W, p)
  <2> DEFINE t == <<x>> \o s
  <2>1. /\ t \in Seq(S) /\ Len(t) = Len(s) + 1 /\ t[1] = x
        /\ \A k \in 1 .. Len(s) : t[k + 1] = s[k]
    BY <1>3
  <2>2. Len(t) = CountIn(P, p, L)
    <3>1. L \in P \cup {L} /\ L >= p
      OBVIOUS
    <3> HIDE DEF t
    <3> QED BY <1>2, <1>3, <1>5, <2>1, <3>1
  <2> HIDE DEF t
  <2>3. ASSUME NEW q \in P, q >= p PROVE t[CountIn(P, p, q)] = W[q]
    <3>1. CountIn(P, p, q) = CountIn(P, p + 1, q) + 1
      BY <1>2, <1>5, <2>3
    <3>2. CASE q = p
      <4>1. CountIn(P, p + 1, p) = 0
        BY Counting
      <4> QED BY <1>5, <2>1, <3>1, <3>2, <4>1
    <3>3. CASE q # p
      <4>1. q \in Int /\ q >= p + 1 /\ q <= L
        BY <1>1, <2>3, <3>3
      <4>2. CountIn(P, p + 1, q) \in Nat /\ CountIn(P, p + 1, q) <= CountIn(P, p + 1, L)
        BY <4>1, Counting
      <4>3. CountIn(P, p + 1, q) = CountIn(P, p + 1, q - 1) + 1 /\ CountIn(P, p + 1, q - 1) \in Nat
        BY <4>1, Counting
      <4>4. CountIn(P, p + 1, q) \in 1 .. Len(s)
        BY <1>3, <4>2, <4>3
      <4>5. s[CountIn(P, p + 1, q)] = W[q]
        BY <4>1 DEF Follows
      <4> QED BY <2>1, <3>1, <4>4, <4>5
    <3> QED BY <3>2, <3>3
  <2> QED BY <2>1, <2>2, <2>3 DEF Follows, t
<1> QED BY <1>4, <1>5

(* One round of the loop, with what is sent from the next character on,    *)
(* and from the one behind it.                                             *)
Round(format, args, p, a, next, behind) ==
    IF p > Len(format) THEN << >>
    ELSE IF format[p] # "%" THEN << <<format[p], 0>> >> \o next[a]
    ELSE IF p = Len(format) THEN next[a]
    ELSE IF format[p + 1] \notin Supported THEN behind[a]
    ELSE IF format[p + 1] = "s" /\ args[a] THEN << <<"(null)", a>> >> \o behind[a + 1]
    ELSE << <<format[p + 1], a>> >> \o behind[a + 1]

Rounds(sent, format, args) ==
    \A p \in Nat : \A a \in Nat : sent[p][a] = Round(format, args, p, a, sent[p + 1], sent[p + 2])

LEMMA FormatStep ==
    ASSUME NEW format, NEW args, Len(format) \in Nat
    PROVE  \E sent : vkprintf(format, args) = sent[1][1] /\ Rounds(sent, format, args)
<1> DEFINE Def(f, p) == [a \in Nat |->
              IF p > Len(format) THEN << >>
              ELSE IF format[p] # "%" THEN << <<format[p], 0>> >> \o f[p + 1][a]
              ELSE IF p = Len(format) THEN f[p + 1][a]
              ELSE IF format[p + 1] \notin Supported THEN f[Skip(p)][a]
              ELSE IF format[p + 1] = "s" /\ args[a] THEN << <<"(null)", a>> >> \o f[Skip(p)][a + 1]
              ELSE << <<format[p + 1], a>> >> \o f[Skip(p)][a + 1]]
           sent == CHOOSE f : f = [p \in Nat |-> Def(f, p)]
           below == Len(format) + 1
<1>1. ASSUME NEW f, NEW p \in Nat
      PROVE  Def(f, p) = [a \in Nat |-> Round(format, args, p, a, f[p + 1], f[p + 2])]
  BY Zenon DEF Round, Skip
<1>2. WFDefOn(Later(below), Nat, Def)
  <2> SUFFICES ASSUME NEW g, NEW h, NEW x \in Nat,
                      \A y \in SetLessThan(x, Later(below), Nat) : g[y] = h[y]
               PROVE  Def(g, x) = Def(h, x)
    BY DEF WFDefOn
  <2> HIDE DEF Def
  <2>1. CASE x > Len(format)
    <3>1. \A a \in Nat : /\ Round(format, args, x, a, g[x + 1], g[x + 2]) = << >>
                         /\ Round(format, args, x, a, h[x + 1], h[x + 2]) = << >>
      BY <2>1 DEF Round
    <3> QED BY <1>1, <3>1
  <2>2. CASE ~(x > Len(format))
    <3>1. x + 1 \in SetLessThan(x, Later(below), Nat) /\ x + 2 \in SetLessThan(x, Later(below), Nat)
      BY <2>2 DEF SetLessThan, Later
    <3>2. g[x + 1] = h[x + 1] /\ g[x + 2] = h[x + 2]
      BY <3>1
    <3>3. \A a \in Nat : Round(format, args, x, a, g[x + 1], g[x + 2])
                         = Round(format, args, x, a, h[x + 1], h[x + 2])
      BY <3>2
    <3> QED BY <1>1, <3>3
  <2> QED BY <2>1, <2>2
<1>3. OpDefinesFcn(sent, Nat, Def)
  <2> HIDE DEF Def
  <2> QED BY DEF OpDefinesFcn
<1>4. vkprintf(format, args) = sent[1][1]
  BY DEF vkprintf
<1>5. WFInductiveDefines(sent, Nat, Def)
  <2>1. below \in Nat
    OBVIOUS
  <2> HIDE DEF Def, sent, below
  <2> QED BY <1>2, <1>3, <2>1, LaterIsWellFounded, WFInductiveDef
<1> HIDE DEF sent
<1>6. sent = [p \in Nat |-> Def(sent, p)]
  <2> HIDE DEF Def
  <2> QED BY <1>5 DEF WFInductiveDefines
<1>7. \A p \in Nat : sent[p] = Def(sent, p)
  <2> HIDE DEF Def
  <2> QED BY <1>6, Zenon
<1> HIDE DEF Def
<1>8. Rounds(sent, format, args)
  <2> SUFFICES ASSUME NEW p \in Nat, NEW a \in Nat
               PROVE  sent[p][a] = Round(format, args, p, a, sent[p + 1], sent[p + 2])
    BY DEF Rounds
  <2>1. sent[p] = [b \in Nat |-> Round(format, args, p, b, sent[p + 1], sent[p + 2])]
    BY <1>1, <1>7, Zenon
  <2> QED BY <2>1, Zenon
<1> QED BY <1>4, <1>8

(* What is sent for a place, and the places.                               *)
Places(format) == {j \in 1 .. Len(format) : Sends(format, j)}
Taking(format) == {j \in 1 .. Len(format) : Takes(format, j)}
What(format, args, q) ==
    IF ~Takes(format, q) THEN <<format[q], 0>>
    ELSE <<IF format[q + 1] = "s" /\ args[CountIn(Taking(format), 1, q)] THEN "(null)" ELSE format[q + 1],
           CountIn(Taking(format), 1, q)>>

(* Where the loop stands, a character is either sent as it is, or begins   *)
(* a specifier, whose second character is never sent by itself.            *)
LEMMA OneRound ==
    ASSUME NEW format, Len(format) \in Nat, NEW p \in 1 .. Len(format),
           p > 1 => ~Begins(format, p - 1)
    PROVE  /\ format[p] # "%" => /\ ~Begins(format, p) /\ p \in Places(format)
                                 /\ p \notin Taking(format) /\ ~Takes(format, p)
           /\ format[p] = "%" =>
                 /\ p \in Taking(format) <=> p < Len(format) /\ format[p + 1] \in Supported
                 /\ p \in Taking(format) <=> Takes(format, p)
                 /\ p \in Places(format) <=> p \in Taking(format)
                 /\ ~Begins(format, p + 1)
                 /\ p + 1 \notin Places(format) /\ p + 1 \notin Taking(format)
<1>1. Begins(format, p) <=> format[p] = "%"
  BY BeginsStep
<1>2. ASSUME format[p] # "%"
      PROVE  /\ ~Begins(format, p) /\ p \in Places(format)
             /\ p \notin Taking(format) /\ ~Takes(format, p)
  <2>1. ~Begins(format, p) /\ ~Takes(format, p)
    BY <1>1, <1>2 DEF Takes
  <2>2. Sends(format, p)
    BY <2>1 DEF Sends
  <2> QED BY <2>1, <2>2 DEF Places, Taking
<1>3. ASSUME format[p] = "%"
      PROVE  /\ p \in Taking(format) <=> p < Len(format) /\ format[p + 1] \in Supported
             /\ p \in Taking(format) <=> Takes(format, p)
             /\ p \in Places(format) <=> p \in Taking(format)
             /\ ~Begins(format, p + 1)
             /\ p + 1 \notin Places(format) /\ p + 1 \notin Taking(format)
  <2>1. Begins(format, p)
    BY <1>1, <1>3
  <2>2. p + 1 \in Nat \ {0} /\ p + 1 > 1 /\ (p + 1) - 1 = p
    OBVIOUS
  <2>3. ~Begins(format, p + 1)
    BY <2>1, <2>2, BeginsStep
  <2>4. ~Takes(format, p + 1) /\ ~Sends(format, p + 1)
    BY <2>1, <2>2, <2>3 DEF Takes, Sends
  <2>5. /\ Takes(format, p) <=> p < Len(format) /\ format[p + 1] \in Supported
        /\ Sends(format, p) <=> Takes(format, p)
    BY <2>1 DEF Takes, Sends
  <2> QED BY <2>3, <2>4, <2>5 DEF Places, Taking
<1> QED BY <1>2, <1>3

(* By induction on the characters that are left.                           *)
LEMMA FormatIsSent ==
    ASSUME NEW format, NEW args, Len(format) \in Nat,
           NEW W, W = [q \in Places(format) |-> What(format, args, q)],
           NEW S, S = {W[q] : q \in Places(format)}
    PROVE  Follows(vkprintf(format, args), S, Places(format), Len(format), W, 1)
<1> DEFINE L == Len(format)
           P == Places(format)
           Q == Taking(format)
           a(p) == CountIn(Q, 1, p - 1) + 1
<1>1. /\ L \in Nat /\ P \in SUBSET (1 .. L) /\ Q \in SUBSET (1 .. L)
      /\ \A q \in P : W[q] \in S /\ W[q] = What(format, args, q)
  BY DEF Places, Taking
<1>2. PICK sent : vkprintf(format, args) = sent[1][1] /\ Rounds(sent, format, args)
  BY FormatStep
<1> DEFINE Right(p) == Follows(sent[p][a(p)], S, P, L, W, p)
           Fresh(p) == p <= L /\ p > 1 => ~Begins(format, p - 1)
<1>3. \A p \in Nat \ {0} : /\ a(p) \in Nat /\ p + 1 - 1 = p
                           /\ a(p + 1) = a(p) + (IF p \in Q THEN 1 ELSE 0)
                           /\ CountIn(Q, 1, p) = CountIn(Q, 1, p - 1) + (IF p \in Q THEN 1 ELSE 0)
  <2> HIDE DEF L, Q
  <2> TAKE p \in Nat \ {0}
  <2>1. /\ CountIn(Q, 1, p - 1) \in Nat
        /\ CountIn(Q, 1, p) = CountIn(Q, 1, p - 1) + (IF p \in Q THEN 1 ELSE 0)
    BY <1>1, Counting
  <2>2. p + 1 - 1 = p
    OBVIOUS
  <2> QED BY <2>1, <2>2
<1>4. \A p \in Nat \ {0} :
         sent[p][a(p)] = Round(format, args, p, a(p), sent[p + 1], sent[p + 2])
  <2> HIDE DEF a
  <2> QED BY <1>2, <1>3 DEF Rounds
<1>5. Right(L + 1)
  <2>1. sent[L + 1][a(L + 1)] = << >>
    <3>1. L + 1 \in Nat \ {0} /\ L + 1 > L
      BY <1>1
    <3> HIDE DEF a
    <3> QED BY <1>4, <3>1 DEF Round
  <2>2. CountIn(P, L + 1, L) = 0
    <3> HIDE DEF P, L
    <3> QED BY <1>1, Counting
  <2>3. \A q \in P : ~(q >= L + 1)
    <3> HIDE DEF P, L
    <3> QED BY <1>1
  <2> HIDE DEF a, P, L
  <2> QED BY <2>1, <2>2, <2>3 DEF Follows
<1>6. ASSUME NEW p \in 1 .. L, Fresh(p), \A o \in p + 1 .. L + 1 : Fresh(o) => Right(o)
      PROVE  Right(p)
  <2>1. p \in Nat \ {0} /\ p <= L /\ p + 1 \in p + 1 .. L + 1 /\ ~(p > L) /\ p \in 1 .. Len(format)
    BY <1>1
  <2>2. p > 1 => ~Begins(format, p - 1)
    BY <1>6, <2>1
  <2>3. p + 1 > 1 /\ (p + 1) - 1 = p /\ (p + 2) - 1 = p + 1 /\ p + 2 > 1 /\ (p + 1) + 1 = p + 2
    BY <2>1
  <2> HIDE DEF a
  <2>4. CASE format[p] # "%"
    <3>1. ~Begins(format, p) /\ p \in P /\ p \notin Q /\ ~Takes(format, p)
      BY <2>1, <2>2, <2>4, OneRound
    <3>2. sent[p][a(p)] = << <<format[p], 0>> >> \o sent[p + 1][a(p)]
      BY <1>4, <2>1, <2>4 DEF Round
    <3>3. Fresh(p + 1) /\ a(p + 1) = a(p)
      BY <1>3, <2>1, <2>3, <3>1
    <3>4. Follows(sent[p + 1][a(p)], S, P, L, W, p + 1)
      BY <1>6, <2>1, <3>3
    <3>5. <<format[p], 0>> = W[p] /\ W[p] \in S
      BY <1>1, <3>1 DEF What
    <3>6. sent[p][a(p)] = <<W[p]>> \o sent[p + 1][a(p)]
      BY <3>2, <3>5
    <3> HIDE DEF P, L, Q
    <3> QED BY <1>1, <3>1, <3>4, <3>5, <3>6, FollowsOn
  <2>5. CASE format[p] = "%" /\ p = L
    <3>1. p \notin P /\ p \notin Q
      BY <2>1, <2>2, <2>5, OneRound
    <3>2. sent[p][a(p)] = sent[p + 1][a(p)]
      BY <1>4, <2>1, <2>5 DEF Round
    <3>3. a(p + 1) = a(p)
      BY <1>3, <2>1, <3>1
    <3>4. Follows(sent[p + 1][a(p)], S, P, L, W, p + 1)
      BY <1>5, <2>5, <3>3
    <3> HIDE DEF P, L, Q
    <3> QED BY <1>1, <3>1, <3>2, <3>4, FollowsOn
  <2>6. CASE format[p] = "%" /\ p # L
    <3>1. /\ p \in Q <=> format[p + 1] \in Supported
          /\ p \in Q <=> Takes(format, p)
          /\ p \in P <=> p \in Q
          /\ ~Begins(format, p + 1) /\ p + 1 \notin P /\ p + 1 \notin Q
      <4>1. p < Len(format)
        BY <2>1, <2>6
      <4> QED BY <2>1, <2>2, <2>6, <4>1, OneRound
    <3>2. p + 2 \in p + 1 .. L + 1 /\ p + 1 \in 1 .. L /\ p + 1 \in Nat \ {0}
      BY <1>1, <2>1, <2>6
    <3>3. Follows(sent[p + 2][a(p + 2)], S, P, L, W, p + 2)
      <4>1. Fresh(p + 2)
        BY <2>3, <3>1
      <4> QED BY <1>6, <3>2, <4>1
    <3>4. a(p + 2) = a(p + 1) /\ a(p + 1) = a(p) + (IF p \in Q THEN 1 ELSE 0)
      <4>1. a(p + 2) = a(p + 1) + 0
        BY <1>3, <2>3, <3>1, <3>2
      <4> QED BY <1>3, <2>1, <3>2, <4>1
    <3>5. Follows(sent[p + 2][a(p + 1)], S, P, L, W, p + 1)
      <4>1. Follows(sent[p + 2][a(p + 1)], S, P, L, W, (p + 1) + 1)
        BY <2>3, <3>3, <3>4
      <4>2. p + 1 \notin P
        BY <3>1
      <4> HIDE DEF P, L, Q
      <4> QED BY <1>1, <3>2, <4>1, <4>2, FollowsOn
    <3>6. CASE p \notin Q
      <4>1. sent[p][a(p)] = sent[p + 2][a(p)]
        BY <1>4, <2>1, <2>6, <3>1, <3>6 DEF Round
      <4>2. a(p + 1) = a(p) /\ p \notin P
        BY <1>3, <2>1, <3>1, <3>4, <3>6
      <4> HIDE DEF P, L, Q
      <4> QED BY <1>1, <3>5, <4>1, <4>2, FollowsOn
    <3>7. CASE p \in Q
      <4>1. sent[p][a(p)] = IF format[p + 1] = "s" /\ args[a(p)]
                            THEN << <<"(null)", a(p)>> >> \o sent[p + 2][a(p) + 1]
                            ELSE << <<format[p + 1], a(p)>> >> \o sent[p + 2][a(p) + 1]
        BY <1>4, <2>1, <2>6, <3>1, <3>7 DEF Round
      <4>2. a(p + 1) = a(p) + 1 /\ p \in P /\ Takes(format, p)
        BY <3>1, <3>4, <3>7
      <4>3. CountIn(Q, 1, p) = a(p)
        BY <1>3, <2>1, <3>7 DEF a
      <4>4. W[p] = <<IF format[p + 1] = "s" /\ args[a(p)] THEN "(null)" ELSE format[p + 1], a(p)>>
        BY <1>1, <4>2, <4>3, Zenon DEF What
      <4>5. sent[p][a(p)] = <<W[p]>> \o sent[p + 2][a(p + 1)]
        BY <4>1, <4>2, <4>4
      <4>6. W[p] \in S
        BY <1>1, <4>2
      <4> HIDE DEF P, L, Q
      <4> QED BY <1>1, <3>5, <4>2, <4>5, <4>6, FollowsOn
    <3> QED BY <3>6, <3>7
  <2> QED BY <2>4, <2>5, <2>6
<1>7. \A p \in 1 .. L + 1 : Fresh(p) => Right(p)
  <2> HIDE DEF L, Fresh, Right
  <2> SUFFICES ASSUME NEW w \in 1 .. L + 1, Fresh(w), ~Right(w) PROVE FALSE
    OBVIOUS
  <2> DEFINE T == {d \in 0 .. L : Fresh(L + 1 - d) /\ ~Right(L + 1 - d)}
  <2>1. L + 1 - w \in T /\ T \in SUBSET Nat
    <3>1. L + 1 - w \in 0 .. L /\ L + 1 - (L + 1 - w) = w
      BY <1>1
    <3>2. Fresh(L + 1 - (L + 1 - w)) /\ ~Right(L + 1 - (L + 1 - w))
      BY <3>1
    <3> QED BY <1>1, <3>1, <3>2
  <2>2. PICK d \in T : \A k \in T : d <= k
    <3> HIDE DEF T
    <3> QED BY <2>1, Smallest
  <2> DEFINE p == L + 1 - d
  <2>3. d \in 0 .. L /\ p \in 1 .. L + 1 /\ Fresh(p) /\ ~Right(p)
    BY <1>1, <2>2
  <2>4. ASSUME NEW o \in p + 1 .. L + 1, Fresh(o) PROVE Right(o)
    <3> DEFINE k == L + 1 - o
    <3>1. k \in 0 .. L /\ L + 1 - k = o /\ k < d
      <4>1. L \in Nat /\ d \in 0 .. L /\ o \in L + 1 - d + 1 .. L + 1
        BY <1>1, <2>3
      <4>2. o \in Int /\ o >= L + 2 - d /\ o <= L + 1
        BY <4>1
      <4> QED BY <4>1, <4>2
    <3>2. k \notin T
      <4> HIDE DEF k, T
      <4> QED BY <1>1, <2>1, <2>2, <2>3, <3>1
    <3>3. Fresh(L + 1 - k)
      BY <2>4, <3>1
    <3>4. Right(L + 1 - k)
      <4> HIDE DEF k
      <4> QED BY <3>1, <3>2, <3>3
    <3> QED BY <3>1, <3>4
  <2>5. Right(p)
    <3>1. p = L + 1 \/ p \in 1 .. L
      BY <1>1, <2>3
    <3> HIDE DEF p
    <3> QED BY <1>5, <1>6, <2>3, <2>4, <3>1
  <2> QED BY <2>3, <2>5
<1>8. Right(1)
  <2>1. 1 \in 1 .. L + 1 /\ Fresh(1)
    BY <1>1
  <2> HIDE DEF Fresh, Right
  <2> QED BY <1>7, <2>1
<1>9. a(1) = 1
  <2>1. CountIn(Q, 1, 1 - 1) = 0
    <3> HIDE DEF L, Q
    <3> QED BY <1>1, Counting
  <2> QED BY <2>1
<1> QED BY <1>2, <1>8, <1>9

(* vkprintf: for every format of any length and all its arguments, the     *)
(* supported specifiers take the arguments in their order, a null string   *)
(* is sent as "(null)", the characters of no specifier are sent as they    *)
(* are, nothing else is sent, and all in the order of the format.          *)
THEOREM FormatsAreObeyed == Spec => []FormatsAreFollowed
<1>1. Computed => FormatsAreFollowed
  <2> DEFINE format == job.input[1]
             args   == job.input[2]
             taken(p) == {j \in 1 .. p : Takes(format, j)}
             sent(p)  == {j \in 1 .. p : Sends(format, j)}
             what(p)  == IF ~Takes(format, p) THEN <<format[p], 0>>
                         ELSE <<IF format[p + 1] = "s" /\ args[Cardinality(taken(p))] THEN "(null)"
                                ELSE format[p + 1], Cardinality(taken(p))>>
  <2> SUFFICES ASSUME Computed, Returned("format")
               PROVE  /\ Len(out) = Cardinality(sent(Len(format)))
                      /\ \A p \in sent(Len(format)) : out[Cardinality(sent(p))] = what(p)
    BY Zenon DEF FormatsAreFollowed
  <2>1. job.input \in Formats /\ out = vkprintf(format, args)
    BY DEF Computed, Returned
  <2>2. Len(format) \in Nat
    BY <2>1, AlgorithmsAssumption
  <2> HIDE DEF format, args
  <2> DEFINE P == Places(format)
             W == [q \in P |-> What(format, args, q)]
             S == {W[q] : q \in P}
  <2>3. Follows(out, S, P, Len(format), W, 1)
    BY <2>1, <2>2, FormatIsSent
  <2>4. \A p \in 1 .. Len(format) : /\ CountIn(P, 1, p) = Cardinality(sent(p))
                                    /\ CountIn(Taking(format), 1, p) = Cardinality(taken(p))
    <3> TAKE p \in 1 .. Len(format)
    <3>1. {j \in P : 1 <= j /\ j <= p} = sent(p)
      BY <2>2 DEF Places
    <3>2. {j \in Taking(format) : 1 <= j /\ j <= p} = taken(p)
      BY <2>2 DEF Taking
    <3> QED BY <3>1, <3>2 DEF CountIn
  <2>5. P = sent(Len(format)) /\ P \in SUBSET (1 .. Len(format))
    BY DEF Places
  <2>6. CountIn(P, 1, Len(format)) = Cardinality(sent(Len(format)))
    <3>1. {j \in P : 1 <= j /\ j <= Len(format)} = P
      BY <2>2, <2>5
    <3> QED BY <2>5, <3>1 DEF CountIn
  <2>7. ASSUME NEW p \in P PROVE out[Cardinality(sent(p))] = what(p)
    <3>1. p \in 1 .. Len(format) /\ p >= 1
      BY <2>2, <2>5, <2>7
    <3>2. out[CountIn(P, 1, p)] = W[p]
      BY <2>3, <2>7, <3>1 DEF Follows
    <3>3. W[p] = What(format, args, p)
      BY <2>7
    <3>4. What(format, args, p) = what(p)
      <4>1. CountIn(Taking(format), 1, p) = Cardinality(taken(p))
        BY <2>4, <3>1
      <4> QED BY <4>1, Zenon DEF What
    <3> QED BY <2>4, <3>1, <3>2, <3>3, <3>4
  <2>8. Len(out) = Cardinality(sent(Len(format)))
    BY <2>3, <2>6 DEF Follows
  <2> QED BY <2>5, <2>7, <2>8
<1> QED
  BY <1>1, AlwaysComputed, PTL
=============================================================================
