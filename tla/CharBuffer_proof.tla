-------------------------- MODULE CharBuffer_proof --------------------------
(***************************************************************************)
(* UART::CharBuffer is a lossy queue, for every BufferSize a uint8_t can   *)
(* hold and any set of characters.                                         *)
(***************************************************************************)
EXTENDS CharBufferSpec, TLAPS

(* The only fact about % that the proofs need: an index wraps to 0.        *)
LEMMA BumpWraps ==
  ASSUME NEW i \in Index
  PROVE  /\ Bump(i) \in Index
         /\ Bump(i) = IF i = BufferSize - 1 THEN 0 ELSE i + 1
<1>1. CASE i = BufferSize - 1
  <2>1. (i + 1) % BufferSize = 0
    BY <1>1, BufferSizeAssumption
  <2>2. QED
    BY <1>1, <2>1, BufferSizeAssumption DEF Bump, Index
<1>2. CASE i # BufferSize - 1
  <2>1. i + 1 \in 0 .. BufferSize - 1
    BY <1>2, BufferSizeAssumption DEF Index
  <2>2. (i + 1) % BufferSize = i + 1
    BY <2>1, BufferSizeAssumption
  <2>3. QED
    BY <1>2, <2>1, <2>2, BufferSizeAssumption DEF Bump, Index
<1>3. QED
  BY <1>1, <1>2

(* In an array of N slots that is filled from s up to e, the i-th slot is  *)
(* in the array and is not the slot at e.                                  *)
LEMMA SlotArithmetic ==
  ASSUME NEW N \in 2 .. 255, NEW s \in 0 .. N - 1, NEW e \in 0 .. N - 1,
         NEW i \in 1 .. (IF s <= e THEN e - s ELSE N - s + e)
  PROVE  LET slot == IF s + i - 1 < N THEN s + i - 1 ELSE s + i - 1 - N
         IN  slot \in 0 .. N - 1 /\ slot # e
<1>1. CASE s <= e
  BY <1>1
<1>2. CASE ~(s <= e)
  BY <1>2
<1>3. QED
  BY <1>1, <1>2

(* What a well-typed buffer holds is a sequence of at most BufferSize - 1  *)
(* characters, empty exactly when the indexes are equal.                   *)
LEMMA ContentsType ==
  ASSUME NEW b \in CharBuffers(Char)
  PROVE  /\ Contents(b) \in Seq(Char)
         /\ Len(Contents(b)) = Count(b)
         /\ Count(b) \in 0 .. BufferSize - 1
         /\ Contents(b) = << >> <=> b._start = b._end
<1>1. b._start \in Index /\ b._end \in Index /\ b._ring \in [Index -> Char]
  BY DEF CharBuffers
<1>2. Count(b) \in 0 .. BufferSize - 1
  BY <1>1, BufferSizeAssumption DEF Count, Index
<1>3. \A i \in 1 .. Count(b) : Slot(b, i) \in Index
  BY <1>1, SlotArithmetic, BufferSizeAssumption DEF Count, Slot, Index
<1>4. Contents(b) \in [1 .. Count(b) -> Char]
  BY <1>1, <1>3 DEF Contents
<1>5. Contents(b) \in Seq(Char) /\ Len(Contents(b)) = Count(b)
  BY <1>2, <1>4
<1>6. Count(b) = 0 <=> b._start = b._end
  BY <1>1, BufferSizeAssumption DEF Count, Index
<1>7. QED
  BY <1>2, <1>5, <1>6

(* buffer_char keeps the buffer well typed.                                *)
LEMMA BufferCharType ==
  ASSUME NEW b \in CharBuffers(Char), NEW c \in Char
  PROVE  buffer_char(b, c) \in CharBuffers(Char)
<1>1. b._start \in Index /\ b._end \in Index /\ b._ring \in [Index -> Char]
  BY DEF CharBuffers
<1>2. Bump(b._start) \in Index /\ Bump(b._end) \in Index
  BY <1>1, BumpWraps
<1>3. QED
  BY <1>1, <1>2 DEF buffer_char, CharBuffers

(* buffer_char appends its character, after dropping the oldest one when   *)
(* BufferSize - 1 characters are held.                                     *)
LEMMA BufferCharContents ==
  ASSUME NEW b \in CharBuffers(Char), NEW c \in Char
  PROVE  Contents(buffer_char(b, c)) =
           Append(IF Len(Contents(b)) = BufferSize - 1 THEN Tail(Contents(b))
                                                       ELSE Contents(b), c)
<1> DEFINE d == buffer_char(b, c)
           old == IF Len(Contents(b)) = BufferSize - 1 THEN Tail(Contents(b))
                                                       ELSE Contents(b)
<1>1. b._start \in Index /\ b._end \in Index /\ b._ring \in [Index -> Char]
  BY DEF CharBuffers
<1>2. d \in CharBuffers(Char)
  BY BufferCharType
<1>3. d._end = IF b._end = BufferSize - 1 THEN 0 ELSE b._end + 1
  BY <1>1, BumpWraps DEF buffer_char
<1>4. d._ring = [b._ring EXCEPT ![b._end] = c]
  BY DEF buffer_char
<1>5. d._start = IF d._end = b._start THEN (IF b._start = BufferSize - 1 THEN 0 ELSE b._start + 1) ELSE b._start
  BY <1>1, BumpWraps DEF buffer_char
<1> SUFFICES Contents(d) = Append(old, c)
  OBVIOUS
<1> HIDE DEF d
<1>6. CASE Count(b) = BufferSize - 1
  <2>0. b._end = IF b._start = 0 THEN BufferSize - 1 ELSE b._start - 1
    BY <1>1, <1>6, BufferSizeAssumption DEF Count, Index
  <2>1. d._end = b._start
    BY <1>1, <1>3, <2>0, BufferSizeAssumption DEF Index
  <2>2. d._start = IF b._start = BufferSize - 1 THEN 0 ELSE b._start + 1
    BY <1>5, <2>1
  <2>3. Count(d) = BufferSize - 1
    BY <1>1, <2>1, <2>2, BufferSizeAssumption DEF Count, Index
  <2>4. \A i \in 1 .. BufferSize - 2 :
          Slot(d, i) = Slot(b, i + 1) /\ Slot(d, i) # b._end /\ Slot(d, i) \in Index
    <3> SUFFICES ASSUME NEW i \in 1 .. BufferSize - 2
                 PROVE  Slot(d, i) = Slot(b, i + 1) /\ Slot(d, i) # b._end /\ Slot(d, i) \in Index
      OBVIOUS
    <3>1. CASE b._start = BufferSize - 1
      BY <2>0, <2>2, <3>1, BufferSizeAssumption DEF Slot, Index
    <3>2. CASE b._start # BufferSize - 1
      <4>1. d._start = b._start + 1
        BY <2>2, <3>2
      <4>2. b._start \in Int /\ 0 <= b._start /\ b._start < BufferSize - 1
        <5> DEFINE s == b._start
        <5>1. s \in 0 .. BufferSize - 1
          BY <1>1 DEF Index
        <5>2. s # BufferSize - 1
          BY <3>2
        <5> HIDE DEF s
        <5>3. s \in Int /\ 0 <= s /\ s < BufferSize - 1
          BY <5>1, <5>2, BufferSizeAssumption
        <5>4. QED
          BY <5>3 DEF s
      <4>3. Slot(d, i) = Slot(b, i + 1)
        BY <4>1, <4>2, BufferSizeAssumption DEF Slot
      <4>4. Slot(d, i) \in Index
        BY <4>1, <4>2, BufferSizeAssumption DEF Slot, Index
      <4>5. Slot(d, i) # b._end
        BY <2>0, <4>1, <4>2, BufferSizeAssumption DEF Slot
      <4>6. QED
        BY <4>3, <4>4, <4>5
    <3>3. QED
      BY <3>1, <3>2
  <2>5. Slot(d, BufferSize - 1) = b._end
    BY <1>1, <2>0, <2>2, BufferSizeAssumption DEF Slot, Index
  <2>6. old = Tail(Contents(b)) /\ old \in Seq(Char) /\ Len(old) = BufferSize - 2
    BY <1>6, ContentsType, BufferSizeAssumption
  <2>7. \A i \in 1 .. BufferSize - 2 : old[i] = b._ring[Slot(b, i + 1)]
    <3>1. \A i \in 1 .. BufferSize - 2 : old[i] = Contents(b)[i + 1]
      BY <1>6, <2>6, ContentsType, BufferSizeAssumption
    <3>2. \A i \in 1 .. BufferSize - 2 : Contents(b)[i + 1] = b._ring[Slot(b, i + 1)]
      BY <1>6, BufferSizeAssumption DEF Contents
    <3>3. QED
      BY <3>1, <3>2
  <2>8. \A i \in 1 .. BufferSize - 1 : Contents(d)[i] = Append(old, c)[i]
    <3> SUFFICES ASSUME NEW i \in 1 .. BufferSize - 1
                 PROVE  Contents(d)[i] = Append(old, c)[i]
      OBVIOUS
    <3>1. Contents(d)[i] = d._ring[Slot(d, i)]
      BY <2>3 DEF Contents
    <3>2. CASE i = BufferSize - 1
      BY <1>1, <1>4, <2>5, <2>6, <3>1, <3>2, BufferSizeAssumption
    <3>3. CASE i # BufferSize - 1
      <4>1. i \in 1 .. BufferSize - 2
        BY <3>3, BufferSizeAssumption
      <4>2. d._ring[Slot(d, i)] = b._ring[Slot(b, i + 1)]
        BY <1>1, <1>4, <2>4, <4>1
      <4>3. Append(old, c)[i] = old[i]
        BY <2>6, <4>1, BufferSizeAssumption
      <4>4. QED
        BY <2>7, <3>1, <4>1, <4>2, <4>3
    <3>4. QED
      BY <3>2, <3>3
  <2>9. Contents(d) \in Seq(Char) /\ Len(Contents(d)) = BufferSize - 1
    BY <1>2, <2>3, ContentsType
  <2>10. Append(old, c) \in Seq(Char) /\ Len(Append(old, c)) = BufferSize - 1
    BY <2>6, BufferSizeAssumption
  <2>11. QED
    BY <2>8, <2>9, <2>10
<1>7. CASE Count(b) # BufferSize - 1
  <2>0. /\ d._end # b._start
        /\ (IF b._start <= d._end THEN d._end - b._start ELSE BufferSize - b._start + d._end)
              = Count(b) + 1
    <3> DEFINE s == b._start
               e == b._end
               f == d._end
    <3>1. s \in 0 .. BufferSize - 1 /\ e \in 0 .. BufferSize - 1
      BY <1>1 DEF Index
    <3>2. f = IF e = BufferSize - 1 THEN 0 ELSE e + 1
      BY <1>3
    <3>3. (IF s <= e THEN e - s ELSE BufferSize - s + e) # BufferSize - 1
      BY <1>7 DEF Count
    <3> HIDE DEF s, e, f
    <3>4. f # s /\ (IF s <= f THEN f - s ELSE BufferSize - s + f)
                      = (IF s <= e THEN e - s ELSE BufferSize - s + e) + 1
      <4>1. CASE e = BufferSize - 1
        BY <3>1, <3>2, <3>3, <4>1, BufferSizeAssumption
      <4>2. CASE e # BufferSize - 1
        BY <3>1, <3>2, <3>3, <4>2, BufferSizeAssumption
      <4>3. QED
        BY <4>1, <4>2
    <3>5. QED
      BY <3>4 DEF s, e, f, Count
  <2>1. d._start = b._start
    BY <1>5, <2>0
  <2>2. Count(d) = Count(b) + 1
    BY <2>0, <2>1 DEF Count
  <2>3. \A i \in 1 .. Count(b) : Slot(d, i) = Slot(b, i) /\ Slot(d, i) # b._end /\ Slot(d, i) \in Index
    <3>1. \A i \in 1 .. Count(b) : Slot(b, i) # b._end /\ Slot(b, i) \in Index
      BY <1>1, SlotArithmetic, BufferSizeAssumption DEF Slot, Count, Index
    <3>2. \A i \in 1 .. Count(b) : Slot(d, i) = Slot(b, i)
      BY <2>1 DEF Slot
    <3>3. QED
      BY <3>1, <3>2
  <2>4. Slot(d, Count(d)) = b._end
    <3>1. Slot(b, Count(b) + 1) = b._end
      <4> DEFINE s == b._start
                 e == b._end
                 n == (IF s <= e THEN e - s ELSE BufferSize - s + e) + 1
      <4>1. s \in 0 .. BufferSize - 1 /\ e \in 0 .. BufferSize - 1
        BY <1>1 DEF Index
      <4> HIDE DEF s, e
      <4>2. (IF s + n - 1 < BufferSize THEN s + n - 1 ELSE s + n - 1 - BufferSize) = e
        <5>1. CASE s <= e
          BY <4>1, <5>1, BufferSizeAssumption
        <5>2. CASE ~(s <= e)
          BY <4>1, <5>2, BufferSizeAssumption
        <5>3. QED
          BY <5>1, <5>2
      <4>3. QED
        BY <4>2 DEF s, e, Slot, Count
    <3>2. QED
      BY <2>1, <2>2, <3>1 DEF Slot
  <2>5. old = Contents(b) /\ old \in Seq(Char) /\ Len(old) = Count(b) /\ Count(b) \in Nat
    BY <1>7, ContentsType
  <2>6. \A i \in 1 .. Count(d) : Contents(d)[i] = Append(old, c)[i]
    <3> SUFFICES ASSUME NEW i \in 1 .. Count(d)
                 PROVE  Contents(d)[i] = Append(old, c)[i]
      OBVIOUS
    <3>1. Contents(d)[i] = d._ring[Slot(d, i)]
      BY DEF Contents
    <3>2. CASE i = Count(d)
      BY <1>1, <1>4, <2>2, <2>4, <2>5, <3>1, <3>2
    <3>3. CASE i # Count(d)
      <4>1. i \in 1 .. Count(b)
        BY <2>2, <2>5, <3>3
      <4>2. d._ring[Slot(d, i)] = b._ring[Slot(b, i)]
        BY <1>1, <1>4, <2>3, <4>1
      <4>3. Append(old, c)[i] = old[i]
        BY <2>5, <4>1
      <4>4. old[i] = b._ring[Slot(b, i)]
        BY <2>5, <4>1 DEF Contents
      <4>5. QED
        BY <3>1, <4>2, <4>3, <4>4
    <3>4. QED
      BY <3>2, <3>3
  <2>7. Contents(d) \in Seq(Char) /\ Len(Contents(d)) = Count(d)
    BY <1>2, ContentsType
  <2>8. Append(old, c) \in Seq(Char) /\ Len(Append(old, c)) = Count(d)
    BY <2>2, <2>5
  <2>9. QED
    BY <2>6, <2>7, <2>8
<1>8. QED
  BY <1>6, <1>7

(* read_char removes the character it outputs from the front.              *)
LEMMA ReadCharContents ==
  ASSUME NEW b \in CharBuffers(Char), can_read(b)
  PROVE  /\ read_char(b) \in CharBuffers(Char)
         /\ Contents(b) # << >>
         /\ out_c(b) = Head(Contents(b))
         /\ Contents(read_char(b)) = Tail(Contents(b))
<1> DEFINE d == read_char(b)
<1>1. b._start \in Index /\ b._end \in Index /\ b._ring \in [Index -> Char]
  BY DEF CharBuffers
<1>2. /\ d._start = IF b._start = BufferSize - 1 THEN 0 ELSE b._start + 1
      /\ d._end = b._end
      /\ d._ring = b._ring
  BY <1>1, BumpWraps DEF read_char, CharBuffers
<1>3. d \in CharBuffers(Char)
  BY <1>1, BumpWraps DEF read_char, CharBuffers
<1>4. Contents(b) # << >> /\ Contents(b) \in Seq(Char) /\ Len(Contents(b)) = Count(b)
  BY ContentsType DEF can_read
<1>5. Count(b) \in 1 .. BufferSize - 1
  BY <1>1, BufferSizeAssumption DEF Count, Index, can_read
<1>6. out_c(b) = Head(Contents(b))
  <2>1. Slot(b, 1) = b._start
    BY <1>1, BufferSizeAssumption DEF Slot, Index
  <2>2. Contents(b)[1] = out_c(b)
    BY <1>5, <2>1 DEF Contents, out_c
  <2>3. QED
    BY <1>4, <2>2
<1> HIDE DEF d
<1>7. Count(d) = Count(b) - 1
  <2>1. CASE b._start = BufferSize - 1
    BY <1>1, <1>2, <2>1, BufferSizeAssumption DEF Count, Index, can_read
  <2>2. CASE b._start # BufferSize - 1
    BY <1>1, <1>2, <2>2, BufferSizeAssumption DEF Count, Index, can_read
  <2>3. QED
    BY <2>1, <2>2
<1>8. \A i \in 1 .. Count(d) : Slot(d, i) = Slot(b, i + 1)
  <2>1. CASE b._start = BufferSize - 1
    BY <1>2, <1>5, <1>7, <2>1, BufferSizeAssumption DEF Slot
  <2>2. CASE b._start # BufferSize - 1
    <3>1. d._start = b._start + 1 /\ b._start \in Int
      BY <1>1, <1>2, <2>2, BufferSizeAssumption DEF Index
    <3>2. QED
      BY <1>5, <1>7, <3>1, BufferSizeAssumption DEF Slot
  <2>3. QED
    BY <2>1, <2>2
<1>9. Contents(d) = Tail(Contents(b))
  <2>1. Contents(d) \in Seq(Char) /\ Len(Contents(d)) = Count(b) - 1
    BY <1>3, <1>7, ContentsType
  <2>2. Tail(Contents(b)) \in Seq(Char) /\ Len(Tail(Contents(b))) = Count(b) - 1
    BY <1>4, <1>5
  <2>3. \A i \in 1 .. Count(b) - 1 : Contents(d)[i] = Tail(Contents(b))[i]
    <3> SUFFICES ASSUME NEW i \in 1 .. Count(b) - 1
                 PROVE  Contents(d)[i] = Tail(Contents(b))[i]
      OBVIOUS
    <3>1. Contents(d)[i] = b._ring[Slot(b, i + 1)]
      BY <1>2, <1>7, <1>8 DEF Contents
    <3>2. Tail(Contents(b))[i] = Contents(b)[i + 1]
      BY <1>4, <1>5
    <3>3. Contents(b)[i + 1] = b._ring[Slot(b, i + 1)]
      BY <1>5 DEF Contents
    <3>4. QED
      BY <3>1, <3>2, <3>3
  <2>4. QED
    BY <2>1, <2>2, <2>3
<1>10. QED
  BY <1>3, <1>4, <1>6, <1>9 DEF d

-----------------------------------------------------------------------------
(* Both indexes stay inside the array, so no operation of the CharBuffer   *)
(* reads or writes outside it.                                             *)
THEOREM CharBufferType == Spec => []TypeOK
<1>1. Init => TypeOK
  BY ZeroAssumption, BufferSizeAssumption
     DEF Init, TypeOK, NewBuffer, CharBuffers, Index
<1>2. TypeOK /\ [Next]_vars => TypeOK'
  <2> SUFFICES ASSUME TypeOK, [Next]_vars PROVE TypeOK'
    OBVIOUS
  <2>1. CASE ReadChar
    <3>1. out_c(buf) \in Char
      BY DEF TypeOK, CharBuffers, out_c
    <3>2. QED
      BY <2>1, <3>1, ReadCharContents DEF ReadChar, TypeOK
  <2>2. ASSUME NEW c \in Char, BufferChar(c) PROVE TypeOK'
    BY <2>2, BufferCharType DEF BufferChar, TypeOK
  <2>3. CASE UNCHANGED vars
    BY <2>3 DEF vars, TypeOK
  <2>4. QED
    BY <2>1, <2>2, <2>3 DEF Next
<1>3. QED
  BY <1>1, <1>2, PTL DEF Spec

(* The drivers' test elements_in_buffer() == 0 means that the buffer is    *)
(* empty, although the count itself is wrong.                              *)
THEOREM CharBufferZeroIffEmpty == Spec => []ZeroIffEmpty
<1>1. TypeOK => ZeroIffEmpty
  <2> SUFFICES ASSUME TypeOK PROVE ZeroIffEmpty
    OBVIOUS
  <2> DEFINE s == buf._start
             e == buf._end
  <2>1. s \in Index /\ e \in Index
    BY DEF TypeOK, CharBuffers
  <2>2. (Contents(buf) = << >>) <=> s = e
    BY ContentsType DEF TypeOK
  <2> HIDE DEF s, e
  <2>4. CASE s < e
    <3>1. (s - e) % 256 = s - e + 256
      BY <2>1, <2>4, BufferSizeAssumption DEF Index
    <3>2. elements_in_buffer(s, e) # 0
      BY <2>1, <2>4, <3>1, BufferSizeAssumption DEF elements_in_buffer, Index
    <3>3. s # e
      BY <2>1, <2>4 DEF Index
    <3>4. QED
      BY <2>2, <3>2, <3>3 DEF ZeroIffEmpty, s, e
  <2>5. CASE s > e
    <3>1. (BufferSize - s + e + 1) % 256 = BufferSize - s + e + 1
      BY <2>1, <2>5, BufferSizeAssumption DEF Index
    <3>2. elements_in_buffer(s, e) # 0
      BY <2>1, <2>5, <3>1, BufferSizeAssumption DEF elements_in_buffer, Index
    <3>3. s # e
      BY <2>1, <2>5 DEF Index
    <3>4. QED
      BY <2>2, <3>2, <3>3 DEF ZeroIffEmpty, s, e
  <2>6. CASE s = e
    <3>1. elements_in_buffer(s, e) = 0
      BY <2>1, <2>6 DEF elements_in_buffer, Index
    <3>2. QED
      BY <2>2, <2>6, <3>1 DEF ZeroIffEmpty, s, e
  <2>7. QED
    BY <2>1, <2>4, <2>5, <2>6 DEF Index
<1>2. QED
  BY <1>1, CharBufferType, PTL

(* UART::CharBuffer implements LossyQueue: buffer_char appends, leaking    *)
(* only the oldest character and only when full, and read_char returns     *)
(* the characters in the order they were buffered.                         *)
THEOREM CharBufferImplementsQueue == Spec => ImplementsLossyQueue
<1>1. Init => Q!Init
  <2> SUFFICES ASSUME Init PROVE Q!Init
    OBVIOUS
  <2>1. buf \in CharBuffers(Char) /\ buf._start = buf._end
    BY ZeroAssumption, BufferSizeAssumption DEF Init, NewBuffer, CharBuffers, Index
  <2>2. Contents(buf) = << >>
    BY <2>1, ContentsType
  <2>3. QED
    BY <2>2, ZeroAssumption DEF Q!Init, Init
<1>2. TypeOK /\ [Next]_vars => [Q!Next]_<<Contents(buf), got>>
  <2> SUFFICES ASSUME TypeOK, [Next]_vars
               PROVE  [Q!Next]_<<Contents(buf), got>>
    OBVIOUS
  <2>1. CASE ReadChar
    BY <2>1, ReadCharContents DEF ReadChar, Q!Next, Q!Get, TypeOK
  <2>2. ASSUME NEW c \in Char, BufferChar(c) PROVE Q!Put(c)
    BY <2>2, BufferCharContents DEF BufferChar, Q!Put, TypeOK
  <2>3. CASE UNCHANGED vars
    BY <2>3 DEF vars, Contents, Count, Slot
  <2>4. QED
    BY <2>1, <2>2, <2>3 DEF Next, Q!Next
<1>3. QED
  BY <1>1, <1>2, CharBufferType, PTL DEF Spec, ImplementsLossyQueue, Q!Spec
=============================================================================
