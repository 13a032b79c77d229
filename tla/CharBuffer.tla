----------------------------- MODULE CharBuffer -----------------------------
(***************************************************************************)
(* UART::CharBuffer (uart.cpp, uart.h): the ring buffer behind the async   *)
(* UART driver.  A buffer is a record with the fields of the C++ class;    *)
(* _start = _end means empty, so BufferSize - 1 characters fit and one     *)
(* more makes the oldest leak.                                             *)
(***************************************************************************)
EXTENDS Integers, Sequences

CONSTANT BufferSize

(* BufferSize and both indexes are uint8_t.                                *)
ASSUME BufferSizeAssumption == BufferSize \in 2 .. 255

Index == 0 .. BufferSize - 1

CharBuffers(Char) == [_start : Index, _end : Index, _ring : [Index -> Char]]

(* The constructor; `zero` is what the value-initialised array holds.      *)
NewBuffer(zero) == [_start |-> 0, _end |-> 0, _ring |-> [i \in Index |-> zero]]

(* Mutated operations: an index does not wrap around; nothing leaks when   *)
(* the buffer overflows; the count is reduced modulo the buffer's size.    *)
Bump_NoWrap(i) == i + 1

buffer_char_NoLeak(b, c) ==
    [b EXCEPT !._end = (@ + 1) % BufferSize, !._ring = [@ EXCEPT ![b._end] = c]]

elements_in_buffer_Modulo(start, end) ==
    IF start <= end THEN end - start ELSE (BufferSize - start + end + 1) % BufferSize

-----------------------------------------------------------------------------
Bump(i) == (i + 1) % BufferSize

buffer_char(b, c) ==
    LET end == Bump(b._end)
    IN  [_start |-> IF end = b._start THEN Bump(b._start) ELSE b._start,
         _end   |-> end,
         _ring  |-> [b._ring EXCEPT ![b._end] = c]]

(* read_char returns whether there was a character, and the character.     *)
can_read(b) == b._start # b._end

read_char(b) == [b EXCEPT !._start = Bump(@)]

out_c(b) == b._ring[b._start]

(* The count the code computes, in uint8_t arithmetic.                     *)
elements_in_buffer(start, end) ==
    CASE start = end -> 0
      [] start < end -> (start - end) % 256
      [] OTHER       -> (BufferSize - start + end + 1) % 256

(* What the buffer holds, oldest first: the order in which print_buffer    *)
(* walks it.  Slot and Count avoid % so that they are easy to reason about.*)
Count(b) ==
    IF b._start <= b._end THEN b._end - b._start
                          ELSE BufferSize - b._start + b._end

Slot(b, i) ==
    IF b._start + i - 1 < BufferSize THEN b._start + i - 1
                                     ELSE b._start + i - 1 - BufferSize

Contents(b) == [i \in 1 .. Count(b) |-> b._ring[Slot(b, i)]]
=============================================================================
