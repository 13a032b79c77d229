--------------------------- MODULE CharBufferSpec ---------------------------
(***************************************************************************)
(* One CharBuffer used by one caller at a time, as _rx_buffer always is    *)
(* and _tx_buffer is until interrupts are unmasked.                        *)
(***************************************************************************)
EXTENDS CharBuffer

CONSTANTS Char, Zero

ASSUME ZeroAssumption == Zero \in Char

VARIABLES buf,      \* the CharBuffer
          got       \* the character the last read_char put in out_c

vars == <<buf, got>>

Init == buf = NewBuffer(Zero) /\ got = Zero

BufferChar(c) == buf' = buffer_char(buf, c) /\ UNCHANGED got

ReadChar ==
    /\ can_read(buf)
    /\ got' = out_c(buf)
    /\ buf' = read_char(buf)

Next == ReadChar \/ \E c \in Char : BufferChar(c)

Spec == Init /\ [][Next]_vars

-----------------------------------------------------------------------------
TypeOK == buf \in CharBuffers(Char) /\ got \in Char

(* elements_in_buffer() does not return the number of elements, but its    *)
(* callers only compare it with zero, and that test is right: it returns   *)
(* zero exactly when nothing is buffered, for every pair of indexes.       *)
ZeroIffEmpty ==
    (elements_in_buffer(buf._start, buf._end) = 0) <=> (Contents(buf) = << >>)

(* buffer_char and read_char implement a queue of BufferSize - 1           *)
(* characters that leaks the oldest one when it is full.                   *)
Q == INSTANCE LossyQueue WITH q <- Contents(buf), Capacity <- BufferSize - 1
ImplementsLossyQueue == Q!Spec
=============================================================================
