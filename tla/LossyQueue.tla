----------------------------- MODULE LossyQueue -----------------------------
(***************************************************************************)
(* What UART::CharBuffer promises (comment above buffer_char): a queue     *)
(* that, when it is full, leaks its oldest character to make room.         *)
(***************************************************************************)
EXTENDS Integers, Sequences

CONSTANTS Char, Capacity

VARIABLES q,        \* the queued characters, oldest first
          got       \* the character the last Get returned

Init == q = << >> /\ got \in Char

Put(c) ==
    /\ q' = Append(IF Len(q) = Capacity THEN Tail(q) ELSE q, c)
    /\ UNCHANGED got

Get ==
    /\ q # << >>
    /\ got' = Head(q)
    /\ q' = Tail(q)

Next == Get \/ \E c \in Char : Put(c)

Spec == Init /\ [][Next]_<<q, got>>
=============================================================================
