----------------------------- MODULE TxChannel ------------------------------
(***************************************************************************)
(* What the transmit side of the UART driver promises: characters reach    *)
(* the transmitter in the order they were sent, each at most once and only *)
(* when the transmitter has room; when more are waiting than the buffer    *)
(* holds, the oldest leak and nothing else is lost.                        *)
(***************************************************************************)
EXTENDS Integers, Sequences

CONSTANTS Char, NoChar, Capacity

VARIABLES waiting,      \* characters sent and not yet given to the hardware
          THR           \* the transmitter's one-character register

Init == waiting = << >> /\ THR \in Char \cup {NoChar}

Send(c) ==
    /\ waiting' = Append(IF Len(waiting) = Capacity THEN Tail(waiting) ELSE waiting, c)
    /\ UNCHANGED THR

Hand ==
    /\ THR = NoChar
    /\ waiting # << >>
    /\ THR' = Head(waiting)
    /\ waiting' = Tail(waiting)

Shift ==
    /\ THR # NoChar
    /\ THR' = NoChar
    /\ UNCHANGED waiting

Next == Hand \/ Shift \/ \E c \in Char : Send(c)

Spec == Init /\ [][Next]_<<waiting, THR>>
=============================================================================
