---------------------------- MODULE UartChannel -----------------------------
(***************************************************************************)
(* The transmit side of module Uart as the channel it implements.          *)
(***************************************************************************)
EXTENDS Uart

(* While it is being filled (b5 .. b8 with equal indexes) the buffer holds *)
(* everything but its oldest character; a character read and not yet       *)
(* written to DR (d8) is still waiting.                                    *)
Filling == \E x \in Ctx : cx[x].pc \in {"b5", "b6", "b7", "b8"}

Held == Contents(IF Filling /\ tx._start = tx._end THEN [tx EXCEPT !._start = Bump(@)] ELSE tx)

InHand == {x \in Ctx : cx[x].pc = "d8"}

Waiting == IF InHand = {} THEN Held ELSE <<cx[CHOOSE x \in InHand : TRUE].chr>> \o Held

C == INSTANCE TxChannel WITH waiting <- Waiting, THR <- uart.THR, Capacity <- BufferSize - 1

(* A context that has begun to store a character or to hand one over, and  *)
(* carries an index, a character or the device's readiness with it.  Calls *)
(* overlap when there are two: an interrupt handler in a thread's call, or *)
(* two cores.                                                              *)
Accessing == (Storing \ {"b1"}) \cup {"d2", "d3", "d4", "d5", "d6", "d7", "d8"}

Exclusive == \A x, y \in Ctx : cx[x].pc \in Accessing /\ cx[y].pc \in Accessing => x = y

VARIABLE overlapped     \* whether calls have overlapped so far

ChannelSpec ==
    /\ Init /\ overlapped = FALSE
    /\ [][Next /\ overlapped' = (overlapped \/ ~Exclusive')]_<<vars, overlapped>>
    /\ Fairness

(* Until calls overlap, the driver implements TxChannel: everything that   *)
(* was sent, by the threads before and after IRQs are open and by the      *)
(* handler, is written to DR in order, once, and never over a character    *)
(* the device still holds; only the oldest leak ("we leak one character    *)
(* from the buffer").                                                      *)
TxChannelUntilOverlap == C!Init /\ [][overlapped' \/ C!Next]_<<Waiting, uart.THR>>

(* The same of calls that may overlap, which does not hold: nothing keeps  *)
(* the handler out of the call it interrupts (UartNested.cfg).             *)
ImplementsTxChannel == C!Spec
=============================================================================
