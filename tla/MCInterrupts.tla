---------------------------- MODULE MCInterrupts ----------------------------
EXTENDS Interrupts

Cpu(aff0, method) == [_aff1 |-> 0, _aff0 |-> aff0, _enable_method |-> method]

Board(version, method, intid) ==
    [cpus |-> <<Cpu(0, method), Cpu(1, method)>>, boot |-> 1, stray |-> {}, version |-> version,
     fails |-> {}, intid |-> intid, timers |-> {1, 2}]

Rpi4 == Board("v2", "SpinTable", [uart |-> 153, timer |-> 30])
Virt == Board("v3", "PSCI", [uart |-> 33, timer |-> 30])

Panics == Board("v3", "Unknown", [uart |-> 33, timer |-> 30])

RealBoards == {Rpi4, Virt, Panics}
V2Boards == {Rpi4}

(* A tree that gives the timer another INTID than the handler's 30.        *)
OtherTimer == {Board("v3", "PSCI", [uart |-> 33, timer |-> 26])}
=============================================================================
