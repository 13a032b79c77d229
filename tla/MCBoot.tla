------------------------------- MODULE MCBoot -------------------------------
EXTENDS Boot

Cpu(aff1, aff0, method) == [_aff1 |-> aff1, _aff0 |-> aff0, _enable_method |-> method]

(* Raspberry Pi 4: spin tables; one core has PSCI to mix the methods, and  *)
(* any of the others may come in at _start.                                *)
Rpi4 == [cpus |-> <<Cpu(0, 0, "SpinTable"), Cpu(0, 1, "SpinTable"),
                    Cpu(0, 2, "PSCI"), Cpu(0, 3, "SpinTable")>>,
         boot |-> 1, stray |-> {2, 3, 4}, version |-> "v2", fails |-> {}]

(* QEMU virt: PSCI; the last node has no enable method.                    *)
Virt == [cpus |-> <<Cpu(0, 0, "PSCI"), Cpu(0, 1, "PSCI"),
                    Cpu(0, 2, "PSCI"), Cpu(0, 3, "Unknown")>>,
         boot |-> 1, stray |-> {}, version |-> "v3", fails |-> {}]

(* A tree that fails one of the assertions.                                *)
Failing(call) == [Virt EXCEPT !.fails = {call}]

(* The first node is not the boot core's.                                  *)
BootCpuLast == [cpus |-> <<Cpu(0, 1, "PSCI"), Cpu(0, 0, "PSCI")>>,
                boot |-> 2, stray |-> {}, version |-> "v3", fails |-> {}]

(* Cores numbered by Aff1, as the WIP Raspberry Pi 5 target has them.      *)
Rpi5 == [cpus |-> <<Cpu(0, 0, "PSCI"), Cpu(1, 0, "PSCI")>>,
         boot |-> 1, stray |-> {}, version |-> "v2", fails |-> {}]

RealBoards  == {Rpi4, Virt} \cup {Failing(call) : call \in Asserting}
OrderBoards == {BootCpuLast}
StackBoards == {Rpi5}

(* What the theorems ask of a board, these are.                            *)
ASSUME GoodBoards == \A b \in RealBoards \cup OrderBoards : GoodBoard(b)
=============================================================================
