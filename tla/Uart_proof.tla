----------------------------- MODULE Uart_proof -----------------------------
(***************************************************************************)
(* The invariants of the PL011 driver, for any number of cores, any        *)
(* messages and every BufferSize a uint8_t can hold.                       *)
(***************************************************************************)
EXTENDS Uart, WellFoundedInduction, TLAPS

-----------------------------------------------------------------------------
(* An index wraps to 0.                                                    *)
LEMMA BumpWraps ==
  ASSUME NEW i \in Index
  PROVE  /\ Bump(i) \in Index
         /\ Bump(i) = IF i = BufferSize - 1 THEN 0 ELSE i + 1
<1>1. CASE i = BufferSize - 1
  <2>1. (i + 1) % BufferSize = 0
    BY <1>1, BufferSizeAssumption
  <2>2. QED
    BY <1>1, <2>1, BufferSizeAssumption DEF Bump, Index
<1>2. CASE i # BufferSize - 1
  <2>1. i + 1 \in 0 .. BufferSize - 1
    BY <1>2, BufferSizeAssumption DEF Index
  <2>2. (i + 1) % BufferSize = i + 1
    BY <2>1, BufferSizeAssumption
  <2>3. QED
    BY <1>2, <2>1, <2>2, BufferSizeAssumption DEF Bump, Index
<1>3. QED
  BY <1>1, <1>2

LEMMA CharFacts ==
  /\ {CR, NL, NUL} \subseteq Char
  /\ Received \subseteq Char
  /\ \A m \in {BootMsg, RunMsg, Banner, RxHeader} : m \in Seq(Char)
BY MessagesAssumption DEF Char

-----------------------------------------------------------------------------
(* Every nonempty set of naturals has a least element: what the proofs by  *)
(* induction on a length rest on.                                          *)
Less == {ss \in Nat \X Nat : ss[1] < ss[2]}

LEMMA Least ==
  ASSUME NEW T \in SUBSET Nat, T # {}
  PROVE  \E n \in T : \A m \in T : n <= m
<1>1. IsWellFoundedOn(Less, Nat)
  BY NatLessThanWellFounded DEF OpToRel, Less
<1>2. \E n \in T : \A m \in T : <<m, n>> \notin Less
  BY <1>1, WFMin
<1>3. PICK n \in T : \A m \in T : <<m, n>> \notin Less
  BY <1>2
<1>4. ASSUME NEW m \in T PROVE n <= m
  <2>1. n \in Nat /\ m \in Nat
    OBVIOUS
  <2>2. ~(m < n)
    BY <1>3, <2>1 DEF Less
  <2> QED BY <2>1, <2>2
<1> QED BY <1>4

(* What pl011_send_str_async sends are characters.                         *)
LEMMA SendStrType ==
  ASSUME NEW str \in Seq(Char)
  PROVE  send_str_async(str) \in Seq(Char)
<1> DEFINE n == Len(str)
           piece(i) == IF str[i] = NL THEN <<CR, NL>> ELSE <<str[i]>>
           sent[i \in 0 .. n] == IF i = 0 THEN << >> ELSE sent[i - 1] \o piece(i)
           T == {i \in 0 .. n : sent[i] \notin Seq(Char)}
<1>1. n \in Nat /\ \A i \in 1 .. n : piece(i) \in Seq(Char)
  BY CharFacts
<1>2. send_str_async(str) = sent[n]
  BY DEF send_str_async
<1>3. FiniteNatInductiveDefHypothesis(sent, << >>, LAMBDA v, i : v \o piece(i), 0, n)
  BY DEF FiniteNatInductiveDefHypothesis
<1>4. FiniteNatInductiveDefConclusion(sent, << >>, LAMBDA v, i : v \o piece(i), 0, n)
  BY <1>1, <1>3, FiniteNatInductiveDef
<1>5. sent = [i \in 0 .. n |-> IF i = 0 THEN << >> ELSE sent[i - 1] \o piece(i)]
  BY <1>4 DEF FiniteNatInductiveDefConclusion
<1> HIDE DEF sent, piece
<1>6. SUFFICES ASSUME T # {} PROVE FALSE
  BY <1>1, <1>2
<1>7. PICK i \in T : \A j \in T : i <= j
  <2>1. T \in SUBSET Nat
    BY <1>1
  <2> HIDE DEF T
  <2> QED BY <1>6, <2>1, Least
<1>8. CASE i = 0
  BY <1>1, <1>5, <1>8
<1>9. CASE i # 0
  <2>1. i \in 1 .. n /\ i - 1 \in 0 .. n /\ i - 1 \notin T
    BY <1>1, <1>7, <1>9
  <2>2. sent[i - 1] \in Seq(Char) /\ piece(i) \in Seq(Char)
    BY <1>1, <2>1
  <2>3. sent[i] = sent[i - 1] \o piece(i)
    <3>1. i \in 0 .. n /\ i # 0
      BY <1>1, <2>1
    <3> HIDE DEF T, n
    <3> QED BY <1>5, <3>1, Zenon
  <2>4. sent[i - 1] \o piece(i) \in Seq(Char)
    BY <2>2
  <2> QED BY <2>3, <2>4
<1> QED BY <1>8, <1>9

-----------------------------------------------------------------------------
(* The inductive invariant behind TypeOK, RxStaysEnabled and PlainReadIsOK:*)
(* where a context can be with which locals, and what that says of the     *)
(* device.                                                                 *)
Locals(k) ==
    /\ k.pc \in Storing => k.todo # << >>
    /\ k.pc = "wait" => k.ret = "sync"
    /\ k.pc \in {"e3", "on1", "on2"} => k.ret = "send"
    /\ k.pc \in {"on2", "off2"} => "rx" \in k.imsc

(* The handler has loaded MIS and not come to its RX part yet.             *)
RxAhead(k) == k.pc = "rx" \/ (k.pc \in Draining /\ k.ret = "irq")

Control ==
    /\ \A x \in Ctx : Locals(cx[x])
    /\ IF cx[Core0].pc = "initialize"
       THEN /\ sys.masked
            /\ "rx" \notin uart.RIS
            /\ \A x \in Ctx \ {Core0} : cx[x].pc = "idle"
       ELSE "rx" \in uart.IMSC
    /\ "rx" \in uart.RIS => uart.RHR # NoChar
    /\ RxAhead(cx[IRQ]) /\ "rx" \in cx[IRQ].mis => uart.RHR # NoChar

IInv == TypeOK /\ Control

(* The inductive invariant behind SyncSendsDrain.  Before IRQs are ready   *)
(* one context at a time sends: core 0's thread until it unmasks them, the *)
(* handler while that thread is about to signal.  Of this context's locals *)
(* an index is what it was loaded from, and the buffer holds nothing but   *)
(* the character, or the '\r' and the '\n', of the call.                   *)
Sender == IF sys.masked THEN Core0 ELSE IRQ

SyncLocals(k, start, end) ==
    /\ k.pc \notin {"b7", "b8", "on1", "on2", "lock", "unlock", "parked"}
    /\ k.pc \in {"initialize", "send", "unmask", "idle", "mis", "rx", "icr", "off1", "off2"} =>
          start = end
    /\ k.pc \in Draining /\ k.ret = "irq" => start = end
    /\ k.pc \in {"b1", "b2", "b3", "b4"} => end = IF k.chr = NL THEN Bump(start) ELSE start
    /\ k.pc \in {"b5", "b6"} =>
          end = IF k.chr = NL THEN Bump(Bump(start)) ELSE Bump(start)
    /\ k.pc \in {"b2", "b4", "b6"} => k.reg = end
    /\ k.pc \in {"d3", "d5", "d7", "e2", "lt2", "neg2", "wrap2"} => k.reg = start
    /\ k.pc \in {"d4", "d5", "d6", "d7", "lt1", "lt2"} => start # end
    /\ k.pc \in {"neg1", "neg2"} => start < end
    /\ k.pc \in {"wrap1", "wrap2"} => start > end

Sync ==
    ~sys._irqs_ready =>
        /\ \A x \in Secondary : cx[x].pc = "idle"
        /\ IF sys.masked THEN cx[IRQ].pc = "idle" ELSE cx[Core0].pc = "signal"
        /\ cx[Core0].next \in {"idle", "unmask"}
        /\ cx[IRQ].next \in {"idle", "mis", "icr"}
        /\ SyncLocals(cx[Sender], tx._start, tx._end)

-----------------------------------------------------------------------------
LEMMA CtxFacts ==
  /\ Core0 \in Ctx /\ IRQ \in Ctx /\ Core0 # IRQ
  /\ Secondary \subseteq Ctx /\ Core0 \notin Secondary /\ IRQ \notin Secondary
BY ContextsAssumption DEF Ctx, Thread, Core0, IRQ

LEMMA IdleType == Idle \in CtxType
<1>1. "idle" \in Pcs /\ 0 \in Index /\ NUL \in Char
  BY BufferSizeAssumption, CharFacts DEF Pcs, Index
<1>2. << >> \in Seq(Char) /\ {} \in SUBSET {"tx", "rx"}
  OBVIOUS
<1> QED BY <1>1, <1>2, Zenon DEF Idle, CtxType

LEMMA InitIInv == Init => IInv
<1> SUFFICES ASSUME Init PROVE IInv
  OBVIOUS
<1>1. 0 \in Index /\ NUL \in Char
  BY BufferSizeAssumption, CharFacts DEF Index
<1>2. NewBuffer(NUL) \in CharBuffers(Char)
  BY <1>1 DEF NewBuffer, CharBuffers
<1>3. Idle \in CtxType /\ [Idle EXCEPT !.pc = "initialize"] \in CtxType
  <2>1. "initialize" \in Pcs /\ Idle \in CtxType
    BY IdleType DEF Pcs
  <2> QED BY <2>1 DEF CtxType
<1>4. cx \in [Ctx -> CtxType]
  BY <1>3 DEF Init, Idle
<1>5. uart \in [IMSC : SUBSET {"tx", "rx"}, RIS : SUBSET {"tx", "rx"},
                THR : Char \cup {NoChar}, RHR : Char \cup {NoChar}]
  BY <1>1 DEF Init
<1>6. sys \in [_irqs_ready : BOOLEAN, masked : BOOLEAN,
               _print_lock : SUBSET Thread, arrived : 0 .. MaxRx, clock : BOOLEAN]
  <2>1. 0 \in 0 .. MaxRx
    BY ReceivedAssumption
  <2>2. sys \in [_irqs_ready : {FALSE}, masked : {TRUE}, _print_lock : {{}}, arrived : {0},
                 clock : BOOLEAN]
    BY DEF Init
  <2> QED BY <2>1, <2>2, Zenon
<1>7. TypeOK
  BY <1>2, <1>4, <1>5, <1>6 DEF Init, TypeOK
<1>8. Control
  BY CtxFacts DEF Init, Control, Idle, Locals, Storing, Draining, RxAhead
<1> QED BY <1>7, <1>8 DEF IInv

(* What a step may do to the device without touching the receiver.         *)
RxKept ==
    /\ uart' \in [IMSC : SUBSET {"tx", "rx"}, RIS : SUBSET {"tx", "rx"},
                 THR : Char \cup {NoChar}, RHR : Char \cup {NoChar}]
    /\ uart'.RHR = uart.RHR
    /\ "rx" \in uart'.RIS => "rx" \in uart.RIS
    /\ "rx" \in uart.IMSC => "rx" \in uart'.IMSC

LEMMA UnchangedRxKept == ASSUME IInv, UNCHANGED uart PROVE RxKept
BY DEF IInv, TypeOK, RxKept

(* A step of context x that leaves the receiver alone, and does not get    *)
(* the handler to its RX part from elsewhere.                              *)
LEMMA LocalStep ==
  ASSUME IInv, NEW x \in Ctx, NEW k \in CtxType,
         cx' = [cx EXCEPT ![x] = k],
         cx[x].pc \notin {"idle", "initialize"}, k.pc # "initialize",
         Locals(k), k.mis = cx[x].mis, RxAhead(k) => RxAhead(cx[x]),
         tx' \in CharBuffers(Char), RxKept, UNCHANGED <<rx, sys>>
  PROVE  IInv'
<1>1. cx' \in [Ctx -> CtxType]
  BY DEF IInv, TypeOK
<1>2. TypeOK'
  BY <1>1 DEF IInv, TypeOK, RxKept
<1>3. cx'[x] = k /\ \A y \in Ctx : y # x => cx'[y] = cx[y]
  BY DEF IInv, TypeOK
<1>4. cx[Core0].pc # "initialize" /\ cx'[Core0].pc # "initialize"
  BY <1>3, CtxFacts DEF IInv, Control
<1>5. \A y \in Ctx : Locals(cx'[y])
  BY <1>3 DEF IInv, Control
<1>6. RxAhead(cx'[IRQ]) /\ "rx" \in cx'[IRQ].mis => RxAhead(cx[IRQ]) /\ "rx" \in cx[IRQ].mis
  BY <1>3, CtxFacts
<1>7. Control'
  BY <1>4, <1>5, <1>6 DEF IInv, Control, RxAhead, Locals, RxKept
<1> QED BY <1>2, <1>7 DEF IInv

(* Where a context can go that only changes its program counter, or loads  *)
(* an index as well.                                                       *)
May(k, p) ==
    /\ p \in Pcs \ {"initialize", "on2", "off2"}
    /\ p \in Storing => k.todo # << >>
    /\ p = "wait" => k.ret = "sync"
    /\ p \in {"e3", "on1"} => k.ret = "send"
    /\ p = "rx" \/ (p \in Draining /\ k.ret = "irq") => RxAhead(k)

LEMMA LoadStep ==
  ASSUME IInv, NEW x \in Ctx, NEW r \in Index, NEW p, Load(x, r, p),
         cx[x].pc \notin {"idle", "initialize"}, May(cx[x], p),
         tx' \in CharBuffers(Char), UNCHANGED <<rx, uart, sys>>
  PROVE  IInv'
<1> DEFINE k == [cx[x] EXCEPT !.reg = r, !.pc = p]
<1>1. cx' = [cx EXCEPT ![x] = k] /\ cx[x] \in CtxType
  BY DEF Load, IInv, TypeOK
<1>2. k \in CtxType /\ k.pc = p /\ k.todo = cx[x].todo /\ k.ret = cx[x].ret /\ k.mis = cx[x].mis
  BY <1>1 DEF CtxType, May
<1>3. Locals(k) /\ (RxAhead(k) => RxAhead(cx[x]))
  <2> HIDE DEF k
  <2> QED BY <1>2 DEF Locals, RxAhead, May
<1>4. k.pc # "initialize"
  BY <1>2 DEF May
<1> QED BY <1>1, <1>2, <1>3, <1>4, LocalStep, UnchangedRxKept

LEMMA GotoStep ==
  ASSUME IInv, NEW x \in Ctx, NEW p, Goto(x, p),
         cx[x].pc \notin {"idle", "initialize"}, May(cx[x], p),
         tx' \in CharBuffers(Char), RxKept, UNCHANGED <<rx, sys>>
  PROVE  IInv'
<1> DEFINE k == [cx[x] EXCEPT !.pc = p]
<1>1. cx' = [cx EXCEPT ![x] = k] /\ cx[x] \in CtxType
  BY DEF Goto, IInv, TypeOK
<1>2. k \in CtxType /\ k.pc = p /\ k.todo = cx[x].todo /\ k.ret = cx[x].ret /\ k.mis = cx[x].mis
  BY <1>1 DEF CtxType, May
<1>3. Locals(k) /\ (RxAhead(k) => RxAhead(cx[x]))
  <2> HIDE DEF k
  <2> QED BY <1>2 DEF Locals, RxAhead, May
<1>4. k.pc # "initialize"
  BY <1>2 DEF May
<1> QED BY <1>1, <1>2, <1>3, <1>4, LocalStep

LEMMA UseStep ==
  ASSUME IInv, NEW x \in Ctx, NEW p, Use(x, p),
         cx[x].pc \notin {"idle", "initialize"}, May(cx[x], p),
         tx' \in CharBuffers(Char), UNCHANGED <<rx, uart, sys>>
  PROVE  IInv'
<1>1. 0 \in Index
  BY BufferSizeAssumption DEF Index
<1> QED BY <1>1, LoadStep DEF Use

LEMMA SendCharIInv == ASSUME IInv, NEW x \in Ctx, SendChar(x) PROVE IInv'
<1>1. cx[x] \in CtxType /\ tx \in CharBuffers(Char) /\ cx[x].pc = "send"
  BY DEF IInv, TypeOK, SendChar, At
<1>2. CASE cx[x].todo = << >>
  <2> DEFINE k == [Idle EXCEPT !.pc = cx[x].next, !.mis = cx[x].mis]
  <2>1. cx' = [cx EXCEPT ![x] = k] /\ UNCHANGED <<tx, rx, uart, sys>>
    BY <1>2 DEF SendChar
  <2>2. k \in CtxType /\ k.pc \in {"idle", "mis", "icr", "unmask", "unlock"} /\ k.mis = cx[x].mis
    BY <1>1, IdleType DEF CtxType, Pcs
  <2>3. Locals(k) /\ ~RxAhead(k)
    BY <2>2 DEF Locals, RxAhead, Storing, Draining
  <2> QED BY <1>1, <2>1, <2>2, <2>3, LocalStep, UnchangedRxKept
<1>3. CASE cx[x].todo # << >>
  <2> DEFINE k == [cx[x] EXCEPT !.pc = "b1", !.chr = IF Head(cx[x].todo) = NL THEN CR ELSE Head(cx[x].todo)]
  <2>1. cx' = [cx EXCEPT ![x] = k] /\ UNCHANGED <<tx, rx, uart, sys>>
    BY <1>3 DEF SendChar
  <2>0. Head(cx[x].todo) \in Char
    BY <1>1, <1>3 DEF CtxType
  <2>2. k \in CtxType /\ k.pc = "b1" /\ k.mis = cx[x].mis /\ k.todo = cx[x].todo
    BY <1>1, <2>0, CharFacts DEF CtxType, Pcs, Storing
  <2>3. Locals(k) /\ ~RxAhead(k)
    BY <1>3, <2>2 DEF Locals, RxAhead, Storing, Draining
  <2> QED BY <1>1, <2>1, <2>2, <2>3, LocalStep, UnchangedRxKept
<1> QED BY <1>2, <1>3
LEMMA CtxStepTypes ==
  ASSUME IInv, NEW x \in Ctx
  PROVE  /\ tx \in CharBuffers(Char) /\ tx._start \in Index /\ tx._end \in Index
         /\ tx._ring \in [Index -> Char]
         /\ cx[x] \in CtxType /\ cx[x].reg \in Index /\ cx[x].chr \in Char
         /\ cx[x].todo \in Seq(Char) /\ cx[x].ret \in {"send", "sync", "irq"}
         /\ Locals(cx[x])
<1>1. tx \in CharBuffers(Char) /\ cx[x] \in CtxType /\ Locals(cx[x])
  BY DEF IInv, TypeOK, Control
<1> QED BY <1>1 DEF CharBuffers, CtxType

LEMMA BufferedIInv ==
  ASSUME IInv, NEW x \in Ctx, cx[x].pc \in Storing, Buffered(x),
         tx' \in CharBuffers(Char), UNCHANGED <<rx, uart, sys>>
  PROVE  IInv'
<1>1. cx[x] \in CtxType /\ cx[x].todo # << >> /\ cx[x].todo \in Seq(Char)
      /\ cx[x].pc \notin {"idle", "initialize"} /\ 0 \in Index
  BY CtxStepTypes, BufferSizeAssumption DEF Locals, Storing, Index
<1>2. CASE cx[x].chr = CR /\ Head(cx[x].todo) = NL
  <2> DEFINE k == [cx[x] EXCEPT !.pc = "b1", !.chr = NL, !.reg = 0]
  <2>1. cx' = [cx EXCEPT ![x] = k]
    BY <1>2 DEF Buffered
  <2>2. k \in CtxType /\ k.pc = "b1" /\ k.mis = cx[x].mis /\ k.todo = cx[x].todo
    BY <1>1, CharFacts DEF CtxType, Pcs, Storing
  <2>3. Locals(k) /\ ~RxAhead(k)
    BY <1>1, <2>2 DEF Locals, RxAhead, Storing, Draining
  <2> QED BY <1>1, <2>1, <2>2, <2>3, LocalStep, UnchangedRxKept
<1>3. CASE ~(cx[x].chr = CR /\ Head(cx[x].todo) = NL)
  <2> DEFINE k == [cx[x] EXCEPT !.pc = "d1", !.todo = Tail(cx[x].todo), !.ret = "send",
                          !.chr = NUL, !.reg = 0]
  <2>1. cx' = [cx EXCEPT ![x] = k]
    BY <1>3 DEF Buffered
  <2>2. Tail(cx[x].todo) \in Seq(Char)
    BY <1>1
  <2>3. k \in CtxType /\ k.pc = "d1" /\ k.mis = cx[x].mis /\ k.ret = "send"
    BY <1>1, <2>2, CharFacts DEF CtxType, Pcs, Draining
  <2>4. Locals(k) /\ ~RxAhead(k)
    BY <2>3 DEF Locals, RxAhead, Storing, Draining
  <2> QED BY <1>1, <2>1, <2>3, <2>4, LocalStep, UnchangedRxKept
<1> QED BY <1>2, <1>3

LEMMA BufferCharIInv == ASSUME IInv, NEW x \in Ctx, BufferChar(x) PROVE IInv'
<1>0. UNCHANGED <<rx, uart, sys>>
  BY DEF BufferChar
<1>1. ASSUME NEW p, NEW q, NEW r \in Index, At(x, p), Load(x, r, q), UNCHANGED tx,
             p \in Storing, q \in Storing
      PROVE  IInv'
  <2>1. cx[x].pc \notin {"idle", "initialize"} /\ May(cx[x], q)
    BY <1>1, CtxStepTypes DEF At, May, Locals, Pcs, Storing, Draining
  <2> QED BY <1>0, <1>1, <2>1, LoadStep, CtxStepTypes
<1>2. ASSUME NEW p, NEW q, At(x, p), Use(x, q), tx' \in CharBuffers(Char),
             p \in Storing, q \in Storing
      PROVE  IInv'
  <2>1. cx[x].pc \notin {"idle", "initialize"} /\ May(cx[x], q)
    BY <1>2, CtxStepTypes DEF At, May, Locals, Pcs, Storing, Draining
  <2> QED BY <1>0, <1>2, <2>1, UseStep
<1>3. CASE StoreChar(x)
  <2>1. CASE At(x, "b1") /\ Load(x, tx._end, "b2") /\ UNCHANGED tx
    BY <1>1, <2>1, CtxStepTypes DEF Storing
  <2>2. CASE /\ At(x, "b2")
             /\ tx' = [tx EXCEPT !._ring[cx[x].reg] = cx[x].chr]
             /\ Use(x, "b3")
    <3>1. tx' \in CharBuffers(Char)
      BY <2>2, CtxStepTypes DEF CharBuffers
    <3> QED BY <1>2, <2>2, <3>1 DEF Storing
  <2> QED BY <1>3, <2>1, <2>2 DEF StoreChar
<1>4. CASE IncrementEnd(x)
  <2>1. CASE At(x, "b3") /\ Load(x, tx._end, "b4") /\ UNCHANGED tx
    BY <1>1, <2>1, CtxStepTypes DEF Storing
  <2>2. CASE At(x, "b4") /\ tx' = [tx EXCEPT !._end = Bump(cx[x].reg)] /\ Use(x, "b5")
    <3>1. tx' \in CharBuffers(Char)
      BY <2>2, CtxStepTypes, BumpWraps DEF CharBuffers
    <3> QED BY <1>2, <2>2, <3>1 DEF Storing
  <2> QED BY <1>4, <2>1, <2>2 DEF IncrementEnd
<1>5. CASE LeakIfFull(x)
  <2>1. CASE At(x, "b5") /\ Load(x, tx._end, "b6") /\ UNCHANGED tx
    BY <1>1, <2>1, CtxStepTypes DEF Storing
  <2>2. CASE /\ At(x, "b6")
             /\ IF cx[x].reg = tx._start THEN Use(x, "b7") ELSE Buffered(x)
             /\ UNCHANGED tx
    BY <1>0, <1>2, <2>2, BufferedIInv, CtxStepTypes DEF Storing, At
  <2>3. CASE At(x, "b7") /\ Load(x, tx._start, "b8") /\ UNCHANGED tx
    BY <1>1, <2>3, CtxStepTypes DEF Storing
  <2>4. CASE At(x, "b8") /\ tx' = [tx EXCEPT !._start = Bump(cx[x].reg)] /\ Buffered(x)
    <3>1. tx' \in CharBuffers(Char)
      BY <2>4, CtxStepTypes, BumpWraps DEF CharBuffers
    <3> QED BY <1>0, <2>4, <3>1, BufferedIInv DEF Storing, At
  <2> QED BY <1>5, <2>1, <2>2, <2>3, <2>4 DEF LeakIfFull
<1> QED BY <1>3, <1>4, <1>5 DEF BufferChar

LEMMA DrainTxIInv == ASSUME IInv, NEW x \in Ctx, DrainTx(x) PROVE IInv'
<1>0. UNCHANGED <<rx, sys>>
  BY DEF DrainTx
<1>1. ASSUME NEW p, NEW q, NEW r \in Index, At(x, p), Load(x, r, q), UNCHANGED <<tx, uart>>,
             p \in Draining, q \in Draining \ {"off2"}
      PROVE  IInv'
  <2>1. cx[x].pc \notin {"idle", "initialize"} /\ May(cx[x], q)
    BY <1>1 DEF At, May, RxAhead, Pcs, Storing, Draining
  <2> QED BY <1>0, <1>1, <2>1, LoadStep, CtxStepTypes
<1>2. ASSUME NEW p, NEW q, At(x, p), Use(x, q), tx' \in CharBuffers(Char), UNCHANGED uart,
             p \in Draining, q \in Draining \ {"off2"}
      PROVE  IInv'
  <2>1. cx[x].pc \notin {"idle", "initialize"} /\ May(cx[x], q)
    BY <1>2 DEF At, May, RxAhead, Pcs, Storing, Draining
  <2> QED BY <1>0, <1>2, <2>1, UseStep
<1>3. CASE PollRoom(x) /\ UNCHANGED uart
  <2> DEFINE q == IF TXFF THEN "e1" ELSE "d2"
  <2>1. cx[x].pc \notin {"idle", "initialize"} /\ May(cx[x], q)
    BY <1>3 DEF PollRoom, At, May, RxAhead, Pcs, Storing, Draining
  <2>2. Goto(x, q) /\ tx' \in CharBuffers(Char) /\ RxKept
    BY <1>3, CtxStepTypes, UnchangedRxKept DEF PollRoom
  <2> HIDE DEF q
  <2> QED BY <1>0, <2>1, <2>2, GotoStep
<1>4. CASE ReadChar(x) /\ UNCHANGED uart
  <2>1. CASE At(x, "d2") /\ Load(x, tx._start, "d3") /\ UNCHANGED tx
    BY <1>1, <1>4, <2>1, CtxStepTypes DEF Draining
  <2>2. CASE At(x, "d3") /\ Use(x, IF cx[x].reg = tx._end THEN "e1" ELSE "d4") /\ UNCHANGED tx
    BY <1>2, <1>4, <2>2, CtxStepTypes DEF Draining
  <2>3. CASE At(x, "d4") /\ Load(x, tx._start, "d5") /\ UNCHANGED tx
    BY <1>1, <1>4, <2>3, CtxStepTypes DEF Draining
  <2>4. CASE /\ At(x, "d5")
             /\ cx' = [cx EXCEPT ![x].chr = tx._ring[cx[x].reg], ![x].reg = 0, ![x].pc = "d6"]
             /\ UNCHANGED tx
    <3> DEFINE k == [cx[x] EXCEPT !.chr = tx._ring[cx[x].reg], !.reg = 0, !.pc = "d6"]
    <3>1. cx' = [cx EXCEPT ![x] = k]
      BY <2>4
    <3>2. tx._ring[cx[x].reg] \in Char /\ cx[x] \in CtxType /\ 0 \in Index
      BY CtxStepTypes, BufferSizeAssumption DEF Index
    <3>3. k \in CtxType /\ k.pc = "d6" /\ k.mis = cx[x].mis /\ k.ret = cx[x].ret
      BY <3>2 DEF CtxType, Pcs, Draining
    <3>4. Locals(k) /\ (RxAhead(k) => RxAhead(cx[x])) /\ cx[x].pc \notin {"idle", "initialize"}
      <4> HIDE DEF k
      <4> QED BY <2>4, <3>3 DEF Locals, RxAhead, Storing, Draining, At
    <3> QED BY <1>0, <1>4, <2>4, <3>1, <3>3, <3>4, LocalStep, UnchangedRxKept, CtxStepTypes
  <2>5. CASE At(x, "d6") /\ Load(x, tx._start, "d7") /\ UNCHANGED tx
    BY <1>1, <1>4, <2>5, CtxStepTypes DEF Draining
  <2>6. CASE At(x, "d7") /\ tx' = [tx EXCEPT !._start = Bump(cx[x].reg)] /\ Use(x, "d8")
    <3>1. tx' \in CharBuffers(Char)
      BY <2>6, CtxStepTypes, BumpWraps DEF CharBuffers
    <3> QED BY <1>2, <1>4, <2>6, <3>1 DEF Draining
  <2> QED BY <1>4, <2>1, <2>2, <2>3, <2>4, <2>5, <2>6 DEF ReadChar
<1>5. CASE WriteDR(x)
  <2>1. RxKept
    BY <1>5, CtxStepTypes DEF WriteDR, RxKept, IInv, TypeOK
  <2> DEFINE k == [cx[x] EXCEPT !.pc = "d1", !.chr = NUL]
  <2>2. cx' = [cx EXCEPT ![x] = k] /\ cx[x].pc = "d8" /\ UNCHANGED tx
    BY <1>5 DEF WriteDR, At
  <2>3. cx[x] \in CtxType /\ tx \in CharBuffers(Char)
    BY CtxStepTypes
  <2>4. k \in CtxType /\ k.pc = "d1" /\ k.mis = cx[x].mis /\ k.ret = cx[x].ret
    BY <2>3, CharFacts DEF CtxType, Pcs, Draining
  <2> HIDE DEF k
  <2>5. Locals(k) /\ (RxAhead(k) => RxAhead(cx[x]))
    BY <2>2, <2>4 DEF Locals, RxAhead, Storing, Draining
  <2> QED BY <1>0, <2>1, <2>2, <2>3, <2>4, <2>5, LocalStep
<1> QED BY <1>3, <1>4, <1>5 DEF DrainTx

(* What follows pl011_drain_tx fits its caller.                            *)
LEMMA AfterDrainMay ==
  ASSUME IInv, NEW x \in Ctx, cx[x].pc \in Draining, NEW b \in BOOLEAN
  PROVE  May(cx[x], AfterDrain(cx[x].ret, b))
<1>1. cx[x].ret \in {"send", "sync", "irq"}
  BY CtxStepTypes
<1>2. CASE cx[x].ret = "send"
  BY <1>2 DEF AfterDrain, May, RxAhead, Pcs, Storing, Draining
<1>3. CASE cx[x].ret = "sync"
  BY <1>3 DEF AfterDrain, May, RxAhead, Pcs, Storing, Draining
<1>4. CASE cx[x].ret = "irq"
  BY <1>4 DEF AfterDrain, May, RxAhead, Pcs, Storing, Draining
<1> QED BY <1>1, <1>2, <1>3, <1>4

LEMMA CheckEmptyIInv ==
  ASSUME IInv, NEW x \in Ctx, CheckEmpty(x), UNCHANGED <<tx, rx, uart, sys>>
  PROVE  IInv'
<1>0. RxKept /\ tx' \in CharBuffers(Char) /\ tx._start \in Index /\ tx._end \in Index
      /\ cx[x].reg \in Index
  BY UnchangedRxKept, CtxStepTypes
<1>1. ASSUME NEW l \in {<<"e1", "e2">>, <<"lt1", "lt2">>, <<"neg1", "neg2">>, <<"wrap1", "wrap2">>},
             At(x, l[1]), Load(x, tx._start, l[2])
      PROVE  IInv'
  <2>1. cx[x].pc \notin {"idle", "initialize"} /\ May(cx[x], l[2])
    BY <1>1 DEF At, May, RxAhead, Pcs, Storing, Draining
  <2> QED BY <1>0, <1>1, <2>1, LoadStep
<1>2. ASSUME NEW p \in {"e2", "neg2", "wrap2"}, At(x, p), NEW b \in BOOLEAN,
             Use(x, AfterDrain(cx[x].ret, b))
      PROVE  IInv'
  <2>1. cx[x].pc \notin {"idle", "initialize"} /\ May(cx[x], AfterDrain(cx[x].ret, b))
    BY <1>2, AfterDrainMay DEF At, Draining
  <2> QED BY <1>0, <1>2, <2>1, UseStep
<1>3. ASSUME NEW p \in {"e2", "lt2"}, At(x, p), NEW q \in {"lt1", "neg1", "wrap1"}, Use(x, q)
      PROVE  IInv'
  <2>1. cx[x].pc \notin {"idle", "initialize"} /\ May(cx[x], q)
    BY <1>3 DEF At, May, RxAhead, Pcs, Storing, Draining
  <2> QED BY <1>0, <1>3, <2>1, UseStep
<1>4. CASE At(x, "e2") /\ Use(x, IF cx[x].reg = tx._end THEN AfterDrain(cx[x].ret, TRUE) ELSE "lt1")
  <2>1. CASE cx[x].reg = tx._end
    BY <1>2, <1>4, <2>1
  <2>2. CASE cx[x].reg # tx._end
    BY <1>3, <1>4, <2>2
  <2> QED BY <2>1, <2>2
<1>5. CASE At(x, "lt2") /\ Use(x, IF cx[x].reg < tx._end THEN "neg1" ELSE "wrap1")
  BY <1>3, <1>5
<1>6. CASE At(x, "neg2") /\ Use(x, AfterDrain(cx[x].ret, (cx[x].reg - tx._end) % 256 = 0))
  BY <1>2, <1>6
<1>7. CASE /\ At(x, "wrap2")
           /\ Use(x, AfterDrain(cx[x].ret, (BufferSize - cx[x].reg + tx._end + 1) % 256 = 0))
  BY <1>2, <1>7
<1>8. CASE At(x, "e3") /\ cx' = [cx EXCEPT ![x] = IF sys._irqs_ready
                                                 THEN [@ EXCEPT !.pc = "on1"]
                                                 ELSE [@ EXCEPT !.pc = "e1", !.ret = "sync"]]
  <2> DEFINE k == IF sys._irqs_ready THEN [cx[x] EXCEPT !.pc = "on1"]
                                     ELSE [cx[x] EXCEPT !.pc = "e1", !.ret = "sync"]
  <2>1. cx' = [cx EXCEPT ![x] = k]
    BY <1>8
  <2>2. cx[x] \in CtxType /\ cx[x].pc = "e3" /\ cx[x].ret = "send"
    BY <1>8, CtxStepTypes DEF At, Locals
  <2>3. k \in CtxType /\ k.mis = cx[x].mis
        /\ <<k.pc, k.ret>> \in {<<"on1", "send">>, <<"e1", "sync">>}
    BY <2>2 DEF CtxType, Pcs, Draining
  <2>4. Locals(k) /\ ~RxAhead(k) /\ k.pc # "initialize"
    <3> HIDE DEF k
    <3> QED BY <2>3 DEF Locals, RxAhead, Storing, Draining
  <2> QED BY <1>0, <2>1, <2>2, <2>3, <2>4, LocalStep
<1>9. CASE At(x, "wait") /\ Goto(x, "d1")
  <2>1. cx[x].pc \notin {"idle", "initialize"} /\ May(cx[x], "d1")
    BY <1>9, CtxStepTypes DEF At, Locals, May, RxAhead, Pcs, Storing, Draining
  <2> QED BY <1>0, <1>9, <2>1, GotoStep
<1> QED BY <1>1, <1>4, <1>5, <1>6, <1>7, <1>8, <1>9 DEF CheckEmpty

LEMMA ToggleTxIInv == ASSUME IInv, NEW x \in Ctx, ToggleTx(x) PROVE IInv'
<1>0. UNCHANGED <<rx, sys>> /\ tx' \in CharBuffers(Char) /\ cx[x] \in CtxType
  BY CtxStepTypes DEF ToggleTx
<1>1. ASSUME NEW l \in {<<"on1", "on2">>, <<"off1", "off2">>}, At(x, l[1]),
             cx' = [cx EXCEPT ![x].imsc = uart.IMSC, ![x].pc = l[2]], UNCHANGED uart
      PROVE  IInv'
  <2> DEFINE k == [cx[x] EXCEPT !.imsc = uart.IMSC, !.pc = l[2]]
  <2>1. cx' = [cx EXCEPT ![x] = k]
    BY <1>1
  <2>2. cx[x].pc \in {"on1", "off1"} /\ "rx" \in uart.IMSC /\ uart.IMSC \in SUBSET {"tx", "rx"}
    BY <1>1, CtxFacts DEF At, IInv, Control, TypeOK
  <2>0. l[2] \in Pcs
    BY <1>1 DEF Pcs, Draining
  <2>3. k \in CtxType /\ k.pc = l[2] /\ k.mis = cx[x].mis /\ k.ret = cx[x].ret /\ k.imsc = uart.IMSC
    BY <1>0, <2>0, <2>2 DEF CtxType
  <2>4. Locals(k) /\ (RxAhead(k) => RxAhead(cx[x])) /\ k.pc # "initialize"
    <3> HIDE DEF k
    <3> QED BY <1>1, <2>2, <2>3, CtxStepTypes DEF Locals, RxAhead, Storing, Draining, At
  <2> QED BY <1>0, <1>1, <2>1, <2>2, <2>3, <2>4, LocalStep, UnchangedRxKept
<1>2. ASSUME NEW l \in {"on2", "off2"}, At(x, l),
             uart' = [uart EXCEPT !.IMSC = IF l = "on2" THEN cx[x].imsc \cup {"tx"}
                                                       ELSE cx[x].imsc \ {"tx"}],
             cx' = [cx EXCEPT ![x].pc = IF cx[x].ret = "irq" THEN "rx" ELSE "send", ![x].imsc = {}]
      PROVE  IInv'
  <2>1. "rx" \in cx[x].imsc /\ cx[x].imsc \in SUBSET {"tx", "rx"}
    BY <1>0, <1>2, CtxStepTypes DEF At, Locals, CtxType
  <2>2. RxKept
    BY <1>2, <2>1 DEF RxKept, IInv, TypeOK
  <2> DEFINE q == IF cx[x].ret = "irq" THEN "rx" ELSE "send"
             k == [cx[x] EXCEPT !.pc = q, !.imsc = {}]
  <2>3. cx' = [cx EXCEPT ![x] = k] /\ cx[x].pc = l /\ cx[x].pc \notin {"idle", "initialize"}
    BY <1>2 DEF At
  <2>4. q \in Pcs
    BY DEF Pcs
  <2>5. k \in CtxType /\ k.pc = q /\ k.mis = cx[x].mis /\ k.ret = cx[x].ret
    BY <1>0, <2>4 DEF CtxType
  <2>6. Locals(k) /\ (RxAhead(k) => RxAhead(cx[x])) /\ k.pc # "initialize"
    <3> HIDE DEF k
    <3> QED BY <1>2, <2>3, <2>5, CtxStepTypes DEF Locals, RxAhead, Storing, Draining
  <2> QED BY <1>0, <2>2, <2>3, <2>5, <2>6, LocalStep
<1> QED BY <1>1, <1>2 DEF ToggleTx

LEMMA SendIInv == ASSUME IInv, NEW x \in Ctx, Send(x) PROVE IInv'
BY SendCharIInv, BufferCharIInv, DrainTxIInv, CheckEmptyIInv, ToggleTxIInv DEF Send

-----------------------------------------------------------------------------
LEMMA DeviceIInv == ASSUME IInv, Device PROVE IInv'
<1>1. CASE Shift
  <2>1. TypeOK'
    BY <1>1 DEF Shift, IInv, TypeOK
  <2>2. uart'.RHR = uart.RHR /\ uart'.IMSC = uart.IMSC /\ ("rx" \in uart'.RIS <=> "rx" \in uart.RIS)
    BY <1>1 DEF Shift, IInv, TypeOK
  <2>3. Control'
    BY <1>1, <2>2 DEF Shift, IInv, Control, Locals, RxAhead
  <2> QED BY <2>1, <2>3 DEF IInv
<1>2. ASSUME NEW c \in Received, Arrive(c) PROVE IInv'
  <2>1. sys' \in [_irqs_ready : BOOLEAN, masked : BOOLEAN, _print_lock : SUBSET Thread,
                  arrived : 0 .. MaxRx, clock : BOOLEAN] /\ sys'.masked = sys.masked
    BY <1>2, ReceivedAssumption DEF Arrive, IInv, TypeOK
  <2>2. TypeOK'
    <3>1. c \in Char
      BY CharFacts
    <3>2. uart' \in [IMSC : SUBSET {"tx", "rx"}, RIS : SUBSET {"tx", "rx"},
                     THR : Char \cup {NoChar}, RHR : Char \cup {NoChar}]
      <4>1. uart \in [IMSC : SUBSET {"tx", "rx"}, RIS : SUBSET {"tx", "rx"},
                      THR : Char \cup {NoChar}, RHR : Char \cup {NoChar}]
        BY DEF IInv, TypeOK
      <4>2. uart.RIS \cup {"rx"} \in SUBSET {"tx", "rx"}
        BY <4>1
      <4>3. uart' = [uart EXCEPT !.RHR = c, !.RIS = uart.RIS \cup {"rx"}] \/ uart' = uart
        BY <1>2 DEF Arrive
      <4> QED BY <3>1, <4>1, <4>2, <4>3
    <3> QED BY <1>2, <2>1, <3>2 DEF Arrive, IInv, TypeOK
  <2>3. /\ uart'.IMSC = uart.IMSC
        /\ uart'.RHR # NoChar
        /\ cx[Core0].pc # "initialize"
    BY <1>2, ReceivedAssumption DEF Arrive, IInv, TypeOK
  <2>4. Control'
    BY <1>2, <2>3 DEF Arrive, IInv, Control, Locals, RxAhead
  <2> QED BY <2>2, <2>4 DEF IInv
<1> QED BY <1>1, <1>2 DEF Device

(* The steps of a context that is not sending.                             *)
LEMMA irq_handlerIInv == ASSUME IInv, irq_handler PROVE IInv'
<1> DEFINE k == [Idle EXCEPT !.pc = "send", !.todo = Banner, !.next = "mis"]
<1>1. cx' = [cx EXCEPT ![IRQ] = k] /\ UNCHANGED <<tx, rx, uart, sys>> /\ ~sys.masked
  BY DEF irq_handler
<1>3. k \in CtxType /\ k.pc = "send"
  <2>1. "send" \in Pcs /\ Banner \in Seq(Char)
    BY CharFacts DEF Pcs
  <2> QED BY <2>1, IdleType DEF CtxType
<1>4. Locals(k) /\ ~RxAhead(k)
  BY <1>3 DEF Locals, RxAhead, Storing, Draining
<1>5. cx' \in [Ctx -> CtxType] /\ cx'[IRQ] = k /\ \A y \in Ctx : y # IRQ => cx'[y] = cx[y]
  BY <1>1, <1>3, CtxFacts DEF IInv, TypeOK
<1>6. TypeOK'
  BY <1>1, <1>5 DEF IInv, TypeOK
<1>7. Control'
  <2> HIDE DEF k
  <2>1. \A y \in Ctx : Locals(cx'[y])
    BY <1>4, <1>5 DEF IInv, Control
  <2>2. ~RxAhead(cx'[IRQ]) /\ cx'[Core0].pc # "initialize" /\ cx[Core0].pc # "initialize"
    BY <1>1, <1>4, <1>5, CtxFacts DEF IInv, Control
  <2> QED BY <1>1, <2>1, <2>2 DEF IInv, Control, Locals, RxAhead
<1> QED BY <1>6, <1>7 DEF IInv

LEMMA HandleTxIInv == ASSUME IInv, HandleTx PROVE IInv'
<1> DEFINE k == [cx[IRQ] EXCEPT !.mis = MIS, !.ret = "irq",
                                !.pc = IF "tx" \in MIS THEN "d1" ELSE "rx"]
<1>1. cx' = [cx EXCEPT ![IRQ] = k] /\ UNCHANGED <<tx, rx, uart, sys>>
  BY DEF HandleTx
<1>2. cx[IRQ] \in CtxType /\ MIS \in SUBSET {"tx", "rx"} /\ cx[IRQ].pc = "mis"
  BY CtxFacts DEF IInv, TypeOK, HandleTx, At, MIS
<1>3. k \in CtxType /\ k.mis = MIS /\ k.pc \in {"d1", "rx"}
  BY <1>2 DEF CtxType, Pcs, Draining
<1>4. Locals(k)
  BY <1>3 DEF Locals, Storing
<1>5. "rx" \in k.mis => uart.RHR # NoChar
  BY <1>3 DEF MIS, IInv, Control
<1>6. cx' \in [Ctx -> CtxType] /\ cx'[IRQ] = k /\ \A y \in Ctx : y # IRQ => cx'[y] = cx[y]
  BY <1>1, <1>3, CtxFacts DEF IInv, TypeOK
<1>7. TypeOK'
  BY <1>1, <1>6 DEF IInv, TypeOK
<1>8. Control'
  <2> HIDE DEF k
  <2>1. \A y \in Ctx : Locals(cx'[y])
    BY <1>4, <1>6 DEF IInv, Control
  <2>2. cx'[Core0].pc # "initialize" /\ cx[Core0].pc # "initialize"
    BY <1>2, <1>6, CtxFacts DEF IInv, Control
  <2> QED BY <1>1, <1>5, <1>6, <2>1, <2>2 DEF IInv, Control, Locals, RxAhead
<1> QED BY <1>7, <1>8 DEF IInv

(* In an array of N slots that is filled from s up to e, the i-th slot is  *)
(* in the array.                                                           *)
LEMMA SlotArithmetic ==
  ASSUME NEW N \in 2 .. 255, NEW s \in 0 .. N - 1, NEW e \in 0 .. N - 1,
         NEW i \in 1 .. (IF s <= e THEN e - s ELSE N - s + e)
  PROVE  (IF s + i - 1 < N THEN s + i - 1 ELSE s + i - 1 - N) \in 0 .. N - 1
<1>1. CASE s <= e
  BY <1>1
<1>2. CASE ~(s <= e)
  BY <1>2
<1> QED BY <1>1, <1>2

(* What a well-typed buffer holds are characters.                          *)
LEMMA ContentsType ==
  ASSUME NEW b \in CharBuffers(Char)
  PROVE  Contents(b) \in Seq(Char)
<1>1. b._start \in Index /\ b._end \in Index /\ b._ring \in [Index -> Char]
  BY DEF CharBuffers
<1>2. Count(b) \in Nat
  BY <1>1, BufferSizeAssumption DEF Count, Index
<1>3. \A i \in 1 .. Count(b) : Slot(b, i) \in Index
  BY <1>1, SlotArithmetic, BufferSizeAssumption DEF Count, Slot, Index
<1>4. Contents(b) \in [1 .. Count(b) -> Char]
  BY <1>1, <1>3 DEF Contents
<1> QED BY <1>2, <1>4

LEMMA HandleRxIInv == ASSUME IInv, HandleRx PROVE IInv'
<1>1. cx[IRQ] \in CtxType /\ cx[IRQ].pc = "rx" /\ cx[Core0].pc # "initialize"
  BY CtxFacts DEF IInv, TypeOK, Control, HandleRx, At
<1>2. CASE "rx" \in cx[IRQ].mis
  <2> DEFINE k == [cx[IRQ] EXCEPT !.pc = "send", !.next = "icr", !.todo = print_buffer(rx')]
  <2>1. /\ cx' = [cx EXCEPT ![IRQ] = k] /\ UNCHANGED <<tx, sys>>
        /\ uart' = [uart EXCEPT !.RHR = NoChar, !.RIS = @ \ {"rx"}]
        /\ rx' = buffer_char(rx, uart.RHR)
    BY <1>2 DEF HandleRx
  <2>2. uart.RHR \in Char /\ rx \in CharBuffers(Char)
    BY <1>1, <1>2 DEF IInv, TypeOK, Control, RxAhead
  <2>3. rx' \in CharBuffers(Char)
    <3>1. rx._start \in Index /\ rx._end \in Index /\ rx._ring \in [Index -> Char]
      BY <2>2 DEF CharBuffers
    <3>2. Bump(rx._start) \in Index /\ Bump(rx._end) \in Index
      BY <3>1, BumpWraps
    <3> QED BY <2>1, <2>2, <3>1, <3>2 DEF buffer_char, CharBuffers
  <2>4. print_buffer(rx') \in Seq(Char)
    <3>1. Contents(rx') \in Seq(Char) /\ send_str_async(RxHeader) \in Seq(Char)
      BY <2>3, ContentsType, SendStrType, CharFacts
    <3>2. <<NL>> \in Seq(Char) /\ << >> \in Seq(Char)
      BY CharFacts
    <3>3. send_str_async(RxHeader) \o Contents(rx') \o <<NL>> \in Seq(Char)
      BY <3>1, <3>2
    <3> QED BY <3>2, <3>3 DEF print_buffer
  <2>5. k \in CtxType /\ k.pc = "send"
    <3>1. "send" \in Pcs
      BY DEF Pcs
    <3> QED BY <1>1, <2>4, <3>1 DEF CtxType
  <2> HIDE DEF k
  <2>6. Locals(k) /\ ~RxAhead(k)
    BY <2>5 DEF Locals, RxAhead, Storing, Draining
  <2>7. cx' \in [Ctx -> CtxType] /\ cx'[IRQ] = k /\ \A y \in Ctx : y # IRQ => cx'[y] = cx[y]
    BY <2>1, <2>5, CtxFacts DEF IInv, TypeOK
  <2>8. uart' \in [IMSC : SUBSET {"tx", "rx"}, RIS : SUBSET {"tx", "rx"},
                   THR : Char \cup {NoChar}, RHR : Char \cup {NoChar}]
        /\ uart'.IMSC = uart.IMSC /\ "rx" \notin uart'.RIS
    BY <2>1 DEF IInv, TypeOK
  <2>9. TypeOK'
    BY <2>1, <2>3, <2>7, <2>8 DEF IInv, TypeOK
  <2>10. \A y \in Ctx : Locals(cx'[y])
    BY <2>6, <2>7 DEF IInv, Control
  <2>11. Control'
    BY <1>1, <2>1, <2>6, <2>7, <2>8, <2>10, CtxFacts DEF IInv, Control, Locals, RxAhead
  <2> QED BY <2>9, <2>11 DEF IInv
<1>3. CASE "rx" \notin cx[IRQ].mis
  <2>1. May(cx[IRQ], "icr")
    BY DEF May, Pcs, Storing, Draining
  <2>2. Goto(IRQ, "icr") /\ UNCHANGED <<tx, rx, uart, sys>>
    BY <1>3 DEF HandleRx
  <2> QED BY <1>1, <2>1, <2>2, GotoStep, UnchangedRxKept, CtxFacts, CtxStepTypes
<1> QED BY <1>2, <1>3

LEMMA ClearAndReturnIInv == ASSUME IInv, ClearAndReturn PROVE IInv'
<1>1. cx' = [cx EXCEPT ![IRQ] = Idle] /\ UNCHANGED <<tx, rx, sys>> /\ cx[IRQ].pc = "icr"
  BY DEF ClearAndReturn, At
<1>2. cx' \in [Ctx -> CtxType] /\ cx'[IRQ] = Idle /\ \A y \in Ctx : y # IRQ => cx'[y] = cx[y]
  BY <1>1, IdleType, CtxFacts DEF IInv, TypeOK
<1>3. uart' \in [IMSC : SUBSET {"tx", "rx"}, RIS : SUBSET {"tx", "rx"},
                 THR : Char \cup {NoChar}, RHR : Char \cup {NoChar}]
      /\ uart'.IMSC = uart.IMSC /\ uart'.RHR = uart.RHR /\ uart'.RIS \subseteq uart.RIS
  BY DEF IInv, TypeOK, ClearAndReturn
<1>4. TypeOK'
  BY <1>1, <1>2, <1>3 DEF IInv, TypeOK
<1>5. Locals(Idle) /\ ~RxAhead(Idle)
  BY DEF Idle, Locals, RxAhead, Storing, Draining
<1>6. \A y \in Ctx : Locals(cx'[y])
  BY <1>2, <1>5 DEF IInv, Control
<1>7. cx[Core0].pc # "initialize" /\ cx'[Core0].pc # "initialize" /\ ~RxAhead(cx'[IRQ])
  BY <1>1, <1>2, <1>5, CtxFacts DEF IInv, Control
<1>8. Control'
  BY <1>1, <1>3, <1>6, <1>7 DEF IInv, Control, Locals, RxAhead
<1> QED BY <1>4, <1>8 DEF IInv

LEMMA initializeIInv == ASSUME IInv, initialize PROVE IInv'
<1> DEFINE k == [cx[Core0] EXCEPT !.pc = "send", !.todo = BootMsg, !.next = "unmask"]
<1>1. cx' = [cx EXCEPT ![Core0] = k] /\ UNCHANGED <<tx, rx, sys>> /\ cx[Core0].pc = "initialize"
  BY DEF initialize, At
<1>2. cx[Core0] \in CtxType /\ BootMsg \in Seq(Char) /\ "send" \in Pcs
  BY CharFacts, CtxFacts DEF IInv, TypeOK, Pcs
<1>3. k \in CtxType /\ k.pc = "send"
  BY <1>2 DEF CtxType
<1> HIDE DEF k
<1>4. Locals(k)
  BY <1>3 DEF Locals, Storing
<1>5. cx' \in [Ctx -> CtxType] /\ cx'[Core0] = k /\ \A y \in Ctx : y # Core0 => cx'[y] = cx[y]
  BY <1>1, <1>3, CtxFacts DEF IInv, TypeOK
<1>6. uart' \in [IMSC : SUBSET {"tx", "rx"}, RIS : SUBSET {"tx", "rx"},
                 THR : Char \cup {NoChar}, RHR : Char \cup {NoChar}]
      /\ "rx" \in uart'.IMSC /\ "rx" \notin uart'.RIS
  BY <1>1 DEF IInv, TypeOK, Control, initialize
<1>7. TypeOK'
  BY <1>1, <1>5, <1>6 DEF IInv, TypeOK
<1>8. \A y \in Ctx : Locals(cx'[y])
  BY <1>4, <1>5 DEF IInv, Control
<1>9. cx'[IRQ].pc = "idle"
  BY <1>1, <1>5, CtxFacts DEF IInv, Control
<1>10. ~RxAhead(cx'[IRQ])
  BY <1>9 DEF RxAhead, Draining
<1>11. Control'
  BY <1>3, <1>5, <1>6, <1>8, <1>10 DEF IInv, Control, Locals, RxAhead
<1> QED BY <1>7, <1>11 DEF IInv

(* A thread that does not send only moves on.                              *)
LEMMA ThreadStep ==
  ASSUME IInv, NEW x \in Thread, NEW k \in CtxType,
         cx' = [cx EXCEPT ![x] = k], cx[Core0].pc # "initialize", k.pc # "initialize", Locals(k),
         sys' \in [_irqs_ready : BOOLEAN, masked : BOOLEAN, _print_lock : SUBSET Thread,
                  arrived : 0 .. MaxRx, clock : BOOLEAN],
         UNCHANGED <<tx, rx, uart>>
  PROVE  IInv'
<1>1. x \in Ctx /\ x # IRQ
  BY CtxFacts DEF Ctx, Thread
<1>2. cx' \in [Ctx -> CtxType] /\ cx'[x] = k /\ \A y \in Ctx : y # x => cx'[y] = cx[y]
  BY <1>1 DEF IInv, TypeOK
<1>3. TypeOK'
  BY <1>2 DEF IInv, TypeOK
<1>4. \A y \in Ctx : Locals(cx'[y])
  BY <1>2 DEF IInv, Control
<1>5. cx'[Core0].pc # "initialize" /\ cx'[IRQ] = cx[IRQ]
  BY <1>1, <1>2, CtxFacts
<1>6. Control'
  BY <1>4, <1>5 DEF IInv, Control, Locals, RxAhead
<1> QED BY <1>3, <1>6 DEF IInv

LEMMA ThreadGoto ==
  ASSUME IInv, NEW x \in Thread, cx[Core0].pc # "initialize",
         NEW p \in {"signal", "lock", "parked"}, Goto(x, p),
         sys' \in [_irqs_ready : BOOLEAN, masked : BOOLEAN, _print_lock : SUBSET Thread,
                  arrived : 0 .. MaxRx, clock : BOOLEAN],
         UNCHANGED <<tx, rx, uart>>
  PROVE  IInv'
<1> DEFINE k == [cx[x] EXCEPT !.pc = p]
<1>1. cx' = [cx EXCEPT ![x] = k]
  BY DEF Goto
<1>2. cx[x] \in CtxType /\ p \in Pcs
  BY DEF IInv, TypeOK, Ctx, Pcs
<1>3. k \in CtxType /\ k.pc = p
  BY <1>2 DEF CtxType
<1>4. Locals(k) /\ k.pc # "initialize"
  <2> HIDE DEF k
  <2> QED BY <1>3 DEF Locals, Storing
<1> QED BY <1>1, <1>3, <1>4, ThreadStep

LEMMA ThreadIInv ==
  ASSUME IInv, NEW x \in Thread, boot_core(x) \/ signal_irqs_ready(x) \/ LockAndPrint(x) \/ Unlock(x)
  PROVE  IInv'
<1>1. x \in Ctx /\ cx[x] \in CtxType
      /\ sys \in [_irqs_ready : BOOLEAN, masked : BOOLEAN, _print_lock : SUBSET Thread,
                  arrived : 0 .. MaxRx, clock : BOOLEAN]
  BY DEF IInv, TypeOK, Ctx
<1>2. CASE boot_core(x)
  <2>1. cx[Core0].pc # "initialize" /\ Goto(x, "signal") /\ UNCHANGED <<tx, rx, uart, sys>>
    BY <1>2 DEF boot_core
  <2> QED BY <1>1, <2>1, ThreadGoto
<1>3. CASE signal_irqs_ready(x)
  <2>1. cx[x].pc = "signal" /\ Goto(x, "lock") /\ UNCHANGED <<tx, rx, uart>>
        /\ sys' = [sys EXCEPT !._irqs_ready = TRUE]
    BY <1>3 DEF signal_irqs_ready, At
  <2>2. cx[Core0].pc # "initialize"
    BY <1>1, <2>1 DEF IInv, Control
  <2> QED BY <1>1, <2>1, <2>2, ThreadGoto
<1>4. CASE LockAndPrint(x)
  <2> DEFINE k == [cx[x] EXCEPT !.pc = "send", !.todo = RunMsg, !.next = "unlock"]
  <2>1. cx[x].pc = "lock" /\ cx' = [cx EXCEPT ![x] = k] /\ UNCHANGED <<tx, rx, uart>>
        /\ sys' = [sys EXCEPT !._print_lock = {x}]
    BY <1>4 DEF LockAndPrint, At
  <2>2. cx[Core0].pc # "initialize"
    BY <1>1, <2>1 DEF IInv, Control
  <2>3. k \in CtxType /\ k.pc = "send"
    <3>1. RunMsg \in Seq(Char) /\ "send" \in Pcs
      BY CharFacts DEF Pcs
    <3> QED BY <1>1, <3>1 DEF CtxType
  <2> HIDE DEF k
  <2>4. Locals(k)
    BY <2>3 DEF Locals, Storing
  <2>5. sys' \in [_irqs_ready : BOOLEAN, masked : BOOLEAN, _print_lock : SUBSET Thread,
                  arrived : 0 .. MaxRx, clock : BOOLEAN]
    BY <1>1, <2>1
  <2> QED BY <2>1, <2>2, <2>3, <2>4, <2>5, ThreadStep
<1>5. CASE Unlock(x)
  <2>1. cx[x].pc = "unlock" /\ Goto(x, "parked") /\ UNCHANGED <<tx, rx, uart>>
        /\ sys' = [sys EXCEPT !._print_lock = {}]
    BY <1>5 DEF Unlock, At
  <2>2. cx[Core0].pc # "initialize"
    BY <1>1, <2>1 DEF IInv, Control
  <2>3. sys' \in [_irqs_ready : BOOLEAN, masked : BOOLEAN, _print_lock : SUBSET Thread,
                  arrived : 0 .. MaxRx, clock : BOOLEAN]
    BY <1>1, <2>1
  <2> QED BY <2>1, <2>2, <2>3, ThreadGoto
<1> QED BY <1>2, <1>3, <1>4, <1>5

LEMMA unmask_irqsIInv == ASSUME IInv, unmask_irqs PROVE IInv'
<1>1. cx[Core0].pc = "unmask" /\ Goto(Core0, "signal") /\ UNCHANGED <<tx, rx, uart>>
      /\ sys' = [sys EXCEPT !.masked = FALSE] /\ Core0 \in Thread
  BY DEF unmask_irqs, At, Thread
<1>2. sys' \in [_irqs_ready : BOOLEAN, masked : BOOLEAN, _print_lock : SUBSET Thread,
                arrived : 0 .. MaxRx, clock : BOOLEAN]
  BY <1>1 DEF IInv, TypeOK
<1> QED BY <1>1, <1>2, ThreadGoto

LEMMA NextIInv == IInv /\ [Next]_vars => IInv'
<1> SUFFICES ASSUME IInv, [Next]_vars PROVE IInv'
  OBVIOUS
<1>1. CASE Handler
  BY <1>1, HandleTxIInv, HandleRxIInv, ClearAndReturnIInv, SendIInv, CtxFacts DEF Handler
<1>2. ASSUME NEW x \in Thread, boot_core(x) \/ secondary_kern_main(x) PROVE IInv'
  BY <1>2, ThreadIInv, SendIInv DEF secondary_kern_main, Ctx
<1>3. CASE UNCHANGED vars
  BY <1>3 DEF vars, IInv, TypeOK, Control, Locals, RxAhead
<1> QED BY <1>1, <1>2, <1>3, DeviceIInv, irq_handlerIInv, initializeIInv, unmask_irqsIInv DEF Next

LEMMA AlwaysIInv == Spec => []IInv
BY InitIInv, NextIInv, PTL DEF Spec

-----------------------------------------------------------------------------
(* The driver's buffers, the locals of every context and the registers     *)
(* keep their types: no index leaves the ring, and no context buffers      *)
(* anything but a character, however many cores race in                    *)
(* pl011_send_char_async.                                                  *)
THEOREM UartTypes == Spec => []TypeOK
<1>1. IInv => TypeOK
  BY DEF IInv
<1> QED BY <1>1, AlwaysIInv, PTL

(* Once initialize has turned the RX interrupt on, no interleaving of the  *)
(* loads and stores of toggle_imsc_mask, on any number of cores, turns it  *)
(* off.                                                                    *)
THEOREM RxIsNeverDisabled == Spec => []RxStaysEnabled
<1>1. IInv => RxStaysEnabled
  BY DEF IInv, Control, RxStaysEnabled
<1> QED BY <1>1, AlwaysIInv, PTL

(* pl011_handle_irq only reads DR when the character its MIS announced is  *)
(* still there, although it may drain the transmit buffer in between.      *)
THEOREM ReadsFindACharacter == Spec => []PlainReadIsOK
<1>1. IInv => PlainReadIsOK
  BY DEF IInv, Control, RxAhead, PlainReadIsOK
<1> QED BY <1>1, AlwaysIInv, PTL

-----------------------------------------------------------------------------
LEMMA BumpMoves ==
  ASSUME NEW i \in Index, BufferSize > 2
  PROVE  Bump(i) \in Index /\ Bump(i) # i /\ Bump(Bump(i)) # i
<1>1. Bump(i) \in Index /\ Bump(i) = IF i = BufferSize - 1 THEN 0 ELSE i + 1
  BY BumpWraps
<1>2. Bump(Bump(i)) = IF Bump(i) = BufferSize - 1 THEN 0 ELSE Bump(i) + 1
  BY <1>1, BumpWraps
<1> QED BY <1>1, <1>2, BufferSizeAssumption DEF Index

LEMMA InitSync == Init => Sync
<1> SUFFICES ASSUME Init PROVE Sync
  OBVIOUS
<1>1. tx._start = tx._end /\ sys.masked
  BY DEF Init, NewBuffer
<1>2. cx[Core0].pc = "initialize" /\ \A x \in Ctx : x # Core0 => cx[x].pc = "idle"
  BY CtxFacts DEF Init, Idle
<1>3. \A x \in Ctx : cx[x].next = "idle" /\ cx[x].ret = "send"
  BY DEF Init, Idle
<1> QED BY <1>1, <1>2, <1>3, CtxFacts DEF Sync, SyncLocals, Sender, Draining

(* A step of the one context that sends before IRQs are ready.             *)
LEMMA SyncFrame ==
  ASSUME IInv, Sync, ~sys._irqs_ready, NEW x \in Ctx, x = Sender, UNCHANGED sys,
         \A y \in Ctx : y # x => cx'[y] = cx[y],
         \/ cx'[x].next = cx[x].next
         \/ x = Core0 /\ cx'[x].next \in {"idle", "unmask"}
         \/ x = IRQ /\ cx'[x].next \in {"idle", "mis", "icr"},
         SyncLocals(cx'[x], tx'._start, tx'._end)
  PROVE  Sync'
<1>1. Sender' = Sender
  BY DEF Sender
<1>2. \A y \in Secondary : cx'[y].pc = "idle"
  BY CtxFacts DEF Sync, Sender
<1>3. IF sys.masked THEN cx'[IRQ].pc = "idle" ELSE cx'[Core0].pc = "signal"
  BY CtxFacts DEF Sync, Sender
<1>4. cx'[Core0].next \in {"idle", "unmask"} /\ cx'[IRQ].next \in {"idle", "mis", "icr"}
  BY CtxFacts DEF Sync, Sender
<1>5. SyncLocals(cx'[Sender'], tx'._start, tx'._end)
  BY <1>1
<1> QED BY <1>2, <1>3, <1>4, <1>5 DEF Sync, SyncLocals, Sender

(* What Load, Goto and Use do to the locals.                               *)
LEMMA LoadSync ==
  ASSUME IInv, Sync, ~sys._irqs_ready, NEW x \in Ctx, x = Sender, UNCHANGED sys,
         NEW r, NEW p, Load(x, r, p),
         SyncLocals([cx[x] EXCEPT !.reg = r, !.pc = p], tx'._start, tx'._end)
  PROVE  Sync'
<1>1. cx'[x] = [cx[x] EXCEPT !.reg = r, !.pc = p] /\ \A y \in Ctx : y # x => cx'[y] = cx[y]
  BY DEF Load, IInv, TypeOK
<1>2. cx'[x].next = cx[x].next
  BY <1>1 DEF IInv, TypeOK, CtxType
<1> QED BY <1>1, <1>2, SyncFrame

LEMMA GotoSync ==
  ASSUME IInv, Sync, ~sys._irqs_ready, NEW x \in Ctx, x = Sender, UNCHANGED sys,
         NEW p, Goto(x, p),
         SyncLocals([cx[x] EXCEPT !.pc = p], tx'._start, tx'._end)
  PROVE  Sync'
<1>1. cx'[x] = [cx[x] EXCEPT !.pc = p] /\ \A y \in Ctx : y # x => cx'[y] = cx[y]
  BY DEF Goto, IInv, TypeOK
<1>2. cx'[x].next = cx[x].next
  BY <1>1 DEF IInv, TypeOK, CtxType
<1> QED BY <1>1, <1>2, SyncFrame

LEMMA UseSync ==
  ASSUME IInv, Sync, ~sys._irqs_ready, NEW x \in Ctx, x = Sender, UNCHANGED sys,
         NEW p, Use(x, p),
         SyncLocals([cx[x] EXCEPT !.reg = 0, !.pc = p], tx'._start, tx'._end)
  PROVE  Sync'
BY LoadSync DEF Use

(* What is known of the sending context.                                   *)
LEMMA SenderFacts ==
  ASSUME IInv, Sync, ~sys._irqs_ready, NEW x \in Ctx, x = Sender
  PROVE  /\ tx._start \in Index /\ tx._end \in Index /\ cx[x] \in CtxType
         /\ SyncLocals(cx[x], tx._start, tx._end) /\ Locals(cx[x])
BY CtxStepTypes DEF Sync

LEMMA SendCharSync ==
  ASSUME IInv, Sync, ~sys._irqs_ready, NEW x \in Ctx, x = Sender, SendChar(x)
  PROVE  Sync'
<1>1. cx[x] \in CtxType /\ cx[x].pc = "send" /\ UNCHANGED <<tx, sys>> /\ tx._start = tx._end
  BY SenderFacts DEF SendChar, At, SyncLocals
<1>2. CASE cx[x].todo = << >>
  <2> DEFINE k == [Idle EXCEPT !.pc = cx[x].next, !.mis = cx[x].mis]
  <2>1. cx'[x] = k /\ \A y \in Ctx : y # x => cx'[y] = cx[y]
    BY <1>2 DEF SendChar, IInv, TypeOK
  <2>2. k.pc \in {"idle", "mis", "icr", "unmask"} /\ k.next = "idle"
    <3>1. cx[x].next \in {"idle", "mis", "icr", "unmask"}
      BY <1>1, CtxFacts DEF Sync, Sender
    <3> QED BY <3>1 DEF Idle
  <2> HIDE DEF k
  <2>3. SyncLocals(k, tx'._start, tx'._end)
    BY <1>1, <2>2 DEF SyncLocals, Draining
  <2>4. x = Core0 \/ x = IRQ
    BY DEF Sender
  <2> QED BY <1>1, <2>1, <2>2, <2>3, <2>4, SyncFrame
<1>3. CASE cx[x].todo # << >>
  <2> DEFINE k == [cx[x] EXCEPT !.pc = "b1", !.chr = IF Head(cx[x].todo) = NL THEN CR ELSE Head(cx[x].todo)]
  <2>1. cx' = [cx EXCEPT ![x] = k]
    BY <1>3 DEF SendChar
  <2>2. k.pc = "b1" /\ k.next = cx[x].next /\ k.chr # NL
    BY <1>1 DEF CtxType, NL, CR
  <2> HIDE DEF k
  <2>3. SyncLocals(k, tx'._start, tx'._end)
    BY <1>1, <2>2 DEF SyncLocals, Draining
  <2>4. cx'[x] = k /\ \A y \in Ctx : y # x => cx'[y] = cx[y]
    BY <2>1 DEF IInv, TypeOK
  <2> QED BY <1>1, <2>2, <2>3, <2>4, SyncFrame
<1> QED BY <1>2, <1>3

LEMMA BufferedSync ==
  ASSUME IInv, Sync, ~sys._irqs_ready, NEW x \in Ctx, x = Sender, UNCHANGED <<tx, sys>>,
         cx[x].pc = "b6", Buffered(x)
  PROVE  Sync'
<1>1. cx[x] \in CtxType /\ tx._end = IF cx[x].chr = NL THEN Bump(Bump(tx._start)) ELSE Bump(tx._start)
  BY SenderFacts DEF SyncLocals
<1>2. CASE cx[x].chr = CR /\ Head(cx[x].todo) = NL
  <2> DEFINE k == [cx[x] EXCEPT !.pc = "b1", !.chr = NL, !.reg = 0]
  <2>1. cx' = [cx EXCEPT ![x] = k]
    BY <1>2 DEF Buffered
  <2>2. k.pc = "b1" /\ k.next = cx[x].next /\ k.chr = NL /\ tx._end = Bump(tx._start)
    BY <1>1, <1>2 DEF CtxType, NL, CR
  <2> HIDE DEF k
  <2>3. SyncLocals(k, tx'._start, tx'._end)
    BY <2>2 DEF SyncLocals, Draining
  <2>4. cx'[x] = k /\ \A y \in Ctx : y # x => cx'[y] = cx[y]
    BY <2>1 DEF IInv, TypeOK
  <2> QED BY <2>2, <2>3, <2>4, SyncFrame
<1>3. CASE ~(cx[x].chr = CR /\ Head(cx[x].todo) = NL)
  <2> DEFINE k == [cx[x] EXCEPT !.pc = "d1", !.todo = Tail(cx[x].todo), !.ret = "send",
                          !.chr = NUL, !.reg = 0]
  <2>1. cx' = [cx EXCEPT ![x] = k]
    BY <1>3 DEF Buffered
  <2>2. k.pc = "d1" /\ k.next = cx[x].next /\ k.ret = "send"
    BY <1>1 DEF CtxType
  <2> HIDE DEF k
  <2>3. SyncLocals(k, tx'._start, tx'._end)
    BY <2>2 DEF SyncLocals, Draining
  <2>4. cx'[x] = k /\ \A y \in Ctx : y # x => cx'[y] = cx[y]
    BY <2>1 DEF IInv, TypeOK
  <2> QED BY <2>2, <2>3, <2>4, SyncFrame
<1> QED BY <1>2, <1>3

LEMMA BufferCharSync ==
  ASSUME IInv, Sync, ~sys._irqs_ready, NEW x \in Ctx, x = Sender, BufferChar(x), BufferSize > 2
  PROVE  Sync'
<1>0. UNCHANGED sys /\ cx[x] \in CtxType /\ tx \in CharBuffers(Char)
      /\ SyncLocals(cx[x], tx._start, tx._end) /\ tx._start \in Index /\ tx._end \in Index
  BY SenderFacts, CtxStepTypes DEF BufferChar
<1>1. ASSUME NEW p, NEW q, <<p, q>> \in {<<"b1", "b2">>, <<"b3", "b4">>, <<"b5", "b6">>},
             At(x, p), Load(x, tx._end, q), UNCHANGED tx
      PROVE  Sync'
  <2> DEFINE k == [cx[x] EXCEPT !.reg = tx._end, !.pc = q]
  <2>1. k.pc = q /\ k.reg = tx._end /\ k.chr = cx[x].chr /\ cx[x].pc = p
    BY <1>0, <1>1 DEF CtxType, At
  <2>2. SyncLocals(k, tx'._start, tx'._end)
    <3> HIDE DEF k
    <3> QED BY <1>0, <1>1, <2>1 DEF SyncLocals, Draining
  <2> QED BY <1>0, <1>1, <2>2, LoadSync
<1>2. CASE At(x, "b2") /\ tx' = [tx EXCEPT !._ring[cx[x].reg] = cx[x].chr] /\ Use(x, "b3")
  <2> DEFINE k == [cx[x] EXCEPT !.reg = 0, !.pc = "b3"]
  <2>1. k.pc = "b3" /\ k.chr = cx[x].chr /\ cx[x].pc = "b2"
    BY <1>0, <1>2 DEF CtxType, At
  <2>2. tx'._start = tx._start /\ tx'._end = tx._end
    BY <1>0, <1>2 DEF CharBuffers
  <2>3. SyncLocals(k, tx'._start, tx'._end)
    <3> HIDE DEF k
    <3> QED BY <1>0, <2>1, <2>2 DEF SyncLocals, Draining
  <2> QED BY <1>0, <1>2, <2>3, UseSync
<1>3. CASE At(x, "b4") /\ tx' = [tx EXCEPT !._end = Bump(cx[x].reg)] /\ Use(x, "b5")
  <2> DEFINE k == [cx[x] EXCEPT !.reg = 0, !.pc = "b5"]
  <2>1. k.pc = "b5" /\ k.chr = cx[x].chr /\ cx[x].pc = "b4"
    BY <1>0, <1>3 DEF CtxType, At
  <2>2. tx'._start = tx._start /\ tx'._end = Bump(tx._end)
    BY <1>0, <1>3, <2>1 DEF CharBuffers, SyncLocals
  <2>3. SyncLocals(k, tx'._start, tx'._end)
    <3> HIDE DEF k
    <3> QED BY <1>0, <2>1, <2>2 DEF SyncLocals, Draining
  <2> QED BY <1>0, <1>3, <2>3, UseSync
<1>4. CASE /\ At(x, "b6")
           /\ IF cx[x].reg = tx._start THEN Use(x, "b7") ELSE Buffered(x)
           /\ UNCHANGED tx
  <2>1. cx[x].pc = "b6" /\ cx[x].reg # tx._start
    BY <1>0, <1>4, BumpMoves DEF At, SyncLocals
  <2> QED BY <1>0, <1>4, <2>1, BufferedSync
<1>5. ~At(x, "b7") /\ ~At(x, "b8")
  BY <1>0 DEF At, SyncLocals
<1>6. CASE StoreChar(x)
  BY <1>1, <1>2, <1>6 DEF StoreChar
<1>7. CASE IncrementEnd(x)
  BY <1>1, <1>3, <1>7 DEF IncrementEnd
<1>8. CASE LeakIfFull(x)
  BY <1>1, <1>4, <1>5, <1>8 DEF LeakIfFull
<1> QED BY <1>6, <1>7, <1>8 DEF BufferChar

LEMMA DrainTxSync ==
  ASSUME IInv, Sync, ~sys._irqs_ready, NEW x \in Ctx, x = Sender, DrainTx(x)
  PROVE  Sync'
<1>0. UNCHANGED sys /\ cx[x] \in CtxType /\ tx \in CharBuffers(Char)
      /\ SyncLocals(cx[x], tx._start, tx._end) /\ tx._start \in Index /\ tx._end \in Index
  BY SenderFacts, CtxStepTypes DEF DrainTx
<1>1. ASSUME NEW p, NEW q, <<p, q>> \in {<<"d2", "d3">>, <<"d4", "d5">>, <<"d6", "d7">>},
             At(x, p), Load(x, tx._start, q), UNCHANGED tx
      PROVE  Sync'
  <2> DEFINE k == [cx[x] EXCEPT !.reg = tx._start, !.pc = q]
  <2>1. k.pc = q /\ k.reg = tx._start /\ k.ret = cx[x].ret /\ cx[x].pc = p
    BY <1>0, <1>1 DEF CtxType, At
  <2>2. SyncLocals(k, tx'._start, tx'._end)
    <3> HIDE DEF k
    <3> QED BY <1>0, <1>1, <2>1 DEF SyncLocals, Draining
  <2> QED BY <1>0, <1>1, <2>2, LoadSync
<1>2. ASSUME NEW k \in CtxType, NEW q \in {"d1", "d2", "d4", "e1"}, cx[x].pc \in {"d1", "d3", "d8"},
             cx' = [cx EXCEPT ![x] = k], k.pc = q, k.ret = cx[x].ret, k.next = cx[x].next,
             UNCHANGED tx, q = "d4" => tx._start # tx._end
      PROVE  Sync'
  <2>1. SyncLocals(k, tx'._start, tx'._end)
    BY <1>0, <1>2 DEF SyncLocals, Draining
  <2>2. cx'[x] = k /\ \A y \in Ctx : y # x => cx'[y] = cx[y]
    BY <1>2 DEF IInv, TypeOK
  <2> QED BY <1>0, <1>2, <2>1, <2>2, SyncFrame
<1>3. CASE PollRoom(x)
  <2> DEFINE q == IF TXFF THEN "e1" ELSE "d2"
             k == [cx[x] EXCEPT !.pc = q]
  <2>1. cx' = [cx EXCEPT ![x] = k] /\ cx[x].pc = "d1" /\ UNCHANGED tx
    BY <1>3 DEF PollRoom, Goto, At
  <2>2. k \in CtxType /\ k.pc = q /\ k.ret = cx[x].ret /\ k.next = cx[x].next
    <3>1. q \in Pcs
      BY DEF Pcs, Draining
    <3> HIDE DEF q
    <3> QED BY <1>0, <3>1 DEF CtxType
  <2>3. q \in {"d2", "e1"}
    OBVIOUS
  <2> HIDE DEF k, q
  <2> QED BY <1>2, <2>1, <2>2, <2>3
<1>4. CASE WriteDR(x)
  <2> DEFINE k == [cx[x] EXCEPT !.pc = "d1", !.chr = NUL]
  <2>1. cx' = [cx EXCEPT ![x] = k] /\ cx[x].pc = "d8" /\ UNCHANGED tx
    BY <1>4 DEF WriteDR, At
  <2>2. k \in CtxType /\ k.pc = "d1" /\ k.ret = cx[x].ret /\ k.next = cx[x].next
    <3>1. "d1" \in Pcs /\ NUL \in Char
      BY CharFacts DEF Pcs, Draining
    <3> QED BY <1>0, <3>1 DEF CtxType
  <2> HIDE DEF k
  <2> QED BY <1>2, <2>1, <2>2
<1>5. CASE At(x, "d3") /\ Use(x, IF cx[x].reg = tx._end THEN "e1" ELSE "d4") /\ UNCHANGED tx
  <2> DEFINE q == IF cx[x].reg = tx._end THEN "e1" ELSE "d4"
             k == [cx[x] EXCEPT !.reg = 0, !.pc = q]
  <2>1. cx[x].pc = "d3" /\ cx[x].reg = tx._start /\ 0 \in Index
    BY <1>0, <1>5, BufferSizeAssumption DEF At, SyncLocals, Index
  <2>2. cx' = [cx EXCEPT ![x] = k]
    BY <1>5 DEF Use, Load
  <2>3. k \in CtxType /\ k.pc = q /\ k.ret = cx[x].ret /\ k.next = cx[x].next
    <3>1. q \in Pcs
      BY DEF Pcs, Draining
    <3> HIDE DEF q
    <3> QED BY <1>0, <2>1, <3>1 DEF CtxType
  <2>4. q \in {"d4", "e1"} /\ (q = "d4" => tx._start # tx._end)
    BY <2>1
  <2> HIDE DEF k, q
  <2> QED BY <1>2, <1>5, <2>1, <2>2, <2>3, <2>4
<1>6. CASE /\ At(x, "d5")
           /\ cx' = [cx EXCEPT ![x].chr = tx._ring[cx[x].reg], ![x].reg = 0, ![x].pc = "d6"]
           /\ UNCHANGED tx
  <2> DEFINE k == [cx[x] EXCEPT !.chr = tx._ring[cx[x].reg], !.reg = 0, !.pc = "d6"]
  <2>1. cx'[x] = k /\ \A y \in Ctx : y # x => cx'[y] = cx[y]
    BY <1>6 DEF IInv, TypeOK
  <2>2. k.pc = "d6" /\ k.ret = cx[x].ret /\ k.next = cx[x].next /\ cx[x].pc = "d5"
    BY <1>0, <1>6 DEF CtxType, At
  <2> HIDE DEF k
  <2>3. SyncLocals(k, tx'._start, tx'._end)
    BY <1>0, <1>6, <2>2 DEF SyncLocals, Draining
  <2> QED BY <1>0, <2>1, <2>2, <2>3, SyncFrame
<1>7. CASE At(x, "d7") /\ tx' = [tx EXCEPT !._start = Bump(cx[x].reg)] /\ Use(x, "d8")
  <2> DEFINE k == [cx[x] EXCEPT !.reg = 0, !.pc = "d8"]
  <2>1. k.pc = "d8" /\ k.ret = cx[x].ret /\ cx[x].pc = "d7"
    BY <1>0, <1>7 DEF CtxType, At
  <2>2. k.ret # "irq"
    BY <1>0, <2>1 DEF SyncLocals, Draining
  <2>3. SyncLocals(k, tx'._start, tx'._end)
    <3> HIDE DEF k
    <3> QED BY <2>1, <2>2 DEF SyncLocals, Draining
  <2> QED BY <1>0, <1>7, <2>3, UseSync
<1>8. CASE ReadChar(x)
  BY <1>1, <1>5, <1>6, <1>7, <1>8 DEF ReadChar
<1> QED BY <1>3, <1>4, <1>8 DEF DrainTx

(* elements_in_buffer, in uint8_t arithmetic, is not 0 for a buffer that   *)
(* holds something.                                                        *)
LEMMA CountIsNotZero ==
  ASSUME NEW start \in Index, NEW end \in Index
  PROVE  /\ start < end => (start - end) % 256 # 0
         /\ start > end => (BufferSize - start + end + 1) % 256 # 0
<1>1. ASSUME start < end PROVE (start - end) % 256 # 0
  <2>1. start - end \in -254 .. -1
    BY <1>1, BufferSizeAssumption DEF Index
  <2> QED BY <2>1
<1>2. ASSUME start > end PROVE (BufferSize - start + end + 1) % 256 # 0
  <2>1. BufferSize - start + end + 1 \in 1 .. 255
    BY <1>2, BufferSizeAssumption DEF Index
  <2> QED BY <2>1
<1> QED BY <1>1, <1>2

LEMMA CheckEmptySync ==
  ASSUME IInv, Sync, ~sys._irqs_ready, NEW x \in Ctx, x = Sender, CheckEmpty(x),
         UNCHANGED <<tx, rx, uart, sys>>
  PROVE  Sync'
<1>0. cx[x] \in CtxType /\ cx[x].ret \in {"send", "sync", "irq"} /\ Locals(cx[x])
      /\ SyncLocals(cx[x], tx._start, tx._end) /\ tx._start \in Index /\ tx._end \in Index
  BY SenderFacts, CtxStepTypes
<1>1. ASSUME NEW l \in {<<"e1", "e2">>, <<"lt1", "lt2">>, <<"neg1", "neg2">>, <<"wrap1", "wrap2">>},
             At(x, l[1]), Load(x, tx._start, l[2])
      PROVE  Sync'
  <2> DEFINE k == [cx[x] EXCEPT !.reg = tx._start, !.pc = l[2]]
  <2>1. k.pc = l[2] /\ k.reg = tx._start /\ k.ret = cx[x].ret /\ cx[x].pc = l[1]
    BY <1>0, <1>1 DEF CtxType, At
  <2>2. SyncLocals(k, tx'._start, tx'._end)
    <3> HIDE DEF k
    <3> QED BY <1>0, <1>1, <2>1 DEF SyncLocals, Draining
  <2> QED BY <1>1, <2>2, LoadSync
<1>2. ASSUME NEW q \in {"off1", "send", "lt1", "neg1", "wrap1", "e3", "wait"}, Use(x, q),
             q \in {"off1", "send"} => tx._start = tx._end,
             q = "lt1" => tx._start # tx._end /\ cx[x].ret # "irq",
             q = "neg1" => tx._start < tx._end /\ cx[x].ret # "irq",
             q = "wrap1" => tx._start > tx._end /\ cx[x].ret # "irq"
      PROVE  Sync'
  <2> DEFINE k == [cx[x] EXCEPT !.reg = 0, !.pc = q]
  <2>1. k.pc = q /\ k.ret = cx[x].ret
    BY <1>0 DEF CtxType
  <2>2. SyncLocals(k, tx'._start, tx'._end)
    <3> HIDE DEF k
    <3> QED BY <1>0, <1>2, <2>1 DEF SyncLocals, Draining
  <2> QED BY <1>2, <2>2, UseSync
<1>3. CASE At(x, "e2") /\ Use(x, IF cx[x].reg = tx._end THEN AfterDrain(cx[x].ret, TRUE) ELSE "lt1")
  <2>1. cx[x].reg = tx._start /\ (cx[x].ret = "irq" => tx._start = tx._end)
    BY <1>0, <1>3 DEF At, SyncLocals, Draining
  <2>2. AfterDrain(cx[x].ret, TRUE) \in {"off1", "send"}
    BY <1>0 DEF AfterDrain
  <2> QED BY <1>2, <1>3, <2>1, <2>2
<1>4. CASE At(x, "lt2") /\ Use(x, IF cx[x].reg < tx._end THEN "neg1" ELSE "wrap1")
  <2>1. cx[x].reg = tx._start /\ cx[x].ret # "irq" /\ tx._start # tx._end
    BY <1>0, <1>4 DEF At, SyncLocals, Draining
  <2>2. tx._start < tx._end \/ tx._start > tx._end
    BY <1>0, <2>1, BufferSizeAssumption DEF Index
  <2> QED BY <1>0, <1>2, <1>4, <2>1, <2>2, BufferSizeAssumption DEF Index
<1>5. ASSUME cx[x].ret # "irq", Use(x, AfterDrain(cx[x].ret, FALSE)) PROVE Sync'
  <2>1. AfterDrain(cx[x].ret, FALSE) \in {"e3", "wait"}
    BY <1>0, <1>5 DEF AfterDrain
  <2> QED BY <1>2, <1>5, <2>1
<1>6. CASE At(x, "neg2") /\ Use(x, AfterDrain(cx[x].ret, (cx[x].reg - tx._end) % 256 = 0))
  <2>1. cx[x].reg = tx._start /\ tx._start < tx._end /\ (cx[x].ret = "irq" => tx._start = tx._end)
    BY <1>0, <1>6 DEF At, SyncLocals, Draining
  <2>2. cx[x].ret # "irq"
    BY <1>0, <2>1, BufferSizeAssumption DEF Index
  <2>3. ((cx[x].reg - tx._end) % 256 = 0) = FALSE
    BY <1>0, <2>1, CountIsNotZero
  <2> QED BY <1>5, <1>6, <2>2, <2>3
<1>7. CASE /\ At(x, "wrap2")
           /\ Use(x, AfterDrain(cx[x].ret, (BufferSize - cx[x].reg + tx._end + 1) % 256 = 0))
  <2>1. cx[x].reg = tx._start /\ tx._start > tx._end /\ (cx[x].ret = "irq" => tx._start = tx._end)
    BY <1>0, <1>7 DEF At, SyncLocals, Draining
  <2>2. cx[x].ret # "irq"
    BY <1>0, <2>1, BufferSizeAssumption DEF Index
  <2>3. ((BufferSize - cx[x].reg + tx._end + 1) % 256 = 0) = FALSE
    BY <1>0, <2>1, CountIsNotZero
  <2> QED BY <1>5, <1>7, <2>2, <2>3
<1>8. CASE At(x, "e3") /\ cx' = [cx EXCEPT ![x] = IF sys._irqs_ready
                                                 THEN [@ EXCEPT !.pc = "on1"]
                                                 ELSE [@ EXCEPT !.pc = "e1", !.ret = "sync"]]
  <2> DEFINE k == [cx[x] EXCEPT !.pc = "e1", !.ret = "sync"]
  <2>1. cx' = [cx EXCEPT ![x] = k]
    BY <1>8
  <2>2. k.pc = "e1" /\ k.ret = "sync" /\ k.next = cx[x].next
    BY <1>0 DEF CtxType
  <2> HIDE DEF k
  <2>3. SyncLocals(k, tx'._start, tx'._end)
    BY <2>2 DEF SyncLocals, Draining
  <2>4. cx'[x] = k /\ \A y \in Ctx : y # x => cx'[y] = cx[y]
    BY <2>1 DEF IInv, TypeOK
  <2> QED BY <2>2, <2>3, <2>4, SyncFrame
<1>9. CASE At(x, "wait") /\ Goto(x, "d1")
  <2> DEFINE k == [cx[x] EXCEPT !.pc = "d1"]
  <2>1. k.pc = "d1" /\ k.ret = cx[x].ret /\ cx[x].ret = "sync"
    BY <1>0, <1>9 DEF CtxType, At, Locals
  <2>2. SyncLocals(k, tx'._start, tx'._end)
    <3> HIDE DEF k
    <3> QED BY <2>1 DEF SyncLocals, Draining
  <2> QED BY <1>9, <2>2, GotoSync
<1> QED BY <1>1, <1>3, <1>4, <1>6, <1>7, <1>8, <1>9 DEF CheckEmpty

LEMMA ToggleTxSync ==
  ASSUME IInv, Sync, ~sys._irqs_ready, NEW x \in Ctx, x = Sender, ToggleTx(x)
  PROVE  Sync'
<1>0. UNCHANGED <<tx, sys>> /\ cx[x] \in CtxType /\ SyncLocals(cx[x], tx._start, tx._end)
  BY SenderFacts DEF ToggleTx
<1>1. CASE At(x, "off1") /\ cx' = [cx EXCEPT ![x].imsc = uart.IMSC, ![x].pc = "off2"]
  <2> DEFINE k == [cx[x] EXCEPT !.imsc = uart.IMSC, !.pc = "off2"]
  <2>1. cx'[x] = k /\ \A y \in Ctx : y # x => cx'[y] = cx[y]
    BY <1>1 DEF IInv, TypeOK
  <2>2. k.pc = "off2" /\ k.next = cx[x].next /\ tx._start = tx._end
    BY <1>0, <1>1 DEF CtxType, At, SyncLocals
  <2> HIDE DEF k
  <2>3. SyncLocals(k, tx'._start, tx'._end)
    BY <1>0, <2>2 DEF SyncLocals, Draining
  <2> QED BY <1>0, <2>1, <2>2, <2>3, SyncFrame
<1>2. CASE /\ At(x, "off2")
           /\ cx' = [cx EXCEPT ![x].pc = IF cx[x].ret = "irq" THEN "rx" ELSE "send", ![x].imsc = {}]
  <2> DEFINE k == [cx[x] EXCEPT !.pc = IF cx[x].ret = "irq" THEN "rx" ELSE "send", !.imsc = {}]
  <2>1. cx'[x] = k /\ \A y \in Ctx : y # x => cx'[y] = cx[y]
    BY <1>2 DEF IInv, TypeOK
  <2>2. k.pc \in {"rx", "send"} /\ k.next = cx[x].next /\ tx._start = tx._end
    BY <1>0, <1>2 DEF CtxType, At, SyncLocals
  <2> HIDE DEF k
  <2>3. SyncLocals(k, tx'._start, tx'._end)
    BY <1>0, <2>2 DEF SyncLocals, Draining
  <2> QED BY <1>0, <2>1, <2>2, <2>3, SyncFrame
<1>3. ~At(x, "on1") /\ ~At(x, "on2")
  BY <1>0 DEF At, SyncLocals
<1> QED BY <1>1, <1>2, <1>3 DEF ToggleTx

LEMMA SendSync ==
  ASSUME IInv, Sync, ~sys._irqs_ready, NEW x \in Ctx, x = Sender, Send(x), BufferSize > 2
  PROVE  Sync'
BY SendCharSync, BufferCharSync, DrainTxSync, CheckEmptySync, ToggleTxSync DEF Send

LEMMA SendsFrom == ASSUME NEW x, Send(x) PROVE cx[x].pc \notin {"idle", "signal", "initialize"}
<1>1. CASE SendChar(x)
  BY <1>1 DEF SendChar, At
<1>2. CASE BufferChar(x)
  BY <1>2 DEF BufferChar, StoreChar, IncrementEnd, LeakIfFull, At
<1>3. CASE DrainTx(x)
  BY <1>3 DEF DrainTx, PollRoom, ReadChar, WriteDR, At
<1>4. CASE CheckEmpty(x)
  <2>1. ASSUME NEW l \in {<<"e1", "e2">>, <<"lt1", "lt2">>, <<"neg1", "neg2">>, <<"wrap1", "wrap2">>},
               At(x, l[1])
        PROVE  cx[x].pc \in {"e1", "lt1", "neg1", "wrap1"}
    BY <2>1 DEF At
  <2>2. \/ cx[x].pc \in {"e1", "lt1", "neg1", "wrap1"}
        \/ \E p \in {"e2", "lt2", "neg2", "wrap2", "e3", "wait"} : At(x, p)
    BY <1>4, <2>1, Zenon DEF CheckEmpty
  <2> QED BY <2>2 DEF At
<1>5. CASE ToggleTx(x)
  BY <1>5 DEF ToggleTx, At
<1> QED BY <1>1, <1>2, <1>3, <1>4, <1>5 DEF Send

LEMMA HandlerSync ==
  ASSUME IInv, Sync, ~sys._irqs_ready, Handler \/ irq_handler, BufferSize > 2
  PROVE  Sync'
<1>0. IRQ \in Ctx /\ cx[IRQ] \in CtxType
  BY CtxFacts DEF IInv, TypeOK
<1>1. IRQ = Sender
  <2>1. CASE irq_handler
    BY <2>1 DEF irq_handler, Sender
  <2>2. CASE Handler
    <3>1. cx[IRQ].pc # "idle"
      BY <2>2, SendsFrom DEF Handler, HandleTx, HandleRx, ClearAndReturn, At
    <3> QED BY <3>1 DEF Sync, Sender
  <2> QED BY <2>1, <2>2
<1>2. SyncLocals(cx[IRQ], tx._start, tx._end)
  BY <1>0, <1>1, SenderFacts
<1>3. ASSUME NEW k, cx' = [cx EXCEPT ![IRQ] = k], UNCHANGED <<tx, sys>>, tx._start = tx._end,
             k.pc \in {"send", "idle", "d1", "rx", "icr"}, k.next \in {"idle", "mis", "icr"}
      PROVE  Sync'
  <2>1. cx'[IRQ] = k /\ \A y \in Ctx : y # IRQ => cx'[y] = cx[y]
    BY <1>0, <1>3 DEF IInv, TypeOK
  <2>2. SyncLocals(k, tx'._start, tx'._end)
    BY <1>3 DEF SyncLocals, Draining
  <2> QED BY <1>0, <1>1, <1>3, <2>1, <2>2, SyncFrame
<1>4. cx[IRQ].next \in {"idle", "mis", "icr"}
  BY DEF Sync
<1>5. CASE irq_handler
  <2> DEFINE k == [Idle EXCEPT !.pc = "send", !.todo = Banner, !.next = "mis"]
  <2>1. cx' = [cx EXCEPT ![IRQ] = k] /\ UNCHANGED <<tx, sys>> /\ tx._start = tx._end
    BY <1>2, <1>5 DEF irq_handler, SyncLocals
  <2>2. k.pc = "send" /\ k.next = "mis"
    BY IdleType DEF CtxType
  <2> HIDE DEF k
  <2> QED BY <1>3, <2>1, <2>2
<1>6. CASE HandleTx
  <2> DEFINE k == [cx[IRQ] EXCEPT !.mis = MIS, !.ret = "irq",
                                  !.pc = IF "tx" \in MIS THEN "d1" ELSE "rx"]
  <2>1. cx' = [cx EXCEPT ![IRQ] = k] /\ UNCHANGED <<tx, sys>> /\ tx._start = tx._end
    BY <1>2, <1>6 DEF HandleTx, SyncLocals, At
  <2>2. k.pc \in {"d1", "rx"} /\ k.next = cx[IRQ].next
    BY <1>0 DEF CtxType
  <2> HIDE DEF k
  <2> QED BY <1>3, <1>4, <2>1, <2>2
<1>7. CASE HandleRx
  <2>1. UNCHANGED <<tx, sys>> /\ tx._start = tx._end
    BY <1>2, <1>7 DEF HandleRx, SyncLocals, At
  <2>2. CASE "rx" \in cx[IRQ].mis
    <3> DEFINE k == [cx[IRQ] EXCEPT !.pc = "send", !.next = "icr", !.todo = print_buffer(rx')]
    <3>1. cx' = [cx EXCEPT ![IRQ] = k]
      BY <1>7, <2>2 DEF HandleRx
    <3>2. k.pc = "send" /\ k.next = "icr"
      BY <1>0 DEF CtxType
    <3> HIDE DEF k
    <3> QED BY <1>3, <2>1, <3>1, <3>2
  <2>3. CASE "rx" \notin cx[IRQ].mis
    <3> DEFINE k == [cx[IRQ] EXCEPT !.pc = "icr"]
    <3>1. cx' = [cx EXCEPT ![IRQ] = k]
      BY <1>7, <2>3 DEF HandleRx, Goto
    <3>2. k.pc = "icr" /\ k.next = cx[IRQ].next
      BY <1>0 DEF CtxType
    <3> HIDE DEF k
    <3> QED BY <1>3, <1>4, <2>1, <3>1, <3>2
  <2> QED BY <2>2, <2>3
<1>8. CASE ClearAndReturn
  <2>1. cx' = [cx EXCEPT ![IRQ] = Idle] /\ UNCHANGED <<tx, sys>> /\ tx._start = tx._end
    BY <1>2, <1>8 DEF ClearAndReturn, SyncLocals, At
  <2> QED BY <1>3, <2>1 DEF Idle
<1>9. CASE Send(IRQ)
  BY <1>0, <1>1, <1>9, SendSync
<1> QED BY <1>5, <1>6, <1>7, <1>8, <1>9 DEF Handler

LEMMA NextSync == ASSUME IInv, Sync, [Next]_vars, BufferSize > 2 PROVE Sync'
<1> SUFFICES ASSUME ~sys'._irqs_ready PROVE Sync'
  BY DEF Sync
<1>1. CASE UNCHANGED <<tx, cx>> /\ sys'._irqs_ready = sys._irqs_ready /\ sys'.masked = sys.masked
  BY <1>1 DEF Sync, SyncLocals, Sender
<1>2. CASE Device
  <2>1. UNCHANGED <<tx, cx>> /\ sys'._irqs_ready = sys._irqs_ready /\ sys'.masked = sys.masked
    BY <1>2 DEF Device, Shift, Arrive, IInv, TypeOK
  <2> QED BY <1>1, <2>1
<1>3. CASE UNCHANGED vars
  BY <1>1, <1>3 DEF vars
<1>4. CASE Handler \/ irq_handler
  <2>1. sys' = sys
    BY <1>4 DEF Handler, irq_handler, HandleTx, HandleRx, ClearAndReturn, Send, SendChar, BufferChar,
                DrainTx, ToggleTx
  <2> QED BY <1>4, <2>1, HandlerSync
<1>5. CASE initialize
  <2> DEFINE k == [cx[Core0] EXCEPT !.pc = "send", !.todo = BootMsg, !.next = "unmask"]
  <2>1. cx' = [cx EXCEPT ![Core0] = k] /\ UNCHANGED <<tx, sys>> /\ cx[Core0].pc = "initialize"
    BY <1>5 DEF initialize, At
  <2>2. Core0 \in Ctx /\ cx[Core0] \in CtxType /\ sys.masked
    BY <2>1, CtxFacts DEF IInv, TypeOK, Control
  <2>3. tx._start = tx._end /\ Core0 = Sender
    BY <2>1, <2>2 DEF Sync, SyncLocals, Sender
  <2>4. k.pc = "send" /\ k.next = "unmask"
    BY <2>2 DEF CtxType
  <2> HIDE DEF k
  <2>5. cx'[Core0] = k /\ \A y \in Ctx : y # Core0 => cx'[y] = cx[y]
    BY <2>1, <2>2 DEF IInv, TypeOK
  <2>6. SyncLocals(k, tx'._start, tx'._end)
    BY <2>1, <2>3, <2>4 DEF SyncLocals, Draining
  <2> QED BY <2>1, <2>2, <2>3, <2>4, <2>5, <2>6, SyncFrame
<1>6. CASE unmask_irqs
  <2>1. cx[Core0].pc = "unmask" /\ Goto(Core0, "signal") /\ UNCHANGED tx
        /\ sys' = [sys EXCEPT !.masked = FALSE]
    BY <1>6 DEF unmask_irqs, At
  <2>2. sys'._irqs_ready = sys._irqs_ready /\ ~sys'.masked
    BY <2>1 DEF IInv, TypeOK
  <2>3. sys.masked /\ cx[IRQ].pc = "idle" /\ tx._start = tx._end
    BY <2>1, <2>2 DEF Sync, SyncLocals, Sender
  <2>4. /\ cx'[Core0].pc = "signal" /\ cx'[Core0].next = cx[Core0].next
        /\ \A y \in Ctx : y # Core0 => cx'[y] = cx[y]
    BY <2>1, CtxFacts DEF Goto, IInv, TypeOK, CtxType
  <2>5. SyncLocals(cx'[IRQ], tx'._start, tx'._end)
    BY <2>1, <2>3, <2>4, CtxFacts DEF SyncLocals, Draining
  <2> QED BY <2>1, <2>2, <2>3, <2>4, <2>5, CtxFacts DEF Sync, Sender, SyncLocals
<1>7. ASSUME NEW x \in Thread, boot_core(x) \/ secondary_kern_main(x) PROVE Sync'
  <2>1. ~signal_irqs_ready(x)
    BY DEF signal_irqs_ready, IInv, TypeOK
  <2>2. ~sys._irqs_ready
    BY <1>7, <2>1 DEF boot_core, secondary_kern_main, LockAndPrint, Unlock, Send, SendChar, BufferChar,
                      DrainTx, ToggleTx, IInv, TypeOK
  <2>3. /\ x \in Secondary => cx[x].pc = "idle"
        /\ cx[Core0].pc \notin {"lock", "unlock", "parked"}
        /\ ~sys.masked => cx[Core0].pc = "signal"
    BY <2>2 DEF Sync, SyncLocals, Sender
  <2>4. ~boot_core(x) /\ ~LockAndPrint(x) /\ ~Unlock(x)
    BY <2>3 DEF boot_core, LockAndPrint, Unlock, At, Thread
  <2>5. CASE Send(x)
    <3>1. x = Core0 /\ sys.masked /\ x \in Ctx
      BY <2>3, <2>5, SendsFrom, CtxFacts DEF Thread
    <3> QED BY <2>2, <2>5, <3>1, SendSync DEF Sender
  <2> QED BY <1>7, <2>1, <2>4, <2>5 DEF secondary_kern_main
<1> QED BY <1>2, <1>3, <1>4, <1>5, <1>6, <1>7 DEF Next

(* Before IRQs are ready every call of pl011_send_char_async starts with   *)
(* an empty transmit buffer, and leaves one behind: nothing leaks.  The    *)
(* buffer has to take '\r' and '\n' in one call, hence more than 2 slots.  *)
THEOREM SynchronousSendsDrain ==
    ASSUME BufferSize > 2
    PROVE  Spec => []SyncSendsDrain
<1>1. IInv /\ Sync => SyncSendsDrain
  <2> SUFFICES ASSUME IInv, Sync, ~sys._irqs_ready, NEW x \in Ctx
               PROVE  (cx[x].pc = "send" => tx._start = tx._end) /\ cx[x].pc # "b7"
    BY DEF SyncSendsDrain
  <2>1. x = Sender \/ cx[x].pc \in {"idle", "signal"}
    BY DEF Sync, Sender, Ctx, Thread
  <2> QED BY <2>1 DEF Sync, SyncLocals
<1>2. IInv /\ Sync /\ [Next]_vars => Sync'
  BY NextSync
<1> QED BY <1>1, <1>2, InitSync, AlwaysIInv, PTL DEF Spec
=============================================================================
