----------------------------- MODULE Algorithms -----------------------------
(***************************************************************************)
(* The loops behind printing and matching, each against a definition of    *)
(* what it should compute: kprintf_print_number and vkprintf (kstdio.cpp), *)
(* compatible_list_contains (DeviceTree.cpp) with the strlen, strnlen and  *)
(* strncmp it calls (libcstubs.cpp), and calculate_divisors (uart.cpp).  A *)
(* behaviour is one call.                                                  *)
(***************************************************************************)
EXTENDS Integers, Sequences, FiniteSets

CONSTANTS Width,            \* bits of the numbers; 32 and 64 in the code
          NumberBuf,        \* digits that number_buf holds; 20 in the code
          Numbers,          \* <<number, base>>
          Formats,          \* <<format, args>>: characters; whether each argument is a null pointer
          Lists,            \* <<value, next, needle>>: bytes, the byte behind them, bytes
          Clocks            \* <<_uart_clock_frequency, BAUD_RATE>>, of Width bits

ASSUME AlgorithmsAssumption ==
    /\ Width \in Nat \ {0} /\ NumberBuf \in Nat
    /\ \A n \in Numbers : n[1] \in -(2^(Width - 1)) .. 2^Width - 1 /\ n[2] \in {10, 16}
    /\ \A f \in Formats : f[1] \in Seq(STRING) /\ f[2] \in Seq(BOOLEAN)
    /\ \A l \in Lists : /\ l[1] \in Seq(Nat) /\ l[2] \in Nat
                        /\ l[3] \in Seq(Nat \ {0}) /\ l[3] # << >>
    /\ \A c \in Clocks : c[1] \in 1 .. 2^Width - 1 /\ c[2] \in 1 .. 2^Width - 1

VARIABLES job, done, out
vars == <<job, done, out>>

Init ==
    /\ \E kind \in {"number", "format", "list", "clock"} :
          \E input \in (CASE kind = "number" -> Numbers [] kind = "format" -> Formats
                          [] kind = "list" -> Lists [] OTHER -> Clocks) :
              job = [kind |-> kind, input |-> input]
    /\ done = FALSE /\ out = << >>

-----------------------------------------------------------------------------
(* Mutated: the loop that prints the digits stops before the first one; a  *)
(* specifier is not skipped; a prefix is enough; the sixteenth of the      *)
(* clock is divided before the 64ths are taken.                            *)
Reversed_ButOne(s) == [k \in 1 .. Len(s) - 1 |-> s[Len(s) + 1 - k]]
Skip_One(p) == p + 1
SameLength_Any(needle, slen) == TRUE
calculate_divisors_Early(clock, baud) ==
    LET div == 64 * ((clock \div 16) \div baud) IN <<div \div 64, div % 64>>

-----------------------------------------------------------------------------
(* kprintf_print_number: the sign as -1, then the digits.  The division of *)
(* C++ truncates; the negation stays in Width bits, so the most negative   *)
(* number stays what it is.                                                *)
MostNegative == -(2^(Width - 1))
Rem(n, base) == IF n >= 0 THEN n % base ELSE -((-n) % base)
Quo(n, base) == IF n >= 0 THEN n \div base ELSE -((-n) \div base)
Negated(n) == IF n = MostNegative THEN n ELSE -n

Reversed(s) == [k \in 1 .. Len(s) |-> s[Len(s) + 1 - k]]

number_buf(number, base) ==
    LET buf[n \in Int] == IF n = 0 THEN << >> ELSE <<Rem(n, base)>> \o buf[Quo(n, base)]
    IN  buf[number]

(* "char number_buf[20]": the digits of the largest number of Width bits.  *)
ASSUME NumberBufAssumption == Len(number_buf(2^Width - 1, 10)) <= NumberBuf

kprintf_print_number(number, base) ==
    IF number = 0 THEN <<0>>
    ELSE IF number < 0 THEN <<-1>> \o Reversed(number_buf(Negated(number), base))
    ELSE Reversed(number_buf(number, base))

-----------------------------------------------------------------------------
(* vkprintf: what is sent, as a character or a specifier with the number   *)
(* of the argument it took.  A specifier that is not supported takes none. *)
Supported == {"d", "z", "s", "p", "c"}

Skip(p) == p + 2

vkprintf(format, args) ==
    LET sent[p \in Nat] == [a \in Nat |->
            IF p > Len(format) THEN << >>
            ELSE IF format[p] # "%" THEN << <<format[p], 0>> >> \o sent[p + 1][a]
            ELSE IF p = Len(format) THEN sent[p + 1][a]
            ELSE IF format[p + 1] \notin Supported THEN sent[Skip(p)][a]
            ELSE IF format[p + 1] = "s" /\ args[a] THEN << <<"(null)", a>> >> \o sent[Skip(p)][a + 1]
            ELSE << <<format[p + 1], a>> >> \o sent[Skip(p)][a + 1]]
    IN  sent[1][1]

-----------------------------------------------------------------------------
(* Strings end with a 0.  strnlen and strncmp of the string at an offset   *)
(* of a block of memory; both look at a byte before they look at the       *)
(* bound.                                                                  *)
strlen(mem) ==
    LET n[k \in Nat] == IF mem[k + 1] = 0 THEN k ELSE n[k + 1] IN n[0]

strnlen(mem, offset, maxlen) ==
    LET n[k \in Nat] == IF mem[offset + k + 1] = 0 THEN k
                        ELSE IF k = maxlen THEN maxlen ELSE n[k + 1]
    IN  n[0]

strncmp(mem, offset, s2, n) ==
    LET diff[k \in Nat] ==
            LET c1 == mem[offset + k + 1]
                c2 == s2[k + 1]
            IN  IF c1 # 0 /\ c1 = c2 /\ n - k > 1 THEN diff[k + 1] ELSE c1 - c2
    IN  diff[0]

SameLength(needle, slen) == strlen(needle) = slen

compatible_list_contains(mem, len, needle) ==
    LET from[offset \in Nat] ==
            IF offset >= len THEN FALSE
            ELSE LET slen == strnlen(mem, offset, len - offset)
                     end  == offset + slen
                 IN  IF SameLength(needle, slen) /\ strncmp(mem, offset, needle, slen) = 0 THEN TRUE
                     ELSE from[IF end < len /\ mem[end + 1] = 0 THEN end + 1 ELSE end]
    IN  from[0]

-----------------------------------------------------------------------------
(* calculate_divisors: the integer and the fractional part, in 64ths.      *)
calculate_divisors(clock, baud) ==
    LET div == ((4 * clock) % 2^Width) \div baud
    IN  <<(div \div 64) % 2^16, div % 64>>

-----------------------------------------------------------------------------
Return(value) == ~done /\ done' = TRUE /\ out' = value /\ UNCHANGED job

PrintNumber == job.kind = "number" /\ Return(kprintf_print_number(job.input[1], job.input[2]))
PrintFormat == job.kind = "format" /\ Return(vkprintf(job.input[1], job.input[2]))
SearchList  == /\ job.kind = "list"
               /\ LET value == job.input[1]
                  IN  Return(<<compatible_list_contains(value \o <<job.input[2]>>, Len(value),
                                                        job.input[3] \o <<0>>)>>)
Divide == job.kind = "clock" /\ Return(calculate_divisors(job.input[1], job.input[2]))

Next == PrintNumber \/ PrintFormat \/ SearchList \/ Divide
Spec == Init /\ [][Next]_vars

-----------------------------------------------------------------------------
Returned(kind) == done /\ job.kind = kind

(* kprintf_print_number: the digits, read back, are the number; there is   *)
(* no leading zero, and number_buf is large enough.  The one exception is  *)
(* the most negative number, whose negation overflows.                     *)
ReadBack(digits, base) ==
    LET v[k \in 0 .. Len(digits)] == IF k = 0 THEN 0 ELSE v[k - 1] * base + digits[k] IN v[Len(digits)]

NumbersReadBack ==
    (Returned("number") /\ job.input[1] # MostNegative) =>
        LET number == job.input[1]
            base   == job.input[2]
            digits == IF number < 0 THEN Tail(out) ELSE out
        IN  /\ number < 0 => out[1] = -1
            /\ \A k \in DOMAIN digits : digits[k] \in 0 .. base - 1
            /\ ReadBack(digits, base) = (IF number < 0 THEN -number ELSE number)
            /\ number # 0 => digits[1] # 0
            /\ Len(digits) <= NumberBuf

(* vkprintf: a '%' begins a specifier when an even number of '%' stands    *)
(* right before it and something follows; the k-th supported one takes the *)
(* k-th argument, also behind "%%", behind a specifier that is not         *)
(* supported, and at the end of the string; all else is sent as it is.     *)
Begins(format, p) ==
    /\ format[p] = "%"
    /\ \E k \in 0 .. p - 1 : /\ k % 2 = 0
                             /\ \A j \in p - k .. p - 1 : format[j] = "%"
                             /\ p - k > 1 => format[p - k - 1] # "%"

Takes(format, p) == Begins(format, p) /\ p < Len(format) /\ format[p + 1] \in Supported
Sends(format, p) ==
    Takes(format, p) \/ (~Begins(format, p) /\ (p > 1 => ~Begins(format, p - 1)))

FormatsAreFollowed ==
    Returned("format") =>
        LET format == job.input[1]
            taken(p) == {j \in 1 .. p : Takes(format, j)}
            sent(p)  == {j \in 1 .. p : Sends(format, j)}
            what(p)  == IF ~Takes(format, p) THEN <<format[p], 0>>
                        ELSE LET nth == Cardinality(taken(p))
                             IN  <<IF format[p + 1] = "s" /\ job.input[2][nth] THEN "(null)"
                                   ELSE format[p + 1], nth>>
        IN  /\ Len(out) = Cardinality(sent(Len(format)))
            /\ \A p \in sent(Len(format)) : out[Cardinality(sent(p))] = what(p)

(* The needle stands at byte b of the list, as a string of its own.        *)
StandsAt(value, needle, b) ==
    LET after == b + Len(needle)
    IN  /\ b > 1 => value[b - 1] = 0
        /\ after - 1 <= Len(value) /\ SubSeq(value, b, after - 1) = needle
        /\ after <= Len(value) => value[after] = 0

(* compatible_list_contains: "Returns true if any NULL-separated string in *)
(* the "compatible" list equals needle [...] the final string may or may   *)
(* not be '\0'-terminated within len bytes", whatever byte follows.        *)
ListsAreSearched ==
    Returned("list") =>
        out[1] = \E b \in DOMAIN job.input[1] : StandsAt(job.input[1], job.input[3], b)

(* calculate_divisors: the PL011 divides its clock by 16 times integer +   *)
(* fractional / 64; this divisor is the nearest one from below to that of  *)
(* the baud rate, for every clock whose fourfold fits in the word and      *)
(* whose divisor fits in the 16 and 6 bits of the two registers.           *)
DivisorsGiveTheBaudRate ==
    (/\ Returned("clock")
     /\ 4 * job.input[1] < 2^Width /\ 4 * job.input[1] < 2^22 * job.input[2]) =>
        LET clock == job.input[1]
            baud  == job.input[2]
            slower(div) == 64 * clock >= 16 * baud * div
        IN  /\ out[2] \in 0 .. 63
            /\ slower(64 * out[1] + out[2]) /\ ~slower(64 * out[1] + out[2] + 1)
=============================================================================
