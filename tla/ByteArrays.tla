----------------------------- MODULE ByteArrays -----------------------------
(***************************************************************************)
(* RuBLE::ByteArray (containers/ByteArray) and the hexadecimal form it is  *)
(* shown in (utils/hexadecimal.hpp): a Ruby object becomes bytes, the      *)
(* bytes become an integer, and the integer is used in arithmetic.         *)
(*                                                                         *)
(* to_i reads sizeof(T) bytes where the string keeps its characters: its   *)
(* bytes, the terminator after them, and then memory of any content.       *)
(***************************************************************************)
EXTENDS Integers, Sequences, SequencesExt

CONSTANTS
    Base,           \* values of a byte: 256
    IntWidth,       \* sizeof(uint64_t): 8
    Char0, Char1,   \* the codes of '0' and '1': 48 and 49
    Numbers,        \* Ruby numbers, in or out of the range of unsigned long
    Strings         \* contents of Ruby strings and of what a device sends

Bytes == 0..(Base - 1)

ASSUME BaseAssumption == Base \in Nat \ {0, 1} /\ IntWidth \in Nat \ {0}

ASSUME ObjectsAssumption ==
    /\ Char0 \in Nat /\ Char1 \in Nat
    /\ Numbers \subseteq Int /\ Strings \subseteq Seq(Bytes)

\* What a one in the byte behind n others is worth.
Power[n \in Nat] == IF n = 0 THEN 1 ELSE Base * Power[n - 1]

Limit == Power[IntWidth]

VARIABLES
    data,     \* _data
    from,     \* history: the object it was made of
    result    \* of the last call

byteArraysVars == <<data, from, result>>

NoResult == [op |-> "none"]
Objects ==
    [kind : {"ByteArray", "String", "Symbol"}, of : Strings] \cup [kind : {"Numeric"}, of : Numbers]
    \cup [kind : {"nil", "true", "false", "other"}]

\* The bytes of a number, the lowest first (boost::endian::native_to_little).
little_endian[n \in 0..(Limit - 1)] == [i \in 1..IntWidth |-> (n \div Power[i - 1]) % Base]

\* What the first bytes of s are worth, for each number of them.
Sums(s) ==
    LET sum[n \in 0..Len(s)] == IF n = 0 THEN 0 ELSE sum[n - 1] + s[n] * Power[n - 1]
    IN  sum

Value(s) == Sums(s)[Len(s)]

ByteArraysInit == data = <<>> /\ from = [kind |-> "empty"] /\ result = NoResult

-----------------------------------------------------------------------------
(* ByteArray(Object).                                                      *)

\* std::string(chr, 1) is a string of chr characters of code 1.
OfChar(chr) == [i \in 1..chr |-> 1]
OfBool(b) == OfChar(IF b THEN Char1 ELSE Char0)

\* rb_num2ulong takes negative numbers for their two's complement.
OfNumber(n) == little_endian[n % Limit]

\* The branch for a symbol raises too: Rice::String takes T_STRING only.
Convertible(o) ==
    /\ o.kind \notin {"other", "Symbol"}
    /\ o.kind = "Numeric" => -(Limit \div 2) <= o.of /\ o.of < Limit

from_ruby(o) ==
    CASE o.kind = "Numeric" -> OfNumber(o.of)
      [] o.kind \in {"nil", "true", "false"} -> OfBool(o.kind = "true")
      [] OTHER -> o.of

New(o) ==
    IF Convertible(o)
    THEN data' = from_ruby(o) /\ from' = o /\ result' = NoResult
    ELSE result' = [op |-> "raised"] /\ UNCHANGED <<data, from>>

-----------------------------------------------------------------------------
(* The operators, with the memory that lies behind the terminator.         *)

Shown(mem) == SubSeq(data \o <<0>> \o mem, 1, IntWidth)

\* Mutant: as many bytes as the data has, less one.
to_i_short(mem) == Value(SubSeq(Shown(mem), 1, Len(data) - 1))

to_i(mem) == Value(Shown(mem))

Reply(op, val) == result' = [op |-> op, val |-> val] /\ UNCHANGED <<data, from>>

ToI(mem) == Reply("to_i", to_i(mem))

\* A remainder by zero is a trap of the processor.
Modulo(mem, n) ==
    IF n = 0 THEN result' = [op |-> "trap"] /\ UNCHANGED <<data, from>>
    ELSE result' = [op |-> "%", val |-> to_i(mem) % n, by |-> n] /\ UNCHANGED <<data, from>>

Compare(mem, n) ==
    /\ result' = [op |-> "<=>", by |-> n,
                  val |-> IF to_i(mem) < n THEN -1 ELSE IF to_i(mem) > n THEN 1 ELSE 0]
    /\ UNCHANGED <<data, from>>

\* operator! says whether the number is not zero.
Not(mem) == Reply("!", to_i(mem) # 0)

\* Mutant: zero bytes are dropped at both ends.
range_to_hex_data_stripped(s) ==
    LET kept == SelectSeq(s, LAMBDA b : b # 0) IN IF kept = <<>> THEN <<0>> ELSE kept

\* drop_while(is_null), each byte as a pair of digits, "00" where nothing is left.
range_to_hex_data(s) ==
    LET zeros == {n \in 0..Len(s) : \A i \in 1..n : s[i] = 0}
        kept == SubSeq(s, 1 + (CHOOSE n \in zeros : n + 1 \notin zeros), Len(s))
    IN  IF kept = <<>> THEN <<0>> ELSE kept

ToS == Reply("to_s", range_to_hex_data(data))

Memory == [1..IntWidth -> {0, Base - 1}]
Operands == Numbers \cap 0..(Limit - 1)

ByteArraysNext ==
    \/ \E o \in Objects : New(o)
    \/ \E mem \in Memory :
          \/ ToI(mem) \/ Not(mem)
          \/ \E n \in Operands : Modulo(mem, n) \/ Compare(mem, n)
    \/ ToS

ByteArraysSpec == ByteArraysInit /\ [][ByteArraysNext]_byteArraysVars

-----------------------------------------------------------------------------
(* Properties.                                                             *)

\* What the bytes are worth when they alone decide: those beyond IntWidth are cut off.
Worth == Value(SubSeq(data, 1, IF Len(data) < IntWidth THEN Len(data) ELSE IntWidth))

\* to_i is right in the bytes there are, whatever memory follows them, and a Ruby number comes
\* back modulo the width.  From IntWidth - 1 bytes on nothing else shows, as the terminator is
\* zero, and the comparison and the remainder are right too (ByteArray.hpp:48-53, :76-88, :123).
LowBytesRight ==
    LET exact == Len(data) >= IntWidth - 1
    IN  /\ result.op = "to_i" =>
              /\ Len(data) <= IntWidth => result.val % Power[Len(data)] = Worth
              /\ exact => result.val = Worth
              /\ from.kind = "Numeric" => result.val = from.of % Limit
        /\ result.op = "<=>" /\ exact =>
              result.val * (Worth - result.by) >= 0 /\ (result.val = 0 <=> Worth = result.by)
        /\ result.op = "%" /\ exact =>
              (Worth - result.val) % result.by = 0 /\ result.val < result.by

\* The digits shown are those of the bytes read as one number, the first byte first, in as
\* few bytes as it takes (hexadecimal.hpp:68-90).
HexIsNumber ==
    result.op = "to_s" =>
        /\ Value(Reverse(result.val)) = Value(Reverse(data))
        /\ result.val # <<0>> => result.val[1] # 0

=============================================================================
