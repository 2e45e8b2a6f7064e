-------------------------------- MODULE OsIo --------------------------------
(***************************************************************************)
(* Formatted output: os_vsnprintf and print_number of src/os_io.c, and     *)
(* os_printf, which prints the buffer they fill.                           *)
(*                                                                         *)
(* A format is some ordinary characters and a conversion, a record of what *)
(* the parser reads after its '%'.  Output is a sequence of one-character  *)
(* strings.  A long has LONG_BITS bits, an int half and a short a quarter  *)
(* of them.                                                                *)
(***************************************************************************)
EXTENDS Integers, Sequences, SequencesExt, FiniteSetsExt

CONSTANTS
  LONG_BITS,
  OS_PRINTF_BUFFER_SIZE,
  Ordinary,    \* numbers of ordinary characters before the conversion
  FieldWidth,  \* -1 is none; a smaller one is read from an argument
  FieldPrecision,
  Argument     \* arguments, as the bits of a long

\* base to the power of n.
PowerOf(base, n) ==
  LET power[k \in 0..n] == IF k = 0 THEN 1 ELSE base * power[k - 1] IN power[n]

ASSUME IoAssumption ==
  /\ LONG_BITS \in Nat /\ LONG_BITS % 4 = 0 /\ LONG_BITS > 0
  /\ OS_PRINTF_BUFFER_SIZE \in Nat /\ OS_PRINTF_BUFFER_SIZE > 1
  /\ Ordinary \subseteq Nat /\ FieldWidth \subseteq Int /\ FieldPrecision \subseteq Int
  /\ Argument \subseteq 0..(PowerOf(2, LONG_BITS) - 1)

VARIABLE call  \* the call of os_printf: ordinary, conv; NoCall before the first

small_digits == <<"0", "1", "2", "3", "4", "5", "6", "7", "8", "9", "a", "b", "c", "d", "e", "f">>
large_digits == <<"0", "1", "2", "3", "4", "5", "6", "7", "8", "9", "A", "B", "C", "D", "E", "F">>

Times(n, c) == [i \in 1..n |-> c]

\* The number that is left; every base but 10 is 16.
divide(n, base) == IF base = 10 THEN n \div 10 ELSE n \div 16

DigitsOf(num, base, digits) ==
  LET from[n \in 0..num] ==
        IF n = 0 THEN <<>>
        ELSE Append(from[divide(n, base)], digits[1 + (n % (IF base = 10 THEN 10 ELSE 16))])
  IN IF num = 0 THEN <<"0">> ELSE from[num]

\* Does the flag of the field stand for a sign to print?
SignOf(num, flags) ==
  IF "SIGN" \notin flags THEN <<>>
  ELSE IF num < 0 THEN <<"-">>
  ELSE IF "PLUS" \in flags THEN <<"+">>
  ELSE IF "SPACE" \in flags THEN <<" ">> ELSE <<>>

PrefixOf(base, flags) ==
  IF "SPECIAL" \notin flags THEN <<>>
  ELSE IF base = 8 THEN <<"0">>
  ELSE IF base = 16 THEN <<"0", IF "LARGE" \in flags THEN "X" ELSE "x">> ELSE <<>>

\* A negative number without SIGN is taken for its bits.
Magnitude(num, flags) == IF num >= 0 THEN num ELSE IF "SIGN" \in flags THEN -num ELSE num + PowerOf(2, LONG_BITS)

\* Mutant: a sign takes no room.
RoomLeft_NoSign(s, sign, prefix, padded) == s - Len(prefix) - padded

\* The part of a field of width s that is left for padding.
RoomLeft(s, sign, prefix, padded) == s - Len(prefix) - padded - Len(sign)

print_number(num, base, s, precision, flags) ==
  LET tmp == DigitsOf(Magnitude(num, flags), base, IF "LARGE" \in flags THEN large_digits ELSE small_digits)
      sign == SignOf(num, flags)
      prefix == PrefixOf(base, flags)
      padded == Max({Len(tmp), precision})
      room == RoomLeft(s, sign, prefix, padded)
      left == "LEFT" \in flags
      zeropad == "ZEROPAD" \in flags /\ ~left
  IN (IF left \/ zeropad THEN <<>> ELSE Times(room, " "))
     \o sign \o prefix
     \o (IF zeropad THEN Times(room, "0") ELSE <<>>)
     \o Times(padded - Len(tmp), "0")
     \o (IF precision = 0 THEN <<>> ELSE tmp)
     \o (IF left THEN Times(room, " ") ELSE <<>>)

\* What is read after '%': a negative width is LEFT, a negative precision 0.
ReadConversion(c) ==
  [c EXCEPT !.flags = IF c.width < -1 THEN @ \cup {"LEFT"} ELSE @,
            !.width = IF @ < -1 THEN -@ ELSE @,
            !.precision = IF @ < -1 THEN 0 ELSE @]

LowBits(arg, bits) == arg % PowerOf(2, bits)
Signed(n, bits) == IF n >= PowerOf(2, bits - 1) THEN n - PowerOf(2, bits) ELSE n

\* 'l' reads no more than an int does; "ll" and 'L' are the default.
NumberOf(c) ==
  LET bits == IF c.qualifier = "h" THEN LONG_BITS \div 4 ELSE LONG_BITS \div 2
  IN IF c.conv = "d" THEN Signed(LowBits(c.arg, bits), bits) ELSE LowBits(c.arg, bits)

\* The argument of 's' is a string of its length in "x"s, or null.
StringOf(c) ==
  LET s == IF c.arg = 0 THEN <<"(", "N", "U", "L", "L", ")">> ELSE Times(c.arg, "x")
  IN IF c.precision > 0 /\ Len(s) > c.precision THEN SubSeq(s, 1, c.precision) ELSE s

Justify(text, c) ==
  LET room == Times(c.width - Len(text), " ")
  IN IF "LEFT" \in c.flags THEN text \o room ELSE room \o text

Converted(c) ==
  CASE c.conv = "c" -> Justify(<<"x">>, c)
    [] c.conv = "s" -> Justify(StringOf(c), c)
    [] c.conv = "%" -> <<"%">>
    [] c.conv = "?" -> <<"%", "?">>
    [] c.conv = "p" -> IF c.width = -1
                       THEN print_number(c.arg, 16, LONG_BITS \div 4, c.precision, c.flags \cup {"ZEROPAD"})
                       ELSE print_number(c.arg, 16, c.width, c.precision, c.flags)
    [] c.conv = "o" -> print_number(NumberOf(c), 8, c.width, c.precision, c.flags)
    [] c.conv = "x" -> print_number(NumberOf(c), 16, c.width, c.precision, c.flags)
    [] c.conv = "X" -> print_number(NumberOf(c), 16, c.width, c.precision, c.flags \cup {"LARGE"})
    [] c.conv = "d" -> print_number(NumberOf(c), 10, c.width, c.precision, c.flags \cup {"SIGN"})
    [] c.conv = "u" -> print_number(NumberOf(c), 10, c.width, c.precision, c.flags)

\* os_vsnprintf counts all its output and stores what fits before the terminator.
os_vsnprintf(ordinary, c, size) ==
  LET str == Times(ordinary, "t") \o Converted(ReadConversion(c))
  IN IF Len(str) < size THEN str ELSE SubSeq(str, 1, size - 1)

os_printf(ordinary, c) == os_vsnprintf(ordinary, c, OS_PRINTF_BUFFER_SIZE - 1)

Conversion ==
  [flags : SUBSET {"ZEROPAD", "PLUS", "SPACE", "LEFT", "SPECIAL"}, width : FieldWidth,
   precision : FieldPrecision, qualifier : {"", "h", "l"},
   conv : {"c", "s", "p", "%", "?", "o", "x", "X", "d", "u"}, arg : Argument]

NoCall == [ordinary |-> 0, conv |-> [conv |-> "none"]]

IoInit == call = NoCall

IoNext ==
  /\ call = NoCall
  /\ \E ordinary \in Ordinary, c \in Conversion : call' = [ordinary |-> ordinary, conv |-> c]

IoSpec == IoInit /\ [][IoNext]_call

-----------------------------------------------------------------------------
\* Where os_vsnprintf means what C means: no octal; no precision of 0 or with '0'; '#'
\* only with numbers but 0; integers that an int can hold.
SupportedConversion(c) ==
  /\ c.conv # "o" /\ c.conv # "?" /\ c.precision \notin {0} /\ c.precision >= -1
  /\ "ZEROPAD" \in c.flags => c.precision = -1
  /\ "SPECIAL" \in c.flags => c.conv \in {"x", "X", "d", "u"} /\ NumberOf(c) # 0
  /\ c.conv = "p" => c.precision = -1 /\ c.width = -1
  /\ c.qualifier = "l" => c.arg < PowerOf(2, LONG_BITS \div 2 - 1)

\* The digits of n in a base, as C defines them.
CDigits(n, base, digits) ==
  LET k == CHOOSE j \in 1..(n + 1) : n < PowerOf(base, j) /\ (j = 1 \/ n >= PowerOf(base, j - 1))
  IN [i \in 1..k |-> digits[1 + ((n \div PowerOf(base, k - i)) % base)]]

CNumber(c) ==
  LET num == IF c.conv = "p" THEN c.arg ELSE NumberOf(c)
      digits == CDigits(IF num < 0 THEN -num ELSE num, IF c.conv \in {"d", "u"} THEN 10 ELSE 16,
                        IF c.conv = "X" THEN large_digits ELSE small_digits)
      head == SignOf(num, IF c.conv = "d" THEN c.flags \cup {"SIGN"} ELSE {})
              \o (IF "SPECIAL" \in c.flags /\ c.conv \in {"x", "X"} THEN <<"0", c.conv>> ELSE <<>>)
      body == Times(c.precision - Len(digits), "0") \o digits
      width == IF c.conv = "p" THEN LONG_BITS \div 4 ELSE c.width
      room == width - Len(head) - Len(body)
  IN IF "LEFT" \in c.flags THEN head \o body \o Times(room, " ")
     ELSE IF "ZEROPAD" \in c.flags \/ c.conv = "p" THEN head \o Times(room, "0") \o body
     ELSE Times(room, " ") \o head \o body

\* os_printf prints what C's printf does, cut where the buffer ends: digits, sign, prefix,
\* zeros and spaces have their order and number under every combination of flags.
PrintsAsC ==
  call # NoCall /\ SupportedConversion(call.conv) =>
    LET c == ReadConversion(call.conv)
        text == CASE c.conv = "c" -> Justify(<<"x">>, c)
                  [] c.conv = "s" -> Justify(StringOf(c), c)
                  [] c.conv = "%" -> <<"%">>
                  [] OTHER -> CNumber(c)
        all == Times(call.ordinary, "t") \o text
    IN os_printf(call.ordinary, call.conv) = SubSeq(all, 1, Min({Len(all), OS_PRINTF_BUFFER_SIZE - 2}))
=============================================================================
