------------------------------ MODULE Strings -------------------------------
(* The conversions of eastl_compat: to_string_hex, and format with its "{}".  *)
(* An integer type has Digits hexadecimal digits, of four bits each; a text   *)
(* is a sequence of characters.                                              *)
EXTENDS Integers, Sequences, SequencesExt, FiniteSetsExt

CONSTANTS
  Digits,     \* sizeof(T) << 1
  Words,      \* the numbers converted, as they are without a sign
  MaxFill,    \* Bound: fill_width
  MaxFormat,  \* Bound: characters of a format
  MaxArgs,    \* Bound: arguments of a format
  Characters, \* what formats consist of
  Texts       \* what arguments become (to_string_any)

VARIABLES
  call,      \* the function called and its arguments
  returned,
  result     \* the string it returned

stringsVars == <<call, returned, result>>

-----------------------------------------------------------------------------
(* to_string_hex                                                             *)

Bits == 4 * Digits

\* w >> j for j below the width: w halved j times.
Halved(w, j) ==
  LET half[i \in 0..j] == IF i = 0 THEN w ELSE half[i - 1] \div 2
  IN  half[j]

\* A number of the type has no digits but its Digits, and texts are sequences.
StringsAssumption ==
  /\ Digits \in Nat \ {0} /\ MaxFill \in Nat
  /\ Words \subseteq Nat /\ \A w \in Words : Halved(w, Bits) = 0
  /\ Texts \subseteq Seq(Characters)
ASSUME StringsAssumption

\* w >> j, which C++ leaves undefined from the width of the type on: a shift of
\* a register looks at the low bits of j alone, a shift of a vector gives 0.
ShiftedRight(w, j, byVector) ==
  IF j < Bits THEN Halved(w, j) ELSE IF byVector THEN 0 ELSE Halved(w, j % Bits)

\* The loop writes the last Digits characters, with shifts from the place of the
\* first character of the whole string on.
to_string_hex(w, fill_width, byVector) ==
  LET hex_len == Max({fill_width, Digits})
      zeros == hex_len - Digits
  IN  [k \in 1..hex_len |->
         IF k <= zeros THEN 0
         ELSE ShiftedRight(w, (hex_len - 1 - (k - zeros - 1)) * 4, byVector) % 16]

\* The number that a string of digits shows.
NumberOf(s) ==
  LET shown[k \in 0..Len(s)] == IF k = 0 THEN 0 ELSE 16 * shown[k - 1] + s[k]
  IN  shown[Len(s)]

-----------------------------------------------------------------------------
(* format                                                                    *)

\* Where a text has "{}".
Starts(s) == {i \in 1..(Len(s) - 1) : s[i] = "{" /\ s[i + 1] = "}"}

\* The first of these places, or 0 (npos).
Placeholder(s) == IF Starts(s) = {} THEN 0 ELSE Min(Starts(s))

\* Mutant of format: what an argument brings in is looked at again.
ExpandAgain(fmt, args) ==
  LET f[n \in 0..Len(args)] ==
        IF n = 0 THEN fmt
        ELSE LET s == f[n - 1]
             IN  IF Placeholder(s) = 0 THEN s
                 ELSE SubSeq(s, 1, Placeholder(s) - 1) \o args[n] \o SubSeq(s, Placeholder(s) + 2, Len(s))
  IN  f[Len(args)]

\* format_impl: the first "{}" of what is left of the format gives way to the
\* next argument; what is out is not looked at again.
format_impl(text, arg) ==
  LET s == text.left
      pos == Placeholder(s)
  IN  IF pos = 0 THEN text
      ELSE [out |-> text.out \o SubSeq(s, 1, pos - 1) \o arg,
            left |-> SubSeq(s, pos + 2, Len(s))]

format(fmt, args) ==
  LET after[n \in 0..Len(args)] ==
        IF n = 0 THEN [out |-> <<>>, left |-> fmt] ELSE format_impl(after[n - 1], args[n])
  IN  after[Len(args)].out \o after[Len(args)].left

-----------------------------------------------------------------------------
Formats == UNION {[1..n -> Characters] : n \in 0..MaxFormat}
ArgumentLists == UNION {[1..n -> Texts] : n \in 0..MaxArgs}

StringsInit ==
  /\ \/ \E w \in Words, n \in 0..MaxFill : call = [name |-> "to_string_hex", w |-> w, fill_width |-> n]
     \/ \E s \in Formats, a \in ArgumentLists : call = [name |-> "format", fmt |-> s, args |-> a]
  /\ returned = FALSE /\ result = <<>>

ToStringHex ==
  /\ call.name = "to_string_hex"
  /\ ~returned /\ returned' = TRUE
  /\ \E byVector \in BOOLEAN : result' = to_string_hex(call.w, call.fill_width, byVector)
  /\ UNCHANGED call

Format ==
  /\ call.name = "format"
  /\ ~returned /\ returned' = TRUE
  /\ result' = format(call.fmt, call.args)
  /\ UNCHANGED call

StringsNext == ToStringHex \/ Format

StringsSpec == StringsInit /\ [][StringsNext]_stringsVars

Returned(name) == call.name = name /\ returned

-----------------------------------------------------------------------------
(* Properties                                                                *)

\* What to_string_hex returns reads as the number, in at least as many digits
\* as its type has, when it is not asked for more digits.
HexShowsNumber ==
  Returned("to_string_hex") /\ call.fill_width <= Digits =>
    Len(result) = Digits /\ NumberOf(result) = call.w

\* ... and with zeros in front when it is asked for more, as the example shows
\* 0xDEADBEEF in a width of 16.
HexFilledWithZeros ==
  Returned("to_string_hex") =>
    Len(result) = Max({call.fill_width, Digits}) /\ NumberOf(result) = call.w

\* The placeholders of a format up to one at i.
Nth(s, i) == Cardinality({j \in Starts(s) : j <= i})

\* What stands for the i-th character of a format: nothing for the second half
\* of a placeholder that an argument was for.
Piece(s, args, i) ==
  IF i \in Starts(s) /\ Nth(s, i) <= Len(args) THEN args[Nth(s, i)]
  ELSE IF i - 1 \in Starts(s) /\ Nth(s, i - 1) <= Len(args) THEN <<>>
  ELSE <<s[i]>>

\* The n-th placeholder of the format, counted without overlaps from its
\* beginning, gives way to the n-th argument, and nothing else changes:
\* placeholders without an argument stay, arguments without one are left out,
\* and what looks like a placeholder in an argument, or across its ends, is not
\* one.
FormatFillsInOrder ==
  Returned("format") =>
    LET s == call.fmt
    IN  result = FlattenSeq([i \in 1..Len(s) |-> Piece(s, call.args, i)])

\* The conversions say what they were asked to say.
ConversionsExact == HexShowsNumber /\ FormatFillsInOrder
=============================================================================
