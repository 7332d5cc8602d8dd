---------------------------- MODULE PrintFormat ----------------------------
(***************************************************************************)
(* The formatting of printk (src/src/print.c): one pass over the format,   *)
(* with %x, %u, %d and %s, whose helpers write into the buffer at a        *)
(* position and return how much they wrote.                                *)
(*                                                                         *)
(* Integers have Width bits instead of 64.  A character is a code: 0..15   *)
(* are the digits, the others are named below.                             *)
(***************************************************************************)
EXTENDS Integers, Sequences, SequencesExt

CONSTANTS Width,    \* bits of an integer
          MaxLen,   \* characters of a format
          MaxString \* characters of a string

Word == 0..2^Width - 1

Minus == 16
HexMark == 17   \* the H behind a hexadecimal number
AnyLetter == 18 \* any other letter
Percent == 19
X == 20
U == 21
D == 22
S == 23

VARIABLES format, i,            \* the format and printk's position in it
          buffer, buffer_size,  \* buffer[n] is the character at n
          taken                 \* the arguments that va_arg has returned

vars == <<format, i, buffer, buffer_size, taken>>

TypeOK ==
  /\ format \in Seq({AnyLetter, Percent, X, U, D, S})
  /\ i \in 1..Len(format) + 1
  /\ buffer_size \in Nat
  /\ DOMAIN buffer = 0..buffer_size - 1
  /\ taken \in Seq(Word)

Init ==
  /\ format = <<>> /\ i = 1
  /\ buffer = <<>> /\ buffer_size = 0
  /\ taken = <<>>

(* printk is called. *)
Printk ==
  /\ format = <<>>
  /\ format' \in UNION {[1..n -> {AnyLetter, Percent, X, U, D, S}] : n \in 1..MaxLen}
  /\ UNCHANGED <<i, buffer, buffer_size, taken>>
-----------------------------------------------------------------------------
(* The characters of s in the buffer from position on. *)
Put(position, s) ==
  [n \in DOMAIN buffer \cup position..position + Len(s) - 1 |->
     IF n < position THEN buffer[n] ELSE s[n - position + 1]]

(* The do loop over digits % base and digits / base, and the reversed copy. *)
DigitsOf(base) ==
  LET digits[n \in Word] == IF n < base THEN <<n>> ELSE digits[n \div base] \o <<n % base>>
  IN digits

udigits == DigitsOf(10)
xdigits == DigitsOf(16)

(* -digits in Width bits: the least integer is its own negative. *)
Negated(v) == (2^Width - v) % 2^Width

Negative(v) == v >= 2^(Width - 1)

hex_to_string(v) == xdigits[v] \o <<HexMark>>

udecimal_to_string(v) == udigits[v]

(* Mutant for PrintsArguments: the least integer is not cast to unsigned. *)
decimal_clamped(v) ==
  IF Negative(v) THEN <<Minus>> \o udigits[Negated(v) % 2^(Width - 1)] ELSE udigits[v]

decimal_to_string(v) ==
  IF Negative(v) THEN <<Minus>> \o udigits[Negated(v)] ELSE udigits[v]

read_string(n) == [k \in 1..n |-> AnyLetter]

(* One turn of the loop that writes s and leaves i at the given place. *)
Emit(s, to) ==
  /\ buffer' = Put(buffer_size, s)
  /\ buffer_size' = buffer_size + Len(s)
  /\ i' = to
  /\ UNCHANGED format

Follows(ch) == i < Len(format) /\ format[i + 1] = ch

Plain ==
  /\ i <= Len(format) /\ format[i] # Percent
  /\ Emit(<<format[i]>>, i + 1)
  /\ UNCHANGED taken

Argument(ch) == IF ch = S THEN 0..MaxString ELSE Word

(* The switch of printk: the helper that each character calls. *)
Converted(ch, v) ==
  CASE ch = X -> hex_to_string(v)
    [] ch = U -> udecimal_to_string(v)
    [] ch = D -> decimal_to_string(v)
    [] ch = S -> read_string(v)

(* A % with a character of the switch behind it takes the next argument. *)
Directive(ch) ==
  /\ i <= Len(format) /\ format[i] = Percent /\ Follows(ch)
  /\ \E v \in Argument(ch) : Emit(Converted(ch, v), i + 2) /\ taken' = Append(taken, v)

(* default: a % is written, and i-- makes the loop read what follows once more. *)
Other ==
  /\ i <= Len(format) /\ format[i] = Percent /\ \A ch \in {X, U, D, S} : ~Follows(ch)
  /\ Emit(<<Percent>>, i + 1)
  /\ UNCHANGED taken

Next ==
  \/ Printk \/ Plain \/ Other
  \/ \E ch \in {X, U, D, S} : Directive(ch)

Spec == Init /\ [][Next]_vars
-----------------------------------------------------------------------------
(* A reference: the shortest sequence of digits that stands for n. *)
Value(s, base) == FoldLeft(LAMBDA v, d : base * v + d, 0, s)

Numeral(base, most) ==
  [n \in Word |-> CHOOSE s \in UNION {[1..k -> 0..base - 1] : k \in 1..most} :
                     Value(s, base) = n /\ (Len(s) > 1 => s[1] # 0)]

Decimal == Numeral(10, 3)
Hexadecimal == Numeral(16, 2)

Signed(v) == IF v < 2^(Width - 1) THEN v ELSE v - 2^Width

Starts(k) == k < Len(format) /\ format[k] = Percent /\ format[k + 1] \in {X, U, D, S}

(* What stands in the output for place k of the format. *)
Piece(k) ==
  LET v == taken[1 + Len(SelectSeq([m \in 1..k - 1 |-> Starts(m)], LAMBDA b : b))]
  IN IF Starts(k)
     THEN CASE format[k + 1] = X -> Hexadecimal[v] \o <<HexMark>>
            [] format[k + 1] = U -> Decimal[v]
            [] format[k + 1] = D -> IF Signed(v) < 0 THEN <<Minus>> \o Decimal[-Signed(v)]
                                    ELSE Decimal[v]
            [] format[k + 1] = S -> [m \in 1..v |-> AnyLetter]
     ELSE IF k > 1 /\ Starts(k - 1) THEN <<>> ELSE <<format[k]>>

(***************************************************************************)
(* What printk has written: each %x, %u, %d and %s is replaced by its own  *)
(* argument, in order, as the numeral or the string it is, the least       *)
(* integer included; everything else, a % with any other character behind  *)
(* it too, is copied; and the helpers' sizes leave no gap and no overlap.  *)
(***************************************************************************)
PrintsArguments ==
  i > Len(format) =>
     [n \in 1..buffer_size |-> buffer[n - 1]] = FlattenSeq([k \in 1..Len(format) |-> Piece(k)])
=============================================================================
