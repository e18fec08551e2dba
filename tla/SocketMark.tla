----------------------------- MODULE SocketMark -----------------------------
(***************************************************************************)
(* parseSocketMark (src/socket_mark.go) on every command-line argument up to *)
(* a length.  A character is its digit value (0 to 15, letters in either     *)
(* case), X for the letter x in either case, or Other.  Marks have Width     *)
(* bits, 32 in the code; Integers keep the parser's own arithmetic exact.    *)
(***************************************************************************)
EXTENDS Naturals, Sequences

CONSTANTS
    Width,       \* bits of a mark, at least one
    Chars,       \* the characters an argument is made of
    MaxLength    \* bound on the length of an argument

X == 16
Other == 17

VARIABLE raw     \* the value of --socket-mark

\* strconv.ParseUint: the value of a string of digits.
ParseUint(digits, base) ==
    LET value[n \in 0..Len(digits)] ==
          IF n = 0 THEN 0 ELSE value[n - 1] * base + digits[n] IN
    value[Len(digits)]

BugRangeOffByOne(value) == value \in 1..2^Width

\* Non-zero, and no more than Width bits.
inRange(value) == value \in 1..(2^Width - 1)

\* The mark, 0 for an argument that is refused.
parseSocketMark(arg) ==
    LET hex == Len(arg) >= 2 /\ arg[1] = 0 /\ arg[2] = X
        digits == IF hex THEN SubSeq(arg, 3, Len(arg)) ELSE arg
        base == IF hex THEN 16 ELSE 10
        value == ParseUint(digits, base) IN
    IF \/ digits = <<>>
       \/ \E i \in DOMAIN digits : digits[i] >= base
       \/ base = 10 /\ digits[1] = 0
       \/ ~inRange(value)
    THEN 0 ELSE value

Init == raw = <<>>

\* The user's argument, one character longer.
Type == Len(raw) < MaxLength /\ \E c \in Chars : raw' = Append(raw, c)

\* The argument is complete.
Typed == Len(raw) = MaxLength /\ UNCHANGED raw

Next == Type \/ Typed

Spec == Init /\ [][Next]_raw

-----------------------------------------------------------------------------
\* The digits of v in a base, by division, without leading zeros.
Digits(v, base) ==
    LET digits[n \in 0..v] == IF n = 0 THEN <<>>
                              ELSE Append(digits[n \div base], n % base) IN digits[v]

\* The ways to write a mark: in decimal without leading zeros, or in
\* hexadecimal behind 0x.
Spellings(v) ==
    {Digits(v, 10)}
      \cup {<<0, X>> \o [i \in 1..z |-> 0] \o Digits(v, 16) : z \in 0..MaxLength}

Marks == 1..(2^Width - 1)

\* "non-zero 32-bit mark written in decimal, or in hexadecimal with a 0x prefix.
\* Nothing else": the parser returns a mark exactly for its spellings, and the
\* mark they spell, so that no argument is read in another base or cut off.
ParsesExactly ==
    IF parseSocketMark(raw) = 0
    THEN \A v \in Marks : raw \notin Spellings(v)
    ELSE parseSocketMark(raw) \in Marks /\ raw \in Spellings(parseSocketMark(raw))
=============================================================================
