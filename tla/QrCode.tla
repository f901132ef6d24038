------------------------------- MODULE QrCode -------------------------------
(***************************************************************************)
(* encodeQR: the patterns are drawn, the bits of the address are laid in a *)
(* zigzag around them, masked, and the format information is written.      *)
(*                                                                         *)
(* A module of the matrix holds a colour the code draws, <<"fixed", b>>,   *)
(* or the number of the bit laid there and whether the mask inverted it,   *)
(* <<"bit", k, inverted>>. What the bits are, and how the matrix is drawn  *)
(* as PNG or SVG, is left out.                                             *)
(***************************************************************************)
EXTENDS Integers, FiniteSetsExt

CONSTANT Lengths    \* of the addresses encoded, in bytes

ASSUME LengthAssumption == Lengths \subseteq Nat

VARIABLES
    at,         \* the step of encodeQR
    len,        \* len(data)
    matrix, reserved,
    col, down, line,    \* placeData: the right column of the pair, the number of
                        \* pairs behind, and of rows behind in this one
    bitIdx

vars == <<at, len, matrix, reserved, col, down, line, bitIdx>>

-----------------------------------------------------------------------------
\* Sizes.

Capacities == <<17, 32, 53, 78, 106, 134, 154, 192, 230, 271, 321, 367, 425, 458, 520, 586>>

\* selectVersion
VersionFor(n) ==
    LET fits == {v \in DOMAIN Capacities : n <= Capacities[v]} IN
    IF fits = {} THEN 10 ELSE Min(fits)

version == VersionFor(len)
size == 17 + version * 4
Cells == (0..(size - 1)) \X (0..(size - 1))

\* encodeData: mode, length, bytes, up to 4 bits of terminator while shorter
\* than 128, and padding to whole bytes.
DataBits(n) ==
    LET body == 12 + 8 * n
        ended == Max({body, Min({body + 4, 128})}) IN
    ((ended + 7) \div 8) * 8

\* addECC pads, or cuts, to this many.
TotalBits(v) == (16 + v * 16) * 8

-----------------------------------------------------------------------------
\* The patterns, as functions from the modules they reserve to their colours.

Square(row, col0, from, to) == {c \in Cells : c[1] - row \in from..to /\ c[2] - col0 \in from..to}

\* Row r and column k of a finder are dark.
Finder(r, k) ==
    \/ r \in 0..6 /\ k \in {0, 6}
    \/ k \in 0..6 /\ r \in {0, 6}
    \/ {r, k} \subseteq 2..4

Corners == {<<0, 0>>, <<0, size - 7>>, <<size - 7, 0>>}

Finders ==
    [c \in UNION {Square(p[1], p[2], -1, 7) : p \in Corners} |->
        \E p \in Corners : /\ c \in Square(p[1], p[2], -1, 7)
                           /\ Finder(c[1] - p[1], c[2] - p[2])]

\* alignmentPositions
Positions ==
    LET last == size - 7
        count == version \div 7 + 2
        ceil == (last - 6 + count - 2) \div (count - 1)
        step == IF count = 2 THEN 0 ELSE ceil + (ceil % 2) IN
    IF version = 1 THEN {}
    ELSE {6, last} \cup {last - step * (count - 1 - i) : i \in 1..(count - 2)}

Alignment(r, k) == r \in {-2, 2} \/ k \in {-2, 2} \/ (r = 0 /\ k = 0)

\* Those whose centre no other pattern has taken; they do not meet one another.
Alignments(taken) ==
    LET centres == (Positions \X Positions) \ taken IN
    [c \in UNION {Square(p[1], p[2], -2, 2) : p \in centres} |->
        \E p \in centres : /\ c \in Square(p[1], p[2], -2, 2)
                           /\ Alignment(c[1] - p[1], c[2] - p[2])]

Timing ==
    [c \in {p \in Cells : \/ p[1] = 6 /\ p[2] \in 8..(size - 9)
                          \/ p[2] = 6 /\ p[1] \in 8..(size - 9)} |->
        IF c[1] = 6 THEN c[2] % 2 = 0 ELSE c[1] % 2 = 0]

DarkModule == [c \in {<<4 * version + 9, 8>>} |-> TRUE]

\* Where addFormatInfo writes which of its 15 bits, twice, and those that are dark.
FirstCopy == [i \in 0..14 |-> IF i < 6 THEN <<8, i>>
                              ELSE IF i < 8 THEN <<8, i + 1>>
                              ELSE IF i = 8 THEN <<7, 8>> ELSE <<14 - i, 8>>]
SecondCopy == [i \in 0..14 |-> IF i < 7 THEN <<size - 1 - i, 8>> ELSE <<8, size - 15 + i>>]
DarkBits == {0, 1, 2, 4, 5, 6, 7, 8, 12}

Format ==
    [c \in UNION {{FirstCopy[i], SecondCopy[i]} : i \in 0..14} |->
        \E i \in DarkBits : c \in {FirstCopy[i], SecondCopy[i]}]

-----------------------------------------------------------------------------
\* encodeQR.

Init ==
    /\ len \in Lengths /\ at = "finders"
    /\ matrix = [c \in Cells |-> <<"fixed", FALSE>>] /\ reserved = {}
    /\ col = size - 1 /\ down = 0 /\ line = 0 /\ bitIdx = 0

Over(m, pattern) == [c \in Cells |-> IF c \in DOMAIN pattern THEN <<"fixed", pattern[c]>> ELSE m[c]]

Draw(from, to, pattern) ==
    /\ at = from /\ at' = to
    /\ matrix' = Over(matrix, pattern) /\ reserved' = reserved \cup DOMAIN pattern
    /\ UNCHANGED <<len, col, down, line, bitIdx>>

AddFinderPatterns == Draw("finders", "alignments", Finders)
AddAlignmentPatterns == Draw("alignments", "timing", Alignments(reserved))
AddTimingPatterns == Draw("timing", "dark", Timing)
AddDarkModule == Draw("dark", "place", DarkModule)

\* The two modules of the row the cursor is at, right one first, less reserved ones.
Row == IF down % 2 = 0 THEN size - 1 - line ELSE line
Right == <<Row, col>>
Left == <<Row, col - 1>>
Free(c) == c \in Cells \ reserved

\* Mutant: the next pair overlaps the last one by a column.
ColumnBefore(k) == k - 1

\* The column after k, skipping the vertical timing pattern's.
NextColumn(k) == IF k - 2 = 6 THEN 5 ELSE k - 2

\* placeData: one row of one pair of columns.
PlaceRow ==
    LET n == IF Free(Right) THEN bitIdx + 1 ELSE bitIdx
        lay(c, k) == Free(c) /\ k < TotalBits(version) IN
    /\ at = "place"
    /\ matrix' = [c \in Cells |->
                     IF c = Right /\ lay(c, bitIdx) THEN <<"bit", bitIdx, FALSE>>
                     ELSE IF c = Left /\ lay(c, n) THEN <<"bit", n, FALSE>> ELSE matrix[c]]
    /\ bitIdx' = Min({TotalBits(version), IF Free(Left) THEN n + 1 ELSE n})
    /\ IF line < size - 1 THEN line' = line + 1 /\ UNCHANGED <<at, col, down>>
       ELSE /\ line' = 0 /\ col' = NextColumn(col) /\ down' = down + 1
            /\ at' = IF col' < 0 THEN "mask" ELSE "place"
    /\ UNCHANGED <<len, reserved>>

\* Mutant: the mask forgets what is reserved.
MaskAll ==
    /\ at = "mask" /\ at' = "format"
    /\ matrix' = [c \in Cells |->
           IF (c[1] + c[2]) % 2 = 1 THEN matrix[c]
           ELSE IF matrix[c][1] = "fixed" THEN <<"fixed", ~matrix[c][2]>>
           ELSE <<"bit", matrix[c][2], TRUE>>]
    /\ UNCHANGED <<len, reserved, col, down, line, bitIdx>>

ApplyMask ==
    /\ at = "mask" /\ at' = "format"
    /\ matrix' = [c \in Cells |->
           IF c \in reserved \/ (c[1] + c[2]) % 2 = 1 THEN matrix[c]
           ELSE IF matrix[c][1] = "fixed" THEN <<"fixed", ~matrix[c][2]>>
           ELSE <<"bit", matrix[c][2], TRUE>>]
    /\ UNCHANGED <<len, reserved, col, down, line, bitIdx>>

AddFormatInfo ==
    /\ at = "format" /\ at' = "done" /\ matrix' = Over(matrix, Format)
    /\ UNCHANGED <<len, reserved, col, down, line, bitIdx>>

Next ==
    \/ AddFinderPatterns \/ AddAlignmentPatterns \/ AddTimingPatterns \/ AddDarkModule
    \/ PlaceRow \/ ApplyMask \/ AddFormatInfo

Spec == Init /\ [][Next]_vars

-----------------------------------------------------------------------------
\* Properties.

Shows(pattern) == \A c \in DOMAIN pattern : matrix[c] = <<"fixed", pattern[c]>>

\* Every pattern encodeQR draws is whole when the matrix is returned, although later
\* steps draw over earlier ones, and bits, mask and format information are written
\* around them: finders, alignment, timing, dark module and both copies of the format
\* information. Those are not all the patterns a reader looks for: from version 7 on
\* a symbol has its version information twice, which the code never draws, and whose
\* modules hold bits of the address.
PatternsIntact ==
    at = "done" =>
        /\ Shows(Finders) /\ Shows(Timing) /\ Shows(DarkModule) /\ Shows(Format)
        /\ Shows(Alignments(DOMAIN Finders))

Laid == {c \in Cells : matrix[c][1] = "bit"}
FormatOnBits == DOMAIN Format \ reserved

\* The bits of the address that the matrix has nowhere.
Lost == {k \in 0..(DataBits(len) - 1) : \A c \in Laid : matrix[c][2] # k}

\* No bit is laid twice or over another, and none is lost but those addECC cut,
\* those the symbol had no module for, and those under the format information,
\* for which no module was reserved; and each is inverted as the mask has it. Of
\* the address no more is lost than that.
LossAccounted ==
    at = "done" =>
        LET free == Cells \ reserved
            laid == Min({TotalBits(version), Cardinality(free)}) IN
        /\ bitIdx = laid
        /\ Cardinality({matrix[c][2] : c \in Laid}) = Cardinality(Laid)
        /\ Cardinality(Laid) <= laid
        /\ laid - Cardinality(Laid) <= Cardinality(FormatOnBits)
        /\ laid = Cardinality(free) => laid - Cardinality(Laid) = Cardinality(FormatOnBits)
        /\ \A c \in Laid : matrix[c][3] = ((c[1] + c[2]) % 2 = 0)
        /\ Cardinality(Lost) <= Max({0, DataBits(len) - laid}) + Cardinality(FormatOnBits)
=============================================================================
