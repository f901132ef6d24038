---------------------------- MODULE QrCodeProofs ----------------------------
(***************************************************************************)
(* Proofs about QrCode, for addresses of any length. The first part is the *)
(* geometry of the patterns in each of the sixteen versions, the second    *)
(* follows the steps of encodeQR, the third the cursor of placeData.       *)
(***************************************************************************)
EXTENDS QrCode, Recursion

-----------------------------------------------------------------------------
\* Versions and sizes.

LEMMA MinIn ==
    ASSUME NEW T \in SUBSET Nat, T # {}
    PROVE  Min(T) \in T
BY LeastNumber DEF Min

LEMMA Versions ==
    ASSUME NEW n
    PROVE  VersionFor(n) \in 1..16
<1> DEFINE fits == {v \in DOMAIN Capacities : n <= Capacities[v]}
<1>1. DOMAIN Capacities = 1..16
  BY DEF Capacities
<1>2. fits \in SUBSET Nat /\ fits \subseteq 1..16
  BY <1>1
<1>3. fits # {} => Min(fits) \in fits
  BY <1>2, MinIn
<1>4. VersionFor(n) = IF fits = {} THEN 10 ELSE Min(fits)
  BY DEF VersionFor
<1> HIDE DEF fits
<1>5. CASE fits = {}
  BY <1>4, <1>5
<1>6. CASE fits # {}
  BY <1>2, <1>3, <1>4, <1>6
<1> QED
  BY <1>5, <1>6

LEMMA Sizes ==
    /\ version \in 1..16 /\ size = 17 + version * 4 /\ size \in 21..81
    /\ size \in Nat /\ TotalBits(version) \in Nat
<1>1. version \in 1..16
  BY Versions DEF version
<1> QED
  BY <1>1 DEF size, TotalBits

\* Alignment patterns stand at even places: at both ends, or well between the
\* finders.
LEMMA PositionsLie ==
    ASSUME NEW p \in Positions
    PROVE  /\ p \in Int /\ p % 2 = 0 /\ version >= 2
           /\ p = 6 \/ p = size - 7 \/ p \in 14..(size - 15)
<1>1. version \in 1..16 /\ size = 17 + version * 4
  BY Sizes
<1>2. PICK v \in 1..16 : v = version
  BY <1>1
<1>3. PICK s \in Int : s = size /\ s = 17 + v * 4
  BY <1>1, <1>2
<1> DEFINE count == v \div 7 + 2
           ceil == (s - 7 - 6 + count - 2) \div (count - 1)
           step == IF count = 2 THEN 0 ELSE ceil + (ceil % 2)
<1>4. v # 1 /\ (p \in {6, s - 7} \/ \E i \in 1..(count - 2) : p = s - 7 - step * (count - 1 - i))
  BY <1>2, <1>3 DEF Positions
<1>5. CASE v \in 1..6
  BY <1>2, <1>3, <1>4, <1>5
<1>6. CASE v \in 7..13
  <2>1. count = 3 /\ step = 2 * (v + 1)
    <3>1. count = 3
      BY <1>6
    <3>2. ceil = 2 * (v + 1)
      BY <1>3, <1>6, <3>1
    <3> HIDE DEF count, ceil
    <3> QED
      BY <3>1, <3>2
  <2> HIDE DEF count, step
  <2>2. p \in {6, s - 7, s - 7 - 2 * (v + 1)}
    BY <1>4, <2>1
  <2> QED
    BY <1>2, <1>3, <1>6, <2>2
<1>7. CASE v \in 14..16
  <2>1. count = 4 /\ step \in Int /\ step = (IF v = 14 THEN 20 ELSE IF v = 15 THEN 22 ELSE 24)
    <3>1. count = 4
      BY <1>7
    <3>2. ceil = (IF v = 14 THEN 20 ELSE IF v = 15 THEN 22 ELSE 23)
      BY <1>3, <1>7, <3>1
    <3> HIDE DEF count, ceil
    <3> QED
      BY <3>1, <3>2
  <2> HIDE DEF count, step
  <2>2. p \in {6, s - 7, s - 7 - 2 * step, s - 7 - step}
    BY <1>3, <1>4, <2>1
  <2> QED
    BY <1>2, <1>3, <1>7, <2>1, <2>2
<1> QED
  BY <1>2, <1>5, <1>6, <1>7

\* They do not meet one another: so Alignments may look at what was reserved before
\* the first is drawn, where addAlignmentPatterns looks before each.
LEMMA PositionsApart ==
    ASSUME NEW p \in Positions, NEW q \in Positions, p # q
    PROVE  p - q \notin -4..4
<1>1. version \in 1..16 /\ size = 17 + version * 4
  BY Sizes
<1>2. PICK v \in 1..16 : v = version
  BY <1>1
<1>3. PICK s \in Int : s = size /\ s = 17 + v * 4
  BY <1>1, <1>2
<1> DEFINE count == v \div 7 + 2
           ceil == (s - 7 - 6 + count - 2) \div (count - 1)
           step == IF count = 2 THEN 0 ELSE ceil + (ceil % 2)
           place(x) == x \in {6, s - 7} \/ \E i \in 1..(count - 2) : x = s - 7 - step * (count - 1 - i)
<1>4. v # 1 /\ place(p) /\ place(q)
  BY <1>2, <1>3 DEF Positions
<1>5. CASE v \in 1..6
  BY <1>3, <1>4, <1>5
<1>6. CASE v \in 7..13
  <2>1. count = 3 /\ step = 2 * (v + 1)
    <3>1. count = 3
      BY <1>6
    <3>2. ceil = 2 * (v + 1)
      BY <1>3, <1>6, <3>1
    <3> HIDE DEF count, ceil
    <3> QED
      BY <3>1, <3>2
  <2> HIDE DEF count, step
  <2>2. /\ p \in {6, s - 7, s - 7 - 2 * (v + 1)}
        /\ q \in {6, s - 7, s - 7 - 2 * (v + 1)}
    BY <1>4, <2>1
  <2> QED
    BY <1>3, <1>6, <2>2
<1>7. CASE v \in 14..16
  <2>1. count = 4 /\ step \in Int /\ step = (IF v = 14 THEN 20 ELSE IF v = 15 THEN 22 ELSE 24)
    <3>1. count = 4
      BY <1>7
    <3>2. ceil = (IF v = 14 THEN 20 ELSE IF v = 15 THEN 22 ELSE 23)
      BY <1>3, <1>7, <3>1
    <3> HIDE DEF count, ceil
    <3> QED
      BY <3>1, <3>2
  <2> HIDE DEF count, step
  <2>2. /\ p \in {6, s - 7, s - 7 - 2 * step, s - 7 - step}
        /\ q \in {6, s - 7, s - 7 - 2 * step, s - 7 - step}
    BY <1>3, <1>4, <2>1
  <2> QED
    BY <1>3, <1>7, <2>1, <2>2
<1> QED
  BY <1>5, <1>6, <1>7

LEMMA AlignmentsApart ==
    ASSUME NEW p \in Positions \X Positions, NEW q \in Positions \X Positions, p # q
    PROVE  Square(p[1], p[2], -2, 2) \cap Square(q[1], q[2], -2, 2) = {}
<1>1. PICK i, j, k, l \in Positions : p = <<i, j>> /\ q = <<k, l>>
  OBVIOUS
<1>2. /\ i \in Int /\ j \in Int /\ k \in Int /\ l \in Int
  BY PositionsLie
<1>3. i - k \notin -4..4 \/ j - l \notin -4..4
  BY <1>1, PositionsApart
<1>4. ASSUME NEW c \in Square(i, j, -2, 2), c \in Square(k, l, -2, 2) PROVE FALSE
  <2>1. c[1] \in Int /\ c[2] \in Int
    BY Sizes DEF Square, Cells
  <2>2. c[1] - i \in -2..2 /\ c[1] - k \in -2..2 /\ c[2] - j \in -2..2 /\ c[2] - l \in -2..2
    BY <1>4 DEF Square
  <2>3. i - k \in -4..4 /\ j - l \in -4..4
    BY <1>2, <2>1, <2>2
  <2> QED
    BY <1>3, <2>3
<1> QED
  BY <1>1, <1>4

-----------------------------------------------------------------------------
\* Where the patterns are: row r and column k of a symbol of size s.

FinderArea(r, k, s) ==
    \/ r \in 0..7 /\ k \in 0..7
    \/ r \in 0..7 /\ k \in (s - 8)..(s - 1)
    \/ r \in (s - 8)..(s - 1) /\ k \in 0..7

AlignmentArea(r, k, s) ==
    \/ r \in 12..(s - 13) /\ (k \in 4..8 \/ k \in 12..(s - 13) \/ k \in (s - 9)..(s - 5))
    \/ k \in 12..(s - 13) /\ (r \in 4..8 \/ r \in (s - 9)..(s - 5))
    \/ s >= 25 /\ r \in (s - 9)..(s - 5) /\ k \in (s - 9)..(s - 5)

TimingArea(r, k, s) ==
    \/ r = 6 /\ k \in 8..(s - 9)
    \/ k = 6 /\ r \in 8..(s - 9)

FormatArea(r, k, s) ==
    \/ r = 8 /\ (k \in 0..5 \/ k \in 7..8 \/ k \in (s - 8)..(s - 1))
    \/ k = 8 /\ (r \in 0..5 \/ r = 7 \/ r \in (s - 7)..(s - 1))

AlignmentsDrawn == Alignments(DOMAIN Finders)

LEMMA CellsAre ==
    ASSUME NEW c \in Cells
    PROVE  /\ c[1] \in 0..(size - 1) /\ c[2] \in 0..(size - 1) /\ c = <<c[1], c[2]>>
           /\ c[1] \in Int /\ c[2] \in Int
BY Sizes DEF Cells

LEMMA FindersLie ==
    ASSUME NEW c \in Cells
    PROVE  c \in DOMAIN Finders <=> FinderArea(c[1], c[2], size)
<1>1. c[1] \in 0..(size - 1) /\ c[2] \in 0..(size - 1) /\ size \in 21..81
  BY CellsAre, Sizes
<1>2. c \in DOMAIN Finders <=> \E p \in Corners : c \in Square(p[1], p[2], -1, 7)
  BY DEF Finders
<1>3. c \in DOMAIN Finders <=> \/ c \in Square(0, 0, -1, 7) \/ c \in Square(0, size - 7, -1, 7)
                               \/ c \in Square(size - 7, 0, -1, 7)
  BY <1>2 DEF Corners
<1> QED
  BY <1>1, <1>3 DEF Square, FinderArea

LEMMA PatternsInCells ==
    /\ DOMAIN Finders \subseteq Cells /\ DOMAIN AlignmentsDrawn \subseteq Cells
    /\ DOMAIN Timing \subseteq Cells /\ DOMAIN DarkModule \subseteq Cells
    /\ DOMAIN Format \subseteq Cells
<1>1. DOMAIN Finders \subseteq Cells /\ DOMAIN AlignmentsDrawn \subseteq Cells
  BY DEF Finders, AlignmentsDrawn, Alignments, Square
<1>2. DOMAIN Timing \subseteq Cells /\ DOMAIN DarkModule \subseteq Cells
  BY Sizes DEF Timing, DarkModule, Cells
<1>3. ASSUME NEW i \in 0..14 PROVE FirstCopy[i] \in Cells /\ SecondCopy[i] \in Cells
  BY Sizes DEF FirstCopy, SecondCopy, Cells
<1>4. DOMAIN Format = UNION {{FirstCopy[i], SecondCopy[i]} : i \in 0..14}
  BY DEF Format
<1> QED
  BY <1>1, <1>2, <1>3, <1>4

LEMMA AlignmentsLie ==
    ASSUME NEW c \in DOMAIN AlignmentsDrawn
    PROVE  AlignmentArea(c[1], c[2], size)
<1>1. PICK p \in (Positions \X Positions) \ DOMAIN Finders : c \in Square(p[1], p[2], -2, 2)
  BY DEF AlignmentsDrawn, Alignments
<1>2. /\ c \in Cells /\ c[1] - p[1] \in -2..2 /\ c[2] - p[2] \in -2..2
      /\ c[1] \in Int /\ c[2] \in Int
  BY <1>1, CellsAre DEF Square
<1>3. PICK i, j \in Positions : i = p[1] /\ j = p[2] /\ p = <<i, j>>
  BY <1>1
<1>4. /\ i \in Int /\ (i = 6 \/ i = size - 7 \/ i \in 14..(size - 15))
      /\ j \in Int /\ (j = 6 \/ j = size - 7 \/ j \in 14..(size - 15))
      /\ version >= 2
  BY PositionsLie
<1>5. size \in 25..81
  BY <1>4, Sizes
<1>6. p \in Cells /\ ~FinderArea(i, j, size)
  <2>1. p \in Cells
    BY <1>3, <1>4, <1>5 DEF Cells
  <2> QED
    BY <1>1, <1>3, <2>1, FindersLie
<1> QED
  BY <1>2, <1>3, <1>4, <1>5, <1>6 DEF AlignmentArea, FinderArea

LEMMA TimingLies ==
    ASSUME NEW c \in DOMAIN Timing
    PROVE  TimingArea(c[1], c[2], size) /\ Timing[c] = IF c[1] = 6 THEN c[2] % 2 = 0 ELSE c[1] % 2 = 0
BY DEF Timing, TimingArea

LEMMA FormatLies ==
    ASSUME NEW c \in DOMAIN Format
    PROVE  FormatArea(c[1], c[2], size)
<1>1. PICK i \in 0..14 : c = FirstCopy[i] \/ c = SecondCopy[i]
  BY DEF Format
<1>2. FormatArea(FirstCopy[i][1], FirstCopy[i][2], size)
  BY Sizes DEF FirstCopy, FormatArea
<1>3. FormatArea(SecondCopy[i][1], SecondCopy[i][2], size)
  BY Sizes DEF SecondCopy, FormatArea
<1> QED
  BY <1>1, <1>2, <1>3

LEMMA DarkLies ==
    ASSUME NEW c \in DOMAIN DarkModule
    PROVE  c[1] = size - 8 /\ c[2] = 8
BY Sizes DEF DarkModule

\* No pattern is drawn on another, except that alignment patterns lie on the lines
\* of the timing pattern, where they have its colours.
LEMMA TimingAgrees ==
    ASSUME NEW c \in DOMAIN Timing, c \in DOMAIN AlignmentsDrawn
    PROVE  AlignmentsDrawn[c] = Timing[c]
<1>1. /\ c \in Cells /\ c[1] \in Int /\ c[2] \in Int
      /\ TimingArea(c[1], c[2], size)
      /\ Timing[c] = IF c[1] = 6 THEN c[2] % 2 = 0 ELSE c[1] % 2 = 0
  BY PatternsInCells, CellsAre, TimingLies
<1>2. ASSUME NEW p \in (Positions \X Positions) \ DOMAIN Finders, c \in Square(p[1], p[2], -2, 2)
      PROVE  Alignment(c[1] - p[1], c[2] - p[2]) <=> Timing[c]
  <2>1. PICK i, j \in Positions : i = p[1] /\ j = p[2] /\ p = <<i, j>>
    BY <1>2
  <2>2. /\ i \in Int /\ i % 2 = 0 /\ (i = 6 \/ i = size - 7 \/ i \in 14..(size - 15))
        /\ j \in Int /\ j % 2 = 0 /\ (j = 6 \/ j = size - 7 \/ j \in 14..(size - 15))
        /\ version >= 2
    BY PositionsLie
  <2>3. size \in 25..81
    BY <2>2, Sizes
  <2>4. c[1] - i \in -2..2 /\ c[2] - j \in -2..2
    BY <1>2, <2>1 DEF Square
  <2>5. ~FinderArea(i, j, size)
    <3>1. p \in Cells
      BY <2>1, <2>2, <2>3 DEF Cells
    <3> QED
      BY <1>2, <2>1, <3>1, FindersLie
  <2>6. CASE c[1] = 6
    <3>1. i = 6
      BY <1>1, <2>2, <2>3, <2>4, <2>6
    <3>2. c[2] % 2 = 0 <=> c[2] - j \in {-2, 0, 2}
      BY <1>1, <2>2, <2>4
    <3>3. c[2] % 2 = 0 <=> Alignment(c[1] - i, c[2] - j)
      BY <2>4, <2>6, <3>1, <3>2 DEF Alignment
    <3> QED
      BY <1>1, <2>1, <2>6, <3>3
  <2>7. CASE c[1] # 6
    <3>1. c[2] = 6
      BY <1>1, <2>7 DEF TimingArea
    <3>2. j = 6
      BY <1>1, <2>2, <2>3, <2>4, <3>1
    <3>3. c[1] % 2 = 0 <=> c[1] - i \in {-2, 0, 2}
      BY <1>1, <2>2, <2>4
    <3>4. c[1] % 2 = 0 <=> Alignment(c[1] - i, c[2] - j)
      BY <2>4, <3>1, <3>2, <3>3 DEF Alignment
    <3> QED
      BY <1>1, <2>1, <2>7, <3>4
  <2> QED
    BY <2>6, <2>7
<1>3. \E p \in (Positions \X Positions) \ DOMAIN Finders : c \in Square(p[1], p[2], -2, 2)
  BY DEF AlignmentsDrawn, Alignments
<1>4. AlignmentsDrawn[c] = \E p \in (Positions \X Positions) \ DOMAIN Finders :
          c \in Square(p[1], p[2], -2, 2) /\ Alignment(c[1] - p[1], c[2] - p[2])
  BY DEF AlignmentsDrawn, Alignments
<1>5. Timing[c] \in BOOLEAN
  BY <1>1
<1> QED
  BY <1>2, <1>3, <1>4, <1>5

LEMMA PatternsApart ==
    /\ DOMAIN Finders \cap DOMAIN AlignmentsDrawn = {}
    /\ DOMAIN Finders \cap DOMAIN Timing = {}
    /\ DOMAIN Finders \cap DOMAIN DarkModule = {}
    /\ DOMAIN Finders \cap DOMAIN Format = {}
    /\ DOMAIN AlignmentsDrawn \cap DOMAIN DarkModule = {}
    /\ DOMAIN AlignmentsDrawn \cap DOMAIN Format = {}
    /\ DOMAIN Timing \cap DOMAIN DarkModule = {}
    /\ DOMAIN Timing \cap DOMAIN Format = {}
    /\ DOMAIN DarkModule \cap DOMAIN Format = {}
<1>1. ASSUME NEW c \in Cells
      PROVE  /\ c \in DOMAIN Finders => FinderArea(c[1], c[2], size)
             /\ c \in DOMAIN AlignmentsDrawn => AlignmentArea(c[1], c[2], size)
             /\ c \in DOMAIN Timing => TimingArea(c[1], c[2], size)
             /\ c \in DOMAIN DarkModule => c[1] = size - 8 /\ c[2] = 8
             /\ c \in DOMAIN Format => FormatArea(c[1], c[2], size)
             /\ c[1] \in Int /\ c[2] \in Int
  BY CellsAre, FindersLie, AlignmentsLie, TimingLies, DarkLies, FormatLies
<1>2. size \in 21..81
  BY Sizes
<1>3. ASSUME NEW c \in Cells
      PROVE  /\ ~(c \in DOMAIN Finders /\ c \in DOMAIN AlignmentsDrawn)
             /\ ~(c \in DOMAIN Finders /\ c \in DOMAIN Timing)
             /\ ~(c \in DOMAIN Finders /\ c \in DOMAIN DarkModule)
             /\ ~(c \in DOMAIN Finders /\ c \in DOMAIN Format)
             /\ ~(c \in DOMAIN AlignmentsDrawn /\ c \in DOMAIN DarkModule)
             /\ ~(c \in DOMAIN AlignmentsDrawn /\ c \in DOMAIN Format)
             /\ ~(c \in DOMAIN Timing /\ c \in DOMAIN DarkModule)
             /\ ~(c \in DOMAIN Timing /\ c \in DOMAIN Format)
             /\ ~(c \in DOMAIN DarkModule /\ c \in DOMAIN Format)
  BY <1>1, <1>2 DEF FinderArea, AlignmentArea, TimingArea, FormatArea
<1> QED
  BY <1>3, PatternsInCells

\* The vertical timing pattern and two finders fill a column.
LEMMA SixthColumn ==
    ASSUME NEW c \in Cells, c[2] = 6
    PROVE  c \in DOMAIN Finders \cup DOMAIN Timing
<1>1. c[1] \in 0..(size - 1) /\ size \in 21..81
  BY CellsAre, Sizes
<1>2. c[1] \in 8..(size - 9) => c \in DOMAIN Timing
  BY DEF Timing
<1>3. c[1] \in 0..7 \/ c[1] \in (size - 8)..(size - 1) => c \in DOMAIN Finders
  BY <1>1, FindersLie DEF FinderArea
<1> QED
  BY <1>1, <1>2, <1>3

-----------------------------------------------------------------------------
\* The steps of encodeQR keep what is drawn.

Steps == {"finders", "alignments", "timing", "dark", "place", "mask", "format", "done"}

Drawn(pattern) == DOMAIN pattern \subseteq reserved /\ Shows(pattern)

PatternInv ==
    /\ at \in Steps /\ DOMAIN matrix = Cells /\ reserved \subseteq Cells
    /\ at \in {"finders"} => reserved = {}
    /\ at = "alignments" => reserved = DOMAIN Finders
    /\ at # "finders" => Drawn(Finders)
    /\ at \notin {"finders", "alignments"} => Drawn(AlignmentsDrawn)
    /\ at \notin {"finders", "alignments", "timing"} => Drawn(Timing)
    /\ at \notin {"finders", "alignments", "timing", "dark"} => Drawn(DarkModule)
    /\ at = "done" => Shows(Format)

\* len decides the version, and with it the patterns; it never changes.
LEMMA SameSymbol ==
    ASSUME len' = len
    PROVE  /\ version' = version /\ size' = size /\ Cells' = Cells
           /\ Finders' = Finders /\ AlignmentsDrawn' = AlignmentsDrawn
           /\ Timing' = Timing /\ DarkModule' = DarkModule /\ Format' = Format
<1>1. version' = version
  BY DEF version
<1>2. size' = size
  BY <1>1 DEF size
<1>3. Cells' = Cells
  BY <1>2 DEF Cells
<1>4. Finders' = Finders
  BY <1>2, <1>3 DEF Finders, Corners, Square
<1>5. Positions' = Positions
  BY <1>1, <1>2 DEF Positions
<1>6. AlignmentsDrawn' = AlignmentsDrawn
  BY <1>2, <1>3, <1>4, <1>5 DEF AlignmentsDrawn, Alignments, Square
<1>7. Timing' = Timing
  BY <1>2, <1>3 DEF Timing
<1>8. DarkModule' = DarkModule
  BY <1>1 DEF DarkModule
<1>9. Format' = Format
  BY <1>2 DEF Format, FirstCopy, SecondCopy
<1> QED
  BY <1>1, <1>2, <1>3, <1>4, <1>6, <1>7, <1>8, <1>9

\* What is drawn stays if what is drawn over it agrees with it.
LEMMA OverKeeps ==
    ASSUME NEW f, NEW g, DOMAIN f \subseteq Cells, matrix' = Over(matrix, g), Shows(f),
           \A c \in DOMAIN f \cap DOMAIN g : f[c] = g[c]
    PROVE  \A c \in DOMAIN f : matrix'[c] = <<"fixed", f[c]>>
BY DEF Over, Shows

LEMMA OverShows ==
    ASSUME NEW g, DOMAIN g \subseteq Cells, matrix' = Over(matrix, g)
    PROVE  \A c \in DOMAIN g : matrix'[c] = <<"fixed", g[c]>>
BY DEF Over

\* A step draws pattern g; f, drawn before, stays.
LEMMA DrawKeeps ==
    ASSUME NEW f, NEW g, NEW from, NEW to, Draw(from, to, g), DOMAIN f \subseteq Cells, Drawn(f),
           \A c \in DOMAIN f \cap DOMAIN g : f[c] = g[c]
    PROVE  DOMAIN f \subseteq reserved' /\ \A c \in DOMAIN f : matrix'[c] = <<"fixed", f[c]>>
BY OverKeeps DEF Draw, Drawn

LEMMA DrawShows ==
    ASSUME NEW g, NEW from, NEW to, Draw(from, to, g), DOMAIN g \subseteq Cells
    PROVE  DOMAIN g \subseteq reserved' /\ \A c \in DOMAIN g : matrix'[c] = <<"fixed", g[c]>>
BY OverShows DEF Draw

\* A step that leaves the reserved modules as they are.
LEMMA ReservedKeeps ==
    ASSUME NEW f, Drawn(f), reserved' = reserved, \A c \in reserved : matrix'[c] = matrix[c]
    PROVE  DOMAIN f \subseteq reserved' /\ \A c \in DOMAIN f : matrix'[c] = <<"fixed", f[c]>>
BY DEF Drawn, Shows

LEMMA Shape ==
    ASSUME len' = len, DOMAIN matrix' = Cells, reserved' \subseteq Cells, at' \in Steps,
           at' # "finders",
           at' = "alignments" => reserved' = DOMAIN Finders,
           \A c \in DOMAIN Finders : c \in reserved' /\ matrix'[c] = <<"fixed", Finders[c]>>,
           at' # "alignments" =>
               \A c \in DOMAIN AlignmentsDrawn :
                   c \in reserved' /\ matrix'[c] = <<"fixed", AlignmentsDrawn[c]>>,
           at' \notin {"alignments", "timing"} =>
               \A c \in DOMAIN Timing : c \in reserved' /\ matrix'[c] = <<"fixed", Timing[c]>>,
           at' \notin {"alignments", "timing", "dark"} =>
               \A c \in DOMAIN DarkModule :
                   c \in reserved' /\ matrix'[c] = <<"fixed", DarkModule[c]>>,
           at' = "done" => \A c \in DOMAIN Format : matrix'[c] = <<"fixed", Format[c]>>
    PROVE  PatternInv'
BY SameSymbol DEF PatternInv, Drawn, Shows

LEMMA DrawInCells ==
    ASSUME NEW g, NEW from, NEW to, Draw(from, to, g), DOMAIN g \subseteq Cells, PatternInv
    PROVE  DOMAIN matrix' = Cells /\ reserved' \subseteq Cells /\ len' = len
BY DEF Draw, Over, PatternInv

LEMMA FindersStep ==
    ASSUME PatternInv, AddFinderPatterns
    PROVE  PatternInv'
<1>1. Draw("finders", "alignments", Finders) /\ at' = "alignments" /\ reserved' = DOMAIN Finders
  BY DEF AddFinderPatterns, Draw, PatternInv
<1>2. \A c \in DOMAIN Finders : c \in reserved' /\ matrix'[c] = <<"fixed", Finders[c]>>
  BY <1>1, DrawShows, PatternsInCells
<1>3. DOMAIN matrix' = Cells /\ reserved' \subseteq Cells /\ len' = len
  BY <1>1, DrawInCells, PatternsInCells
<1> QED
  BY <1>1, <1>2, <1>3, Shape DEF Steps

LEMMA AlignmentsStep ==
    ASSUME PatternInv, AddAlignmentPatterns
    PROVE  PatternInv'
<1>1. Draw("alignments", "timing", AlignmentsDrawn) /\ at' = "timing" /\ Drawn(Finders)
  BY DEF AddAlignmentPatterns, Draw, PatternInv, AlignmentsDrawn
<1>2. \A c \in DOMAIN AlignmentsDrawn : c \in reserved' /\ matrix'[c] = <<"fixed", AlignmentsDrawn[c]>>
  BY <1>1, DrawShows, PatternsInCells
<1>3. DOMAIN matrix' = Cells /\ reserved' \subseteq Cells /\ len' = len
  BY <1>1, DrawInCells, PatternsInCells
<1>4. \A c \in DOMAIN Finders : c \in reserved' /\ matrix'[c] = <<"fixed", Finders[c]>>
  BY <1>1, DrawKeeps, PatternsInCells, PatternsApart
<1> QED
  BY <1>1, <1>2, <1>3, <1>4, Shape DEF Steps

LEMMA TimingStep ==
    ASSUME PatternInv, AddTimingPatterns
    PROVE  PatternInv'
<1>1. Draw("timing", "dark", Timing) /\ at' = "dark" /\ Drawn(Finders) /\ Drawn(AlignmentsDrawn)
  BY DEF AddTimingPatterns, Draw, PatternInv
<1>2. \A c \in DOMAIN Timing : c \in reserved' /\ matrix'[c] = <<"fixed", Timing[c]>>
  BY <1>1, DrawShows, PatternsInCells
<1>3. DOMAIN matrix' = Cells /\ reserved' \subseteq Cells /\ len' = len
  BY <1>1, DrawInCells, PatternsInCells
<1>4. \A c \in DOMAIN Finders : c \in reserved' /\ matrix'[c] = <<"fixed", Finders[c]>>
  BY <1>1, DrawKeeps, PatternsInCells, PatternsApart
<1>5. \A c \in DOMAIN AlignmentsDrawn :
          c \in reserved' /\ matrix'[c] = <<"fixed", AlignmentsDrawn[c]>>
  <2>1. \A c \in DOMAIN AlignmentsDrawn \cap DOMAIN Timing : AlignmentsDrawn[c] = Timing[c]
    BY TimingAgrees
  <2> QED
    BY <1>1, <2>1, DrawKeeps, PatternsInCells
<1> QED
  BY <1>1, <1>2, <1>3, <1>4, <1>5, Shape DEF Steps

LEMMA DarkStep ==
    ASSUME PatternInv, AddDarkModule
    PROVE  PatternInv'
<1>1. /\ Draw("dark", "place", DarkModule) /\ at' = "place"
      /\ Drawn(Finders) /\ Drawn(AlignmentsDrawn) /\ Drawn(Timing)
  BY DEF AddDarkModule, Draw, PatternInv
<1>2. \A c \in DOMAIN DarkModule : c \in reserved' /\ matrix'[c] = <<"fixed", DarkModule[c]>>
  BY <1>1, DrawShows, PatternsInCells
<1>3. DOMAIN matrix' = Cells /\ reserved' \subseteq Cells /\ len' = len
  BY <1>1, DrawInCells, PatternsInCells
<1>4. \A c \in DOMAIN Finders : c \in reserved' /\ matrix'[c] = <<"fixed", Finders[c]>>
  BY <1>1, DrawKeeps, PatternsInCells, PatternsApart
<1>5. \A c \in DOMAIN AlignmentsDrawn :
          c \in reserved' /\ matrix'[c] = <<"fixed", AlignmentsDrawn[c]>>
  BY <1>1, DrawKeeps, PatternsInCells, PatternsApart
<1>6. \A c \in DOMAIN Timing : c \in reserved' /\ matrix'[c] = <<"fixed", Timing[c]>>
  BY <1>1, DrawKeeps, PatternsInCells, PatternsApart
<1> QED
  BY <1>1, <1>2, <1>3, <1>4, <1>5, <1>6, Shape DEF Steps

\* The bits and the mask go around what is reserved.
LEMMA DataStep ==
    ASSUME PatternInv, PlaceRow \/ ApplyMask
    PROVE  PatternInv'
<1>1. /\ at \in {"place", "mask"} /\ at' \in {"place", "mask", "format"}
      /\ reserved' = reserved /\ len' = len /\ DOMAIN matrix' = Cells
  BY DEF PlaceRow, ApplyMask
<1>2. \A c \in reserved : matrix'[c] = matrix[c]
  BY DEF PlaceRow, ApplyMask, Free, PatternInv
<1>3. /\ Drawn(Finders) /\ Drawn(AlignmentsDrawn) /\ Drawn(Timing) /\ Drawn(DarkModule)
      /\ reserved \subseteq Cells
  BY <1>1 DEF PatternInv
<1>4. /\ \A c \in DOMAIN Finders : c \in reserved' /\ matrix'[c] = <<"fixed", Finders[c]>>
      /\ \A c \in DOMAIN AlignmentsDrawn :
             c \in reserved' /\ matrix'[c] = <<"fixed", AlignmentsDrawn[c]>>
      /\ \A c \in DOMAIN Timing : c \in reserved' /\ matrix'[c] = <<"fixed", Timing[c]>>
      /\ \A c \in DOMAIN DarkModule : c \in reserved' /\ matrix'[c] = <<"fixed", DarkModule[c]>>
  BY <1>1, <1>2, <1>3, ReservedKeeps
<1> QED
  BY <1>1, <1>3, <1>4, Shape DEF Steps

LEMMA FormatStep ==
    ASSUME PatternInv, AddFormatInfo
    PROVE  PatternInv'
<1>1. /\ at' = "done" /\ matrix' = Over(matrix, Format) /\ reserved' = reserved /\ len' = len
      /\ DOMAIN matrix' = Cells /\ reserved \subseteq Cells
      /\ Drawn(Finders) /\ Drawn(AlignmentsDrawn) /\ Drawn(Timing) /\ Drawn(DarkModule)
  BY DEF AddFormatInfo, PatternInv, Over
<1>2. \A c \in DOMAIN Format : matrix'[c] = <<"fixed", Format[c]>>
  BY <1>1, OverShows, PatternsInCells
<1>3. /\ \A c \in DOMAIN Finders : matrix'[c] = <<"fixed", Finders[c]>>
      /\ \A c \in DOMAIN AlignmentsDrawn : matrix'[c] = <<"fixed", AlignmentsDrawn[c]>>
      /\ \A c \in DOMAIN Timing : matrix'[c] = <<"fixed", Timing[c]>>
      /\ \A c \in DOMAIN DarkModule : matrix'[c] = <<"fixed", DarkModule[c]>>
  BY <1>1, OverKeeps, PatternsInCells, PatternsApart DEF Drawn
<1> QED
  BY <1>1, <1>2, <1>3, Shape DEF Steps, Drawn

\* Whatever the step encodeQR is at, the patterns drawn so far show, and their
\* modules are reserved.
THEOREM PatternsStay == Spec => []PatternInv
<1>1. Init => PatternInv
  BY DEF Init, PatternInv, Steps
<1>2. PatternInv /\ [Next]_vars => PatternInv'
  <2> SUFFICES ASSUME PatternInv, [Next]_vars PROVE PatternInv'
    OBVIOUS
  <2>1. CASE UNCHANGED vars
    BY <2>1, SameSymbol DEF vars, PatternInv, Drawn, Shows
  <2> QED
    BY <2>1, FindersStep, AlignmentsStep, TimingStep, DarkStep, DataStep, FormatStep DEF Next
<1> QED
  BY <1>1, <1>2, PTL DEF Spec

\* Whatever the length of the address, each pattern that encodeQR draws is whole in the
\* finished symbol: no later step spoils one. It is not said that these are all that
\* the symbol of that version needs: version information is never drawn.
THEOREM PatternsSurvive == Spec => []PatternsIntact
<1>1. PatternInv => PatternsIntact
  BY DEF PatternInv, PatternsIntact, Drawn, AlignmentsDrawn
<1> QED
  BY <1>1, PatternsStay, PTL

-----------------------------------------------------------------------------
\* The cursor of placeData.

LEMMA CellsFinite ==
    /\ IsFiniteSet(Cells)
    /\ \A S \in SUBSET Cells : IsFiniteSet(S) /\ Cardinality(S) \in Nat
<1>1. PICK n \in Int : n = size - 1
  BY Sizes
<1>2. IsFiniteSet(0..n)
  <2>1. 0 \in Int
    OBVIOUS
  <2> QED
    BY <1>1, <2>1, FS_Interval, Zenon
<1>3. IsFiniteSet((0..n) \X (0..n))
  BY <1>2, FS_Product, Zenon
<1>4. IsFiniteSet(Cells)
  BY <1>1, <1>3 DEF Cells
<1> QED
  BY <1>4, FS_Subset, FS_CardinalityType

LEMMA MinOfTwo ==
    ASSUME NEW a \in Nat, NEW b \in Nat
    PROVE  Min({a, b}) = IF a <= b THEN a ELSE b
<1>1. Min({a, b}) \in {a, b} /\ \A y \in {a, b} : Min({a, b}) <= y
  <2>1. PICK x \in {a, b} : \A y \in {a, b} : x <= y
    BY LeastNumber
  <2> QED
    BY <2>1 DEF Min
<1> QED
  BY <1>1

\* The place of row r on the cursor's way through the present pair of columns.
Turn(r) == IF down % 2 = 0 THEN size - 1 - r ELSE r

\* The free modules the cursor has passed.
Seen == {c \in Cells \ reserved :
            c[2] > col \/ (c[2] \in {col - 1, col} /\ Turn(c[1]) < line)}

CursorOK ==
    /\ down \in Nat /\ line \in 0..(size - 1) /\ col \in Int
    /\ at \in {"finders", "alignments", "timing", "dark"} => col = size - 1 /\ line = 0
    /\ at = "place" => (col \in 8..(size - 1) /\ col % 2 = 0) \/ col \in {1, 3, 5}
    /\ at \in {"mask", "format", "done"} => col = -1

\* The bits laid so far are the first ones, each in a module of its own among
\* those passed; when the format information is written, some of them go.
LaidOK ==
    /\ bitIdx = Min({TotalBits(version), Cardinality(Seen)})
    /\ \E L \in SUBSET Seen : /\ Cardinality(L) = bitIdx
                              /\ Laid = IF at = "done" THEN L \ DOMAIN Format ELSE L
    /\ \A c \in Laid : matrix[c][2] \in 0..(bitIdx - 1)
    /\ \A c, d \in Laid : matrix[c][2] = matrix[d][2] => c = d
    /\ \A c \in Laid : matrix[c][3] = (at \in {"format", "done"} /\ (c[1] + c[2]) % 2 = 0)

Coloured == \A c \in Cells : matrix[c][1] \in {"fixed", "bit"}

IInv == len \in Lengths /\ PatternInv /\ CursorOK /\ LaidOK /\ Coloured

\* One more module passed: it gets the next bit, if there is one left.
LEMMA OneMore ==
    ASSUME NEW S, IsFiniteSet(S), NEW T \in Nat, NEW k, k = Min({T, Cardinality(S)}),
           NEW L, L \subseteq S, Cardinality(L) = k, NEW c, c \notin S
    PROVE  /\ k < T => Cardinality(L \cup {c}) = k + 1
           /\ k < T => Min({T, Cardinality(S \cup {c})}) = k + 1
           /\ ~(k < T) => Min({T, Cardinality(S \cup {c})}) = k
           /\ IsFiniteSet(S \cup {c}) /\ k \in Nat /\ k <= T
<1>1. Cardinality(S) \in Nat /\ IsFiniteSet(L)
  BY FS_CardinalityType, FS_Subset
<1>2. IsFiniteSet(S \cup {c}) /\ Cardinality(S \cup {c}) = Cardinality(S) + 1
  BY FS_AddElement
<1>3. Cardinality(L \cup {c}) = Cardinality(L) + 1
  <2>1. c \notin L
    OBVIOUS
  <2> QED
    BY <1>1, <2>1, FS_AddElement
<1>4. k = IF T <= Cardinality(S) THEN T ELSE Cardinality(S)
  BY <1>1, MinOfTwo
<1>5. Min({T, Cardinality(S \cup {c})}) =
          IF T <= Cardinality(S) + 1 THEN T ELSE Cardinality(S) + 1
  <2>1. Cardinality(S) + 1 \in Nat
    BY <1>1
  <2> QED
    BY <1>2, <2>1, MinOfTwo
<1> QED
  BY <1>1, <1>2, <1>3, <1>4, <1>5

\* The cursor is in the symbol, and its two modules are all that it passes; it
\* jumps over the sixth column, where nothing is free.
LEMMA CursorMoves ==
    ASSUME PatternInv, CursorOK, PlaceRow
    PROVE  /\ CursorOK'
           /\ Right \in Cells /\ Left \in Cells /\ Left # Right
           /\ Right \notin Seen /\ Left \notin Seen
           /\ Seen' = Seen \cup ({Right, Left} \ reserved)
<1>1. /\ down \in Nat /\ line \in 0..(size - 1) /\ col \in 1..(size - 1) /\ size \in 21..81
      /\ (col \in 8..(size - 1) /\ col % 2 = 0) \/ col \in {1, 3, 5}
      /\ size' = size /\ Cells' = Cells /\ reserved' = reserved
  BY Sizes, SameSymbol DEF CursorOK, PlaceRow
<1>2. /\ Right = <<Row, col>> /\ Left = <<Row, col - 1>> /\ Row \in 0..(size - 1)
      /\ Turn(Row) = line
      /\ \A r \in 0..(size - 1) : Turn(r) \in 0..(size - 1) /\ (Turn(r) = line => r = Row)
  BY <1>1 DEF Right, Left, Row, Turn
<1>3. Right \in Cells /\ Left \in Cells /\ Left # Right
  BY <1>1, <1>2 DEF Cells
<1>4. Right \notin Seen /\ Left \notin Seen
  BY <1>1, <1>2 DEF Seen
<1>5. CASE line < size - 1
  <2>1. line' = line + 1 /\ at' = at /\ col' = col /\ down' = down
    BY <1>5 DEF PlaceRow
  <2>2. CursorOK'
    BY <1>1, <1>5, <2>1 DEF CursorOK, PlaceRow
  <2>3. \A r \in 0..(size - 1) : Turn(r)' = Turn(r)
    BY <1>1, <2>1 DEF Turn
  <2>4. ASSUME NEW c \in Cells \ reserved
        PROVE  c \in Seen' <=> c \in Seen \/ c = Right \/ c = Left
    <3>1. c[1] \in 0..(size - 1) /\ c[2] \in 0..(size - 1) /\ c = <<c[1], c[2]>>
      BY CellsAre
    <3>2. c = Right <=> c[1] = Row /\ c[2] = col
      BY <1>2, <3>1
    <3>3. c = Left <=> c[1] = Row /\ c[2] = col - 1
      BY <1>2, <3>1
    <3>4. Turn(c[1]) < line + 1 <=> Turn(c[1]) < line \/ c[1] = Row
      BY <1>1, <1>2, <3>1
    <3>5. c \in Seen' <=> c[2] > col \/ (c[2] \in {col - 1, col} /\ Turn(c[1]) < line + 1)
      BY <1>1, <2>1, <2>3, <3>1 DEF Seen
    <3>6. c \in Seen <=> c[2] > col \/ (c[2] \in {col - 1, col} /\ Turn(c[1]) < line)
      BY DEF Seen
    <3> QED
      BY <3>2, <3>3, <3>4, <3>5, <3>6
  <2>5. Seen' \subseteq Cells \ reserved /\ Seen \subseteq Cells \ reserved
    BY <1>1 DEF Seen
  <2> QED
    BY <1>3, <1>4, <2>2, <2>4, <2>5
<1>6. CASE line = size - 1
  <2>1. line' = 0 /\ col' = NextColumn(col) /\ down' = down + 1
        /\ at' = IF col' < 0 THEN "mask" ELSE "place"
    BY <1>1, <1>6 DEF PlaceRow
  <2>2. /\ col' \in Int /\ col' < col /\ col' >= -1
        /\ (col' >= 0 => (col' \in 8..(size - 1) /\ col' % 2 = 0) \/ col' \in {1, 3, 5})
        /\ (col' < 0 => col' = -1)
        /\ (col = 8 => col' = 5) /\ (col # 8 => col' = col - 2)
    BY <1>1, <2>1 DEF NextColumn
  <2>3. CursorOK'
    BY <1>1, <2>1, <2>2 DEF CursorOK, PlaceRow
  <2>4. ASSUME NEW c \in Cells \ reserved
        PROVE  c \in Seen' <=> c \in Seen \/ c = Right \/ c = Left
    <3>1. c[1] \in 0..(size - 1) /\ c[2] \in 0..(size - 1) /\ c = <<c[1], c[2]>>
      BY CellsAre
    <3>2. c = Right <=> c[1] = Row /\ c[2] = col
      BY <1>2, <3>1
    <3>3. c = Left <=> c[1] = Row /\ c[2] = col - 1
      BY <1>2, <3>1
    <3>4. Turn(c[1]) < line \/ c[1] = Row
      BY <1>1, <1>2, <1>6, <3>1
    <3>5. c[2] # 6
      BY SixthColumn DEF PatternInv, Drawn, PlaceRow
    <3>6. c \in Seen' <=> c[2] > col'
      <4>1. Turn(c[1])' \in Nat
        BY <1>1, <2>1, <3>1 DEF Turn
      <4>2. c \in Seen' <=> c[2] > col' \/ (c[2] \in {col' - 1, col'} /\ Turn(c[1])' < 0)
        BY <1>1, <2>1 DEF Seen
      <4> QED
        BY <4>1, <4>2
    <3>7. c \in Seen <=> c[2] > col \/ (c[2] \in {col - 1, col} /\ Turn(c[1]) < line)
      BY DEF Seen
    <3>8. c[2] > col' <=> c[2] > col \/ c[2] \in {col - 1, col}
      BY <1>1, <2>2, <3>1, <3>5
    <3> QED
      BY <3>2, <3>3, <3>4, <3>6, <3>7, <3>8
  <2>5. Seen' \subseteq Cells \ reserved /\ Seen \subseteq Cells \ reserved
    BY <1>1 DEF Seen
  <2> QED
    BY <1>3, <1>4, <2>3, <2>4, <2>5
<1> QED
  BY <1>1, <1>5, <1>6

\* A module with a bit.
LEMMA BitCell ==
    ASSUME NEW k
    PROVE  <<"bit", k, FALSE>>[1] = "bit" /\ <<"bit", k, FALSE>>[2] = k
           /\ <<"bit", k, FALSE>>[3] = FALSE
OBVIOUS

\* What PlaceRow writes.
LEMMA PlaceRowWrites ==
    ASSUME IInv, PlaceRow, Right \in Cells, Left \in Cells, Left # Right,
           NEW k, k = bitIdx, NEW T, T = TotalBits(version),
           NEW n, n = IF Right \in reserved THEN k ELSE k + 1
    PROVE  /\ bitIdx' = Min({T, IF Left \in reserved THEN n ELSE n + 1})
           /\ Right \notin reserved /\ k < T => matrix'[Right] = <<"bit", k, FALSE>>
           /\ Left \notin reserved /\ n < T => matrix'[Left] = <<"bit", n, FALSE>>
           /\ \A c \in Cells : \/ c = Right /\ Right \notin reserved /\ k < T
                               \/ c = Left /\ Left \notin reserved /\ n < T
                               \/ matrix'[c] = matrix[c]
BY DEF PlaceRow, Free

LEMMA PlaceRowStep ==
    ASSUME IInv, PlaceRow
    PROVE  IInv'
<1>1. PatternInv'
  BY DataStep DEF IInv
<1>2. /\ CursorOK'
      /\ Right \in Cells /\ Left \in Cells /\ Left # Right
      /\ Right \notin Seen /\ Left \notin Seen
      /\ Seen' = Seen \cup ({Right, Left} \ reserved)
  BY CursorMoves DEF IInv
<1>3. at = "place" /\ at' \in {"place", "mask"} /\ Cells' = Cells /\ version' = version
      /\ reserved' = reserved /\ len' \in Lengths
  BY SameSymbol DEF PlaceRow, IInv
<1>4. PICK T \in Nat : T = TotalBits(version)
  BY Sizes
<1>5. PICK k : k = bitIdx
  OBVIOUS
<1>6. PICK n : n = IF Right \in reserved THEN k ELSE k + 1
  OBVIOUS
<1>7. PICK S, L, right, left : S = Seen /\ L = Laid /\ right = Right /\ left = Left
  OBVIOUS
<1>8. /\ S \subseteq Cells \ reserved /\ IsFiniteSet(S) /\ L \in SUBSET S
      /\ k = Min({T, Cardinality(S)}) /\ Cardinality(L) = k
      /\ right \in Cells /\ left \in Cells /\ left # right /\ right \notin S /\ left \notin S
  BY <1>2, <1>3, <1>4, <1>5, <1>7, CellsFinite DEF IInv, LaidOK, Seen
<1>9. PICK S1 : S1 = S \cup ({right} \ reserved)
  OBVIOUS
<1>10. PICK L1 : L1 = IF right \notin reserved /\ k < T THEN L \cup {right} ELSE L
  OBVIOUS
<1>11. PICK k1 : k1 = Min({T, Cardinality(S1)})
  OBVIOUS
<1>12. k \in Nat /\ k <= T
  BY <1>8, OneMore
<1>13. /\ IsFiniteSet(S1) /\ L1 \in SUBSET S1 /\ left \notin S1
       /\ Cardinality(L1) = k1 /\ k1 \in Nat
       /\ k1 = IF right \notin reserved /\ k < T THEN k + 1 ELSE k
  <2>1. CASE right \in reserved
    <3>1. S1 = S /\ L1 = L
      BY <1>9, <1>10, <2>1
    <3> QED
      BY <1>8, <1>11, <1>12, <2>1, <3>1
  <2>2. CASE right \notin reserved
    <3>1. S1 = S \cup {right}
      BY <1>9, <2>2
    <3>2. /\ k < T => Cardinality(L \cup {right}) = k + 1
          /\ k < T => Min({T, Cardinality(S \cup {right})}) = k + 1
          /\ ~(k < T) => Min({T, Cardinality(S \cup {right})}) = k
          /\ IsFiniteSet(S \cup {right})
      BY <1>8, OneMore
    <3>3. L1 \in SUBSET S1 /\ left \notin S1
      BY <1>8, <1>10, <3>1
    <3> QED
      BY <1>8, <1>10, <1>11, <1>12, <2>2, <3>1, <3>2, <3>3
  <2> QED
    BY <2>1, <2>2
<1>14. PICK S2 : S2 = S1 \cup ({left} \ reserved)
  OBVIOUS
<1>15. PICK L2 : L2 = IF left \notin reserved /\ n < T THEN L1 \cup {left} ELSE L1
  OBVIOUS
<1>16. PICK k2 : k2 = Min({T, Cardinality(S2)})
  OBVIOUS
<1>17. n \in Nat /\ (n < T => k1 = n) /\ (~(n < T) => k1 = T) /\ k1 <= T
  BY <1>6, <1>7, <1>12, <1>13
<1>18. /\ L2 \in SUBSET S2 /\ Cardinality(L2) = k2 /\ k2 \in Nat
       /\ k2 = IF left \notin reserved /\ n < T THEN n + 1 ELSE k1
  <2>1. CASE left \in reserved
    <3>1. S2 = S1 /\ L2 = L1
      BY <1>14, <1>15, <2>1
    <3> QED
      BY <1>11, <1>13, <1>16, <2>1, <3>1
  <2>2. CASE left \notin reserved
    <3>1. S2 = S1 \cup {left}
      BY <1>14, <2>2
    <3>2. /\ k1 < T => Cardinality(L1 \cup {left}) = k1 + 1
          /\ k1 < T => Min({T, Cardinality(S1 \cup {left})}) = k1 + 1
          /\ ~(k1 < T) => Min({T, Cardinality(S1 \cup {left})}) = k1
      BY <1>11, <1>13, OneMore
    <3>3. L1 \in SUBSET S1 /\ L2 \in SUBSET S2
      BY <1>13, <1>15, <3>1
    <3> QED
      BY <1>13, <1>15, <1>16, <1>17, <2>2, <3>1, <3>2, <3>3
  <2> QED
    BY <2>1, <2>2
<1>19. /\ bitIdx' = Min({T, IF left \in reserved THEN n ELSE n + 1})
       /\ right \notin reserved /\ k < T => matrix'[right] = <<"bit", k, FALSE>>
       /\ left \notin reserved /\ n < T => matrix'[left] = <<"bit", n, FALSE>>
       /\ \A c \in Cells : \/ c = right /\ right \notin reserved /\ k < T
                           \/ c = left /\ left \notin reserved /\ n < T
                           \/ matrix'[c] = matrix[c]
  BY <1>2, <1>4, <1>5, <1>6, <1>7, PlaceRowWrites
<1>20. /\ right \notin reserved /\ k < T =>
             matrix'[right][1] = "bit" /\ matrix'[right][2] = k /\ matrix'[right][3] = FALSE
       /\ left \notin reserved /\ n < T =>
             matrix'[left][1] = "bit" /\ matrix'[left][2] = n /\ matrix'[left][3] = FALSE
       /\ \A c \in Cells : \/ c = right /\ right \notin reserved /\ k < T
                           \/ c = left /\ left \notin reserved /\ n < T
                           \/ matrix'[c] = matrix[c]
  BY <1>19, BitCell, Zenon
<1>21. bitIdx' = k2
  <2>1. PICK m \in Nat : m = IF left \in reserved THEN n ELSE n + 1
    BY <1>17
  <2>2. bitIdx' = IF T <= m THEN T ELSE m
    BY <1>19, <2>1, MinOfTwo
  <2>3. CASE left \in reserved
    BY <1>17, <1>18, <2>1, <2>2, <2>3
  <2>4. CASE left \notin reserved
    <3>1. m = n + 1 /\ k2 = IF n < T THEN n + 1 ELSE k1
      BY <1>18, <2>1, <2>4
    <3> QED
      BY <1>4, <1>17, <2>2, <3>1
  <2> QED
    BY <2>3, <2>4
<1>22. Seen' = S2
  BY <1>2, <1>7, <1>9, <1>14
<1>23. L = {c \in Cells : matrix[c][1] = "bit"}
  BY <1>7 DEF Laid
<1>24. Laid' = L2
  <2>1. Laid' = {c \in Cells : matrix'[c][1] = "bit"}
    BY <1>3 DEF Laid
  <2>2. \A c \in Cells : matrix'[c][1] = "bit" <=> c \in L2
    <3>1. ASSUME NEW c \in Cells, c # right, c # left
          PROVE  matrix'[c][1] = "bit" <=> c \in L2
      BY <1>10, <1>15, <1>20, <1>23, <3>1
    <3>2. matrix'[right][1] = "bit" <=> right \in L2
      BY <1>8, <1>10, <1>15, <1>20, <1>23
    <3>3. matrix'[left][1] = "bit" <=> left \in L2
      BY <1>8, <1>10, <1>15, <1>20, <1>23
    <3> QED
      BY <3>1, <3>2, <3>3
  <2>3. L2 \subseteq Cells
    BY <1>8, <1>10, <1>15
  <2> QED
    BY <2>1, <2>2, <2>3
\* The numbers of the bits.
<1>25. /\ \A c \in L : matrix[c][2] \in 0..(k - 1) /\ matrix[c][3] = FALSE
       /\ \A c, d \in L : matrix[c][2] = matrix[d][2] => c = d
  BY <1>3, <1>5, <1>7 DEF IInv, LaidOK
<1>26. ASSUME NEW c \in L2
       PROVE  \/ c \in L /\ matrix'[c] = matrix[c]
              \/ c = right /\ right \notin reserved /\ k < T
              \/ c = left /\ left \notin reserved /\ n < T
  BY <1>8, <1>10, <1>15, <1>20
<1>27. ASSUME NEW c \in L2 PROVE matrix'[c][2] \in 0..(k2 - 1) /\ matrix'[c][3] = FALSE
  <2>1. CASE c \in L /\ matrix'[c] = matrix[c]
    BY <1>12, <1>13, <1>17, <1>18, <1>25, <2>1
  <2>2. CASE c = right /\ right \notin reserved /\ k < T
    BY <1>12, <1>13, <1>17, <1>18, <1>20, <2>2
  <2>3. CASE c = left /\ left \notin reserved /\ n < T
    BY <1>17, <1>18, <1>20, <2>3
  <2> QED
    BY <1>26, <2>1, <2>2, <2>3
<1>28. ASSUME NEW c \in L2, NEW d \in L2, matrix'[c][2] = matrix'[d][2] PROVE c = d
  <2>1. right \notin reserved /\ k < T => n = k + 1
    BY <1>6, <1>7
  <2>2. n >= k
    BY <1>6, <1>12
  <2>3. \A e \in L : matrix[e][2] \in Int /\ matrix[e][2] < k
    BY <1>12, <1>25
  <2> QED
    BY <1>12, <1>17, <1>20, <1>25, <1>26, <1>28, <2>1, <2>2, <2>3
<1>29. LaidOK'
  <2>1. bitIdx' = Min({TotalBits(version)', Cardinality(Seen')})
    BY <1>3, <1>4, <1>16, <1>21, <1>22 DEF TotalBits
  <2>2. \E M \in SUBSET Seen' : Cardinality(M) = bitIdx' /\ Laid' = M
    BY <1>18, <1>21, <1>22, <1>24
  <2>3. \A c \in Laid' : matrix'[c][2] \in 0..(bitIdx' - 1) /\ matrix'[c][3] = FALSE
    BY <1>21, <1>24, <1>27
  <2>4. \A c, d \in Laid' : matrix'[c][2] = matrix'[d][2] => c = d
    BY <1>24, <1>28
  <2> QED
    BY <1>3, <2>1, <2>2, <2>3, <2>4 DEF LaidOK
<1>30. Coloured'
  <2>1. \A c \in Cells : matrix[c][1] \in {"fixed", "bit"}
    BY DEF Coloured, IInv
  <2>2. \A c \in Cells : matrix'[c][1] \in {"fixed", "bit"}
    BY <1>20, <2>1
  <2> QED
    BY <1>3, <2>2 DEF Coloured
<1> QED
  BY <1>1, <1>2, <1>3, <1>29, <1>30 DEF IInv

\* The cursor waits until the patterns are drawn.
LEMMA DrawStep ==
    ASSUME IInv, PatternInv', at \in {"finders", "alignments", "timing", "dark"},
           NEW g, NEW from, NEW to \in {"alignments", "timing", "dark", "place"}, Draw(from, to, g)
    PROVE  IInv'
<1>1. /\ len' = len /\ at' = to /\ bitIdx' = bitIdx /\ matrix' = Over(matrix, g)
      /\ col' = col /\ line' = line /\ down' = down /\ len \in Lengths
      /\ Cells' = Cells /\ size' = size /\ version' = version
  BY SameSymbol DEF IInv, Draw
<1>2. /\ col = size - 1 /\ line = 0 /\ down \in Nat /\ size \in 21..81
      /\ version \in 1..16 /\ size = 17 + version * 4
  BY Sizes DEF IInv, CursorOK
<1>3. Seen = {}
  <2>1. ASSUME NEW c \in Cells PROVE ~(c[2] > col) /\ Turn(c[1]) >= 0
    BY <1>2, CellsAre DEF Turn
  <2>2. ASSUME NEW c \in Cells PROVE ~(Turn(c[1]) < 0)
    <3>1. Turn(c[1]) \in Int
      BY <1>2, CellsAre DEF Turn
    <3> QED
      BY <2>1, <3>1
  <2> QED
    BY <1>2, <2>1, <2>2 DEF Seen
<1>4. Seen' = {}
  <2>1. ASSUME NEW c \in Cells PROVE ~(c[2] > col') /\ ~(Turn(c[1])' < line')
    BY <1>1, <1>2, CellsAre DEF Turn
  <2> QED
    BY <1>1, <2>1 DEF Seen
<1>5. Laid = {} /\ bitIdx = Min({TotalBits(version), Cardinality({})})
  BY <1>3 DEF IInv, LaidOK
<1>6. Cardinality({}) = 0 /\ bitIdx = 0
  <2>1. Cardinality({}) = 0
    BY FS_EmptySet
  <2>2. PICK T \in Nat : T = TotalBits(version)
    BY Sizes
  <2>3. Min({T, 0}) = 0
    BY <2>2, MinOfTwo
  <2> QED
    BY <1>5, <2>1, <2>2, <2>3
<1>7. \A c \in Cells : matrix[c][1] = "fixed"
  BY <1>5 DEF Laid, IInv, Coloured
<1>8. \A c \in Cells : matrix'[c][1] = "fixed"
  <2>1. \A b : <<"fixed", b>>[1] = "fixed"
    OBVIOUS
  <2> QED
    BY <1>1, <1>7, <2>1 DEF Over
<1>9. Laid' = {} /\ Coloured'
  BY <1>1, <1>8 DEF Laid, Coloured
<1>10. CursorOK'
  BY <1>1, <1>2 DEF CursorOK
<1>11. LaidOK'
  <2>1. bitIdx' = Min({TotalBits(version)', Cardinality(Seen')})
    BY <1>1, <1>3, <1>4, <1>5 DEF TotalBits
  <2>2. Cardinality({}) = bitIdx'
    BY <1>1, <1>6
  <2> QED
    BY <1>1, <1>4, <1>9, <2>1, <2>2 DEF LaidOK
<1> QED
  BY <1>1, <1>9, <1>10, <1>11 DEF IInv

\* After the cursor has left the symbol only colours change.
LEMMA CursorGone ==
    ASSUME IInv, len' = len, reserved' = reserved, bitIdx' = bitIdx, col' = col, line' = line,
           down' = down, at \in {"mask", "format"}, at' \in {"format", "done"}
    PROVE  /\ CursorOK' /\ len' \in Lengths /\ Cells' = Cells /\ Format' = Format
           /\ Seen' = Seen /\ bitIdx' = Min({TotalBits(version)', Cardinality(Seen')})
           /\ Cardinality(Laid) = bitIdx /\ Laid \subseteq Seen
<1>1. /\ Cells' = Cells /\ size' = size /\ version' = version /\ Format' = Format
  BY SameSymbol
<1>2. CursorOK'
  BY <1>1 DEF IInv, CursorOK
<1>3. Seen' = Seen
  BY <1>1 DEF Seen, Turn
<1>4. bitIdx' = Min({TotalBits(version)', Cardinality(Seen')})
  BY <1>1, <1>3 DEF IInv, LaidOK, TotalBits
<1>5. Cardinality(Laid) = bitIdx /\ Laid \subseteq Seen
  BY DEF IInv, LaidOK
<1> QED
  BY <1>1, <1>2, <1>3, <1>4, <1>5 DEF IInv

LEMMA MaskStep ==
    ASSUME IInv, ApplyMask
    PROVE  IInv'
<1>1. PatternInv'
  BY DataStep DEF IInv
<1>2. /\ at = "mask" /\ at' = "format" /\ reserved' = reserved /\ len' = len
      /\ bitIdx' = bitIdx /\ col' = col /\ line' = line /\ down' = down
  BY DEF ApplyMask
<1>3. /\ CursorOK' /\ len' \in Lengths /\ Cells' = Cells
      /\ Seen' = Seen /\ bitIdx' = Min({TotalBits(version)', Cardinality(Seen')})
      /\ Cardinality(Laid) = bitIdx /\ Laid \subseteq Seen
  BY <1>2, CursorGone
<1>4. ASSUME NEW c \in Cells PROVE matrix[c][1] \in {"fixed", "bit"} /\ matrix'[c][1] = matrix[c][1]
  <2>1. matrix[c][1] \in {"fixed", "bit"}
    BY DEF IInv, Coloured
  <2>2. CASE c \in reserved \/ (c[1] + c[2]) % 2 = 1
    BY <2>1, <2>2 DEF ApplyMask
  <2>3. CASE ~(c \in reserved \/ (c[1] + c[2]) % 2 = 1) /\ matrix[c][1] = "fixed"
    <3>1. matrix'[c] = <<"fixed", ~matrix[c][2]>>
      BY <2>3 DEF ApplyMask
    <3> QED
      BY <2>3, <3>1
  <2>4. CASE ~(c \in reserved \/ (c[1] + c[2]) % 2 = 1) /\ matrix[c][1] = "bit"
    <3>1. matrix'[c] = <<"bit", matrix[c][2], TRUE>>
      BY <2>4 DEF ApplyMask
    <3> QED
      BY <2>4, <3>1
  <2> QED
    BY <2>1, <2>2, <2>3, <2>4
<1>5. Laid' = Laid /\ Coloured'
  BY <1>3, <1>4 DEF Laid, Coloured
<1>6. ASSUME NEW c \in Laid
      PROVE  matrix'[c][2] = matrix[c][2] /\ matrix'[c][3] = ((c[1] + c[2]) % 2 = 0)
  <2>1. /\ c \in Cells \ reserved /\ matrix[c][1] = "bit" /\ matrix[c][3] = FALSE
        /\ c[1] \in Int /\ c[2] \in Int
    BY <1>2, <1>3, CellsAre DEF IInv, LaidOK, Laid, Seen
  <2>2. CASE (c[1] + c[2]) % 2 = 1
    <3>1. matrix'[c] = matrix[c] /\ ~((c[1] + c[2]) % 2 = 0)
      BY <2>1, <2>2 DEF ApplyMask
    <3> QED
      BY <2>1, <3>1
  <2>3. CASE (c[1] + c[2]) % 2 # 1
    <3>1. (c[1] + c[2]) % 2 = 0
      BY <2>1, <2>3
    <3>2. matrix'[c] = <<"bit", matrix[c][2], TRUE>>
      BY <2>1, <2>3 DEF ApplyMask
    <3>3. matrix'[c][2] = matrix[c][2] /\ matrix'[c][3] = TRUE
      BY <3>2
    <3> QED
      BY <3>1, <3>3
  <2> QED
    BY <2>2, <2>3
<1>7. LaidOK'
  <2>1. \E L \in SUBSET Seen' : Cardinality(L) = bitIdx' /\ Laid' = L
    BY <1>2, <1>3, <1>5
  <2>2. /\ \A c \in Laid : matrix[c][2] \in 0..(bitIdx - 1)
        /\ \A c, d \in Laid : matrix[c][2] = matrix[d][2] => c = d
    BY DEF IInv, LaidOK
  <2>3. \A c \in Laid' : matrix'[c][2] \in 0..(bitIdx' - 1)
    BY <1>2, <1>5, <1>6, <2>2
  <2>4. \A c, d \in Laid' : matrix'[c][2] = matrix'[d][2] => c = d
    BY <1>5, <1>6, <2>2
  <2>5. \A c \in Laid' : matrix'[c][3] = ((c[1] + c[2]) % 2 = 0)
    BY <1>5, <1>6
  <2> QED
    BY <1>2, <1>3, <2>1, <2>3, <2>4, <2>5 DEF LaidOK
<1> QED
  BY <1>1, <1>3, <1>5, <1>7 DEF IInv

LEMMA LastStep ==
    ASSUME IInv, AddFormatInfo
    PROVE  IInv'
<1>1. PatternInv'
  BY FormatStep DEF IInv
<1>2. /\ at = "format" /\ at' = "done" /\ reserved' = reserved /\ len' = len
      /\ bitIdx' = bitIdx /\ col' = col /\ line' = line /\ down' = down
      /\ matrix' = Over(matrix, Format)
  BY DEF AddFormatInfo
<1>3. /\ CursorOK' /\ len' \in Lengths /\ Cells' = Cells /\ Format' = Format
      /\ Seen' = Seen /\ bitIdx' = Min({TotalBits(version)', Cardinality(Seen')})
      /\ Cardinality(Laid) = bitIdx /\ Laid \subseteq Seen
  BY <1>2, CursorGone
<1>4. /\ \A c \in Cells : c \in DOMAIN Format => matrix'[c][1] = "fixed"
      /\ \A c \in Cells : c \notin DOMAIN Format => matrix'[c] = matrix[c]
  <2>1. \A b : <<"fixed", b>>[1] = "fixed"
    OBVIOUS
  <2> QED
    BY <1>2, <2>1 DEF Over
<1>5. Laid' = Laid \ DOMAIN Format /\ Coloured'
  <2>1. \A c \in Cells : matrix'[c][1] = "bit" <=> matrix[c][1] = "bit" /\ c \notin DOMAIN Format
    BY <1>4
  <2>2. \A c \in Cells : matrix'[c][1] \in {"fixed", "bit"}
    BY <1>4 DEF IInv, Coloured
  <2> QED
    BY <1>3, <2>1, <2>2 DEF Laid, Coloured
<1>6. \A c \in Laid' : c \in Laid /\ matrix'[c] = matrix[c]
  BY <1>4, <1>5 DEF Laid
<1>7. LaidOK'
  <2>1. \E L \in SUBSET Seen' : Cardinality(L) = bitIdx' /\ Laid' = L \ DOMAIN Format'
    BY <1>2, <1>3, <1>5
  <2>2. /\ \A c \in Laid : matrix[c][2] \in 0..(bitIdx - 1)
        /\ \A c, d \in Laid : matrix[c][2] = matrix[d][2] => c = d
    BY DEF IInv, LaidOK
  <2>3. \A c \in Laid : matrix[c][3] = ((c[1] + c[2]) % 2 = 0)
    BY <1>2 DEF IInv, LaidOK
  <2>4. \A c \in Laid' : matrix'[c][2] \in 0..(bitIdx' - 1)
    BY <1>2, <1>6, <2>2
  <2>5. \A c, d \in Laid' : matrix'[c][2] = matrix'[d][2] => c = d
    BY <1>6, <2>2
  <2>6. \A c \in Laid' : matrix'[c][3] = ((c[1] + c[2]) % 2 = 0)
    BY <1>6, <2>3
  <2> QED
    BY <1>2, <1>3, <2>1, <2>4, <2>5, <2>6 DEF LaidOK
<1> QED
  BY <1>1, <1>3, <1>5, <1>7 DEF IInv

LEMMA Stutter ==
    ASSUME IInv, UNCHANGED vars
    PROVE  IInv'
<1>1. /\ len' = len /\ at' = at /\ matrix' = matrix /\ reserved' = reserved
      /\ col' = col /\ down' = down /\ line' = line /\ bitIdx' = bitIdx
  BY DEF vars
<1>2. /\ Cells' = Cells /\ size' = size /\ version' = version /\ Format' = Format
  BY <1>1, SameSymbol
<1>3. Seen' = Seen /\ Laid' = Laid /\ TotalBits(version)' = TotalBits(version)
  BY <1>1, <1>2 DEF Seen, Turn, Laid, TotalBits
<1>4. PatternInv'
  BY <1>1, SameSymbol DEF IInv, PatternInv, Drawn, Shows
<1>5. CursorOK'
  BY <1>1, <1>2 DEF IInv, CursorOK
<1>6. LaidOK'
  BY <1>1, <1>2, <1>3 DEF IInv, LaidOK
<1>7. Coloured'
  BY <1>1, <1>2 DEF IInv, Coloured
<1> QED
  BY <1>1, <1>4, <1>5, <1>6, <1>7 DEF IInv

LEMMA Begins ==
    ASSUME Init
    PROVE  IInv
<1>1. /\ at = "finders" /\ reserved = {} /\ matrix = [c \in Cells |-> <<"fixed", FALSE>>]
      /\ col = size - 1 /\ down = 0 /\ line = 0 /\ bitIdx = 0 /\ len \in Lengths
      /\ size \in 21..81
  BY Sizes DEF Init
<1>2. PatternInv
  BY <1>1 DEF PatternInv, Steps
<1>3. CursorOK
  BY <1>1 DEF CursorOK
<1>4. \A c \in Cells : matrix[c][1] = "fixed"
  <2>1. <<"fixed", FALSE>>[1] = "fixed"
    OBVIOUS
  <2> QED
    BY <1>1, <2>1
<1>5. Laid = {} /\ Coloured
  BY <1>4 DEF Laid, Coloured
<1>6. Seen = {}
  <2>1. ASSUME NEW c \in Cells PROVE ~(c[2] > col) /\ ~(Turn(c[1]) < line)
    BY <1>1, CellsAre DEF Turn
  <2> QED
    BY <1>1, <2>1 DEF Seen
<1>7. Cardinality({}) = 0 /\ Min({TotalBits(version), 0}) = 0
  <2>1. Cardinality({}) = 0
    BY FS_EmptySet
  <2>2. PICK T \in Nat : T = TotalBits(version)
    BY Sizes
  <2>3. Min({T, 0}) = 0
    BY <2>2, MinOfTwo
  <2> QED
    BY <2>1, <2>2, <2>3
<1>8. LaidOK
  BY <1>1, <1>5, <1>6, <1>7 DEF LaidOK
<1> QED
  BY <1>1, <1>2, <1>3, <1>5, <1>8 DEF IInv

\* However long the address, the cursor of placeData meets every free module once,
\* and the bits laid are the first ones, each in a module of its own.
THEOREM Inductive == Spec => []IInv
<1>1. Init => IInv
  BY Begins
<1>2. IInv /\ [Next]_vars => IInv'
  <2> SUFFICES ASSUME IInv, [Next]_vars PROVE IInv'
    OBVIOUS
  <2>1. CASE AddFinderPatterns
    <3>1. PatternInv'
      BY <2>1, FindersStep DEF IInv
    <3> QED
      BY <2>1, <3>1, DrawStep DEF AddFinderPatterns, Draw
  <2>2. CASE AddAlignmentPatterns
    <3>1. PatternInv'
      BY <2>2, AlignmentsStep DEF IInv
    <3> QED
      BY <2>2, <3>1, DrawStep DEF AddAlignmentPatterns, Draw
  <2>3. CASE AddTimingPatterns
    <3>1. PatternInv'
      BY <2>3, TimingStep DEF IInv
    <3> QED
      BY <2>3, <3>1, DrawStep DEF AddTimingPatterns, Draw
  <2>4. CASE AddDarkModule
    <3>1. PatternInv'
      BY <2>4, DarkStep DEF IInv
    <3> QED
      BY <2>4, <3>1, DrawStep DEF AddDarkModule, Draw
  <2>5. CASE PlaceRow
    BY <2>5, PlaceRowStep
  <2>6. CASE ApplyMask
    BY <2>6, MaskStep
  <2>7. CASE AddFormatInfo
    BY <2>7, LastStep
  <2>8. CASE UNCHANGED vars
    BY <2>8, Stutter
  <2> QED
    BY <2>1, <2>2, <2>3, <2>4, <2>5, <2>6, <2>7, <2>8 DEF Next
<1> QED
  BY <1>1, <1>2, PTL DEF Spec

-----------------------------------------------------------------------------
\* What is lost.

LEMMA MaxOfTwo ==
    ASSUME NEW a \in Int, NEW b \in Int
    PROVE  Max({a, b}) = IF a >= b THEN a ELSE b
<1>1. Max({a, b}) \in {a, b} /\ \A y \in {a, b} : Max({a, b}) >= y
  <2>1. PICK x \in {a, b} : \A y \in {a, b} : x >= y
    <3>1. CASE a >= b
      BY <3>1
    <3>2. CASE b >= a
      BY <3>2
    <3> QED
      BY <3>1, <3>2
  <2> QED
    BY <2>1 DEF Max
<1> QED
  BY <1>1

LEMMA WholeBytes ==
    ASSUME NEW n \in Nat
    PROVE  DataBits(n) \in Nat
<1>1. PICK body \in Nat : body = 12 + 8 * n
  OBVIOUS
<1>2. Min({body + 4, 128}) \in Nat
  BY MinOfTwo
<1>3. PICK ended \in Nat : ended = Max({body, Min({body + 4, 128})})
  BY <1>2, MaxOfTwo
<1>4. DataBits(n) = ((ended + 7) \div 8) * 8
  BY <1>1, <1>3 DEF DataBits
<1> QED
  BY <1>4

\* The number of a bit in a module tells the modules apart.
LEMMA NumbersOf ==
    ASSUME NEW L, IsFiniteSet(L), NEW f, \A c, d \in L : f[c] = f[d] => c = d
    PROVE  Cardinality({f[c] : c \in L}) = Cardinality(L) /\ IsFiniteSet({f[c] : c \in L})
<1> DEFINE g == [c \in L |-> f[c]]
<1>1. g \in Bijection(L, {f[c] : c \in L})
  BY DEF Bijection, Injection, Surjection, IsInjective
<1>2. ExistsBijection(L, {f[c] : c \in L})
  BY <1>1 DEF ExistsBijection
<1> QED
  BY <1>2, FS_Bijection

\* Of the numbers below n, those below laid that none of N has, and the rest.
LEMMA MissingNumbers ==
    ASSUME NEW n \in Nat, NEW laid \in Nat, NEW N \in SUBSET (0..(laid - 1)),
           NEW lost \in SUBSET (0..(n - 1)), lost \cap N = {}
    PROVE  Cardinality(lost) <= Max({0, n - laid}) + (laid - Cardinality(N))
<1>1. PICK B, R, A : B = 0..(laid - 1) /\ R = laid..(n - 1) /\ A = B \ N
  OBVIOUS
<1>2. PICK more \in Nat : more = Max({0, n - laid}) /\ more = IF n >= laid THEN n - laid ELSE 0
  BY MaxOfTwo
<1>3. IsFiniteSet(B) /\ IsFiniteSet(R) /\ Cardinality(B) = laid /\ Cardinality(R) = more
  <2>1. 0 \in Int /\ laid - 1 \in Int /\ n - 1 \in Int
    OBVIOUS
  <2>2. /\ IsFiniteSet(B) /\ Cardinality(B) = IF 0 > laid - 1 THEN 0 ELSE (laid - 1) - 0 + 1
        /\ IsFiniteSet(R) /\ Cardinality(R) = IF laid > n - 1 THEN 0 ELSE (n - 1) - laid + 1
    BY <1>1, <2>1, FS_Interval
  <2> QED
    BY <1>2, <2>2
<1>4. N \subseteq B /\ B \cap N = N /\ lost \subseteq A \cup R
  <2>1. N \subseteq B
    BY <1>1
  <2>2. ASSUME NEW x \in lost PROVE x \in A \cup R
    <3>1. x \in 0..(n - 1) /\ x \notin N
      OBVIOUS
    <3>2. x \in B \/ x \in R
      BY <1>1, <3>1
    <3> QED
      BY <1>1, <3>1, <3>2
  <2> QED
    BY <2>1, <2>2
<1>5. /\ IsFiniteSet(N) /\ IsFiniteSet(A) /\ IsFiniteSet(A \cap R)
      /\ Cardinality(N) \in Nat /\ Cardinality(A) \in Nat /\ Cardinality(A \cap R) \in Nat
  <2>1. IsFiniteSet(N) /\ IsFiniteSet(A)
    BY <1>1, <1>3, <1>4, FS_Subset
  <2>2. IsFiniteSet(A \cap R)
    BY <2>1, FS_Subset
  <2> QED
    BY <2>1, <2>2, FS_CardinalityType
<1>6. Cardinality(A) = laid - Cardinality(N)
  <2>1. Cardinality(B \ N) = Cardinality(B) - Cardinality(B \cap N)
    BY <1>3, FS_Difference, Zenon
  <2> QED
    BY <1>1, <1>3, <1>4, <2>1
<1>7. IsFiniteSet(A \cup R) /\ Cardinality(A \cup R) <= Cardinality(A) + more
  <2>1. /\ IsFiniteSet(A \cup R)
        /\ Cardinality(A \cup R) = Cardinality(A) + Cardinality(R) - Cardinality(A \cap R)
    BY <1>3, <1>5, FS_Union, Zenon
  <2> QED
    BY <1>3, <1>5, <2>1
<1>8. Cardinality(lost) <= Cardinality(A \cup R) /\ Cardinality(lost) \in Nat
      /\ Cardinality(A \cup R) \in Nat
  <2>1. IsFiniteSet(lost)
    BY <1>4, <1>7, FS_Subset
  <2> QED
    BY <1>4, <1>7, <2>1, FS_Subset, FS_CardinalityType
<1>9. Cardinality(lost) <= more + (laid - Cardinality(N))
  BY <1>5, <1>6, <1>7, <1>8
<1> QED
  BY <1>2, <1>9

\* What the matrix holds when the format information has been written: the cursor
\* has met every free module, and only format information lies on bits.
LEMMA AtTheEnd ==
    ASSUME IInv, at = "done"
    PROVE  /\ Seen = Cells \ reserved
           /\ bitIdx = Min({TotalBits(version), Cardinality(Cells \ reserved)})
           /\ IsFiniteSet(Laid) /\ Cardinality(Laid) \in Nat
           /\ Cardinality(Laid) <= bitIdx
           /\ bitIdx - Cardinality(Laid) <= Cardinality(FormatOnBits)
           /\ bitIdx = Cardinality(Cells \ reserved) =>
                  bitIdx - Cardinality(Laid) = Cardinality(FormatOnBits)
           /\ bitIdx \in Nat /\ Cardinality(FormatOnBits) \in Nat
<1>1. col = -1
  BY DEF IInv, CursorOK
<1>2. Seen = Cells \ reserved
  <2>1. \A c \in Cells : c[2] > col
    BY <1>1, CellsAre
  <2> QED
    BY <2>1 DEF Seen
<1>3. bitIdx = Min({TotalBits(version), Cardinality(Cells \ reserved)})
  BY <1>2 DEF IInv, LaidOK
<1>4. PICK free : free = Cells \ reserved
  OBVIOUS
<1>5. IsFiniteSet(free) /\ Cardinality(free) \in Nat /\ free \subseteq Cells
  BY <1>4, CellsFinite
<1>6. bitIdx \in Nat /\ bitIdx <= Cardinality(free)
  <2>1. PICK T \in Nat : T = TotalBits(version)
    BY Sizes
  <2> QED
    BY <1>3, <1>4, <1>5, <2>1, MinOfTwo
<1>7. PICK L \in SUBSET free : Cardinality(L) = bitIdx /\ Laid = L \ DOMAIN Format
  BY <1>2, <1>4 DEF IInv, LaidOK
<1>8. PICK F : F = FormatOnBits
  OBVIOUS
<1>9. F \subseteq free /\ F = free \cap DOMAIN Format
  BY <1>4, <1>8, PatternsInCells DEF FormatOnBits
<1>10. IsFiniteSet(L) /\ IsFiniteSet(F) /\ IsFiniteSet(L \cap F) /\ IsFiniteSet(L \ F)
  BY <1>5, <1>9, FS_Subset
<1>11. /\ Cardinality(F) \in Nat /\ Cardinality(L \cap F) \in Nat /\ Cardinality(L \ F) \in Nat
       /\ Cardinality(L \cap F) <= Cardinality(F)
  <2>1. Cardinality(L \cap F) <= Cardinality(F)
    BY <1>10, FS_Subset
  <2> QED
    BY <1>10, <2>1, FS_CardinalityType
<1>12. Cardinality(L \ F) = Cardinality(L) - Cardinality(L \cap F)
  BY <1>10, FS_Difference, Zenon
<1>13. Laid = L \ F
  BY <1>7, <1>9
<1>14. bitIdx = Cardinality(free) => L \cap F = F
  <2>1. bitIdx = Cardinality(free) => L = free
    BY <1>5, <1>7, FS_Subset
  <2> QED
    BY <1>9, <2>1
<1>15. Cardinality(Laid) = bitIdx - Cardinality(L \cap F)
  BY <1>7, <1>12, <1>13
<1>16. IsFiniteSet(Laid) /\ Cardinality(Laid) \in Nat
  BY <1>10, <1>11, <1>13
<1>17. /\ Cardinality(Laid) <= bitIdx
       /\ bitIdx - Cardinality(Laid) <= Cardinality(F)
  BY <1>6, <1>11, <1>15
<1>18. bitIdx = Cardinality(free) => bitIdx - Cardinality(Laid) = Cardinality(F)
  <2> SUFFICES ASSUME bitIdx = Cardinality(free) PROVE bitIdx - Cardinality(Laid) = Cardinality(F)
    OBVIOUS
  <2>1. Cardinality(L \cap F) = Cardinality(F)
    BY <1>14
  <2> QED
    BY <1>6, <1>11, <1>15, <2>1
<1> QED
  BY <1>2, <1>3, <1>4, <1>6, <1>8, <1>11, <1>16, <1>17, <1>18

\* Whatever the address, no bit is laid twice or over another, each module's colour
\* is inverted as the mask has it, and no more of the address is lost than addECC
\* cut, the symbol had no module for, or format information covers (encodeQR).
THEOREM LossIsAccounted == Spec => []LossAccounted
<1>1. IInv => LossAccounted
  <2> SUFFICES ASSUME IInv, at = "done"
               PROVE  LET laid == Min({TotalBits(version), Cardinality(Cells \ reserved)}) IN
                      /\ bitIdx = laid
                      /\ Cardinality({matrix[c][2] : c \in Laid}) = Cardinality(Laid)
                      /\ Cardinality(Laid) <= laid
                      /\ laid - Cardinality(Laid) <= Cardinality(FormatOnBits)
                      /\ laid = Cardinality(Cells \ reserved) =>
                             laid - Cardinality(Laid) = Cardinality(FormatOnBits)
                      /\ \A c \in Laid : matrix[c][3] = ((c[1] + c[2]) % 2 = 0)
                      /\ Cardinality(Lost) <=
                             Max({0, DataBits(len) - laid}) + Cardinality(FormatOnBits)
    BY DEF LossAccounted
  <2>1. PICK laid, n, M, free, N, lost :
            /\ laid = bitIdx /\ n = DataBits(len) /\ M = Laid /\ free = Cells \ reserved
            /\ N = {matrix[c][2] : c \in Laid} /\ lost = Lost
    OBVIOUS
  <2>2. /\ laid = Min({TotalBits(version), Cardinality(free)})
        /\ IsFiniteSet(M) /\ Cardinality(M) \in Nat /\ Cardinality(M) <= laid
        /\ laid - Cardinality(M) <= Cardinality(FormatOnBits)
        /\ laid = Cardinality(free) => laid - Cardinality(M) = Cardinality(FormatOnBits)
        /\ laid \in Nat /\ Cardinality(FormatOnBits) \in Nat
    BY <2>1, AtTheEnd
  <2>3. /\ \A c \in M : matrix[c][2] \in 0..(laid - 1)
        /\ \A c, d \in M : matrix[c][2] = matrix[d][2] => c = d
        /\ \A c \in M : matrix[c][3] = ((c[1] + c[2]) % 2 = 0)
    BY <2>1 DEF IInv, LaidOK
  <2>4. Cardinality(N) = Cardinality(M) /\ N \in SUBSET (0..(laid - 1))
    <3>1. PICK f : f = [c \in M |-> matrix[c][2]]
      OBVIOUS
    <3>2. /\ \A c, d \in M : f[c] = f[d] => c = d
          /\ N = {f[c] : c \in M}
      BY <2>1, <2>3, <3>1
    <3>3. Cardinality({f[c] : c \in M}) = Cardinality(M)
      BY <2>2, <3>2, NumbersOf
    <3>4. Cardinality(N) = Cardinality(M)
      BY <3>2, <3>3, Zenon
    <3>5. N \in SUBSET (0..(laid - 1))
      BY <2>1, <2>3
    <3> QED
      BY <3>4, <3>5
  <2>5. n \in Nat
    BY <2>1, WholeBytes, LengthAssumption DEF IInv
  <2>6. lost \in SUBSET (0..(n - 1)) /\ lost \cap N = {}
    BY <2>1 DEF Lost
  <2>7. Cardinality(lost) <= Max({0, n - laid}) + (laid - Cardinality(N))
    BY <2>2, <2>4, <2>5, <2>6, MissingNumbers
  <2>8. Max({0, n - laid}) \in Int
    BY <2>2, <2>5, MaxOfTwo
  <2>9. Cardinality(lost) <= Max({0, n - laid}) + Cardinality(FormatOnBits)
    <3>1. IsFiniteSet(lost) /\ Cardinality(lost) \in Nat
      <4>1. IsFiniteSet(0..(n - 1))
        BY <2>5, FS_Interval
      <4> QED
        BY <2>6, <4>1, FS_Subset, FS_CardinalityType
    <3> QED
      BY <2>2, <2>4, <2>7, <2>8, <3>1
  <2> QED
    BY <2>1, <2>2, <2>3, <2>4, <2>9
<1> QED
  BY <1>1, Inductive, PTL
=============================================================================
