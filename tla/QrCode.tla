------------------------------- MODULE QrCode -------------------------------
(***************************************************************************)
(* The QR code of a pairing link (ui/devices.ts): which version, the       *)
(* Reed-Solomon remainder of a block, how the blocks are interleaved, and  *)
(* where the bits go in the grid. The link is one nobody retypes: a code   *)
(* that no phone reads is seen only by the user.                           *)
(*                                                                         *)
(* A byte is the set of its bits that are set, so that exclusive or is the *)
(* symmetric difference. Which mask scores best is left out: all eight are *)
(* readable.                                                               *)
(***************************************************************************)
EXTENDS Integers, Sequences, FiniteSets

CONSTANTS
    Lengths,     \* lengths of a link, in bytes
    Degrees,     \* error-correction codewords of a block
    Bytes,       \* bytes a block is made of
    BlockLength  \* bound: bytes of a block

ASSUME QrAssumption ==
    /\ Lengths \subseteq Nat /\ Degrees \subseteq 1..30
    /\ Bytes \subseteq SUBSET (0..7) /\ BlockLength \in Nat

VARIABLES
    version,        \* the code that is drawn
    right,          \* column pair the scan stands at
    index, spare,   \* bits placed; free modules no bit was left for
    degree, factors, divisor, root, \* rsDivisor: its degree, the turns done, the polynomial, the next root
    block, rest     \* rsRemainder: the bytes so far, the remainder

qrVars == <<version, right, index, spare, degree, factors, divisor, root, block, rest>>

-----------------------------------------------------------------------------
EcPerBlock == <<10, 16, 26, 18, 24, 16, 18, 22, 22, 26, 30, 22, 22, 24, 24, 28, 28, 26, 26, 26>>
EcBlocks == <<1, 1, 1, 2, 2, 4, 4, 4, 5, 5, 5, 8, 9, 9, 10, 10, 11, 13, 14, 16>>
Size(v) == v * 4 + 17
AlignCount(v) == (v \div 7) + 2
totalCodewords(v) ==
    LET align == AlignCount(v)
        bits == (16 * v + 128) * v + 64 IN
    (IF v = 1 THEN bits ELSE bits - ((25 * align - 10) * align - 55) - (IF v >= 7 THEN 36 ELSE 0)) \div 8
dataCodewords(v) == totalCodewords(v) - EcPerBlock[v] * EcBlocks[v]
charCountBits(v) == IF v < 10 THEN 8 ELSE 16
Fits(v, length) == 4 + charCountBits(v) + length * 8 <= dataCodewords(v) * 8
chooseVersion(length) ==
    IF \E v \in 1..20 : Fits(v, length)
    THEN CHOOSE v \in 1..20 : Fits(v, length) /\ \A w \in 1..(v - 1) : ~Fits(w, length)
    ELSE 0

-----------------------------------------------------------------------------
\* gfMultiply, addition and the power of two
Plus(x, y) == (x \ y) \cup (y \ x)
Twice(x) == Plus({b + 1 : b \in x \ {7}}, IF 7 \in x THEN {4, 3, 2, 0} ELSE {})
gfMultiply(x, y) ==
    LET times[n \in 0..8] == IF n = 0 THEN {}
                             ELSE Plus(Twice(times[n - 1]), IF 8 - n \in y THEN x ELSE {})
    IN times[8]
\* The value at x of a polynomial given by its coefficients, the highest first
Value(p, x) ==
    LET value[n \in 0..Len(p)] == IF n = 0 THEN {} ELSE Plus(gfMultiply(value[n - 1], x), p[n]) IN value[Len(p)]
Power(n) == LET power[i \in 0..n] == IF i = 0 THEN {0} ELSE Twice(power[i - 1]) IN power[n]
Zeros(n) == [i \in 1..n |-> {}]

\* A bug: the root is not moved on.
FactorsOnce ==
    /\ factors < degree /\ factors' = factors + 1
    /\ divisor' = [j \in 1..degree |-> Plus(gfMultiply(divisor[j], root), IF j < degree THEN divisor[j + 1] ELSE {})]
    /\ UNCHANGED <<version, right, index, spare, degree, root, block, rest>>
\* One turn of rsDivisor
Factors ==
    /\ factors < degree /\ factors' = factors + 1
    /\ divisor' = [j \in 1..degree |-> Plus(gfMultiply(divisor[j], root), IF j < degree THEN divisor[j + 1] ELSE {})]
    /\ root' = Twice(root)
    /\ UNCHANGED <<version, right, index, spare, degree, block, rest>>
\* One turn of rsRemainder
Divides ==
    /\ factors = degree /\ degree > 0 /\ Len(block) < BlockLength
    /\ \E byte \in Bytes :
         LET factor == Plus(byte, rest[1]) IN
         /\ block' = Append(block, byte)
         /\ rest' = [i \in 1..degree |-> Plus(IF i < degree THEN rest[i + 1] ELSE {}, gfMultiply(divisor[i], factor))]
    /\ UNCHANGED <<version, right, index, spare, degree, factors, divisor, root>>

-----------------------------------------------------------------------------
\* alignmentPositions: 6, then from the last one down
Positions(v) ==
    IF v = 1 THEN {} ELSE
    LET step == 2 * ((v * 4 + 4 + AlignCount(v) * 2 - 3) \div (AlignCount(v) * 2 - 2)) IN
    {6} \cup {Size(v) - 7 - k * step : k \in 0..(AlignCount(v) - 2)}
InFinder(v, x, y) == \E cx, cy \in {3, Size(v) - 4} :
    <<cx, cy>> # <<Size(v) - 4, Size(v) - 4>> /\ x \in (cx - 4)..(cx + 4) /\ y \in (cy - 4)..(cy + 4)
InAlignment(v, x, y) == \E cx, cy \in Positions(v) :
    /\ <<cx, cy>> \notin {<<6, 6>>, <<6, Size(v) - 7>>, <<Size(v) - 7, 6>>}
    /\ x \in (cx - 2)..(cx + 2) /\ y \in (cy - 2)..(cy + 2)
InFormat(v, x, y) ==
    \/ x = 8 /\ y \in (0..8) \cup (Size(v) - 8)..(Size(v) - 1)
    \/ y = 8 /\ x \in (0..8) \cup (Size(v) - 8)..(Size(v) - 1)
InVersion(v, x, y) ==
    v >= 7 /\ \E a, b \in {x, y} : {a, b} = {x, y} /\ a \in (Size(v) - 11)..(Size(v) - 9) /\ b \in 0..5
\* drawFunctionPatterns, drawFormatBits: modules that carry no data
isFunction(v, x, y) ==
    x = 6 \/ y = 6 \/ InFinder(v, x, y) \/ InAlignment(v, x, y) \/ InFormat(v, x, y) \/ InVersion(v, x, y)
\* The scan of two columns; column 6 is skipped.
Scans ==
    /\ right >= 1
    /\ LET free == Cardinality({m \in {right, right - 1} \X (0..(Size(version) - 1)) : ~isFunction(version, m[1], m[2])})
           left == totalCodewords(version) * 8 - index
           placed == IF free <= left THEN free ELSE left IN
       index' = index + placed /\ spare' = spare + (free - placed)
    /\ right' = IF right - 2 = 6 THEN 5 ELSE right - 2
    /\ UNCHANGED <<version, degree, factors, divisor, root, block, rest>>

QrInit ==
    /\ index = 0 /\ spare = 0 /\ block = <<>> /\ factors = 0 /\ root = {0}
    /\ \/ /\ \E length \in Lengths : version = chooseVersion(length)
          /\ right = (IF version = 0 THEN 0 ELSE Size(version) - 1) /\ degree = 0 /\ divisor = <<>> /\ rest = <<>>
       \/ /\ version = 0 /\ right = 0 /\ degree \in Degrees
          /\ divisor = [Zeros(degree) EXCEPT ![degree] = {0}] /\ rest = Zeros(degree)
QrNext == Factors \/ Divides \/ Scans
QrSpec == QrInit /\ [][QrNext]_qrVars

-----------------------------------------------------------------------------
\* The codewords of a block, short blocks first; the interleaving, column by column
BlockData(v, j) ==
    LET short == EcBlocks[v] - (totalCodewords(v) % EcBlocks[v]) IN
    (totalCodewords(v) \div EcBlocks[v]) - EcPerBlock[v] + (IF j <= short THEN 0 ELSE 1)
\* What is sent: of each block as it is laid out, with a hole after the data of a
\* short one, all but the hole.
Sent(v) ==
    LET short == EcBlocks[v] - (totalCodewords(v) % EcBlocks[v])
        shortLen == totalCodewords(v) \div EcBlocks[v] IN
    {c \in (1..(shortLen + 1)) \X (1..EcBlocks[v]) : c[1] # shortLen - EcPerBlock[v] + 1 \/ c[2] > short}

QrTypeOK ==
    /\ version \in 0..20 /\ {index, spare} \subseteq Nat /\ factors \in 0..degree
    /\ \A i \in DOMAIN divisor : divisor[i] \subseteq 0..7
    /\ \A i \in DOMAIN rest : rest[i] \subseteq 0..7

\* qrMatrix: the modules the patterns leave free take every bit of every
\* codeword, and fewer than eight stay empty, whatever the version.
EveryBitHasAPlace == (version > 0 /\ right < 1) => (index = 8 * totalCodewords(version) /\ spare < 8)
\* rsDivisor: after each turn the polynomial is zero at the powers of two taken so far.
RootsSoFar ==
    \A i \in 0..(factors - 1) :
        Value((IF factors = degree THEN <<{0}>> ELSE <<>>) \o divisor, Power(i)) = {}
\* rsRemainder: the block and what is left of it are, at every turn, a multiple
\* of the divisor.
BlockIsMultiple ==
    (degree > 0 /\ factors = degree) => \A i \in 0..(degree - 1) : Value(block \o rest, Power(i)) = {}
\* qrMatrix: the blocks hold the data of the version, and every codeword is sent once.
AllIsSent ==
    version > 0 => /\ Cardinality(Sent(version)) = totalCodewords(version)
                   /\ Cardinality({d \in (1..EcBlocks[version]) \X (1..dataCodewords(version)) :
                                    d[2] <= BlockData(version, d[1])}) = dataCodewords(version)

\* The code holds the link, and its blocks are what a reader can correct.
QrSafe == QrTypeOK /\ EveryBitHasAPlace /\ RootsSoFar /\ BlockIsMultiple /\ AllIsSent
=============================================================================
