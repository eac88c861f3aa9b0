------------------------- MODULE PacketProgramsProofs -------------------------
(***************************************************************************)
(* Theorems about PacketPrograms, for every size of a byte, on machines of *)
(* both byte orders, and for every set of well-formed frames.              *)
(***************************************************************************)
EXTENDS PacketPrograms, SequenceTheorems, FiniteSetTheorems, WellFoundedInduction, TLAPS

-----------------------------------------------------------------------------
(* Words and their byte order.                                             *)

LEMMA DivideFact ==
  ASSUME NEW a \in Int, NEW b \in Nat \ {0}
  PROVE  /\ a \div b \in Int /\ (a % b) \in 0 .. b - 1
         /\ a = b * (a \div b) + (a % b)
OBVIOUS

\* Quotient and remainder are the only ones of their kind.
LEMMA UniqueFact ==
  ASSUME NEW b \in Nat \ {0}, NEW q \in Int, NEW r \in 0 .. b - 1
  PROVE  (b * q + r) \div b = q /\ (b * q + r) % b = r
OBVIOUS

LEMMA WordFact ==
  /\ Byte \in Nat /\ Byte > 1 /\ WordCount \in Nat /\ WordCount = Byte * Byte
  /\ AllOnes \in Nat /\ AllOnes = WordCount - 1 /\ Byte < AllOnes
BY ByteAssumption DEF WordCount, AllOnes

\* Multiplication keeps the order.
LEMMA TimesFact ==
  ASSUME NEW a \in Int, NEW b \in Int, NEW c \in Nat, a <= b
  PROVE  c * a <= c * b
OBVIOUS

\* The two bytes of a word, and of the word that has them in the other order.
LEMMA BytesFact ==
  ASSUME NEW w \in Words
  PROVE  /\ w \div Byte \in Bytes /\ (w % Byte) \in Bytes
         /\ w = Byte * (w \div Byte) + (w % Byte)
<1>1. /\ w \div Byte \in Int /\ (w % Byte) \in Bytes
      /\ w = Byte * (w \div Byte) + (w % Byte)
  BY WordFact, DivideFact DEF Bytes, Words
<1> DEFINE q == w \div Byte
<1>2. w \in Int /\ 0 <= w /\ w < Byte * Byte
  BY WordFact DEF Words
<1> HIDE DEF q
<1>3. ~(q <= -1)
  <2> SUFFICES ASSUME q <= -1 PROVE FALSE
    OBVIOUS
  <2>1. Byte * q <= Byte * (-1)
    BY <1>1, WordFact, TimesFact DEF q
  <2> QED
    BY <1>1, <1>2, <2>1, WordFact DEF q, Bytes
<1>4. ~(q >= Byte)
  <2> SUFFICES ASSUME q >= Byte PROVE FALSE
    OBVIOUS
  <2>1. Byte * Byte <= Byte * q
    BY <1>1, WordFact, TimesFact DEF q
  <2> QED
    BY <1>1, <1>2, <2>1, WordFact DEF q, Bytes
<1> QED
  BY <1>1, <1>3, <1>4, WordFact DEF q, Bytes

LEMMA WordOfBytes ==
  ASSUME NEW q \in Bytes, NEW r \in Bytes
  PROVE  Byte * q + r \in Words
<1>1. q \in Nat /\ q <= Byte - 1 /\ r \in Nat /\ r <= Byte - 1 /\ Byte - 1 \in Int
  BY WordFact DEF Bytes
<1>2. Byte * q <= Byte * (Byte - 1)
  BY <1>1, WordFact, TimesFact
<1>3. Byte * (Byte - 1) = Byte * Byte - Byte
  BY WordFact
<1>4. Byte * q \in Nat
  BY <1>1, WordFact
<1> QED
  BY <1>1, <1>2, <1>3, <1>4, WordFact DEF Words

LEMMA SwapFact ==
  ASSUME NEW w \in Words
  PROVE  Swap(w) \in Words
<1>1. Swap(w) = Byte * (w % Byte) + (w \div Byte)
  BY BytesFact, WordFact DEF Swap, Bytes
<1> QED
  BY <1>1, BytesFact, WordOfBytes

LEMMA HtonsFact ==
  ASSUME NEW w \in Words
  PROVE  htons(w) \in Words
BY SwapFact DEF htons

-----------------------------------------------------------------------------
(* Sums are verified modulo AllOnes.                                       *)

Congruent(a, b) == \E k \in Int : a = b + k * AllOnes

LEMMA CongruentRefl ==
  ASSUME NEW a \in Int
  PROVE  Congruent(a, a)
<1>1. a = a + 0 * AllOnes
  BY WordFact
<1> QED
  BY <1>1 DEF Congruent

LEMMA CongruentAdd ==
  ASSUME NEW a \in Int, NEW b \in Int, NEW c \in Int, NEW d \in Int,
         Congruent(a, b), Congruent(c, d)
  PROVE  Congruent(a + c, b + d)
<1>1. PICK k \in Int : a = b + k * AllOnes
  BY DEF Congruent
<1>2. PICK l \in Int : c = d + l * AllOnes
  BY DEF Congruent
<1>3. (k + l) * AllOnes = k * AllOnes + l * AllOnes /\ k * AllOnes \in Int /\ l * AllOnes \in Int
  BY WordFact
<1>4. a + c = (b + d) + (k + l) * AllOnes
  BY <1>1, <1>2, <1>3
<1> QED
  BY <1>4 DEF Congruent

LEMMA CongruentMinus ==
  ASSUME NEW a \in Int, NEW b \in Int, NEW c \in Int, NEW d \in Int,
         Congruent(a, b), Congruent(c, d)
  PROVE  Congruent(a - c, b - d)
<1>1. PICK k \in Int : a = b + k * AllOnes
  BY DEF Congruent
<1>2. PICK l \in Int : c = d + l * AllOnes
  BY DEF Congruent
<1>3. (k - l) * AllOnes = k * AllOnes - l * AllOnes /\ k * AllOnes \in Int /\ l * AllOnes \in Int
  BY WordFact
<1>4. a - c = (b - d) + (k - l) * AllOnes
  BY <1>1, <1>2, <1>3
<1> QED
  BY <1>4 DEF Congruent

LEMMA CongruentTimes ==
  ASSUME NEW a \in Int, NEW b \in Int, NEW c \in Int, Congruent(a, b)
  PROVE  Congruent(c * a, c * b)
<1>1. PICK k \in Int : a = b + k * AllOnes
  BY DEF Congruent
<1>2. c * a = c * b + (c * k) * AllOnes
  BY <1>1, WordFact
<1> QED
  BY <1>2 DEF Congruent

LEMMA CongruentTrans ==
  ASSUME NEW a \in Int, NEW b \in Int, NEW c \in Int, Congruent(a, b), Congruent(b, c)
  PROVE  Congruent(a, c)
<1>1. PICK k \in Int : a = b + k * AllOnes
  BY DEF Congruent
<1>2. PICK l \in Int : b = c + l * AllOnes
  BY DEF Congruent
<1>3. (k + l) * AllOnes = k * AllOnes + l * AllOnes /\ k * AllOnes \in Int /\ l * AllOnes \in Int
  BY WordFact
<1>4. a = c + (k + l) * AllOnes
  BY <1>1, <1>2, <1>3
<1> QED
  BY <1>4 DEF Congruent

LEMMA CongruentSym ==
  ASSUME NEW a \in Int, NEW b \in Int, Congruent(a, b)
  PROVE  Congruent(b, a)
<1>1. PICK k \in Int : a = b + k * AllOnes
  BY DEF Congruent
<1>2. b = a + (-k) * AllOnes
  BY <1>1, WordFact
<1> QED
  BY <1>2 DEF Congruent

\* One multiple of AllOnes more or less, and the two that are of the width of a word.
LEMMA CongruentWord ==
  ASSUME NEW a \in Int
  PROVE  Congruent(a - AllOnes, a) /\ Congruent(WordCount * a, a)
<1>1. a - AllOnes = a + (-1) * AllOnes
  BY WordFact
<1>2. WordCount * a = a + a * AllOnes
  BY WordFact
<1> QED
  BY <1>1, <1>2 DEF Congruent

LEMMA VerifiesFact ==
  ASSUME NEW sum \in Int
  PROVE  Verifies(sum) <=> sum > 0 /\ Congruent(sum, 0)
<1>0. AllOnes \in Nat \ {0}
  BY WordFact
<1>1. sum = AllOnes * (sum \div AllOnes) + (sum % AllOnes) /\ sum \div AllOnes \in Int
  BY <1>0, DivideFact
<1>2. ASSUME sum % AllOnes = 0
      PROVE  Congruent(sum, 0)
  <2>1. sum = 0 + (sum \div AllOnes) * AllOnes
    BY <1>1, <1>2, WordFact
  <2> QED
    BY <1>1, <2>1 DEF Congruent
<1>3. ASSUME Congruent(sum, 0)
      PROVE  sum % AllOnes = 0
  <2>1. PICK k \in Int : sum = 0 + k * AllOnes
    BY <1>3 DEF Congruent
  <2>2. sum = AllOnes * k + 0 /\ 0 \in 0 .. AllOnes - 1
    BY <2>1, WordFact
  <2>3. (AllOnes * k + 0) % AllOnes = 0
    BY <1>0, <2>2, UniqueFact
  <2> QED
    BY <2>2, <2>3
<1> QED
  BY <1>2, <1>3 DEF Verifies

-----------------------------------------------------------------------------
(* In the byte order of the machine.                                       *)

\* On a little-endian machine a word has a byte's weight of its own.
NetOrder(a) == IF LittleEndian THEN Byte * a ELSE a

LEMMA NetOrderFact ==
  ASSUME NEW a \in Int, NEW b \in Int
  PROVE  /\ NetOrder(a) \in Int
         /\ NetOrder(a + b) = NetOrder(a) + NetOrder(b)
         /\ NetOrder(a - b) = NetOrder(a) - NetOrder(b)
         /\ Congruent(a, b) => Congruent(NetOrder(a), NetOrder(b))
BY WordFact, CongruentTimes DEF NetOrder

LEMMA HtonsCongruent ==
  ASSUME NEW w \in Words
  PROVE  Congruent(htons(w), NetOrder(w)) /\ Congruent(NetOrder(htons(w)), w)
<1> DEFINE q == w \div Byte
           r == w % Byte
<1>1. q \in Int /\ r \in Int /\ w = Byte * q + r /\ w \in Int
  BY BytesFact, WordFact DEF Bytes, Words
<1>2. Swap(w) = Byte * r + q
  BY <1>1, WordFact DEF Swap
<1> HIDE DEF q, r
<1>3. Swap(w) = Byte * w + (-q) * AllOnes
  <2>1. Byte * w = (Byte * Byte) * q + Byte * r
    BY <1>1, WordFact
  <2>2. (Byte * Byte) * q = AllOnes * q + q
    BY <1>1, WordFact
  <2>3. AllOnes * q + (-q) * AllOnes = 0
    BY <1>1, WordFact
  <2> QED
    BY <1>1, <1>2, <2>1, <2>2, <2>3, WordFact
<1>4. Byte * Swap(w) = w + r * AllOnes
  <2>1. Byte * Swap(w) = (Byte * Byte) * r + Byte * q
    BY <1>1, <1>2, WordFact
  <2>2. (Byte * Byte) * r = r * AllOnes + r
    BY <1>1, WordFact
  <2> QED
    BY <1>1, <2>1, <2>2, WordFact
<1>5. Congruent(Swap(w), Byte * w) /\ Congruent(Byte * Swap(w), w)
  BY <1>1, <1>3, <1>4 DEF Congruent
<1> QED
  BY <1>1, <1>5, CongruentRefl DEF htons, NetOrder

-----------------------------------------------------------------------------
(* The checksums of the programs.                                          *)

\* Divided by a width, a number below twice the width loses it once or not at all.
LEMMA OverflowFact ==
  ASSUME NEW w \in Nat \ {0}, NEW a \in 0 .. 2 * w - 1
  PROVE  /\ a < w => a \div w = 0 /\ a % w = a
         /\ a >= w => a \div w = 1 /\ a % w = a - w
<1>1. ASSUME a < w
      PROVE  a \div w = 0 /\ a % w = a
  <2>1. a = w * 0 + a /\ a \in 0 .. w - 1
    BY <1>1
  <2>2. (w * 0 + a) \div w = 0 /\ (w * 0 + a) % w = a
    BY <2>1, UniqueFact
  <2> QED
    BY <2>1, <2>2
<1>2. ASSUME a >= w
      PROVE  a \div w = 1 /\ a % w = a - w
  <2>1. a = w * 1 + (a - w) /\ a - w \in 0 .. w - 1
    BY <1>2
  <2>2. (w * 1 + (a - w)) \div w = 1 /\ (w * 1 + (a - w)) % w = a - w
    BY <2>1, UniqueFact
  <2> QED
    BY <2>1, <2>2
<1> QED
  BY <1>1, <1>2

\* The checksum of a port that has changed is a word again, carry or no carry.
LEMMA PatchedWord ==
  ASSUME NEW check \in Words, NEW n \in Int
  PROVE  PatchedChecksum(check, n) \in Words
<1>1. ASSUME NEW c \in Words
      PROVE  Added(c, n) \in Words
  <2>1. \A a \in Int : (a % WordCount) \in Words
    BY WordFact, DivideFact DEF Words
  <2>2. htons(c) \in Int /\ htons(n % WordCount) \in Int
    BY <2>1, HtonsFact, WordFact DEF Words
  <2>3. ((htons(c) + htons(n % WordCount)) % WordCount) \in Words
    BY <2>1, <2>2
  <2> QED
    BY <2>3, HtonsFact DEF Added
<1> QED
  BY <1>1 DEF PatchedChecksum

\* ip_decrease_ttl(): the ttl has become less by one, the checksum more by its weight.
LEMMA TtlFact ==
  ASSUME NEW check \in Words
  PROVE  TtlChecksum(check) \in Words /\ Congruent(TtlChecksum(check), check + Byte)
<1> DEFINE a == htons(check)
           b == htons(Byte)
           sum == a + b
           carried == sum + (IF sum >= AllOnes THEN 1 ELSE 0)
           t == carried % WordCount
<1>1. Byte \in Words /\ check \in Int /\ Byte \in Int
  BY WordFact DEF Words
<1>2. a \in Words /\ b \in Words
  BY <1>1, HtonsFact
<1>3. TtlChecksum(check) = htons(t)
  BY DEF TtlChecksum
<1>4. b < AllOnes
  <2>1. CASE LittleEndian
    <3>1. Byte = Byte * 1 + 0 /\ 0 \in 0 .. Byte - 1
      BY WordFact
    <3>2. (Byte * 1 + 0) \div Byte = 1 /\ (Byte * 1 + 0) % Byte = 0
      BY <3>1, WordFact, UniqueFact
    <3>3. Swap(Byte) = 1
      BY <3>1, <3>2, WordFact DEF Swap
    <3> QED
      BY <2>1, <3>3, WordFact DEF htons
  <2>2. CASE ~LittleEndian
    BY <2>2, WordFact DEF htons
  <2> QED
    BY <2>1, <2>2
<1> HIDE DEF a, b
<1>5. t \in Words /\ Congruent(t, sum)
  <2>1. sum \in Nat /\ a \in Nat /\ b \in Nat /\ a <= AllOnes /\ WordCount \in Nat \ {0}
    BY <1>2, WordFact DEF Words
  <2>2. CASE sum < AllOnes
    <3>1. carried = sum /\ carried < WordCount /\ carried \in 0 .. 2 * WordCount - 1
      BY <2>1, <2>2, WordFact
    <3>2. t = sum
      BY <2>1, <3>1, OverflowFact
    <3> QED
      BY <2>1, <3>1, <3>2, CongruentRefl, WordFact DEF Words
  <2>3. CASE sum >= AllOnes
    <3>1. carried = sum + 1 /\ carried >= WordCount /\ carried \in 0 .. 2 * WordCount - 1
      BY <1>4, <2>1, <2>3, WordFact
    <3>2. t = carried - WordCount
      <4> HIDE DEF carried
      <4> QED
        BY <2>1, <3>1, OverflowFact
    <3>3. t = sum - AllOnes /\ t \in Words
      <4> HIDE DEF t
      <4> QED
        BY <1>4, <2>1, <2>3, <3>1, <3>2, WordFact DEF Words
    <3>4. Congruent(sum - AllOnes, sum)
      BY <2>1, CongruentWord
    <3> QED
      BY <3>3, <3>4
  <2> QED
    BY <2>1, <2>2, <2>3, WordFact
<1>6. Congruent(NetOrder(sum), check + Byte)
  <2>1. Congruent(NetOrder(a), check) /\ Congruent(NetOrder(b), Byte)
    BY <1>1, HtonsCongruent DEF a, b
  <2>2. a \in Int /\ b \in Int
    BY <1>2, WordFact DEF Words
  <2>3. Congruent(NetOrder(a) + NetOrder(b), check + Byte)
    BY <1>1, <2>1, <2>2, NetOrderFact, CongruentAdd
  <2> QED
    BY <2>2, <2>3, NetOrderFact
<1>7. t \in Int /\ sum \in Int /\ htons(t) \in Words /\ htons(t) \in Int
  BY <1>2, <1>5, HtonsFact, WordFact DEF Words
<1> HIDE DEF t, sum
<1>8. Congruent(htons(t), NetOrder(t)) /\ Congruent(NetOrder(t), NetOrder(sum))
  BY <1>5, <1>7, HtonsCongruent, NetOrderFact
<1>9. NetOrder(t) \in Int /\ NetOrder(sum) \in Int /\ check + Byte \in Int
  BY <1>1, <1>7, NetOrderFact
<1>10. Congruent(htons(t), NetOrder(sum))
  BY <1>7, <1>8, <1>9, CongruentTrans
<1>11. Congruent(htons(t), check + Byte)
  BY <1>6, <1>7, <1>9, <1>10, CongruentTrans
<1> QED
  BY <1>3, <1>7, <1>11

\* csum_fold_helper(): the complement of a sum of two words' width.
LEMMA FoldedFact ==
  ASSUME NEW sum \in 0 .. WordCount * WordCount - 1
  PROVE  Folded(sum) \in Words /\ Congruent(Folded(sum), -sum)
<1> DEFINE hi == sum \div WordCount
           lo == sum % WordCount
           halves == hi + lo
           folded == (halves + (halves \div WordCount)) % WordCount
<1>1. WordCount \in Nat \ {0} /\ sum \in Int
  BY WordFact
<1>2. sum = WordCount * hi + lo /\ hi \in Int /\ lo \in 0 .. WordCount - 1
  BY <1>1, DivideFact
<1> HIDE DEF hi, lo
<1>3. hi \in 0 .. WordCount - 1
  <2>1. ~(hi <= -1)
    <3> SUFFICES ASSUME hi <= -1 PROVE FALSE
      OBVIOUS
    <3>1. WordCount * hi <= WordCount * (-1)
      BY <1>1, <1>2, TimesFact
    <3> QED
      BY <1>1, <1>2, <3>1
  <2>2. ~(hi >= WordCount)
    <3> SUFFICES ASSUME hi >= WordCount PROVE FALSE
      OBVIOUS
    <3>1. WordCount * WordCount <= WordCount * hi
      BY <1>1, <1>2, TimesFact
    <3> QED
      BY <1>1, <1>2, <3>1
  <2> QED
    BY <1>1, <1>2, <2>1, <2>2
<1>4. halves \in 0 .. 2 * WordCount - 2 /\ Congruent(sum, halves)
  <2>1. Congruent(WordCount * hi, hi) /\ Congruent(lo, lo)
    BY <1>2, CongruentWord, CongruentRefl
  <2>2. WordCount * hi \in Int /\ lo \in Int
    BY <1>1, <1>2
  <2>3. Congruent(WordCount * hi + lo, hi + lo)
    BY <1>2, <2>1, <2>2, CongruentAdd
  <2> QED
    BY <1>1, <1>2, <1>3, <2>3
<1> HIDE DEF halves
<1>5. folded \in Words /\ Congruent(folded, halves)
  <2>1. halves \in 0 .. 2 * WordCount - 1 /\ halves \in Int
    BY <1>1, <1>4
  <2>2. CASE halves < WordCount
    <3>1. halves \div WordCount = 0
      BY <1>1, <2>1, <2>2, OverflowFact
    <3>2. halves + (halves \div WordCount) = halves
      BY <2>1, <3>1
    <3>3. folded = halves
      BY <1>1, <2>1, <2>2, <3>2, OverflowFact
    <3> QED
      BY <1>1, <2>1, <2>2, <3>3, CongruentRefl, WordFact DEF Words
  <2>3. CASE halves >= WordCount
    <3>1. halves \div WordCount = 1
      BY <1>1, <2>1, <2>3, OverflowFact
    <3>2. halves + (halves \div WordCount) = halves + 1 /\ halves + 1 \in 0 .. 2 * WordCount - 1
          /\ halves + 1 >= WordCount
      BY <1>1, <1>4, <2>3, <3>1
    <3>3. (halves + 1) % WordCount = (halves + 1) - WordCount
      <4>1. PICK a \in 0 .. 2 * WordCount - 1 : a = halves + 1
        BY <3>2
      <4>2. a % WordCount = a - WordCount
        BY <1>1, <3>2, <4>1, OverflowFact
      <4> QED
        BY <4>1, <4>2
    <3>4. folded = halves - AllOnes /\ folded \in Words
      BY <1>1, <1>4, <2>3, <3>2, <3>3, WordFact DEF Words
    <3>5. Congruent(halves - AllOnes, halves)
      BY <2>1, CongruentWord
    <3> QED
      BY <3>4, <3>5
  <2> QED
    BY <1>1, <2>1, <2>2, <2>3
<1>6. Folded(sum) = AllOnes - folded
  BY DEF Folded, Complement, folded, halves, hi, lo
<1> HIDE DEF folded
<1>7. folded \in Int /\ halves \in Int /\ AllOnes \in Int /\ AllOnes - folded \in Words
  BY <1>1, <1>4, <1>5, WordFact DEF Words
<1>8. Congruent(folded, sum)
  BY <1>1, <1>4, <1>5, <1>7, CongruentSym, CongruentTrans
<1>9. Congruent((-1) * folded, (-1) * sum) /\ (-1) * folded = -folded /\ (-1) * sum = -sum
  BY <1>1, <1>7, <1>8, CongruentTimes
<1>10. Congruent(-folded, AllOnes - folded)
  <2>1. Congruent((AllOnes - folded) - AllOnes, AllOnes - folded)
    BY <1>7, CongruentWord
  <2>2. (AllOnes - folded) - AllOnes = -folded
    BY <1>7
  <2> QED
    BY <2>1, <2>2
<1>11. -folded \in Int /\ -sum \in Int /\ AllOnes - folded \in Int
  BY <1>1, <1>7
<1>12. Congruent(AllOnes - folded, -sum)
  BY <1>9, <1>10, <1>11, CongruentSym, CongruentTrans
<1> QED
  BY <1>6, <1>7, <1>12

\* bpf_csum_diff(): the sum, its carry added.
LEMMA CsumDiffFact ==
  ASSUME NEW old \in 0 .. WordCount * WordCount - 1,
         NEW new \in 0 .. WordCount * WordCount - 1 - WordCount, NEW seed \in Words
  PROVE  /\ CsumDiff(old, new, seed) \in 0 .. WordCount * WordCount - 1
         /\ Congruent(CsumDiff(old, new, seed), (seed - old) + new)
<1> DEFINE width == WordCount * WordCount
           top == width - 1
           sum == seed + (top - old) + new
           diff == (sum % (top + 1)) + (sum \div (top + 1))
<1>1. width \in Nat \ {0} /\ WordCount <= top /\ top + 1 = width /\ seed \in 0 .. WordCount - 1
      /\ WordCount \in Nat /\ WordCount > 1
      /\ old \in 0 .. width - 1 /\ new \in 0 .. width - 1 - WordCount
  BY WordFact DEF Words
<1>2. top = (WordCount + 1) * AllOnes
  BY WordFact
<1> HIDE DEF width
<1>3. sum \in 0 .. 2 * width - 2 /\ sum = ((seed - old) + new) + top
  BY <1>1
<1>4. CsumDiff(old, new, seed) = diff
  BY DEF CsumDiff, width
<1> HIDE DEF sum
<1>5. diff \in 0 .. width - 1 /\ (diff = sum \/ diff = sum - top)
  <2>1. diff = (sum % width) + (sum \div width)
    BY <1>1
  <2>2. sum \in 0 .. 2 * width - 1
    BY <1>1, <1>3
  <2> HIDE DEF diff
  <2>3. CASE sum < width
    <3>1. sum % width = sum /\ sum \div width = 0
      BY <1>1, <2>2, <2>3, OverflowFact
    <3> QED
      BY <1>1, <1>3, <2>1, <2>3, <3>1
  <2>4. CASE sum >= width
    <3>1. sum % width = sum - width /\ sum \div width = 1
      BY <1>1, <2>2, <2>4, OverflowFact
    <3> QED
      BY <1>1, <1>3, <2>1, <2>4, <3>1
  <2> QED
    BY <1>1, <1>3, <2>3, <2>4
<1> HIDE DEF diff
<1>6. Congruent(diff, (seed - old) + new)
  <2> DEFINE end == (seed - old) + new
  <2>1. end \in Int
    BY <1>1
  <2> HIDE DEF end
  <2>2. diff = end + 0 * AllOnes \/ diff = end + (WordCount + 1) * AllOnes
    BY <1>1, <1>2, <1>3, <1>5, <2>1, WordFact DEF end
  <2>3. 0 \in Int /\ WordCount + 1 \in Int
    BY <1>1
  <2>4. Congruent(diff, end)
    BY <2>2, <2>3 DEF Congruent
  <2> QED
    BY <2>4 DEF end
<1> QED
  BY <1>4, <1>5, <1>6 DEF width

\* icmp_checksum_diff(): the type has changed, and the checksum by its weight.
LEMMA EchoFact ==
  ASSUME NEW check \in Words, NEW old \in Bytes, NEW new \in Bytes
  PROVE  /\ EchoChecksum(check, old, new) \in Words
         /\ Congruent(EchoChecksum(check, old, new), (check + Byte * old) - Byte * new)
<1> DEFINE first(type) == IF LittleEndian THEN type ELSE type * Byte * WordCount
           fo == first(old)
           fn == first(new)
           a == htons(check)
           seed == Complement(a)
           diff == CsumDiff(fo, fn, seed)
           folded == Folded(diff)
<1>1. EchoChecksum(check, old, new) = htons(folded)
  BY DEF EchoChecksum
<1>2. ASSUME NEW type \in Bytes
      PROVE  /\ first(type) \in 0 .. WordCount * WordCount - 1 - WordCount
             /\ Congruent(NetOrder(first(type)), Byte * type)
  <2>1. type \in Nat /\ type <= Byte - 1 /\ Byte * type \in Int
    BY WordFact DEF Bytes
  <2>2. CASE LittleEndian
    <3>1. WordCount * WordCount - 1 - WordCount >= Byte
      BY WordFact
    <3>2. first(type) = type /\ NetOrder(first(type)) = Byte * type
      BY <2>2 DEF NetOrder
    <3> QED
      BY <2>1, <3>1, <3>2, CongruentRefl, WordFact
  <2>3. CASE ~LittleEndian
    <3>1. first(type) = WordCount * (Byte * type) /\ NetOrder(first(type)) = first(type)
      BY <2>1, <2>3, WordFact DEF NetOrder
    <3>2. Congruent(WordCount * (Byte * type), Byte * type)
      BY <2>1, CongruentWord
    <3>3. Byte * type <= Byte * (Byte - 1) /\ Byte * (Byte - 1) = WordCount - Byte
      BY <2>1, WordFact, TimesFact
    <3>4. Byte * type \in Nat /\ Byte * type <= WordCount - 2
      BY <2>1, <3>3, WordFact
    <3>5. WordCount * (Byte * type) <= WordCount * (WordCount - 2)
      BY <3>4, WordFact, TimesFact
    <3>6. WordCount * (WordCount - 2) = WordCount * WordCount - 2 * WordCount
      BY WordFact
    <3>7. WordCount * (Byte * type) \in Nat
      BY <3>4, WordFact
    <3> QED
      BY <3>1, <3>2, <3>5, <3>6, <3>7, WordFact
  <2> QED
    BY <2>2, <2>3
<1> HIDE DEF first
<1>3. /\ fo \in 0 .. WordCount * WordCount - 1 - WordCount
      /\ fn \in 0 .. WordCount * WordCount - 1 - WordCount
      /\ fo \in Int /\ fn \in Int
  BY <1>2, WordFact
<1>4. /\ Congruent(NetOrder(fo), Byte * old) /\ Congruent(NetOrder(fn), Byte * new)
      /\ Byte * old \in Int /\ Byte * new \in Int
  BY <1>2, WordFact DEF Bytes
<1>5. fo \in 0 .. WordCount * WordCount - 1
  BY <1>3, WordFact
<1>6. a \in Words /\ a \in Int /\ Congruent(NetOrder(a), check) /\ check \in Int
  BY HtonsFact, HtonsCongruent, WordFact DEF Words
<1> HIDE DEF fo, fn, a
<1>7. seed \in Words /\ seed \in Int /\ seed = AllOnes - a /\ AllOnes \in Int
  BY <1>6, WordFact DEF Complement, Words
<1> HIDE DEF seed
<1>8. diff \in 0 .. WordCount * WordCount - 1 /\ Congruent(diff, (seed - fo) + fn) /\ diff \in Int
  BY <1>3, <1>5, <1>7, CsumDiffFact, WordFact
<1> HIDE DEF diff
<1>9. folded \in Words /\ Congruent(folded, -diff) /\ folded \in Int
  BY <1>8, FoldedFact, WordFact DEF Words
<1> HIDE DEF folded
<1>10. Congruent(folded, (a + fo) - fn)
  <2>0. Congruent(0, 0) /\ (seed - fo) + fn \in Int
    BY <1>3, <1>7, CongruentRefl
  <2>1. Congruent(0 - diff, 0 - ((seed - fo) + fn))
    BY <1>8, <2>0, CongruentMinus
  <2>2. 0 - ((seed - fo) + fn) = ((a + fo) - fn) - AllOnes /\ -diff = 0 - diff
    BY <1>3, <1>6, <1>7, <1>8
  <2>3. Congruent(((a + fo) - fn) - AllOnes, (a + fo) - fn)
    BY <1>3, <1>6, CongruentWord
  <2>4. /\ -diff \in Int /\ ((a + fo) - fn) - AllOnes \in Int /\ (a + fo) - fn \in Int
    BY <1>3, <1>6, <1>7, <1>8
  <2>5. Congruent(folded, ((a + fo) - fn) - AllOnes)
    BY <1>9, <2>1, <2>2, <2>4, CongruentTrans
  <2> QED
    BY <1>9, <2>3, <2>4, <2>5, CongruentTrans
<1>11. Congruent(NetOrder((a + fo) - fn), (check + Byte * old) - Byte * new)
  <2>1. NetOrder((a + fo) - fn) = (NetOrder(a) + NetOrder(fo)) - NetOrder(fn)
    BY <1>3, <1>6, NetOrderFact
  <2>2. NetOrder(a) \in Int /\ NetOrder(fo) \in Int /\ NetOrder(fn) \in Int
    BY <1>3, <1>6, NetOrderFact
  <2>3. Congruent(NetOrder(a) + NetOrder(fo), check + Byte * old)
    BY <1>4, <1>6, <2>2, CongruentAdd
  <2>4. Congruent((NetOrder(a) + NetOrder(fo)) - NetOrder(fn), (check + Byte * old) - Byte * new)
    BY <1>4, <1>6, <2>2, <2>3, CongruentMinus
  <2> QED
    BY <2>1, <2>4
<1>12. htons(folded) \in Words /\ htons(folded) \in Int /\ Congruent(htons(folded), NetOrder(folded))
  BY <1>9, HtonsFact, HtonsCongruent, WordFact DEF Words
<1>13. /\ NetOrder(folded) \in Int /\ NetOrder((a + fo) - fn) \in Int
       /\ Congruent(NetOrder(folded), NetOrder((a + fo) - fn))
  <2>1. PICK x \in Int : x = (a + fo) - fn
    BY <1>3, <1>6
  <2>2. Congruent(folded, x)
    BY <1>10, <2>1
  <2>3. /\ NetOrder(folded) \in Int /\ NetOrder(x) \in Int
        /\ Congruent(NetOrder(folded), NetOrder(x))
    BY <1>9, <2>2, NetOrderFact
  <2> QED
    BY <2>1, <2>3
<1>14. Congruent(htons(folded), NetOrder((a + fo) - fn))
  BY <1>12, <1>13, CongruentTrans
<1>15. (check + Byte * old) - Byte * new \in Int
  BY <1>4, <1>6
<1>16. Congruent(htons(folded), (check + Byte * old) - Byte * new)
  BY <1>15, <1>11, <1>12, <1>13, <1>14, CongruentTrans
<1> QED
  BY <1>1, <1>12, <1>16 DEF folded, diff, seed, a, fo, fn, first

-----------------------------------------------------------------------------
(* What the parsers find.                                                  *)

LEMMA MaxFact ==
  ASSUME NEW n \in Nat, NEW S \in SUBSET (0 .. n), S # {}
  PROVE  Max(S) \in S /\ \A y \in S : Max(S) >= y
<1> DEFINE T == {t \in Nat : n - t \in S}
<1>1. T \in SUBSET Nat /\ \A x \in S : n - x \in T
  OBVIOUS
<1>2. PICK t \in T : \A u \in T : <<u, t>> \notin OpToRel(<, Nat)
  <2>1. T # {}
    BY <1>1
  <2> HIDE DEF T
  <2> QED
    BY <1>1, <2>1, NatLessThanWellFounded, WFMin
<1>3. PICK x \in S : x = n - t
  OBVIOUS
<1>4. ASSUME NEW y \in S
      PROVE  x >= y
  <2>1. n - y \in T /\ n - y \in Nat /\ t \in Nat
    BY <1>1
  <2>2. ~(n - y < t)
    BY <1>2, <2>1 DEF OpToRel
  <2> QED
    BY <1>3, <2>1, <2>2
<1>5. \E z \in S : \A y \in S : z >= y
  BY <1>4
<1> HIDE DEF T
<1> QED
  BY <1>5 DEF Max

\* A parser that gets over j tags gets over fewer as well, and stops where there is
\* none: at one place only.
LEMMA BehindFact ==
  ASSUME NEW f, Len(f) \in Nat, NEW j \in Nat, Behind(f, j)
  PROVE  /\ j \in 0 .. Len(f) /\ 4 + 2 * j <= Len(f) /\ f[3 + 2 * j] \in {"IP", "IPV6"}
         /\ \A i \in Nat : Skips(f, i) => i <= j
         /\ \A i \in Nat : Behind(f, i) => i = j
<1>1. ASSUME NEW i \in Nat, NEW m \in Nat, Skips(f, i), f[3 + 2 * m] \in {"IP", "IPV6"}
      PROVE  i <= m
  BY <1>1 DEF Skips, proto_is_vlan
<1> QED
  BY <1>1 DEF Behind

\* parse_ethhdr() stops at the network header, when there is one in its reach, and
\* else at a tag or at a protocol that is not IP.
LEMMA ParseFact ==
  ASSUME NEW f, Len(f) \in Nat, Len(f) >= 3
  PROVE  \E t \in 0 .. VLAN_MAX_DEPTH :
           /\ Skips(f, t)
           /\ parse_ethhdr(f) = [type |-> f[3 + 2 * t], pos |-> 1, next |-> 4 + 2 * t]
           /\ \A i \in 0 .. VLAN_MAX_DEPTH : Skips(f, i) => i <= t
<1> DEFINE S == {j \in 0 .. VLAN_MAX_DEPTH : Skips(f, j)}
<1>1. 0 \in S /\ VLAN_MAX_DEPTH \in Nat
  BY PacketAssumption DEF Skips, PacketAssumption
<1>2. Max(S) \in S /\ \A y \in S : Max(S) >= y
  BY <1>1, MaxFact
<1>3. parse_ethhdr(f) = [type |-> f[3 + 2 * Max(S)], pos |-> 1, next |-> 4 + 2 * Max(S)]
  BY DEF parse_ethhdr
<1> QED
  BY <1>2, <1>3

\* Where a header is found that these programs look into.
Found(f, j) ==
  [type |-> f[4 + 2 * j].protocol, pos |-> 4 + 2 * j, next |-> 5 + 2 * j]

LEMMA NetworkFact ==
  ASSUME NEW f, Len(f) \in Nat, Len(f) >= 3, Network(f).type # "-1"
  PROVE  \E j \in 0 .. VLAN_MAX_DEPTH :
           /\ Behind(f, j) /\ Network(f) = Found(f, j)
           /\ parse_ethhdr(f) = [type |-> f[3 + 2 * j], pos |-> 1, next |-> 4 + 2 * j]
           /\ f[3 + 2 * j] = "IP" => f[4 + 2 * j].sane
<1>1. PICK t \in 0 .. VLAN_MAX_DEPTH :
        /\ Skips(f, t)
        /\ parse_ethhdr(f) = [type |-> f[3 + 2 * t], pos |-> 1, next |-> 4 + 2 * t]
  BY ParseFact
<1>2. parse_ethhdr(f).type = f[3 + 2 * t] /\ parse_ethhdr(f).next = 4 + 2 * t
  BY <1>1
<1>3. Fail.type = "-1"
  BY DEF Fail
<1>4. CASE f[3 + 2 * t] = "IP"
  <2>1. Network(f) = parse_iphdr(f, 4 + 2 * t)
    BY <1>2, <1>4 DEF Network
  <2>2. ~(4 + 2 * t > Len(f)) /\ f[4 + 2 * t].sane
    BY <1>3, <2>1 DEF parse_iphdr
  <2>3. Network(f) = Found(f, t)
    BY <2>1, <2>2 DEF parse_iphdr, Found
  <2>4. Behind(f, t)
    BY <1>1, <1>4, <2>2 DEF Behind
  <2> QED
    BY <1>1, <1>4, <2>2, <2>3, <2>4
<1>5. CASE f[3 + 2 * t] = "IPV6"
  <2>1. Network(f) = parse_ip6hdr(f, 4 + 2 * t)
    BY <1>2, <1>5 DEF Network
  <2>2. ~(4 + 2 * t > Len(f))
    BY <1>3, <2>1 DEF parse_ip6hdr
  <2>3. Network(f) = Found(f, t)
    BY <2>1, <2>2 DEF parse_ip6hdr, Found
  <2>4. Behind(f, t)
    BY <1>1, <1>5, <2>2 DEF Behind
  <2> QED
    BY <1>1, <1>5, <2>2, <2>3, <2>4
<1>6. CASE f[3 + 2 * t] \notin {"IP", "IPV6"}
  BY <1>2, <1>3, <1>6 DEF Network
<1> QED
  BY <1>4, <1>5, <1>6

LEMMA NetworkAt ==
  ASSUME NEW f, Len(f) \in Nat, NEW j \in 0 .. VLAN_MAX_DEPTH, Behind(f, j),
         f[3 + 2 * j] = "IP" => f[4 + 2 * j].sane
  PROVE  Network(f) = Found(f, j)
<1>1. j \in Nat /\ Len(f) >= 3 /\ VLAN_MAX_DEPTH \in Nat
  BY PacketAssumption DEF Behind, PacketAssumption
<1>2. PICK t \in 0 .. VLAN_MAX_DEPTH :
        /\ Skips(f, t)
        /\ parse_ethhdr(f) = [type |-> f[3 + 2 * t], pos |-> 1, next |-> 4 + 2 * t]
        /\ \A i \in 0 .. VLAN_MAX_DEPTH : Skips(f, i) => i <= t
  BY <1>1, ParseFact
<1>3. t = j
  <2>1. j <= t
    BY <1>2 DEF Behind
  <2>2. t <= j
    BY <1>1, <1>2, BehindFact
  <2> QED
    BY <1>1, <2>1, <2>2
<1>4. parse_ethhdr(f).type = f[3 + 2 * j] /\ parse_ethhdr(f).next = 4 + 2 * j
  BY <1>2, <1>3
<1>5. ~(4 + 2 * j > Len(f))
  BY <1>1 DEF Behind
<1>6. CASE f[3 + 2 * j] = "IP"
  BY <1>4, <1>5, <1>6 DEF Network, parse_iphdr, Found
<1>7. CASE f[3 + 2 * j] = "IPV6"
  BY <1>4, <1>5, <1>7 DEF Network, parse_ip6hdr, Found
<1> QED
  BY <1>6, <1>7 DEF Behind

-----------------------------------------------------------------------------
(* Frames that have the same headers, or the same but one.                 *)

\* g is f without its first n tags.
Shifted(f, g, n) ==
  /\ Len(f) \in Nat /\ Len(g) \in Nat /\ Len(f) = Len(g) + 2 * n /\ Len(g) >= 3
  /\ \A i \in 3 .. Len(g) : g[i] = f[i + 2 * n]
  /\ \A k \in 0 .. n - 1 : proto_is_vlan(f[3 + 2 * k])

LEMMA ShiftedBehind ==
  ASSUME NEW f, NEW g, NEW n \in Nat, Shifted(f, g, n)
  PROVE  /\ \A j \in Nat : Behind(g, j) <=> Behind(f, j + n)
         /\ \A j \in Nat : Behind(g, j) =>
              /\ f[3 + 2 * (j + n)] = g[3 + 2 * j] /\ f[4 + 2 * (j + n)] = g[4 + 2 * j]
              /\ 5 + 2 * j <= Len(g) => f[5 + 2 * (j + n)] = g[5 + 2 * j]
         /\ \A m \in Nat : Behind(f, m) => m - n \in Nat
<1>1. ASSUME NEW j \in Nat, 4 + 2 * j <= Len(g)
      PROVE  Skips(g, j) <=> Skips(f, j + n)
  <2>1. ASSUME Skips(g, j), NEW k \in 0 .. (j + n) - 1
        PROVE  proto_is_vlan(f[3 + 2 * k]) /\ 5 + 2 * k <= Len(f)
    <3>1. CASE k < n
      BY <3>1 DEF Shifted
    <3>2. CASE k >= n
      <4>1. PICK l \in 0 .. j - 1 : k = l + n
        BY <3>2
      <4>2. 3 + 2 * l \in 3 .. Len(g) /\ (3 + 2 * l) + 2 * n = 3 + 2 * k
        BY <1>1, <4>1 DEF Shifted
      <4>3. g[3 + 2 * l] = f[3 + 2 * k]
        BY <4>2 DEF Shifted
      <4>4. proto_is_vlan(g[3 + 2 * l]) /\ 5 + 2 * l <= Len(g)
        BY <2>1, <4>1 DEF Skips
      <4> QED
        BY <4>1, <4>3, <4>4 DEF Shifted
    <3> QED
      BY <3>1, <3>2
  <2>2. ASSUME Skips(f, j + n), NEW l \in 0 .. j - 1
        PROVE  proto_is_vlan(g[3 + 2 * l]) /\ 5 + 2 * l <= Len(g)
    <3>1. l + n \in 0 .. (j + n) - 1
      OBVIOUS
    <3>2. 3 + 2 * l \in 3 .. Len(g) /\ (3 + 2 * l) + 2 * n = 3 + 2 * (l + n)
      BY <1>1 DEF Shifted
    <3>3. g[3 + 2 * l] = f[3 + 2 * (l + n)]
      BY <3>2 DEF Shifted
    <3>4. proto_is_vlan(f[3 + 2 * (l + n)])
      BY <2>2, <3>1 DEF Skips
    <3> QED
      BY <1>1, <3>3, <3>4
  <2> QED
    BY <2>1, <2>2 DEF Skips
<1>2. ASSUME NEW j \in Nat, 4 + 2 * j <= Len(g)
      PROVE  /\ f[3 + 2 * (j + n)] = g[3 + 2 * j] /\ f[4 + 2 * (j + n)] = g[4 + 2 * j]
             /\ 5 + 2 * j <= Len(g) => f[5 + 2 * (j + n)] = g[5 + 2 * j]
  <2>1. /\ 3 + 2 * j \in 3 .. Len(g) /\ (3 + 2 * j) + 2 * n = 3 + 2 * (j + n)
        /\ 4 + 2 * j \in 3 .. Len(g) /\ (4 + 2 * j) + 2 * n = 4 + 2 * (j + n)
        /\ (5 + 2 * j) + 2 * n = 5 + 2 * (j + n)
    <3>1. Len(g) \in Nat
      BY DEF Shifted
    <3> QED
      BY <1>2, <3>1
  <2>2. f[3 + 2 * (j + n)] = g[3 + 2 * j] /\ f[4 + 2 * (j + n)] = g[4 + 2 * j]
    BY <2>1 DEF Shifted
  <2>3. ASSUME 5 + 2 * j <= Len(g)
        PROVE  f[5 + 2 * (j + n)] = g[5 + 2 * j]
    <3>1. 5 + 2 * j \in 3 .. Len(g)
      BY <2>3 DEF Shifted
    <3> QED
      BY <2>1, <3>1 DEF Shifted
  <2> QED
    BY <2>2, <2>3
<1>3. ASSUME NEW j \in Nat
      PROVE  Behind(g, j) <=> Behind(f, j + n)
  <2>1. 4 + 2 * j <= Len(g) <=> 4 + 2 * (j + n) <= Len(f)
    BY DEF Shifted
  <2> QED
    BY <1>1, <1>2, <2>1 DEF Behind
<1>4. ASSUME NEW m \in Nat, Behind(f, m), m < n
      PROVE  FALSE
  <2>1. proto_is_vlan(f[3 + 2 * m])
    BY <1>4 DEF Shifted
  <2> QED
    BY <1>4, <2>1 DEF Behind, proto_is_vlan
<1>5. \A j \in Nat : Behind(g, j) => 4 + 2 * j <= Len(g)
  BY DEF Behind
<1>6. \A m \in Nat : Behind(f, m) => m - n \in Nat
  BY <1>4
<1> QED
  BY <1>2, <1>3, <1>5, <1>6

\* What is said of the headers is said of any position where there is one, and there
\* is at most one.
HeadersAt(f, j) ==
  /\ f[4 + 2 * j] \in IF f[3 + 2 * j] = "IP" THEN Ipv4Header ELSE Ipv6Header
  /\ 5 + 2 * j <= Len(f) =>
       /\ f[4 + 2 * j].protocol \in {"UDP", "TCP"} => f[5 + 2 * j] \in PortsHeader
       /\ f[4 + 2 * j].protocol \in {"ICMP", "ICMPV6"} => f[5 + 2 * j] \in IcmpHeader

HeaderSumAt(f, j) == f[3 + 2 * j] = "IP" => Verifies(HeaderSum(f[4 + 2 * j]))

MessageAt(f, j) == 5 + 2 * j <= Len(f) => MessageVerifies(f[4 + 2 * j].protocol, f[5 + 2 * j])

LEMMA Everywhere ==
  ASSUME NEW f, Len(f) \in Nat
  PROVE  /\ WellFormed(f) <=> /\ IsSequence(f) /\ Len(f) >= 3
                              /\ \A j \in Nat : Behind(f, j) => HeadersAt(f, j)
         /\ HeaderVerifies(f) <=> \A j \in Nat : Behind(f, j) => HeaderSumAt(f, j)
         /\ TransportVerifies(f) <=> \A j \in Nat : Behind(f, j) => MessageAt(f, j)
<1>1. \A j \in Nat : Behind(f, j) => j \in 0 .. Len(f)
  BY BehindFact
<1>2. (\A j \in 0 .. Len(f) : Behind(f, j) => HeadersAt(f, j)) <=>
        \A j \in Nat : Behind(f, j) => HeadersAt(f, j)
  BY <1>1
<1>3. WellFormed(f) <=> /\ IsSequence(f) /\ Len(f) >= 3
                        /\ \A j \in 0 .. Len(f) : Behind(f, j) => HeadersAt(f, j)
  BY DEF WellFormed, HeadersAt
<1>4. (\A j \in 0 .. Len(f) : Behind(f, j) => HeaderSumAt(f, j)) <=>
        \A j \in Nat : Behind(f, j) => HeaderSumAt(f, j)
  BY <1>1
<1>5. HeaderVerifies(f) <=> \A j \in 0 .. Len(f) : Behind(f, j) => HeaderSumAt(f, j)
  BY DEF HeaderVerifies, HeaderSumAt
<1>6. (\A j \in 0 .. Len(f) : Behind(f, j) => MessageAt(f, j)) <=>
        \A j \in Nat : Behind(f, j) => MessageAt(f, j)
  BY <1>1
<1>7. TransportVerifies(f) <=> \A j \in 0 .. Len(f) : Behind(f, j) => MessageAt(f, j)
  BY DEF TransportVerifies, MessageAt
<1> QED
  BY <1>2, <1>3, <1>4, <1>5, <1>6, <1>7

LEMMA OnlyThere ==
  ASSUME NEW f, Len(f) \in Nat, NEW j \in Nat, Behind(f, j)
  PROVE  /\ WellFormed(f) <=> IsSequence(f) /\ HeadersAt(f, j)
         /\ HeaderVerifies(f) <=> HeaderSumAt(f, j)
         /\ TransportVerifies(f) <=> MessageAt(f, j)
<1>1. \A i \in Nat : Behind(f, i) => i = j
  BY BehindFact
<1>2. Len(f) >= 3
  BY DEF Behind
<1> QED
  BY <1>1, <1>2, Everywhere

\* Tags make no difference.
LEMMA ShiftedKeeps ==
  ASSUME NEW f, NEW g, NEW n \in Nat, Shifted(f, g, n), IsSequence(f), IsSequence(g)
  PROVE  /\ WellFormed(f) <=> WellFormed(g)
         /\ HeaderVerifies(f) <=> HeaderVerifies(g)
         /\ TransportVerifies(f) <=> TransportVerifies(g)
<1>1. Len(f) \in Nat /\ Len(g) \in Nat /\ Len(f) >= 3 /\ Len(g) >= 3 /\ Len(f) = Len(g) + 2 * n
  BY DEF Shifted
<1>2. ASSUME NEW j \in Nat, Behind(g, j)
      PROVE  /\ Behind(f, j + n)
             /\ HeadersAt(f, j + n) <=> HeadersAt(g, j)
             /\ HeaderSumAt(f, j + n) <=> HeaderSumAt(g, j)
             /\ MessageAt(f, j + n) <=> MessageAt(g, j)
  <2>1. Behind(f, j + n)
    BY <1>2, ShiftedBehind
  <2>2. /\ f[3 + 2 * (j + n)] = g[3 + 2 * j] /\ f[4 + 2 * (j + n)] = g[4 + 2 * j]
        /\ 5 + 2 * j <= Len(g) => f[5 + 2 * (j + n)] = g[5 + 2 * j]
    BY <1>2, ShiftedBehind
  <2>3. 5 + 2 * j <= Len(g) <=> 5 + 2 * (j + n) <= Len(f)
    BY <1>1
  <2>4. HeadersAt(f, j + n) <=> HeadersAt(g, j)
    BY <2>2, <2>3 DEF HeadersAt
  <2>5. HeaderSumAt(f, j + n) <=> HeaderSumAt(g, j)
    BY <2>2 DEF HeaderSumAt
  <2>6. MessageAt(f, j + n) <=> MessageAt(g, j)
    BY <2>2, <2>3 DEF MessageAt
  <2> QED
    BY <2>1, <2>4, <2>5, <2>6
<1>3. CASE \E j \in Nat : Behind(g, j)
  <2>1. PICK j \in Nat : Behind(g, j)
    BY <1>3
  <2>2. PICK m \in Nat : m = j + n
    OBVIOUS
  <2>3. /\ Behind(f, m)
        /\ HeadersAt(f, m) <=> HeadersAt(g, j)
        /\ HeaderSumAt(f, m) <=> HeaderSumAt(g, j)
        /\ MessageAt(f, m) <=> MessageAt(g, j)
    BY <1>2, <2>1, <2>2
  <2>4. /\ WellFormed(g) <=> HeadersAt(g, j)
        /\ HeaderVerifies(g) <=> HeaderSumAt(g, j)
        /\ TransportVerifies(g) <=> MessageAt(g, j)
    BY <1>1, <2>1, OnlyThere
  <2>5. /\ WellFormed(f) <=> HeadersAt(f, m)
        /\ HeaderVerifies(f) <=> HeaderSumAt(f, m)
        /\ TransportVerifies(f) <=> MessageAt(f, m)
    BY <1>1, <2>3, OnlyThere
  <2> QED
    BY <2>3, <2>4, <2>5
<1>4. CASE ~\E j \in Nat : Behind(g, j)
  <2>1. ~\E m \in Nat : Behind(f, m)
    <3> SUFFICES ASSUME NEW m \in Nat, Behind(f, m) PROVE FALSE
      OBVIOUS
    <3>1. PICK j \in Nat : j = m - n
      BY ShiftedBehind
    <3>2. j + n = m
      BY <3>1
    <3>3. Behind(g, j)
      BY <3>2, ShiftedBehind
    <3> QED
      BY <1>4, <3>3
  <2>2. WellFormed(g) /\ HeaderVerifies(g) /\ TransportVerifies(g)
    BY <1>1, <1>4, Everywhere
  <2>3. WellFormed(f) /\ HeaderVerifies(f) /\ TransportVerifies(f)
    BY <1>1, <2>1, Everywhere
  <2> QED
    BY <2>2, <2>3
<1> QED
  BY <1>3, <1>4

\* A program that leaves the EtherTypes alone leaves the headers where they are.
LEMMA InPlace ==
  ASSUME NEW f, NEW g, Len(f) \in Nat, Len(g) = Len(f), NEW j \in Nat, Behind(f, j),
         \A i \in 3 .. 3 + 2 * j : g[i] = f[i]
  PROVE  Behind(g, j)
<1>1. f[3 + 2 * j] = g[3 + 2 * j]
  OBVIOUS
<1>2. Skips(g, j)
  <2> SUFFICES ASSUME NEW k \in 0 .. j - 1
               PROVE  proto_is_vlan(g[3 + 2 * k]) /\ 5 + 2 * k <= Len(g)
    BY DEF Skips
  <2>1. 3 + 2 * k \in 3 .. 3 + 2 * j
    OBVIOUS
  <2> QED
    BY <2>1 DEF Behind, Skips
<1> QED
  BY <1>1, <1>2 DEF Behind

-----------------------------------------------------------------------------
(* What a program does to a frame.                                         *)

LEMMA SequenceIn ==
  ASSUME NEW f, IsSequence(f), NEW W
  PROVE  f \in Seq(W \union {f[i] : i \in 1 .. Len(f)})
<1> DEFINE V == W \union {f[i] : i \in 1 .. Len(f)}
<1>1. Len(f) \in Nat /\ f = [i \in 1 .. Len(f) |-> f[i]]
  BY DEF IsSequence
<1>2. PICK n \in Nat : n = Len(f)
  BY <1>1
<1>3. f \in [1 .. n -> V]
  BY <1>1, <1>2
<1> HIDE DEF V
<1>4. f \in Seq(V)
  BY <1>3, SeqDef
<1> QED
  BY <1>4 DEF V

LEMMA SequenceOf ==
  ASSUME NEW V, NEW f \in Seq(V)
  PROVE  IsSequence(f)
<1>1. Len(f) \in Nat /\ f \in [1 .. Len(f) -> V]
  BY LenProperties
<1> QED
  BY <1>1 DEF IsSequence

LEMMA ExceptFact ==
  ASSUME NEW f, IsSequence(f), NEW i \in 1 .. Len(f), NEW e
  PROVE  /\ IsSequence([f EXCEPT ![i] = e])
         /\ Len([f EXCEPT ![i] = e]) = Len(f)
         /\ \A k \in 1 .. Len(f) : [f EXCEPT ![i] = e][k] = IF k = i THEN e ELSE f[k]
<1> DEFINE V == {e} \union {f[k] : k \in 1 .. Len(f)}
<1>1. f \in Seq(V) /\ e \in V
  BY SequenceIn
<1> HIDE DEF V
<1>2. /\ [f EXCEPT ![i] = e] \in Seq(V)
      /\ Len([f EXCEPT ![i] = e]) = Len(f)
      /\ \A k \in 1 .. Len(f) : [f EXCEPT ![i] = e][k] = IF k = i THEN e ELSE f[k]
  BY <1>1, ExceptSeq
<1> QED
  BY <1>2, SequenceOf

\* What every program but the one that rewrites ports promises for what it does.
Kept(f, g) ==
  /\ WellFormed(g)
  /\ HeaderVerifies(f) => HeaderVerifies(g)
  /\ TransportVerifies(f) => TransportVerifies(g)

LEMMA KeptItself ==
  ASSUME NEW f, WellFormed(f)
  PROVE  Kept(f, f)
BY DEF Kept

\* The MAC addresses make no difference.
LEMMA MacsKept ==
  ASSUME NEW f, NEW g, WellFormed(f), IsSequence(g), Len(g) = Len(f),
         \A i \in 3 .. Len(f) : g[i] = f[i]
  PROVE  Kept(f, g)
<1>1. IsSequence(f) /\ Len(f) \in Nat /\ Len(f) >= 3
  BY DEF WellFormed, IsSequence
<1>2. \A i \in 3 .. Len(g) : g[i] = f[i + 2 * 0]
  BY <1>1
<1>3. Shifted(f, g, 0)
  BY <1>1, <1>2 DEF Shifted
<1> QED
  BY <1>1, <1>3, ShiftedKeeps DEF Kept

\* vlan_tag_pop() takes a tag off.
LEMMA PopFact ==
  ASSUME NEW f, IsSequence(f), Len(f) >= 5
  PROVE  /\ IsSequence(vlan_tag_pop(f)) /\ Len(vlan_tag_pop(f)) = Len(f) - 2
         /\ \A i \in 1 .. Len(f) - 2 :
              vlan_tag_pop(f)[i] = IF i <= 2 THEN f[i] ELSE f[i + 2]
<1> DEFINE V == {f[i] : i \in 1 .. Len(f)}
           a == <<f[1], f[2], f[5]>>
           b == SubSeq(f, 6, Len(f))
<1>1. Len(f) \in Nat /\ f \in Seq({} \union V)
  BY SequenceIn DEF IsSequence
<1>2. \A i \in 1 .. Len(f) : f[i] \in V
  OBVIOUS
<1>3. a \in Seq(V) /\ Len(a) = 3 /\ a[1] = f[1] /\ a[2] = f[2] /\ a[3] = f[5]
  <2>1. f[1] \in V /\ f[2] \in V /\ f[5] \in V
    BY <1>1, <1>2
  <2> HIDE DEF V
  <2> QED
    BY <2>1
<1>4. /\ b \in Seq(V) /\ Len(b) = Len(f) - 5
      /\ \A i \in 1 .. Len(f) - 5 : b[i] = f[i + 5]
  <2>1. \A i \in 6 .. Len(f) : f[i] \in V
    BY <1>1, <1>2
  <2> HIDE DEF V
  <2>2. /\ b \in Seq(V) /\ Len(b) = IF 6 <= Len(f) THEN Len(f) - 6 + 1 ELSE 0
        /\ \A i \in 1 .. Len(f) - 6 + 1 : b[i] = f[6 + i - 1]
    BY <1>1, <2>1, SubSeqProperties
  <2> HIDE DEF a, b
  <2>3. Len(b) = Len(f) - 5
    <3>1. Len(b) = IF 6 <= Len(f) THEN Len(f) - 6 + 1 ELSE 0
      BY <2>2
    <3>2. Len(f) \in Nat
      BY <1>1
    <3>3. CASE Len(f) = 5
      BY <3>1, <3>3
    <3>4. CASE Len(f) >= 6
      BY <3>1, <3>2, <3>4
    <3>5. PICK n \in Nat : n = Len(f)
      BY <3>2
    <3>6. n = 5 \/ n >= 6
      BY <3>5
    <3> QED
      BY <3>3, <3>4, <3>5, <3>6
  <2>4. ASSUME NEW i \in 1 .. Len(f) - 5
        PROVE  b[i] = f[i + 5]
    <3>1. i \in 1 .. Len(f) - 6 + 1 /\ 6 + i - 1 = i + 5
      BY <1>1
    <3> QED
      BY <2>2, <3>1
  <2> QED
    BY <2>2, <2>3, <2>4
<1> HIDE DEF V, a, b
<1>5. /\ a \o b \in Seq(V) /\ Len(a \o b) = Len(a) + Len(b)
      /\ \A i \in 1 .. Len(a) + Len(b) :
           (a \o b)[i] = IF i <= Len(a) THEN a[i] ELSE b[i - Len(a)]
  BY <1>3, <1>4, ConcatProperties
<1>6. vlan_tag_pop(f) = a \o b
  BY <1>1 DEF vlan_tag_pop, a, b
<1>7. ASSUME NEW i \in 1 .. Len(f) - 2
      PROVE  (a \o b)[i] = IF i <= 2 THEN f[i] ELSE f[i + 2]
  <2>1. CASE i <= 3
    <3>1. i = 1 \/ i = 2 \/ i = 3
      BY <2>1
    <3>2. (a \o b)[i] = a[i]
      BY <1>1, <1>3, <1>4, <1>5, <2>1
    <3> QED
      BY <1>3, <3>1, <3>2
  <2>2. CASE i > 3
    <3>1. i - 3 \in 1 .. Len(f) - 5 /\ (i - 3) + 5 = i + 2
      BY <1>1, <2>2
    <3>2. (a \o b)[i] = b[i - 3]
      BY <1>1, <1>3, <1>4, <1>5, <2>2
    <3> QED
      BY <1>4, <2>2, <3>1, <3>2
  <2>3. i <= 3 \/ i > 3
    BY <1>1
  <2> QED
    BY <2>1, <2>2, <2>3
<1>8. IsSequence(a \o b) /\ Len(a \o b) = Len(f) - 2
  <2>1. Len(a \o b) = Len(f) - 2
    BY <1>1, <1>3, <1>4, <1>5
  <2>2. PICK c \in Seq(V) : c = a \o b
    BY <1>5
  <2>3. IsSequence(c)
    BY SequenceOf
  <2> QED
    BY <2>1, <2>2, <2>3
<1> QED
  BY <1>6, <1>7, <1>8

\* vlan_tag_push() puts a tag on, when there is room.
Pushed(f, vlid) == <<f[1], f[2], "8021Q", vlid>> \o SubSeq(f, 3, Len(f))

LEMMA PushFact ==
  ASSUME NEW f, IsSequence(f), Len(f) >= 3, NEW vlid
  PROVE  /\ IsSequence(Pushed(f, vlid)) /\ Len(Pushed(f, vlid)) = Len(f) + 2
         /\ Pushed(f, vlid)[1] = f[1] /\ Pushed(f, vlid)[2] = f[2]
         /\ Pushed(f, vlid)[3] = "8021Q" /\ Pushed(f, vlid)[4] = vlid
         /\ \A i \in 3 .. Len(f) : Pushed(f, vlid)[i + 2] = f[i]
<1> DEFINE V == {"8021Q", vlid} \union {f[i] : i \in 1 .. Len(f)}
           a == <<f[1], f[2], "8021Q", vlid>>
           b == SubSeq(f, 3, Len(f))
<1>1. Len(f) \in Nat
  BY DEF IsSequence
<1>2. \A i \in 1 .. Len(f) : f[i] \in V
  OBVIOUS
<1>3. /\ a \in Seq(V) /\ Len(a) = 4 /\ a[1] = f[1] /\ a[2] = f[2]
      /\ a[3] = "8021Q" /\ a[4] = vlid
  BY <1>1, <1>2
<1>4. /\ b \in Seq(V) /\ Len(b) = Len(f) - 2
      /\ \A i \in 1 .. Len(f) - 2 : b[i] = f[i + 2]
  <2>1. \A i \in 3 .. Len(f) : f[i] \in V
    BY <1>1, <1>2
  <2> HIDE DEF V
  <2>2. /\ b \in Seq(V) /\ Len(b) = IF 3 <= Len(f) THEN Len(f) - 3 + 1 ELSE 0
        /\ \A i \in 1 .. Len(f) - 3 + 1 : b[i] = f[3 + i - 1]
    BY <1>1, <2>1, SubSeqProperties
  <2> QED
    BY <1>1, <2>2
<1> HIDE DEF V, a, b
<1>5. /\ a \o b \in Seq(V) /\ Len(a \o b) = Len(a) + Len(b)
      /\ \A i \in 1 .. Len(a) + Len(b) :
           (a \o b)[i] = IF i <= Len(a) THEN a[i] ELSE b[i - Len(a)]
  BY <1>3, <1>4, ConcatProperties
<1>6. Pushed(f, vlid) = a \o b
  BY DEF Pushed, a, b
<1>7. ASSUME NEW i \in 3 .. Len(f)
      PROVE  (a \o b)[i + 2] = f[i]
  <2>1. i - 2 \in 1 .. Len(f) - 2 /\ (i - 2) + 2 = i
    BY <1>1
  <2>2. (a \o b)[i + 2] = b[i - 2]
    BY <1>1, <1>3, <1>4, <1>5
  <2> QED
    BY <1>4, <2>1, <2>2
<1>8. IsSequence(a \o b) /\ Len(a \o b) = Len(f) + 2
  <2>1. Len(a \o b) = Len(f) + 2
    BY <1>1, <1>3, <1>4, <1>5
  <2>2. PICK c \in Seq(V) : c = a \o b
    BY <1>5
  <2>3. IsSequence(c)
    BY SequenceOf
  <2> QED
    BY <2>1, <2>2, <2>3
<1>9. \A i \in 1 .. 4 : (a \o b)[i] = a[i]
  BY <1>1, <1>3, <1>4, <1>5
<1> QED
  BY <1>3, <1>6, <1>7, <1>8, <1>9

LEMMA PopKept ==
  ASSUME NEW f, WellFormed(f), proto_is_vlan(f[3])
  PROVE  Kept(f, vlan_tag_pop(f))
<1>1. IsSequence(f) /\ Len(f) \in Nat /\ Len(f) >= 3
  BY DEF WellFormed, IsSequence
<1>2. CASE Len(f) < 5
  BY <1>2, KeptItself DEF vlan_tag_pop
<1>3. CASE ~(Len(f) < 5)
  <2> DEFINE g == vlan_tag_pop(f)
  <2>1. /\ IsSequence(g) /\ Len(g) = Len(f) - 2
        /\ \A i \in 1 .. Len(f) - 2 : g[i] = IF i <= 2 THEN f[i] ELSE f[i + 2]
    BY <1>1, <1>3, PopFact
  <2> HIDE DEF g
  <2>2. \A i \in 3 .. Len(g) : g[i] = f[i + 2 * 1]
    BY <1>1, <2>1
  <2>3. \A k \in 0 .. 1 - 1 : proto_is_vlan(f[3 + 2 * k])
    OBVIOUS
  <2>4. Shifted(f, g, 1)
    BY <1>1, <1>3, <2>1, <2>2, <2>3 DEF Shifted
  <2>5. Kept(f, g)
    BY <1>1, <2>1, <2>4, ShiftedKeeps DEF Kept
  <2> QED
    BY <2>5 DEF g
<1> QED
  BY <1>2, <1>3

LEMMA PushKept ==
  ASSUME NEW f, WellFormed(f), headroom \in BOOLEAN, NEW vlid
  PROVE  Kept(f, vlan_tag_push(f, vlid))
<1>1. IsSequence(f) /\ Len(f) \in Nat /\ Len(f) >= 3
  BY DEF WellFormed, IsSequence
<1>2. CASE headroom = FALSE
  BY <1>2, KeptItself DEF vlan_tag_push
<1>3. CASE headroom = TRUE
  <2> DEFINE g == Pushed(f, vlid)
  <2>1. /\ IsSequence(g) /\ Len(g) = Len(f) + 2 /\ g[3] = "8021Q"
        /\ \A i \in 3 .. Len(f) : g[i + 2] = f[i]
    BY <1>1, PushFact
  <2> HIDE DEF g
  <2>2. \A i \in 3 .. Len(f) : f[i] = g[i + 2 * 1]
    BY <1>1, <2>1
  <2>3. \A k \in 0 .. 1 - 1 : proto_is_vlan(g[3 + 2 * k])
    BY <2>1 DEF proto_is_vlan
  <2>4. Shifted(g, f, 1)
    BY <1>1, <1>3, <2>1, <2>2, <2>3 DEF Shifted
  <2>5. Kept(f, g)
    BY <1>1, <2>1, <2>4, ShiftedKeeps DEF Kept
  <2> QED
    BY <1>3, <2>5 DEF g, vlan_tag_push, Pushed
<1> QED
  BY <1>2, <1>3

\* A function on the positions of a frame is a frame.
LEMMA DomainFact ==
  ASSUME NEW g, NEW n \in Nat, g = [i \in 1 .. n |-> g[i]]
  PROVE  IsSequence(g) /\ Len(g) = n
<1> DEFINE V == {g[i] : i \in 1 .. n}
<1>1. g \in [1 .. n -> V]
  OBVIOUS
<1> HIDE DEF V
<1>2. g \in Seq(V)
  BY <1>1, SeqDef
<1>3. Len(g) \in Nat /\ DOMAIN g = 1 .. Len(g) /\ IsSequence(g)
  BY <1>2, LenProperties, SequenceOf
<1>4. DOMAIN g = 1 .. n
  BY <1>1
<1>5. PICK m \in Nat : m = Len(g)
  BY <1>3
<1>6. 1 .. m = 1 .. n
  BY <1>3, <1>4, <1>5
<1>7. m = n
  <2>1. CASE m < n
    <3>1. n \in 1 .. n /\ n \notin 1 .. m
      BY <2>1
    <3> QED
      BY <1>6, <3>1
  <2>2. CASE n < m
    <3>1. m \in 1 .. m /\ m \notin 1 .. n
      BY <2>2
    <3> QED
      BY <1>6, <3>1
  <2> QED
    BY <2>1, <2>2
<1> QED
  BY <1>3, <1>5, <1>7

\* Where the programs agree with a receiver about what is behind the tags.
LEMMA HeadersThere ==
  ASSUME NEW f, WellFormed(f), NEW j \in Nat, Behind(f, j)
  PROVE  /\ IsSequence(f) /\ Len(f) \in Nat /\ 4 + 2 * j <= Len(f)
         /\ f[3 + 2 * j] \in {"IP", "IPV6"}
         /\ f[3 + 2 * j] = "IP" => f[4 + 2 * j] \in Ipv4Header
         /\ f[3 + 2 * j] = "IPV6" => f[4 + 2 * j] \in Ipv6Header
         /\ 5 + 2 * j <= Len(f) =>
              /\ f[4 + 2 * j].protocol \in {"UDP", "TCP"} => f[5 + 2 * j] \in PortsHeader
              /\ f[4 + 2 * j].protocol \in {"ICMP", "ICMPV6"} => f[5 + 2 * j] \in IcmpHeader
<1>1. IsSequence(f) /\ Len(f) \in Nat
  BY DEF WellFormed, IsSequence
<1>2. HeadersAt(f, j)
  BY <1>1, OnlyThere
<1> QED
  BY <1>1, <1>2 DEF HeadersAt, Behind

\* A hop takes the same from the TTL that it adds to the checksum.
LEMMA HopFact ==
  ASSUME NEW iph \in Ipv4Header, iph.ttl > 1
  PROVE  /\ Hop(iph) \in Ipv4Header /\ Hop(iph).protocol = iph.protocol
         /\ Verifies(HeaderSum(iph)) => Verifies(HeaderSum(Hop(iph)))
<1>1. /\ iph.ttl \in Bytes /\ iph.rest \in Nat /\ iph.check \in Words
      /\ iph = [iph EXCEPT !.ttl = @] /\ "check" \in DOMAIN iph
  BY DEF Ipv4Header
<1>2. Hop(iph) = [iph EXCEPT !.ttl = iph.ttl - 1, !.check = TtlChecksum(iph.check)]
  BY <1>1 DEF Hop
<1>3. TtlChecksum(iph.check) \in Words /\ Congruent(TtlChecksum(iph.check), iph.check + Byte)
  BY <1>1, TtlFact
<1>4. iph.ttl \in Nat /\ iph.ttl - 1 \in Bytes /\ iph.ttl - 1 \in Nat \ {0}
  BY <1>1, WordFact DEF Bytes
<1>5. /\ Hop(iph) \in Ipv4Header /\ Hop(iph).protocol = iph.protocol
      /\ Hop(iph).ttl = iph.ttl - 1 /\ Hop(iph).rest = iph.rest
      /\ Hop(iph).check = TtlChecksum(iph.check)
  BY <1>2, <1>3, <1>4 DEF Ipv4Header
<1>6. ASSUME Verifies(HeaderSum(iph))
      PROVE  Verifies(HeaderSum(Hop(iph)))
  <2>1. PICK rest \in Nat, ttl \in Nat, check \in Int, c \in Int :
          /\ rest = iph.rest /\ ttl = iph.ttl /\ check = iph.check /\ c = Hop(iph).check
          /\ c >= 0 /\ Congruent(c, check + Byte) /\ ttl - 1 \in Nat \ {0}
    BY <1>1, <1>3, <1>4, <1>5, WordFact DEF Words
  <2>2. PICK base \in Int : base = rest + (ttl - 1) * Byte
    BY <2>1, WordFact
  <2>3. base > 0
    <3>1. (ttl - 1) * Byte >= 1 * Byte
      BY <2>1, WordFact, TimesFact
    <3>2. (ttl - 1) * Byte \in Int
      BY <2>1, WordFact
    <3> QED
      BY <2>1, <2>2, <3>1, <3>2, WordFact
  <2>4. HeaderSum(Hop(iph)) = base + c
    BY <1>5, <2>1, <2>2 DEF HeaderSum
  <2>5. HeaderSum(iph) = base + (check + Byte)
    <3>1. ttl * Byte = (ttl - 1) * Byte + Byte /\ ttl * Byte \in Int /\ (ttl - 1) * Byte \in Int
      BY <2>1, WordFact
    <3> QED
      BY <2>1, <2>2, <3>1, WordFact DEF HeaderSum
  <2>6. check + Byte \in Int /\ base + (check + Byte) \in Int /\ base + c \in Int /\ 0 \in Int
    BY <2>1, <2>2, WordFact
  <2>7. Congruent(base + (check + Byte), 0)
    BY <1>6, <2>5, <2>6, VerifiesFact
  <2>8. Congruent(base, base)
    BY <2>2, CongruentRefl
  <2>9. Congruent(base + c, base + (check + Byte))
    BY <2>1, <2>2, <2>6, <2>8, CongruentAdd
  <2>10. Congruent(base + c, 0)
    BY <2>6, <2>7, <2>9, CongruentTrans
  <2>11. base + c > 0
    BY <2>1, <2>2, <2>3
  <2> QED
    BY <2>4, <2>6, <2>10, <2>11, VerifiesFact
<1> QED
  BY <1>5, <1>6

\* The hop limit of IPv6 has no checksum.
LEMMA HopLimitFact ==
  ASSUME NEW iph \in Ipv6Header, iph.ttl > 1
  PROVE  Hop(iph) \in Ipv6Header /\ Hop(iph).protocol = iph.protocol
<1>1. iph.ttl \in Bytes /\ "check" \notin DOMAIN iph
  BY DEF Ipv6Header
<1>2. iph.ttl - 1 \in Bytes
  BY <1>1, WordFact DEF Bytes
<1> QED
  BY <1>1, <1>2 DEF Hop, Ipv6Header

LEMMA HopKept ==
  ASSUME NEW f, WellFormed(f), f[3] \in {"IP", "IPV6"}, Len(f) >= 4, f[4].ttl > 1,
         NEW dest, NEW source
  PROVE  Kept(f, [f EXCEPT ![1] = dest, ![2] = source, ![4] = Hop(@)])
<1> DEFINE g == [f EXCEPT ![1] = dest, ![2] = source, ![4] = Hop(@)]
<1>1. IsSequence(f) /\ Len(f) \in Nat /\ f = [i \in 1 .. Len(f) |-> f[i]]
  BY DEF WellFormed, IsSequence
<1>2. /\ g = [i \in 1 .. Len(f) |-> g[i]]
      /\ g[4] = Hop(f[4])
      /\ \A i \in 1 .. Len(f) : i \notin {1, 2, 4} => g[i] = f[i]
  <2>1. PICK n \in Nat : n = Len(f)
    BY <1>1
  <2>2. PICK h : h = Hop(f[4])
    OBVIOUS
  <2>3. f = [i \in 1 .. n |-> f[i]] /\ 1 \in 1 .. n /\ 2 \in 1 .. n /\ 4 \in 1 .. n
    BY <1>1, <2>1
  <2>4. PICK g1 : g1 = [f EXCEPT ![1] = dest]
    OBVIOUS
  <2>5. /\ g1 = [i \in 1 .. n |-> g1[i]] /\ g1[1] = dest
        /\ \A i \in 1 .. n : i # 1 => g1[i] = f[i]
    BY <2>3, <2>4
  <2>6. PICK g2 : g2 = [g1 EXCEPT ![2] = source]
    OBVIOUS
  <2>7. /\ g2 = [i \in 1 .. n |-> g2[i]]
        /\ \A i \in 1 .. n : i \notin {1, 2} => g2[i] = f[i]
    BY <2>3, <2>5, <2>6
  <2>8. PICK g3 : g3 = [g2 EXCEPT ![4] = h]
    OBVIOUS
  <2>9. /\ g3 = [i \in 1 .. n |-> g3[i]] /\ g3[4] = h
        /\ \A i \in 1 .. n : i \notin {1, 2, 4} => g3[i] = f[i]
    BY <2>3, <2>7, <2>8
  <2>10. g2[4] = f[4]
    BY <2>3, <2>7
  <2>11. g = g3
    BY <2>2, <2>4, <2>6, <2>8, <2>10
  <2> QED
    BY <2>1, <2>2, <2>9, <2>11
<1> HIDE DEF g
<1>3. IsSequence(g) /\ Len(g) = Len(f)
  BY <1>1, <1>2, DomainFact
<1>4. Behind(f, 0)
  BY <1>1 DEF Behind, Skips
<1>5. /\ f[3] = "IP" => f[4] \in Ipv4Header
      /\ f[3] = "IPV6" => f[4] \in Ipv6Header
  BY <1>4, HeadersThere
<1>6. g[3] = f[3] /\ (5 <= Len(f) => g[5] = f[5])
  BY <1>1, <1>2
<1>7. Behind(g, 0)
  BY <1>3, <1>6 DEF Behind, Skips
<1>8. /\ g[4] \in IF g[3] = "IP" THEN Ipv4Header ELSE Ipv6Header
      /\ g[4].protocol = f[4].protocol
      /\ HeaderSumAt(f, 0) => HeaderSumAt(g, 0)
  <2>1. CASE f[3] = "IP"
    BY <1>2, <1>5, <1>6, <2>1, HopFact DEF HeaderSumAt
  <2>2. CASE f[3] = "IPV6"
    BY <1>2, <1>5, <1>6, <2>2, HopLimitFact DEF HeaderSumAt
  <2> QED
    BY <2>1, <2>2
<1>9. HeadersAt(f, 0) => HeadersAt(g, 0)
  BY <1>3, <1>6, <1>8 DEF HeadersAt
<1>10. MessageAt(f, 0) => MessageAt(g, 0)
  BY <1>3, <1>6, <1>8 DEF MessageAt
<1>11. Kept(f, g)
  BY <1>1, <1>3, <1>4, <1>7, <1>8, <1>9, <1>10, OnlyThere DEF Kept
<1> QED
  BY <1>11 DEF g

\* What the new type adds to the sum, the new checksum takes from it.
LEMMA EchoReplyFact ==
  ASSUME NEW h \in IcmpHeader, NEW eth_type
  PROVE  /\ EchoReply(h, eth_type) \in IcmpHeader
         /\ EchoReply(h, eth_type).rest = h.rest
         /\ h.rest # 0 /\ Verifies(IcmpSum(h)) => Verifies(IcmpSum(EchoReply(h, eth_type)))
<1> DEFINE new == EchoReplyType(eth_type)
<1>1. new \in Bytes /\ h.type \in Bytes /\ h.rest \in Nat /\ h.check \in Words
  BY PacketAssumption DEF PacketAssumption, EchoReplyType, IcmpHeader
<1> HIDE DEF new
<1>2. EchoReply(h, eth_type) =
        [h EXCEPT !.type = new, !.check = EchoChecksum(h.check, h.type, new)]
  BY DEF EchoReply, new
<1>3. /\ EchoChecksum(h.check, h.type, new) \in Words
      /\ Congruent(EchoChecksum(h.check, h.type, new), (h.check + Byte * h.type) - Byte * new)
  BY <1>1, EchoFact
<1>4. /\ EchoReply(h, eth_type) \in IcmpHeader
      /\ EchoReply(h, eth_type).type = new /\ EchoReply(h, eth_type).rest = h.rest
      /\ EchoReply(h, eth_type).check = EchoChecksum(h.check, h.type, new)
  BY <1>1, <1>2, <1>3 DEF IcmpHeader
<1>5. ASSUME h.rest # 0, Verifies(IcmpSum(h))
      PROVE  Verifies(IcmpSum(EchoReply(h, eth_type)))
  <2>1. PICK rest \in Nat, check \in Int, c \in Int, o \in Int, n \in Int :
          /\ rest = h.rest /\ check = h.check /\ c = EchoReply(h, eth_type).check
          /\ o = Byte * h.type /\ n = Byte * new /\ n >= 0
          /\ rest > 0 /\ c >= 0 /\ Congruent(c, (check + o) - n)
    BY <1>1, <1>3, <1>4, <1>5, WordFact DEF Words, Bytes
  <2>2. IcmpSum(h) = (rest + n) + ((check + o) - n)
    <3>1. h.type * Byte = o
      BY <1>1, <2>1, WordFact DEF Bytes
    <3> QED
      BY <2>1, <3>1 DEF IcmpSum
  <2>3. IcmpSum(EchoReply(h, eth_type)) = (rest + n) + c
    <3>1. new * Byte = n
      BY <1>1, <2>1, WordFact DEF Bytes
    <3> QED
      BY <1>4, <2>1, <3>1 DEF IcmpSum
  <2>4. PICK base \in Int, d \in Int : base = rest + n /\ d = (check + o) - n
    BY <2>1
  <2>5. base + d \in Int /\ base + c \in Int /\ 0 \in Int /\ base + c > 0
    BY <2>1, <2>4
  <2>6. Congruent(base + d, 0)
    BY <1>5, <2>2, <2>4, <2>5, VerifiesFact
  <2>7. Congruent(base, base) /\ Congruent(c, d)
    BY <2>1, <2>4, CongruentRefl
  <2>8. Congruent(base + c, base + d)
    BY <2>1, <2>4, <2>7, CongruentAdd
  <2>9. Congruent(base + c, 0)
    BY <2>5, <2>6, <2>8, CongruentTrans
  <2> QED
    BY <2>3, <2>4, <2>5, <2>9, VerifiesFact
<1> QED
  BY <1>4, <1>5

\* Swapped addresses do not change a sum.
LEMMA SwapAddressFact ==
  ASSUME NEW iph, NEW swapped,
         swapped = [iph EXCEPT !.saddr = iph.daddr, !.daddr = iph.saddr]
  PROVE  /\ iph \in Ipv4Header => /\ swapped \in Ipv4Header /\ swapped.protocol = iph.protocol
                                  /\ HeaderSum(swapped) = HeaderSum(iph)
         /\ iph \in Ipv6Header => swapped \in Ipv6Header /\ swapped.protocol = iph.protocol
BY DEF Ipv4Header, Ipv6Header, HeaderSum

\* What an echo request looks like, and what its answer is.
Echoed(f, pos, next, eth_type) ==
  [swap_src_dst_mac(swap_src_dst_ip(f, pos)) EXCEPT ![next] = EchoReply(@, eth_type)]

LEMMA RequestFact ==
  ASSUME NEW f, WellFormed(f), IsEchoRequest(f)
  PROVE  \E j \in Nat :
           /\ Behind(f, j) /\ 5 + 2 * j <= Len(f)
           /\ parse_ethhdr(f).type = f[3 + 2 * j]
           /\ Network(f).pos = 4 + 2 * j /\ Network(f).next = 5 + 2 * j
           /\ f[4 + 2 * j].protocol \in {"ICMP", "ICMPV6"}
           /\ f[5 + 2 * j].type = EchoRequestType(f[3 + 2 * j])
<1>1. Len(f) \in Nat /\ Len(f) >= 3
  BY DEF WellFormed, IsSequence
<1>2. Network(f).type \in {"ICMP", "ICMPV6"} /\ Network(f).next <= Len(f)
  BY DEF IsEchoRequest
<1>3. PICK j \in 0 .. VLAN_MAX_DEPTH :
           /\ Behind(f, j) /\ Network(f) = Found(f, j)
           /\ parse_ethhdr(f) = [type |-> f[3 + 2 * j], pos |-> 1, next |-> 4 + 2 * j]
  BY <1>1, <1>2, NetworkFact
<1>4. /\ parse_ethhdr(f).type = f[3 + 2 * j]
      /\ Network(f).pos = 4 + 2 * j /\ Network(f).next = 5 + 2 * j
      /\ Network(f).type = f[4 + 2 * j].protocol
  BY <1>3 DEF Found
<1>5. f[Network(f).next].type = EchoRequestType(parse_ethhdr(f).type)
  BY DEF IsEchoRequest
<1>6. j \in Nat
  OBVIOUS
<1> QED
  BY <1>2, <1>3, <1>4, <1>5, <1>6

EchoedAs(f, e, pos, next, eth_type) ==
  /\ e = [i \in 1 .. Len(f) |-> e[i]]
  /\ e[pos] = [f[pos] EXCEPT !.saddr = f[pos].daddr, !.daddr = f[pos].saddr]
  /\ e[next] = EchoReply(f[next], eth_type)
  /\ \A i \in 1 .. Len(f) : i \notin {1, 2, pos, next} => e[i] = f[i]

LEMMA EchoedFields ==
  ASSUME NEW f, IsSequence(f), NEW pos \in 4 .. Len(f), NEW next \in 4 .. Len(f),
         next = pos + 1, NEW eth_type
  PROVE  EchoedAs(f, Echoed(f, pos, next, eth_type), pos, next, eth_type)
<1> DEFINE e == Echoed(f, pos, next, eth_type)
<1>1. PICK n \in Nat : n = Len(f)
  BY DEF IsSequence
<1>2. /\ f = [i \in 1 .. n |-> f[i]] /\ 1 \in 1 .. n /\ 2 \in 1 .. n /\ pos \in 1 .. n
      /\ pos \in Nat /\ pos # 1 /\ pos # 2
  BY <1>1 DEF IsSequence
<1>3. next \in 1 .. n /\ next \notin {1, 2, pos}
  BY <1>1, <1>2
<1>4. PICK iph : iph = [f[pos] EXCEPT !.saddr = f[pos].daddr, !.daddr = f[pos].saddr]
  OBVIOUS
<1>5. PICK g : g = [f EXCEPT ![pos] = iph]
  OBVIOUS
<1>6. /\ g = [i \in 1 .. n |-> g[i]] /\ g[pos] = iph
      /\ \A i \in 1 .. n : i # pos => g[i] = f[i]
  BY <1>2, <1>5
<1>7. PICK m : m = swap_src_dst_mac(g)
  OBVIOUS
<1>8. /\ m = [i \in 1 .. n |-> m[i]] /\ m[pos] = iph
      /\ \A i \in 1 .. n : i \notin {1, 2, pos} => m[i] = f[i]
  <2>1. PICK m1 : m1 = [g EXCEPT ![1] = g[2]]
    OBVIOUS
  <2>2. /\ m1 = [i \in 1 .. n |-> m1[i]]
        /\ \A i \in 1 .. n : i # 1 => m1[i] = g[i]
    BY <1>2, <1>6, <2>1
  <2>3. m = [m1 EXCEPT ![2] = g[1]]
    BY <1>7, <2>1 DEF swap_src_dst_mac
  <2>4. /\ m = [i \in 1 .. n |-> m[i]]
        /\ \A i \in 1 .. n : i # 2 => m[i] = m1[i]
    BY <1>2, <2>2, <2>3
  <2> QED
    BY <1>2, <1>6, <2>2, <2>4
<1>9. PICK h : h = EchoReply(f[next], eth_type)
  OBVIOUS
<1>10. PICK d : d = [m EXCEPT ![next] = h]
  OBVIOUS
<1>11. /\ d = [i \in 1 .. n |-> d[i]] /\ d[pos] = iph /\ d[next] = h
       /\ \A i \in 1 .. n : i \notin {1, 2, pos, next} => d[i] = f[i]
  BY <1>2, <1>3, <1>8, <1>10
<1>12. swap_src_dst_ip(f, pos) = g
  BY <1>4, <1>5 DEF swap_src_dst_ip
<1>13. m[next] = f[next]
  BY <1>3, <1>8
<1>14. e = d
  BY <1>7, <1>9, <1>10, <1>12, <1>13 DEF Echoed
<1>15. EchoedAs(f, d, pos, next, eth_type)
  BY <1>1, <1>4, <1>9, <1>11 DEF EchoedAs
<1> HIDE DEF e
<1>16. EchoedAs(f, e, pos, next, eth_type)
  BY <1>14, <1>15
<1> QED
  BY <1>16 DEF e

\* What an echo server promises: less than the others do.
EchoKeeps(f, g) ==
  /\ WellFormed(g)
  /\ HeaderVerifies(f) => HeaderVerifies(g)
  /\ ~AllZero(f) => ~AllZero(g) /\ (TransportVerifies(f) => TransportVerifies(g))

ZeroAt(f, j) ==
  /\ 5 + 2 * j <= Len(f)
  /\ f[4 + 2 * j].protocol \in {"ICMP", "ICMPV6"} /\ f[5 + 2 * j].rest = 0

LEMMA ZeroThere ==
  ASSUME NEW f, Len(f) \in Nat, NEW j \in Nat, Behind(f, j)
  PROVE  AllZero(f) <=> ZeroAt(f, j)
<1>1. \A i \in Nat : Behind(f, i) => i = j
  BY BehindFact
<1>2. j \in 0 .. Len(f)
  BY BehindFact
<1> QED
  BY <1>1, <1>2 DEF AllZero, ZeroAt

LEMMA EchoKept ==
  ASSUME NEW f, WellFormed(f), IsEchoRequest(f)
  PROVE  /\ EchoKeeps(f, Echoed(f, Network(f).pos, Network(f).next, parse_ethhdr(f).type))
         /\ ~IsEchoRequest(Echoed(f, Network(f).pos, Network(f).next, parse_ethhdr(f).type))
<1>1. PICK j \in Nat :
           /\ Behind(f, j) /\ 5 + 2 * j <= Len(f)
           /\ parse_ethhdr(f).type = f[3 + 2 * j]
           /\ Network(f).pos = 4 + 2 * j /\ Network(f).next = 5 + 2 * j
           /\ f[4 + 2 * j].protocol \in {"ICMP", "ICMPV6"}
           /\ f[5 + 2 * j].type = EchoRequestType(f[3 + 2 * j])
  BY RequestFact
<1> DEFINE g == Echoed(f, 4 + 2 * j, 5 + 2 * j, f[3 + 2 * j])
<1>2. /\ IsSequence(f) /\ Len(f) \in Nat /\ f[3 + 2 * j] \in {"IP", "IPV6"}
      /\ f[3 + 2 * j] = "IP" => f[4 + 2 * j] \in Ipv4Header
      /\ f[3 + 2 * j] = "IPV6" => f[4 + 2 * j] \in Ipv6Header
      /\ f[5 + 2 * j] \in IcmpHeader
  BY <1>1, HeadersThere
<1>3. PICK pos \in 4 .. Len(f) : pos = 4 + 2 * j /\ pos + 1 = 5 + 2 * j
  BY <1>1, <1>2
<1>4. /\ g = [i \in 1 .. Len(f) |-> g[i]]
      /\ g[pos] = [f[pos] EXCEPT !.saddr = f[pos].daddr, !.daddr = f[pos].saddr]
      /\ g[pos + 1] = EchoReply(f[pos + 1], f[3 + 2 * j])
      /\ \A i \in 1 .. Len(f) : i \notin {1, 2, pos, pos + 1} => g[i] = f[i]
  <2>1. PICK next \in 4 .. Len(f) : next = pos + 1 /\ next = 5 + 2 * j
    BY <1>1, <1>2, <1>3
  <2>2. EchoedAs(f, Echoed(f, pos, next, f[3 + 2 * j]), pos, next, f[3 + 2 * j])
    BY <1>2, <2>1, EchoedFields
  <2>3. g = Echoed(f, pos, next, f[3 + 2 * j])
    BY <1>3, <2>1
  <2> HIDE DEF g
  <2> QED
    BY <2>1, <2>2, <2>3 DEF EchoedAs
<1> HIDE DEF g
<1>5. IsSequence(g) /\ Len(g) = Len(f)
  BY <1>2, <1>4, DomainFact
<1>6. \A i \in 3 .. 3 + 2 * j : g[i] = f[i]
  <2> SUFFICES ASSUME NEW i \in 3 .. 3 + 2 * j PROVE g[i] = f[i]
    OBVIOUS
  <2>1. i \in 1 .. Len(f) /\ i \notin {1, 2, pos, pos + 1}
    BY <1>2, <1>3
  <2> QED
    BY <1>4, <2>1
<1>7. Behind(g, j)
  BY <1>1, <1>2, <1>5, <1>6, InPlace
<1>8. g[3 + 2 * j] = f[3 + 2 * j]
  <2>1. 3 + 2 * j \in 3 .. 3 + 2 * j
    OBVIOUS
  <2> QED
    BY <1>6, <2>1
<1>9. /\ g[4 + 2 * j] \in IF f[3 + 2 * j] = "IP" THEN Ipv4Header ELSE Ipv6Header
      /\ g[4 + 2 * j].protocol = f[4 + 2 * j].protocol
      /\ f[3 + 2 * j] = "IP" => HeaderSum(g[4 + 2 * j]) = HeaderSum(f[4 + 2 * j])
  <2>1. PICK iph, swapped :
          /\ iph = f[4 + 2 * j] /\ swapped = g[4 + 2 * j]
          /\ swapped = [iph EXCEPT !.saddr = iph.daddr, !.daddr = iph.saddr]
    BY <1>3, <1>4
  <2>2. /\ iph \in Ipv4Header => /\ swapped \in Ipv4Header /\ swapped.protocol = iph.protocol
                                 /\ HeaderSum(swapped) = HeaderSum(iph)
        /\ iph \in Ipv6Header => swapped \in Ipv6Header /\ swapped.protocol = iph.protocol
    BY <2>1, SwapAddressFact
  <2>3. CASE f[3 + 2 * j] = "IP"
    BY <1>2, <2>1, <2>2, <2>3
  <2>4. CASE f[3 + 2 * j] = "IPV6"
    BY <1>2, <2>1, <2>2, <2>4
  <2> QED
    BY <1>2, <2>3, <2>4
<1>10. /\ g[5 + 2 * j] \in IcmpHeader /\ g[5 + 2 * j].rest = f[5 + 2 * j].rest
       /\ f[5 + 2 * j].rest # 0 /\ Verifies(IcmpSum(f[5 + 2 * j])) =>
            Verifies(IcmpSum(g[5 + 2 * j]))
  BY <1>2, <1>3, <1>4, EchoReplyFact
<1>11. HeadersAt(g, j)
  BY <1>1, <1>5, <1>8, <1>9, <1>10 DEF HeadersAt
<1>12. HeaderSumAt(f, j) => HeaderSumAt(g, j)
  BY <1>8, <1>9 DEF HeaderSumAt
<1>13. ~ZeroAt(f, j) => ~ZeroAt(g, j) /\ (MessageAt(f, j) => MessageAt(g, j))
  BY <1>1, <1>5, <1>9, <1>10 DEF ZeroAt, MessageAt, MessageVerifies
<1>14. EchoKeeps(f, g)
  <2>1. /\ WellFormed(g)
        /\ HeaderVerifies(f) => HeaderVerifies(g)
        /\ TransportVerifies(f) <=> MessageAt(f, j)
        /\ TransportVerifies(g) <=> MessageAt(g, j)
    BY <1>1, <1>2, <1>5, <1>7, <1>11, <1>12, OnlyThere
  <2>2. AllZero(f) <=> ZeroAt(f, j)
    BY <1>1, <1>2, ZeroThere
  <2>3. AllZero(g) <=> ZeroAt(g, j)
    BY <1>2, <1>5, <1>7, ZeroThere
  <2> QED
    BY <1>13, <2>1, <2>2, <2>3 DEF EchoKeeps
<1>15. ~IsEchoRequest(g)
  <2> SUFFICES ASSUME IsEchoRequest(g) PROVE FALSE
    OBVIOUS
  <2>1. WellFormed(g)
    BY <1>14 DEF EchoKeeps
  <2>2. PICK i \in Nat : Behind(g, i) /\ g[5 + 2 * i].type = EchoRequestType(g[3 + 2 * i])
    BY <2>1, RequestFact
  <2>3. i = j
    BY <1>2, <1>5, <1>7, <2>2, BehindFact
  <2>4. g[5 + 2 * j].type = EchoReplyType(f[3 + 2 * j])
    <3>1. PICK h, type : h \in IcmpHeader /\ h = f[5 + 2 * j] /\ type = f[3 + 2 * j]
      BY <1>2
    <3>2. EchoReply(h, type).type = EchoReplyType(type)
      BY DEF EchoReply, IcmpHeader
    <3>3. g[5 + 2 * j] = EchoReply(h, type)
      BY <1>3, <1>4, <3>1
    <3> QED
      BY <3>1, <3>2, <3>3
  <2>5. EchoReplyType(f[3 + 2 * j]) # EchoRequestType(f[3 + 2 * j])
    BY PacketAssumption DEF PacketAssumption, EchoReplyType, EchoRequestType
  <2> QED
    BY <1>8, <2>2, <2>3, <2>4, <2>5
<1> QED
  BY <1>1, <1>14, <1>15 DEF g

-----------------------------------------------------------------------------
(* Frames with a UDP or TCP header.                                        *)

AtPorts(f) == Network(f).type \in {"UDP", "TCP"} /\ HasTransport(f, Network(f).next)

\* g is f with another header there.
PortsAs(f, g, h) ==
  /\ WellFormed(g) /\ Len(g) = Len(f) /\ Network(g) = Network(f)
  /\ g[Network(f).next] = h
  /\ HeaderVerifies(f) => HeaderVerifies(g)

LEMMA PortsThere ==
  ASSUME NEW f, WellFormed(f), AtPorts(f)
  PROVE  /\ IsSequence(f) /\ Network(f).next \in 4 .. Len(f)
         /\ f[Network(f).next] \in PortsHeader /\ f[Network(f).next].sane = TRUE
         /\ \E j \in 0 .. VLAN_MAX_DEPTH :
              /\ Behind(f, j) /\ Network(f) = Found(f, j) /\ 5 + 2 * j <= Len(f)
              /\ Network(f).next = 5 + 2 * j
              /\ f[3 + 2 * j] = "IP" => f[4 + 2 * j].sane
              /\ f[4 + 2 * j].protocol \in {"UDP", "TCP"}
<1>1. Len(f) \in Nat /\ Len(f) >= 3 /\ Network(f).type # "-1"
  BY DEF WellFormed, IsSequence, AtPorts
<1>2. PICK j \in 0 .. VLAN_MAX_DEPTH :
           /\ Behind(f, j) /\ Network(f) = Found(f, j)
           /\ f[3 + 2 * j] = "IP" => f[4 + 2 * j].sane
  BY <1>1, NetworkFact
<1>3. Network(f).next = 5 + 2 * j /\ Network(f).type = f[4 + 2 * j].protocol
  BY <1>2 DEF Found
<1>4. /\ f[4 + 2 * j].protocol \in {"UDP", "TCP"}
      /\ 5 + 2 * j <= Len(f) /\ f[5 + 2 * j].sane
  BY <1>3 DEF AtPorts, HasTransport
<1>5. j \in Nat
  OBVIOUS
<1>6. IsSequence(f) /\ f[5 + 2 * j] \in PortsHeader
  BY <1>2, <1>4, <1>5, HeadersThere
<1>7. f[5 + 2 * j].sane = TRUE
  BY <1>4, <1>6 DEF PortsHeader
<1>8. Network(f).next \in 4 .. Len(f)
  BY <1>1, <1>3, <1>4, <1>5
<1> QED
  BY <1>2, <1>3, <1>4, <1>6, <1>7, <1>8

LEMMA PortsReplaced ==
  ASSUME NEW f, WellFormed(f), AtPorts(f), NEW h \in PortsHeader
  PROVE  PortsAs(f, [f EXCEPT ![Network(f).next] = h], h)
<1>1. PICK j \in 0 .. VLAN_MAX_DEPTH :
        /\ Behind(f, j) /\ Network(f) = Found(f, j) /\ 5 + 2 * j <= Len(f)
        /\ Network(f).next = 5 + 2 * j
        /\ f[3 + 2 * j] = "IP" => f[4 + 2 * j].sane
        /\ f[4 + 2 * j].protocol \in {"UDP", "TCP"}
  BY PortsThere
<1>2. j \in Nat /\ IsSequence(f) /\ Len(f) \in Nat
  BY DEF WellFormed, IsSequence
<1>3. PICK pos \in 1 .. Len(f) : pos = 5 + 2 * j
  BY <1>1, <1>2
<1>4. PICK g : g = [f EXCEPT ![pos] = h]
  OBVIOUS
<1>5. /\ IsSequence(g) /\ Len(g) = Len(f)
      /\ \A k \in 1 .. Len(f) : g[k] = IF k = pos THEN h ELSE f[k]
  <2>1. PICK n \in Nat : n = Len(f)
    BY <1>2
  <2>2. f = [i \in 1 .. n |-> f[i]] /\ pos \in 1 .. n
    BY <1>2, <2>1 DEF IsSequence
  <2>3. /\ g = [i \in 1 .. n |-> g[i]]
        /\ \A k \in 1 .. n : g[k] = IF k = pos THEN h ELSE f[k]
    BY <1>4, <2>2
  <2> QED
    BY <2>1, <2>3, DomainFact
<1>6. \A i \in 3 .. 4 + 2 * j : g[i] = f[i]
  <2> SUFFICES ASSUME NEW i \in 3 .. 4 + 2 * j PROVE g[i] = f[i]
    OBVIOUS
  <2>1. i \in 1 .. Len(f) /\ i # pos
    BY <1>2, <1>3
  <2> QED
    BY <1>5, <2>1
<1>7. Behind(g, j)
  <2>1. \A i \in 3 .. 3 + 2 * j : g[i] = f[i]
    BY <1>2, <1>6
  <2> QED
    BY <1>1, <1>2, <1>5, <2>1, InPlace
<1>8. g[3 + 2 * j] = f[3 + 2 * j] /\ g[4 + 2 * j] = f[4 + 2 * j] /\ g[5 + 2 * j] = h
  <2>1. 3 + 2 * j \in 3 .. 4 + 2 * j /\ 4 + 2 * j \in 3 .. 4 + 2 * j
    BY <1>2
  <2> QED
    BY <1>3, <1>5, <1>6, <2>1
<1>9. HeadersAt(f, j) => HeadersAt(g, j)
  BY <1>1, <1>5, <1>8 DEF HeadersAt
<1>10. HeaderSumAt(f, j) => HeaderSumAt(g, j)
  BY <1>8 DEF HeaderSumAt
<1>11. WellFormed(g) /\ (HeaderVerifies(f) => HeaderVerifies(g))
  BY <1>1, <1>2, <1>5, <1>7, <1>9, <1>10, OnlyThere
<1>12. Network(g) = Found(g, j)
  BY <1>1, <1>2, <1>5, <1>7, <1>8, NetworkAt
<1>13. Network(g) = Network(f)
  BY <1>1, <1>8, <1>12 DEF Found
<1>14. PortsAs(f, g, h)
  BY <1>1, <1>5, <1>8, <1>11, <1>13 DEF PortsAs
<1> QED
  BY <1>1, <1>3, <1>4, <1>14

\* The headers that the two programs and the server write.
PatchedDest(h) == [h EXCEPT !.dest = Port(@, -1), !.check = PatchedChecksum(@, 1)]
PatchedSource(h) == [h EXCEPT !.source = Port(@, 1), !.check = PatchedChecksum(@, -1)]
Answered(h, check) == [h EXCEPT !.source = h.dest, !.dest = h.source, !.check = check]

LEMMA PortFact ==
  ASSUME NEW port \in Words
  PROVE  Port(port, -1) \in Words /\ Port(port, 1) \in Words /\ Port(Port(port, -1), 1) = port
<1>1. /\ port \in Int /\ port >= 0 /\ port <= WordCount - 1
      /\ WordCount \in Nat \ {0} /\ WordCount > 1
  BY WordFact DEF Words
<1>2. \A a \in Int : (a % WordCount) \in Words
  BY <1>1, DivideFact DEF Words
<1>3. Port(port, -1) \in Words /\ Port(port, 1) \in Words
  BY <1>1, <1>2 DEF Port
<1>4. CASE port = 0
  <2>1. WordCount * (-1) + (WordCount - 1) = port + (-1)
    BY <1>1, <1>4
  <2>2. (port + (-1)) % WordCount = WordCount - 1
    BY <1>1, <2>1, UniqueFact
  <2>3. WordCount * 1 + 0 = (WordCount - 1) + 1
    BY <1>1
  <2>4. ((WordCount - 1) + 1) % WordCount = 0
    BY <1>1, <2>3, UniqueFact
  <2> QED
    BY <1>3, <1>4, <2>2, <2>4 DEF Port
<1>5. CASE port > 0
  <2>1. WordCount * 0 + (port - 1) = port + (-1)
    BY <1>1, <1>5
  <2>2. (port + (-1)) % WordCount = port - 1
    BY <1>1, <1>5, <2>1, UniqueFact
  <2>3. WordCount * 0 + port = (port - 1) + 1
    BY <1>1
  <2>4. ((port - 1) + 1) % WordCount = port
    BY <1>1, <2>3, UniqueFact
  <2> QED
    BY <1>3, <2>2, <2>4 DEF Port
<1> QED
  BY <1>1, <1>3, <1>4, <1>5

LEMMA PortsWritten ==
  ASSUME NEW h \in PortsHeader
  PROVE  /\ PatchedDest(h) \in PortsHeader
         /\ PatchedDest(h).sane = h.sane /\ PatchedDest(h).dest = Port(h.dest, -1)
         /\ PatchedSource(h) \in PortsHeader
         /\ PatchedSource(h).sane = h.sane /\ PatchedSource(h).source = Port(h.source, 1)
         /\ \A check \in Words :
              /\ Answered(h, check) \in PortsHeader
              /\ Answered(h, check).sane = h.sane /\ Answered(h, check).source = h.dest
<1>1. h.source \in Words /\ h.dest \in Words /\ h.check \in Words
  BY DEF PortsHeader
<1>2. /\ Port(h.dest, -1) \in Words /\ Port(h.source, 1) \in Words
      /\ PatchedChecksum(h.check, 1) \in Words /\ PatchedChecksum(h.check, -1) \in Words
  BY <1>1, PortFact, PatchedWord
<1>3. /\ PatchedDest(h) = [h EXCEPT !.dest = Port(h.dest, -1),
                                    !.check = PatchedChecksum(h.check, 1)]
      /\ PatchedSource(h) = [h EXCEPT !.source = Port(h.source, 1),
                                      !.check = PatchedChecksum(h.check, -1)]
  BY DEF PatchedDest, PatchedSource, PortsHeader
<1>4. /\ PatchedDest(h) \in PortsHeader
      /\ PatchedDest(h).sane = h.sane /\ PatchedDest(h).dest = Port(h.dest, -1)
  BY <1>2, <1>3 DEF PortsHeader
<1>5. /\ PatchedSource(h) \in PortsHeader
      /\ PatchedSource(h).sane = h.sane /\ PatchedSource(h).source = Port(h.source, 1)
  BY <1>2, <1>3 DEF PortsHeader
<1>6. ASSUME NEW check \in Words
      PROVE  /\ Answered(h, check) \in PortsHeader
             /\ Answered(h, check).sane = h.sane /\ Answered(h, check).source = h.dest
  BY <1>1 DEF Answered, PortsHeader
<1> QED
  BY <1>4, <1>5, <1>6

-----------------------------------------------------------------------------
(* The steps, as far as they concern the frame.                            *)

LEMMA DestKept ==
  ASSUME NEW dest, WellFormed(frame), frame' = [frame EXCEPT ![1] = dest]
  PROVE  Kept(frame, frame')
<1>1. IsSequence(frame) /\ Len(frame) \in Nat /\ Len(frame) >= 3
  BY DEF WellFormed, IsSequence
<1>2. PICK n, g : n \in Nat /\ n = Len(frame) /\ g = frame'
  BY <1>1
<1>3. frame = [i \in 1 .. n |-> frame[i]] /\ 1 \in 1 .. n
  BY <1>1, <1>2 DEF IsSequence
<1>4. g = [i \in 1 .. n |-> g[i]] /\ \A i \in 3 .. n : g[i] = frame[i]
  <2>1. PICK f : f = frame
    OBVIOUS
  <2>2. g = [f EXCEPT ![1] = dest] /\ f = [i \in 1 .. n |-> f[i]]
    BY <1>2, <1>3, <2>1
  <2>3. g = [i \in 1 .. n |-> g[i]] /\ \A i \in 1 .. n : i # 1 => g[i] = f[i]
    BY <1>3, <2>2
  <2>4. \A i \in 3 .. n : i \in 1 .. n /\ i # 1
    OBVIOUS
  <2> QED
    BY <2>1, <2>3, <2>4
<1>5. IsSequence(g) /\ Len(g) = n
  BY <1>2, <1>4, DomainFact
<1>6. Kept(frame, g)
  BY <1>2, <1>4, <1>5, MacsKept
<1> QED
  BY <1>2, <1>6

LEMMA VlanSwapKept ==
  ASSUME TypeOK, xdp_vlan_swap
  PROVE  Kept(frame, frame')
<1>1. WellFormed(frame) /\ headroom \in BOOLEAN
  BY DEF TypeOK
<1>2. CASE parse_ethhdr(frame) = Fail
  BY <1>1, <1>2, KeptItself DEF xdp_vlan_swap
<1>3. CASE parse_ethhdr(frame) # Fail /\ proto_is_vlan(frame[3])
  BY <1>1, <1>3, PopKept DEF xdp_vlan_swap
<1>4. CASE parse_ethhdr(frame) # Fail /\ ~proto_is_vlan(frame[3])
  BY <1>1, <1>4, PushKept DEF xdp_vlan_swap
<1> QED
  BY <1>2, <1>3, <1>4

LEMMA EchoStepKept ==
  ASSUME TypeOK, xdp_icmp_echo
  PROVE  EchoKeeps(frame, frame')
<1>1. WellFormed(frame)
  BY DEF TypeOK
<1>2. CASE IsEchoRequest(frame)
  <2>1. frame' = Echoed(frame, Network(frame).pos, Network(frame).next, parse_ethhdr(frame).type)
    BY <1>2 DEF xdp_icmp_echo, Echoed
  <2> QED
    BY <1>1, <1>2, <2>1, EchoKept
<1>3. CASE ~IsEchoRequest(frame)
  BY <1>1, <1>3 DEF xdp_icmp_echo, EchoKeeps
<1> QED
  BY <1>2, <1>3

LEMMA RouterKept ==
  ASSUME TypeOK, xdp_router
  PROVE  Kept(frame, frame')
<1>1. WellFormed(frame)
  BY DEF TypeOK
<1>2. CASE UNCHANGED frame
  BY <1>1, <1>2, KeptItself
<1>3. CASE ~UNCHANGED frame
  <2>1. /\ ~(Len(frame) < 3 \/ (frame[3] \in {"IP", "IPV6"} /\ Len(frame) < 4))
        /\ ~(frame[3] \notin {"IP", "IPV6"} \/ frame[4].ttl <= 1)
        /\ frame' = [frame EXCEPT ![1] = "next_hop", ![2] = "router", ![4] = Hop(@)]
    BY <1>3 DEF xdp_router
  <2>2. IsSequence(frame) /\ Len(frame) \in Nat /\ Len(frame) >= 4 /\ frame[3] \in {"IP", "IPV6"}
    BY <1>1, <2>1 DEF WellFormed, IsSequence
  <2>3. Behind(frame, 0)
    BY <2>2 DEF Behind, Skips
  <2>4. /\ frame[3] = "IP" => frame[4] \in Ipv4Header
        /\ frame[3] = "IPV6" => frame[4] \in Ipv6Header
    BY <1>1, <2>3, HeadersThere
  <2>5. frame[4].ttl \in Bytes
    BY <2>2, <2>4 DEF Ipv4Header, Ipv6Header
  <2>6. frame[4].ttl > 1
    BY <2>1, <2>5, WordFact DEF Bytes
  <2> QED
    BY <1>1, <2>1, <2>2, <2>6, HopKept
<1> QED
  BY <1>2, <1>3

LEMMA RedirectKept ==
  ASSUME TypeOK, xdp_redirect \/ xdp_redirect_map \/ xdp_vlan_01 \/ xdp_vlan_02
  PROVE  Kept(frame, frame')
<1>1. WellFormed(frame)
  BY DEF TypeOK
<1>2. frame' = frame \/ \E dest : frame' = [frame EXCEPT ![1] = dest]
  BY DEF xdp_redirect, xdp_redirect_map, xdp_vlan_01, xdp_vlan_02
<1> QED
  BY <1>1, <1>2, KeptItself, DestKept

\* The port programs, on the header that they have found.
LEMMA PatchStep ==
  ASSUME TypeOK, xdp_patch_ports
  PROVE  /\ AtPorts(frame) =>
              frame' = [frame EXCEPT ![Network(frame).next] = PatchedDest(frame[Network(frame).next])]
         /\ ~AtPorts(frame) => frame' = frame
<1>1. CASE AtPorts(frame)
  BY <1>1 DEF xdp_patch_ports, AtPorts, PatchedDest
<1>2. CASE ~AtPorts(frame)
  BY <1>2 DEF xdp_patch_ports, AtPorts
<1> QED
  BY <1>1, <1>2

LEMMA PatchKept ==
  ASSUME TypeOK, xdp_patch_ports
  PROVE  WellFormed(frame') /\ (HeaderVerifies(frame) => HeaderVerifies(frame'))
<1>1. WellFormed(frame)
  BY DEF TypeOK
<1>2. CASE AtPorts(frame)
  <2>1. PatchedDest(frame[Network(frame).next]) \in PortsHeader
    BY <1>1, <1>2, PortsThere, PortsWritten
  <2> QED
    BY <1>1, <1>2, <2>1, PatchStep, PortsReplaced DEF PortsAs
<1>3. CASE ~AtPorts(frame)
  BY <1>1, <1>3, PatchStep
<1> QED
  BY <1>2, <1>3

\* What comes back to the client: the answer of the server, rewritten in the same place.
LEMMA ReplyStep ==
  ASSUME TypeOK, Reply
  PROVE  /\ WellFormed(frame') /\ (HeaderVerifies(frame) => HeaderVerifies(frame'))
         /\ AtPorts(frame)
         /\ frame'[Network(frame).next].source = Port(frame[Network(frame).next].dest, 1)
<1>1. WellFormed(frame) /\ AtPorts(frame)
  BY DEF TypeOK, Reply, AtPorts
<1>2. PICK pos : pos = Network(frame).next
  OBVIOUS
<1>3. PICK h \in PortsHeader : h = frame[pos] /\ h.sane = TRUE
  BY <1>1, <1>2, PortsThere
<1>4. PICK check \in Words : frame' = fix_port_egress(Answer(frame, check))
  BY DEF Reply
<1>5. PICK a \in PortsHeader : a = Answered(h, check) /\ a.sane = TRUE /\ a.source = h.dest
  BY <1>3, PortsWritten
<1>6. PICK g : g = [frame EXCEPT ![pos] = a]
  OBVIOUS
<1>7. Answer(frame, check) = g
  BY <1>2, <1>3, <1>5, <1>6 DEF Answer, Answered
<1>8. PortsAs(frame, g, a)
  BY <1>1, <1>2, <1>6, PortsReplaced
<1>9. WellFormed(g) /\ AtPorts(g) /\ g[pos] = a /\ Network(g).next = pos
  BY <1>1, <1>2, <1>5, <1>8 DEF PortsAs, AtPorts, HasTransport
<1>10. PICK b \in PortsHeader : b = PatchedSource(a) /\ b.source = Port(a.source, 1)
  BY <1>5, PortsWritten
<1>11. PICK e : e = [g EXCEPT ![pos] = b]
  OBVIOUS
<1>12. fix_port_egress(g) = e
  BY <1>9, <1>10, <1>11 DEF fix_port_egress, AtPorts, PatchedSource
<1>13. PortsAs(g, e, b)
  BY <1>9, <1>11, PortsReplaced
<1>14. frame' = e
  BY <1>4, <1>7, <1>12
<1>15. /\ WellFormed(e) /\ e[pos] = b
       /\ HeaderVerifies(frame) => HeaderVerifies(e)
  BY <1>8, <1>9, <1>13 DEF PortsAs
<1> QED
  BY <1>1, <1>2, <1>3, <1>5, <1>10, <1>14, <1>15

-----------------------------------------------------------------------------
(* Types. Whatever a program does to a frame, the headers of the frame are *)
(* still what its EtherTypes and protocols say, and redirect_params never  *)
(* gets a second entry.                                                    *)

LEMMA FrameTyped ==
  ASSUME TypeOK, [Next]_vars
  PROVE  WellFormed(frame') /\ (HeaderVerifies(frame) => HeaderVerifies(frame'))
<1>1. CASE xdp_patch_ports
  BY <1>1, PatchKept
<1>2. CASE xdp_vlan_swap
  BY <1>2, VlanSwapKept DEF Kept
<1>3. CASE xdp_icmp_echo
  BY <1>3, EchoStepKept DEF EchoKeeps
<1>4. CASE xdp_router
  BY <1>4, RouterKept DEF Kept
<1>5. CASE xdp_redirect \/ xdp_redirect_map \/ xdp_vlan_01 \/ xdp_vlan_02
  BY <1>5, RedirectKept DEF Kept
<1>6. CASE Reply
  BY <1>6, ReplyStep
<1>7. CASE Bridge \/ xdp_prog_user \/ UNCHANGED vars
  <2>1. frame' = frame
    BY <1>7 DEF Bridge, xdp_prog_user, WriteTxPort, WriteIfaceParams, ProgUserEnds, vars
  <2> QED
    BY <2>1 DEF TypeOK
<1> QED
  BY <1>1, <1>2, <1>3, <1>4, <1>5, <1>6, <1>7 DEF Next, Run

\* The programs touch neither the maps nor what they have been sent.
LEMMA RunLeaves ==
  ASSUME TypeOK, Run
  PROVE  /\ UNCHANGED <<program, origin, bridged, maps>> /\ place = "wire"
         /\ place' \in {"wire", "stack", "redirected", "gone"} /\ headroom' \in BOOLEAN
<1>1. headroom \in BOOLEAN
  BY DEF TypeOK
<1>2. CASE xdp_patch_ports
  BY <1>1, <1>2 DEF xdp_patch_ports, Runs, Verdict
<1>3. CASE xdp_vlan_swap
  BY <1>1, <1>3 DEF xdp_vlan_swap, Runs, Verdict
<1>4. CASE xdp_icmp_echo
  BY <1>1, <1>4 DEF xdp_icmp_echo, Runs, Verdict
<1>5. CASE xdp_router
  BY <1>1, <1>5 DEF xdp_router, Runs, Verdict
<1>6. CASE xdp_redirect
  BY <1>1, <1>6 DEF xdp_redirect, Runs, Verdict
<1>7. CASE xdp_redirect_map
  BY <1>1, <1>7 DEF xdp_redirect_map, Runs, Verdict
<1>8. CASE xdp_vlan_01
  BY <1>1, <1>8 DEF xdp_vlan_01, Runs, Verdict
<1>9. CASE xdp_vlan_02
  BY <1>1, <1>9 DEF xdp_vlan_02, Runs, Verdict
<1> QED
  BY <1>2, <1>3, <1>4, <1>5, <1>6, <1>7, <1>8, <1>9 DEF Run

LEMMA TypedInit ==
  ASSUME Init
  PROVE  TypeOK
<1>1. program \in Program /\ frame \in Frames[program]
  BY DEF Init
<1>2. WellFormed(frame) /\ MaxBridged \in Nat
  BY <1>1, PacketAssumption DEF PacketAssumption
<1>3. DOMAIN redirect_params = {}
  BY DEF Init
<1>4. Cardinality(DOMAIN redirect_params) = 0
  BY <1>3, FS_EmptySet
<1>5. Cardinality(DOMAIN redirect_params) <= 1
  BY <1>4
<1>6. unwritten \in BOOLEAN
  BY DEF Init
<1> QED
  BY <1>1, <1>2, <1>5, <1>6 DEF Init, TypeOK

LEMMA TypedStep ==
  ASSUME TypeOK, [Next]_vars
  PROVE  TypeOK'
<1> DEFINE Others == /\ program' \in Program /\ WellFormed(origin')
                     /\ place' \in {"wire", "stack", "client", "redirected", "gone"}
                     /\ headroom' \in BOOLEAN /\ bridged' \in 0 .. MaxBridged
           MapsTyped == /\ tx_port' \in {NoDevice} \union {cmd.dev : cmd \in Redirections}
                        /\ writing' \in {NoCommand} \union Redirections
                        /\ Cardinality(DOMAIN redirect_params') <= 1
                        /\ unwritten' \in BOOLEAN
<1>1. WellFormed(frame')
  BY FrameTyped
<1>2. CASE Run
  <2>1. Others
    BY <1>2, RunLeaves DEF TypeOK
  <2>2. MapsTyped
    BY <1>2, RunLeaves DEF TypeOK, maps
  <2> QED
    BY <1>1, <2>1, <2>2 DEF TypeOK
<1>3. CASE Reply
  BY <1>1, <1>3 DEF Reply, TypeOK, maps
<1>4. CASE Bridge
  <2>1. bridged' \in 0 .. MaxBridged
    BY <1>4, PacketAssumption DEF Bridge, TypeOK, PacketAssumption
  <2> QED
    BY <1>1, <1>4, <2>1 DEF Bridge, TypeOK, maps
<1>5. CASE xdp_prog_user
  <2>1. Others
    BY <1>5 DEF xdp_prog_user, WriteTxPort, WriteIfaceParams, ProgUserEnds, TypeOK
  <2>2. MapsTyped
    <3>1. CASE WriteTxPort
      BY <3>1 DEF WriteTxPort, TypeOK
    <3>2. CASE WriteIfaceParams
      <4>1. Cardinality({writing.src_mac}) = 1
        BY FS_Singleton
      <4>2. \/ redirect_params' = redirect_params
            \/ DOMAIN redirect_params' = {writing.src_mac}
        BY <3>2 DEF WriteIfaceParams, Entry
      <4>3. Cardinality(DOMAIN redirect_params') <= 1
        BY <4>1, <4>2 DEF TypeOK
      <4> QED
        BY <3>2, <4>3 DEF WriteIfaceParams, TypeOK
    <3>3. CASE ProgUserEnds
      BY <3>3 DEF ProgUserEnds, TypeOK
    <3> QED
      BY <1>5, <3>1, <3>2, <3>3 DEF xdp_prog_user
  <2> QED
    BY <1>1, <2>1, <2>2 DEF TypeOK
<1>6. CASE UNCHANGED vars
  BY <1>6 DEF TypeOK, vars, maps
<1> QED
  BY <1>2, <1>3, <1>4, <1>5, <1>6 DEF Next

THEOREM TypeTheorem == Spec => []TypeOK
<1>1. Init => TypeOK
  BY TypedInit
<1>2. TypeOK /\ [Next]_vars => TypeOK'
  BY TypedStep
<1> QED
  BY <1>1, <1>2, PTL DEF Spec

-----------------------------------------------------------------------------
(* What routers, echo servers and VLAN programs do to a right checksum     *)
(* leaves it right, for a byte of any size.                                *)

\* What an echo server sends back is not all zero if what was sent is not.
ZeroSent ==
  /\ ChecksumsKept
  /\ program = "xdp_icmp_echo" /\ ~AllZero(origin) => ~AllZero(frame)

LEMMA ChecksumStep ==
  ASSUME TypeOK, ZeroSent, [Next]_vars
  PROVE  ZeroSent'
<1>1. program' = program /\ origin' = origin
  <2>1. CASE Run
    BY <2>1, RunLeaves
  <2>2. CASE ~Run
    BY <2>2 DEF Next, Reply, Bridge, xdp_prog_user, WriteTxPort, WriteIfaceParams,
                ProgUserEnds, vars
  <2> QED
    BY <2>1, <2>2
<1>2. HeaderVerifies(frame) => HeaderVerifies(frame')
  BY FrameTyped
<1>3. CASE Bridge \/ xdp_prog_user \/ UNCHANGED vars
  <2>1. frame' = frame
    BY <1>3 DEF Bridge, xdp_prog_user, WriteTxPort, WriteIfaceParams, ProgUserEnds, vars
  <2> QED
    BY <1>1, <1>2, <2>1 DEF ZeroSent, ChecksumsKept
<1>4. CASE xdp_icmp_echo
  <2>1. EchoKeeps(frame, frame')
    BY <1>4, EchoStepKept
  <2>2. program = "xdp_icmp_echo"
    BY <1>4 DEF xdp_icmp_echo, Runs
  <2> QED
    BY <1>1, <1>2, <2>1, <2>2 DEF ZeroSent, ChecksumsKept, EchoKeeps
<1>5. CASE xdp_patch_ports \/ Reply
  <2>1. program = "xdp_patch_ports"
    BY <1>5 DEF xdp_patch_ports, Runs, Reply
  <2> QED
    BY <1>1, <1>2, <2>1 DEF ZeroSent, ChecksumsKept
<1>6. CASE \/ xdp_vlan_swap \/ xdp_router
          \/ xdp_redirect \/ xdp_redirect_map \/ xdp_vlan_01 \/ xdp_vlan_02
  <2>1. Kept(frame, frame')
    BY <1>6, VlanSwapKept, RouterKept, RedirectKept
  <2>2. program # "xdp_icmp_echo"
    BY <1>6 DEF xdp_vlan_swap, xdp_router, xdp_redirect, xdp_redirect_map, xdp_vlan_01,
                xdp_vlan_02, Runs
  <2> QED
    BY <1>1, <1>2, <2>1, <2>2 DEF ZeroSent, ChecksumsKept, Kept
<1> QED
  BY <1>3, <1>4, <1>5, <1>6 DEF Next, Run

THEOREM ChecksumsKeptTheorem == Spec => []ChecksumsKept
<1>1. Init => ZeroSent
  BY DEF Init, ZeroSent, ChecksumsKept
<1>2. TypeOK /\ ZeroSent /\ [Next]_vars => ZeroSent'
  BY ChecksumStep
<1>3. ZeroSent => ChecksumsKept
  BY DEF ZeroSent
<1> QED
  BY <1>1, <1>2, <1>3, TypeTheorem, PTL DEF Spec

-----------------------------------------------------------------------------
(* The device is written before the addresses, and stays: a frame whose    *)
(* source is in redirect_params finds a device, whenever the writer is     *)
(* killed or its second write fails, until an update of tx_port fails.     *)

DeviceFirst ==
  program = "xdp_redirect_map" /\ ~unwritten =>
    /\ place # "gone"
    /\ DOMAIN redirect_params # {} \/ writing # NoCommand => tx_port # NoDevice

LEMMA DeviceFirstStep ==
  ASSUME TypeOK, DeviceFirst, [Next]_vars
  PROVE  DeviceFirst'
<1> SUFFICES ASSUME program' = "xdp_redirect_map", ~unwritten'
             PROVE  /\ place' # "gone"
                    /\ DOMAIN redirect_params' # {} \/ writing' # NoCommand => tx_port' # NoDevice
  BY DEF DeviceFirst
<1>1. CASE xdp_redirect_map
  <2>1. /\ UNCHANGED <<program, maps>> /\ place' \in {"wire", "stack", "redirected", "gone"}
        /\ place = "wire" /\ program = "xdp_redirect_map"
    BY <1>1, RunLeaves DEF Run, xdp_redirect_map, Runs
  <2>2. CASE parse_ethhdr(frame) = Fail \/ frame[2] \notin DOMAIN redirect_params
    <3>1. place' = "stack"
      BY <1>1, <2>2 DEF xdp_redirect_map, Verdict
    <3> QED
      BY <2>1, <3>1 DEF DeviceFirst, maps
  <2>3. CASE ~(parse_ethhdr(frame) = Fail \/ frame[2] \notin DOMAIN redirect_params)
    <3>1. tx_port # NoDevice
      BY <2>1, <2>3 DEF DeviceFirst, maps
    <3>2. Verdict("XDP_REDIRECT")
      BY <1>1, <2>3, <3>1 DEF xdp_redirect_map
    <3>3. place' = "redirected"
      BY <2>1, <3>2 DEF Verdict
    <3> QED
      BY <2>1, <3>3 DEF DeviceFirst, maps
  <2> QED
    BY <2>2, <2>3
<1>2. CASE Run /\ ~xdp_redirect_map
  <2>1. program # "xdp_redirect_map"
    BY <1>2 DEF Run, xdp_patch_ports, xdp_vlan_swap, xdp_icmp_echo, xdp_router, xdp_redirect,
                xdp_vlan_01, xdp_vlan_02, Runs
  <2>2. program' = program
    BY <1>2, RunLeaves
  <2> QED
    BY <2>1, <2>2 DEF DeviceFirst
<1>3. CASE Reply \/ Bridge
  BY <1>3 DEF Reply, Bridge, DeviceFirst
<1>4. CASE WriteTxPort
  BY <1>4, PacketAssumption DEF PacketAssumption, WriteTxPort, DeviceFirst
<1>5. CASE WriteIfaceParams
  BY <1>5 DEF WriteIfaceParams, DeviceFirst
<1>6. CASE ProgUserEnds
  BY <1>6 DEF ProgUserEnds, DeviceFirst
<1>7. CASE UNCHANGED vars
  BY <1>7 DEF vars, maps, DeviceFirst
<1> QED
  BY <1>1, <1>2, <1>3, <1>4, <1>5, <1>6, <1>7 DEF Next, xdp_prog_user

THEOREM NothingAbortedTheorem == Spec => []NothingAborted
<1>1. Init => DeviceFirst
  BY DEF Init, DeviceFirst
<1>2. TypeOK /\ DeviceFirst /\ [Next]_vars => DeviceFirst'
  BY DeviceFirstStep
<1>3. DeviceFirst => NothingAborted
  BY DEF DeviceFirst, NothingAborted
<1> QED
  BY <1>1, <1>2, <1>3, TypeTheorem, PTL DEF Spec

-----------------------------------------------------------------------------
(* Where a packet to a rewritten port is on its way to the server and      *)
(* back.                                                                   *)

Rewritten(f) ==
  IF AtPorts(f)
  THEN [f EXCEPT ![Network(f).next] = PatchedDest(f[Network(f).next])]
  ELSE f

Underway ==
  /\ program = "xdp_patch_ports" /\ place = "wire" => frame = origin
  /\ program = "xdp_patch_ports" /\ place = "stack" => frame = Rewritten(origin)
  /\ AnswerFromPort

\* The server sees the port less one, where the packet had the port.
LEMMA RewrittenFact ==
  ASSUME NEW f, WellFormed(f), AtPorts(Rewritten(f))
  PROVE  /\ Network(Rewritten(f)).next = Network(f).next
         /\ Port(Rewritten(f)[Network(f).next].dest, 1) = f[Network(f).next].dest
<1>1. PICK pos : pos = Network(f).next
  OBVIOUS
<1>2. AtPorts(f)
  BY DEF Rewritten
<1>3. f[pos] \in PortsHeader
  BY <1>1, <1>2, PortsThere
<1>4. PICK h \in PortsHeader : h = PatchedDest(f[pos]) /\ h.dest = Port(f[pos].dest, -1)
  BY <1>3, PortsWritten
<1>5. PICK g : g = [f EXCEPT ![pos] = h]
  OBVIOUS
<1>6. PortsAs(f, g, h)
  BY <1>1, <1>2, <1>5, PortsReplaced
<1>7. Rewritten(f) = g
  BY <1>1, <1>2, <1>4, <1>5 DEF Rewritten
<1>8. Network(g).next = pos /\ g[pos] = h
  BY <1>1, <1>6 DEF PortsAs
<1>9. f[pos].dest \in Words
  BY <1>3 DEF PortsHeader
<1>10. Port(h.dest, 1) = f[pos].dest
  BY <1>4, <1>9, PortFact
<1> QED
  BY <1>1, <1>7, <1>8, <1>10

LEMMA UnderwayStep ==
  ASSUME TypeOK, Underway, [Next]_vars
  PROVE  Underway'
<1>1. CASE xdp_patch_ports
  <2>1. /\ frame = origin /\ program = "xdp_patch_ports" /\ UNCHANGED <<program, origin>>
    BY <1>1 DEF xdp_patch_ports, Runs, Underway
  <2>2. frame' = Rewritten(origin)
    BY <1>1, <2>1, PatchStep DEF Rewritten
  <2>3. place' \in {"stack", "gone"}
    BY <1>1 DEF xdp_patch_ports, Verdict
  <2>4. Rewritten(origin)' = Rewritten(origin)
    BY <2>1 DEF Rewritten, PatchedDest, AtPorts
  <2> QED
    BY <2>1, <2>2, <2>3, <2>4 DEF Underway, AnswerFromPort
<1>2. CASE Run /\ ~xdp_patch_ports
  <2>1. program # "xdp_patch_ports"
    BY <1>2 DEF Run, xdp_vlan_swap, xdp_icmp_echo, xdp_router, xdp_redirect,
                xdp_redirect_map, xdp_vlan_01, xdp_vlan_02, Runs
  <2>2. program' = program /\ place' # "client"
    BY <1>2, RunLeaves
  <2> QED
    BY <2>1, <2>2 DEF Underway, AnswerFromPort
<1>3. CASE Reply
  <2>1. /\ program = "xdp_patch_ports" /\ place = "stack" /\ place' = "client" /\ origin' = origin
    BY <1>3 DEF Reply
  <2>2. /\ frame = Rewritten(origin) /\ WellFormed(origin)
    BY <2>1 DEF Underway, TypeOK
  <2>3. /\ AtPorts(frame)
        /\ frame'[Network(frame).next].source = Port(frame[Network(frame).next].dest, 1)
    BY <1>3, ReplyStep
  <2>4. /\ Network(frame).next = Network(origin).next
        /\ Port(frame[Network(origin).next].dest, 1) = origin[Network(origin).next].dest
    BY <2>2, <2>3, RewrittenFact
  <2>5. frame'[Network(origin).next].source = origin[Network(origin).next].dest
    BY <2>3, <2>4
  <2>6. AnswerFromPort'
    BY <2>1, <2>5 DEF AnswerFromPort
  <2> QED
    BY <2>1, <2>6 DEF Underway
<1>4. CASE Bridge
  BY <1>4 DEF Bridge, Underway, AnswerFromPort
<1>5. CASE xdp_prog_user \/ UNCHANGED vars
  <2>1. UNCHANGED <<program, frame, origin, place>>
    BY <1>5 DEF xdp_prog_user, WriteTxPort, WriteIfaceParams, ProgUserEnds, vars
  <2>2. Rewritten(origin)' = Rewritten(origin)
    BY <2>1 DEF Rewritten, PatchedDest, AtPorts
  <2> QED
    BY <2>1, <2>2 DEF Underway, AnswerFromPort
<1> QED
  BY <1>1, <1>2, <1>3, <1>4, <1>5 DEF Next

THEOREM AnswerFromPortTheorem == Spec => []AnswerFromPort
<1>1. Init => Underway
  BY DEF Init, Underway, AnswerFromPort
<1>2. TypeOK /\ Underway /\ [Next]_vars => Underway'
  BY UnderwayStep
<1>3. Underway => AnswerFromPort
  BY DEF Underway
<1> QED
  BY <1>1, <1>2, <1>3, TypeTheorem, PTL DEF Spec

-----------------------------------------------------------------------------
(* A popped tag is an outer one, and a pushed one is the next to be popped *)
(* again.                                                                  *)

LEMMA SameSequence ==
  ASSUME NEW f, NEW g, IsSequence(f), IsSequence(g), Len(f) = Len(g),
         \A i \in 1 .. Len(f) : f[i] = g[i]
  PROVE  f = g
<1>1. PICK n \in Nat : n = Len(f) /\ n = Len(g)
  BY DEF IsSequence
<1>2. f = [i \in 1 .. n |-> f[i]] /\ g = [i \in 1 .. n |-> g[i]]
  BY <1>1 DEF IsSequence
<1>3. [i \in 1 .. n |-> f[i]] = [i \in 1 .. n |-> g[i]]
  BY <1>1
<1> QED
  BY <1>2, <1>3

LEMMA UntaggedFact ==
  ASSUME NEW f, IsSequence(f), NEW n \in Nat, Len(f) >= 3 + 2 * n
  PROVE  /\ IsSequence(Untagged(f, n)) /\ Len(Untagged(f, n)) = Len(f) - 2 * n
         /\ \A i \in 1 .. Len(f) - 2 * n :
              Untagged(f, n)[i] = IF i <= 2 THEN f[i] ELSE f[i + 2 * n]
<1> DEFINE V == {f[i] : i \in 1 .. Len(f)}
           a == <<f[1], f[2]>>
           b == SubSeq(f, 3 + 2 * n, Len(f))
<1>1. Len(f) \in Nat /\ n \in Int
  BY DEF IsSequence
<1>2. \A i \in 1 .. Len(f) : f[i] \in V
  OBVIOUS
<1>3. a \in Seq(V) /\ Len(a) = 2 /\ a[1] = f[1] /\ a[2] = f[2]
  <2>1. f[1] \in V /\ f[2] \in V
    BY <1>1, <1>2
  <2> HIDE DEF V
  <2> QED
    BY <2>1
<1>4. /\ b \in Seq(V) /\ Len(b) = Len(f) - 2 - 2 * n
      /\ \A i \in 1 .. Len(f) - 2 - 2 * n : b[i] = f[(i + 2) + 2 * n]
  <2>1. PICK m \in Nat, l \in Nat : m = 3 + 2 * n /\ l = Len(f) /\ m <= l
    BY <1>1
  <2>2. \A i \in m .. l : f[i] \in V
    BY <1>1, <1>2, <2>1
  <2> HIDE DEF V, a
  <2>3. /\ SubSeq(f, m, l) \in Seq(V)
        /\ Len(SubSeq(f, m, l)) = IF m <= l THEN l - m + 1 ELSE 0
        /\ \A i \in 1 .. l - m + 1 : SubSeq(f, m, l)[i] = f[m + i - 1]
    BY <2>1, <2>2, SubSeqProperties
  <2>4. b = SubSeq(f, m, l)
    BY <2>1
  <2> HIDE DEF b
  <2>5. Len(b) = l - m + 1 /\ l - m + 1 = Len(f) - 2 - 2 * n
    BY <2>1, <2>3, <2>4
  <2>6. ASSUME NEW i \in 1 .. Len(f) - 2 - 2 * n
        PROVE  b[i] = f[(i + 2) + 2 * n]
    <3>1. i \in 1 .. l - m + 1 /\ m + i - 1 = (i + 2) + 2 * n
      BY <1>1, <2>1
    <3> QED
      BY <2>3, <2>4, <3>1
  <2> QED
    BY <2>3, <2>4, <2>5, <2>6
<1> HIDE DEF V, a, b
<1>5. /\ a \o b \in Seq(V) /\ Len(a \o b) = Len(a) + Len(b)
      /\ \A i \in 1 .. Len(a) + Len(b) :
           (a \o b)[i] = IF i <= Len(a) THEN a[i] ELSE b[i - Len(a)]
  BY <1>3, <1>4, ConcatProperties
<1>6. PICK c \in Seq(V) : c = a \o b
  BY <1>5
<1>7. IsSequence(c)
  BY SequenceOf
<1>8. Untagged(f, n) = c
  BY <1>6 DEF Untagged, a, b
<1>9. Len(c) = Len(f) - 2 * n
  <2>1. Len(c) = Len(a) + Len(b) /\ Len(a) = 2 /\ Len(b) = Len(f) - 2 - 2 * n
    BY <1>3, <1>4, <1>5, <1>6
  <2>2. PICK l \in Nat, m \in Nat : l = Len(f) /\ m = 2 * n
    BY <1>1
  <2> QED
    BY <2>1, <2>2
<1>10. ASSUME NEW i \in 1 .. Len(f) - 2 * n
       PROVE  c[i] = IF i <= 2 THEN f[i] ELSE f[i + 2 * n]
  <2>1. i \in 1 .. Len(a) + Len(b) /\ i \in Nat
    BY <1>1, <1>3, <1>4
  <2>2. c[i] = IF i <= 2 THEN a[i] ELSE b[i - 2]
    BY <1>3, <1>5, <1>6, <2>1
  <2>3. CASE i <= 2
    <3>1. i = 1 \/ i = 2
      BY <2>1, <2>3
    <3> QED
      BY <1>3, <2>2, <2>3, <3>1
  <2>4. CASE ~(i <= 2)
    <3>1. i - 2 \in 1 .. Len(f) - 2 - 2 * n /\ (i - 2) + 2 = i
      BY <1>1, <2>1, <2>4
    <3>2. b[i - 2] = f[i + 2 * n]
      BY <1>4, <3>1
    <3> QED
      BY <2>2, <2>4, <3>2
  <2> QED
    BY <2>3, <2>4
<1> QED
  BY <1>7, <1>8, <1>9, <1>10

LEMMA UntaggedNone ==
  ASSUME NEW f, IsSequence(f), Len(f) >= 3
  PROVE  Untagged(f, 0) = f
<1>1. Len(f) \in Nat
  BY DEF IsSequence
<1>2. PICK u : u = Untagged(f, 0)
  OBVIOUS
<1>3. /\ IsSequence(u) /\ Len(u) = Len(f)
      /\ \A i \in 1 .. Len(f) : u[i] = f[i]
  BY <1>1, <1>2, UntaggedFact
<1> QED
  BY <1>2, <1>3, SameSequence

LEMMA PopUntagged ==
  ASSUME NEW f, IsSequence(f), NEW n \in Nat, Len(f) >= 5 + 2 * n
  PROVE  vlan_tag_pop(Untagged(f, n)) = Untagged(f, n + 1)
<1>1. Len(f) \in Nat
  BY DEF IsSequence
<1>2. PICK u, v, p : u = Untagged(f, n) /\ v = Untagged(f, n + 1) /\ p = vlan_tag_pop(u)
  OBVIOUS
<1>3. /\ IsSequence(u) /\ Len(u) = Len(f) - 2 * n
      /\ \A i \in 1 .. Len(f) - 2 * n : u[i] = IF i <= 2 THEN f[i] ELSE f[i + 2 * n]
  BY <1>1, <1>2, UntaggedFact
<1>4. PICK m \in Nat : m = n + 1
  OBVIOUS
<1>5. /\ IsSequence(v) /\ Len(v) = Len(f) - 2 * m
      /\ \A i \in 1 .. Len(f) - 2 * m : v[i] = IF i <= 2 THEN f[i] ELSE f[i + 2 * m]
  BY <1>1, <1>2, <1>4, UntaggedFact
<1>6. /\ IsSequence(p) /\ Len(p) = Len(u) - 2
      /\ \A i \in 1 .. Len(u) - 2 : p[i] = IF i <= 2 THEN u[i] ELSE u[i + 2]
  <2>1. Len(u) >= 5
    BY <1>1, <1>3
  <2> QED
    BY <1>2, <1>3, <2>1, PopFact
<1>7. ASSUME NEW i \in 1 .. Len(p)
      PROVE  p[i] = v[i]
  <2>1. i \in 1 .. Len(u) - 2 /\ i \in 1 .. Len(f) - 2 * m /\ i \in Nat
    BY <1>1, <1>3, <1>4, <1>6
  <2>2. CASE i <= 2
    <3>1. i \in 1 .. Len(f) - 2 * n
      BY <1>1, <1>4, <2>1
    <3> QED
      BY <1>3, <1>5, <1>6, <2>1, <2>2, <3>1
  <2>3. CASE ~(i <= 2)
    <3>1. i + 2 \in 1 .. Len(f) - 2 * n /\ ~(i + 2 <= 2) /\ (i + 2) + 2 * n = i + 2 * m
      BY <1>1, <1>3, <1>4, <2>1, <2>3
    <3>2. p[i] = u[i + 2] /\ v[i] = f[i + 2 * m]
      BY <1>5, <1>6, <2>1, <2>3
    <3>3. u[i + 2] = f[(i + 2) + 2 * n]
      BY <1>3, <3>1
    <3> QED
      BY <3>1, <3>2, <3>3
  <2> QED
    BY <2>2, <2>3
<1>8. Len(p) = Len(v)
  BY <1>1, <1>3, <1>4, <1>5, <1>6
<1> QED
  BY <1>2, <1>5, <1>6, <1>7, <1>8, SameSequence

LEMMA PopPushed ==
  ASSUME NEW f, IsSequence(f), Len(f) >= 3, NEW vlid
  PROVE  vlan_tag_pop(Pushed(f, vlid)) = f
<1>1. Len(f) \in Nat
  BY DEF IsSequence
<1>2. PICK u, p : u = Pushed(f, vlid) /\ p = vlan_tag_pop(u)
  OBVIOUS
<1>3. /\ IsSequence(u) /\ Len(u) = Len(f) + 2 /\ u[1] = f[1] /\ u[2] = f[2]
      /\ \A i \in 3 .. Len(f) : u[i + 2] = f[i]
  BY <1>2, PushFact
<1>4. /\ IsSequence(p) /\ Len(p) = Len(u) - 2
      /\ \A i \in 1 .. Len(u) - 2 : p[i] = IF i <= 2 THEN u[i] ELSE u[i + 2]
  <2>1. Len(u) >= 5
    BY <1>1, <1>3
  <2> QED
    BY <1>2, <1>3, <2>1, PopFact
<1>5. ASSUME NEW i \in 1 .. Len(p)
      PROVE  p[i] = f[i]
  <2>1. i \in 1 .. Len(u) - 2 /\ i \in 1 .. Len(f) /\ i \in Nat
    BY <1>1, <1>3, <1>4
  <2>2. CASE i <= 2
    <3>1. i = 1 \/ i = 2
      BY <2>1, <2>2
    <3> QED
      BY <1>3, <1>4, <2>1, <2>2, <3>1
  <2>3. CASE ~(i <= 2)
    <3>1. i \in 3 .. Len(f)
      BY <1>1, <2>1, <2>3
    <3> QED
      BY <1>3, <1>4, <2>1, <2>3, <3>1
  <2> QED
    BY <2>2, <2>3
<1>6. Len(p) = Len(f)
  BY <1>1, <1>3, <1>4
<1> QED
  BY <1>2, <1>4, <1>5, <1>6, SameSequence

\* The ways in which a frame can be that of which n outer tags are gone.
Without(f, g, n) ==
  /\ Len(f) >= 3 + 2 * n
  /\ \A k \in 0 .. n - 1 : proto_is_vlan(f[3 + 2 * k])
  /\ \/ g = Untagged(f, n)
     \/ /\ ~proto_is_vlan(Untagged(f, n)[3])
        /\ g = Pushed(Untagged(f, n), 1)

LEMMA TagsOnlyAs ==
  ASSUME WellFormed(origin)
  PROVE  TagsOnly <=>
           (program = "xdp_vlan_swap" => \E n \in Nat : Without(origin, frame, n))
<1>1. Len(origin) \in Nat /\ Len(origin) >= 3
  BY DEF WellFormed, IsSequence
<1>2. \A n \in Nat : n \in 0 .. (Len(origin) - 3) \div 2 <=> Len(origin) >= 3 + 2 * n
  <2>1. PICK a \in Nat : a = Len(origin) - 3
    BY <1>1
  <2>2. a = 2 * (a \div 2) + (a % 2) /\ a \div 2 \in Int /\ (a % 2) \in 0 .. 1
    <3>1. 2 \in Nat \ {0} /\ a \in Int
      OBVIOUS
    <3>2. a \div 2 \in Int /\ (a % 2) \in 0 .. 2 - 1 /\ a = 2 * (a \div 2) + (a % 2)
      BY <3>1, DivideFact
    <3> QED
      BY <3>2
  <2> QED
    BY <1>1, <2>1, <2>2
<1>3. \A n \in Int : n \in 0 .. (Len(origin) - 3) \div 2 => n \in Nat
  OBVIOUS
<1> DEFINE Tagged(n) ==
      LET rest == Untagged(origin, n) IN
      /\ \A k \in 0 .. n - 1 : proto_is_vlan(origin[3 + 2 * k])
      /\ \/ frame = rest
         \/ /\ ~proto_is_vlan(rest[3])
            /\ frame = <<rest[1], rest[2], "8021Q", 1>> \o SubSeq(rest, 3, Len(rest))
<1>4. TagsOnly <=>
        (program = "xdp_vlan_swap" => \E n \in 0 .. (Len(origin) - 3) \div 2 : Tagged(n))
  BY DEF TagsOnly
<1>5. \A n \in Nat : Without(origin, frame, n) <=> Len(origin) >= 3 + 2 * n /\ Tagged(n)
  BY DEF Without, Pushed
<1> HIDE DEF Tagged
<1> QED
  BY <1>2, <1>3, <1>4, <1>5

LEMMA SwapWithout ==
  ASSUME TypeOK, xdp_vlan_swap, NEW n \in Nat, Without(origin, frame, n)
  PROVE  \E m \in Nat : Without(origin, frame', m)
<1>1. /\ IsSequence(origin) /\ Len(origin) \in Nat /\ Len(frame) \in Nat /\ Len(frame) >= 3
      /\ Len(origin) >= 3 + 2 * n
  BY DEF TypeOK, WellFormed, IsSequence, Without
<1>2. PICK rest : rest = Untagged(origin, n)
  OBVIOUS
<1>3. /\ IsSequence(rest) /\ Len(rest) = Len(origin) - 2 * n
      /\ rest[3] = origin[3 + 2 * n]
  <2>1. /\ IsSequence(rest) /\ Len(rest) = Len(origin) - 2 * n
        /\ \A i \in 1 .. Len(origin) - 2 * n :
             rest[i] = IF i <= 2 THEN origin[i] ELSE origin[i + 2 * n]
    BY <1>1, <1>2, UntaggedFact
  <2>2. 3 \in 1 .. Len(origin) - 2 * n
    BY <1>1
  <2> QED
    BY <2>1, <2>2
<1>4. Len(rest) \in Nat /\ Len(rest) >= 3
  BY <1>1, <1>3
<1>5. \/ proto_is_vlan(frame[3]) /\ frame' = vlan_tag_pop(frame)
      \/ ~proto_is_vlan(frame[3]) /\ frame' = vlan_tag_push(frame, 1)
      \/ frame' = frame
  BY DEF xdp_vlan_swap
<1>6. CASE frame' = frame
  BY <1>6
<1>7. CASE frame = rest /\ proto_is_vlan(frame[3]) /\ frame' = vlan_tag_pop(frame)
  <2>1. CASE Len(frame) < 5
    BY <1>7, <2>1 DEF vlan_tag_pop
  <2>2. CASE ~(Len(frame) < 5)
    <3>1. Len(origin) >= 5 + 2 * n
      BY <1>1, <1>3, <1>7, <2>2
    <3>2. PICK m \in Nat : m = n + 1
      OBVIOUS
    <3>3. frame' = Untagged(origin, m)
      BY <1>1, <1>2, <1>7, <3>1, <3>2, PopUntagged
    <3>4. ASSUME NEW k \in 0 .. m - 1
          PROVE  proto_is_vlan(origin[3 + 2 * k])
      <4>1. CASE k = n
        BY <1>3, <1>7, <4>1
      <4>2. CASE k # n
        <5>1. k \in 0 .. n - 1
          BY <3>2, <4>2
        <5> QED
          BY <5>1 DEF Without
      <4> QED
        BY <4>1, <4>2
    <3>5. Len(origin) >= 3 + 2 * m
      BY <1>1, <3>1, <3>2
    <3> QED
      BY <3>3, <3>4, <3>5 DEF Without
  <2> QED
    BY <2>1, <2>2
<1>8. CASE frame = rest /\ ~proto_is_vlan(frame[3]) /\ frame' = vlan_tag_push(frame, 1)
  <2>1. frame' = frame \/ frame' = Pushed(rest, 1)
    BY <1>8 DEF vlan_tag_push, Pushed
  <2> QED
    BY <1>2, <1>8, <2>1 DEF Without
<1>9. CASE frame = Pushed(rest, 1) /\ frame' # frame
  <2>1. frame[3] = "8021Q"
    BY <1>3, <1>4, <1>9, PushFact
  <2>2. frame' = vlan_tag_pop(frame)
    BY <1>5, <1>9, <2>1 DEF proto_is_vlan
  <2>3. frame' = rest
    BY <1>3, <1>4, <1>9, <2>2, PopPushed
  <2> QED
    BY <1>2, <2>3 DEF Without
<1>10. frame = rest \/ frame = Pushed(rest, 1)
  BY <1>2 DEF Without
<1> QED
  BY <1>5, <1>6, <1>7, <1>8, <1>9, <1>10

THEOREM TagsOnlyTheorem == Spec => []TagsOnly
<1> DEFINE Tags == program = "xdp_vlan_swap" => \E n \in Nat : Without(origin, frame, n)
<1>1. Init => Tags
  <2> SUFFICES ASSUME Init PROVE Without(origin, frame, 0)
    OBVIOUS
  <2>1. WellFormed(origin) /\ frame = origin
    BY TypedInit DEF Init, TypeOK
  <2>2. IsSequence(origin) /\ Len(origin) >= 3
    BY <2>1 DEF WellFormed
  <2> QED
    BY <2>1, <2>2, UntaggedNone DEF Without
<1>2. TypeOK /\ Tags /\ [Next]_vars => Tags'
  <2> SUFFICES ASSUME TypeOK, Tags, [Next]_vars PROVE Tags'
    OBVIOUS
  <2>1. CASE xdp_vlan_swap
    <3>1. program = "xdp_vlan_swap" /\ UNCHANGED <<program, origin>>
      BY <2>1 DEF xdp_vlan_swap, Runs
    <3>2. PICK n \in Nat : Without(origin, frame, n)
      BY <3>1
    <3>3. PICK m \in Nat : Without(origin, frame', m)
      BY <2>1, <3>2, SwapWithout
    <3>4. Without(origin, frame', m) => Without(origin', frame', m)
      BY <3>1
    <3> QED
      BY <3>3, <3>4
  <2>2. CASE Run /\ ~xdp_vlan_swap
    <3>1. program # "xdp_vlan_swap"
      BY <2>2 DEF Run, xdp_patch_ports, xdp_icmp_echo, xdp_router, xdp_redirect,
                  xdp_redirect_map, xdp_vlan_01, xdp_vlan_02, Runs
    <3>2. program' = program
      BY <2>2, RunLeaves
    <3> QED
      BY <3>1, <3>2
  <2>3. CASE Reply
    BY <2>3 DEF Reply
  <2>4. CASE Bridge \/ xdp_prog_user \/ UNCHANGED vars
    <3>1. UNCHANGED <<program, frame, origin>>
      BY <2>4 DEF Bridge, xdp_prog_user, WriteTxPort, WriteIfaceParams, ProgUserEnds, vars
    <3> QED
      BY <3>1 DEF Without, Untagged, Pushed
  <2> QED
    BY <2>1, <2>2, <2>3, <2>4 DEF Next
<1>3. TypeOK /\ Tags => TagsOnly
  BY TagsOnlyAs DEF TypeOK
<1> HIDE DEF Tags
<1> QED
  BY <1>1, <1>2, <1>3, TypeTheorem, PTL DEF Spec

-----------------------------------------------------------------------------
(* What lets routers and echo servers come to an end (Settles).            *)

\* The hops of a frame: a router's are its ttl, and an echo server answers once.
HopsLeft(f) == IF program = "xdp_router" THEN f[4].ttl ELSE IF IsEchoRequest(f) THEN 1 ELSE 0

\* A program that sends a frame on, or back, has used up a hop of it.
HopsRunOut ==
  [][Run => place' # "wire" \/ (HopsLeft(frame') >= 0 /\ HopsLeft(frame') < HopsLeft(frame))]_vars

\* An IPv6 frame loses its hop limit as an IPv4 frame its ttl, a router drops what has
\* one hop left, and an answer is not a request.
THEOREM HopsRunOutTheorem == Spec => HopsRunOut
<1> DEFINE Fewer == HopsLeft(frame') >= 0 /\ HopsLeft(frame') < HopsLeft(frame)
<1>1. TypeOK /\ [Next]_vars => [Run => place' # "wire" \/ Fewer]_vars
  <2> SUFFICES ASSUME TypeOK, Run, place' = "wire" PROVE Fewer
    OBVIOUS
  <2>1. WellFormed(frame)
    BY DEF TypeOK
  <2>2. CASE xdp_router
    <3>1. /\ program = "xdp_router"
          /\ frame' = [frame EXCEPT ![1] = "next_hop", ![2] = "router", ![4] = Hop(@)]
          /\ frame[3] \in {"IP", "IPV6"} /\ ~(Len(frame) < 3) /\ ~(Len(frame) < 4)
          /\ ~(frame[4].ttl <= 1)
      BY <2>2 DEF xdp_router, Runs, Verdict
    <3>2. IsSequence(frame) /\ Len(frame) \in Nat /\ Len(frame) >= 4
      BY <2>1, <3>1 DEF WellFormed, IsSequence
    <3>3. Behind(frame, 0)
      BY <3>1, <3>2 DEF Behind, Skips
    <3>4. frame[4] \in Ipv4Header \/ frame[4] \in Ipv6Header
      BY <2>1, <3>1, <3>3, HeadersThere
    <3>5. frame[4].ttl \in Nat /\ frame[4].ttl > 1 /\ Hop(frame[4]).ttl = frame[4].ttl - 1
      BY <3>1, <3>4, WordFact DEF Hop, Ipv4Header, Ipv6Header, Bytes
    <3>6. frame'[4] = Hop(frame[4])
      <4>1. 4 \in DOMAIN frame
        BY <3>2 DEF IsSequence
      <4>2. PICK g1 : g1 = [frame EXCEPT ![1] = "next_hop"]
        OBVIOUS
      <4>3. 4 \in DOMAIN g1 /\ g1[4] = frame[4]
        BY <4>1, <4>2
      <4>4. PICK g2 : g2 = [g1 EXCEPT ![2] = "router"]
        OBVIOUS
      <4>5. 4 \in DOMAIN g2 /\ g2[4] = frame[4]
        BY <4>3, <4>4
      <4>6. PICK h : h = Hop(frame[4])
        OBVIOUS
      <4>7. PICK g3 : g3 = [g2 EXCEPT ![4] = h]
        OBVIOUS
      <4>8. g3 = [frame EXCEPT ![1] = "next_hop", ![2] = "router", ![4] = Hop(@)]
        BY <4>2, <4>4, <4>5, <4>6, <4>7
      <4>9. g3[4] = h
        BY <4>5, <4>7
      <4> QED
        BY <3>1, <4>6, <4>8, <4>9
    <3> QED
      BY <3>1, <3>5, <3>6 DEF HopsLeft
  <2>3. CASE xdp_icmp_echo
    <3>1. program = "xdp_icmp_echo" /\ IsEchoRequest(frame)
      BY <2>3 DEF xdp_icmp_echo, Runs, Verdict
    <3>2. frame' = Echoed(frame, Network(frame).pos, Network(frame).next, parse_ethhdr(frame).type)
      BY <2>3, <3>1 DEF xdp_icmp_echo, Echoed
    <3>3. ~IsEchoRequest(frame')
      BY <2>1, <3>1, <3>2, EchoKept
    <3> QED
      BY <3>1, <3>3 DEF HopsLeft
  <2>4. ~(xdp_patch_ports \/ xdp_vlan_swap)
    BY DEF xdp_patch_ports, xdp_vlan_swap, Verdict
  <2>5. ~(xdp_redirect \/ xdp_redirect_map)
    BY DEF xdp_redirect, xdp_redirect_map, Runs, Verdict
  <2>6. ~(xdp_vlan_01 \/ xdp_vlan_02)
    BY DEF xdp_vlan_01, xdp_vlan_02, Verdict
  <2> QED
    BY <2>2, <2>3, <2>4, <2>5, <2>6 DEF Run
<1> QED
  BY <1>1, TypeTheorem, PTL DEF Spec, HopsRunOut
=============================================================================
