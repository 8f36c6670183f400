-------------------------- MODULE PushServer_proofs --------------------------
(***************************************************************************)
(* Theorems about what the server offers, for every set of names, files and *)
(* packs: a file decodes to what was encoded, what is offered is there and  *)
(* is what was packed, and a loop is as long as the encoder said.           *)
(***************************************************************************)
EXTENDS PushServer, TLAPS, FiniteSetTheorems, WellFoundedInduction
-----------------------------------------------------------------------------
(***************************************************************************)
(* Numbers.                                                                 *)
(***************************************************************************)
\* A set of naturals has a least element, and a finite range of them a greatest.
LEMMA Least ==
  ASSUME NEW T, T \subseteq Nat, T # {}
  PROVE  \E n \in T : \A m \in T : n <= m
  <1>1. PICK n \in T : \A m \in T : ~ (<<m, n>> \in OpToRel(<, Nat))
    BY NatLessThanWellFounded, WFMin, Zenon
  <1>2. \A m \in T : m \in Nat /\ n \in Nat /\ ~ (m < n) BY <1>1 DEF OpToRel
  <1>3. \A m \in T : n <= m BY <1>2
  <1> QED BY <1>3

LEMMA Greatest ==
  ASSUME NEW L \in Nat, NEW T, T \subseteq 1..L, T # {}
  PROVE  \E n \in T : \A m \in T : n >= m
  <1> DEFINE U == {L - n : n \in T}
  <1>1. U \subseteq Nat OBVIOUS
  <1>2. U # {} OBVIOUS
  <1>3. PICK u \in U : \A v \in U : u <= v BY <1>1, <1>2, Least
  <1>4. PICK n \in T : u = L - n BY <1>3
  <1>5. \A m \in T : u <= L - m BY <1>3
  <1>6. \A m \in T : m \in Int BY SMT
  <1>7. \A m \in T : n >= m BY <1>4, <1>5, <1>6
  <1> QED BY <1>7

LEMMA MinIs ==
  ASSUME NEW T, T \subseteq Nat, T # {}
  PROVE  Min(T) \in T /\ \A m \in T : Min(T) <= m
  BY Least, Zenon DEF Min

LEMMA MaxIs ==
  ASSUME NEW L \in Nat, NEW T, T \subseteq 1..L, T # {}
  PROVE  Max(T) \in T /\ \A m \in T : Max(T) >= m
  BY Greatest, Zenon DEF Max

\* The greatest of one index is the index.
LEMMA MaxOfOne == ASSUME NEW i \in Int PROVE Max({i}) = i
  <1>1. \A x \in {i} : x >= i OBVIOUS
  <1>2. Max({i}) \in {i} BY <1>1, Zenon DEF Max
  <1> QED BY <1>2

LEMMA MaxOfTwo ==
  ASSUME NEW a \in Int, NEW b \in Int PROVE Max({a, b}) = IF a >= b THEN a ELSE b
  <1> DEFINE m == IF a >= b THEN a ELSE b
  <1>1. m \in {a, b} /\ \A y \in {a, b} : m >= y OBVIOUS
  <1>2. \A x \in {a, b} : (\A y \in {a, b} : x >= y) => x = m OBVIOUS
  <1> HIDE DEF m
  <1>3. Max({a, b}) \in {a, b} /\ \A y \in {a, b} : Max({a, b}) >= y BY <1>1, Zenon DEF Max
  <1>4. Max({a, b}) = m BY <1>2, <1>3
  <1> QED BY <1>4 DEF m

LEMMA MinOfTwo ==
  ASSUME NEW a \in Int, NEW b \in Int PROVE Min({a, b}) = IF a <= b THEN a ELSE b
  <1> DEFINE m == IF a <= b THEN a ELSE b
  <1>1. m \in {a, b} /\ \A y \in {a, b} : m <= y OBVIOUS
  <1>2. \A x \in {a, b} : (\A y \in {a, b} : x <= y) => x = m OBVIOUS
  <1> HIDE DEF m
  <1>3. Min({a, b}) \in {a, b} /\ \A y \in {a, b} : Min({a, b}) <= y BY <1>1, Zenon DEF Min
  <1>4. Min({a, b}) = m BY <1>2, <1>3
  <1> QED BY <1>4 DEF m

\* Quotient and remainder, and that there is one pair of them.
LEMMA DivIs ==
  ASSUME NEW n \in Nat, NEW d \in Nat \ {0}
  PROVE  n \div d \in Nat /\ n % d \in Nat /\ n % d < d /\ n = d * (n \div d) + (n % d)
  OBVIOUS

LEMMA Euclid ==
  ASSUME NEW d \in Nat \ {0}, NEW a \in Nat, NEW b \in Nat, NEW r \in Nat, NEW s \in Nat,
         r < d, s < d, a * d + r = b * d + s
  PROVE  a = b /\ r = s
  <1>1. ~(a < b)
    <2> SUFFICES ASSUME a + 1 <= b PROVE FALSE OBVIOUS
    <2>1. (a + 1) * d <= b * d OBVIOUS
    <2>2. (a + 1) * d = a * d + d OBVIOUS
    <2>3. a * d \in Nat /\ b * d \in Nat OBVIOUS
    <2> QED BY <2>1, <2>2, <2>3
  <1>2. ~(b < a)
    <2> SUFFICES ASSUME b + 1 <= a PROVE FALSE OBVIOUS
    <2>1. (b + 1) * d <= a * d OBVIOUS
    <2>2. (b + 1) * d = b * d + d OBVIOUS
    <2>3. a * d \in Nat /\ b * d \in Nat OBVIOUS
    <2> QED BY <2>1, <2>2, <2>3
  <1> QED BY <1>1, <1>2

LEMMA DivMod ==
  ASSUME NEW d \in Nat \ {0}, NEW a \in Nat, NEW r \in Nat, r < d
  PROVE  (a * d + r) \div d = a /\ (a * d + r) % d = r
  <1> DEFINE n == a * d + r
             q == n \div d
             m == n % d
  <1>1. n \in Nat OBVIOUS
  <1>2. q \in Nat /\ m \in Nat /\ m < d /\ n = d * q + m BY <1>1, DivIs
  <1> HIDE DEF q, m
  <1>3. d * q = q * d BY <1>2
  <1> QED BY <1>2, <1>3, Euclid DEF q, m

LEMMA ModIs == ASSUME NEW n \in Int, NEW d \in Nat \ {0} PROVE n % d \in 0..(d - 1)
  OBVIOUS

-----------------------------------------------------------------------------
(***************************************************************************)
(* The codec.                                                               *)
(***************************************************************************)
\* A column read from its bits is the column.
LEMMA ColumnBack == ASSUME NEW col \in Columns PROVE DecodeColumn(EncodeColumn(col)) = col
  <1> DEFINE bits == EncodeColumn(col)
  <1>1. Leds \in Nat \ {0} BY CodecAssumption
  <1>2. ASSUME NEW led \in 0..(Leds - 1), NEW ch \in 0..2
        PROVE  bits[Header + 3 * led + ch] = col[led][ch]
    <2> DEFINE j == Header + 3 * led + ch
    <2>1. j \in 0..(ColBits - 1) /\ ~(j < Header) /\ j - Header = led * 3 + ch
      BY <1>1 DEF ColBits, Header
    <2>2. led \in Nat /\ ch \in Nat /\ ch < 3 BY <1>1
    <2>3. (led * 3 + ch) \div 3 = led /\ (led * 3 + ch) % 3 = ch BY <2>2, DivMod
    <2>4. bits[j] = IF j < Header THEN 0 ELSE col[(j - Header) \div 3][(j - Header) % 3]
      <3> HIDE DEF j
      <3> QED BY <2>1 DEF EncodeColumn
    <2> HIDE DEF j, bits
    <2>5. bits[j] = col[led][ch] BY <2>1, <2>3, <2>4
    <2> QED BY <2>5 DEF j
  <1> HIDE DEF bits
  <1>3. \A led \in 0..(Leds - 1) :
          [ch \in 0..2 |-> bits[Header + 3 * led + ch]] = [ch \in 0..2 |-> col[led][ch]]
    BY <1>2
  <1>4. \A led \in 0..(Leds - 1) : col[led] = [ch \in 0..2 |-> col[led][ch]] BY DEF Columns
  <1>5. \A led \in 0..(Leds - 1) : [ch \in 0..2 |-> bits[Header + 3 * led + ch]] = col[led]
    BY <1>3, <1>4
  <1>6. col = [led \in 0..(Leds - 1) |-> col[led]] BY DEF Columns
  <1>7. DecodeColumn(bits) = col BY <1>5, <1>6 DEF DecodeColumn
  <1> QED BY <1>7 DEF bits

\* A file shows columns of its pictures.
LEMMA FrameColumnIs ==
  ASSUME NEW bin \in Bins, NEW i \in Nat, NEW c \in 0..(Cpr - 1)
  PROVE  FrameColumn(bin, i, c) \in Columns
  <1>1. Cpr \in Nat \ {0} BY CodecAssumption
  <1>2. bin.base \in Seq(Pictures) /\ bin.base # <<>> /\ bin.deg \in Int BY DEF Bins
  <1>3. Len(bin.base) \in Nat \ {0} BY <1>2
  <1>4. i % Len(bin.base) \in 0..(Len(bin.base) - 1)
    <2>1. i \in Int OBVIOUS
    <2> QED BY <1>3, <2>1, ModIs
  <1>5. bin.base[(i % Len(bin.base)) + 1] \in Pictures
    <2> DEFINE k == i % Len(bin.base)
    <2>1. k + 1 \in 1..Len(bin.base)
      <3>1. k \in 0..(Len(bin.base) - 1) BY <1>4
      <3> HIDE DEF k
      <3> QED BY <1>3, <3>1
    <2> HIDE DEF k
    <2>2. bin.base[k + 1] \in Pictures BY <1>2, <2>1
    <2> QED BY <2>2 DEF k
  <1>6. c - bin.deg * i \in Int
    <2>1. bin.deg * i \in Int BY <1>2
    <2> QED BY <1>1, <2>1
  <1>7. (c - bin.deg * i) % Cpr \in 0..(Cpr - 1) BY <1>1, <1>6, ModIs
  <1> QED BY <1>5, <1>7 DEF FrameColumn, Pictures

\* Column c of revolution i is found where it was put.
LEMMA DecodedIs ==
  ASSUME NEW bin \in Bins, NEW i \in 0..(bin.frames - 1), NEW c \in 0..(Cpr - 1)
  PROVE  Decoded(FileColumns(bin), i, c) = FrameColumn(bin, i, c)
  <1> DEFINE k == i * Cpr + c
             file == FileColumns(bin)
  <1>1. Cpr \in Nat \ {0} /\ bin.frames \in Nat \ {0} BY CodecAssumption DEF Bins
  <1>2. i \in Nat /\ i + 1 <= bin.frames /\ c \in Nat /\ c < Cpr BY <1>1
  <1>3. k \div Cpr = i /\ k % Cpr = c BY <1>1, <1>2, DivMod
  <1>4. k \in 0..(bin.frames * Cpr - 1)
    <2>1. (i + 1) * Cpr <= bin.frames * Cpr BY <1>1, <1>2
    <2>2. (i + 1) * Cpr = i * Cpr + Cpr BY <1>1, <1>2
    <2>3. i * Cpr \in Nat /\ bin.frames * Cpr \in Nat BY <1>1, <1>2
    <2> QED BY <1>1, <1>2, <2>1, <2>2, <2>3
  <1> HIDE DEF k
  <1>5. file[k] = EncodeColumn(FrameColumn(bin, k \div Cpr, k % Cpr)) BY <1>4 DEF FileColumns
  <1>6. file[k] = EncodeColumn(FrameColumn(bin, i, c)) BY <1>3, <1>5
  <1>7. FrameColumn(bin, i, c) \in Columns BY <1>2, FrameColumnIs
  <1>8. DecodeColumn(file[k]) = FrameColumn(bin, i, c) BY <1>6, <1>7, ColumnBack
  <1> QED BY <1>8 DEF Decoded, k

\* How long a file plays, in frames.
LEMMA Played == ASSUME NEW bin \in Bins PROVE DurationMs(bin) \in Nat /\ DurationMs(bin) \div FrameMs = bin.frames
  <1>1. FrameMs \in Nat \ {0} /\ bin.frames \in Nat BY CodecAssumption DEF Bins
  <1>2. (bin.frames * FrameMs + 0) \div FrameMs = bin.frames BY <1>1, DivMod
  <1>3. bin.frames * FrameMs \in Nat BY <1>1
  <1>4. bin.frames * FrameMs + 0 = bin.frames * FrameMs BY <1>3
  <1> QED BY <1>2, <1>3, <1>4 DEF DurationMs

LEMMA SizeIs == ASSUME NEW bin \in Bins PROVE FileSize(bin) \in Nat
  <1>1. bin.frames \in Nat /\ Cpr \in Nat BY CodecAssumption DEF Bins
  <1>2. ColBits \in Nat BY CodecAssumption DEF ColBits, Header
  <1>3. bin.frames * Cpr \in Nat BY <1>1
  <1>4. (bin.frames * Cpr) * ColBits \in Nat BY <1>2, <1>3
  <1> QED BY <1>4 DEF FileSize

LEMMA SeamIs == ASSUME NEW n \in Int, NEW d \in Int PROVE SeamDeg(n, d) \in Nat
  <1> DEFINE s == (n * d) % Cpr
  <1>1. Cpr \in Nat \ {0} BY CodecAssumption
  <1>2. n * d \in Int OBVIOUS
  <1>3. s \in 0..(Cpr - 1) BY <1>1, <1>2, ModIs
  <1>4. SeamDeg(n, d) = IF s <= Cpr - s THEN s ELSE Cpr - s BY DEF SeamDeg
  <1> HIDE DEF s
  <1> QED BY <1>1, <1>3, <1>4

\* What the search for a loop finds.
LEMMA AutoLoopLenIs ==
  ASSUME NEW d \in Int
  PROVE  LET n == AutoLoopLen(d) IN
           SeamDeg(n, d) <= Tol \/ \A m \in 1..Hi : SeamDeg(n, d) <= SeamDeg(m, d)
  <1> DEFINE close == {n \in 1..Hi : SeamDeg(n, d) <= Tol}
             least == {n \in 1..Hi : \A m \in 1..Hi : SeamDeg(n, d) <= SeamDeg(m, d)}
             seams == {SeamDeg(n, d) : n \in 1..Hi}
  <1>1. Hi \in Nat \ {0} BY CodecAssumption
  <1>2. AutoLoopLen(d) = Min(IF close # {} THEN close ELSE least) BY DEF AutoLoopLen
  <1>3. least # {}
    <2>1. \A n \in 1..Hi : n \in Int BY <1>1
    <2>2. \A n \in 1..Hi : SeamDeg(n, d) \in Nat BY <2>1, SeamIs
    <2>3. seams \subseteq Nat BY <2>2
    <2>4. 1 \in 1..Hi BY <1>1
    <2>5. seams # {} BY <2>4
    <2> HIDE DEF seams
    <2>6. PICK s \in seams : \A t \in seams : s <= t BY <2>3, <2>5, Least
    <2>7. PICK n \in 1..Hi : s = SeamDeg(n, d) BY <2>6 DEF seams
    <2>8. \A m \in 1..Hi : SeamDeg(n, d) <= SeamDeg(m, d) BY <2>6, <2>7 DEF seams
    <2> QED BY <2>8
  <1>4. close \subseteq Nat /\ least \subseteq Nat BY <1>1
  <1>5. CASE close # {}
    <2>1. Min(close) \in close BY <1>4, <1>5, MinIs
    <2> QED BY <1>2, <1>5, <2>1
  <1>6. CASE close = {}
    <2>1. Min(least) \in least BY <1>3, <1>4, MinIs
    <2> QED BY <1>2, <1>6, <2>1
  <1> QED BY <1>5, <1>6

-----------------------------------------------------------------------------
(***************************************************************************)
(* Names.                                                                   *)
(***************************************************************************)
\* Names on the fan have room for one letter of their own, two digits and .bin.
Roomy == CharLen + VerLen <= 17

LEMMA BudgetIs ==
  /\ Budget \in Nat
  /\ Roomy => Budget >= 7 /\ Budget = 24 - CharLen - VerLen
  <1> DEFINE b == 30 - (1 + CharLen + 1 + VerLen + 4)
  <1>1. CharLen \in Nat /\ VerLen \in Nat BY StageAssumption
  <1>2. b \in Int BY <1>1
  <1>3. Budget = Max({5, b}) BY DEF Budget
  <1> HIDE DEF b
  <1>4. Budget = IF 5 >= b THEN 5 ELSE b BY <1>2, <1>3, MaxOfTwo
  <1> QED BY <1>1, <1>4 DEF b, Roomy

\* A name cut to the budget.
LEMMA ShortenedIs ==
  ASSUME NEW n \in AnyName, NEW i \in Nat \ {0}, NEW many \in BOOLEAN
  PROVE  LET m == Shortened(n, i, many) IN
           /\ m \in AnyName /\ m.tail = NoTail
           /\ m.index = IF many THEN i - 1 ELSE NoIndex
           /\ Roomy => m.len <= Budget
  <1> DEFINE ext == IF n.ext THEN 4 ELSE 0
             digits == IF many THEN 2 ELSE 0
             room == Max({1, Budget - ext - digits})
             kept == Min({n.len - ext, room})
             index == IF many THEN i - 1 ELSE NoIndex
             m == Shortened(n, i, many)
  <1>1. n.len \in Nat /\ n.ext \in BOOLEAN BY DEF AnyName
  <1>2. ext \in {0, 4} /\ digits \in {0, 2} BY <1>1
  <1>3. m = [n EXCEPT !.tail = NoTail, !.index = index, !.len = kept + digits + ext]
    BY DEF Shortened
  <1>4. index \in Nat \cup {NoIndex} OBVIOUS
  <1> HIDE DEF ext, digits, index
  <1>5. Budget - ext - digits \in Int BY <1>2, BudgetIs
  <1>6. room = IF 1 >= Budget - ext - digits THEN 1 ELSE Budget - ext - digits BY <1>5, MaxOfTwo
  <1>7. room \in Int /\ room >= 1 BY <1>5, <1>6
  <1>8. Roomy => room = Budget - ext - digits
    <2>1. Roomy => Budget - ext - digits >= 1 BY <1>2, BudgetIs
    <2> HIDE DEF room
    <2> QED BY <1>5, <1>6, <2>1
  <1> HIDE DEF room
  <1>9. kept = IF n.len - ext <= room THEN n.len - ext ELSE room BY <1>1, <1>2, <1>7, MinOfTwo
  <1>10. kept \in Int /\ kept + ext >= 0 /\ kept <= room BY <1>1, <1>2, <1>7, <1>9
  <1> HIDE DEF kept
  <1>11. kept + digits + ext \in Nat BY <1>2, <1>10
  <1>12. Roomy => kept + digits + ext <= Budget BY <1>2, <1>7, <1>8, <1>10, BudgetIs
  <1> DEFINE len == kept + digits + ext
  <1> HIDE DEF len, m
  <1>13. m = [n EXCEPT !.tail = NoTail, !.index = index, !.len = len] BY <1>3 DEF len
  <1>14. len \in Nat BY <1>11 DEF len
  <1>15. m \in AnyName /\ m.tail = NoTail /\ m.index = index /\ m.len = len
    BY <1>4, <1>13, <1>14 DEF AnyName
  <1>16. Roomy => m.len <= Budget BY <1>12, <1>15 DEF len
  <1> QED BY <1>15, <1>16 DEF m, index

-----------------------------------------------------------------------------
(***************************************************************************)
(* Manifests and bytes.                                                     *)
(***************************************************************************)
\* What stands in a zip, in a manifest and in the table of bytes.
Packed == [folder : Nat, name : Names, bin : Encodings]
Zips == Seq(Packed) \ {<<>>}
Anim == [name : AnyName, size : Nat, duration : Nat]
Durations(sc) == \A n \in DOMAIN sc : sc[n] \in Nat
Table(b) == DOMAIN b \subseteq AnyName /\ \A n \in DOMAIN b : b[n] \in Encodings

LEMMA LastOfIs ==
  ASSUME NEW z \in Zips, NEW is, is \subseteq DOMAIN z, is # {}
  PROVE  Max(is) \in is /\ LastOf(z, is) = z[Max(is)] /\ LastOf(z, is) \in Packed
  <1>1. z \in Seq(Packed) BY DEF Zips
  <1>2. Len(z) \in Nat /\ is \subseteq 1..Len(z) BY <1>1
  <1>3. Max(is) \in is BY <1>2, MaxIs
  <1> QED BY <1>1, <1>2, <1>3 DEF LastOf

LEMMA AtPathIs ==
  ASSUME NEW z \in Zips, NEW i \in DOMAIN z
  PROVE  AtPath(z, z[i]) \in Encodings
  <1> DEFINE is == {j \in DOMAIN z : z[j].folder = z[i].folder /\ z[j].name = z[i].name}
  <1>1. is \subseteq DOMAIN z /\ is # {} OBVIOUS
  <1>2. AtPath(z, z[i]) = LastOf(z, is).bin BY DEF AtPath
  <1> HIDE DEF is
  <1>3. LastOf(z, is) \in Packed BY <1>1, LastOfIs
  <1> QED BY <1>2, <1>3 DEF Packed

\* The manifest of a zip is as long as the zip.
LEMMA ManifestIs ==
  ASSUME NEW z \in Zips, NEW sc, Durations(sc)
  PROVE  /\ Manifest(z, sc) \in Seq(Anim) /\ Len(Manifest(z, sc)) = Len(z)
         /\ \A i \in 1..Len(z) :
              /\ Manifest(z, sc)[i].name = z[i].name
              /\ Manifest(z, sc)[i].size = FileSize(AtPath(z, z[i]))
              /\ Manifest(z, sc)[i].duration =
                   IF z[i].name \in DOMAIN sc THEN sc[z[i].name] ELSE DefaultMs
  <1> DEFINE dur(i) == IF z[i].name \in DOMAIN sc THEN sc[z[i].name] ELSE DefaultMs
             size(i) == FileSize(AtPath(z, z[i]))
             m == Manifest(z, sc)
  <1>1. z \in Seq(Packed) /\ Len(z) \in Nat /\ DOMAIN z = 1..Len(z) BY DEF Zips
  <1>2. \A i \in 1..Len(z) : dur(i) \in Nat BY DEF DefaultMs, Durations
  <1>3. \A i \in 1..Len(z) : size(i) \in Nat
    <2>1. \A i \in 1..Len(z) : AtPath(z, z[i]) \in Bins BY <1>1, AtPathIs, PushAssumption
    <2> QED BY <2>1, SizeIs
  <1>4. \A i \in 1..Len(z) : z[i].name \in AnyName
    <2>1. \A i \in 1..Len(z) : z[i] \in Packed BY <1>1
    <2>2. \A e \in Packed : e.name \in AnyName BY StageAssumption DEF Packed
    <2> QED BY <2>1, <2>2
  <1>5. m = [i \in 1..Len(z) |-> [name |-> z[i].name, size |-> size(i), duration |-> dur(i)]]
    BY <1>1 DEF Manifest
  <1> HIDE DEF dur, size, m
  <1>6. \A i \in 1..Len(z) : m[i] = [name |-> z[i].name, size |-> size(i), duration |-> dur(i)]
    BY <1>5
  <1>7. \A i \in 1..Len(z) : m[i] \in Anim
    <2>1. \A n \in AnyName, s \in Nat, d \in Nat : [name |-> n, size |-> s, duration |-> d] \in Anim
      BY DEF Anim
    <2> QED BY <1>2, <1>3, <1>4, <1>6, <2>1
  <1>8. m \in [1..Len(z) -> Anim] BY <1>5, <1>7
  <1>9. m \in Seq(Anim) /\ Len(m) = Len(z) BY <1>1, <1>8
  <1>10. ASSUME NEW i \in 1..Len(z)
         PROVE  m[i].name = z[i].name /\ m[i].size = size(i) /\ m[i].duration = dur(i)
    <2> DEFINE n == z[i].name
               s == size(i)
               d == dur(i)
               a == m[i]
    <2>1. a = [name |-> n, size |-> s, duration |-> d] BY <1>6
    <2> HIDE DEF n, s, d, a
    <2>2. a.name = n /\ a.size = s /\ a.duration = d BY <2>1
    <2> QED BY <2>2 DEF n, s, d, a
  <1> QED BY <1>9, <1>10 DEF m, dur, size

\* The bytes of a zip are under the names of its entries, no more than it has.
LEMMA BytesOfIs ==
  ASSUME NEW z \in Zips
  PROVE  /\ Table(BytesOf(z))
         /\ IsFiniteSet(DOMAIN BytesOf(z)) /\ Cardinality(DOMAIN BytesOf(z)) <= Len(z)
  <1> DEFINE N == {z[i].name : i \in DOMAIN z}
             f == [i \in 1..Len(z) |-> z[i].name]
             b == BytesOf(z)
             at(n) == {i \in DOMAIN z : z[i].name = n}
  <1>1. z \in Seq(Packed) /\ Len(z) \in Nat /\ DOMAIN z = 1..Len(z) BY DEF Zips
  <1>2. b = [n \in N |-> LastOf(z, at(n)).bin] BY DEF BytesOf
  <1>3. ASSUME NEW n \in N PROVE n \in AnyName /\ b[n] \in Encodings
    <2>1. PICK i \in DOMAIN z : n = z[i].name OBVIOUS
    <2>2. at(n) # {} /\ at(n) \subseteq DOMAIN z BY <2>1
    <2> HIDE DEF at, b
    <2>3. LastOf(z, at(n)) \in Packed BY <2>2, LastOfIs
    <2>4. z[i] \in Packed BY <1>1, <2>1
    <2> QED BY <1>2, <2>1, <2>3, <2>4, StageAssumption DEF Packed
  <1>4. f \in Surjection(1..Len(z), N) BY <1>1 DEF Surjection
  <1>5. IsFiniteSet(1..Len(z)) /\ Cardinality(1..Len(z)) = Len(z)
    <2>1. 1 \in Int /\ Len(z) \in Int BY <1>1
    <2>2. /\ IsFiniteSet(1..Len(z))
          /\ Cardinality(1..Len(z)) = IF 1 > Len(z) THEN 0 ELSE Len(z) - 1 + 1
      BY <2>1, FS_Interval
    <2> QED BY <1>1, <2>2
  <1> HIDE DEF f
  <1>6. IsFiniteSet(N) /\ Cardinality(N) <= Len(z) BY <1>4, <1>5, FS_Surjection
  <1> HIDE DEF at, N
  <1>7. DOMAIN b = N BY <1>2
  <1> HIDE DEF b
  <1> QED BY <1>3, <1>6, <1>7 DEF b, Table

\* Bytes moved from one name to another.
LEMMA MovedIs ==
  ASSUME NEW b, Table(b), IsFiniteSet(DOMAIN b), NEW old \in DOMAIN b, NEW new \in AnyName
  PROVE  /\ DOMAIN Moved(b, old, new) = (DOMAIN b \ {old}) \cup {new}
         /\ Moved(b, old, new)[new] = b[old]
         /\ \A m \in DOMAIN b \ {old, new} : Moved(b, old, new)[m] = b[m]
         /\ Table(Moved(b, old, new))
         /\ IsFiniteSet(DOMAIN Moved(b, old, new))
         /\ Cardinality(DOMAIN Moved(b, old, new)) <= Cardinality(DOMAIN b)
  <1> DEFINE D == DOMAIN b
             M == Moved(b, old, new)
  <1>1. DOMAIN M = (D \ {old}) \cup {new} BY DEF Moved
  <1>2. M[new] = b[old] /\ \A m \in D \ {old, new} : M[m] = b[m] BY DEF Moved
  <1> HIDE DEF M
  <1>3. Table(M) BY <1>1, <1>2 DEF Table
  <1> HIDE DEF D
  <1>4. IsFiniteSet(D) /\ old \in D BY DEF D
  <1>5. IsFiniteSet(D \ {old}) /\ Cardinality(D \ {old}) = Cardinality(D) - 1
    BY <1>4, FS_RemoveElement
  <1>6. /\ IsFiniteSet((D \ {old}) \cup {new})
        /\ Cardinality((D \ {old}) \cup {new}) <= Cardinality(D)
    <2>1. Cardinality(D) \in Nat BY <1>4, FS_CardinalityType
    <2>2. /\ IsFiniteSet((D \ {old}) \cup {new})
          /\ Cardinality((D \ {old}) \cup {new}) =
               IF new \in D \ {old} THEN Cardinality(D \ {old}) ELSE Cardinality(D \ {old}) + 1
      BY <1>5, FS_AddElement
    <2> QED BY <1>5, <2>1, <2>2
  <1> QED BY <1>1, <1>2, <1>3, <1>6 DEF M, D

-----------------------------------------------------------------------------
(***************************************************************************)
(* Both rewritings.                                                         *)
(***************************************************************************)
\* What both rewritings leave of a manifest: its length, sizes and durations.
Rewritten(s, anims, c) ==
  /\ s \in [anims : Seq(Anim), bytes : {s.bytes}, ok : BOOLEAN] /\ Len(s.anims) = Len(anims)
  /\ \A j \in 1..Len(anims) :
       /\ s.anims[j].size = anims[j].size /\ s.anims[j].duration = anims[j].duration
       /\ s.anims[j].name \in Names \/ s.anims[j].name.tail = NoTail
  /\ Table(s.bytes) /\ IsFiniteSet(DOMAIN s.bytes) /\ Cardinality(DOMAIN s.bytes) <= c

\* One entry of a manifest under another name.
LEMMA Renamed ==
  ASSUME NEW A \in Seq(Anim), NEW i \in 1..Len(A), NEW new \in AnyName
  PROVE  LET R == [A EXCEPT ![i].name = new] IN
           /\ R \in Seq(Anim) /\ Len(R) = Len(A) /\ R[i].name = new
           /\ \A j \in 1..Len(A) : /\ R[j].size = A[j].size /\ R[j].duration = A[j].duration
                                   /\ j # i => R[j] = A[j]
  <1> DEFINE e == [A[i] EXCEPT !.name = new]
             R == [A EXCEPT ![i] = e]
  <1>1. A[i] \in Anim /\ A \in [1..Len(A) -> Anim] OBVIOUS
  <1>2. e \in Anim /\ e.name = new /\ e.size = A[i].size /\ e.duration = A[i].duration
    BY <1>1 DEF Anim
  <1> HIDE DEF e
  <1>3. R \in Seq(Anim) /\ Len(R) = Len(A) BY <1>1, <1>2
  <1>4. R[i] = e /\ \A j \in 1..Len(A) : j # i => R[j] = A[j] BY <1>1
  <1>5. [A EXCEPT ![i].name = new] = R BY DEF e
  <1> HIDE DEF R
  <1> QED BY <1>2, <1>3, <1>4, <1>5

\* One turn of the loop, case by case.
LEMMA FitIs ==
  ASSUME NEW s, NEW anims, NEW c, Rewritten(s, anims, c), NEW i \in 1..Len(anims)
  PROVE  LET old == s.anims[i].name
             new == Shortened(old, i, Len(anims) > 1)
         IN  /\ old \in AnyName /\ new \in AnyName
             /\ ~s.ok \/ old.len <= Budget => Fit(s, i) = s
             /\ s.ok /\ ~(old.len <= Budget) /\ old \notin DOMAIN s.bytes =>
                  Fit(s, i) \in [anims : {s.anims}, bytes : {s.bytes}, ok : {FALSE}]
             /\ s.ok /\ ~(old.len <= Budget) /\ old \in DOMAIN s.bytes =>
                  Fit(s, i) \in [anims : {[s.anims EXCEPT ![i].name = new]},
                                 bytes : {Moved(s.bytes, old, new)}, ok : {s.ok}]
  <1> DEFINE A == s.anims
             old == A[i].name
             new == Shortened(old, i, Len(anims) > 1)
  <1>1. A \in Seq(Anim) /\ Len(A) = Len(anims) BY DEF Rewritten
  <1>2. A[i] \in Anim BY <1>1
  <1>3. old \in AnyName BY <1>2 DEF Anim
  <1>4. new \in AnyName
    <2>1. i \in Nat \ {0} /\ (Len(anims) > 1) \in BOOLEAN BY <1>1
    <2> QED BY <1>3, <2>1, ShortenedIs
  <1>5. Fit(s, i) = IF ~s.ok \/ old.len <= Budget THEN s
                    ELSE IF old \notin DOMAIN s.bytes THEN [s EXCEPT !.ok = FALSE]
                    ELSE [s EXCEPT !.anims = [@ EXCEPT ![i].name = new],
                                   !.bytes = Moved(@, old, new)]
    BY <1>1, Zenon DEF Fit
  <1>6. s \in [anims : Seq(Anim), bytes : {s.bytes}, ok : BOOLEAN] BY DEF Rewritten
  <1>7. [s EXCEPT !.ok = FALSE] \in [anims : {s.anims}, bytes : {s.bytes}, ok : {FALSE}] BY <1>6
  <1>8. ASSUME NEW a, NEW b
        PROVE  [s EXCEPT !.anims = a, !.bytes = b] \in [anims : {a}, bytes : {b}, ok : {s.ok}]
    BY <1>6
  <1> HIDE DEF old, new
  <1>9. [s EXCEPT !.anims = [@ EXCEPT ![i].name = new], !.bytes = Moved(@, old, new)]
        \in [anims : {[A EXCEPT ![i].name = new]}, bytes : {Moved(s.bytes, old, new)}, ok : {s.ok}]
    <2>1. [s EXCEPT !.anims = [@ EXCEPT ![i].name = new], !.bytes = Moved(@, old, new)]
          = [s EXCEPT !.anims = [s.anims EXCEPT ![i].name = new],
                      !.bytes = Moved(s.bytes, old, new)]
      BY <1>6
    <2> QED BY <1>8, <2>1
  <1> QED BY <1>3, <1>4, <1>5, <1>7, <1>9 DEF old, new

\* A stage with one entry renamed, and its bytes where there are any.
LEMMA RenamedKeeps ==
  ASSUME NEW s, NEW anims, NEW c, Rewritten(s, anims, c), NEW i \in 1..Len(anims),
         c \in Nat,
         NEW new \in AnyName, new \in Names \/ new.tail = NoTail,
         NEW bytes, \/ bytes = s.bytes
                    \/ /\ s.anims[i].name \in DOMAIN s.bytes
                       /\ bytes = Moved(s.bytes, s.anims[i].name, new),
         NEW t \in [anims : {[s.anims EXCEPT ![i].name = new]}, bytes : {bytes}, ok : {s.ok}]
  PROVE  Rewritten(t, anims, c)
  <1> DEFINE A == s.anims
             R == [A EXCEPT ![i].name = new]
  <1>1. A \in Seq(Anim) /\ Len(A) = Len(anims) /\ s.ok \in BOOLEAN BY DEF Rewritten
  <1>2. /\ R \in Seq(Anim) /\ Len(R) = Len(A) /\ R[i].name = new
        /\ \A j \in 1..Len(A) : /\ R[j].size = A[j].size /\ R[j].duration = A[j].duration
                                /\ j # i => R[j] = A[j]
    <2>1. i \in 1..Len(A) BY <1>1
    <2> HIDE DEF A
    <2> QED BY <1>1, <2>1, Renamed
  <1> HIDE DEF R
  <1>3. \A j \in 1..Len(anims) :
          /\ R[j].size = anims[j].size /\ R[j].duration = anims[j].duration
          /\ R[j].name \in Names \/ R[j].name.tail = NoTail
    BY <1>1, <1>2 DEF Rewritten
  <1>4. Table(bytes) /\ IsFiniteSet(DOMAIN bytes) /\ Cardinality(DOMAIN bytes) <= c
    <2>1. Table(s.bytes) /\ IsFiniteSet(DOMAIN s.bytes) /\ Cardinality(DOMAIN s.bytes) <= c
      BY DEF Rewritten
    <2>2. CASE bytes = s.bytes BY <2>1, <2>2
    <2>3. CASE A[i].name \in DOMAIN s.bytes /\ bytes = Moved(s.bytes, A[i].name, new)
      <3> DEFINE old == A[i].name
                 b == s.bytes
      <3> HIDE DEF old, b
      <3>1. Table(b) /\ IsFiniteSet(DOMAIN b) /\ old \in DOMAIN b BY <2>1, <2>3 DEF b, old
      <3>2. /\ Table(Moved(b, old, new)) /\ IsFiniteSet(DOMAIN Moved(b, old, new))
            /\ Cardinality(DOMAIN Moved(b, old, new)) <= Cardinality(DOMAIN b)
        BY <3>1, MovedIs
      <3>3. bytes = Moved(b, old, new) /\ Cardinality(DOMAIN b) <= c BY <2>1, <2>3 DEF b, old
      <3>4. Cardinality(DOMAIN b) \in Nat /\ Cardinality(DOMAIN bytes) \in Nat
        BY <3>1, <3>2, <3>3, FS_CardinalityType
      <3> QED BY <3>2, <3>3, <3>4
    <2> QED BY <2>2, <2>3
  <1>5. t.anims = R /\ t.bytes = bytes /\ t.ok = s.ok BY DEF R
  <1>6. t \in [anims : Seq(Anim), bytes : {t.bytes}, ok : BOOLEAN] BY <1>1, <1>2, <1>5
  <1> QED BY <1>1, <1>2, <1>3, <1>4, <1>5, <1>6 DEF Rewritten

LEMMA FitKeeps ==
  ASSUME NEW s, NEW anims, NEW c \in Nat, Rewritten(s, anims, c), NEW i \in 1..Len(anims)
  PROVE  Rewritten(Fit(s, i), anims, c)
  <1> DEFINE old == s.anims[i].name
             new == Shortened(old, i, Len(anims) > 1)
  <1>0. s.anims \in Seq(Anim) /\ Len(s.anims) = Len(anims) /\ s.ok \in BOOLEAN BY DEF Rewritten
  <1>1. /\ old \in AnyName /\ new \in AnyName
        /\ ~s.ok \/ old.len <= Budget => Fit(s, i) = s
        /\ s.ok /\ ~(old.len <= Budget) /\ old \notin DOMAIN s.bytes =>
             Fit(s, i) \in [anims : {s.anims}, bytes : {s.bytes}, ok : {FALSE}]
        /\ s.ok /\ ~(old.len <= Budget) /\ old \in DOMAIN s.bytes =>
             Fit(s, i) \in [anims : {[s.anims EXCEPT ![i].name = new]},
                            bytes : {Moved(s.bytes, old, new)}, ok : {s.ok}]
    BY FitIs
  <1>2. new.tail = NoTail
    <2>1. i \in Nat \ {0} /\ (Len(anims) > 1) \in BOOLEAN BY <1>0
    <2> QED BY <1>1, <2>1, ShortenedIs
  <1> HIDE DEF new
  <1>3. CASE ~s.ok \/ old.len <= Budget BY <1>1, <1>3
  <1>4. CASE s.ok /\ ~(old.len <= Budget) /\ old \notin DOMAIN s.bytes
    <2>1. Fit(s, i) \in [anims : {s.anims}, bytes : {s.bytes}, ok : {FALSE}] BY <1>1, <1>4
    <2> QED BY <2>1 DEF Rewritten
  <1>5. CASE s.ok /\ ~(old.len <= Budget) /\ old \in DOMAIN s.bytes
    <2>1. Fit(s, i) \in [anims : {[s.anims EXCEPT ![i].name = new]},
                         bytes : {Moved(s.bytes, old, new)}, ok : {s.ok}]
      BY <1>1, <1>5
    <2> QED BY <1>1, <1>2, <1>5, <2>1, RenamedKeeps
  <1> QED BY <1>0, <1>3, <1>4, <1>5

\* What --anim-as makes of a stage.
Named(anims, bytes, a) ==
  LET s == [anims |-> anims, bytes |-> bytes, ok |-> TRUE]
  IN  IF a = {} THEN s ELSE RenamedAs(s, CHOOSE n \in a : TRUE)

\* The stages of a loop of j turns.
Turns(named, j, f) == f = [i \in 0..j |-> IF i = 0 THEN named ELSE Fit(f[i - 1], i)]

\* There are such stages.
LEMMA TurnsExist == ASSUME NEW named PROVE \A j \in Nat : \E f : Turns(named, j, f)
  <1> DEFINE T == {j \in Nat : ~\E f : Turns(named, j, f)}
  <1> SUFFICES ASSUME T # {} PROVE FALSE OBVIOUS
  <1>1. T \subseteq Nat OBVIOUS
  <1> HIDE DEF T
  <1>2. PICK j \in T : \A m \in T : j <= m BY <1>1, Least
  <1>3. j \in Nat /\ ~\E f : Turns(named, j, f) BY <1>2 DEF T
  <1>4. CASE j = 0
    <2> DEFINE f == [i \in 0..j |-> named]
    <2>1. \A i \in 0..j : f[i] = IF i = 0 THEN named ELSE Fit(f[i - 1], i) BY <1>4
    <2>2. f = [i \in 0..j |-> f[i]] OBVIOUS
    <2> HIDE DEF f
    <2>3. f = [i \in 0..j |-> IF i = 0 THEN named ELSE Fit(f[i - 1], i)] BY <2>1, <2>2
    <2> QED BY <1>3, <2>3 DEF Turns
  <1>5. CASE j # 0
    <2>1. j - 1 \in Nat /\ ~(j <= j - 1) BY <1>3, <1>5
    <2>2. j - 1 \notin T BY <1>2, <2>1
    <2>3. PICK less : Turns(named, j - 1, less) BY <2>1, <2>2 DEF T
    <2>4. \A i \in 0..(j - 1) : less[i] = IF i = 0 THEN named ELSE Fit(less[i - 1], i)
      BY <2>3 DEF Turns
    <2> DEFINE f == [i \in 0..j |-> IF i = j THEN Fit(less[j - 1], j) ELSE less[i]]
    <2>5. ASSUME NEW i \in 0..j
          PROVE  f[i] = IF i = 0 THEN named ELSE Fit(f[i - 1], i)
      <3>1. i = 0 => i # j BY <1>5
      <3>2. CASE i = j
        <4>1. j - 1 \in 0..j /\ j - 1 # j BY <1>3, <1>5
        <4> QED BY <1>5, <3>2, <4>1
      <3>3. CASE i # j
        <4>1. i \in 0..(j - 1) BY <1>3, <3>3
        <4>2. i # 0 => i - 1 \in 0..j /\ i - 1 # j BY <1>3
        <4> QED BY <2>4, <3>3, <4>1, <4>2
      <3> QED BY <3>2, <3>3
    <2>6. f = [i \in 0..j |-> f[i]] OBVIOUS
    <2> HIDE DEF f
    <2>7. f = [i \in 0..j |-> IF i = 0 THEN named ELSE Fit(f[i - 1], i)] BY <2>5, <2>6
    <2> QED BY <1>3, <2>7 DEF Turns
  <1> QED BY <1>4, <1>5

\* What is staged is the last of them.
LEMMA StagedIs ==
  ASSUME NEW anims \in Seq(Anim), NEW bytes, NEW a
  PROVE  \E f : /\ Turns(Named(anims, bytes, a), Len(anims), f)
                /\ Staged(anims, bytes, a) = f[Len(anims)]
  <1> DEFINE named == Named(anims, bytes, a)
             fitted == CHOOSE f : f = [i \in 0..Len(anims) |->
                                         IF i = 0 THEN named ELSE Fit(f[i - 1], i)]
  <1>1. Staged(anims, bytes, a) = fitted[Len(anims)] BY Zenon DEF Staged, Named
  <1>2. Len(anims) \in Nat OBVIOUS
  <1>3. \E f : Turns(named, Len(anims), f) BY <1>2, TurnsExist
  <1>4. fitted = [i \in 0..Len(anims) |-> IF i = 0 THEN named ELSE Fit(fitted[i - 1], i)]
    BY <1>3 DEF Turns
  <1> HIDE DEF fitted, named
  <1>5. Turns(named, Len(anims), fitted) BY <1>4 DEF Turns
  <1> QED BY <1>1, <1>5 DEF named

\* --anim-as is one turn of its own.
LEMMA NamedIs ==
  ASSUME NEW anims \in Seq(Anim), Len(anims) \in Nat \ {0}, NEW bytes, NEW a, a # {}
  PROVE  LET old == anims[1].name
             new == CHOOSE n \in a : TRUE
         IN  Named(anims, bytes, a) \in
               [anims : {[anims EXCEPT ![1].name = new]},
                bytes : {IF old \in DOMAIN bytes THEN Moved(bytes, old, new) ELSE bytes}, ok : {TRUE}]
  <1> DEFINE old == anims[1].name
             new == CHOOSE n \in a : TRUE
             s == [anims |-> anims, bytes |-> bytes, ok |-> TRUE]
             R == [anims EXCEPT ![1].name = new]
             B == IF old \in DOMAIN bytes THEN Moved(bytes, old, new) ELSE bytes
  <1>1. Named(anims, bytes, a) = RenamedAs(s, new) BY Zenon DEF Named
  <1>2. s \in [anims : {anims}, bytes : {bytes}, ok : {TRUE}] OBVIOUS
  <1> HIDE DEF s, new
  <1>3. RenamedAs(s, new) = [s EXCEPT !.anims = R, !.bytes = B]
    <2>1. RenamedAs(s, new) =
            [s EXCEPT !.anims = [@ EXCEPT ![1].name = new],
                      !.bytes = IF s.anims[1].name \in DOMAIN @ THEN Moved(@, s.anims[1].name, new)
                                ELSE @]
      BY DEF RenamedAs
    <2>2. s.anims = anims /\ s.bytes = bytes BY <1>2
    <2> QED BY <2>1, <2>2
  <1> HIDE DEF R, B
  <1>4. [s EXCEPT !.anims = R, !.bytes = B] \in [anims : {R}, bytes : {B}, ok : {TRUE}] BY <1>2
  <1> QED BY <1>1, <1>3, <1>4 DEF R, B, new

\* A manifest and bytes before they are rewritten.
Unwritten(anims, bytes, c) ==
  /\ anims \in Seq(Anim) /\ Len(anims) \in Nat \ {0} /\ c \in Nat
  /\ \A i \in 1..Len(anims) : anims[i].name \in Names
  /\ Table(bytes) /\ IsFiniteSet(DOMAIN bytes) /\ Cardinality(DOMAIN bytes) <= c

LEMMA NamedKeeps ==
  ASSUME NEW anims, NEW bytes, NEW c, Unwritten(anims, bytes, c), NEW a \in SUBSET Names
  PROVE  Rewritten(Named(anims, bytes, a), anims, c)
  <1> DEFINE s == [anims |-> anims, bytes |-> bytes, ok |-> TRUE]
  <1>1. anims \in Seq(Anim) /\ Len(anims) \in Nat \ {0} /\ c \in Nat BY DEF Unwritten
  <1>2. Rewritten(s, anims, c)
    <2>1. s.anims = anims /\ s.bytes = bytes /\ s.ok = TRUE OBVIOUS
    <2>2. s \in [anims : Seq(Anim), bytes : {s.bytes}, ok : BOOLEAN] BY <1>1
    <2> HIDE DEF s
    <2> QED BY <2>1, <2>2 DEF Unwritten, Rewritten
  <1>3. CASE a = {}
    <2>1. Named(anims, bytes, a) = s BY <1>3, Zenon DEF Named
    <2> QED BY <1>2, <2>1
  <1>4. CASE a # {}
    <2> DEFINE new == CHOOSE n \in a : TRUE
               old == anims[1].name
               B == IF old \in DOMAIN bytes THEN Moved(bytes, old, new) ELSE bytes
               t == Named(anims, bytes, a)
    <2>1. new \in Names BY <1>4
    <2>2. t \in [anims : {[anims EXCEPT ![1].name = new]}, bytes : {B}, ok : {TRUE}]
      BY <1>1, <1>4, NamedIs
    <2>3. s.anims = anims /\ s.bytes = bytes /\ s.ok = TRUE OBVIOUS
    <2>4. B = bytes \/ (old \in DOMAIN bytes /\ B = Moved(bytes, old, new)) OBVIOUS
    <2>5. 1 \in 1..Len(anims) BY <1>1
    <2> HIDE DEF s, new, t, B
    <2>6. new \in AnyName BY <2>1, StageAssumption
    <2>7. t \in [anims : {[s.anims EXCEPT ![1].name = new]}, bytes : {B}, ok : {s.ok}]
      BY <2>2, <2>3
    <2>8. B = s.bytes \/ (s.anims[1].name \in DOMAIN s.bytes /\ B = Moved(s.bytes, s.anims[1].name, new))
      BY <2>3, <2>4
    <2>9. Rewritten(t, anims, c) BY <1>1, <1>2, <2>1, <2>5, <2>6, <2>7, <2>8, RenamedKeeps
    <2> QED BY <2>9 DEF t
  <1> QED BY <1>3, <1>4

LEMMA TurnsKeep ==
  ASSUME NEW anims, NEW bytes, NEW c, Unwritten(anims, bytes, c), NEW a \in SUBSET Names,
         NEW f, Turns(Named(anims, bytes, a), Len(anims), f)
  PROVE  \A n \in 0..Len(anims) : Rewritten(f[n], anims, c)
  <1> DEFINE T == {n \in 0..Len(anims) : ~Rewritten(f[n], anims, c)}
  <1> SUFFICES ASSUME T # {} PROVE FALSE OBVIOUS
  <1>0. Len(anims) \in Nat /\ c \in Nat BY DEF Unwritten
  <1>1. T \subseteq Nat BY <1>0
  <1> HIDE DEF T
  <1>2. PICK n \in T : \A m \in T : n <= m BY <1>1, Least
  <1>3. n \in 0..Len(anims) /\ ~Rewritten(f[n], anims, c) BY <1>2 DEF T
  <1>4. f[n] = IF n = 0 THEN Named(anims, bytes, a) ELSE Fit(f[n - 1], n) BY <1>3 DEF Turns
  <1>5. CASE n = 0 BY <1>3, <1>4, <1>5, NamedKeeps
  <1>6. CASE n # 0
    <2>1. n - 1 \in 0..Len(anims) /\ ~(n <= n - 1) /\ n \in 1..Len(anims) BY <1>0, <1>3, <1>6
    <2>2. n - 1 \notin T BY <1>2, <2>1
    <2>3. Rewritten(f[n - 1], anims, c) BY <2>1, <2>2 DEF T
    <2>4. Rewritten(Fit(f[n - 1], n), anims, c) BY <1>0, <2>1, <2>3, FitKeeps
    <2> QED BY <1>3, <1>4, <1>6, <2>4
  <1> QED BY <1>5, <1>6

LEMMA StagedKeeps ==
  ASSUME NEW anims, NEW bytes, NEW c, Unwritten(anims, bytes, c), NEW a \in SUBSET Names
  PROVE  Rewritten(Staged(anims, bytes, a), anims, c)
  <1>1. anims \in Seq(Anim) /\ Len(anims) \in Nat BY DEF Unwritten
  <1>2. PICK f : /\ Turns(Named(anims, bytes, a), Len(anims), f)
                 /\ Staged(anims, bytes, a) = f[Len(anims)]
    BY <1>1, StagedIs
  <1>3. Len(anims) \in 0..Len(anims) BY <1>1
  <1> QED BY <1>2, <1>3, TurnsKeep

\* What a zip and its durations give is such a manifest, with such bytes.
LEMMA ZipUnwritten ==
  ASSUME NEW y \in Zips, NEW sc, Durations(sc), NEW z \in Zips
  PROVE  Unwritten(Manifest(y, sc), BytesOf(z), Len(z))
  <1>1. y \in Seq(Packed) /\ y # <<>> /\ z \in Seq(Packed) BY DEF Zips
  <1>2. Len(y) \in Nat \ {0} /\ Len(z) \in Nat BY <1>1
  <1>3. \A i \in 1..Len(y) : y[i].name \in Names
    <2>1. \A i \in 1..Len(y) : y[i] \in Packed BY <1>1
    <2>2. \A e \in Packed : e.name \in Names BY DEF Packed
    <2> QED BY <2>1, <2>2
  <1> QED BY <1>2, <1>3, ManifestIs, BytesOfIs DEF Unwritten

-----------------------------------------------------------------------------
(***************************************************************************)
(* The files, the server and its certificate.                               *)
(***************************************************************************)
\* The zip of sources, and the durations that belong to a zip.
ZipOf(pack) ==
  [i \in DOMAIN pack |-> [folder |-> pack[i][1], name |-> pack[i][2], bin |-> bins[pack[i]]]]
SidecarOf(z) == [n \in {z[i].name : i \in DOMAIN z} |-> DurationMs(z[1].bin)]

\* While a pack is made its sources stay, and nothing is paired; once it is made
\* to the end, the durations are those of its first file.
Making(pack) ==
  /\ packing = <<pack, told[pack[1]]>> /\ ~paired
  /\ \A i \in DOMAIN pack : bins[pack[i]] # NoFile
  /\ Pack => zip = ZipOf(pack)

FilesInv ==
  /\ bins \in [Sources -> Encodings \cup {NoFile}] /\ told \in [Sources -> Nat]
  /\ \A s \in Sources : bins[s] # NoFile => told[s] = DurationMs(bins[s])
  /\ Pack => zip \in Zips
  /\ sidecar \in {NoFile, Torn} \/ Durations(sidecar)
  /\ packing # <<>> => \E pack \in Packs : Making(pack)
  /\ paired \in BOOLEAN /\ (paired => Pack /\ sidecar = SidecarOf(zip))

\* What the server has: nothing, a manifest, or all of it.
Bare == read = NoRead /\ st = NoStage
Told(sc) == Durations(sc) /\ (read.paired => sc = SidecarOf(read.manifest))
Began(sc) ==
  /\ read.manifest \in Zips /\ read.bytes = <<>> /\ Told(sc)
  /\ st = [NoStage EXCEPT !.anims = Manifest(read.manifest, sc)]
Done(sc) ==
  /\ read.manifest \in Zips /\ read.bytes \in Zips /\ Told(sc)
  /\ st = Staged(Manifest(read.manifest, sc), BytesOf(read.bytes), as)

ServerInv ==
  /\ pc \in {"down", "bytes", "cert", "key", "certfile", "load", "listening"}
  /\ as \in AsNames
  /\ read \in [manifest : Seq(Packed), bytes : Seq(Packed), paired : BOOLEAN]
  /\ \/ pc # "bytes" /\ Bare
     \/ pc \in {"bytes", "down"} /\ \E sc : Began(sc)
     \/ pc # "bytes" /\ \E sc : Done(sc)

CertInv ==
  /\ key \in Generations \cup {NoFile, Torn} /\ cert \in Generations \cup {NoFile, Torn}
  /\ cut \in BOOLEAN /\ user \in 0..MaxUser /\ stops \in 0..MaxStops

IInv == FilesInv /\ ServerInv /\ CertInv

\* The sources of a pack are files, and their zip holds what they hold.
LEMMA ZipOfIs ==
  ASSUME FilesInv, NEW pack \in Packs, \A i \in DOMAIN pack : bins[pack[i]] # NoFile
  PROVE  /\ pack[1] \in Sources /\ bins[pack[1]] \in Encodings
         /\ ZipOf(pack) \in Zips /\ ZipOf(pack)[1].bin = bins[pack[1]]
  <1>1. pack \in Seq(Sources) /\ Len(pack) \in Nat \ {0}
    <2>1. Len(pack) \in 1..100 BY PushAssumption DEF MaxFiles
    <2>2. pack \in Seq(Sources) BY PushAssumption
    <2> DEFINE l == Len(pack)
    <2>3. l \in 1..100 BY <2>1
    <2> HIDE DEF l
    <2>4. l \in Nat \ {0} BY <2>3
    <2> QED BY <2>2, <2>4 DEF l
  <1>2. ASSUME NEW i \in 1..Len(pack)
        PROVE  /\ pack[i] \in Sources /\ bins[pack[i]] \in Encodings
               /\ [folder |-> pack[i][1], name |-> pack[i][2], bin |-> bins[pack[i]]] \in Packed
    <2>1. pack[i] \in Sources BY <1>1
    <2>2. bins[pack[i]] \in Encodings BY <1>1, <2>1 DEF FilesInv
    <2>3. pack[i] \in Nat \X Names BY <2>1, PushAssumption
    <2>4. pack[i][1] \in Nat /\ pack[i][2] \in Names BY <2>3
    <2> QED BY <2>1, <2>2, <2>4 DEF Packed
  <1>3. DOMAIN pack = 1..Len(pack) /\ 1 \in 1..Len(pack) BY <1>1
  <1> DEFINE z == ZipOf(pack)
             e(i) == [folder |-> pack[i][1], name |-> pack[i][2], bin |-> bins[pack[i]]]
  <1>4. z = [i \in 1..Len(pack) |-> e(i)] BY <1>3 DEF ZipOf
  <1>5. \A i \in 1..Len(pack) : e(i) \in Packed BY <1>2
  <1>6. e(1).bin = bins[pack[1]] OBVIOUS
  <1> HIDE DEF z, e
  <1>7. z \in [1..Len(pack) -> Packed] BY <1>4, <1>5
  <1>8. z \in Seq(Packed) /\ Len(z) = Len(pack) BY <1>1, <1>7
  <1>9. z # <<>> BY <1>1, <1>8
  <1>10. z[1].bin = bins[pack[1]] BY <1>3, <1>4, <1>6
  <1> QED BY <1>2, <1>3, <1>8, <1>9, <1>10 DEF Zips, z

LEMMA SidecarIs ==
  ASSUME NEW z \in Zips
  PROVE  /\ Durations(SidecarOf(z)) /\ SidecarOf(z) \notin {NoFile, Torn}
         /\ DOMAIN SidecarOf(z) = {z[i].name : i \in DOMAIN z}
  <1>1. z \in Seq(Packed) /\ Len(z) \in Nat \ {0} BY DEF Zips
  <1>2. 1 \in DOMAIN z /\ \A i \in DOMAIN z : z[i] \in Packed BY <1>1
  <1>3. z[1].bin \in Encodings /\ \A i \in DOMAIN z : z[i].name \in Names BY <1>2 DEF Packed
  <1> DEFINE ns == {z[i].name : i \in DOMAIN z}
             bin == z[1].bin
  <1>4. ns \in SUBSET Names /\ bin \in Encodings BY <1>3
  <1>5. SidecarOf(z) = [n \in ns |-> DurationMs(bin)] BY DEF SidecarOf
  <1>6. DurationMs(bin) \in Nat BY <1>4, PushAssumption, Played
  <1> HIDE DEF ns, bin
  <1>7. [n \in ns |-> DurationMs(bin)] \notin {NoFile, Torn} BY <1>4, PushAssumption
  <1>8. Durations(SidecarOf(z)) BY <1>5, <1>6 DEF Durations
  <1> QED BY <1>5, <1>7, <1>8 DEF ns

LEMMA InitIInv == Init => IInv
  <1> SUFFICES ASSUME Init PROVE IInv OBVIOUS
  <1>1. FilesInv
    <2>1. bins = [s \in Sources |-> NoFile] /\ told = [s \in Sources |-> 0] BY DEF Init
    <2>2. ~Pack /\ packing = <<>> /\ paired = FALSE /\ sidecar = NoFile BY DEF Init, Pack
    <2> QED BY <2>1, <2>2 DEF FilesInv
  <1>2. ServerInv
    <2>1. pc = "down" /\ Bare /\ as = {} BY DEF Init, Bare
    <2>2. read \in [manifest : Seq(Packed), bytes : Seq(Packed), paired : BOOLEAN]
      BY DEF Init, NoRead
    <2> QED BY <2>1, <2>2, PushAssumption DEF ServerInv
  <1>3. CertInv
    <2>1. 0 \in Generations /\ 0 \in 0..MaxUser /\ 0 \in 0..MaxStops
      BY PushAssumption DEF Generations
    <2> QED BY <2>1 DEF Init, CertInv
  <1> QED BY <1>1, <1>2, <1>3 DEF IInv

\* What the user does to the files.
LEMMA EncodeFiles ==
  ASSUME FilesInv, NEW s \in Sources, NEW bin \in Encodings, Encode(s, bin)
  PROVE  FilesInv'
  <1>1. packing = <<>> /\ UNCHANGED <<zip, sidecar, packing, paired>> BY DEF Encode
  <1>2. bins' = [bins EXCEPT ![s] = bin] /\ told' = [told EXCEPT ![s] = DurationMs(bin)]
    BY DEF Encode
  <1>3. DurationMs(bin) \in Nat BY PushAssumption, Played
  <1>4. bins' \in [Sources -> Encodings \cup {NoFile}] /\ told' \in [Sources -> Nat]
    BY <1>2, <1>3 DEF FilesInv
  <1>5. \A t \in Sources : bins'[t] # NoFile => told'[t] = DurationMs(bins'[t])
    BY <1>2 DEF FilesInv
  <1>6. Pack' = Pack /\ packing' = <<>> BY <1>1 DEF Pack
  <1> QED BY <1>1, <1>4, <1>5, <1>6 DEF FilesInv, SidecarOf

LEMMA BeginPackFiles ==
  ASSUME FilesInv, NEW pack \in Packs, BeginPack(pack)
  PROVE  FilesInv'
  <1>1. /\ zip' = Torn /\ packing' = <<pack, told[pack[1]]>> /\ paired' = FALSE
        /\ \A i \in DOMAIN pack : bins[pack[i]] # NoFile
        /\ UNCHANGED <<bins, told, sidecar>>
    BY DEF BeginPack
  <1>2. ~Pack' BY <1>1 DEF Pack
  <1>3. Making(pack)' BY <1>1, <1>2 DEF Making
  <1> QED BY <1>1, <1>2, <1>3 DEF FilesInv

LEMMA PackingIs ==
  ASSUME FilesInv, packing # <<>>
  PROVE  \E pack \in Packs : /\ Making(pack) /\ packing[1] = pack
                             /\ packing[2] = DurationMs(bins[pack[1]])
                             /\ ZipOf(pack) \in Zips /\ ZipOf(pack)[1].bin = bins[pack[1]]
  <1>1. PICK pack \in Packs : Making(pack) BY DEF FilesInv
  <1>2. packing = <<pack, told[pack[1]]>> /\ \A i \in DOMAIN pack : bins[pack[i]] # NoFile
    BY <1>1 DEF Making
  <1>3. /\ pack[1] \in Sources /\ bins[pack[1]] \in Encodings
        /\ ZipOf(pack) \in Zips /\ ZipOf(pack)[1].bin = bins[pack[1]]
    BY <1>2, ZipOfIs
  <1>4. bins[pack[1]] # NoFile
    <2>1. pack \in Seq(Sources) /\ Len(pack) \in 1..100 BY PushAssumption DEF MaxFiles
    <2>2. 1 \in DOMAIN pack BY <2>1
    <2> QED BY <1>2, <2>2
  <1>5. told[pack[1]] = DurationMs(bins[pack[1]]) BY <1>3, <1>4 DEF FilesInv
  <1>6. packing[1] = pack /\ packing[2] = told[pack[1]] BY <1>2
  <1> QED BY <1>1, <1>3, <1>5, <1>6

LEMMA WriteZipFiles ==
  ASSUME FilesInv, WriteZip
  PROVE  FilesInv'
  <1>1. PICK pack \in Packs : Making(pack) /\ packing[1] = pack /\ ZipOf(pack) \in Zips
    BY PackingIs DEF WriteZip
  <1>2. UNCHANGED <<bins, told, sidecar, packing, paired>> BY DEF WriteZip
  <1>3. zip' = ZipOf(pack) BY <1>1 DEF WriteZip, ZipOf
  <1>4. ZipOf(pack)' = ZipOf(pack) BY <1>2 DEF ZipOf
  <1>5. Making(pack)' BY <1>1, <1>2, <1>3, <1>4 DEF Making
  <1>6. ~paired BY <1>1 DEF Making
  <1> QED BY <1>1, <1>2, <1>3, <1>5, <1>6 DEF FilesInv

LEMMA WriteSidecarFiles ==
  ASSUME FilesInv, WriteSidecar
  PROVE  FilesInv'
  <1>1. PICK pack \in Packs : /\ Making(pack) /\ packing[2] = DurationMs(bins[pack[1]])
                              /\ ZipOf(pack) \in Zips /\ ZipOf(pack)[1].bin = bins[pack[1]]
    BY PackingIs DEF WriteSidecar
  <1>2. /\ Pack /\ sidecar' = [n \in {zip[i].name : i \in DOMAIN zip} |-> packing[2]]
        /\ packing' = <<>> /\ paired' = TRUE /\ UNCHANGED <<bins, told, zip>>
    BY DEF WriteSidecar
  <1>3. zip = ZipOf(pack) BY <1>1, <1>2 DEF Making
  <1>4. sidecar' = SidecarOf(zip) BY <1>1, <1>2, <1>3 DEF SidecarOf
  <1>5. SidecarOf(zip)' = SidecarOf(zip) BY <1>2 DEF SidecarOf
  <1>6. Pack' BY <1>2 DEF Pack
  <1>7. Durations(sidecar') BY <1>1, <1>3, <1>4, SidecarIs
  <1> QED BY <1>1, <1>2, <1>3, <1>4, <1>5, <1>6, <1>7 DEF FilesInv

LEMMA StopPackFiles ==
  ASSUME FilesInv, StopPack
  PROVE  FilesInv'
  <1>1. packing # <<>> /\ packing' = <<>> /\ UNCHANGED <<bins, told, zip, paired>> BY DEF StopPack
  <1>2. sidecar' \in {sidecar, Torn} BY DEF StopPack
  <1>3. ~paired BY <1>1 DEF FilesInv, Making
  <1>4. Pack' = Pack BY <1>1 DEF Pack
  <1> QED BY <1>1, <1>2, <1>3, <1>4 DEF FilesInv

LEMMA SameFiles ==
  ASSUME FilesInv, UNCHANGED <<bins, told, zip, sidecar, packing, paired>>
  PROVE  FilesInv'
  <1>1. Pack' = Pack BY DEF Pack
  <1>2. \A pack : ZipOf(pack)' = ZipOf(pack) BY DEF ZipOf
  <1>3. \A pack : Making(pack) => Making(pack)' BY <1>1, <1>2 DEF Making
  <1>4. SidecarOf(zip)' = SidecarOf(zip) BY DEF SidecarOf
  <1> QED BY <1>1, <1>3, <1>4 DEF FilesInv

\* What starting does to the server.
LEMMA StartRawServer ==
  ASSUME FilesInv, NEW s \in Sources, NEW a \in AsNames, StartRaw(s, a)
  PROVE  ServerInv'
  <1> DEFINE one == <<[folder |-> s[1], name |-> s[2], bin |-> bins[s]]>>
  <1>1. /\ bins[s] # NoFile
        /\ read' = [manifest |-> one, bytes |-> one, paired |-> FALSE]
        /\ st' = Staged(Manifest(one, NoSidecar), BytesOf(one), a)
        /\ pc' = "cert" /\ as' = a
    BY DEF StartRaw
  <1>2. one \in Zips
    <2>1. bins[s] \in Encodings BY <1>1 DEF FilesInv
    <2>2. s \in Nat \X Names BY PushAssumption
    <2>3. s[1] \in Nat /\ s[2] \in Names BY <2>2
    <2>4. [folder |-> s[1], name |-> s[2], bin |-> bins[s]] \in Packed BY <2>1, <2>3 DEF Packed
    <2> HIDE DEF one
    <2>5. one \in Seq(Packed) /\ one # <<>> BY <2>4 DEF one
    <2> QED BY <2>5 DEF Zips
  <1>3. Durations(NoSidecar) BY DEF Durations, NoSidecar
  <1> HIDE DEF one
  <1>4. read'.manifest = one /\ read'.bytes = one /\ read'.paired = FALSE BY <1>1
  <1>5. read' \in [manifest : Seq(Packed), bytes : Seq(Packed), paired : BOOLEAN]
    <2>1. one \in Seq(Packed) BY <1>2 DEF Zips
    <2> QED BY <1>1, <2>1
  <1>6. Done(NoSidecar)'
    <2>1. NoSidecar' = NoSidecar BY DEF NoSidecar
    <2>2. Told(NoSidecar)' BY <1>3, <1>4, <2>1 DEF Told
    <2> QED BY <1>1, <1>2, <1>4, <2>1, <2>2 DEF Done
  <1>7. \E sc : Done(sc)' BY <1>6
  <1>8. pc' = "cert" /\ as' \in AsNames BY <1>1
  <1> QED BY <1>5, <1>7, <1>8 DEF ServerInv

LEMMA StartServerServer ==
  ASSUME FilesInv, NEW a \in AsNames, StartServer(a)
  PROVE  ServerInv'
  <1> DEFINE sc == IF sidecar \in {NoFile, Torn} THEN NoSidecar ELSE sidecar
  <1>1. /\ Pack /\ pc' = "bytes" /\ as' = a
        /\ read' = [NoRead EXCEPT !.manifest = zip, !.paired = paired]
        /\ st' = [NoStage EXCEPT !.anims = Manifest(zip, sc)]
    BY DEF StartServer
  <1>2. zip \in Zips /\ paired \in BOOLEAN BY <1>1 DEF FilesInv
  <1>3. Durations(sc)
    <2>1. Durations(NoSidecar) BY DEF Durations, NoSidecar
    <2> QED BY <2>1 DEF FilesInv
  <1>4. paired => sc = SidecarOf(zip)
    <2> SUFFICES ASSUME paired PROVE sc = SidecarOf(zip) OBVIOUS
    <2>1. sidecar = SidecarOf(zip) BY DEF FilesInv
    <2> QED BY <1>2, <2>1, SidecarIs
  <1> HIDE DEF sc
  <1>5. /\ read'.manifest = zip /\ read'.bytes = <<>> /\ read'.paired = paired
        /\ read' \in [manifest : Seq(Packed), bytes : Seq(Packed), paired : BOOLEAN]
    <2>1. zip \in Seq(Packed) BY <1>2 DEF Zips
    <2>2. <<>> \in Seq(Packed) OBVIOUS
    <2>3. NoRead \in [manifest : {<<>>}, bytes : {<<>>}, paired : BOOLEAN] BY DEF NoRead
    <2>4. read' \in [manifest : {zip}, bytes : {<<>>}, paired : {paired}] BY <1>1, <2>3
    <2> QED BY <1>2, <2>1, <2>2, <2>4
  <1>6. PICK d : d = sc OBVIOUS
  <1>7. Began(d)'
    <2>1. Durations(d)' BY <1>3, <1>6 DEF Durations
    <2>2. read'.paired => d = SidecarOf(read'.manifest) BY <1>4, <1>5, <1>6
    <2>3. SidecarOf(read.manifest)' = SidecarOf(read'.manifest) BY DEF SidecarOf
    <2>4. Told(d)' BY <2>1, <2>2, <2>3 DEF Told
    <2>5. Manifest(read.manifest, d)' = Manifest(zip, d) BY <1>5 DEF Manifest, AtPath, LastOf
    <2>6. NoStage' = NoStage BY DEF NoStage
    <2> QED BY <1>1, <1>2, <1>5, <1>6, <2>4, <2>5, <2>6 DEF Began
  <1>8. \E e : Began(e)' BY <1>7
  <1>9. pc' = "bytes" /\ as' \in AsNames BY <1>1
  <1> QED BY <1>5, <1>8, <1>9 DEF ServerInv

LEMMA ReadBytesServer ==
  ASSUME FilesInv, ServerInv, ReadBytes
  PROVE  ServerInv'
  <1>1. /\ pc = "bytes" /\ Pack /\ UNCHANGED as
        /\ st' = Staged(st.anims, BytesOf(zip), as)
        /\ pc' \in {"cert", "down"} /\ read' = [read EXCEPT !.bytes = zip]
    BY DEF ReadBytes
  <1>2. PICK sc : Began(sc)
    <2>1. \E sc : Began(sc) BY <1>1 DEF ServerInv
    <2> QED BY <2>1
  <1>3. zip \in Zips BY <1>1 DEF FilesInv
  <1>4. /\ read'.manifest = read.manifest /\ read'.bytes = zip /\ read'.paired = read.paired
        /\ read' \in [manifest : Seq(Packed), bytes : Seq(Packed), paired : BOOLEAN]
    <2>1. zip \in Seq(Packed) BY <1>3 DEF Zips
    <2>2. read \in [manifest : Seq(Packed), bytes : Seq(Packed), paired : BOOLEAN]
      BY DEF ServerInv
    <2> QED BY <1>1, <2>1, <2>2
  <1>5. st.anims = Manifest(read.manifest, sc) BY <1>2 DEF Began, NoStage
  <1>6. Done(sc)'
    <2>1. Told(sc)'
      <3>1. Told(sc) BY <1>2 DEF Began
      <3>2. SidecarOf(read.manifest)' = SidecarOf(read'.manifest) BY DEF SidecarOf
      <3>3. SidecarOf(read'.manifest) = SidecarOf(read.manifest) BY <1>4
      <3> QED BY <1>4, <3>1, <3>2, <3>3 DEF Told, Durations
    <2>2. read.manifest \in Zips BY <1>2 DEF Began
    <2>3. Manifest(read.manifest, sc)' = Manifest(read'.manifest, sc)
      BY DEF Manifest, AtPath, LastOf
    <2>4. Manifest(read'.manifest, sc) = Manifest(read.manifest, sc) BY <1>4
    <2>5. BytesOf(read.bytes)' = BytesOf(read'.bytes) BY DEF BytesOf, LastOf
    <2>6. BytesOf(read'.bytes) = BytesOf(zip) BY <1>4
    <2>7. st' = Staged(Manifest(read.manifest, sc)', BytesOf(read.bytes)', as')
      BY <1>1, <1>5, <2>3, <2>4, <2>5, <2>6
    <2> QED BY <1>3, <1>4, <2>1, <2>2, <2>7 DEF Done
  <1>7. \E e : Done(e)' BY <1>6
  <1>8. pc' \in {"cert", "down"} /\ as' \in AsNames BY <1>1 DEF ServerInv
  <1> QED BY <1>4, <1>7, <1>8 DEF ServerInv

\* What was read and staged stays while the server goes on.
LEMMA StagedStays ==
  ASSUME UNCHANGED <<as, read, st>>, NEW sc
  PROVE  /\ Began(sc) => Began(sc)'
         /\ Done(sc) => Done(sc)'
         /\ Bare => Bare'
  <1>1. SidecarOf(read.manifest)' = SidecarOf(read.manifest) BY DEF SidecarOf
  <1>2. Told(sc)' = Told(sc) BY <1>1 DEF Told, Durations
  <1>3. Manifest(read.manifest, sc)' = Manifest(read.manifest, sc) BY DEF Manifest, AtPath, LastOf
  <1>4. BytesOf(read.bytes)' = BytesOf(read.bytes) BY DEF BytesOf, LastOf
  <1>5. Began(sc) => Began(sc)' BY <1>2, <1>3 DEF Began, NoStage
  <1>6. Done(sc) => Done(sc)' BY <1>2, <1>3, <1>4 DEF Done
  <1>7. Bare => Bare' BY DEF Bare, NoRead, NoStage
  <1> QED BY <1>5, <1>6, <1>7

LEMMA QuietServer ==
  ASSUME ServerInv, UNCHANGED <<as, read, st>>,
         \/ pc' = pc
         \/ pc \notin {"bytes", "down"} /\ pc' \in {"down", "cert", "key", "certfile", "load", "listening"}
         \/ pc' = "down"
  PROVE  ServerInv'
  <1>1. /\ pc' \in {"down", "bytes", "cert", "key", "certfile", "load", "listening"}
        /\ as' \in AsNames
        /\ read' \in [manifest : Seq(Packed), bytes : Seq(Packed), paired : BOOLEAN]
    BY DEF ServerInv
  <1>2. CASE pc # "bytes" /\ Bare
    <2>1. pc' # "bytes" BY <1>2
    <2>2. Bare' BY <1>2, StagedStays
    <2> QED BY <1>1, <2>1, <2>2 DEF ServerInv
  <1>3. CASE pc \in {"bytes", "down"} /\ \E sc : Began(sc)
    <2>1. PICK sc : Began(sc) BY <1>3
    <2>2. Began(sc)' BY <2>1, StagedStays
    <2>3. \E e : Began(e)' BY <2>2
    <2>4. CASE pc' \in {"bytes", "down"} BY <1>1, <2>3, <2>4 DEF ServerInv
    <2> QED BY <1>3, <2>4
  <1>4. CASE pc # "bytes" /\ \E sc : Done(sc)
    <2>1. PICK sc : Done(sc) BY <1>4
    <2>2. Done(sc)' BY <2>1, StagedStays
    <2>3. \E e : Done(e)' BY <2>2
    <2>4. pc' # "bytes" BY <1>4
    <2> QED BY <1>1, <2>3, <2>4 DEF ServerInv
  <1> QED BY <1>2, <1>3, <1>4 DEF ServerInv

\* The certificate, the key, and the bounds.
LEMMA CertSteps ==
  ASSUME CertInv,
         \/ UNCHANGED pair /\ user' \in 0..MaxUser /\ stops' \in 0..MaxStops
         \/ EnsureCert \/ WriteKey \/ OpenCert \/ WriteCert \/ StopServer
  PROVE  CertInv'
  <1>1. MaxStops \in Nat BY PushAssumption
  <1>2. CASE UNCHANGED pair /\ user' \in 0..MaxUser /\ stops' \in 0..MaxStops
    BY <1>2 DEF CertInv, pair, Generations
  <1>3. CASE EnsureCert BY <1>3 DEF EnsureCert, CertInv, files, Generations
  <1>4. CASE WriteKey
    <2>1. stops + 1 \in Generations BY <1>1 DEF CertInv, Generations
    <2> QED BY <1>4, <2>1 DEF WriteKey, CertInv, files, Generations
  <1>5. CASE OpenCert BY <1>5 DEF OpenCert, CertInv, files, Generations
  <1>6. CASE WriteCert BY <1>6 DEF WriteCert, CertInv, files, Generations
  <1>7. CASE StopServer
    <2>1. stops + 1 \in 0..MaxStops BY <1>1, <1>7 DEF StopServer, CertInv
    <2> QED BY <1>7, <2>1 DEF StopServer, CertInv, files, Generations
  <1> QED BY <1>2, <1>3, <1>4, <1>5, <1>6, <1>7

LEMMA UserSteps ==
  ASSUME IInv, User PROVE IInv'
  <1>1. FilesInv /\ ServerInv /\ CertInv BY DEF IInv
  <1>2. FilesInv'
    <2>1. ASSUME NEW s \in Sources, NEW bin \in Encodings, Encode(s, bin) PROVE FilesInv'
      BY <1>1, <2>1, EncodeFiles
    <2>2. ASSUME NEW pack \in Packs, BeginPack(pack) PROVE FilesInv'
      BY <1>1, <2>2, BeginPackFiles
    <2> QED BY <2>1, <2>2 DEF User
  <1>3. /\ user < MaxUser /\ user' = user + 1
        /\ UNCHANGED <<key, cert, cut, pc, as, read, st, stops>>
    BY DEF User, Encode, BeginPack, pair, server
  <1>4. ServerInv' BY <1>1, <1>3, QuietServer
  <1>5. user' \in 0..MaxUser /\ stops' \in 0..MaxStops BY <1>1, <1>3, PushAssumption DEF CertInv
  <1>6. CertInv' BY <1>1, <1>3, <1>5, CertSteps DEF pair
  <1> QED BY <1>2, <1>4, <1>6 DEF IInv

LEMMA PackingSteps ==
  ASSUME IInv, Packing \/ StopPack PROVE IInv'
  <1>1. FilesInv /\ ServerInv /\ CertInv BY DEF IInv
  <1>2. FilesInv' BY <1>1, WriteZipFiles, WriteSidecarFiles, StopPackFiles DEF Packing
  <1>3. /\ UNCHANGED <<key, cert, cut, pc, as, read, st, user>>
        /\ stops' = stops \/ (stops < MaxStops /\ stops' = stops + 1)
    BY DEF Packing, WriteZip, WriteSidecar, StopPack, pair, server
  <1>4. ServerInv' BY <1>1, <1>3, QuietServer
  <1>5. user' \in 0..MaxUser /\ stops' \in 0..MaxStops BY <1>1, <1>3, PushAssumption DEF CertInv
  <1>6. CertInv' BY <1>1, <1>3, <1>5, CertSteps DEF pair
  <1> QED BY <1>2, <1>4, <1>6 DEF IInv

LEMMA StartSteps ==
  ASSUME IInv,
         \/ StartBare
         \/ \E a \in AsNames : StartServer(a) \/ \E s \in Sources : StartRaw(s, a)
  PROVE  IInv'
  <1>1. FilesInv /\ ServerInv /\ CertInv BY DEF IInv
  <1>2. UNCHANGED files /\ UNCHANGED pair /\ UNCHANGED stops
    BY DEF StartBare, StartServer, StartRaw
  <1>3. FilesInv' BY <1>1, <1>2, SameFiles DEF files
  <1>4. user' \in 0..MaxUser /\ stops' \in 0..MaxStops BY <1>1, <1>2 DEF CertInv, files
  <1>5. CertInv' BY <1>1, <1>2, <1>4, CertSteps
  <1>6. ServerInv'
    <2>1. CASE StartBare
      <3>1. pc' = "cert" /\ as' = {} /\ read' = NoRead /\ st' = NoStage BY <2>1 DEF StartBare
      <3>2. Bare' BY <3>1 DEF Bare, NoRead, NoStage
      <3>3. NoRead \in [manifest : Seq(Packed), bytes : Seq(Packed), paired : BOOLEAN] BY DEF NoRead
      <3> QED BY <3>1, <3>2, <3>3, PushAssumption DEF ServerInv
    <2>2. ASSUME NEW a \in AsNames, StartServer(a) PROVE ServerInv'
      BY <1>1, <2>2, StartServerServer
    <2>3. ASSUME NEW a \in AsNames, NEW s \in Sources, StartRaw(s, a) PROVE ServerInv'
      BY <1>1, <2>3, StartRawServer
    <2> QED BY <2>1, <2>2, <2>3
  <1> QED BY <1>3, <1>5, <1>6 DEF IInv

LEMMA ServerSteps ==
  ASSUME IInv, Server \/ NoGenerator \/ StopServer PROVE IInv'
  <1>1. FilesInv /\ ServerInv /\ CertInv BY DEF IInv
  <1>2. UNCHANGED files
    BY DEF Server, ReadBytes, ReadBytesFails, EnsureCert, WriteKey, OpenCert, WriteCert, Load,
           NoGenerator, StopServer, server
  <1>3. FilesInv' BY <1>1, <1>2, SameFiles DEF files
  <1>4. user' \in 0..MaxUser BY <1>1, <1>2 DEF CertInv, files
  <1>5. CertInv'
    <2>1. CASE EnsureCert \/ WriteKey \/ OpenCert \/ WriteCert \/ StopServer
      BY <1>1, <2>1, CertSteps
    <2>2. CASE ReadBytes \/ ReadBytesFails \/ Load
      <3>1. UNCHANGED pair /\ UNCHANGED stops BY <2>2 DEF ReadBytes, ReadBytesFails, Load
      <3>2. stops' \in 0..MaxStops BY <1>1, <3>1 DEF CertInv
      <3> QED BY <1>1, <1>4, <3>1, <3>2, CertSteps
    <2>3. CASE NoGenerator
      <3>1. UNCHANGED pair /\ stops < MaxStops /\ stops' = stops + 1 BY <2>3 DEF NoGenerator
      <3>2. stops' \in 0..MaxStops BY <1>1, <3>1, PushAssumption DEF CertInv
      <3> QED BY <1>1, <1>4, <3>1, <3>2, CertSteps
    <2> QED BY <2>1, <2>2, <2>3 DEF Server
  <1>6. ServerInv'
    <2>1. CASE ReadBytes BY <1>1, <2>1, ReadBytesServer
    <2>2. CASE ReadBytesFails \/ NoGenerator \/ StopServer
      BY <1>1, <2>2, QuietServer DEF ReadBytesFails, NoGenerator, StopServer
    <2>3. CASE EnsureCert \/ WriteKey \/ OpenCert \/ WriteCert \/ Load
      BY <1>1, <2>3, QuietServer DEF EnsureCert, WriteKey, OpenCert, WriteCert, Load, server
    <2> QED BY <2>1, <2>2, <2>3 DEF Server
  <1> QED BY <1>3, <1>5, <1>6 DEF IInv

LEMMA NextIInv == IInv /\ [Next]_vars => IInv'
  <1> SUFFICES ASSUME IInv, [Next]_vars PROVE IInv' OBVIOUS
  <1>1. CASE UNCHANGED vars
    <2>1. FilesInv /\ ServerInv /\ CertInv BY DEF IInv
    <2>2. FilesInv' BY <1>1, <2>1, SameFiles DEF vars, files
    <2>3. ServerInv' BY <1>1, <2>1, QuietServer DEF vars, server
    <2>4. user' \in 0..MaxUser /\ stops' \in 0..MaxStops BY <1>1, <2>1 DEF CertInv, vars, files
    <2>5. CertInv' BY <1>1, <2>1, <2>4, CertSteps DEF vars
    <2> QED BY <2>2, <2>3, <2>5 DEF IInv
  <1>2. CASE User BY <1>2, UserSteps
  <1>3. CASE Packing \/ StopPack BY <1>3, PackingSteps
  <1>4. CASE \/ StartBare
             \/ \E a \in AsNames : StartServer(a) \/ \E s \in Sources : StartRaw(s, a)
    BY <1>4, StartSteps
  <1>5. CASE Server \/ NoGenerator \/ StopServer BY <1>5, ServerSteps
  <1> QED BY <1>1, <1>2, <1>3, <1>4, <1>5 DEF Next

LEMMA AlwaysIInv == Spec => []IInv
  <1>1. Init => IInv BY InitIInv
  <1>2. IInv /\ [Next]_vars => IInv' BY NextIInv
  <1> QED BY <1>1, <1>2, PTL DEF Spec

\* Every variable is in range, whatever names and packs there are, and a server
\* offers no more files than the pack it read has, renamed or not.
THEOREM TypeCorrect == Spec => []TypeOK
  <1> SUFFICES IInv => TypeOK BY AlwaysIInv, PTL
  <1> SUFFICES ASSUME IInv PROVE TypeOK OBVIOUS
  <1>1. FilesInv /\ ServerInv /\ CertInv BY DEF IInv
  <1>2. \A s \in Sources : bins[s] \in Encodings \cup {NoFile} /\ told[s] \in Nat
    BY <1>1 DEF FilesInv
  <1>3. Pack => \A i \in DOMAIN zip : zip[i] \in Entries
    <2>1. \A e \in Packed : e \in Entries BY PushAssumption DEF Packed, Entries
    <2>2. Pack => zip \in Seq(Packed) BY <1>1 DEF FilesInv, Zips
    <2>3. zip \in Seq(Packed) => \A i \in DOMAIN zip : zip[i] \in Packed OBVIOUS
    <2> QED BY <2>1, <2>2, <2>3
  <1>4. /\ \A i \in DOMAIN st.anims :
             /\ st.anims[i].name \in Names \/ st.anims[i].name.tail = NoTail
             /\ st.anims[i].size \in Nat /\ st.anims[i].duration \in Nat
        /\ \A n \in DOMAIN st.bytes : st.bytes[n] \in Encodings
        /\ Cardinality(DOMAIN st.bytes) <= Len(read.bytes)
    <2>1. CASE Bare
      <3>1. st.anims = <<>> /\ DOMAIN st.bytes = {} /\ read.bytes = <<>>
        BY <2>1 DEF Bare, NoStage, NoRead
      <3>2. Cardinality(DOMAIN st.bytes) <= Len(read.bytes)
        <4>1. Cardinality({}) = 0 BY FS_EmptySet
        <4> QED BY <3>1, <4>1
      <3> QED BY <3>1, <3>2
    <2>2. CASE \E sc : Began(sc)
      <3>1. PICK sc : Began(sc) BY <2>2
      <3>2. read.manifest \in Zips /\ Durations(sc) BY <3>1 DEF Began, Told
      <3> DEFINE A == Manifest(read.manifest, sc)
      <3>3. A \in Seq(Anim) /\ Len(A) = Len(read.manifest) BY <3>2, ManifestIs
      <3>4. \A i \in 1..Len(read.manifest) : A[i].name = read.manifest[i].name BY <3>2, ManifestIs
      <3>5. \A i \in 1..Len(read.manifest) : read.manifest[i].name \in Names
        <4>1. read.manifest \in Seq(Packed) BY <3>2 DEF Zips
        <4>2. \A i \in 1..Len(read.manifest) : read.manifest[i] \in Packed BY <4>1
        <4>3. \A e \in Packed : e.name \in Names BY DEF Packed
        <4> QED BY <4>2, <4>3
      <3>6. st.anims = A /\ DOMAIN st.bytes = {} /\ read.bytes = <<>> BY <3>1 DEF Began, NoStage
      <3> HIDE DEF A
      <3>7. \A i \in DOMAIN A : A[i] \in Anim /\ i \in 1..Len(read.manifest) BY <3>3
      <3>8. \A e \in Anim : e.size \in Nat /\ e.duration \in Nat BY DEF Anim
      <3>9. Cardinality(DOMAIN st.bytes) <= Len(read.bytes)
        <4>1. Cardinality({}) = 0 BY FS_EmptySet
        <4> QED BY <3>6, <4>1
      <3> QED BY <3>4, <3>5, <3>6, <3>7, <3>8, <3>9
    <2>3. CASE \E sc : Done(sc)
      <3>1. PICK sc : Done(sc) BY <2>3
      <3>2. read.manifest \in Zips /\ read.bytes \in Zips /\ Durations(sc) BY <3>1 DEF Done, Told
      <3> DEFINE A == Manifest(read.manifest, sc)
                 B == BytesOf(read.bytes)
                 c == Len(read.bytes)
      <3>3. as \in SUBSET Names BY <1>1, PushAssumption DEF ServerInv
      <3>4. Unwritten(A, B, c) BY <3>2, ZipUnwritten
      <3> HIDE DEF A, B
      <3>5. Rewritten(Staged(A, B, as), A, c) BY <3>3, <3>4, StagedKeeps
      <3>6. st = Staged(A, B, as) BY <3>1 DEF Done, A, B
      <3>7. Rewritten(st, A, c) BY <3>5, <3>6
      <3>8. st.anims \in Seq(Anim) /\ Len(st.anims) = Len(A) BY <3>7 DEF Rewritten
      <3>9. \A i \in DOMAIN st.anims : st.anims[i] \in Anim /\ i \in 1..Len(A) BY <3>8
      <3>10. \A e \in Anim : e.size \in Nat /\ e.duration \in Nat BY DEF Anim
      <3>11. \A i \in DOMAIN st.anims : st.anims[i].name \in Names \/ st.anims[i].name.tail = NoTail
        BY <3>7, <3>9 DEF Rewritten
      <3>12. \A n \in DOMAIN st.bytes : st.bytes[n] \in Encodings BY <3>7 DEF Rewritten, Table
      <3>13. Cardinality(DOMAIN st.bytes) <= c BY <3>7 DEF Rewritten
      <3> QED BY <3>9, <3>10, <3>11, <3>12, <3>13
    <2> QED BY <1>1, <2>1, <2>2, <2>3 DEF ServerInv
  <1>5. pc \in {"down", "bytes", "cert", "key", "certfile", "load", "listening"} /\ as \in AsNames
    BY <1>1 DEF ServerInv
  <1>6. /\ key \in Generations \cup {NoFile, Torn} /\ cert \in Generations \cup {NoFile, Torn}
        /\ cut \in BOOLEAN /\ user \in 0..MaxUser /\ stops \in 0..MaxStops
    BY <1>1 DEF CertInv
  <1> QED BY <1>2, <1>3, <1>4, <1>5, <1>6 DEF TypeOK

\* Whatever was encoded, of any number of LEDs, columns and frames, the decoder
\* finds it column by column.
THEOREM DecodesWhatWasEncoded == Spec => []DecodesBack
  <1> SUFFICES IInv => DecodesBack BY AlwaysIInv, PTL
  <1> SUFFICES ASSUME IInv, NEW s \in Sources, bins[s] # NoFile
               PROVE  LET file == FileColumns(bins[s]) IN
                        \A i \in 0..(bins[s].frames - 1), c \in 0..(Cpr - 1) :
                          Decoded(file, i, c) = FrameColumn(bins[s], i, c)
    BY DEF DecodesBack
  <1>1. bins[s] \in Encodings BY DEF IInv, FilesInv
  <1>2. bins[s] \in Bins BY <1>1, PushAssumption
  <1> QED BY <1>2, DecodedIs

\* A file packed alone and to the end loops without a snap: through the pack, its
\* durations, the manifest and both rewritings of names, what the device is told
\* to play is as long as what the encoder wrote, and that is a good loop.
THEOREM LoopsAsTold == Spec => []LoopsWithoutSnap
  <1> SUFFICES IInv => LoopsWithoutSnap BY AlwaysIInv, PTL
  <1> DEFINE bin == read.manifest[1].bin
             played == st.anims[1].duration \div FrameMs
  <1> SUFFICES ASSUME IInv, Listening, read.paired, Len(read.manifest) = 1
               PROVE  /\ played = bin.frames
                      /\ \/ SeamDeg(played, bin.deg) <= Tol
                         \/ \A n \in 1..Hi : SeamDeg(played, bin.deg) <= SeamDeg(n, bin.deg)
    BY DEF LoopsWithoutSnap
  <1>1. ~Bare BY DEF Bare, NoRead
  <1>2. PICK sc : Done(sc) BY <1>1 DEF IInv, ServerInv, Listening
  <1>3. /\ read.manifest \in Zips /\ read.bytes \in Zips
        /\ Durations(sc) /\ sc = SidecarOf(read.manifest)
    BY <1>2 DEF Done, Told
  <1> DEFINE A == Manifest(read.manifest, sc)
             B == BytesOf(read.bytes)
             c == Len(read.bytes)
  <1>4. as \in SUBSET Names BY PushAssumption DEF IInv, ServerInv
  <1>5. Unwritten(A, B, c) /\ Len(A) = 1 BY <1>3, ZipUnwritten, ManifestIs
  <1>6. read.manifest \in Seq(Packed) BY <1>3 DEF Zips
  <1>7. 1 \in DOMAIN read.manifest /\ 1 \in 1..Len(read.manifest) /\ read.manifest[1] \in Packed BY <1>6
  <1>8. A[1].duration = DurationMs(bin)
    <2>1. A[1].duration = IF read.manifest[1].name \in DOMAIN sc THEN sc[read.manifest[1].name]
                          ELSE DefaultMs
      BY <1>3, <1>7, ManifestIs
    <2> DEFINE z == read.manifest
               ns == {z[i].name : i \in DOMAIN z}
    <2>2. z[1].name \in ns BY <1>7
    <2>3. sc = [n \in ns |-> DurationMs(bin)] BY <1>3 DEF SidecarOf
    <2> HIDE DEF ns, bin
    <2> QED BY <2>1, <2>2, <2>3
  <1>9. st.anims[1].duration = DurationMs(bin)
    <2> HIDE DEF A, B, c, bin
    <2>1. Rewritten(Staged(A, B, as), A, c) BY <1>4, <1>5, StagedKeeps
    <2>2. st = Staged(A, B, as) BY <1>2 DEF Done, A, B
    <2>3. 1 \in 1..Len(A) BY <1>5
    <2>4. st.anims[1].duration = A[1].duration BY <2>1, <2>2, <2>3 DEF Rewritten
    <2> QED BY <1>8, <2>4
  <1>10. bin \in Encodings /\ bin \in Bins BY <1>7, PushAssumption DEF Packed
  <1>11. played = bin.frames BY <1>9, <1>10, Played
  <1>12. \/ SeamDeg(bin.frames, bin.deg) <= Tol
         \/ \A n \in 1..Hi : SeamDeg(bin.frames, bin.deg) <= SeamDeg(n, bin.deg)
    <2>1. CASE bin = Locked(bin.base[1], bin.deg)
      <3>1. bin.frames = AutoLoopLen(bin.deg)
        <4> DEFINE p == bin.base[1]
                   d == bin.deg
        <4>1. bin = Locked(p, d) BY <2>1
        <4> HIDE DEF bin, p, d
        <4>2. bin.frames = AutoLoopLen(d) BY <4>1 DEF Locked
        <4> QED BY <4>2 DEF d
      <3>2. bin.deg \in Int BY <1>10 DEF Bins
      <3> QED BY <3>1, <3>2, AutoLoopLenIs
    <2>2. CASE bin = Plain(bin.base, bin.frames)
      <3>1. bin.deg = 0
        <4> DEFINE p == bin.base
                   f == bin.frames
        <4>1. bin = Plain(p, f) BY <2>2
        <4> HIDE DEF bin, p, f
        <4> QED BY <4>1 DEF Plain
      <3>2. SeamDeg(bin.frames, 0) = 0
        <4>1. Cpr \in Nat \ {0} /\ bin.frames \in Nat BY <1>10, CodecAssumption DEF Bins
        <4>2. bin.frames * 0 = 0 BY <4>1
        <4>3. 0 % Cpr = 0
          <5>1. (0 * Cpr + 0) % Cpr = 0 BY <4>1, DivMod
          <5>2. 0 * Cpr + 0 = 0 BY <4>1
          <5> QED BY <5>1, <5>2
        <4> HIDE DEF bin
        <4> QED BY <4>1, <4>2, <4>3 DEF SeamDeg
      <3>3. Tol \in Nat BY CodecAssumption
      <3> QED BY <3>1, <3>2, <3>3
    <2> QED BY <1>10, <2>1, <2>2, PushAssumption
  <1> QED BY <1>11, <1>12

-----------------------------------------------------------------------------
(***************************************************************************)
(* Every entry under its own name.                                          *)
(***************************************************************************)
\* The names given to the entries of a zip, and when they are in each other's way.
GivenName(z, a, i) == IF i = 1 /\ a # {} THEN CHOOSE n \in a : TRUE ELSE z[i].name
ClashIn(z, a) ==
  \E i, j \in DOMAIN z :
    /\ i # j
    /\ \/ z[i].name = z[j].name
       \/ GivenName(z, a, i) = GivenName(z, a, j)
       \/ /\ GivenName(z, a, i).len <= Budget /\ GivenName(z, a, j).len > Budget
          /\ GivenName(z, a, i) = Shortened(GivenName(z, a, j), j, TRUE)

\* The names after n turns of the loop.
NameAt(z, a, n, i) ==
  IF i <= n /\ GivenName(z, a, i).len > Budget
    THEN Shortened(GivenName(z, a, i), i, Len(z) > 1)
    ELSE GivenName(z, a, i)

\* After n turns every entry has its name and the bytes it was packed with.
InPlace(s, z, a, n) ==
  /\ s.ok = TRUE
  /\ \A i \in 1..Len(z) :
       /\ s.anims[i].name = NameAt(z, a, n, i) /\ NameAt(z, a, n, i) \in DOMAIN s.bytes
       /\ s.bytes[NameAt(z, a, n, i)] = z[i].bin

LEMMA GivenIs ==
  ASSUME NEW z \in Zips, NEW a \in SUBSET Names, NEW i \in 1..Len(z)
  PROVE  GivenName(z, a, i) \in AnyName
  <1>1. z \in Seq(Packed) BY DEF Zips
  <1>2. z[i] \in Packed BY <1>1
  <1>3. z[i].name \in Names BY <1>2 DEF Packed
  <1>4. a # {} => (CHOOSE n \in a : TRUE) \in Names OBVIOUS
  <1> QED BY <1>3, <1>4, StageAssumption DEF GivenName

\* With names that are not in each other's way, no two entries ever share one.
LEMMA NamesDiffer ==
  ASSUME Roomy, NEW z \in Zips, NEW a \in SUBSET Names, ~ClashIn(z, a), NEW n \in Nat,
         NEW i \in 1..Len(z), NEW j \in 1..Len(z), i # j
  PROVE  NameAt(z, a, n, i) # NameAt(z, a, n, j)
  <1> DEFINE G(k) == GivenName(z, a, k)
             short(k) == k <= n /\ G(k).len > Budget
             S(k) == Shortened(G(k), k, TRUE)
  <1>1. z \in Seq(Packed) /\ Len(z) \in Nat /\ DOMAIN z = 1..Len(z) BY DEF Zips
  <1>2. Len(z) > 1 BY <1>1
  <1>3. \A k \in 1..Len(z) : NameAt(z, a, n, k) = IF short(k) THEN S(k) ELSE G(k)
    <2>1. (Len(z) > 1) = TRUE BY <1>2
    <2> QED BY <2>1, Zenon DEF NameAt
  <1>4. ASSUME NEW k \in 1..Len(z)
        PROVE  G(k).len \in Nat /\ S(k).len <= Budget /\ S(k).index = k - 1
    <2>1. G(k) \in AnyName BY GivenIs
    <2>2. k \in Nat \ {0} BY <1>1
    <2>3. S(k).len <= Budget /\ S(k).index = k - 1 BY <2>1, <2>2, ShortenedIs
    <2> QED BY <2>1, <2>3 DEF AnyName
  <1>5. ASSUME NEW k \in 1..Len(z), NEW l \in 1..Len(z), k # l
        PROVE  G(k) # G(l) /\ (G(k).len <= Budget /\ G(l).len > Budget => G(k) # S(l))
    BY <1>1, <1>5 DEF ClashIn
  <1> HIDE DEF G, S
  <1>6. CASE short(i) /\ short(j)
    <2>1. S(i).index # S(j).index BY <1>1, <1>4
    <2> QED BY <1>3, <1>6, <2>1
  <1>7. CASE ~short(i) /\ ~short(j) BY <1>3, <1>5, <1>7
  <1>8. CASE short(i) /\ ~short(j)
    <2>1. G(j) # S(i)
      <3>1. CASE G(j).len <= Budget BY <1>5, <1>8, <3>1
      <3>2. CASE ~(G(j).len <= Budget) BY <1>4, <3>2
      <3> QED BY <3>1, <3>2
    <2> QED BY <1>3, <1>8, <2>1
  <1>9. CASE ~short(i) /\ short(j)
    <2>1. G(i) # S(j)
      <3>1. CASE G(i).len <= Budget BY <1>5, <1>9, <3>1
      <3>2. CASE ~(G(i).len <= Budget) BY <1>4, <3>2
      <3> QED BY <3>1, <3>2
    <2> QED BY <1>3, <1>9, <2>1
  <1> HIDE DEF short
  <1> QED BY <1>6, <1>7, <1>8, <1>9

\* Entries of different names have their own bytes.
LEMMA BytesInPlace ==
  ASSUME NEW z \in Zips, \A i, j \in 1..Len(z) : i # j => z[i].name # z[j].name,
         NEW i \in 1..Len(z)
  PROVE  /\ z[i].name \in DOMAIN BytesOf(z) /\ BytesOf(z)[z[i].name] = z[i].bin
         /\ AtPath(z, z[i]) = z[i].bin
  <1>1. z \in Seq(Packed) /\ Len(z) \in Nat /\ DOMAIN z = 1..Len(z) BY DEF Zips
  <1>2. i \in Int BY <1>1
  <1>3. {j \in DOMAIN z : z[j].name = z[i].name} = {i} BY <1>1
  <1>4. {j \in DOMAIN z : z[j].folder = z[i].folder /\ z[j].name = z[i].name} = {i} BY <1>1
  <1>5. LastOf(z, {i}) = z[i] BY <1>2, MaxOfOne DEF LastOf
  <1>6. AtPath(z, z[i]) = z[i].bin BY <1>4, <1>5 DEF AtPath
  <1> DEFINE ns == {z[j].name : j \in DOMAIN z}
             b(n) == LastOf(z, {j \in DOMAIN z : z[j].name = n}).bin
  <1>7. z[i].name \in ns BY <1>1
  <1>8. b(z[i].name) = z[i].bin BY <1>3, <1>5
  <1>9. BytesOf(z) = [n \in ns |-> b(n)] BY DEF BytesOf
  <1> HIDE DEF ns, b
  <1> QED BY <1>6, <1>7, <1>8, <1>9

LEMMA NamedInPlace ==
  ASSUME NEW z \in Zips, NEW sc, Durations(sc), NEW a \in SUBSET Names, ~ClashIn(z, a)
  PROVE  InPlace(Named(Manifest(z, sc), BytesOf(z), a), z, a, 0)
  <1> DEFINE A == Manifest(z, sc)
             B == BytesOf(z)
             t == Named(A, B, a)
             G(k) == GivenName(z, a, k)
  <1>1. z \in Seq(Packed) /\ Len(z) \in Nat \ {0} /\ DOMAIN z = 1..Len(z) /\ 1 \in 1..Len(z)
    BY DEF Zips
  <1>2. /\ A \in Seq(Anim) /\ Len(A) = Len(z)
        /\ \A i \in 1..Len(z) : A[i].name = z[i].name
    BY ManifestIs
  <1>3. \A i, j \in 1..Len(z) : i # j => z[i].name # z[j].name /\ G(i) # G(j)
    BY <1>1 DEF ClashIn
  <1>4. \A i \in 1..Len(z) : z[i].name \in DOMAIN B /\ B[z[i].name] = z[i].bin
    BY <1>3, BytesInPlace
  <1>5. \A i \in 1..Len(z) : NameAt(z, a, 0, i) = G(i)
    <2>1. \A i \in 1..Len(z) : ~(i <= 0) BY <1>1
    <2> QED BY <2>1 DEF NameAt
  <1>6. Table(B) /\ IsFiniteSet(DOMAIN B) BY BytesOfIs
  <1> HIDE DEF A, B
  <1>7. CASE a = {}
    <2>1. t = [anims |-> A, bytes |-> B, ok |-> TRUE] BY <1>7, Zenon DEF Named
    <2>2. t.anims = A /\ t.bytes = B /\ t.ok = TRUE BY <2>1
    <2>3. \A i \in 1..Len(z) : G(i) = z[i].name BY <1>7 DEF GivenName
    <2> HIDE DEF t, G
    <2>4. \A i \in 1..Len(z) : /\ t.anims[i].name = NameAt(z, a, 0, i)
                               /\ NameAt(z, a, 0, i) \in DOMAIN t.bytes
                               /\ t.bytes[NameAt(z, a, 0, i)] = z[i].bin
      BY <1>2, <1>4, <1>5, <2>2, <2>3
    <2>5. InPlace(t, z, a, 0) BY <2>2, <2>4 DEF InPlace
    <2> QED BY <2>5 DEF t, A, B
  <1>8. CASE a # {}
    <2> DEFINE new == CHOOSE n \in a : TRUE
               old == A[1].name
               R == [A EXCEPT ![1].name = new]
               M == IF old \in DOMAIN B THEN Moved(B, old, new) ELSE B
               C == Moved(B, old, new)
    <2>1. new \in AnyName BY <1>8, StageAssumption
    <2>2. t \in [anims : {R}, bytes : {M}, ok : {TRUE}] BY <1>1, <1>2, <1>8, NamedIs
    <2>3. old = z[1].name /\ old \in DOMAIN B BY <1>1, <1>2, <1>4
    <2>4. M = C BY <2>3
    <2>5. 1 \in 1..Len(A) BY <1>1, <1>2
    <2>6. G(1) = new /\ \A i \in 1..Len(z) : i # 1 => G(i) = z[i].name BY <1>8 DEF GivenName
    <2> HIDE DEF new, G
    <2>7. /\ R[1].name = new /\ \A j \in 1..Len(A) : j # 1 => R[j] = A[j]
      BY <1>2, <2>1, <2>5, Renamed
    <2> HIDE DEF old
    <2>8. /\ DOMAIN C = (DOMAIN B \ {old}) \cup {new} /\ C[new] = B[old]
          /\ \A m \in DOMAIN B \ {old, new} : C[m] = B[m]
      <3>1. Table(B) /\ IsFiniteSet(DOMAIN B) /\ old \in DOMAIN B /\ new \in AnyName
        BY <1>6, <2>1, <2>3
      <3> QED BY ONLY <3>1, MovedIs
    <2>9. t.anims = R /\ t.bytes = C /\ t.ok = TRUE BY <2>2, <2>4
    <2> HIDE DEF t, R, M, C
    <2>10. ASSUME NEW i \in 1..Len(z)
           PROVE  R[i].name = G(i) /\ G(i) \in DOMAIN C /\ C[G(i)] = z[i].bin
      <3>1. CASE i = 1
        <4>1. B[old] = z[1].bin BY <1>4, <2>3, <3>1
        <4> QED BY <2>6, <2>7, <2>8, <3>1, <4>1
      <3>2. CASE i # 1
        <4>1. z[i].name # old /\ z[i].name # new BY <1>1, <1>3, <2>3, <2>6, <3>2
        <4>2. z[i].name \in DOMAIN B /\ B[z[i].name] = z[i].bin BY <1>4
        <4>3. R[i].name = z[i].name BY <1>2, <2>7, <3>2
        <4> QED BY <2>6, <2>8, <3>2, <4>1, <4>2, <4>3
      <3> QED BY <3>1, <3>2
    <2>11. InPlace(t, z, a, 0) BY <1>5, <2>9, <2>10 DEF InPlace
    <2> QED BY <2>11 DEF t, A, B
  <1> QED BY <1>7, <1>8

LEMMA FitInPlace ==
  ASSUME Roomy, NEW z \in Zips, NEW a \in SUBSET Names, ~ClashIn(z, a),
         NEW s, NEW anims, NEW c, Rewritten(s, anims, c), Len(anims) = Len(z),
         NEW n \in 1..Len(z), InPlace(s, z, a, n - 1)
  PROVE  InPlace(Fit(s, n), z, a, n)
  <1> DEFINE old == s.anims[n].name
             new == Shortened(old, n, Len(anims) > 1)
             t == Fit(s, n)
             P(i) == NameAt(z, a, n - 1, i)
             Q(i) == NameAt(z, a, n, i)
  <1>1. z \in Seq(Packed) /\ Len(z) \in Nat /\ n \in Nat /\ n - 1 \in Nat BY DEF Zips
  <1>2. /\ s.ok = TRUE
        /\ \A i \in 1..Len(z) : /\ s.anims[i].name = P(i) /\ P(i) \in DOMAIN s.bytes
                                /\ s.bytes[P(i)] = z[i].bin
    BY DEF InPlace
  <1>3. \A i \in 1..Len(z) : i # n => P(i) = Q(i)
    <2>1. \A i \in 1..Len(z) : i # n => (i <= n - 1 <=> i <= n) BY <1>1
    <2> QED BY <2>1 DEF NameAt
  <1>4. P(n) = GivenName(z, a, n) /\ old = P(n)
    <2>1. ~(n <= n - 1) BY <1>1
    <2> QED BY <1>2, <2>1 DEF NameAt
  <1>5. Q(n) = IF old.len > Budget THEN new ELSE old
    <2>1. n <= n BY <1>1
    <2> QED BY <1>4, <2>1 DEF NameAt
  <1>6. /\ old \in AnyName /\ new \in AnyName
        /\ ~s.ok \/ old.len <= Budget => t = s
        /\ s.ok /\ ~(old.len <= Budget) /\ old \in DOMAIN s.bytes =>
             t \in [anims : {[s.anims EXCEPT ![n].name = new]},
                    bytes : {Moved(s.bytes, old, new)}, ok : {s.ok}]
    <2>1. n \in 1..Len(anims) OBVIOUS
    <2> QED BY <2>1, FitIs
  <1>7. \A i, j \in 1..Len(z) : i # j => P(i) # P(j) /\ Q(i) # Q(j) BY <1>1, NamesDiffer
  <1>8. old.len \in Nat /\ Budget \in Nat BY <1>6, BudgetIs DEF AnyName
  <1> HIDE DEF new, t, P, Q
  <1>9. CASE old.len <= Budget
    <2>1. t = s BY <1>6, <1>9
    <2>2. Q(n) = P(n) BY <1>4, <1>5, <1>8, <1>9
    <2>3. \A i \in 1..Len(z) : P(i) = Q(i) BY <1>3, <2>2
    <2> HIDE DEF old
    <2>4. InPlace(t, z, a, n) BY <1>2, <2>1, <2>3 DEF InPlace, Q
    <2> QED BY <2>4 DEF t
  <1>10. CASE ~(old.len <= Budget)
    <2> DEFINE R == [s.anims EXCEPT ![n].name = new]
               B == s.bytes
               C == Moved(B, old, new)
    <2>1. old \in DOMAIN B BY <1>2, <1>4
    <2>2. t.anims = R /\ t.bytes = C /\ t.ok = TRUE BY <1>2, <1>6, <1>10, <2>1
    <2>3. Q(n) = new BY <1>5, <1>8, <1>10
    <2>4. s.anims \in Seq(Anim) /\ Len(s.anims) = Len(z) BY DEF Rewritten
    <2>5. n \in 1..Len(s.anims) BY <2>4
    <2>6. R[n].name = new /\ \A j \in 1..Len(s.anims) : j # n => R[j] = s.anims[j]
      BY <1>6, <2>4, <2>5, Renamed
    <2>7. Table(B) /\ IsFiniteSet(DOMAIN B) BY DEF Rewritten
    <2> HIDE DEF R, old
    <2>8. /\ DOMAIN C = (DOMAIN B \ {old}) \cup {new} /\ C[new] = B[old]
          /\ \A m \in DOMAIN B \ {old, new} : C[m] = B[m]
      <3> HIDE DEF B
      <3>1. Table(B) /\ IsFiniteSet(DOMAIN B) /\ old \in DOMAIN B /\ new \in AnyName
        BY <1>6, <2>1, <2>7
      <3>2. C = Moved(B, old, new) OBVIOUS
      <3> HIDE DEF C
      <3>3. DOMAIN Moved(B, old, new) = (DOMAIN B \ {old}) \cup {new} BY DEF Moved
      <3>4. Moved(B, old, new)[new] = B[old] BY <3>1, MovedIs
      <3>5. \A m \in DOMAIN B \ {old, new} : Moved(B, old, new)[m] = B[m] BY <3>1, MovedIs
      <3> QED BY <3>2, <3>3, <3>4, <3>5
    <2> HIDE DEF C
    <2>9. ASSUME NEW i \in 1..Len(z)
          PROVE  R[i].name = Q(i) /\ Q(i) \in DOMAIN C /\ C[Q(i)] = z[i].bin
      <3>1. CASE i = n
        <4>1. B[old] = z[n].bin BY <1>2, <1>4
        <4> QED BY <2>3, <2>6, <2>8, <3>1, <4>1
      <3>2. CASE i # n
        <4>1. P(i) # old /\ P(i) # new /\ P(i) = Q(i) BY <1>3, <1>4, <1>7, <2>3, <3>2
        <4>2. P(i) \in DOMAIN B /\ B[P(i)] = z[i].bin BY <1>2
        <4>3. R[i].name = P(i) BY <1>2, <2>4, <2>6, <3>2
        <4> HIDE DEF B
        <4> QED BY <2>8, <4>1, <4>2, <4>3
      <3> QED BY <3>1, <3>2
    <2>10. InPlace(t, z, a, n) BY <2>2, <2>9 DEF InPlace, Q
    <2> QED BY <2>10 DEF t
  <1> QED BY <1>9, <1>10

LEMMA StagedInPlace ==
  ASSUME Roomy, NEW z \in Zips, NEW sc, Durations(sc), NEW a \in SUBSET Names, ~ClashIn(z, a)
  PROVE  InPlace(Staged(Manifest(z, sc), BytesOf(z), a), z, a, Len(z))
  <1> DEFINE A == Manifest(z, sc)
             B == BytesOf(z)
             L == Len(z)
  <1>1. Unwritten(A, B, L) BY ZipUnwritten
  <1>2. A \in Seq(Anim) /\ Len(A) = L /\ L \in Nat BY ManifestIs DEF Zips
  <1>3. InPlace(Named(A, B, a), z, a, 0) BY NamedInPlace
  <1> HIDE DEF A, B, L
  <1>4. PICK f : Turns(Named(A, B, a), L, f) /\ Staged(A, B, a) = f[L] BY <1>2, StagedIs
  <1>5. \A n \in 0..L : Rewritten(f[n], A, L) BY <1>1, <1>2, <1>4, TurnsKeep
  <1> DEFINE T == {n \in 0..L : ~InPlace(f[n], z, a, n)}
  <1>6. T = {}
    <2> SUFFICES ASSUME T # {} PROVE FALSE OBVIOUS
    <2>1. T \subseteq Nat BY <1>2
    <2> HIDE DEF T
    <2>2. PICK n \in T : \A m \in T : n <= m BY <2>1, Least
    <2>3. n \in 0..L /\ ~InPlace(f[n], z, a, n) BY <2>2 DEF T
    <2>4. f[n] = IF n = 0 THEN Named(A, B, a) ELSE Fit(f[n - 1], n) BY <1>4, <2>3 DEF Turns
    <2>5. CASE n = 0 BY <1>3, <2>3, <2>4, <2>5
    <2>6. CASE n # 0
      <3>1. n - 1 \in 0..L /\ ~(n <= n - 1) /\ n \in 1..L BY <1>2, <2>3, <2>6
      <3>2. n - 1 \notin T BY <2>2, <3>1
      <3>3. InPlace(f[n - 1], z, a, n - 1) BY <3>1, <3>2 DEF T
      <3>4. Rewritten(f[n - 1], A, L) BY <1>5, <3>1
      <3>5. n \in 1..Len(z) /\ Len(A) = Len(z) BY <1>2, <3>1 DEF L
      <3>6. InPlace(Fit(f[n - 1], n), z, a, n) BY <3>3, <3>4, <3>5, FitInPlace
      <3> QED BY <2>3, <2>4, <2>6, <3>6
    <2> QED BY <2>5, <2>6
  <1>7. InPlace(f[L], z, a, L) BY <1>2, <1>6
  <1> QED BY <1>4, <1>7 DEF A, B, L

\* What is offered is there, for any pack and any names that are not in each
\* other's way, if the name of the character and the version leave room on the
\* fan: under its name, of its size, its bytes, with a name the fan takes.
THEOREM OffersWhatWasPacked == ASSUME Roomy PROVE Spec => []ServedAsPacked
  <1> SUFFICES IInv => ServedAsPacked BY AlwaysIInv, PTL
  <1> SUFFICES ASSUME IInv, Listening, read.manifest = read.bytes, ~Clash,
                      NEW i \in DOMAIN st.anims
               PROVE  /\ Get(st, st.anims[i].name) = {read.manifest[i].bin}
                      /\ st.anims[i].size = FileSize(read.manifest[i].bin)
                      /\ Dest(st.anims[i].name) < 31
    BY DEF ServedAsPacked
  <1> DEFINE z == read.manifest
  <1>1. ~Bare BY DEF Bare, NoStage
  <1>2. PICK sc : Done(sc) BY <1>1 DEF IInv, ServerInv, Listening
  <1>3. z \in Zips /\ Durations(sc) /\ st = Staged(Manifest(z, sc), BytesOf(z), as)
    BY <1>2 DEF Done, Told
  <1>4. as \in SUBSET Names BY PushAssumption DEF IInv, ServerInv
  <1>5. ~ClashIn(z, as) BY DEF Clash, ClashIn, Given, GivenName
  <1> HIDE DEF z
  <1>6. InPlace(st, z, as, Len(z)) BY <1>3, <1>4, <1>5, StagedInPlace
  <1>7. Rewritten(st, Manifest(z, sc), Len(z)) BY <1>3, <1>4, ZipUnwritten, StagedKeeps
  <1>8. Len(Manifest(z, sc)) = Len(z) BY <1>3, ManifestIs
  <1>9. i \in 1..Len(z) BY <1>7, <1>8 DEF Rewritten
  <1> DEFINE n == NameAt(z, as, Len(z), i)
  <1>10. st.anims[i].name = n /\ n \in DOMAIN st.bytes /\ st.bytes[n] = z[i].bin
    BY <1>6, <1>9 DEF InPlace
  <1>11. st.anims[i].size = FileSize(z[i].bin)
    <2>1. st.anims[i].size = Manifest(z, sc)[i].size BY <1>7, <1>8, <1>9 DEF Rewritten
    <2>2. Manifest(z, sc)[i].size = FileSize(AtPath(z, z[i])) BY <1>3, <1>9, ManifestIs
    <2>3. DOMAIN z = 1..Len(z) BY <1>3 DEF Zips
    <2>4. \A j, k \in 1..Len(z) : j # k => z[j].name # z[k].name BY <1>5, <2>3 DEF ClashIn
    <2>5. AtPath(z, z[i]) = z[i].bin BY <1>3, <1>9, <2>4, BytesInPlace
    <2> QED BY <2>1, <2>2, <2>5
  <1>12. n.len \in Nat /\ n.len <= Budget
    <2> DEFINE g == GivenName(z, as, i)
               m == Shortened(g, i, Len(z) > 1)
    <2>1. Len(z) \in Nat BY <1>3 DEF Zips
    <2>2. i <= Len(z) /\ i \in Nat \ {0} BY <1>9, <2>1
    <2>3. n = IF g.len > Budget THEN m ELSE g BY <2>2 DEF NameAt
    <2>4. g \in AnyName BY <1>3, <1>4, <1>9, GivenIs
    <2>5. (Len(z) > 1) \in BOOLEAN BY <2>1
    <2>6. m \in AnyName /\ m.len <= Budget BY <2>2, <2>4, <2>5, ShortenedIs
    <2>7. g.len \in Nat /\ m.len \in Nat BY <2>4, <2>6 DEF AnyName
    <2> HIDE DEF g, m, n
    <2> QED BY <2>3, <2>6, <2>7, BudgetIs
  <1> HIDE DEF n
  <1>13. Dest(n) < 31
    <2>1. Budget = 24 - CharLen - VerLen /\ CharLen \in Nat /\ VerLen \in Nat
      BY BudgetIs, StageAssumption
    <2> QED BY <1>12, <2>1 DEF Dest
  <1>14. Get(st, n) = {z[i].bin} BY <1>10 DEF Get
  <1> QED BY <1>10, <1>11, <1>13, <1>14 DEF z
=============================================================================
