---------------------------- MODULE Spiffs_proofs ----------------------------
(***************************************************************************)
(* Theorems about the SPIFFS image builder, for every size of pages, blocks *)
(* and files: what is laid out reads back, the image mounts, and it is full *)
(* only when it is.                                                         *)
(***************************************************************************)
EXTENDS Spiffs, TLAPS, WellFoundedInduction
-----------------------------------------------------------------------------
(***************************************************************************)
(* Division.                                                                *)
(***************************************************************************)
\* Quotient and remainder, and that there is one pair of them.
LEMMA DivIs ==
  ASSUME NEW n \in Nat, NEW d \in Nat \ {0}
  PROVE  n \div d \in Nat /\ n % d \in Nat /\ n % d < d /\ n = d * (n \div d) + (n % d)
  OBVIOUS

LEMMA Euclid ==
  ASSUME NEW d \in Nat \ {0}, NEW a \in Nat, NEW b \in Nat, NEW r \in Nat, NEW s \in Nat,
         r < d, s < d, a * d + r = b * d + s
  PROVE  a = b /\ r = s
  <1>1. ~(a < b)
    <2> SUFFICES ASSUME a + 1 <= b PROVE FALSE OBVIOUS
    <2>1. (a + 1) * d <= b * d OBVIOUS
    <2>2. (a + 1) * d = a * d + d OBVIOUS
    <2>3. a * d \in Nat /\ b * d \in Nat OBVIOUS
    <2> QED BY <2>1, <2>2, <2>3
  <1>2. ~(b < a)
    <2> SUFFICES ASSUME b + 1 <= a PROVE FALSE OBVIOUS
    <2>1. (b + 1) * d <= a * d OBVIOUS
    <2>2. (b + 1) * d = b * d + d OBVIOUS
    <2>3. a * d \in Nat /\ b * d \in Nat OBVIOUS
    <2> QED BY <2>1, <2>2, <2>3
  <1> QED BY <1>1, <1>2

LEMMA DivMod ==
  ASSUME NEW d \in Nat \ {0}, NEW a \in Nat, NEW r \in Nat, r < d
  PROVE  (a * d + r) \div d = a /\ (a * d + r) % d = r
  <1> DEFINE n == a * d + r
             q == n \div d
             m == n % d
  <1>1. n \in Nat OBVIOUS
  <1>2. q \in Nat /\ m \in Nat /\ m < d /\ n = d * q + m BY <1>1, DivIs
  <1> HIDE DEF q, m
  <1>3. d * q = q * d BY <1>2
  <1> QED BY <1>2, <1>3, Euclid DEF q, m

\* Rounded up, a quotient is a number whose product is not less.
LEMMA RoundUpIs ==
  ASSUME NEW n \in Nat, NEW d \in Nat \ {0}
  PROVE  RoundUp(n, d) \in Nat /\ n <= d * RoundUp(n, d)
  <1> DEFINE m == n + d - 1
             q == m \div d
  <1>1. m \in Nat OBVIOUS
  <1>2. q \in Nat /\ m % d \in Nat /\ m % d < d /\ m = d * q + (m % d) BY <1>1, DivIs
  <1>3. RoundUp(n, d) = q BY DEF RoundUp
  <1> DEFINE r == m % d
             p == d * q
  <1>4. p \in Nat BY <1>2
  <1>5. m = p + r /\ r < d /\ r \in Nat BY <1>2
  <1> HIDE DEF q, r, p
  <1>6. n <= p BY <1>4, <1>5
  <1> QED BY <1>2, <1>3, <1>6 DEF p, q

\* The number rounded up to is the one whose product is next above.
LEMMA RoundUpNext ==
  ASSUME NEW n \in Nat, NEW d \in Nat \ {0}, NEW a \in Nat, a * d < n, n <= (a + 1) * d
  PROVE  RoundUp(n, d) = a + 1
  <1> DEFINE r == n - a * d - 1
             p == a * d
  <1>1. p \in Nat /\ (a + 1) * d = p + d OBVIOUS
  <1>2. r \in Nat /\ r < d
    <2> HIDE DEF p
    <2>1. p < n /\ n <= p + d /\ r = n - p - 1 BY <1>1 DEF p
    <2> HIDE DEF r
    <2> QED BY <1>1, <2>1
  <1>3. n + d - 1 = (a + 1) * d + r
    <2> HIDE DEF p
    <2>1. r = n - p - 1 BY DEF p
    <2> HIDE DEF r
    <2> QED BY <1>1, <1>2, <2>1
  <1> HIDE DEF r
  <1>4. a + 1 \in Nat OBVIOUS
  <1> QED BY <1>2, <1>3, <1>4, DivMod DEF RoundUp

(***************************************************************************)
(* The build configuration.                                                 *)
(***************************************************************************)
LEMMA SizesAre ==
  /\ PagesPerBlock \in Nat /\ LuPages \in Nat /\ UsablePages \in Nat \ {0}
  /\ PagesPerBlock = LuPages + UsablePages
  /\ ContentLen \in Nat \ {0} /\ HeadLim \in Nat /\ IndexLim \in Nat \ {0}
  /\ LuCap \in Nat
  <1>1. PageSize \in Nat \ {0} /\ BlockSize \in Nat /\ ObjNameLen \in Nat /\ MetaLen \in Nat
    BY SpiffsAssumption
  <1>2. PagesPerBlock \in Nat BY <1>1, DivIs DEF PagesPerBlock
  <1>3. PagesPerBlock * IdLen \in Nat BY <1>2 DEF IdLen
  <1>4. LuPages \in Nat BY <1>1, <1>3, RoundUpIs DEF LuPages
  <1>5. UsablePages \in Nat \ {0} /\ PagesPerBlock = LuPages + UsablePages
    BY <1>2, <1>4, RoomAssumption DEF UsablePages
  <1>6. ContentLen \in Nat \ {0} BY <1>1, RoomAssumption DEF ContentLen, DataHeader, IdLen
  <1>7. DataHeaderAligned = 8
    <2>1. DataHeader = 5 BY DEF DataHeader, IdLen
    <2>2. RoundUp(5, 4) = 2 BY DEF RoundUp
    <2> QED BY <2>1, <2>2 DEF DataHeaderAligned
  <1>8. IndexHeader \in Nat /\ IndexHeader >= 13 BY <1>1, <1>7 DEF IndexHeader
  <1>9. IndexHeaderAligned \in Nat /\ IndexHeaderAligned >= 13
    BY <1>8, RoundUpIs DEF IndexHeaderAligned
  <1>10. PageSize - IndexHeaderAligned \in Nat /\ PageSize - DataHeaderAligned \in Nat
    BY <1>1, <1>7, <1>9, RoomAssumption
  <1>11. HeadLim \in Nat BY <1>10, DivIs DEF HeadLim, IdLen
  <1>12. IndexLim \in Nat \ {0} BY <1>10, DivIs, RoomAssumption DEF IndexLim, IdLen
  <1>13. LuCap \in Nat
    <2>1. LuIdsLim \in Nat BY <1>1, DivIs DEF LuIdsLim, IdLen
    <2> QED BY <1>4, <2>1 DEF LuCap
  <1> QED BY <1>2, <1>4, <1>5, <1>6, <1>11, <1>12, <1>13

LEMMA ChunksAre ==
  ASSUME NEW f \in Files
  PROVE  FileSize[f] \in Nat /\ Chunks(f) \in Nat /\ Chunks(f) = RoundUp(FileSize[f], ContentLen)
  <1>1. FileSize[f] \in Nat BY SpiffsAssumption
  <1> QED BY <1>1, SizesAre, RoundUpIs DEF Chunks

-----------------------------------------------------------------------------
(***************************************************************************)
(* Where the pages are.                                                     *)
(***************************************************************************)
Locs(bs) == {x \in (1..Len(bs)) \X (1..UsablePages) : x[2] <= Len(bs[x[1]].pages)}
At(bs, x) == bs[x[1]].pages[x[2]]

\* Page number in the image.
Number(x) == (x[1] - 1) * PagesPerBlock + LuPages + (x[2] - 1)

CurType == [file : Files \cup {""}, span : Nat, data : Nat, left : Nat, at : Nat \X Nat]

\* What a block is: as many lookup entries as pages, and they agree.
Mirrored(b) ==
  /\ Len(b.pages) <= UsablePages /\ Len(b.lu) = Len(b.pages)
  /\ \A i \in 1..Len(b.pages) :
       b.lu[i] = [id |-> b.pages[i].id, index |-> b.pages[i].kind = "index"]

\* The open index page of a file that is being written.
Open ==
  phase = "writing" =>
    /\ cur.file \in Files /\ cur.at \in Locs(blocks)
    /\ At(blocks, cur.at) \in IndexPages
    /\ At(blocks, cur.at).id = Id /\ At(blocks, cur.at).span = cur.span - 1 /\ cur.span > 0
    /\ cur.data + cur.left = Chunks(cur.file)

\* Nothing has been laid out of a file that is to come.
Before ==
  /\ phase = "start" => blocks = <<>> /\ created = <<>>
  /\ \A x \in Locs(blocks) :
       At(blocks, x).id <= Id /\ (phase # "writing" /\ phase # "failed" => At(blocks, x).id < Id)

LayoutInv ==
  /\ TypeOK
  /\ \A b \in 1..Len(blocks) : Mirrored(blocks[b])
  /\ Open /\ Before

(***************************************************************************)
(* An object: its index pages have the spans 0 to n - 1, one each, all but  *)
(* the last full, and record its first d data pages in order.               *)
(***************************************************************************)
IndexLocs(bs, k) == {x \in Locs(bs) : At(bs, x).kind = "index" /\ At(bs, x).id = k}

\* The span of the first data page that index page j records.
Base(j) == IF j = 0 THEN 0 ELSE HeadLim + (j - 1) * IndexLim

Chunk(k, s) == [kind |-> "data", id |-> k, span |-> s, part |-> s + 1]

\* The data pages an index page of object k names.
Entries(bs, k, page) ==
  \A q \in 1..Len(page.pages) :
    \E y \in Locs(bs) :
      page.pages[q] = Number(y) /\ At(bs, y) = Chunk(k, Base(page.span) + (q - 1))

\* Index page of object k, of which d data pages are recorded in n index pages.
Records(bs, k, page, f, n, d) ==
  /\ page.span < n /\ page.size = FileSize[f]
  /\ Len(page.pages) = (IF page.span = n - 1 THEN d ELSE Base(page.span + 1)) - Base(page.span)
  /\ Entries(bs, k, page)

Laid(bs, k, f, n, d) ==
  /\ n \in Nat \ {0} /\ d \in Nat /\ Base(n - 1) <= d /\ d <= Base(n)
  /\ \A j \in 0..(n - 1) : \E x \in IndexLocs(bs, k) : At(bs, x).span = j
  /\ \A x, y \in IndexLocs(bs, k) : At(bs, x).span = At(bs, y).span => x = y
  /\ \A x \in IndexLocs(bs, k) : Records(bs, k, At(bs, x), f, n, d)

\* The files created, whole.
CreatedLaid == \A k \in 1..Len(created) :
                 \E n \in Nat : Laid(blocks, k, created[k], n, Chunks(created[k]))

ObjectsInv ==
  /\ LayoutInv /\ CreatedLaid
  /\ phase = "writing" => Laid(blocks, Id, cur.file, cur.span, cur.data)

(***************************************************************************)
(* How many pages there are.                                                *)
(***************************************************************************)
Used == IF blocks = <<>> THEN 0 ELSE (Len(blocks) - 1) * UsablePages + Len(LastBlock(blocks).pages)

CountInv ==
  /\ ObjectsInv
  /\ phase \in {"start", "walking"} => Used = NeedAll(created)
  /\ phase = "writing" =>
       /\ Used = NeedAll(created) + cur.span + cur.data
       /\ cur.span > 1 => Base(cur.span - 1) < Chunks(cur.file)
(***************************************************************************)
(* What the steps do to the blocks.                                         *)
(***************************************************************************)
BlockType == [pages : Seq(Pages), lu : Seq(LuEntries)]

LEMMA PageFields ==
  ASSUME NEW page \in Pages
  PROVE  /\ page.id \in Nat /\ page.span \in Nat /\ page.kind \in {"index", "data"}
         /\ page.kind = "index" =>
              page \in IndexPages /\ page.pages \in Seq(Nat) /\ page.size \in Nat
         /\ page.kind = "data" => page \in DataPages
  BY DEF Pages, IndexPages, DataPages

LEMMA LocsAre ==
  ASSUME NEW bs \in Seq(BlockType), NEW x \in Locs(bs)
  PROVE  /\ x[1] \in 1..Len(bs) /\ x[2] \in 1..Len(bs[x[1]].pages) /\ x = <<x[1], x[2]>>
         /\ x[2] \in 1..UsablePages
         /\ At(bs, x) \in Pages
  <1>1. x[1] \in 1..Len(bs) /\ x[2] \in 1..UsablePages /\ x[2] <= Len(bs[x[1]].pages)
        /\ x = <<x[1], x[2]>>
    BY DEF Locs
  <1>2. bs[x[1]] \in BlockType BY <1>1
  <1>3. bs[x[1]].pages \in Seq(Pages) BY <1>2 DEF BlockType
  <1>4. x[2] \in 1..Len(bs[x[1]].pages) BY <1>1, <1>3, SizesAre
  <1> QED BY <1>1, <1>3, <1>4 DEF At

\* A page goes behind the others.
LEMMA Registered ==
  ASSUME NEW bs \in Seq(BlockType), bs # <<>>, NEW page \in Pages,
         Mirrored(LastBlock(bs)), Remaining(LastBlock(bs)) # 0
  PROVE  LET new == RegisterPage(bs, page)
             at == <<Len(bs), Len(LastBlock(bs).pages) + 1>>
         IN  /\ new \in Seq(BlockType) /\ Len(new) = Len(bs)
             /\ \A b \in 1..Len(bs) : b # Len(bs) => new[b] = bs[b]
             /\ LastBlock(new).pages = Append(LastBlock(bs).pages, page)
             /\ Mirrored(LastBlock(new))
             /\ at \notin Locs(bs) /\ Locs(new) = Locs(bs) \cup {at}
             /\ At(new, at) = page
             /\ \A x \in Locs(bs) : At(new, x) = At(bs, x)
  <1> DEFINE new == RegisterPage(bs, page)
             L == Len(bs)
             last == bs[L]
             at == <<L, Len(last.pages) + 1>>
             block == [pages |-> Append(last.pages, page),
                       lu |-> Append(last.lu, [id |-> page.id, index |-> page.kind = "index"])]
  <1>1. L \in Nat \ {0} /\ last \in BlockType /\ L \in 1..L
    <2>1. L \in Nat /\ L # 0 OBVIOUS
    <2> QED BY <2>1
  <1>2. last.pages \in Seq(Pages) /\ last.lu \in Seq(LuEntries) BY <1>1 DEF BlockType
  <1>3. [id |-> page.id, index |-> page.kind = "index"] \in LuEntries
    BY PageFields DEF LuEntries
  <1>4. block \in BlockType BY <1>2, <1>3 DEF BlockType
  <1>5. new = [bs EXCEPT ![L] = block] BY DEF RegisterPage
  <1> HIDE DEF new, block
  <1>6. /\ new \in Seq(BlockType) /\ Len(new) = L /\ new[L] = block
        /\ \A b \in 1..L : b # L => new[b] = bs[b]
    BY <1>1, <1>4, <1>5
  <1>7. /\ Len(last.pages) \in Nat /\ Len(last.lu) = Len(last.pages)
        /\ Len(last.pages) < UsablePages
        /\ \A i \in 1..Len(last.pages) :
             last.lu[i] = [id |-> last.pages[i].id, index |-> last.pages[i].kind = "index"]
    BY <1>2, SizesAre DEF Mirrored, Remaining, LastBlock
  <1>8. block.pages = Append(last.pages, page)
        /\ block.lu = Append(last.lu, [id |-> page.id, index |-> page.kind = "index"])
    BY DEF block
  <1>9. Mirrored(block)
    <2>1. /\ Len(block.pages) = Len(last.pages) + 1 /\ Len(block.lu) = Len(last.lu) + 1
          /\ \A i \in 1..Len(last.pages) : block.pages[i] = last.pages[i] /\ block.lu[i] = last.lu[i]
          /\ block.pages[Len(last.pages) + 1] = page
          /\ block.lu[Len(last.pages) + 1] = [id |-> page.id, index |-> page.kind = "index"]
      BY <1>2, <1>3, <1>7, <1>8
    <2>2. ASSUME NEW i \in 1..Len(block.pages)
          PROVE  block.lu[i] = [id |-> block.pages[i].id, index |-> block.pages[i].kind = "index"]
      <3>1. i \in 1..Len(last.pages) \/ i = Len(last.pages) + 1 BY <1>7, <2>1
      <3>2. CASE i \in 1..Len(last.pages) BY <1>7, <2>1, <3>2
      <3>3. CASE i = Len(last.pages) + 1 BY <2>1, <3>3
      <3> QED BY <3>1, <3>2, <3>3
    <2>3. Len(block.pages) <= UsablePages /\ Len(block.lu) = Len(block.pages)
      BY <1>7, <2>1, SizesAre
    <2> QED BY <2>2, <2>3 DEF Mirrored
  <1>10. at \notin Locs(bs)
    <2> SUFFICES ASSUME at \in Locs(bs) PROVE FALSE OBVIOUS
    <2>1. at[2] \in 1..Len(bs[at[1]].pages) BY LocsAre
    <2> QED BY <1>7, <2>1
  <1>11. Locs(new) = Locs(bs) \cup {at}
    <2>1. ASSUME NEW x \in Locs(new) PROVE x \in Locs(bs) \cup {at}
      <3>1. x[1] \in 1..L /\ x[2] \in 1..Len(new[x[1]].pages) /\ x = <<x[1], x[2]>>
            /\ x[2] \in 1..UsablePages
        BY <1>6, LocsAre
      <3>2. CASE x[1] # L BY <1>6, <3>1, <3>2 DEF Locs
      <3>3. CASE x[1] = L
        <4>1. x[2] \in 1..(Len(last.pages) + 1) BY <1>2, <1>6, <1>8, <3>1, <3>3
        <4>2. CASE x[2] = Len(last.pages) + 1 BY <3>1, <3>3, <4>2
        <4>3. CASE x[2] # Len(last.pages) + 1
          <5>1. x[2] <= Len(last.pages) BY <1>7, <4>1, <4>3
          <5> QED BY <1>1, <3>1, <3>3, <5>1 DEF Locs
        <4> QED BY <4>2, <4>3
      <3> QED BY <3>2, <3>3
    <2>2. ASSUME NEW x \in Locs(bs) PROVE x \in Locs(new)
      <3>1. x[1] \in 1..L /\ x[2] \in 1..Len(bs[x[1]].pages) /\ x = <<x[1], x[2]>>
            /\ x[2] \in 1..UsablePages
        BY LocsAre
      <3>2. CASE x[1] # L BY <1>6, <3>1, <3>2 DEF Locs
      <3>3. CASE x[1] = L
        <4>1. Len(new[x[1]].pages) = Len(last.pages) + 1 BY <1>2, <1>6, <1>8, <3>3
        <4>2. x[2] <= Len(new[x[1]].pages) BY <1>7, <3>1, <3>3, <4>1
        <4> QED BY <1>6, <3>1, <4>2 DEF Locs
      <3> QED BY <3>2, <3>3
    <2>3. at \in Locs(new)
      <3>1. Len(new[L].pages) = Len(last.pages) + 1 BY <1>2, <1>6, <1>8
      <3>2. Len(last.pages) + 1 \in 1..UsablePages BY <1>7, SizesAre
      <3> QED BY <1>1, <1>6, <1>7, <3>1, <3>2 DEF Locs
    <2> QED BY <2>1, <2>2, <2>3
  <1>12. At(new, at) = page BY <1>2, <1>6, <1>7, <1>8 DEF At
  <1>13. ASSUME NEW x \in Locs(bs) PROVE At(new, x) = At(bs, x)
    <2>1. x[1] \in 1..L /\ x[2] \in 1..Len(bs[x[1]].pages) BY LocsAre
    <2>2. CASE x[1] # L BY <1>6, <2>1, <2>2 DEF At
    <2>3. CASE x[1] = L BY <1>2, <1>6, <1>8, <2>1, <2>3 DEF At
    <2> QED BY <2>2, <2>3
  <1> QED
    BY <1>6, <1>8, <1>9, <1>10, <1>11, <1>12, <1>13 DEF new, LastBlock

\* A block more holds no page yet.
LEMMA Begun ==
  ASSUME NEW bs \in Seq(BlockType)
  PROVE  LET new == Append(bs, NewBlock)
         IN  /\ new \in Seq(BlockType) /\ Len(new) = Len(bs) + 1 /\ new # <<>>
             /\ \A b \in 1..Len(bs) : new[b] = bs[b]
             /\ LastBlock(new) = NewBlock /\ Mirrored(NewBlock) /\ Remaining(NewBlock) # 0
             /\ Locs(new) = Locs(bs) /\ \A x \in Locs(bs) : At(new, x) = At(bs, x)
  <1> DEFINE new == Append(bs, NewBlock)
  <1>1. NewBlock \in BlockType /\ NewBlock.pages = <<>> /\ NewBlock.lu = <<>>
    BY DEF NewBlock, BlockType
  <1>2. Mirrored(NewBlock) /\ Remaining(NewBlock) # 0
    BY <1>1, SizesAre DEF Mirrored, Remaining
  <1> HIDE DEF NewBlock
  <1>3. /\ new \in Seq(BlockType) /\ Len(new) = Len(bs) + 1 /\ Len(bs) \in Nat
        /\ \A b \in 1..Len(bs) : new[b] = bs[b]
        /\ new[Len(bs) + 1] = NewBlock
    BY <1>1
  <1> HIDE DEF new
  <1>4. new # <<>> /\ LastBlock(new) = NewBlock BY <1>3 DEF LastBlock
  <1>5. Locs(new) = Locs(bs)
    <2>1. ASSUME NEW x \in Locs(new) PROVE x \in Locs(bs)
      <3>1. x[1] \in 1..(Len(bs) + 1) /\ x[2] \in 1..Len(new[x[1]].pages) /\ x = <<x[1], x[2]>>
            /\ x[2] \in 1..UsablePages
        BY <1>3, LocsAre
      <3>2. x[1] # Len(bs) + 1 BY <1>1, <1>3, <3>1
      <3>3. x[1] \in 1..Len(bs) BY <1>3, <3>1, <3>2
      <3> QED BY <1>3, <3>1, <3>3 DEF Locs
    <2>2. ASSUME NEW x \in Locs(bs) PROVE x \in Locs(new)
      <3>1. x[1] \in 1..Len(bs) /\ x[2] \in 1..Len(bs[x[1]].pages) /\ x = <<x[1], x[2]>>
            /\ x[2] \in 1..UsablePages
        BY LocsAre
      <3>2. x[1] \in 1..Len(new) BY <1>3, <3>1
      <3> QED BY <1>3, <3>1, <3>2 DEF Locs
    <2> QED BY <2>1, <2>2
  <1>6. ASSUME NEW x \in Locs(bs) PROVE At(new, x) = At(bs, x)
    BY <1>3, LocsAre DEF At
  <1> QED BY <1>2, <1>3, <1>4, <1>5, <1>6 DEF new

\* A number more in the table of an index page.
WithNumber(page, n) == [page EXCEPT !.pages = Append(@, n)]
WithEntry(bs, at, n) == [bs EXCEPT ![at[1]].pages[at[2]].pages = Append(@, n)]
LEMMA Recorded ==
  ASSUME NEW bs \in Seq(BlockType), NEW at \in Locs(bs), At(bs, at) \in IndexPages, NEW n \in Nat
  PROVE  LET new == WithEntry(bs, at, n)
         IN  /\ new \in Seq(BlockType) /\ Len(new) = Len(bs)
             /\ \A b \in 1..Len(bs) : /\ Len(new[b].pages) = Len(bs[b].pages)
                                      /\ Mirrored(bs[b]) => Mirrored(new[b])
             /\ Locs(new) = Locs(bs)
             /\ At(new, at) = WithNumber(At(bs, at), n)
             /\ \A x \in Locs(bs) : x # at => At(new, x) = At(bs, x)
  <1> DEFINE new == WithEntry(bs, at, n)
             b == at[1]
             i == at[2]
             old == bs[b]
             page == old.pages[i]
             put == [page EXCEPT !.pages = Append(@, n)]
             pages == [old.pages EXCEPT ![i] = put]
             block == [old EXCEPT !.pages = pages]
  <1>1. b \in 1..Len(bs) /\ i \in 1..Len(old.pages) /\ at = <<b, i>> BY LocsAre
  <1>2. old \in BlockType BY <1>1
  <1>3. old.pages \in Seq(Pages) /\ old.lu \in Seq(LuEntries) BY <1>2 DEF BlockType
  <1>4. page \in IndexPages BY DEF At
  <1>5. new = [bs EXCEPT ![b] = block] BY DEF WithEntry
  <1> HIDE DEF new
  <1>6. put \in IndexPages /\ put.id = page.id /\ put.kind = page.kind
    <2> HIDE DEF page
    <2>1. page.pages \in Seq(Nat) /\ page.kind = "index" BY <1>4 DEF IndexPages
    <2>2. Append(page.pages, n) \in Seq(Nat) BY <2>1
    <2> DEFINE more == Append(page.pages, n)
    <2>3. put = [page EXCEPT !.pages = more] OBVIOUS
    <2> HIDE DEF more, put
    <2>4. more \in Seq(Nat) BY <2>2 DEF more
    <2> QED BY <1>4, <2>3, <2>4 DEF IndexPages
  <1> HIDE DEF put
  <1>7. put \in Pages BY <1>6 DEF Pages
  <1> HIDE DEF page
  <1>8. /\ pages \in Seq(Pages) /\ Len(pages) = Len(old.pages) /\ pages[i] = put
        /\ \A j \in 1..Len(old.pages) : j # i => pages[j] = old.pages[j]
    <2> HIDE DEF old, i
    <2> QED BY <1>1, <1>3, <1>7
  <1> HIDE DEF pages
  <1>9. block \in BlockType /\ block.pages = pages /\ block.lu = old.lu
    BY <1>2, <1>8 DEF BlockType
  <1> HIDE DEF block
  <1>10. /\ new \in Seq(BlockType) /\ Len(new) = Len(bs) /\ new[b] = block
         /\ \A c \in 1..Len(bs) : c # b => new[c] = bs[c]
    <2> HIDE DEF b
    <2> QED BY <1>1, <1>5, <1>9
  <1>11. ASSUME NEW c \in 1..Len(bs)
         PROVE  Len(new[c].pages) = Len(bs[c].pages) /\ (Mirrored(bs[c]) => Mirrored(new[c]))
    <2>1. CASE c # b BY <1>10, <2>1
    <2>2. CASE c = b
      <3>1. Len(new[c].pages) = Len(bs[c].pages) BY <1>8, <1>9, <1>10, <2>2
      <3>2. ASSUME Mirrored(old) PROVE Mirrored(block)
        <4>1. \A j \in 1..Len(old.pages) :
                block.pages[j].id = old.pages[j].id /\ block.pages[j].kind = old.pages[j].kind
          BY <1>6, <1>8, <1>9 DEF page
        <4> QED BY <1>8, <1>9, <3>2, <4>1 DEF Mirrored
      <3> QED BY <1>10, <2>2, <3>1, <3>2
    <2> QED BY <2>1, <2>2
  <1>12. Locs(new) = Locs(bs) BY <1>10, <1>11 DEF Locs
  <1>13. At(new, at) = put BY <1>1, <1>8, <1>9, <1>10 DEF At
  <1>14. put = WithNumber(At(bs, at), n) BY <1>1 DEF put, page, At, WithNumber
  <1>15. ASSUME NEW x \in Locs(bs), x # at PROVE At(new, x) = At(bs, x)
    <2>1. x[1] \in 1..Len(bs) /\ x[2] \in 1..Len(bs[x[1]].pages) /\ x = <<x[1], x[2]>> BY LocsAre
    <2>2. CASE x[1] # b BY <1>10, <2>1, <2>2 DEF At
    <2>3. CASE x[1] = b
      <3>1. x[2] # i BY <1>1, <1>15, <2>1, <2>3
      <3> QED BY <1>8, <1>9, <1>10, <2>1, <2>3, <3>1 DEF At
    <2> QED BY <2>2, <2>3
  <1> QED BY <1>10, <1>11, <1>12, <1>13, <1>14, <1>15 DEF new

LEMMA LayoutTypes ==
  ASSUME LayoutInv
  PROVE  /\ blocks \in Seq(BlockType) /\ Len(blocks) \in Nat /\ Len(blocks) <= Blocks
         /\ Blocks \in Nat
         /\ created \in Seq(Files) /\ Len(created) \in Nat /\ Id \in Nat \ {0}
         /\ todo \subseteq Files
         /\ cur.span \in Nat /\ cur.data \in Nat /\ cur.left \in Nat
         /\ \A b \in 1..Len(blocks) : Mirrored(blocks[b])
         /\ phase \in {"start", "walking", "writing", "written", "told", "failed"}
  <1>1. /\ blocks \in Seq(BlockType) /\ Len(blocks) <= Blocks
        /\ created \in Seq(Files) /\ todo \subseteq Files
        /\ phase \in {"start", "walking", "writing", "written", "told", "failed"}
        /\ \A b \in 1..Len(blocks) : Mirrored(blocks[b])
    BY DEF LayoutInv, TypeOK, BlockType
  <1>2. cur.span \in Nat /\ cur.data \in Nat /\ cur.left \in Nat
    BY DEF LayoutInv, TypeOK, CurType
  <1>3. Len(blocks) \in Nat /\ Len(created) \in Nat BY <1>1
  <1>4. Id \in Nat \ {0} BY <1>3 DEF Id
  <1>5. Blocks \in Nat BY SpiffsAssumption
  <1> QED BY <1>1, <1>2, <1>3, <1>4, <1>5

\* The last block, where it has room.
LEMMA RoomLeft ==
  ASSUME LayoutInv, ~BlockFull
  PROVE  /\ blocks # <<>> /\ Len(blocks) \in Nat \ {0}
         /\ Mirrored(LastBlock(blocks)) /\ Remaining(LastBlock(blocks)) # 0
  <1>1. blocks # <<>> /\ Remaining(LastBlock(blocks)) # 0 BY DEF BlockFull
  <1>2. blocks \in Seq(BlockType) /\ \A b \in 1..Len(blocks) : Mirrored(blocks[b])
    BY LayoutTypes
  <1>3. Len(blocks) \in Nat \ {0} BY <1>1, <1>2
  <1>4. Len(blocks) \in 1..Len(blocks) BY <1>3
  <1> QED BY <1>1, <1>2, <1>3, <1>4 DEF LastBlock

\* An index page is begun in the last block.
LEMMA BeginObjIs ==
  ASSUME NEW bs \in Seq(BlockType), bs # <<>>, \A b \in 1..Len(bs) : Mirrored(bs[b]),
         Remaining(LastBlock(bs)) # 0,
         NEW id \in Nat, NEW f \in Files, NEW span \in Nat, NEW data \in Nat, NEW left \in Nat,
         BeginObj(bs, id, f, span, data, left)
  PROVE  /\ blocks' \in Seq(BlockType) /\ Len(blocks') = Len(bs)
         /\ \A b \in 1..Len(blocks') : Mirrored(blocks'[b])
         /\ LastBlock(blocks').pages = Append(LastBlock(bs).pages, IndexPage(id, span, f))
         /\ cur'.file = f /\ cur'.span = span + 1 /\ cur'.data = data /\ cur'.left = left
         /\ cur' \in CurType
         /\ cur'.at \notin Locs(bs) /\ Locs(blocks') = Locs(bs) \cup {cur'.at}
         /\ At(blocks', cur'.at) = IndexPage(id, span, f)
         /\ \A x \in Locs(bs) : At(blocks', x) = At(bs, x)
         /\ IndexPage(id, span, f) \in IndexPages
  <1> DEFINE page == IndexPage(id, span, f)
             at == <<Len(bs), Len(LastBlock(bs).pages) + 1>>
  <1>1. page \in IndexPages
    <2>1. FileSize[f] \in Nat /\ NameBytes[f] - NameChars[f] \in Nat BY SpiffsAssumption
    <2> QED BY <2>1 DEF IndexPage, IndexPages
  <1>2. page \in Pages BY <1>1 DEF Pages
  <1>3. blocks' = RegisterPage(bs, page)
        /\ cur' = [file |-> f, span |-> span + 1, data |-> data, left |-> left, at |-> at]
    BY DEF BeginObj
  <1> HIDE DEF page
  <1>4. Len(bs) \in Nat /\ Len(bs) \in 1..Len(bs) OBVIOUS
  <1>5. Mirrored(LastBlock(bs)) BY <1>4 DEF LastBlock
  <1>6. /\ blocks' \in Seq(BlockType) /\ Len(blocks') = Len(bs)
        /\ \A b \in 1..Len(bs) : b # Len(bs) => blocks'[b] = bs[b]
        /\ LastBlock(blocks').pages = Append(LastBlock(bs).pages, page)
        /\ Mirrored(LastBlock(blocks'))
        /\ at \notin Locs(bs) /\ Locs(blocks') = Locs(bs) \cup {at}
        /\ At(blocks', at) = page
        /\ \A x \in Locs(bs) : At(blocks', x) = At(bs, x)
    <2>1. LET new == RegisterPage(bs, page)
          IN  /\ new \in Seq(BlockType) /\ Len(new) = Len(bs)
              /\ \A b \in 1..Len(bs) : b # Len(bs) => new[b] = bs[b]
              /\ LastBlock(new).pages = Append(LastBlock(bs).pages, page)
              /\ Mirrored(LastBlock(new))
              /\ at \notin Locs(bs) /\ Locs(new) = Locs(bs) \cup {at}
              /\ At(new, at) = page
              /\ \A x \in Locs(bs) : At(new, x) = At(bs, x)
      BY <1>2, <1>5, Registered, Zenon
    <2> HIDE DEF at
    <2> QED BY <1>3, <2>1
  <1>7. \A b \in 1..Len(blocks') : Mirrored(blocks'[b])
    BY <1>6 DEF LastBlock
  <1>8. at \in Nat \X Nat
    <2>1. LastBlock(bs) \in BlockType BY <1>4 DEF LastBlock
    <2>2. Len(LastBlock(bs).pages) \in Nat BY <2>1 DEF BlockType
    <2> QED BY <1>4, <2>2
  <1> HIDE DEF at
  <1>9. /\ cur'.file = f /\ cur'.span = span + 1 /\ cur'.data = data /\ cur'.left = left
        /\ cur'.at = at
        /\ cur' \in CurType
    <2>1. cur' = [file |-> f, span |-> span + 1, data |-> data, left |-> left, at |-> at]
      BY <1>3 DEF at
    <2>2. f \in Files \cup {""} BY Zenon
    <2>3. span + 1 \in Nat OBVIOUS
    <2> QED BY ONLY <1>8, <2>1, <2>2, <2>3, data \in Nat, left \in Nat DEF CurType
  <1> QED BY <1>1, <1>6, <1>7, <1>9 DEF page

\* Where the head index page of a file goes.
LEMMA CreateFileIs ==
  ASSUME LayoutInv, NEW f \in Files, CreateFile(f)
  PROVE  /\ phase = "walking" /\ phase' = "writing" /\ f \in todo /\ todo' = todo \ {f}
         /\ out' = out /\ created' = created /\ Id' = Id
         /\ blocks' \in Seq(BlockType) /\ Len(blocks') <= Blocks
         /\ \A b \in 1..Len(blocks') : Mirrored(blocks'[b])
         /\ cur'.file = f /\ cur'.span = 1 /\ cur'.data = 0 /\ cur'.left = Chunks(f)
         /\ cur' \in CurType
         /\ cur'.at \notin Locs(blocks) /\ Locs(blocks') = Locs(blocks) \cup {cur'.at}
         /\ At(blocks', cur'.at) = IndexPage(Id, 0, f)
         /\ \A x \in Locs(blocks) : At(blocks', x) = At(blocks, x)
         /\ IndexPage(Id, 0, f) \in IndexPages
         /\ IF BlockFull
            THEN /\ Len(blocks') = Len(blocks) + 1
                 /\ LastBlock(blocks').pages = Append(<<>>, IndexPage(Id, 0, f))
            ELSE /\ Len(blocks') = Len(blocks)
                 /\ LastBlock(blocks').pages = Append(LastBlock(blocks).pages, IndexPage(Id, 0, f))
  <1> DEFINE bs == IF BlockFull THEN Append(blocks, NewBlock) ELSE blocks
  <1>1. /\ phase = "walking" /\ phase' = "writing" /\ f \in todo /\ todo' = todo \ {f}
        /\ out' = out /\ created' = created /\ ~(BlockFull /\ ImageFull)
        /\ BeginObj(bs, Id, f, 0, 0, Chunks(f))
    BY DEF CreateFile, Chunks
  <1>2. /\ blocks \in Seq(BlockType) /\ Len(blocks) \in Nat /\ Len(blocks) <= Blocks
        /\ Blocks \in Nat /\ Id \in Nat /\ \A b \in 1..Len(blocks) : Mirrored(blocks[b])
    BY LayoutTypes
  <1>3. /\ bs \in Seq(BlockType) /\ bs # <<>> /\ \A b \in 1..Len(bs) : Mirrored(bs[b])
        /\ Remaining(LastBlock(bs)) # 0 /\ Len(bs) <= Blocks
        /\ Locs(bs) = Locs(blocks) /\ \A x \in Locs(blocks) : At(bs, x) = At(blocks, x)
        /\ IF BlockFull THEN Len(bs) = Len(blocks) + 1 /\ LastBlock(bs).pages = <<>>
                        ELSE Len(bs) = Len(blocks) /\ LastBlock(bs) = LastBlock(blocks)
    <2>1. CASE ~BlockFull
      BY <1>2, <2>1, RoomLeft
    <2>2. CASE BlockFull
      <3> DEFINE new == Append(blocks, NewBlock)
      <3>1. bs = new BY <2>2
      <3>2. /\ new \in Seq(BlockType) /\ Len(new) = Len(blocks) + 1 /\ new # <<>>
            /\ \A b \in 1..Len(blocks) : new[b] = blocks[b]
            /\ LastBlock(new) = NewBlock /\ Mirrored(NewBlock) /\ Remaining(NewBlock) # 0
            /\ Locs(new) = Locs(blocks) /\ \A x \in Locs(blocks) : At(new, x) = At(blocks, x)
        BY <1>2, Begun
      <3> HIDE DEF new, bs
      <3>3. \A b \in 1..Len(new) : Mirrored(new[b])
        <4> SUFFICES ASSUME NEW b \in 1..Len(new) PROVE Mirrored(new[b]) OBVIOUS
        <4>1. b \in 1..Len(blocks) \/ b = Len(new) BY <1>2, <3>2
        <4> QED BY <1>2, <3>2, <4>1 DEF LastBlock
      <3>4. Len(new) <= Blocks BY <1>1, <1>2, <2>2, <3>2 DEF ImageFull
      <3>5. LastBlock(new).pages = <<>> BY <3>2 DEF NewBlock
      <3> QED BY <2>2, <3>1, <3>2, <3>3, <3>4, <3>5
    <2> QED BY <2>1, <2>2
  <1> HIDE DEF bs
  <1>4. Chunks(f) \in Nat BY ChunksAre
  <1>5. /\ blocks' \in Seq(BlockType) /\ Len(blocks') = Len(bs)
        /\ \A b \in 1..Len(blocks') : Mirrored(blocks'[b])
        /\ LastBlock(blocks').pages = Append(LastBlock(bs).pages, IndexPage(Id, 0, f))
        /\ cur'.file = f /\ cur'.span = 0 + 1 /\ cur'.data = 0 /\ cur'.left = Chunks(f)
        /\ cur' \in CurType
        /\ cur'.at \notin Locs(bs) /\ Locs(blocks') = Locs(bs) \cup {cur'.at}
        /\ At(blocks', cur'.at) = IndexPage(Id, 0, f)
        /\ \A x \in Locs(bs) : At(blocks', x) = At(bs, x)
        /\ IndexPage(Id, 0, f) \in IndexPages
    BY <1>1, <1>2, <1>3, <1>4, BeginObjIs
  <1>6. Id' = Id BY <1>1 DEF Id
  <1>7. cur'.span = 1 /\ Len(blocks') <= Blocks
    <2>1. cur'.span = 0 + 1 /\ Len(blocks') = Len(bs) BY <1>5
    <2>2. Len(bs) <= Blocks BY <1>3
    <2> QED BY ONLY <2>1, <2>2
  <1>8. IF BlockFull
        THEN /\ Len(blocks') = Len(blocks) + 1
             /\ LastBlock(blocks').pages = Append(<<>>, IndexPage(Id, 0, f))
        ELSE /\ Len(blocks') = Len(blocks)
             /\ LastBlock(blocks').pages = Append(LastBlock(blocks).pages, IndexPage(Id, 0, f))
    BY <1>3, <1>5
  <1> QED BY <1>1, <1>3, <1>5, <1>6, <1>7, <1>8

\* Where a further index page goes.
LEMMA NextIndexPageIs ==
  ASSUME LayoutInv, NextIndexPage
  PROVE  /\ phase = "writing" /\ phase' = phase /\ todo' = todo /\ out' = out
         /\ created' = created /\ Id' = Id /\ IndexFull /\ cur.left > 0 /\ ~BlockFull
         /\ cur.file \in Files
         /\ blocks' \in Seq(BlockType) /\ Len(blocks') = Len(blocks)
         /\ \A b \in 1..Len(blocks') : Mirrored(blocks'[b])
         /\ cur'.file = cur.file /\ cur'.span = cur.span + 1 /\ cur'.data = cur.data
         /\ cur'.left = cur.left
         /\ cur' \in CurType
         /\ cur'.at \notin Locs(blocks) /\ Locs(blocks') = Locs(blocks) \cup {cur'.at}
         /\ At(blocks', cur'.at) = IndexPage(Id, cur.span, cur.file)
         /\ \A x \in Locs(blocks) : At(blocks', x) = At(blocks, x)
         /\ IndexPage(Id, cur.span, cur.file) \in IndexPages
         /\ LastBlock(blocks').pages
              = Append(LastBlock(blocks).pages, IndexPage(Id, cur.span, cur.file))
  <1>1. /\ phase = "writing" /\ phase' = phase /\ todo' = todo /\ out' = out
        /\ created' = created /\ IndexFull /\ cur.left > 0 /\ ~BlockFull
        /\ BeginObj(blocks, Id, cur.file, cur.span, cur.data, cur.left)
    BY DEF NextIndexPage, Writing
  <1>2. cur.file \in Files BY <1>1 DEF LayoutInv, Open
  <1>3. /\ blocks \in Seq(BlockType) /\ Id \in Nat
        /\ cur.span \in Nat /\ cur.data \in Nat /\ cur.left \in Nat
        /\ \A b \in 1..Len(blocks) : Mirrored(blocks[b])
    BY LayoutTypes
  <1>4. blocks # <<>> /\ Remaining(LastBlock(blocks)) # 0 BY <1>1, RoomLeft
  <1>5. Id' = Id BY <1>1 DEF Id
  <1> DEFINE f == cur.file
             span == cur.span
             data == cur.data
             left == cur.left
  <1>6. f \in Files /\ span \in Nat /\ data \in Nat /\ left \in Nat
        /\ BeginObj(blocks, Id, f, span, data, left)
    BY <1>1, <1>2, <1>3
  <1> HIDE DEF f, span, data, left
  <1>7. /\ blocks' \in Seq(BlockType) /\ Len(blocks') = Len(blocks)
        /\ \A b \in 1..Len(blocks') : Mirrored(blocks'[b])
        /\ LastBlock(blocks').pages = Append(LastBlock(blocks).pages, IndexPage(Id, span, f))
        /\ cur'.file = f /\ cur'.span = span + 1 /\ cur'.data = data /\ cur'.left = left
        /\ cur' \in CurType
        /\ cur'.at \notin Locs(blocks) /\ Locs(blocks') = Locs(blocks) \cup {cur'.at}
        /\ At(blocks', cur'.at) = IndexPage(Id, span, f)
        /\ \A x \in Locs(blocks) : At(blocks', x) = At(blocks, x)
        /\ IndexPage(Id, span, f) \in IndexPages
    BY <1>3, <1>4, <1>6, BeginObjIs
  <1> QED BY <1>1, <1>2, <1>5, <1>7 DEF f, span, data, left

\* A data page goes into the last block, its number into the open index page.
LEMMA UpdateObjIs ==
  ASSUME LayoutInv, UpdateObj
  PROVE  LET loc == <<Len(blocks), Len(LastBlock(blocks).pages) + 1>>
         IN  /\ phase = "writing" /\ phase' = phase /\ todo' = todo /\ out' = out
             /\ created' = created /\ Id' = Id /\ ~IndexFull /\ ~BlockFull
             /\ cur.file \in Files
             /\ blocks' \in Seq(BlockType) /\ Len(blocks') = Len(blocks)
             /\ \A b \in 1..Len(blocks') : Mirrored(blocks'[b])
             /\ cur'.file = cur.file /\ cur'.span = cur.span /\ cur'.data = cur.data + 1
             /\ cur'.left = cur.left - 1 /\ cur.left > 0 /\ cur'.at = cur.at /\ cur' \in CurType
             /\ loc \notin Locs(blocks) /\ Locs(blocks') = Locs(blocks) \cup {loc}
             /\ At(blocks', loc) = Chunk(Id, cur.data)
             /\ cur.at \in Locs(blocks) /\ At(blocks, cur.at) \in IndexPages
             /\ At(blocks', cur.at) = WithNumber(At(blocks, cur.at), Number(loc))
             /\ \A x \in Locs(blocks) : x # cur.at => At(blocks', x) = At(blocks, x)
             /\ Number(loc) \in Nat
             /\ Len(LastBlock(blocks').pages) = Len(LastBlock(blocks).pages) + 1
  <1> DEFINE at == cur.at
             L == Len(blocks)
             n == NextPage(blocks)
             loc == <<L, Len(LastBlock(blocks).pages) + 1>>
             recorded == WithEntry(blocks, at, n)
             page == [kind |-> "data", id |-> Id, span |-> cur.data,
                      part |-> RoundUp(FileSize[cur.file], ContentLen) - cur.left + 1]
  <1>1. /\ phase = "writing" /\ phase' = phase /\ todo' = todo /\ out' = out
        /\ created' = created /\ ~IndexFull /\ ~BlockFull /\ cur.left > 0
        /\ blocks' = RegisterPage(recorded, page)
        /\ cur' = [cur EXCEPT !.data = @ + 1, !.left = @ - 1]
    BY DEF UpdateObj, Writing, WithEntry
  <1>2. /\ cur.file \in Files /\ at \in Locs(blocks) /\ At(blocks, at) \in IndexPages
        /\ cur.data + cur.left = Chunks(cur.file) /\ cur \in CurType
    BY <1>1 DEF LayoutInv, Open, TypeOK, CurType
  <1>3. /\ blocks \in Seq(BlockType) /\ Id \in Nat
        /\ cur.span \in Nat /\ cur.data \in Nat /\ cur.left \in Nat
        /\ \A b \in 1..L : Mirrored(blocks[b])
    BY LayoutTypes
  <1>4. /\ L \in Nat \ {0} /\ Mirrored(LastBlock(blocks)) /\ Remaining(LastBlock(blocks)) # 0
        /\ LastBlock(blocks) = blocks[L] /\ L \in 1..L
    <2>1. L \in Nat \ {0} /\ Mirrored(LastBlock(blocks)) /\ Remaining(LastBlock(blocks)) # 0
      BY <1>1, RoomLeft
    <2>2. L \in 1..L BY <2>1
    <2> QED BY <2>1, <2>2 DEF LastBlock
  <1>5. Len(LastBlock(blocks).pages) \in Nat
    <2>1. LastBlock(blocks) \in BlockType BY <1>3, <1>4
    <2> QED BY <2>1 DEF BlockType
  <1>6. n = Number(loc) /\ n \in Nat
    <2>1. (L - 1) * PagesPerBlock \in Nat /\ LuPages \in Nat BY <1>4, SizesAre
    <2> QED BY <1>4, <1>5, <2>1 DEF NextPage, Number
  <1>7. page = Chunk(Id, cur.data) /\ page \in Pages
    <2>1. Chunks(cur.file) - cur.left + 1 = cur.data + 1 BY <1>2, <1>3
    <2>2. RoundUp(FileSize[cur.file], ContentLen) - cur.left + 1 = cur.data + 1
      BY <2>1 DEF Chunks
    <2> QED BY <1>3, <2>2 DEF Chunk, Pages, DataPages
  <1>8. Id' = Id BY <1>1 DEF Id
  <1>9. /\ cur'.file = cur.file /\ cur'.span = cur.span /\ cur'.data = cur.data + 1
        /\ cur'.left = cur.left - 1 /\ cur'.at = cur.at /\ cur' \in CurType
    <2> DEFINE d == cur.data
               l == cur.left
    <2>0. d \in Nat /\ l \in Nat /\ l > 0 BY <1>1, <1>3
    <2> HIDE DEF d, l
    <2>1. d + 1 \in Nat /\ l - 1 \in Nat BY ONLY <2>0
    <2> USE DEF d, l
    <2> QED BY <1>1, <1>2, <2>1 DEF CurType
  <1> HIDE DEF n, page, at, recorded
  <1>10. /\ recorded \in Seq(BlockType) /\ Len(recorded) = L
         /\ \A b \in 1..L : /\ Len(recorded[b].pages) = Len(blocks[b].pages)
                            /\ Mirrored(recorded[b])
         /\ Locs(recorded) = Locs(blocks)
         /\ At(recorded, at) = WithNumber(At(blocks, at), n)
         /\ \A x \in Locs(blocks) : x # at => At(recorded, x) = At(blocks, x)
    <2>1. LET new == WithEntry(blocks, at, n)
          IN  /\ new \in Seq(BlockType) /\ Len(new) = Len(blocks)
              /\ \A b \in 1..Len(blocks) : /\ Len(new[b].pages) = Len(blocks[b].pages)
                                           /\ Mirrored(blocks[b]) => Mirrored(new[b])
              /\ Locs(new) = Locs(blocks)
              /\ At(new, at) = WithNumber(At(blocks, at), n)
              /\ \A x \in Locs(blocks) : x # at => At(new, x) = At(blocks, x)
      BY <1>2, <1>3, <1>6, Recorded
    <2> QED BY <1>3, <2>1 DEF recorded
  <1>11. /\ recorded # <<>> /\ LastBlock(recorded) = recorded[L]
         /\ Len(LastBlock(recorded).pages) = Len(LastBlock(blocks).pages)
         /\ Mirrored(LastBlock(recorded)) /\ Remaining(LastBlock(recorded)) # 0
    BY <1>4, <1>10 DEF LastBlock, Remaining
  <1>12. /\ blocks' \in Seq(BlockType) /\ Len(blocks') = L
         /\ \A b \in 1..L : b # L => blocks'[b] = recorded[b]
         /\ LastBlock(blocks').pages = Append(LastBlock(recorded).pages, page)
         /\ Mirrored(LastBlock(blocks'))
         /\ loc \notin Locs(recorded) /\ Locs(blocks') = Locs(recorded) \cup {loc}
         /\ At(blocks', loc) = page
         /\ \A x \in Locs(recorded) : At(blocks', x) = At(recorded, x)
    <2> DEFINE to == <<Len(recorded), Len(LastBlock(recorded).pages) + 1>>
    <2>1. LET new == RegisterPage(recorded, page)
          IN  /\ new \in Seq(BlockType) /\ Len(new) = Len(recorded)
              /\ \A b \in 1..Len(recorded) : b # Len(recorded) => new[b] = recorded[b]
              /\ LastBlock(new).pages = Append(LastBlock(recorded).pages, page)
              /\ Mirrored(LastBlock(new))
              /\ to \notin Locs(recorded) /\ Locs(new) = Locs(recorded) \cup {to}
              /\ At(new, to) = page
              /\ \A x \in Locs(recorded) : At(new, x) = At(recorded, x)
      BY <1>7, <1>10, <1>11, Registered, Zenon
    <2>2. to = loc BY <1>10, <1>11
    <2> HIDE DEF to, loc
    <2> QED BY <1>1, <1>10, <2>1, <2>2
  <1>13. \A b \in 1..Len(blocks') : Mirrored(blocks'[b])
    BY <1>10, <1>12 DEF LastBlock
  <1>14. Len(LastBlock(blocks').pages) = Len(LastBlock(blocks).pages) + 1
    <2>1. LastBlock(recorded) \in BlockType BY <1>4, <1>10, <1>11
    <2>2. LastBlock(recorded).pages \in Seq(Pages) BY <2>1 DEF BlockType
    <2> QED BY <1>7, <1>11, <1>12, <2>2
  <1>15. At(blocks', at) = WithNumber(At(blocks, at), n)
         /\ \A x \in Locs(blocks) : x # at => At(blocks', x) = At(blocks, x)
    BY <1>2, <1>10, <1>12
  <1>16. loc \notin Locs(blocks) /\ Locs(blocks') = Locs(blocks) \cup {loc}
    BY <1>10, <1>12
  <1> QED
    BY <1>1, <1>2, <1>3, <1>6, <1>7, <1>8, <1>9, <1>12, <1>13, <1>14, <1>15, <1>16 DEF at

\* A new block holds nothing yet.
LEMMA NextBlockIs ==
  ASSUME LayoutInv, NextBlock
  PROVE  /\ phase = "writing" /\ phase' = phase /\ todo' = todo /\ out' = out
         /\ created' = created /\ Id' = Id /\ cur' = cur /\ BlockFull
         /\ blocks' \in Seq(BlockType) /\ Len(blocks') = Len(blocks) + 1 /\ Len(blocks') <= Blocks
         /\ LastBlock(blocks').pages = <<>>
         /\ \A b \in 1..Len(blocks') : Mirrored(blocks'[b])
         /\ Locs(blocks') = Locs(blocks)
         /\ \A x \in Locs(blocks) : At(blocks', x) = At(blocks, x)
  <1>1. /\ phase = "writing" /\ phase' = phase /\ todo' = todo /\ out' = out
        /\ created' = created /\ cur' = cur /\ BlockFull /\ ~ImageFull
        /\ blocks' = Append(blocks, NewBlock)
    BY DEF NextBlock, Writing
  <1>2. /\ blocks \in Seq(BlockType) /\ Len(blocks) \in Nat /\ Len(blocks) <= Blocks
        /\ Blocks \in Nat /\ \A b \in 1..Len(blocks) : Mirrored(blocks[b])
    BY LayoutTypes
  <1>3. /\ blocks' \in Seq(BlockType) /\ Len(blocks') = Len(blocks) + 1
        /\ \A b \in 1..Len(blocks) : blocks'[b] = blocks[b]
        /\ LastBlock(blocks') = NewBlock /\ Mirrored(NewBlock)
        /\ Locs(blocks') = Locs(blocks) /\ \A x \in Locs(blocks) : At(blocks', x) = At(blocks, x)
    BY <1>1, <1>2, Begun
  <1>4. \A b \in 1..Len(blocks') : Mirrored(blocks'[b])
    <2> SUFFICES ASSUME NEW b \in 1..Len(blocks') PROVE Mirrored(blocks'[b]) OBVIOUS
    <2>1. b \in 1..Len(blocks) \/ b = Len(blocks') BY <1>2, <1>3
    <2> QED BY <1>2, <1>3, <2>1 DEF LastBlock
  <1>5. Len(blocks') <= Blocks BY <1>1, <1>2, <1>3 DEF ImageFull
  <1>6. LastBlock(blocks').pages = <<>> BY <1>3 DEF NewBlock
  <1> QED BY <1>1, <1>3, <1>4, <1>5, <1>6 DEF Id

(***************************************************************************)
(* The layout of the blocks is an invariant.                                *)
(***************************************************************************)
\* The steps that lay nothing out.
Quiet ==
  /\ UNCHANGED <<todo, created, blocks, cur>>
  /\ phase' \in {"start", "walking", "writing", "written", "told", "failed"}
  /\ out' \in {"old", "torn", "image"}
  /\ phase' \in {"start", "writing"} => phase' = phase
  /\ phase' \notin {"writing", "failed"} => phase \notin {"writing", "failed"}
  /\ phase' = "walking" => phase \in {"start", "walking"}

LEMMA QuietSteps ==
  ASSUME LayoutInv,
         \/ BadArgument \/ OddSize \/ OpenOutput \/ NoRoomForPage \/ WriteImage \/ PageOverflow
         \/ Told
         \/ \E f \in Files : NameTooLong(f) \/ NoRoomForFile(f)
         \/ UNCHANGED vars
  PROVE  Quiet
  <1>1. /\ phase \in {"start", "walking", "writing", "written", "told", "failed"}
        /\ out \in {"old", "torn", "image"}
    BY DEF LayoutInv, TypeOK
  <1>2. CASE UNCHANGED vars BY <1>1, <1>2 DEF vars, Quiet
  <1>3. CASE OpenOutput BY <1>1, <1>3 DEF OpenOutput, Quiet
  <1>4. CASE WriteImage BY <1>1, <1>4 DEF WriteImage, Quiet
  <1>5. CASE Told BY <1>1, <1>5 DEF Told, Quiet
  <1>6. CASE Fail BY <1>1, <1>6 DEF Fail, Quiet
  <1>7. CASE OddSize BY <1>1, <1>7 DEF OddSize, Quiet
  <1> QED
    BY <1>2, <1>3, <1>4, <1>5, <1>6, <1>7
       DEF BadArgument, NoRoomForPage, PageOverflow, NameTooLong, NoRoomForFile

\* Types from the parts.
LEMMA TypesFrom ==
  ASSUME TypeOK,
         phase' \in {"start", "walking", "writing", "written", "told", "failed"},
         out' \in {"old", "torn", "image"}, todo' \subseteq Files, created' \in Seq(Files),
         blocks' \in Seq(BlockType), Len(blocks') <= Blocks, cur' \in CurType
  PROVE  TypeOK'
  BY DEF TypeOK, BlockType, CurType

LEMMA CreateFileLayout ==
  ASSUME LayoutInv, NEW f \in Files, CreateFile(f)
  PROVE  LayoutInv'
  <1>1. /\ phase = "walking" /\ phase' = "writing" /\ todo' = todo \ {f}
        /\ out' = out /\ created' = created /\ Id' = Id
        /\ blocks' \in Seq(BlockType) /\ Len(blocks') <= Blocks
        /\ \A b \in 1..Len(blocks') : Mirrored(blocks'[b])
        /\ cur'.file = f /\ cur'.span = 1 /\ cur'.data = 0 /\ cur'.left = Chunks(f)
        /\ cur' \in CurType
        /\ Locs(blocks') = Locs(blocks) \cup {cur'.at}
        /\ At(blocks', cur'.at) = IndexPage(Id, 0, f)
        /\ \A x \in Locs(blocks) : At(blocks', x) = At(blocks, x)
        /\ IndexPage(Id, 0, f) \in IndexPages
    BY CreateFileIs
  <1>2. /\ TypeOK /\ created \in Seq(Files) /\ todo \subseteq Files
        /\ out \in {"old", "torn", "image"} /\ Id \in Nat \ {0} /\ Chunks(f) \in Nat
    BY LayoutTypes, ChunksAre DEF LayoutInv, TypeOK
  <1>3. TypeOK' BY <1>1, <1>2, TypesFrom
  <1>4. IndexPage(Id, 0, f).id = Id /\ IndexPage(Id, 0, f).span = 0 BY DEF IndexPage
  <1>5. Open' BY <1>1, <1>2, <1>4 DEF Open
  <1>6. Before'
    <2>1. \A x \in Locs(blocks) : At(blocks, x).id <= Id BY DEF LayoutInv, Before
    <2>2. \A x \in Locs(blocks') : At(blocks', x).id <= Id BY <1>1, <1>2, <1>4, <2>1
    <2> QED BY <1>1, <2>2 DEF Before
  <1> QED BY <1>1, <1>3, <1>5, <1>6 DEF LayoutInv

LEMMA NextIndexPageLayout ==
  ASSUME LayoutInv, NextIndexPage
  PROVE  LayoutInv'
  <1>1. /\ phase = "writing" /\ phase' = phase /\ todo' = todo /\ out' = out
        /\ created' = created /\ Id' = Id /\ cur.file \in Files
        /\ blocks' \in Seq(BlockType) /\ Len(blocks') = Len(blocks)
        /\ \A b \in 1..Len(blocks') : Mirrored(blocks'[b])
        /\ cur'.file = cur.file /\ cur'.span = cur.span + 1 /\ cur'.data = cur.data
        /\ cur'.left = cur.left /\ cur' \in CurType
        /\ Locs(blocks') = Locs(blocks) \cup {cur'.at}
        /\ At(blocks', cur'.at) = IndexPage(Id, cur.span, cur.file)
        /\ \A x \in Locs(blocks) : At(blocks', x) = At(blocks, x)
        /\ IndexPage(Id, cur.span, cur.file) \in IndexPages
    BY NextIndexPageIs
  <1>2. /\ TypeOK /\ created \in Seq(Files) /\ todo \subseteq Files /\ Len(blocks) <= Blocks
        /\ out \in {"old", "torn", "image"} /\ Id \in Nat \ {0} /\ cur.span \in Nat
    BY LayoutTypes DEF LayoutInv, TypeOK
  <1>3. TypeOK' BY <1>1, <1>2, TypesFrom
  <1>4. /\ IndexPage(Id, cur.span, cur.file).id = Id
        /\ IndexPage(Id, cur.span, cur.file).span = cur.span
    BY DEF IndexPage
  <1>5. cur.data + cur.left = Chunks(cur.file) BY <1>1 DEF LayoutInv, Open
  <1>6. Open'
    <2>1. cur'.span > 0 /\ cur'.span - 1 = cur.span BY <1>1, <1>2
    <2>2. cur'.data + cur'.left = Chunks(cur'.file) BY <1>1, <1>5
    <2> QED BY <1>1, <1>4, <2>1, <2>2 DEF Open
  <1>7. Before'
    <2>1. \A x \in Locs(blocks) : At(blocks, x).id <= Id BY DEF LayoutInv, Before
    <2>2. \A x \in Locs(blocks') : At(blocks', x).id <= Id BY <1>1, <1>2, <1>4, <2>1
    <2> QED BY <1>1, <2>2 DEF Before
  <1> QED BY <1>1, <1>3, <1>6, <1>7 DEF LayoutInv

\* A number more in an index page leaves the rest of it.
LEMMA WithNumberIs ==
  ASSUME NEW page \in IndexPages, NEW n \in Nat
  PROVE  /\ WithNumber(page, n) \in IndexPages /\ WithNumber(page, n).kind = "index"
         /\ WithNumber(page, n).id = page.id /\ WithNumber(page, n).span = page.span
         /\ WithNumber(page, n).size = page.size
         /\ WithNumber(page, n).pages = Append(page.pages, n)
  <1> DEFINE more == Append(page.pages, n)
  <1>1. page.pages \in Seq(Nat) /\ page.kind = "index" BY DEF IndexPages
  <1>2. more \in Seq(Nat) BY <1>1
  <1>3. WithNumber(page, n) = [page EXCEPT !.pages = more] BY DEF WithNumber
  <1> HIDE DEF more
  <1>4. /\ WithNumber(page, n) \in IndexPages /\ WithNumber(page, n).pages = more
        /\ WithNumber(page, n).id = page.id /\ WithNumber(page, n).span = page.span
        /\ WithNumber(page, n).size = page.size /\ WithNumber(page, n).kind = page.kind
    BY <1>2, <1>3 DEF IndexPages
  <1> QED BY <1>1, <1>4 DEF more

LEMMA UpdateObjLayout ==
  ASSUME LayoutInv, UpdateObj
  PROVE  LayoutInv'
  <1> DEFINE loc == <<Len(blocks), Len(LastBlock(blocks).pages) + 1>>
             n == Number(loc)
  <1>1. /\ phase = "writing" /\ phase' = phase /\ todo' = todo /\ out' = out
        /\ created' = created /\ Id' = Id /\ cur.file \in Files
        /\ blocks' \in Seq(BlockType) /\ Len(blocks') = Len(blocks)
        /\ \A b \in 1..Len(blocks') : Mirrored(blocks'[b])
        /\ cur'.file = cur.file /\ cur'.span = cur.span /\ cur'.data = cur.data + 1
        /\ cur'.left = cur.left - 1 /\ cur'.at = cur.at /\ cur' \in CurType
        /\ Locs(blocks') = Locs(blocks) \cup {loc}
        /\ At(blocks', loc) = Chunk(Id, cur.data)
        /\ cur.at \in Locs(blocks) /\ At(blocks, cur.at) \in IndexPages
        /\ At(blocks', cur.at) = WithNumber(At(blocks, cur.at), n)
        /\ \A x \in Locs(blocks) : x # cur.at => At(blocks', x) = At(blocks, x)
        /\ n \in Nat
    BY UpdateObjIs
  <1> HIDE DEF loc, n
  <1>2. /\ TypeOK /\ created \in Seq(Files) /\ todo \subseteq Files /\ Len(blocks) <= Blocks
        /\ out \in {"old", "torn", "image"} /\ Id \in Nat \ {0} /\ cur.span \in Nat
        /\ cur.data \in Nat /\ cur.left \in Nat
    BY LayoutTypes DEF LayoutInv, TypeOK
  <1>3. TypeOK' BY <1>1, <1>2, TypesFrom
  <1>4. /\ At(blocks, cur.at).id = Id /\ At(blocks, cur.at).span = cur.span - 1 /\ cur.span > 0
        /\ cur.data + cur.left = Chunks(cur.file)
    BY <1>1 DEF LayoutInv, Open
  <1>5. /\ At(blocks', cur.at) \in IndexPages /\ At(blocks', cur.at).id = Id
        /\ At(blocks', cur.at).span = cur.span - 1
    <2> DEFINE page == At(blocks, cur.at)
    <2>1. page \in IndexPages /\ page.id = Id /\ page.span = cur.span - 1
          /\ At(blocks', cur.at) = WithNumber(page, n) /\ n \in Nat
      BY <1>1, <1>4
    <2> HIDE DEF page
    <2>2. /\ WithNumber(page, n) \in IndexPages /\ WithNumber(page, n).id = page.id
          /\ WithNumber(page, n).span = page.span
      BY <2>1, WithNumberIs
    <2> QED BY <2>1, <2>2
  <1>6. Open'
    <2>1. cur'.data + cur'.left = Chunks(cur'.file)
      <3>1. (cur.data + 1) + (cur.left - 1) = cur.data + cur.left BY <1>2
      <3> QED BY <1>1, <1>4, <3>1
    <2> QED BY <1>1, <1>4, <1>5, <2>1 DEF Open
  <1>7. Before'
    <2>1. \A x \in Locs(blocks) : At(blocks, x).id <= Id BY DEF LayoutInv, Before
    <2>2. Chunk(Id, cur.data).id = Id BY DEF Chunk
    <2>3. \A x \in Locs(blocks') : At(blocks', x).id <= Id BY <1>1, <1>2, <1>5, <2>1, <2>2
    <2> QED BY <1>1, <2>3 DEF Before
  <1> QED BY <1>1, <1>3, <1>6, <1>7 DEF LayoutInv

LEMMA NextBlockLayout ==
  ASSUME LayoutInv, NextBlock
  PROVE  LayoutInv'
  <1>1. /\ phase = "writing" /\ phase' = phase /\ todo' = todo /\ out' = out
        /\ created' = created /\ Id' = Id /\ cur' = cur
        /\ blocks' \in Seq(BlockType) /\ Len(blocks') <= Blocks
        /\ \A b \in 1..Len(blocks') : Mirrored(blocks'[b])
        /\ Locs(blocks') = Locs(blocks)
        /\ \A x \in Locs(blocks) : At(blocks', x) = At(blocks, x)
    BY NextBlockIs
  <1>2. TypeOK'
    <2>1. /\ TypeOK /\ created \in Seq(Files) /\ todo \subseteq Files
          /\ out \in {"old", "torn", "image"} /\ cur \in CurType
      BY DEF LayoutInv, TypeOK, CurType
    <2> QED BY <1>1, <2>1, TypesFrom
  <1>3. Open' BY <1>1 DEF LayoutInv, Open
  <1>4. Before' BY <1>1 DEF LayoutInv, Before
  <1> QED BY <1>1, <1>2, <1>3, <1>4 DEF LayoutInv

\* What the end of an object does.
LEMMA EndObjIs ==
  ASSUME LayoutInv, EndObj
  PROVE  /\ phase = "writing" /\ phase' = "walking" /\ todo' = todo /\ out' = out
         /\ blocks' = blocks /\ cur.left = 0 /\ cur.file \in Files /\ cur.data = Chunks(cur.file)
         /\ created' = Append(created, cur.file) /\ created' \in Seq(Files)
         /\ Len(created') = Id /\ created'[Id] = cur.file /\ Id' = Id + 1
         /\ \A k \in 1..Len(created) : created'[k] = created[k]
         /\ cur' = NoObject /\ cur' \in CurType
  <1>1. /\ phase = "writing" /\ phase' = "walking" /\ todo' = todo /\ out' = out
        /\ blocks' = blocks /\ cur.left = 0 /\ created' = Append(created, cur.file)
        /\ cur' = NoObject
    BY DEF EndObj
  <1>2. cur.file \in Files /\ cur.data + cur.left = Chunks(cur.file)
    BY <1>1 DEF LayoutInv, Open
  <1>3. created \in Seq(Files) /\ cur.data \in Nat BY LayoutTypes
  <1>4. /\ created' \in Seq(Files) /\ Len(created') = Len(created) + 1
        /\ created'[Len(created) + 1] = cur.file
        /\ \A k \in 1..Len(created) : created'[k] = created[k]
    BY <1>1, <1>2, <1>3
  <1>5. NoObject \in CurType BY DEF NoObject, CurType
  <1>6. cur.data = Chunks(cur.file) BY <1>1, <1>2, <1>3
  <1> QED BY <1>1, <1>2, <1>4, <1>5, <1>6 DEF Id

LEMMA EndObjLayout ==
  ASSUME LayoutInv, EndObj
  PROVE  LayoutInv'
  <1>1. /\ phase = "writing" /\ phase' = "walking" /\ todo' = todo /\ out' = out
        /\ blocks' = blocks /\ created' \in Seq(Files) /\ Id' = Id + 1 /\ cur' \in CurType
    BY EndObjIs
  <1>2. /\ TypeOK /\ blocks \in Seq(BlockType) /\ Len(blocks) <= Blocks /\ todo \subseteq Files
        /\ out \in {"old", "torn", "image"} /\ Id \in Nat
        /\ \A b \in 1..Len(blocks) : Mirrored(blocks[b])
    BY LayoutTypes DEF LayoutInv, TypeOK
  <1>3. TypeOK' BY <1>1, <1>2, TypesFrom
  <1>4. Open' BY <1>1 DEF Open
  <1>5. Before'
    <2>1. \A x \in Locs(blocks) : At(blocks, x).id \in Nat /\ At(blocks, x).id <= Id
      BY <1>2, LocsAre, PageFields DEF LayoutInv, Before
    <2>2. \A x \in Locs(blocks) : At(blocks, x).id <= Id + 1 /\ At(blocks, x).id < Id + 1
      BY <1>2, <2>1
    <2> QED BY <1>1, <2>2 DEF Before
  <1> QED BY <1>1, <1>2, <1>3, <1>4, <1>5 DEF LayoutInv

LEMMA QuietLayout ==
  ASSUME LayoutInv, Quiet
  PROVE  LayoutInv'
  <1>1. /\ todo' = todo /\ created' = created /\ blocks' = blocks /\ cur' = cur /\ Id' = Id
        /\ phase' \in {"start", "walking", "writing", "written", "told", "failed"}
        /\ out' \in {"old", "torn", "image"}
        /\ phase' \in {"start", "writing"} => phase' = phase
        /\ phase' \notin {"writing", "failed"} => phase \notin {"writing", "failed"}
    BY DEF Quiet, Id
  <1>2. TypeOK'
    <2>1. /\ TypeOK /\ created \in Seq(Files) /\ todo \subseteq Files /\ cur \in CurType
          /\ blocks \in Seq(BlockType) /\ Len(blocks) <= Blocks
      BY DEF LayoutInv, TypeOK, CurType, BlockType
    <2> QED BY <1>1, <2>1, TypesFrom
  <1>3. Open' BY <1>1 DEF LayoutInv, Open
  <1>4. Before' BY <1>1 DEF LayoutInv, Before
  <1> QED BY <1>1, <1>2, <1>3, <1>4 DEF LayoutInv

\* Every step keeps the layout.
LEMMA NextLayoutInv == LayoutInv /\ [Next]_vars => LayoutInv'
  <1> SUFFICES ASSUME LayoutInv, [Next]_vars PROVE LayoutInv' OBVIOUS
  <1>1. ASSUME NEW f \in Files, CreateFile(f) PROVE LayoutInv' BY <1>1, CreateFileLayout
  <1>2. CASE UpdateObj BY <1>2, UpdateObjLayout
  <1>3. CASE NextIndexPage BY <1>3, NextIndexPageLayout
  <1>4. CASE NextBlock BY <1>4, NextBlockLayout
  <1>5. CASE EndObj BY <1>5, EndObjLayout
  <1>6. CASE \/ BadArgument \/ OddSize \/ OpenOutput \/ NoRoomForPage \/ WriteImage \/ PageOverflow
             \/ Told
             \/ \E f \in Files : NameTooLong(f) \/ NoRoomForFile(f)
             \/ UNCHANGED vars
    BY <1>6, QuietSteps, QuietLayout
  <1> QED BY <1>1, <1>2, <1>3, <1>4, <1>5, <1>6 DEF Next

LEMMA InitLayoutInv == Init => LayoutInv
  <1> SUFFICES ASSUME Init PROVE LayoutInv OBVIOUS
  <1>1. /\ phase = "start" /\ out = "old" /\ todo \subseteq Files
        /\ created = <<>> /\ blocks = <<>> /\ cur = NoObject
    BY DEF Init
  <1>2. NoObject \in CurType BY DEF NoObject, CurType
  <1>3. Len(blocks) = 0 /\ Blocks \in Nat BY <1>1, SpiffsAssumption
  <1>4. TypeOK
    <2>1. Len(blocks) <= Blocks BY <1>3
    <2>2. created \in Seq(Files) /\ blocks \in Seq([pages : Seq(Pages), lu : Seq(LuEntries)])
      BY <1>1
    <2> QED BY <1>1, <1>2, <2>1, <2>2 DEF TypeOK, CurType
  <1>5. \A b \in 1..Len(blocks) : Mirrored(blocks[b]) BY <1>3
  <1>6. Locs(blocks) = {} BY <1>3 DEF Locs
  <1> QED BY <1>1, <1>4, <1>5, <1>6 DEF LayoutInv, Open, Before

LEMMA AlwaysLayout == Spec => []LayoutInv
  <1>1. Init => LayoutInv BY InitLayoutInv
  <1>2. LayoutInv /\ [Next]_vars => LayoutInv' BY NextLayoutInv
  <1> QED BY <1>1, <1>2, PTL DEF Spec

\* Of every directory the image is built of blocks, pages and entries as they
\* should be (spiffsgen.py: SpiffsBlock, SpiffsFS), however far it comes.
THEOREM TypeCorrect == Spec => []TypeOK
  <1>1. LayoutInv => TypeOK BY DEF LayoutInv
  <1> QED BY <1>1, AlwaysLayout, PTL

-----------------------------------------------------------------------------
(***************************************************************************)
(* The image mounts.                                                        *)
(***************************************************************************)
\* What three sequences in turn hold.
LEMMA ThreeInTurn ==
  ASSUME NEW S, NEW x \in Seq(S), NEW y \in Seq(S), NEW z \in Seq(S)
  PROVE  /\ Len(x \o y \o z) = Len(x) + Len(y) + Len(z)
         /\ \A i \in 1..Len(x) : (x \o y \o z)[i] = x[i]
         /\ \A i \in 1..Len(y) : (x \o y \o z)[Len(x) + i] = y[i]
         /\ \A i \in 1..Len(z) : (x \o y \o z)[Len(x) + Len(y) + i] = z[i]
  <1>1. /\ x \o y \in Seq(S) /\ Len(x \o y) = Len(x) + Len(y)
        /\ \A i \in 1..Len(x) : (x \o y)[i] = x[i]
        /\ \A i \in 1..Len(y) : (x \o y)[Len(x) + i] = y[i]
    OBVIOUS
  <1> DEFINE w == x \o y
  <1>2. /\ w \in Seq(S) /\ Len(w) = Len(x) + Len(y)
        /\ \A i \in 1..Len(x) : w[i] = x[i]
        /\ \A i \in 1..Len(y) : w[Len(x) + i] = y[i]
    BY <1>1
  <1> HIDE DEF w
  <1>3. /\ Len(w \o z) = Len(w) + Len(z)
        /\ \A i \in 1..Len(w) : (w \o z)[i] = w[i]
        /\ \A i \in 1..Len(z) : (w \o z)[Len(w) + i] = z[i]
    <2>1. w \in Seq(S) BY <1>2
    <2> QED BY ONLY <2>1, z \in Seq(S)
  <1>4. /\ \A i \in 1..Len(x) : i \in 1..Len(w)
        /\ \A i \in 1..Len(y) : Len(x) + i \in 1..Len(w)
    BY <1>2
  <1> QED BY <1>2, <1>3, <1>4 DEF w

LEMMA LuImageIs ==
  ASSUME NEW lu \in Seq(LuEntries), NEW bix \in Nat, Len(lu) <= UsablePages,
         LuCap - UsablePages >= 2, NEW i \in 1..LuCap
  PROVE  LuImage(lu, bix)[i] =
           IF i = LuCap - 1 THEN [magic |-> Blocks - bix]
           ELSE IF i <= Len(lu) THEN lu[i] ELSE Blank
  <1> DEFINE last == <<Magic(bix), Blank>>
             k == LuCap - 2 - Len(lu)
             blanks == Blanks(k)
             S == LuEntries \cup {Magic(bix), Blank}
             image == lu \o blanks \o last
  <1>1. Len(lu) \in Nat /\ LuCap \in Nat /\ UsablePages \in Nat BY SizesAre
  <1>2. k \in Nat /\ Len(lu) <= LuCap - 2 BY <1>1
  <1>3. LuImage(lu, bix) = image BY <1>2 DEF LuImage
  <1>4. Len(lu) + k = LuCap - 2 BY <1>1
  <1>5. lu \in Seq(S) OBVIOUS
  <1> HIDE DEF k
  <1>6. blanks \in Seq(S) /\ Len(blanks) = k /\ \A j \in 1..k : blanks[j] = Blank
    <2>1. blanks = [j \in 1..k |-> Blank] BY DEF Blanks
    <2> HIDE DEF blanks
    <2>2. Blank \in S OBVIOUS
    <2> HIDE DEF S
    <2>3. blanks \in Seq(S) BY <1>2, <2>1, <2>2
    <2> QED BY <1>2, <2>1, <2>3
  <1>7. last \in Seq(S) /\ Len(last) = 2 /\ last[1] = Magic(bix) /\ last[2] = Blank OBVIOUS
  <1> HIDE DEF blanks, S, last
  <1>8. /\ \A j \in 1..Len(lu) : image[j] = lu[j]
        /\ \A j \in 1..Len(blanks) : image[Len(lu) + j] = blanks[j]
        /\ \A j \in 1..Len(last) : image[Len(lu) + Len(blanks) + j] = last[j]
    <2>1. lu \in Seq(S) /\ blanks \in Seq(S) /\ last \in Seq(S) BY <1>5, <1>6, <1>7
    <2>2. /\ Len(lu \o blanks \o last) = Len(lu) + Len(blanks) + Len(last)
          /\ \A j \in 1..Len(lu) : (lu \o blanks \o last)[j] = lu[j]
          /\ \A j \in 1..Len(blanks) : (lu \o blanks \o last)[Len(lu) + j] = blanks[j]
          /\ \A j \in 1..Len(last) : (lu \o blanks \o last)[Len(lu) + Len(blanks) + j] = last[j]
      BY ONLY <2>1, ThreeInTurn, SMTT(60)
    <2> QED BY ONLY <2>2
  <1> HIDE DEF image
  <1>9. CASE i <= Len(lu)
    <2>1. i \in 1..Len(lu) /\ i # LuCap - 1 BY <1>1, <1>2, <1>9
    <2> QED BY <1>3, <1>8, <2>1
  <1>10. CASE ~(i <= Len(lu)) /\ i <= LuCap - 2
    <2> DEFINE j == i - Len(lu)
    <2>1. j \in 1..k /\ Len(lu) + j = i /\ i # LuCap - 1 BY <1>1, <1>2, <1>4, <1>10
    <2> HIDE DEF j
    <2>2. image[Len(lu) + j] = Blank BY <1>6, <1>8, <2>1
    <2> QED BY <1>3, <1>10, <2>1, <2>2
  <1>11. CASE i = LuCap - 1
    <2>1. Len(lu) + k + 1 = i BY <1>1, <1>2, <1>4, <1>11
    <2>2. 1 \in 1..2 OBVIOUS
    <2>3. image[Len(lu) + Len(blanks) + 1] = last[1] BY <1>7, <1>8, <2>2
    <2> QED BY <1>3, <1>6, <1>7, <1>11, <2>1, <2>3 DEF Magic
  <1>12. CASE i = LuCap
    <2>1. Len(lu) + k + 2 = i /\ i # LuCap - 1 /\ ~(i <= Len(lu)) BY <1>1, <1>2, <1>4, <1>12
    <2>2. 2 \in 1..2 OBVIOUS
    <2>3. image[Len(lu) + Len(blanks) + 2] = last[2] BY <1>7, <1>8, <2>2
    <2> QED BY <1>3, <1>6, <1>7, <2>1, <2>3
  <1>13. i <= LuCap - 2 \/ i = LuCap - 1 \/ i = LuCap BY <1>1
  <1> QED BY <1>9, <1>10, <1>11, <1>12, <1>13

\* Of every directory: each block of a finished image carries its own magic
\* number, each page its entry, and nothing else is written in a lookup
\* (SpiffsObjLuPage.to_binary, magicfy; SpiffsFS.to_binary).
THEOREM Mounts == Spec => []Mountable
  <1>1. LayoutInv => Mountable
    <2> SUFFICES ASSUME LayoutInv, LuCap - UsablePages >= 2,
                        NEW b \in 1..Blocks, NEW i \in 1..LuCap
                 PROVE  Lookup(b)[i] =
                          IF i = LuCap - 1 THEN [magic |-> Blocks - (b - 1)]
                          ELSE IF b <= Len(blocks) /\ i <= Len(blocks[b].pages)
                          THEN [id |-> blocks[b].pages[i].id,
                                index |-> blocks[b].pages[i].kind = "index"]
                          ELSE Blank
      BY DEF Mountable
    <2>1. /\ blocks \in Seq(BlockType) /\ Len(blocks) \in Nat /\ Blocks \in Nat
          /\ \A c \in 1..Len(blocks) : Mirrored(blocks[c])
      BY LayoutTypes
    <2>2. b - 1 \in Nat /\ b \in Nat /\ LuCap \in Nat /\ UsablePages \in Nat BY <2>1, SizesAre
    <2> DEFINE bix == b - 1
    <2>3. CASE b <= Len(blocks)
      <3> DEFINE block == blocks[b]
                 lu == block.lu
      <3>1. b \in 1..Len(blocks) BY <2>1, <2>2, <2>3
      <3>2. block \in BlockType /\ Mirrored(block) BY <2>1, <3>1
      <3>3. lu \in Seq(LuEntries) /\ Len(lu) = Len(block.pages) /\ Len(lu) <= UsablePages
            /\ Len(lu) \in Nat
            /\ \A j \in 1..Len(lu) :
                 lu[j] = [id |-> block.pages[j].id, index |-> block.pages[j].kind = "index"]
        BY <3>2 DEF BlockType, Mirrored
      <3>4. Lookup(b) = LuImage(lu, bix) BY <2>3 DEF Lookup
      <3> HIDE DEF lu, bix, block
      <3>5. bix \in Nat BY <2>2 DEF bix
      <3>6. Lookup(b)[i] = IF i = LuCap - 1 THEN [magic |-> Blocks - bix]
                           ELSE IF i <= Len(lu) THEN lu[i] ELSE Blank
        BY <3>3, <3>4, <3>5, LuImageIs
      <3>7. i <= Len(lu) => i \in 1..Len(lu) BY <2>2, <3>3
      <3> QED BY <2>3, <3>3, <3>6, <3>7 DEF bix, block
    <2>4. CASE ~(b <= Len(blocks))
      <3> DEFINE lu == <<>>
      <3>1. Lookup(b) = LuImage(lu, bix) BY <2>4 DEF Lookup
      <3>2. lu \in Seq(LuEntries) /\ Len(lu) = 0 OBVIOUS
      <3> HIDE DEF lu, bix
      <3>3. bix \in Nat BY <2>2 DEF bix
      <3>4. Len(lu) <= UsablePages BY <2>2, <3>2
      <3>5. Lookup(b)[i] = IF i = LuCap - 1 THEN [magic |-> Blocks - bix]
                           ELSE IF i <= Len(lu) THEN lu[i] ELSE Blank
        BY <3>1, <3>2, <3>3, <3>4, LuImageIs
      <3>6. ~(i <= Len(lu)) BY <2>2, <3>2
      <3> QED BY <2>4, <3>5, <3>6 DEF bix
    <2> QED BY <2>3, <2>4
  <1> QED BY <1>1, AlwaysLayout, PTL

-----------------------------------------------------------------------------
(***************************************************************************)
(* The objects: index pages and the data pages they record.                 *)
(***************************************************************************)
LEMMA BaseNext ==
  ASSUME NEW j \in Nat
  PROVE  /\ Base(j) \in Nat /\ Base(j + 1) \in Nat
         /\ Base(j + 1) = Base(j) + (IF j = 0 THEN HeadLim ELSE IndexLim)
  <1>1. HeadLim \in Nat /\ IndexLim \in Nat BY SizesAre
  <1>2. CASE j = 0
    <2>1. Base(j) = 0 /\ Base(j + 1) = HeadLim + 0 * IndexLim BY <1>2 DEF Base
    <2> QED BY <1>1, <1>2, <2>1
  <1>3. CASE j # 0
    <2> DEFINE i == j - 1
    <2>1. i \in Nat /\ j = i + 1 BY <1>3
    <2>2. Base(j) = HeadLim + i * IndexLim BY <1>3 DEF Base
    <2>3. Base(j + 1) = HeadLim + (i + 1) * IndexLim BY <1>3, <2>1 DEF Base
    <2> HIDE DEF i
    <2>4. (i + 1) * IndexLim = i * IndexLim + IndexLim /\ i * IndexLim \in Nat BY <1>1, <2>1
    <2> QED BY <1>1, <1>3, <2>2, <2>3, <2>4
  <1> QED BY <1>2, <1>3

\* What an index page names stays where it is.
LEMMA EntriesStay ==
  ASSUME NEW bs, NEW cs, NEW k, NEW page,
         \A y \in Locs(bs) : At(bs, y).kind = "data" /\ At(bs, y).id = k =>
                               y \in Locs(cs) /\ At(cs, y) = At(bs, y),
         Entries(bs, k, page)
  PROVE  Entries(cs, k, page)
  <1> SUFFICES ASSUME NEW q \in 1..Len(page.pages)
               PROVE  \E y \in Locs(cs) :
                        /\ page.pages[q] = Number(y)
                        /\ At(cs, y) = Chunk(k, Base(page.span) + (q - 1))
    BY DEF Entries
  <1>1. PICK y \in Locs(bs) :
          page.pages[q] = Number(y) /\ At(bs, y) = Chunk(k, Base(page.span) + (q - 1))
    BY DEF Entries
  <1>2. At(bs, y).kind = "data" /\ At(bs, y).id = k BY <1>1 DEF Chunk
  <1>3. y \in Locs(cs) /\ At(cs, y) = At(bs, y) BY <1>2
  <1> QED BY <1>1, <1>3

\* An object stays as it is while others are laid out.
LEMMA LaidStays ==
  ASSUME NEW bs, NEW cs, NEW k, NEW f, NEW n, NEW d,
         Locs(bs) \subseteq Locs(cs),
         \A x \in Locs(bs) : IF At(bs, x).id = k THEN At(cs, x) = At(bs, x)
                             ELSE At(cs, x).id # k,
         \A x \in Locs(cs) : x \notin Locs(bs) => At(cs, x).id # k,
         Laid(bs, k, f, n, d)
  PROVE  Laid(cs, k, f, n, d)
  <1>1. IndexLocs(cs, k) = IndexLocs(bs, k) BY DEF IndexLocs
  <1>2. \A x \in IndexLocs(bs, k) : At(cs, x) = At(bs, x) BY DEF IndexLocs
  <1>3. ASSUME NEW x \in IndexLocs(cs, k) PROVE Records(cs, k, At(cs, x), f, n, d)
    <2> DEFINE page == At(bs, x)
    <2>1. At(cs, x) = page /\ Records(bs, k, page, f, n, d) BY <1>1, <1>2 DEF Laid
    <2> HIDE DEF page
    <2>2. Entries(bs, k, page) BY <2>1 DEF Records
    <2>3. Entries(cs, k, page) BY <2>2, EntriesStay
    <2> QED BY <2>1, <2>3 DEF Records
  <1>4. \A j \in 0..(n - 1) : \E x \in IndexLocs(cs, k) : At(cs, x).span = j
    BY <1>1, <1>2 DEF Laid
  <1>5. \A x, y \in IndexLocs(cs, k) : At(cs, x).span = At(cs, y).span => x = y
    BY <1>1, <1>2 DEF Laid
  <1> QED BY <1>3, <1>4, <1>5 DEF Laid

\* The files created stay as they are while another is written.
LEMMA CreatedStays ==
  ASSUME LayoutInv, CreatedLaid, created' = created, Locs(blocks) \subseteq Locs(blocks'),
         \A x \in Locs(blocks) :
           IF At(blocks, x).id = Id THEN At(blocks', x).id = Id
           ELSE At(blocks', x) = At(blocks, x),
         \A x \in Locs(blocks') : x \notin Locs(blocks) => At(blocks', x).id = Id
  PROVE  CreatedLaid'
  <1> SUFFICES ASSUME NEW k \in 1..Len(created)
               PROVE  \E n \in Nat : Laid(blocks', k, created[k], n, Chunks(created[k]))
    BY DEF CreatedLaid
  <1>1. k # Id /\ k \in Nat
    <2>1. Len(created) \in Nat BY LayoutTypes
    <2> QED BY <2>1 DEF Id
  <1>2. PICK n \in Nat : Laid(blocks, k, created[k], n, Chunks(created[k])) BY DEF CreatedLaid
  <1> DEFINE f == created[k]
             d == Chunks(f)
             bs == blocks
             cs == blocks'
  <1>3. /\ Locs(bs) \subseteq Locs(cs) /\ Laid(bs, k, f, n, d)
        /\ \A x \in Locs(bs) : IF At(bs, x).id = k THEN At(cs, x) = At(bs, x)
                               ELSE At(cs, x).id # k
        /\ \A x \in Locs(cs) : x \notin Locs(bs) => At(cs, x).id # k
    BY <1>1, <1>2
  <1> HIDE DEF f, d, bs, cs
  <1>4. Laid(cs, k, f, n, d) BY <1>3, LaidStays
  <1> QED BY <1>4 DEF f, d, cs

\* A new index page names nothing.
LEMMA IndexPageIs ==
  ASSUME NEW id, NEW span, NEW f, NEW bs
  PROVE  /\ IndexPage(id, span, f).kind = "index" /\ IndexPage(id, span, f).id = id
         /\ IndexPage(id, span, f).span = span /\ IndexPage(id, span, f).size = FileSize[f]
         /\ Len(IndexPage(id, span, f).pages) = 0
         /\ Entries(bs, id, IndexPage(id, span, f))
  BY DEF IndexPage, Entries

LEMMA CreateFileObjects ==
  ASSUME ObjectsInv, NEW f \in Files, CreateFile(f)
  PROVE  ObjectsInv'
  <1>0. LayoutInv /\ LayoutInv' BY CreateFileLayout DEF ObjectsInv
  <1>1. /\ phase = "walking" /\ phase' = "writing" /\ created' = created /\ Id' = Id
        /\ cur'.file = f /\ cur'.span = 1 /\ cur'.data = 0
        /\ cur'.at \notin Locs(blocks) /\ Locs(blocks') = Locs(blocks) \cup {cur'.at}
        /\ At(blocks', cur'.at) = IndexPage(Id, 0, f)
        /\ \A x \in Locs(blocks) : At(blocks', x) = At(blocks, x)
    BY <1>0, CreateFileIs
  <1>2. \A x \in Locs(blocks) : At(blocks, x).id # Id
    <2>1. Id \in Nat /\ blocks \in Seq(BlockType) BY <1>0, LayoutTypes
    <2>2. \A x \in Locs(blocks) : At(blocks, x).id \in Nat BY <2>1, LocsAre, PageFields
    <2>3. \A x \in Locs(blocks) : At(blocks, x).id < Id BY <1>0, <1>1 DEF LayoutInv, Before
    <2> QED BY <2>1, <2>2, <2>3
  <1> DEFINE page == IndexPage(Id, 0, f)
             at == cur'.at
             cs == blocks'
  <1>3. /\ page.kind = "index" /\ page.id = Id /\ page.span = 0 /\ page.size = FileSize[f]
        /\ Len(page.pages) = 0 /\ Entries(cs, Id, page)
    BY IndexPageIs
  <1>4. CreatedLaid'
    <2>1. CreatedLaid BY DEF ObjectsInv
    <2> QED BY <1>0, <1>1, <1>2, <1>3, <2>1, CreatedStays
  <1>5. IndexLocs(cs, Id) = {at} /\ At(cs, at) = page
    BY <1>1, <1>2, <1>3 DEF IndexLocs
  <1> HIDE DEF page, at, cs
  <1>6. Base(0) = 0 /\ Base(1) \in Nat
    <2>1. 0 \in Nat /\ 0 + 1 = 1 OBVIOUS
    <2>2. Base(0 + 1) \in Nat BY <2>1, BaseNext
    <2> QED BY <2>1, <2>2 DEF Base
  <1>7. Records(cs, Id, page, f, 1, 0)
    BY <1>3, <1>6 DEF Records
  <1>8. Laid(cs, Id, f, 1, 0)
    <2>1. \A j \in 0..(1 - 1) : \E x \in IndexLocs(cs, Id) : At(cs, x).span = j
      BY <1>3, <1>5
    <2>2. \A x, y \in IndexLocs(cs, Id) : At(cs, x).span = At(cs, y).span => x = y
      BY <1>5
    <2>3. \A x \in IndexLocs(cs, Id) : Records(cs, Id, At(cs, x), f, 1, 0) BY <1>5, <1>7
    <2>4. 1 \in Nat \ {0} /\ 0 \in Nat /\ Base(1 - 1) <= 0 /\ 0 <= Base(1) BY <1>6
    <2> QED BY <2>1, <2>2, <2>3, <2>4 DEF Laid
  <1> QED BY <1>0, <1>1, <1>4, <1>8 DEF ObjectsInv, CreatedLaid, cs

\* Of the object being written, the open index page is the last.
LEMMA OpenIs ==
  ASSUME ObjectsInv, phase = "writing"
  PROVE  /\ cur.at \in IndexLocs(blocks, Id) /\ cur.span \in Nat \ {0} /\ cur.data \in Nat
         /\ cur.span - 1 \in Nat
         /\ OpenIndex = At(blocks, cur.at) /\ OpenIndex \in IndexPages
         /\ OpenIndex.span = cur.span - 1 /\ OpenIndex.id = Id
         /\ Len(OpenIndex.pages) = cur.data - Base(cur.span - 1)
         /\ Base(cur.span - 1) \in Nat /\ Base(cur.span) \in Nat
         /\ Base(cur.span - 1) <= cur.data /\ cur.data <= Base(cur.span)
         /\ Base(cur.span) = Base(cur.span - 1) + PagesLim(OpenIndex)
         /\ Laid(blocks, Id, cur.file, cur.span, cur.data)
         /\ \A x \in IndexLocs(blocks, Id) : x # cur.at => At(blocks, x).span # cur.span - 1
  <1>1. LayoutInv /\ Laid(blocks, Id, cur.file, cur.span, cur.data) BY DEF ObjectsInv
  <1>2. /\ cur.at \in Locs(blocks) /\ At(blocks, cur.at) \in IndexPages
        /\ At(blocks, cur.at).id = Id /\ At(blocks, cur.at).span = cur.span - 1
    BY <1>1 DEF LayoutInv, Open
  <1>3. OpenIndex = At(blocks, cur.at) BY DEF OpenIndex, At
  <1> DEFINE n == cur.span
             d == cur.data
             page == OpenIndex
  <1>4. n \in Nat \ {0} /\ d \in Nat /\ Base(n - 1) <= d /\ d <= Base(n) BY <1>1 DEF Laid
  <1>5. n - 1 \in Nat /\ (n - 1) + 1 = n BY <1>4
  <1>6. cur.at \in IndexLocs(blocks, Id)
    <2>1. At(blocks, cur.at).kind = "index" BY <1>2 DEF IndexPages
    <2> QED BY <1>2, <2>1 DEF IndexLocs
  <1>7. Records(blocks, Id, page, cur.file, n, d) BY <1>1, <1>3, <1>6 DEF Laid
  <1>8. page.span = n - 1 BY <1>2, <1>3
  <1>9. \A x \in IndexLocs(blocks, Id) : x # cur.at => At(blocks, x).span # n - 1
    BY <1>1, <1>2, <1>6 DEF Laid
  <1> HIDE DEF page, n, d
  <1>10. Len(page.pages) = d - Base(n - 1) BY <1>7, <1>8 DEF Records
  <1>11. Base(n - 1) \in Nat /\ Base(n) \in Nat /\ Base(n) = Base(n - 1) + PagesLim(page)
    <2> DEFINE j == n - 1
    <2>1. /\ Base(j) \in Nat /\ Base(j + 1) \in Nat
          /\ Base(j + 1) = Base(j) + (IF j = 0 THEN HeadLim ELSE IndexLim)
      BY <1>5, BaseNext
    <2>2. PagesLim(page) = IF j = 0 THEN HeadLim ELSE IndexLim BY <1>8 DEF PagesLim
    <2> HIDE DEF j
    <2>3. j + 1 = n BY <1>5 DEF j
    <2>4. Base(j) \in Nat /\ Base(n) \in Nat /\ Base(n) = Base(j) + PagesLim(page)
      BY <2>1, <2>2, <2>3
    <2> QED BY <2>4 DEF j
  <1> QED
    BY <1>1, <1>2, <1>3, <1>4, <1>5, <1>6, <1>8, <1>9, <1>10, <1>11 DEF page, n, d

LEMMA NextIndexPageObjects ==
  ASSUME ObjectsInv, NextIndexPage
  PROVE  ObjectsInv'
  <1>0. LayoutInv /\ LayoutInv' BY NextIndexPageLayout DEF ObjectsInv
  <1>1. /\ phase = "writing" /\ phase' = phase /\ created' = created /\ Id' = Id /\ IndexFull
        /\ cur'.file = cur.file /\ cur'.span = cur.span + 1 /\ cur'.data = cur.data
        /\ cur'.at \notin Locs(blocks) /\ Locs(blocks') = Locs(blocks) \cup {cur'.at}
        /\ At(blocks', cur'.at) = IndexPage(Id, cur.span, cur.file)
        /\ \A x \in Locs(blocks) : At(blocks', x) = At(blocks, x)
    BY <1>0, NextIndexPageIs
  <1> DEFINE f == cur.file
             n == cur.span
             d == cur.data
             page == IndexPage(Id, n, f)
             at == cur'.at
             bs == blocks
             cs == blocks'
  <1>2. /\ n \in Nat \ {0} /\ d \in Nat /\ Laid(bs, Id, f, n, d)
        /\ Base(n - 1) \in Nat /\ Base(n) \in Nat
        /\ Len(OpenIndex.pages) = d - Base(n - 1)
        /\ Base(n) = Base(n - 1) + PagesLim(OpenIndex)
    BY <1>1, OpenIs
  <1>3. /\ page.kind = "index" /\ page.id = Id /\ page.span = n /\ page.size = FileSize[f]
        /\ Len(page.pages) = 0 /\ Entries(cs, Id, page)
    BY IndexPageIs
  <1>4. CreatedLaid'
    <2>1. CreatedLaid BY DEF ObjectsInv
    <2> QED BY <1>0, <1>1, <1>3, <2>1, CreatedStays
  <1>5. /\ IndexLocs(cs, Id) = IndexLocs(bs, Id) \cup {at} /\ At(cs, at) = page
        /\ \A x \in IndexLocs(bs, Id) : At(cs, x) = At(bs, x)
    BY <1>1, <1>3 DEF IndexLocs
  <1>6. d = Base(n)
    <2>1. Len(OpenIndex.pages) = PagesLim(OpenIndex) BY <1>1 DEF IndexFull
    <2> HIDE DEF n, d
    <2> QED BY <1>2, <2>1
  <1>7. Base(n + 1) \in Nat /\ Base(n) <= Base(n + 1)
    <2> HIDE DEF n
    <2> QED BY <1>2, BaseNext, SizesAre
  <1>8. \A x \in Locs(bs) : x \in Locs(cs) /\ At(cs, x) = At(bs, x) BY <1>1
  <1> HIDE DEF page, at, bs, cs, n, d, f
  <1>9. ASSUME NEW x \in IndexLocs(cs, Id)
        PROVE  Records(cs, Id, At(cs, x), f, n + 1, d) /\ At(cs, x).span \in 0..n
    <2>1. CASE x \in IndexLocs(bs, Id)
      <3> DEFINE old == At(bs, x)
      <3>1. At(cs, x) = old /\ Records(bs, Id, old, f, n, d) BY <1>2, <1>5, <2>1 DEF Laid
      <3>2. old.span \in Nat
        <4>1. bs \in Seq(BlockType) BY <1>0, LayoutTypes DEF bs
        <4>2. x \in Locs(bs) BY <2>1 DEF IndexLocs
        <4>3. old \in Pages BY <4>1, <4>2, LocsAre
        <4> QED BY <4>3, PageFields
      <3> HIDE DEF old
      <3>3. /\ old.span < n /\ old.size = FileSize[f] /\ Entries(bs, Id, old)
            /\ Len(old.pages) = (IF old.span = n - 1 THEN d ELSE Base(old.span + 1)) - Base(old.span)
        BY <3>1 DEF Records
      <3>4. Entries(cs, Id, old) BY <1>8, <3>3, EntriesStay
      <3>5. old.span < n + 1 /\ old.span # (n + 1) - 1 /\ old.span \in 0..n BY <1>2, <3>2, <3>3
      <3>6. Len(old.pages) = Base(old.span + 1) - Base(old.span)
        <4>1. CASE old.span = n - 1
          <5>1. old.span + 1 = n BY <1>2, <4>1
          <5> QED BY <1>6, <3>3, <4>1, <5>1
        <4>2. CASE old.span # n - 1 BY <3>3, <4>2
        <4> QED BY <4>1, <4>2
      <3> QED BY <3>1, <3>3, <3>4, <3>5, <3>6 DEF Records
    <2>2. CASE x = at
      <3>1. At(cs, x) = page BY <1>5, <2>2
      <3>2. page.span < n + 1 /\ page.span = (n + 1) - 1 /\ page.span \in 0..n BY <1>2, <1>3
      <3>3. Len(page.pages) = d - Base(page.span) BY <1>2, <1>3, <1>6
      <3> QED BY <1>3, <3>1, <3>2, <3>3 DEF Records
    <2> QED BY <1>5, <2>1, <2>2
  <1>10. \A j \in 0..n : \E x \in IndexLocs(cs, Id) : At(cs, x).span = j
    <2> SUFFICES ASSUME NEW j \in 0..n PROVE \E x \in IndexLocs(cs, Id) : At(cs, x).span = j
      OBVIOUS
    <2>1. CASE j = n BY <1>3, <1>5, <2>1
    <2>2. CASE j # n
      <3>1. j \in 0..(n - 1) BY <1>2, <2>2
      <3>2. PICK x \in IndexLocs(bs, Id) : At(bs, x).span = j BY <1>2, <3>1 DEF Laid
      <3> QED BY <1>5, <3>2
    <2> QED BY <2>1, <2>2
  <1>11. ASSUME NEW x \in IndexLocs(cs, Id), NEW y \in IndexLocs(cs, Id),
                At(cs, x).span = At(cs, y).span
         PROVE  x = y
    <2>1. \A z \in IndexLocs(bs, Id) : At(bs, z).span # n
      <3> SUFFICES ASSUME NEW z \in IndexLocs(bs, Id) PROVE At(bs, z).span # n OBVIOUS
      <3>1. Records(bs, Id, At(bs, z), f, n, d) BY <1>2 DEF Laid
      <3>2. At(bs, z).span < n BY <3>1 DEF Records
      <3> QED BY <1>2, <3>2
    <2>2. \A z, w \in IndexLocs(bs, Id) : At(bs, z).span = At(bs, w).span => z = w
      BY <1>2 DEF Laid
    <2> QED BY <1>3, <1>5, <1>11, <2>1, <2>2
  <1>12. Laid(cs, Id, f, n + 1, d)
    <2>1. n + 1 \in Nat \ {0} /\ (n + 1) - 1 = n /\ Base(n) <= d /\ d <= Base(n + 1) /\ d \in Nat
      BY <1>2, <1>6, <1>7
    <2> QED BY <1>9, <1>10, <1>11, <2>1 DEF Laid
  <1> QED BY <1>0, <1>1, <1>4, <1>12 DEF ObjectsInv, cs, f, n, d

LEMMA UpdateObjObjects ==
  ASSUME ObjectsInv, UpdateObj
  PROVE  ObjectsInv'
  <1> DEFINE f == cur.file
             n == cur.span
             d == cur.data
             at == cur.at
             bs == blocks
             cs == blocks'
             open == OpenIndex
             loc == <<Len(blocks), Len(LastBlock(blocks).pages) + 1>>
             num == Number(loc)
             more == WithNumber(open, num)
  <1>0. LayoutInv /\ LayoutInv' BY UpdateObjLayout DEF ObjectsInv
  <1>1. /\ phase = "writing" /\ phase' = phase /\ created' = created /\ Id' = Id /\ ~IndexFull
        /\ cur'.file = f /\ cur'.span = n /\ cur'.data = d + 1
        /\ loc \notin Locs(bs) /\ Locs(cs) = Locs(bs) \cup {loc}
        /\ At(cs, loc) = Chunk(Id, d)
        /\ At(bs, at) \in IndexPages
        /\ At(cs, at) = WithNumber(At(bs, at), num) /\ num \in Nat
        /\ \A x \in Locs(bs) : x # at => At(cs, x) = At(bs, x)
    BY <1>0, UpdateObjIs
  <1>2. /\ n \in Nat \ {0} /\ d \in Nat /\ Laid(bs, Id, f, n, d) /\ at \in IndexLocs(bs, Id)
        /\ Base(n - 1) \in Nat /\ Base(n) \in Nat /\ n - 1 \in Nat
        /\ open = At(bs, at) /\ open \in IndexPages /\ open.span = n - 1 /\ open.id = Id
        /\ Len(open.pages) = d - Base(n - 1) /\ Base(n - 1) <= d /\ d <= Base(n)
        /\ Base(n) = Base(n - 1) + PagesLim(open)
        /\ \A x \in IndexLocs(bs, Id) : x # at => At(bs, x).span # n - 1
    BY <1>1, OpenIs
  <1>3. Len(open.pages) # PagesLim(open) BY <1>1 DEF IndexFull
  <1>4. at \in Locs(bs) /\ Locs(bs) \subseteq Locs(cs) BY <1>1, <1>2 DEF IndexLocs
  <1> HIDE DEF f, n, d, at, bs, cs, open, loc, num, more
  <1>5. /\ more \in IndexPages /\ more.kind = "index" /\ more.id = Id /\ more.span = n - 1
        /\ more.size = open.size /\ more.pages = Append(open.pages, num)
        /\ At(cs, at) = more
    <2>1. /\ WithNumber(open, num) \in IndexPages /\ WithNumber(open, num).kind = "index"
          /\ WithNumber(open, num).id = open.id /\ WithNumber(open, num).span = open.span
          /\ WithNumber(open, num).size = open.size
          /\ WithNumber(open, num).pages = Append(open.pages, num)
      BY <1>1, <1>2, WithNumberIs
    <2> QED BY <1>1, <1>2, <2>1 DEF more
  <1>6. Chunk(Id, d).kind = "data" /\ Chunk(Id, d).id = Id BY DEF Chunk
  <1>7. CreatedLaid'
    <2>1. CreatedLaid BY DEF ObjectsInv
    <2>2. \A x \in Locs(bs) : IF At(bs, x).id = Id THEN At(cs, x).id = Id
                              ELSE At(cs, x) = At(bs, x)
      BY <1>1, <1>2, <1>5
    <2>3. \A x \in Locs(cs) : x \notin Locs(bs) => At(cs, x).id = Id BY <1>1, <1>6
    <2> QED BY <1>0, <1>1, <1>4, <2>1, <2>2, <2>3, CreatedStays DEF bs, cs
  <1>8. IndexLocs(cs, Id) = IndexLocs(bs, Id)
    <2>1. ASSUME NEW x \in IndexLocs(cs, Id) PROVE x \in IndexLocs(bs, Id)
      <3>1. x \in Locs(cs) /\ At(cs, x).kind = "index" /\ At(cs, x).id = Id BY DEF IndexLocs
      <3>2. x # loc BY <1>1, <1>6, <3>1
      <3>3. CASE x = at BY <1>2, <3>3
      <3>4. CASE x # at BY <1>1, <3>1, <3>2, <3>4 DEF IndexLocs
      <3> QED BY <3>3, <3>4
    <2>2. ASSUME NEW x \in IndexLocs(bs, Id) PROVE x \in IndexLocs(cs, Id)
      <3>1. x \in Locs(cs) /\ At(bs, x).kind = "index" /\ At(bs, x).id = Id
        BY <1>4 DEF IndexLocs
      <3>2. At(cs, x).kind = "index" /\ At(cs, x).id = Id BY <1>1, <1>4, <1>5, <3>1 DEF IndexLocs
      <3> QED BY <3>1, <3>2 DEF IndexLocs
    <2> QED BY <2>1, <2>2
  <1>9. \A x \in IndexLocs(bs, Id) : At(cs, x).span = At(bs, x).span
    BY <1>1, <1>2, <1>5 DEF IndexLocs
  <1>10. \A y \in Locs(bs) : At(bs, y).kind = "data" /\ At(bs, y).id = Id =>
                               y \in Locs(cs) /\ At(cs, y) = At(bs, y)
    <2>1. At(bs, at).kind = "index" BY <1>2 DEF IndexLocs
    <2> QED BY <1>1, <1>4, <2>1
  <1>11. d + 1 <= Base(n)
    <2>1. PagesLim(open) \in Nat BY SizesAre DEF PagesLim
    <2> QED BY <1>2, <1>3, <2>1
  <1>12. Records(bs, Id, open, f, n, d) BY <1>2 DEF Laid
  <1>13. Records(cs, Id, more, f, n, d + 1)
    <2>1. open.pages \in Seq(Nat) BY <1>2 DEF IndexPages
    <2>2. Len(more.pages) = Len(open.pages) + 1 /\ more.pages[Len(open.pages) + 1] = num
          /\ \A q \in 1..Len(open.pages) : more.pages[q] = open.pages[q]
          /\ Len(open.pages) \in Nat
      BY <1>1, <1>5, <2>1
    <2>3. Entries(cs, Id, open) BY <1>10, <1>12, EntriesStay DEF Records
    <2>4. Entries(cs, Id, more)
      <3> SUFFICES ASSUME NEW q \in 1..Len(more.pages)
                   PROVE  \E y \in Locs(cs) :
                            /\ more.pages[q] = Number(y)
                            /\ At(cs, y) = Chunk(Id, Base(more.span) + (q - 1))
        BY DEF Entries
      <3>1. q \in 1..Len(open.pages) \/ q = Len(open.pages) + 1 BY <2>2
      <3>2. CASE q \in 1..Len(open.pages)
        <4>1. PICK y \in Locs(cs) : /\ open.pages[q] = Number(y)
                                    /\ At(cs, y) = Chunk(Id, Base(open.span) + (q - 1))
          BY <2>3, <3>2 DEF Entries
        <4> QED BY <1>2, <1>5, <2>2, <3>2, <4>1
      <3>3. CASE q = Len(open.pages) + 1
        <4>1. Base(n - 1) + (q - 1) = d BY <1>2, <2>2, <3>3
        <4>2. more.pages[q] = Number(loc) BY <2>2, <3>3 DEF num
        <4>3. At(cs, loc) = Chunk(Id, Base(more.span) + (q - 1)) BY <1>1, <1>5, <4>1
        <4> QED BY <1>1, <4>2, <4>3
      <3> QED BY <3>1, <3>2, <3>3
    <2>5. more.span < n /\ more.span = n - 1 BY <1>2, <1>5
    <2>6. Len(more.pages) = (d + 1) - Base(n - 1) BY <1>2, <2>2
    <2>7. more.size = FileSize[f] BY <1>5, <1>12 DEF Records
    <2> QED BY <2>4, <2>5, <2>6, <2>7 DEF Records
  <1>14. ASSUME NEW x \in IndexLocs(cs, Id)
         PROVE  Records(cs, Id, At(cs, x), f, n, d + 1)
    <2>1. CASE x = at BY <1>5, <1>13, <2>1
    <2>2. CASE x # at
      <3> DEFINE old == At(bs, x)
      <3>1. At(cs, x) = old /\ Records(bs, Id, old, f, n, d) /\ old.span # n - 1
        BY <1>1, <1>2, <1>8, <2>2 DEF Laid, IndexLocs
      <3> HIDE DEF old
      <3>2. Entries(bs, Id, old) BY <3>1 DEF Records
      <3>3. Entries(cs, Id, old) BY <1>10, <3>2, EntriesStay
      <3> QED BY <3>1, <3>3 DEF Records
    <2> QED BY <2>1, <2>2
  <1>15. Laid(cs, Id, f, n, d + 1)
    <2>1. \A j \in 0..(n - 1) : \E x \in IndexLocs(cs, Id) : At(cs, x).span = j
      BY <1>2, <1>8, <1>9 DEF Laid
    <2>2. \A x, y \in IndexLocs(cs, Id) : At(cs, x).span = At(cs, y).span => x = y
      BY <1>2, <1>8, <1>9 DEF Laid
    <2>3. d + 1 \in Nat /\ Base(n - 1) <= d + 1 BY <1>2
    <2> QED BY <1>2, <1>11, <1>14, <2>1, <2>2, <2>3 DEF Laid
  <1> QED BY <1>0, <1>1, <1>7, <1>15 DEF ObjectsInv, cs

LEMMA NextBlockObjects ==
  ASSUME ObjectsInv, NextBlock
  PROVE  ObjectsInv'
  <1>0. LayoutInv /\ LayoutInv' BY NextBlockLayout DEF ObjectsInv
  <1>1. /\ phase = "writing" /\ phase' = phase /\ created' = created /\ Id' = Id /\ cur' = cur
        /\ Locs(blocks') = Locs(blocks)
        /\ \A x \in Locs(blocks) : At(blocks', x) = At(blocks, x)
    BY <1>0, NextBlockIs
  <1>2. CreatedLaid'
    <2>1. CreatedLaid BY DEF ObjectsInv
    <2> QED BY <1>0, <1>1, <2>1, CreatedStays
  <1>3. Laid(blocks', Id, cur.file, cur.span, cur.data)
    <2> DEFINE f == cur.file
               n == cur.span
               d == cur.data
               k == Id
               bs == blocks
               cs == blocks'
    <2>1. /\ Laid(bs, k, f, n, d) /\ Locs(cs) = Locs(bs)
          /\ \A x \in Locs(bs) : At(cs, x) = At(bs, x)
      BY <1>1 DEF ObjectsInv
    <2> HIDE DEF f, n, d, k, bs, cs
    <2>2. Laid(cs, k, f, n, d) BY <2>1, LaidStays
    <2> QED BY <2>2 DEF f, n, d, k, cs
  <1> QED BY <1>0, <1>1, <1>2, <1>3 DEF ObjectsInv

LEMMA EndObjObjects ==
  ASSUME ObjectsInv, EndObj
  PROVE  ObjectsInv'
  <1>0. LayoutInv /\ LayoutInv' BY EndObjLayout DEF ObjectsInv
  <1>1. /\ phase = "writing" /\ phase' = "walking" /\ blocks' = blocks
        /\ cur.data = Chunks(cur.file) /\ Len(created') = Id /\ created'[Id] = cur.file
        /\ \A k \in 1..Len(created) : created'[k] = created[k]
    BY <1>0, EndObjIs
  <1>2. Laid(blocks, Id, cur.file, cur.span, cur.data) /\ cur.span \in Nat
    BY <1>1, OpenIs
  <1>3. Len(created) \in Nat /\ Id = Len(created) + 1 BY <1>0, LayoutTypes DEF Id
  <1>4. CreatedLaid'
    <2> SUFFICES ASSUME NEW k \in 1..Id
                 PROVE  \E n \in Nat : Laid(blocks, k, created'[k], n, Chunks(created'[k]))
      BY <1>1 DEF CreatedLaid
    <2>1. CASE k = Id BY <1>1, <1>2, <2>1
    <2>2. CASE k # Id
      <3>1. k \in 1..Len(created) BY <1>3, <2>2
      <3>2. created'[k] = created[k] BY <1>1, <3>1
      <3> QED BY <3>1, <3>2 DEF ObjectsInv, CreatedLaid
    <2> QED BY <2>1, <2>2
  <1> QED BY <1>0, <1>1, <1>4 DEF ObjectsInv

LEMMA QuietObjects ==
  ASSUME ObjectsInv, Quiet
  PROVE  ObjectsInv'
  <1>0. LayoutInv /\ LayoutInv' BY QuietLayout DEF ObjectsInv
  <1>1. /\ created' = created /\ blocks' = blocks /\ cur' = cur /\ Id' = Id
        /\ phase' = "writing" => phase = "writing"
    BY DEF Quiet, Id
  <1> QED BY <1>0, <1>1 DEF ObjectsInv, CreatedLaid

\* Every step keeps the objects.
LEMMA NextObjectsInv == ObjectsInv /\ [Next]_vars => ObjectsInv'
  <1> SUFFICES ASSUME ObjectsInv, [Next]_vars PROVE ObjectsInv' OBVIOUS
  <1>0. LayoutInv BY DEF ObjectsInv
  <1>1. ASSUME NEW f \in Files, CreateFile(f) PROVE ObjectsInv' BY <1>1, CreateFileObjects
  <1>2. CASE UpdateObj BY <1>2, UpdateObjObjects
  <1>3. CASE NextIndexPage BY <1>3, NextIndexPageObjects
  <1>4. CASE NextBlock BY <1>4, NextBlockObjects
  <1>5. CASE EndObj BY <1>5, EndObjObjects
  <1>6. CASE \/ BadArgument \/ OddSize \/ OpenOutput \/ NoRoomForPage \/ WriteImage \/ PageOverflow
             \/ Told
             \/ \E f \in Files : NameTooLong(f) \/ NoRoomForFile(f)
             \/ UNCHANGED vars
    BY <1>0, <1>6, QuietSteps, QuietObjects
  <1> QED BY <1>1, <1>2, <1>3, <1>4, <1>5, <1>6 DEF Next

LEMMA InitObjectsInv == Init => ObjectsInv
  <1> SUFFICES ASSUME Init PROVE ObjectsInv OBVIOUS
  <1>1. LayoutInv BY InitLayoutInv
  <1>2. phase = "start" /\ Len(created) = 0 BY DEF Init
  <1> QED BY <1>1, <1>2 DEF ObjectsInv, CreatedLaid

-----------------------------------------------------------------------------
(***************************************************************************)
(* The device reads it back.                                                *)
(***************************************************************************)
\* A page number leads to the page.
LEMMA PageAtIs ==
  ASSUME NEW x \in Locs(blocks), LayoutInv
  PROVE  PageAt(Number(x)) = At(blocks, x)
  <1> DEFINE b == x[1]
             i == x[2]
             a == b - 1
             r == LuPages + (i - 1)
             p == PagesPerBlock
  <1>1. b \in 1..Len(blocks) /\ i \in 1..UsablePages
    <2>1. blocks \in Seq(BlockType) BY LayoutTypes
    <2> QED BY <2>1, LocsAre
  <1>2. Len(blocks) \in Nat BY LayoutTypes
  <1>3. /\ p \in Nat \ {0} /\ LuPages \in Nat /\ UsablePages \in Nat /\ p = LuPages + UsablePages
    BY SizesAre
  <1>4. At(blocks, x) = blocks[b].pages[i] BY DEF At
  <1> HIDE DEF b, i
  <1>5. a \in Nat /\ a + 1 = b BY <1>1, <1>2
  <1>6. r \in Nat /\ r < p /\ r - LuPages + 1 = i BY <1>1, <1>3
  <1>7. Number(x) = a * p + r
    <2>1. Number(x) = a * p + LuPages + (i - 1) BY DEF Number, b, i
    <2> HIDE DEF a, p
    <2>2. a * p \in Nat BY <1>3, <1>5
    <2> QED BY <1>1, <1>3, <2>1, <2>2
  <1> HIDE DEF a, r, p
  <1>8. (a * p + r) \div p = a /\ (a * p + r) % p = r BY <1>3, <1>5, <1>6, DivMod
  <1>9. PageAt(Number(x)) = blocks[a + 1].pages[r - LuPages + 1] BY <1>7, <1>8 DEF PageAt, p
  <1> QED BY <1>4, <1>5, <1>6, <1>9

\* The lookup pages lead to an index page.
LEMMA IndexOfIs ==
  ASSUME LayoutInv, NEW k \in Nat, NEW j \in Nat, NEW x \in IndexLocs(blocks, k),
         At(blocks, x).span = j,
         \A y \in IndexLocs(blocks, k) : At(blocks, y).span = j => y = x
  PROVE  IndexOf(k, j) = At(blocks, x)
  <1> DEFINE P == {<<b, i>> : b \in 1..Len(blocks), i \in 1..UsablePages}
             Q(z) == /\ z[2] <= Len(blocks[z[1]].lu)
                     /\ blocks[z[1]].lu[z[2]] = [id |-> k, index |-> TRUE]
                     /\ blocks[z[1]].pages[z[2]].span = j
  <1>1. blocks \in Seq(BlockType) /\ \A b \in 1..Len(blocks) : Mirrored(blocks[b])
    BY LayoutTypes
  <1>2. ASSUME NEW b \in 1..Len(blocks), NEW i \in 1..Len(blocks[b].pages)
        PROVE  /\ Len(blocks[b].lu) = Len(blocks[b].pages)
               /\ blocks[b].lu[i] = [id |-> k, index |-> TRUE] <=>
                    blocks[b].pages[i].id = k /\ blocks[b].pages[i].kind = "index"
    <2> DEFINE block == blocks[b]
               page == block.pages[i]
    <2>1. Len(block.lu) = Len(block.pages)
          /\ block.lu[i] = [id |-> page.id, index |-> page.kind = "index"]
      BY <1>1 DEF Mirrored
    <2> HIDE DEF page
    <2>2. [id |-> page.id, index |-> page.kind = "index"] = [id |-> k, index |-> TRUE] <=>
            page.id = k /\ page.kind = "index"
      OBVIOUS
    <2> QED BY <2>1, <2>2 DEF page
  <1>3. x \in P /\ Q(x)
    <2>1. x \in Locs(blocks) /\ At(blocks, x).kind = "index" /\ At(blocks, x).id = k
      BY DEF IndexLocs
    <2>2. x[1] \in 1..Len(blocks) /\ x[2] \in 1..Len(blocks[x[1]].pages) /\ x = <<x[1], x[2]>>
          /\ x[2] \in 1..UsablePages
      BY <1>1, <2>1, LocsAre
    <2>3. x \in P BY <2>2
    <2>4. /\ Len(blocks[x[1]].lu) = Len(blocks[x[1]].pages)
          /\ blocks[x[1]].lu[x[2]] = [id |-> k, index |-> TRUE]
      BY <1>2, <2>1, <2>2 DEF At
    <2>5. x[2] <= Len(blocks[x[1]].lu) BY <2>2, <2>4
    <2> QED BY <2>3, <2>4, <2>5 DEF At
  <1>4. ASSUME NEW z \in P, Q(z) PROVE z = x
    <2>1. z[1] \in 1..Len(blocks) /\ z[2] \in 1..UsablePages /\ z = <<z[1], z[2]>> OBVIOUS
    <2>2. Len(blocks[z[1]].lu) = Len(blocks[z[1]].pages) BY <1>1, <2>1 DEF Mirrored
    <2>3. z \in Locs(blocks) BY <1>4, <2>1, <2>2 DEF Locs
    <2>4. z[2] \in 1..Len(blocks[z[1]].pages) BY <1>1, <2>3, LocsAre
    <2>5. At(blocks, z).id = k /\ At(blocks, z).kind = "index" /\ At(blocks, z).span = j
      BY <1>2, <1>4, <2>1, <2>4 DEF At
    <2> QED BY <2>3, <2>5 DEF IndexLocs
  <1> DEFINE at == CHOOSE z \in P : Q(z)
  <1>5. at = x
    <2> HIDE DEF P, Q
    <2>1. at \in P /\ Q(at) BY <1>3
    <2> HIDE DEF at
    <2> QED BY <1>4, <2>1
  <1>6. IndexOf(k, j) = blocks[at[1]].pages[at[2]] BY DEF IndexOf
  <1> HIDE DEF at
  <1> QED BY <1>5, <1>6 DEF At

\* Data page s is the one that the index page it falls to names.
LEMMA Found ==
  ASSUME LayoutInv, NEW k \in Nat, NEW f, NEW n, NEW d, Laid(blocks, k, f, n, d),
         NEW j \in Nat, j < n, NEW r \in Nat, Base(j) + r < d,
         j # n - 1 => Base(j) + r < Base(j + 1)
  PROVE  /\ IndexOf(k, j).size = FileSize[f]
         /\ PageAt(IndexOf(k, j).pages[r + 1]) = Chunk(k, Base(j) + r)
  <1>1. n \in Nat \ {0} /\ d \in Nat /\ j \in 0..(n - 1) BY DEF Laid
  <1>2. PICK x \in IndexLocs(blocks, k) : At(blocks, x).span = j BY <1>1 DEF Laid
  <1> DEFINE page == At(blocks, x)
  <1>3. IndexOf(k, j) = page /\ page.span = j
    <2>1. \A y \in IndexLocs(blocks, k) : At(blocks, y).span = j => y = x BY <1>2 DEF Laid
    <2> QED BY <1>2, <2>1, IndexOfIs
  <1>4. Records(blocks, k, page, f, n, d) BY <1>2 DEF Laid
  <1> HIDE DEF page
  <1>5. r + 1 \in 1..Len(page.pages)
    <2>1. Base(j) \in Nat /\ Base(j + 1) \in Nat BY BaseNext
    <2>2. Len(page.pages) = (IF j = n - 1 THEN d ELSE Base(j + 1)) - Base(j)
      BY <1>3, <1>4 DEF Records
    <2> QED BY <1>1, <2>1, <2>2
  <1>6. PICK y \in Locs(blocks) : /\ page.pages[r + 1] = Number(y)
                                  /\ At(blocks, y) = Chunk(k, Base(j) + ((r + 1) - 1))
    BY <1>3, <1>4, <1>5 DEF Records, Entries
  <1>7. PageAt(Number(y)) = At(blocks, y) BY PageAtIs
  <1>8. (r + 1) - 1 = r OBVIOUS
  <1>9. page.size = FileSize[f] BY <1>4 DEF Records
  <1> QED BY <1>3, <1>6, <1>7, <1>8, <1>9

LEMMA DataPageIs ==
  ASSUME LayoutInv, NEW k \in Nat, NEW f, NEW n, NEW d, Laid(blocks, k, f, n, d),
         NEW s \in Nat, s < d
  PROVE  DataPage(k, s) = Chunk(k, s)
  <1>1. /\ n \in Nat \ {0} /\ d \in Nat /\ d <= Base(n) /\ n - 1 \in Nat /\ (n - 1) + 1 = n
    BY DEF Laid
  <1>2. HeadLim \in Nat /\ IndexLim \in Nat \ {0} BY SizesAre
  <1>3. Base(n) = HeadLim + (n - 1) * IndexLim BY <1>1 DEF Base
  <1>4. CASE s < HeadLim
    <2>1. Base(0) = 0 /\ 0 \in Nat /\ 0 < n /\ 0 + s = s /\ 0 + 1 = 1 BY <1>1 DEF Base
    <2>2. Base(1) = HeadLim
      <3>1. Base(0 + 1) = Base(0) + HeadLim BY <2>1, BaseNext
      <3> QED BY <1>2, <2>1, <3>1
    <2>3. Base(0) + s < d /\ Base(0) + s < Base(0 + 1) BY <1>4, <2>1, <2>2
    <2>4. PageAt(IndexOf(k, 0).pages[s + 1]) = Chunk(k, Base(0) + s)
      BY <2>1, <2>3, Found
    <2> QED BY <1>4, <2>1, <2>4 DEF DataPage
  <1>5. CASE ~(s < HeadLim)
    <2> DEFINE t == s - HeadLim
               a == t \div IndexLim
               r == t % IndexLim
    <2>1. t \in Nat /\ s = HeadLim + t BY <1>2, <1>5
    <2>2. a \in Nat /\ r \in Nat /\ r < IndexLim /\ t = IndexLim * a + r BY <1>2, <2>1, DivIs
    <2>3. DataPage(k, s) = PageAt(IndexOf(k, 1 + a).pages[r + 1]) BY <1>5 DEF DataPage
    <2> HIDE DEF t, a, r
    <2>4. IndexLim * a = a * IndexLim /\ a * IndexLim \in Nat BY <1>2, <2>2
    <2> DEFINE j == 1 + a
    <2>5. j \in Nat /\ j # 0 /\ j - 1 = a BY <2>2
    <2>6. Base(j) = HeadLim + a * IndexLim BY <2>5 DEF Base
    <2> HIDE DEF j
    <2>7. Base(j) + r = s BY <1>2, <2>1, <2>2, <2>4, <2>6
    <2>8. j < n
      <3> SUFFICES ASSUME n - 1 <= a PROVE FALSE BY <1>1, <2>2, <2>5
      <3>1. (n - 1) * IndexLim <= a * IndexLim
        <4> DEFINE m == n - 1
                   e == a - m
        <4>1. m \in Nat /\ e \in Nat /\ a = m + e BY <1>1, <2>2
        <4> HIDE DEF m, e
        <4>2. (m + e) * IndexLim = m * IndexLim + e * IndexLim /\ e * IndexLim \in Nat
              /\ m * IndexLim \in Nat
          BY <1>2, <4>1
        <4>3. m * IndexLim <= a * IndexLim BY <4>1, <4>2
        <4> QED BY <4>3 DEF m
      <3>2. (n - 1) * IndexLim \in Nat BY <1>1, <1>2
      <3> QED BY <1>1, <1>2, <1>3, <2>2, <2>4, <2>6, <2>7, <3>1, <3>2
    <2>9. Base(j) + r < Base(j + 1) BY <1>2, <2>2, <2>5, BaseNext
    <2>10. PageAt(IndexOf(k, j).pages[r + 1]) = Chunk(k, Base(j) + r)
      BY <2>2, <2>5, <2>7, <2>8, <2>9, Found
    <2> QED BY <2>3, <2>7, <2>10 DEF j
  <1> QED BY <1>4, <1>5

\* Of every directory, at every step: each file created so far reads back from
\* its head index page and the further ones whole and in order, across the ends
\* of blocks and of index pages, while others are laid out behind it
\* (SpiffsFS.create_file, SpiffsBlock.update_obj, SpiffsObjIndexPage).
THEOREM ReadsBack == Spec => []ReadBack
  <1>1. ObjectsInv => ReadBack
    <2> SUFFICES ASSUME ObjectsInv, NEW k \in 1..Len(created)
                 PROVE  /\ IndexOf(k, 0).size = FileSize[created[k]]
                        /\ \A s \in 0..(Chunks(created[k]) - 1) :
                             DataPage(k, s) =
                               [kind |-> "data", id |-> k, span |-> s, part |-> s + 1]
      BY DEF ReadBack
    <2> DEFINE f == created[k]
               d == Chunks(f)
    <2>1. LayoutInv BY DEF ObjectsInv
    <2>2. k \in Nat /\ d \in Nat
      <3>1. created \in Seq(Files) /\ Len(created) \in Nat BY <2>1, LayoutTypes
      <3>2. f \in Files BY <3>1
      <3> QED BY <3>1, <3>2, ChunksAre
    <2>3. PICK n \in Nat : Laid(blocks, k, f, n, d) BY DEF ObjectsInv, CreatedLaid
    <2> HIDE DEF d, f
    <2>4. ASSUME NEW s \in 0..(d - 1)
          PROVE  DataPage(k, s) = [kind |-> "data", id |-> k, span |-> s, part |-> s + 1]
      <3>1. s \in Nat /\ s < d BY <2>2
      <3>2. DataPage(k, s) = Chunk(k, s) BY <2>1, <2>2, <2>3, <3>1, DataPageIs
      <3> QED BY <3>2 DEF Chunk
    <2>5. IndexOf(k, 0).size = FileSize[f]
      <3>1. n \in Nat \ {0} /\ 0 \in 0..(n - 1)
        <4>1. n \in Nat \ {0} BY <2>3 DEF Laid
        <4> QED BY <4>1
      <3>2. PICK x \in IndexLocs(blocks, k) : At(blocks, x).span = 0 BY <2>3, <3>1 DEF Laid
      <3>3. \A y \in IndexLocs(blocks, k) : At(blocks, y).span = 0 => y = x
        BY <2>3, <3>2 DEF Laid
      <3>4. IndexOf(k, 0) = At(blocks, x) BY <2>1, <2>2, <3>2, <3>3, IndexOfIs
      <3>5. Records(blocks, k, At(blocks, x), f, n, d) BY <2>3 DEF Laid
      <3> QED BY <3>4, <3>5 DEF Records
    <2> QED BY <2>4, <2>5 DEF d, f
  <1>2. Spec => []ObjectsInv BY InitObjectsInv, NextObjectsInv, PTL DEF Spec
  <1> QED BY <1>1, <1>2, PTL

-----------------------------------------------------------------------------
(***************************************************************************)
(* How many pages the files take.                                           *)
(***************************************************************************)
\* Every set of numbers has a least one.
LEMMA Least ==
  ASSUME NEW T, T \subseteq Nat, T # {}
  PROVE  \E n \in T : \A m \in T : n <= m
  <1>1. PICK n \in T : \A m \in T : ~ (<<m, n>> \in OpToRel(<, Nat))
    BY NatLessThanWellFounded, WFMin, Zenon
  <1>2. \A m \in T : m \in Nat /\ n \in Nat /\ ~ (m < n) BY <1>1 DEF OpToRel
  <1>3. \A m \in T : n <= m BY <1>2
  <1> QED BY <1>3

\* Of an object of d chunks or more, n index pages are needed when the last of
\* them is.
LEMMA NeedIs ==
  ASSUME NEW f \in Files, NEW n \in Nat \ {0}, n > 1 => Base(n - 1) < Chunks(f)
  PROVE  /\ Need(f) \in Nat /\ Need(f) >= Chunks(f) + n
         /\ Chunks(f) <= Base(n) => Need(f) = Chunks(f) + n
  <1> DEFINE c == Chunks(f)
             t == c - HeadLim
             further == RoundUp(t, IndexLim)
  <1>1. c \in Nat BY ChunksAre
  <1>2. HeadLim \in Nat /\ IndexLim \in Nat \ {0} BY SizesAre
  <1>3. Need(f) = 1 + c + (IF c <= HeadLim THEN 0 ELSE further) BY DEF Need
  <1>4. Base(n) = HeadLim + (n - 1) * IndexLim BY DEF Base
  <1> HIDE DEF c, further
  <1>5. ~(c <= HeadLim) => t \in Nat /\ further \in Nat /\ t <= IndexLim * further
    <2> SUFFICES ASSUME ~(c <= HeadLim) PROVE t \in Nat /\ further \in Nat /\ t <= IndexLim * further
      OBVIOUS
    <2>1. t \in Nat BY <1>1, <1>2
    <2> HIDE DEF t
    <2> QED BY <1>2, <2>1, RoundUpIs DEF further
  <1>6. CASE n = 1
    <2>1. Base(n) = HeadLim
      <3>1. Base(n) = HeadLim + 0 * IndexLim BY <1>4, <1>6
      <3> QED BY <1>2, <3>1
    <2>2. CASE c <= HeadLim BY <1>1, <1>3, <1>6, <2>1, <2>2 DEF c
    <2>3. CASE ~(c <= HeadLim)
      <3>1. Need(f) = 1 + c + further /\ further \in Nat BY <1>3, <1>5, <2>3
      <3> HIDE DEF t
      <3>2. Need(f) \in Nat /\ Need(f) >= c + n BY <1>1, <1>6, <3>1
      <3> QED BY <2>1, <2>3, <3>2 DEF c
    <2> QED BY <2>2, <2>3
  <1>7. CASE n > 1
    <2> DEFINE a == n - 2
               p == a * IndexLim
    <2>1. a \in Nat /\ a + 1 = n - 1 /\ p \in Nat BY <1>2, <1>7
    <2>2. Base(n - 1) = HeadLim + p
      <3>1. n - 1 # 0 /\ (n - 1) - 1 = a BY <1>7
      <3> QED BY <3>1 DEF Base
    <2>3. HeadLim + p < c BY <1>7, <2>2 DEF c
    <2> HIDE DEF p
    <2>4. ~(c <= HeadLim) /\ p < t BY <1>1, <1>2, <2>1, <2>3
    <2>5. t \in Nat /\ further \in Nat /\ t <= IndexLim * further BY <1>5, <2>4
    <2> HIDE DEF t, a
    <2>6. a < further
      <3> SUFFICES ASSUME further <= a PROVE FALSE BY <2>1, <2>5
      <3> DEFINE e == a - further
      <3>1. e \in Nat /\ a = further + e BY <2>1, <2>5
      <3> HIDE DEF e
      <3>2. (further + e) * IndexLim = IndexLim * further + e * IndexLim /\ e * IndexLim \in Nat
            /\ IndexLim * further \in Nat
        BY <1>2, <2>5, <3>1
      <3>3. IndexLim * further <= a * IndexLim BY <3>1, <3>2
      <3> QED BY <2>1, <2>4, <2>5, <3>2, <3>3 DEF p
    <2>7. Need(f) = 1 + c + further BY <1>3, <2>4
    <2>8. Need(f) \in Nat /\ Need(f) >= c + n BY <1>1, <2>1, <2>5, <2>6, <2>7
    <2>9. ASSUME c <= Base(n) PROVE Need(f) = c + n
      <3>1. Base(n) = HeadLim + (a + 1) * IndexLim BY <1>4, <2>1
      <3>2. (a + 1) * IndexLim \in Nat BY <1>2, <2>1
      <3>3. t <= (a + 1) * IndexLim BY <1>1, <1>2, <2>9, <3>1, <3>2 DEF t
      <3>4. a * IndexLim < t BY <2>4 DEF p
      <3>5. further = a + 1 BY <1>2, <2>1, <2>5, <3>3, <3>4, RoundUpNext DEF further
      <3> QED BY <1>1, <2>1, <2>7, <3>5
    <2> QED BY <2>8, <2>9 DEF c
  <1> QED BY <1>6, <1>7

LEMMA NeedNat ==
  ASSUME NEW f \in Files
  PROVE  Need(f) \in Nat /\ Need(f) >= Chunks(f) + 1
  <1>1. 1 \in Nat \ {0} /\ ~(1 > 1) OBVIOUS
  <1> QED BY <1>1, NeedIs

\* What the first files of a list take, up to a number of them.
Sums(fs, j, sum) == sum = [n \in 0..j |-> IF n = 0 THEN 0 ELSE sum[n - 1] + Need(fs[n])]

\* There are such sums.
LEMMA SumsExist ==
  ASSUME NEW fs \in Seq(Files)
  PROVE  \A j \in 0..Len(fs) : \E sum : Sums(fs, j, sum)
  <1> DEFINE T == {j \in 0..Len(fs) : ~\E sum : Sums(fs, j, sum)}
  <1> SUFFICES ASSUME T # {} PROVE FALSE OBVIOUS
  <1>1. T \subseteq Nat OBVIOUS
  <1> HIDE DEF T
  <1>2. PICK j \in T : \A m \in T : j <= m BY <1>1, Least
  <1>3. j \in 0..Len(fs) /\ ~\E sum : Sums(fs, j, sum) BY <1>2 DEF T
  <1>4. CASE j = 0
    <2> DEFINE sum == [n \in 0..j |-> 0]
    <2>1. \A n \in 0..j : sum[n] = IF n = 0 THEN 0 ELSE sum[n - 1] + Need(fs[n]) BY <1>4
    <2>2. sum = [n \in 0..j |-> sum[n]] OBVIOUS
    <2> HIDE DEF sum
    <2>3. sum = [n \in 0..j |-> IF n = 0 THEN 0 ELSE sum[n - 1] + Need(fs[n])] BY <2>1, <2>2
    <2> QED BY <1>3, <2>3 DEF Sums
  <1>5. CASE j # 0
    <2>1. j - 1 \in 0..Len(fs) /\ ~(j <= j - 1) BY <1>3, <1>5
    <2>2. j - 1 \notin T BY <1>2, <2>1
    <2>3. PICK less : Sums(fs, j - 1, less) BY <2>1, <2>2 DEF T
    <2>4. \A n \in 0..(j - 1) : less[n] = IF n = 0 THEN 0 ELSE less[n - 1] + Need(fs[n])
      BY <2>3 DEF Sums
    <2> DEFINE sum == [n \in 0..j |-> IF n = j THEN less[j - 1] + Need(fs[j]) ELSE less[n]]
    <2>5. ASSUME NEW n \in 0..j
          PROVE  sum[n] = IF n = 0 THEN 0 ELSE sum[n - 1] + Need(fs[n])
      <3>1. n = 0 => n # j BY <1>5
      <3>2. CASE n = j
        <4>1. j - 1 \in 0..j /\ j - 1 # j BY <1>3, <1>5
        <4> QED BY <1>5, <3>2, <4>1
      <3>3. CASE n # j
        <4>1. n \in 0..(j - 1) BY <1>3, <3>3
        <4>2. n # 0 => n - 1 \in 0..j /\ n - 1 # j BY <1>3
        <4> QED BY <2>4, <3>3, <4>1, <4>2
      <3> QED BY <3>2, <3>3
    <2>6. sum = [n \in 0..j |-> sum[n]] OBVIOUS
    <2> HIDE DEF sum
    <2>7. sum = [n \in 0..j |-> IF n = 0 THEN 0 ELSE sum[n - 1] + Need(fs[n])] BY <2>5, <2>6
    <2> QED BY <1>3, <2>7 DEF Sums
  <1> QED BY <1>4, <1>5

\* They are numbers, and those of a longer list begin with those of its front.
LEMMA SumsAgree ==
  ASSUME NEW fs \in Seq(Files), NEW gs \in Seq(Files), Len(fs) <= Len(gs),
         \A i \in 1..Len(fs) : gs[i] = fs[i],
         NEW f, Sums(fs, Len(fs), f), NEW g, Sums(gs, Len(gs), g)
  PROVE  \A n \in 0..Len(fs) : f[n] = g[n] /\ f[n] \in Nat
  <1> DEFINE T == {n \in 0..Len(fs) : ~(f[n] = g[n] /\ f[n] \in Nat)}
  <1> SUFFICES ASSUME T # {} PROVE FALSE OBVIOUS
  <1>1. T \subseteq Nat OBVIOUS
  <1> HIDE DEF T
  <1>2. PICK n \in T : \A m \in T : n <= m BY <1>1, Least
  <1>3. n \in 0..Len(fs) /\ ~(f[n] = g[n] /\ f[n] \in Nat) BY <1>2 DEF T
  <1>4. n \in 0..Len(gs) BY <1>3
  <1>5. f[n] = IF n = 0 THEN 0 ELSE f[n - 1] + Need(fs[n]) BY <1>3 DEF Sums
  <1>6. g[n] = IF n = 0 THEN 0 ELSE g[n - 1] + Need(gs[n]) BY <1>4 DEF Sums
  <1>7. CASE n = 0 BY <1>3, <1>5, <1>6, <1>7
  <1>8. CASE n # 0
    <2>1. n - 1 \in 0..Len(fs) /\ ~(n <= n - 1) /\ n \in 1..Len(fs) BY <1>3, <1>8
    <2>2. n - 1 \notin T BY <1>2, <2>1
    <2>3. f[n - 1] = g[n - 1] /\ f[n - 1] \in Nat BY <2>1, <2>2 DEF T
    <2>4. gs[n] = fs[n] /\ fs[n] \in Files BY <2>1
    <2>5. Need(fs[n]) \in Nat BY <2>4, NeedNat
    <2> QED BY <1>3, <1>5, <1>6, <1>8, <2>3, <2>4, <2>5
  <1> QED BY <1>7, <1>8

LEMMA NeedAllIs ==
  ASSUME NEW fs \in Seq(Files)
  PROVE  \E sum : Sums(fs, Len(fs), sum) /\ NeedAll(fs) = sum[Len(fs)]
  <1> DEFINE first == CHOOSE sum : sum = [n \in 0..Len(fs) |-> IF n = 0 THEN 0
                                                               ELSE sum[n - 1] + Need(fs[n])]
  <1>1. NeedAll(fs) = first[Len(fs)] BY DEF NeedAll
  <1>2. Len(fs) \in 0..Len(fs) OBVIOUS
  <1>3. \E sum : Sums(fs, Len(fs), sum) BY <1>2, SumsExist
  <1>4. first = [n \in 0..Len(fs) |-> IF n = 0 THEN 0 ELSE first[n - 1] + Need(fs[n])]
    BY <1>3 DEF Sums
  <1> HIDE DEF first
  <1>5. Sums(fs, Len(fs), first) BY <1>4 DEF Sums
  <1> QED BY <1>1, <1>5

\* A file more takes its pages more.
LEMMA NeedAllAppend ==
  ASSUME NEW fs \in Seq(Files), NEW f \in Files
  PROVE  NeedAll(Append(fs, f)) = NeedAll(fs) + Need(f)
  <1> DEFINE gs == Append(fs, f)
             L == Len(fs)
  <1>1. /\ gs \in Seq(Files) /\ L \in Nat /\ Len(gs) = L + 1 /\ gs[L + 1] = f
        /\ \A i \in 1..L : gs[i] = fs[i]
    OBVIOUS
  <1> HIDE DEF gs
  <1>2. PICK a : Sums(fs, Len(fs), a) /\ NeedAll(fs) = a[L] BY NeedAllIs
  <1>3. PICK b : Sums(gs, Len(gs), b) /\ NeedAll(gs) = b[L + 1] BY <1>1, NeedAllIs
  <1>4. L \in 0..Len(fs) /\ L + 1 \in 0..Len(gs) /\ L + 1 # 0 /\ (L + 1) - 1 = L BY <1>1
  <1>5. a[L] = b[L]
    <2>1. Len(fs) <= Len(gs) BY <1>1
    <2> QED BY <1>1, <1>2, <1>3, <1>4, <2>1, SumsAgree
  <1>6. b[L + 1] = b[(L + 1) - 1] + Need(gs[L + 1]) BY <1>3, <1>4 DEF Sums
  <1> QED BY <1>1, <1>2, <1>3, <1>4, <1>5, <1>6 DEF gs

LEMMA NeedAllNat ==
  ASSUME NEW fs \in Seq(Files)
  PROVE  NeedAll(fs) \in Nat
  <1>1. PICK a : Sums(fs, Len(fs), a) /\ NeedAll(fs) = a[Len(fs)] BY NeedAllIs
  <1>2. Len(fs) \in 0..Len(fs) /\ Len(fs) <= Len(fs) OBVIOUS
  <1>3. a[Len(fs)] \in Nat
    <2>1. \A n \in 0..Len(fs) : a[n] = a[n] /\ a[n] \in Nat BY <1>1, <1>2, SumsAgree
    <2> QED BY <1>2, <2>1
  <1> QED BY <1>1, <1>3

LEMMA NeedAllNone == NeedAll(<<>>) = 0
  <1> DEFINE fs == <<>>
  <1>1. fs \in Seq(Files) /\ Len(fs) = 0 OBVIOUS
  <1> HIDE DEF fs
  <1>2. PICK a : Sums(fs, Len(fs), a) /\ NeedAll(fs) = a[Len(fs)] BY <1>1, NeedAllIs
  <1>3. 0 \in 0..Len(fs) BY <1>1
  <1>4. a[0] = 0 BY <1>2, <1>3 DEF Sums
  <1> QED BY <1>1, <1>2, <1>4 DEF fs

-----------------------------------------------------------------------------
(***************************************************************************)
(* The image is full only when it is.                                       *)
(***************************************************************************)
\* Every block but the last is full.
LEMMA UsedIs ==
  ASSUME LayoutInv
  PROVE  /\ Used \in Nat
         /\ BlockFull => Used = Len(blocks) * UsablePages
         /\ ~BlockFull => blocks # <<>>
  <1> DEFINE L == Len(blocks)
             U == UsablePages
             m == Len(LastBlock(blocks).pages)
  <1>1. blocks \in Seq(BlockType) /\ L \in Nat BY LayoutTypes
  <1>2. U \in Nat BY SizesAre
  <1>3. CASE blocks = <<>>
    <2>1. L = 0 /\ Used = 0 /\ BlockFull BY <1>3 DEF Used, BlockFull
    <2> HIDE DEF L, U
    <2>2. L * U = 0 BY <1>2, <2>1
    <2> QED BY <2>1, <2>2 DEF L, U
  <1>4. CASE blocks # <<>>
    <2>1. L \in 1..L BY <1>1, <1>4
    <2>2. LastBlock(blocks) \in BlockType BY <1>1, <2>1 DEF LastBlock
    <2>3. m \in Nat BY <2>2 DEF BlockType
    <2>4. Used = (L - 1) * U + m BY <1>4 DEF Used
    <2>5. BlockFull => m = U
      <3>1. BlockFull => U - m = 0 BY <1>4 DEF BlockFull, Remaining
      <3> HIDE DEF U, m
      <3> QED BY <1>2, <2>3, <3>1
    <2>6. L - 1 \in Nat BY <2>1
    <2> HIDE DEF L, U, m
    <2>7. (L - 1) * U \in Nat /\ (L - 1) * U + U = L * U BY <1>2, <2>1, <2>6
    <2> QED BY <1>2, <1>4, <2>3, <2>4, <2>5, <2>7 DEF L, U
  <1> QED BY <1>3, <1>4

\* A step that puts one page behind the last one uses one more.
LEMMA OneMore ==
  ASSUME LayoutInv, blocks' # <<>>,
         \/ /\ ~BlockFull /\ Len(blocks') = Len(blocks)
            /\ Len(LastBlock(blocks').pages) = Len(LastBlock(blocks).pages) + 1
         \/ /\ BlockFull /\ Len(blocks') = Len(blocks) + 1
            /\ Len(LastBlock(blocks').pages) = 1
  PROVE  Used' = Used + 1
  <1> DEFINE L == Len(blocks)
             U == UsablePages
             m == Len(LastBlock(blocks).pages)
             M == Len(LastBlock(blocks').pages)
  <1>1. Used \in Nat /\ L \in Nat /\ U \in Nat BY UsedIs, LayoutTypes, SizesAre
  <1>2. Used' = (Len(blocks') - 1) * U + M BY DEF Used, LastBlock
  <1>3. CASE ~BlockFull
    <2>1. blocks # <<>> BY <1>3, UsedIs
    <2>2. Used = (L - 1) * U + m BY <2>1 DEF Used
    <2>3. Len(blocks') = L /\ M = m + 1 BY <1>3
    <2>4. Used' = (L - 1) * U + (m + 1) BY <1>2, <2>3
    <2>5. (L - 1) * U \in Int BY <1>1
    <2>6. blocks \in Seq(BlockType) /\ L \in 1..L BY <1>1, <2>1, LayoutTypes
    <2>7. LastBlock(blocks) \in BlockType BY <2>6 DEF LastBlock
    <2>8. m \in Nat BY <2>7 DEF BlockType
    <2> HIDE DEF L, U, m
    <2> QED BY <2>2, <2>4, <2>5, <2>8
  <1>4. CASE BlockFull
    <2>1. Used = L * U BY <1>4, UsedIs
    <2>2. Len(blocks') = L + 1 /\ M = 1 BY <1>4
    <2>3. (L + 1) - 1 = L BY <1>1
    <2>4. Used' = L * U + 1 BY <1>2, <2>2, <2>3
    <2> QED BY <2>1, <2>4
  <1> QED BY <1>3, <1>4

\* A page behind others makes one page more.
LEMMA PagesMore ==
  ASSUME LayoutInv, blocks # <<>>, NEW page
  PROVE  Len(Append(LastBlock(blocks).pages, page)) = Len(LastBlock(blocks).pages) + 1
  <1>1. blocks \in Seq(BlockType) /\ Len(blocks) \in 1..Len(blocks) BY LayoutTypes
  <1>2. LastBlock(blocks) \in BlockType BY <1>1 DEF LastBlock
  <1>3. LastBlock(blocks).pages \in Seq(Pages) BY <1>2 DEF BlockType
  <1> QED BY <1>3

LEMMA CreateFileCount ==
  ASSUME CountInv, NEW f \in Files, CreateFile(f)
  PROVE  CountInv'
  <1>0. ObjectsInv /\ ObjectsInv' /\ LayoutInv BY CreateFileObjects DEF CountInv, ObjectsInv
  <1>1. /\ phase = "walking" /\ phase' = "writing" /\ created' = created
        /\ cur'.span = 1 /\ cur'.data = 0
        /\ cur'.at \in Locs(blocks') /\ blocks' \in Seq(BlockType)
        /\ IF BlockFull
           THEN /\ Len(blocks') = Len(blocks) + 1
                /\ LastBlock(blocks').pages = Append(<<>>, IndexPage(Id, 0, f))
           ELSE /\ Len(blocks') = Len(blocks)
                /\ LastBlock(blocks').pages = Append(LastBlock(blocks).pages, IndexPage(Id, 0, f))
    BY <1>0, CreateFileIs
  <1>2. blocks' # <<>>
    <2>1. cur'.at[1] \in 1..Len(blocks') BY <1>1, LocsAre
    <2> QED BY <2>1
  <1>3. Used' = Used + 1
    <2>1. Len(Append(<<>>, IndexPage(Id, 0, f))) = 1 OBVIOUS
    <2>2. ~BlockFull => Len(Append(LastBlock(blocks).pages, IndexPage(Id, 0, f)))
                          = Len(LastBlock(blocks).pages) + 1
      BY <1>0, UsedIs, PagesMore
    <2> QED BY <1>0, <1>1, <1>2, <2>1, <2>2, OneMore
  <1>4. Used = NeedAll(created) /\ NeedAll(created) \in Nat
    BY <1>0, <1>1, LayoutTypes, NeedAllNat DEF CountInv
  <1>5. Used' = NeedAll(created') + cur'.span + cur'.data BY <1>1, <1>3, <1>4
  <1> QED BY <1>0, <1>1, <1>5 DEF CountInv

LEMMA NextIndexPageCount ==
  ASSUME CountInv, NextIndexPage
  PROVE  CountInv'
  <1>0. ObjectsInv /\ ObjectsInv' /\ LayoutInv BY NextIndexPageObjects DEF CountInv, ObjectsInv
  <1>1. /\ phase = "writing" /\ phase' = phase /\ created' = created /\ IndexFull
        /\ cur.left > 0 /\ ~BlockFull
        /\ cur'.file = cur.file /\ cur'.span = cur.span + 1 /\ cur'.data = cur.data
        /\ Len(blocks') = Len(blocks) /\ cur'.at \in Locs(blocks') /\ blocks' \in Seq(BlockType)
        /\ LastBlock(blocks').pages
             = Append(LastBlock(blocks).pages, IndexPage(Id, cur.span, cur.file))
    BY <1>0, NextIndexPageIs
  <1>2. blocks' # <<>>
    <2>1. cur'.at[1] \in 1..Len(blocks') BY <1>1, LocsAre
    <2> QED BY <2>1
  <1>3. Used' = Used + 1
    <2>1. blocks # <<>> BY <1>0, <1>1, UsedIs
    <2>2. Len(LastBlock(blocks').pages) = Len(LastBlock(blocks).pages) + 1
      BY <1>0, <1>1, <2>1, PagesMore
    <2> QED BY <1>0, <1>1, <1>2, <2>2, OneMore
  <1>4. Used = NeedAll(created) + cur.span + cur.data /\ NeedAll(created) \in Nat
    BY <1>0, <1>1, LayoutTypes, NeedAllNat DEF CountInv
  <1>5. cur.span \in Nat \ {0} /\ cur.data \in Nat /\ cur.left \in Nat
    BY <1>0, <1>1, LayoutTypes, OpenIs
  <1>6. Used' = NeedAll(created') + cur'.span + cur'.data BY <1>1, <1>3, <1>4, <1>5
  <1>7. cur.data = Base(cur.span)
    <2>1. /\ Len(OpenIndex.pages) = cur.data - Base(cur.span - 1)
          /\ Base(cur.span - 1) \in Nat /\ Base(cur.span) \in Nat
          /\ Base(cur.span) = Base(cur.span - 1) + PagesLim(OpenIndex)
      BY <1>0, <1>1, OpenIs
    <2>2. Len(OpenIndex.pages) = PagesLim(OpenIndex) BY <1>1 DEF IndexFull
    <2> QED BY <1>5, <2>1, <2>2
  <1>8. Base(cur'.span - 1) < Chunks(cur'.file)
    <2>1. cur.data + cur.left = Chunks(cur.file) BY <1>0, <1>1 DEF LayoutInv, Open
    <2>2. cur'.span - 1 = cur.span BY <1>1, <1>5
    <2>3. cur.data < Chunks(cur.file) BY <1>1, <1>5, <2>1
    <2> QED BY <1>1, <1>7, <2>2, <2>3
  <1> QED BY <1>0, <1>1, <1>6, <1>8 DEF CountInv

LEMMA UpdateObjCount ==
  ASSUME CountInv, UpdateObj
  PROVE  CountInv'
  <1>0. ObjectsInv /\ ObjectsInv' /\ LayoutInv BY UpdateObjObjects DEF CountInv, ObjectsInv
  <1>1. /\ phase = "writing" /\ phase' = phase /\ created' = created /\ ~BlockFull
        /\ cur'.file = cur.file /\ cur'.span = cur.span /\ cur'.data = cur.data + 1
        /\ Len(blocks') = Len(blocks)
        /\ Len(LastBlock(blocks').pages) = Len(LastBlock(blocks).pages) + 1
    BY <1>0, UpdateObjIs
  <1>2. blocks' # <<>>
    <2>1. Len(blocks) \in Nat \ {0} BY <1>0, <1>1, RoomLeft
    <2> QED BY <1>1, <2>1
  <1>3. Used' = Used + 1 BY <1>0, <1>1, <1>2, OneMore
  <1>4. Used = NeedAll(created) + cur.span + cur.data /\ NeedAll(created) \in Nat
        /\ (cur.span > 1 => Base(cur.span - 1) < Chunks(cur.file))
    BY <1>0, <1>1, LayoutTypes, NeedAllNat DEF CountInv
  <1>5. cur.span \in Nat /\ cur.data \in Nat BY <1>0, LayoutTypes
  <1>6. Used' = NeedAll(created') + cur'.span + cur'.data BY <1>1, <1>3, <1>4, <1>5
  <1> QED BY <1>0, <1>1, <1>4, <1>6 DEF CountInv

LEMMA NextBlockCount ==
  ASSUME CountInv, NextBlock
  PROVE  CountInv'
  <1>0. ObjectsInv /\ ObjectsInv' /\ LayoutInv BY NextBlockObjects DEF CountInv, ObjectsInv
  <1>1. /\ phase = "writing" /\ phase' = phase /\ created' = created /\ cur' = cur /\ BlockFull
        /\ Len(blocks') = Len(blocks) + 1 /\ LastBlock(blocks').pages = <<>>
    BY <1>0, NextBlockIs
  <1> DEFINE L == Len(blocks)
             U == UsablePages
  <1>2. Used = L * U /\ L \in Nat /\ U \in Nat BY <1>0, <1>1, UsedIs, LayoutTypes, SizesAre
  <1>3. Used' = Used
    <2>1. blocks' # <<>> BY <1>1, <1>2
    <2>2. Used' = (Len(blocks') - 1) * U + Len(LastBlock(blocks').pages)
      BY <2>1 DEF Used, LastBlock
    <2>3. Len(LastBlock(blocks').pages) = 0 BY <1>1
    <2>4. Len(blocks') - 1 = L BY <1>1, <1>2
    <2>5. Used' = L * U + 0 BY <2>2, <2>3, <2>4
    <2>6. L * U \in Nat BY <1>2
    <2> HIDE DEF L, U
    <2> QED BY <1>2, <2>5, <2>6
  <1> QED BY <1>0, <1>1, <1>3 DEF CountInv

LEMMA EndObjCount ==
  ASSUME CountInv, EndObj
  PROVE  CountInv'
  <1>0. ObjectsInv /\ ObjectsInv' /\ LayoutInv BY EndObjObjects DEF CountInv, ObjectsInv
  <1>1. /\ phase = "writing" /\ phase' = "walking" /\ blocks' = blocks
        /\ cur.data = Chunks(cur.file) /\ cur.file \in Files
        /\ created' = Append(created, cur.file)
    BY <1>0, EndObjIs
  <1>2. Used = NeedAll(created) + cur.span + cur.data
        /\ (cur.span > 1 => Base(cur.span - 1) < Chunks(cur.file))
    BY <1>1 DEF CountInv
  <1>3. created \in Seq(Files) /\ NeedAll(created) \in Nat BY <1>0, LayoutTypes, NeedAllNat
  <1>4. cur.span \in Nat \ {0} /\ cur.data \in Nat /\ cur.data <= Base(cur.span)
    BY <1>0, <1>1, OpenIs
  <1> DEFINE f == cur.file
             n == cur.span
  <1>5. f \in Files /\ n \in Nat \ {0} /\ (n > 1 => Base(n - 1) < Chunks(f)) /\ Chunks(f) <= Base(n)
    BY <1>1, <1>2, <1>4
  <1> HIDE DEF f, n
  <1>6. Need(f) = Chunks(f) + n BY <1>5, NeedIs
  <1>7. NeedAll(created') = NeedAll(created) + Need(f) BY <1>1, <1>3, <1>5, NeedAllAppend DEF f
  <1>8. Used' = Used BY <1>1 DEF Used
  <1>9. Used' = NeedAll(created')
    <2>1. Used = NeedAll(created) + n + Chunks(f) /\ Chunks(f) \in Nat
      BY <1>1, <1>2, <1>4 DEF f, n
    <2> QED BY <1>3, <1>5, <1>6, <1>7, <1>8, <2>1
  <1> QED BY <1>0, <1>1, <1>9 DEF CountInv

LEMMA QuietCount ==
  ASSUME CountInv, Quiet
  PROVE  CountInv'
  <1>0. ObjectsInv /\ ObjectsInv' BY QuietObjects DEF CountInv
  <1>1. /\ created' = created /\ blocks' = blocks /\ cur' = cur
        /\ phase' \in {"start", "writing"} => phase' = phase
        /\ phase' = "walking" => phase \in {"start", "walking"}
    BY DEF Quiet
  <1>2. Used' = Used BY <1>1 DEF Used
  <1>3. phase' \in {"start", "walking"} => phase \in {"start", "walking"} BY <1>1
  <1> QED BY <1>0, <1>1, <1>2, <1>3 DEF CountInv

\* Every step keeps the count.
LEMMA NextCountInv == CountInv /\ [Next]_vars => CountInv'
  <1> SUFFICES ASSUME CountInv, [Next]_vars PROVE CountInv' OBVIOUS
  <1>0. LayoutInv BY DEF CountInv, ObjectsInv
  <1>1. ASSUME NEW f \in Files, CreateFile(f) PROVE CountInv' BY <1>1, CreateFileCount
  <1>2. CASE UpdateObj BY <1>2, UpdateObjCount
  <1>3. CASE NextIndexPage BY <1>3, NextIndexPageCount
  <1>4. CASE NextBlock BY <1>4, NextBlockCount
  <1>5. CASE EndObj BY <1>5, EndObjCount
  <1>6. CASE \/ BadArgument \/ OddSize \/ OpenOutput \/ NoRoomForPage \/ WriteImage \/ PageOverflow
             \/ Told
             \/ \E f \in Files : NameTooLong(f) \/ NoRoomForFile(f)
             \/ UNCHANGED vars
    BY <1>0, <1>6, QuietSteps, QuietCount
  <1> QED BY <1>1, <1>2, <1>3, <1>4, <1>5, <1>6 DEF Next

LEMMA InitCountInv == Init => CountInv
  <1> SUFFICES ASSUME Init PROVE CountInv OBVIOUS
  <1>1. ObjectsInv BY InitObjectsInv
  <1>2. phase = "start" /\ created = <<>> /\ blocks = <<>> BY DEF Init
  <1>3. Used = 0 BY <1>2 DEF Used
  <1> QED BY <1>1, <1>2, <1>3, NeedAllNone DEF CountInv

\* Of every directory: the pages used are those its files need, so that the size
\* of the image is exceeded only by files that need more than all of its blocks
\* have (SpiffsFullError in SpiffsFS.create_file).
THEOREM FullWhenFull == Spec => FullOnlyWhenFull
  <1>1. ASSUME CountInv, NEW f \in Files, NoRoomForFile(f) \/ (NoRoomForPage /\ cur.file = f)
        PROVE  NeedAll(created) + Need(f) > Blocks * UsablePages
    <2>0. ObjectsInv /\ LayoutInv BY <1>1 DEF CountInv, ObjectsInv
    <2>1. NeedAll(created) \in Nat BY <2>0, LayoutTypes, NeedAllNat
    <2>2. Need(f) \in Nat /\ Need(f) >= Chunks(f) + 1 /\ Chunks(f) \in Nat BY NeedNat, ChunksAre
    <2>3. BlockFull /\ ImageFull BY <1>1 DEF NoRoomForFile, NoRoomForPage
    <2>4. Used = Blocks * UsablePages BY <2>0, <2>3, UsedIs DEF ImageFull
    <2>5. CASE NoRoomForFile(f)
      <3>1. Used = NeedAll(created) BY <1>1, <2>5 DEF NoRoomForFile, CountInv
      <3> QED BY <2>1, <2>2, <2>4, <3>1
    <2>6. CASE NoRoomForPage /\ cur.file = f
      <3> DEFINE n == cur.span
      <3>1. phase = "writing" /\ cur.left > 0 BY <2>6 DEF NoRoomForPage, Writing
      <3>2. Used = NeedAll(created) + n + cur.data /\ (n > 1 => Base(n - 1) < Chunks(f))
        BY <1>1, <2>6, <3>1 DEF CountInv
      <3>3. n \in Nat \ {0} /\ cur.data \in Nat /\ cur.left \in Nat
        BY <2>0, <3>1, LayoutTypes, OpenIs
      <3>4. cur.data + cur.left = Chunks(f) BY <2>0, <2>6, <3>1 DEF LayoutInv, Open
      <3>5. Need(f) >= Chunks(f) + n
        <4> HIDE DEF n
        <4> QED BY <3>2, <3>3, NeedIs
      <3>6. Need(f) > n + cur.data BY <2>2, <3>1, <3>3, <3>4, <3>5
      <3> QED BY <2>1, <2>2, <2>4, <3>2, <3>3, <3>6
    <2> QED BY <1>1, <2>5, <2>6
  <1>2. CountInv /\ [Next]_vars =>
          [\A f \in Files : NoRoomForFile(f) \/ (NoRoomForPage /\ cur.file = f)
             => NeedAll(created) + Need(f) > Blocks * UsablePages]_vars
    BY <1>1
  <1> QED BY <1>2, InitCountInv, NextCountInv, PTL DEF Spec, FullOnlyWhenFull
=============================================================================
