---------------------------- MODULE NvsStore_proofs ----------------------------
(***************************************************************************)
(* A partition stays well formed, for every number and size of its pages,   *)
(* whatever the device and nvs_set.py write to it, and wherever the power   *)
(* goes; and it is a map: NvsStore implements NvsMap.  What the walkers find *)
(* of an entry is all its live heads, and the one of them that was written  *)
(* last decides.                                                            *)
(***************************************************************************)
EXTENDS NvsStore, FiniteSetTheorems, WellFoundedInduction, TLAPS

\* A head is live, and the last slot of its entry.
Head(pg, h) == pg.bits[h] = "written" /\ pg.cell[h] \in Heads
Last(pg, h) == h + DataSlots[pg.cell[h].value]

\* Behind a live head comes its data, and nothing is written but entries.
Whole(pg) ==
  \A h \in Slots : Head(pg, h) =>
    \A k \in 1..DataSlots[pg.cell[h].value] :
      /\ h + k \in Slots /\ pg.bits[h + k] = "written"
      /\ pg.cell[h + k] = [value |-> pg.cell[h].value, part |-> k]

Owned(pg) ==
  \A i \in Slots : pg.bits[i] = "written" =>
    \E h \in Slots : Head(pg, h) /\ i \in h..Last(pg, h)

Sound(pg) == pg \in Page /\ Whole(pg) /\ Owned(pg)

\* What the device has yet to erase is a set of live entries.
PendingHeads == \A x \in pending : x \in Places /\ Head(page[x[1]], x[2])

StoreInv ==
  /\ TypeOK
  /\ \A p \in 1..P : Sound(page[p])
  /\ PendingHeads
-----------------------------------------------------------------------------
(***************************************************************************)
(* Choices.                                                                 *)
(***************************************************************************)
LEMMA Least ==
  ASSUME NEW T, T \subseteq Nat, T # {}
  PROVE  \E n \in T : \A m \in T : n <= m
<1>1. PICK n \in T : \A m \in T : ~ (<<m, n>> \in OpToRel(<, Nat))
  BY NatLessThanWellFounded, WFMin, Zenon
<1>2. \A m \in T : m \in Nat /\ n \in Nat /\ ~ (m < n)
  BY <1>1 DEF OpToRel
<1>3. \A m \in T : n <= m
  BY <1>2
<1> QED
  BY <1>3

LEMMA Greatest ==
  ASSUME NEW N \in Nat, NEW T, T \subseteq 0..N, T # {}
  PROVE  \E n \in T : \A m \in T : m <= n
<1> DEFINE B == {b \in Nat : \A m \in T : m <= b}
<1>1. N \in B
  OBVIOUS
<1>2. B \subseteq Nat /\ B # {}
  BY <1>1
<1> HIDE DEF B
<1>3. PICK b \in B : \A c \in B : b <= c
  BY <1>2, Least
<1>4. b \in Nat /\ \A m \in T : m <= b
  BY <1>3 DEF B
<1>5. CASE b \notin T
  <2>1. PICK t \in T : TRUE
    OBVIOUS
  <2>2. \A m \in T : m \in Nat /\ m < b
    BY <1>4, <1>5
  <2>3. b - 1 \in Nat /\ \A m \in T : m <= b - 1
    BY <1>4, <2>1, <2>2
  <2>4. b - 1 \in B
    BY <2>3 DEF B
  <2> QED
    BY <1>3, <1>4, <2>4
<1> QED
  BY <1>4, <1>5

LEMMA NatP == P \in Nat /\ S \in Nat /\ MaxSeq \in Nat /\ MaxSpan \in Nat
  BY NvsAssumption

LEMMA DataNat == \A v \in Values : DataSlots[v] \in Nat \ {0} /\ Garbled # v
  BY NvsAssumption

\* The active page of the tools is one.
LEMMA ActivePageExists ==
  ASSUME Active # {}
  PROVE  ActivePage \in 1..P /\ page[ActivePage].state = "active"
<1>1. Active \subseteq 0..P
  BY DEF Active
<1>2. \E p \in Active : \A q \in Active : q <= p
  BY <1>1, Greatest, NatP
<1>3. ActivePage \in Active
  BY <1>2, Zenon DEF ActivePage
<1> QED
  BY <1>3 DEF Active

LEMMA FirstFitExists ==
  ASSUME NEW p \in 1..P, NEW v \in Values, Fits(p, Span(v))
  PROVE  /\ FirstFit(p, Span(v)) \in Slots /\ Empty(p, FirstFit(p, Span(v)), Span(v))
         /\ \A j \in 1..(FirstFit(p, Span(v)) - 1) : ~Empty(p, j, Span(v))
<1> DEFINE T == {i \in Slots : Empty(p, i, Span(v))}
<1>1. T \subseteq Nat /\ T # {}
  BY DEF Fits, Slots
<1>2. PICK i \in T : \A m \in T : i <= m
  BY <1>1, Least
<1>3. \A j \in 1..(i - 1) : j \in Slots /\ j \notin T
  BY <1>1, <1>2, NatP DEF Slots
<1>4. \E n \in Slots : Empty(p, n, Span(v)) /\ \A j \in 1..(n - 1) : ~Empty(p, j, Span(v))
  BY <1>2, <1>3
<1> QED
  BY <1>4, Zenon DEF FirstFit
-----------------------------------------------------------------------------
(***************************************************************************)
(* Pages.                                                                   *)
(***************************************************************************)

\* Data is not taken for a head.
LEMMA DataIsNoHead == \A v, k : [value |-> v, part |-> k] \notin Heads
<1> SUFFICES ASSUME NEW v, NEW k, [value |-> v, part |-> k] \in Heads PROVE FALSE
  OBVIOUS
<1> DEFINE d == [value |-> v, part |-> k]
<1>1. DOMAIN d = {"value", "part"}
  OBVIOUS
<1>2. DOMAIN d = {"entry", "value"}
  BY DEF Heads
<1> QED
  BY <1>1, <1>2

LEMMA HeadType ==
  ASSUME NEW pg, NEW h \in Slots, Head(pg, h)
  PROVE  /\ pg.cell[h].value \in Values
         /\ DataSlots[pg.cell[h].value] \in Nat \ {0} /\ h \in Nat /\ Last(pg, h) \in Nat
<1>1. pg.cell[h].value \in Values
  BY DEF Head, Heads
<1> QED
  BY <1>1, DataNat DEF Slots, Last

\* A slot is part of one entry at most.
LEMMA OneOwner ==
  ASSUME NEW pg, Whole(pg), NEW g \in Slots, NEW h \in Slots, Head(pg, g), Head(pg, h),
         NEW i \in Slots, i \in g..Last(pg, g), i \in h..Last(pg, h)
  PROVE  g = h
<1>1. ASSUME NEW a \in Slots, NEW b \in Slots, Head(pg, a), Head(pg, b), a < b, b <= Last(pg, a)
      PROVE  FALSE
  <2>1. a \in Nat /\ b \in Nat /\ DataSlots[pg.cell[a].value] \in Nat
    BY <1>1, HeadType
  <2>2. b - a \in 1..DataSlots[pg.cell[a].value] /\ a + (b - a) = b
    BY <1>1, <2>1 DEF Last
  <2>3. pg.cell[b] = [value |-> pg.cell[a].value, part |-> b - a]
    BY <1>1, <2>2 DEF Whole
  <2> QED
    BY <1>1, <2>3, DataIsNoHead DEF Head
<1>2. g \in Nat /\ h \in Nat /\ i \in Nat /\ Last(pg, g) \in Nat /\ Last(pg, h) \in Nat
  BY HeadType DEF Slots
<1>3. g < h => h <= Last(pg, g)
  BY <1>2
<1>4. h < g => g <= Last(pg, h)
  BY <1>2
<1> QED
  BY <1>1, <1>2, <1>3, <1>4

\* A new entry in a run of slots.
LEMMA WrittenType ==
  ASSUME NEW pg \in Page, NEW i \in Slots, NEW e \in Entries, NEW v \in Values,
         \A j \in i..(i + DataSlots[v]) : j \in Slots
  PROVE  LET qg == Written(pg, i, e, v)
             n == DataSlots[v]
         IN  /\ qg \in Page
             /\ qg.bits = [j \in Slots |-> IF j \in i..(i + n) THEN "written" ELSE pg.bits[j]]
             /\ qg.cell = [j \in Slots |-> IF j = i THEN [entry |-> e, value |-> v]
                                           ELSE IF j \in i..(i + n) THEN [value |-> v, part |-> j - i]
                                           ELSE pg.cell[j]]
<1> DEFINE n == DataSlots[v]
           qg == Written(pg, i, e, v)
<1>1. n \in Nat \ {0} /\ i \in Nat /\ i \in i..(i + n)
  BY DataNat DEF Slots
<1>2. Slots \cup (i..(i + n)) = Slots
  OBVIOUS
<1>3. /\ qg = [pg EXCEPT !.bits = qg.bits, !.cell = qg.cell]
      /\ qg.bits = [j \in Slots |-> IF j \in i..(i + n) THEN "written" ELSE pg.bits[j]]
      /\ qg.cell = [j \in Slots |-> IF j = i THEN [entry |-> e, value |-> v]
                                    ELSE IF j \in i..(i + n) THEN [value |-> v, part |-> j - i]
                                    ELSE pg.cell[j]]
  BY <1>2 DEF Written, Page
<1> HIDE DEF qg
<1>4. /\ [entry |-> e, value |-> v] \in Heads
      /\ \A j \in i..(i + n) : j # i => [value |-> v, part |-> j - i] \in Data
  BY <1>1 DEF Heads, Data
<1>5. qg.bits \in [Slots -> {"empty", "written", "erased"}]
  BY <1>3 DEF Page
<1>6. qg.cell \in [Slots -> Heads \cup Data \cup {Blank}]
  BY <1>3, <1>4 DEF Page
<1>7. qg \in Page
  BY <1>3, <1>5, <1>6 DEF Page
<1> QED
  BY <1>3, <1>7 DEF qg

\* The heads of the page are then the new one and the old ones.
LEMMA WrittenHeads ==
  ASSUME NEW pg \in Page, NEW i \in Slots, NEW e \in Entries, NEW v \in Values,
         \A j \in i..(i + DataSlots[v]) : j \in Slots /\ pg.bits[j] = "empty"
  PROVE  LET qg == Written(pg, i, e, v)
         IN  /\ Head(qg, i) /\ qg.cell[i] = [entry |-> e, value |-> v]
             /\ \A h \in Slots : Head(pg, h) =>
                  Head(qg, h) /\ qg.cell[h] = pg.cell[h] /\ h \notin i..(i + DataSlots[v])
             /\ \A h \in Slots \ {i} : Head(qg, h) => Head(pg, h) /\ qg.cell[h] = pg.cell[h]
<1> DEFINE n == DataSlots[v]
           qg == Written(pg, i, e, v)
<1>1. n \in Nat \ {0} /\ i \in Nat /\ i \in i..(i + n)
  BY DataNat DEF Slots
<1>2. \A j \in i..(i + n) : j \in Slots /\ pg.bits[j] = "empty"
  OBVIOUS
<1>3. /\ qg.bits = [j \in Slots |-> IF j \in i..(i + n) THEN "written" ELSE pg.bits[j]]
      /\ qg.cell = [j \in Slots |-> IF j = i THEN [entry |-> e, value |-> v]
                                    ELSE IF j \in i..(i + n) THEN [value |-> v, part |-> j - i]
                                    ELSE pg.cell[j]]
  BY <1>2, WrittenType
<1> HIDE DEF qg
<1>4. Head(qg, i) /\ qg.cell[i] = [entry |-> e, value |-> v]
  BY <1>1, <1>3 DEF Head, Heads
<1>5. ASSUME NEW h \in Slots, Head(pg, h)
      PROVE  Head(qg, h) /\ qg.cell[h] = pg.cell[h] /\ h \notin i..(i + n)
  <2>1. h \notin i..(i + n) /\ h # i
    BY <1>1, <1>2, <1>5 DEF Head
  <2> QED
    BY <1>3, <1>5, <2>1 DEF Head
<1>6. ASSUME NEW h \in Slots, Head(qg, h), h # i
      PROVE  Head(pg, h) /\ qg.cell[h] = pg.cell[h]
  <2>1. CASE h \in i..(i + n)
    BY <1>3, <1>6, <2>1, DataIsNoHead DEF Head
  <2>2. CASE h \notin i..(i + n)
    BY <1>3, <1>6, <2>2 DEF Head
  <2> QED
    BY <2>1, <2>2
<1> QED
  BY <1>4, <1>5, <1>6 DEF qg

\* A new entry in a run of empty slots.
LEMMA WrittenSound ==
  ASSUME NEW pg, Sound(pg), NEW i \in Slots, NEW e \in Entries, NEW v \in Values,
         \A j \in i..(i + DataSlots[v]) : j \in Slots /\ pg.bits[j] = "empty"
  PROVE  /\ Sound(Written(pg, i, e, v))
         /\ \A h \in Slots : Head(pg, h) =>
              Head(Written(pg, i, e, v), h) /\ Written(pg, i, e, v).cell[h] = pg.cell[h]
<1> DEFINE n == DataSlots[v]
           qg == Written(pg, i, e, v)
<1>1. n \in Nat \ {0} /\ i \in Nat /\ i \in i..(i + n)
  BY DataNat DEF Slots
<1>2. \A j \in i..(i + n) : j \in Slots /\ pg.bits[j] = "empty"
  OBVIOUS
<1>3. pg \in Page
  BY DEF Sound
<1>4. /\ qg \in Page
      /\ qg.bits = [j \in Slots |-> IF j \in i..(i + n) THEN "written" ELSE pg.bits[j]]
      /\ qg.cell = [j \in Slots |-> IF j = i THEN [entry |-> e, value |-> v]
                                    ELSE IF j \in i..(i + n) THEN [value |-> v, part |-> j - i]
                                    ELSE pg.cell[j]]
  BY <1>2, <1>3, WrittenType
<1>5. /\ Head(qg, i) /\ qg.cell[i] = [entry |-> e, value |-> v]
      /\ \A h \in Slots : Head(pg, h) => Head(qg, h) /\ qg.cell[h] = pg.cell[h]
      /\ \A h \in Slots \ {i} : Head(qg, h) => Head(pg, h) /\ qg.cell[h] = pg.cell[h]
  BY <1>2, <1>3, WrittenHeads
<1> HIDE DEF qg
<1>6. Whole(qg)
  <2> SUFFICES ASSUME NEW h \in Slots, Head(qg, h), NEW k \in 1..DataSlots[qg.cell[h].value]
               PROVE  /\ h + k \in Slots /\ qg.bits[h + k] = "written"
                      /\ qg.cell[h + k] = [value |-> qg.cell[h].value, part |-> k]
    BY DEF Whole
  <2>1. CASE h = i
    <3>1. qg.cell[h].value = v /\ k \in 1..n
      BY <1>5, <2>1
    <3>2. i + k \in i..(i + n) /\ i + k # i /\ (i + k) - i = k
      BY <1>1, <3>1
    <3> QED
      BY <1>2, <1>4, <2>1, <3>1, <3>2
  <2>2. CASE h # i
    <3>1. Head(pg, h) /\ qg.cell[h] = pg.cell[h]
      BY <1>5, <2>2
    <3>2. /\ h + k \in Slots /\ pg.bits[h + k] = "written"
          /\ pg.cell[h + k] = [value |-> pg.cell[h].value, part |-> k]
      BY <3>1 DEF Sound, Whole
    <3>3. h + k \notin i..(i + n) /\ h + k # i
      BY <1>1, <1>2, <3>2
    <3> QED
      BY <1>4, <3>1, <3>2, <3>3
  <2> QED
    BY <2>1, <2>2
<1>7. Owned(qg)
  <2> SUFFICES ASSUME NEW j \in Slots, qg.bits[j] = "written"
               PROVE  \E h \in Slots : Head(qg, h) /\ j \in h..Last(qg, h)
    BY DEF Owned
  <2>1. CASE j \in i..(i + n)
    <3>1. Last(qg, i) = i + n
      BY <1>5 DEF Last
    <3> QED
      BY <1>5, <2>1, <3>1
  <2>2. CASE j \notin i..(i + n)
    <3>1. pg.bits[j] = "written"
      BY <1>4, <2>2
    <3>2. PICK h \in Slots : Head(pg, h) /\ j \in h..Last(pg, h)
      BY <3>1 DEF Sound, Owned
    <3>3. Head(qg, h) /\ Last(qg, h) = Last(pg, h)
      BY <1>5, <3>2 DEF Last
    <3> QED
      BY <3>2, <3>3
  <2> QED
    BY <2>1, <2>2
<1> QED
  BY <1>4, <1>5, <1>6, <1>7 DEF Sound, qg

\* Erasing whole entries leaves whole entries.
LEMMA ErasedHeads ==
  ASSUME NEW pg, Sound(pg), NEW H, H \subseteq {h \in Slots : Head(pg, h)},
         NEW qg, qg.cell = pg.cell,
         \A j \in Slots : qg.bits[j] = IF \E h \in H : j \in h..Last(pg, h)
                                       THEN "erased" ELSE pg.bits[j]
  PROVE  /\ \A h \in Slots : Last(qg, h) = Last(pg, h)
         /\ \A h \in Slots : Head(qg, h) <=> Head(pg, h) /\ h \notin H
         /\ \A j, g \in Slots : Head(pg, g) /\ g \notin H /\ j \in g..Last(pg, g)
                                  => qg.bits[j] = pg.bits[j]
<1>1. ASSUME NEW h \in Slots
      PROVE  Last(qg, h) = Last(pg, h) /\ (Head(qg, h) => Head(pg, h) /\ h \notin H)
  <2>1. Head(qg, h) => Head(pg, h)
    BY DEF Head
  <2>2. ASSUME h \in H PROVE h \in h..Last(pg, h)
    BY <2>2, HeadType DEF Last
  <2> QED
    BY <2>1, <2>2 DEF Head, Last
<1>2. ASSUME NEW j \in Slots, NEW g \in Slots, Head(pg, g), j \in g..Last(pg, g), g \notin H
      PROVE  qg.bits[j] = pg.bits[j]
  <2>1. ~ \E h \in H : j \in h..Last(pg, h)
    <3> SUFFICES ASSUME NEW h \in H, j \in h..Last(pg, h) PROVE FALSE
      OBVIOUS
    <3>1. g = h
      BY <1>2, OneOwner DEF Sound
    <3> QED
      BY <1>2, <3>1
  <2> QED
    BY <2>1
<1>3. ASSUME NEW h \in Slots, Head(pg, h), h \notin H PROVE Head(qg, h)
  <2>1. h \in h..Last(pg, h)
    BY <1>3, HeadType DEF Last
  <2> QED
    BY <1>2, <1>3, <2>1 DEF Head
<1> QED
  BY <1>1, <1>2, <1>3

LEMMA ErasedSound ==
  ASSUME NEW pg, Sound(pg), NEW H, H \subseteq {h \in Slots : Head(pg, h)},
         NEW qg \in Page, qg.cell = pg.cell,
         \A j \in Slots : qg.bits[j] = IF \E h \in H : j \in h..Last(pg, h)
                                       THEN "erased" ELSE pg.bits[j]
  PROVE  Sound(qg)
<1>1. \A h \in Slots : Last(qg, h) = Last(pg, h) /\ (Head(qg, h) <=> Head(pg, h) /\ h \notin H)
  BY ErasedHeads
<1>2. \A j, g \in Slots : Head(pg, g) /\ g \notin H /\ j \in g..Last(pg, g)
                            => qg.bits[j] = pg.bits[j]
  BY ErasedHeads
<1>3. Whole(qg)
  <2> SUFFICES ASSUME NEW h \in Slots, Head(qg, h), NEW k \in 1..DataSlots[qg.cell[h].value]
               PROVE  /\ h + k \in Slots /\ qg.bits[h + k] = "written"
                      /\ qg.cell[h + k] = [value |-> qg.cell[h].value, part |-> k]
    BY DEF Whole
  <2>1. Head(pg, h) /\ h \notin H
    BY <1>1
  <2>2. /\ h + k \in Slots /\ pg.bits[h + k] = "written"
        /\ pg.cell[h + k] = [value |-> pg.cell[h].value, part |-> k]
    BY <2>1 DEF Sound, Whole
  <2>3. h + k \in h..Last(pg, h)
    BY <2>1, HeadType DEF Last
  <2> QED
    BY <1>2, <2>1, <2>2, <2>3
<1>4. Owned(qg)
  <2> SUFFICES ASSUME NEW j \in Slots, qg.bits[j] = "written"
               PROVE  \E h \in Slots : Head(qg, h) /\ j \in h..Last(qg, h)
    BY DEF Owned
  <2>1. pg.bits[j] = "written" /\ \A h \in H : j \notin h..Last(pg, h)
    OBVIOUS
  <2>2. PICK h \in Slots : Head(pg, h) /\ j \in h..Last(pg, h)
    BY <2>1 DEF Sound, Owned
  <2>3. h \notin H /\ h \in h..Last(pg, h)
    BY <2>1, <2>2, HeadType DEF Last
  <2>4. Head(qg, h)
    BY <1>1, <2>2, <2>3
  <2> QED
    BY <1>1, <2>2, <2>4
<1> QED
  BY <1>3, <1>4 DEF Sound
-----------------------------------------------------------------------------
(***************************************************************************)
(* Writes.                                                                  *)
(***************************************************************************)
LEMMA FoundHeads ==
  ASSUME NEW e, NEW x \in Found(e)
  PROVE  /\ x \in Places /\ x[1] \in 1..P /\ x[2] \in Slots
         /\ Head(page[x[1]], x[2]) /\ page[x[1]].cell[x[2]].entry = e
  BY DEF Found, IsLive, Head, Places

\* An entry that fits on the active page.
LEMMA AppendSound ==
  ASSUME StoreInv, NEW e \in Entries, NEW v \in Values,
         Active # {}, Fits(ActivePage, Span(v))
  PROVE  LET new == [page EXCEPT ![ActivePage] =
                       Written(@, FirstFit(ActivePage, Span(v)), e, v)]
         IN  /\ \A p \in 1..P : Sound(new[p])
             /\ new \in [1..P -> Page]
             /\ \A p \in 1..P, h \in Slots : Head(page[p], h) =>
                  Head(new[p], h) /\ new[p].cell[h] = page[p].cell[h]
<1> DEFINE a == ActivePage
           i == FirstFit(a, Span(v))
           new == [page EXCEPT ![a] = Written(@, i, e, v)]
<1>1. a \in 1..P
  BY ActivePageExists
<1>2. i \in Slots /\ Empty(a, i, Span(v))
  BY <1>1, FirstFitExists
<1>3. \A j \in i..(i + DataSlots[v]) : j \in Slots /\ page[a].bits[j] = "empty"
  <2>1. i + Span(v) - 1 = i + DataSlots[v]
    BY <1>2, DataNat DEF Span, Slots
  <2> QED
    BY <1>2, <2>1 DEF Empty
<1>4. page \in [1..P -> Page] /\ Sound(page[a])
  BY <1>1 DEF StoreInv, TypeOK
<1>5. /\ Sound(Written(page[a], i, e, v))
      /\ \A h \in Slots : Head(page[a], h) =>
           Head(Written(page[a], i, e, v), h) /\ Written(page[a], i, e, v).cell[h] = page[a].cell[h]
  BY <1>2, <1>3, <1>4, WrittenSound
<1>6. /\ new \in [1..P -> Page \cup {Written(page[a], i, e, v)}] /\ new[a] = Written(page[a], i, e, v)
      /\ \A p \in 1..P \ {a} : new[p] = page[p]
  BY <1>1, <1>4
<1> HIDE DEF a, i, new
<1>7. Written(page[a], i, e, v) \in Page
  BY <1>5 DEF Sound
<1>8. \A p \in 1..P : Sound(new[p])
  BY <1>5, <1>6 DEF StoreInv
<1>9. \A p \in 1..P, h \in Slots : Head(page[p], h) =>
        Head(new[p], h) /\ new[p].cell[h] = page[p].cell[h]
  <2> SUFFICES ASSUME NEW p \in 1..P, NEW h \in Slots, Head(page[p], h)
               PROVE  Head(new[p], h) /\ new[p].cell[h] = page[p].cell[h]
    OBVIOUS
  <2>1. CASE p = a
    BY <1>5, <1>6, <2>1
  <2>2. CASE p # a
    BY <1>6, <2>2
  <2> QED
    BY <2>1, <2>2
<1>10. new \in [1..P -> Page]
  BY <1>6, <1>7
<1> QED
  BY <1>8, <1>9, <1>10 DEF new, i, a
-----------------------------------------------------------------------------
(***************************************************************************)
(* Steps.                                                                   *)
(***************************************************************************)
\* No value takes more slots than the walkers of both tools believe.
ShortEntries == \A v \in Values : Span(v) <= MaxSpan
\* nvs_set.py finds a live head of the key.
LEMMA LastMatchIn ==
  ASSUME NEW k, Matches(k) # {}
  PROVE  LastMatch(k) \in Matches(k)
<1> DEFINE M == Matches(k)
<1>1. \A x \in M : /\ x \in Places /\ x[1] \in 1..P /\ x[2] \in Slots
                   /\ Head(page[x[1]], x[2]) /\ page[x[1]].cell[x[2]].entry \in Entries
  BY FoundHeads DEF Matches
<1> HIDE DEF M
<1>2. PICK p \in {x[1] : x \in M} : \A q \in {x[1] : x \in M} : q <= p
  <2>1. {x[1] : x \in M} \subseteq 0..P /\ {x[1] : x \in M} # {}
    BY <1>1 DEF M
  <2> QED
    BY <2>1, Greatest, NatP
<1> DEFINE R == {x \in M : x[1] = p}
<1>3. PICK i \in {x[2] : x \in R} : \A j \in {x[2] : x \in R} : j <= i
  <2>1. {x[2] : x \in R} \subseteq 0..S /\ {x[2] : x \in R} # {}
    BY <1>1, <1>2 DEF Slots
  <2> QED
    BY <2>1, Greatest, NatP
<1>4. PICK x \in M : x[1] = p /\ x[2] = i
  BY <1>3
<1>5. ASSUME NEW y \in M PROVE After(x, y)
  <2>1. y[1] <= x[1] /\ y[1] \in Nat /\ x[1] \in Nat
    BY <1>1, <1>2, <1>4, NatP
  <2>2. CASE y[1] = x[1]
    <3>1. y[2] <= x[2] /\ y[2] \in Nat /\ x[2] \in Nat
      BY <1>1, <1>3, <1>4, <2>2, NatP DEF Slots
    <3> QED
      BY <2>2, <3>1 DEF After
  <2>3. CASE y[1] # x[1]
    BY <2>1, <2>3 DEF After
  <2> QED
    BY <2>2, <2>3
<1>6. \E z \in Matches(k) : \A y \in Matches(k) : After(z, y)
  BY <1>5 DEF M
<1> QED
  BY <1>6, Zenon DEF LastMatch

LEMMA LastMatchHead ==
  ASSUME NEW k, Matches(k) # {}
  PROVE  /\ LastMatch(k)[1] \in 1..P /\ LastMatch(k)[2] \in Slots
         /\ Head(page[LastMatch(k)[1]], LastMatch(k)[2])
         /\ page[LastMatch(k)[1]].cell[LastMatch(k)[2]].entry \in Entries
  BY LastMatchIn, FoundHeads DEF Matches

LEMMA NewestIsAll ==
  ASSUME TypeOK
  PROVE  Newest \in 0..MaxSeq /\ \A p \in 1..P : page[p].seq <= Newest
<1>1. {page[p].seq : p \in 1..P} \subseteq 0..MaxSeq /\ {page[p].seq : p \in 1..P} # {}
  <2>1. 1 \in 1..P
    BY NvsAssumption
  <2>2. \A p \in 1..P : page[p].seq \in 0..MaxSeq
    BY DEF TypeOK, Page
  <2> QED
    BY <2>1, <2>2
<1>2. PICK n \in {page[p].seq : p \in 1..P} : \A m \in {page[p].seq : p \in 1..P} : m <= n
  BY <1>1, Greatest, NatP
<1>3. \E n1 \in {page[p].seq : p \in 1..P} : \A p \in 1..P : page[p].seq <= n1
  BY <1>2
<1>4. Newest \in {page[p].seq : p \in 1..P} /\ \A p \in 1..P : page[p].seq <= Newest
  BY <1>3, Zenon DEF Newest
<1> QED
  BY <1>1, <1>4

LEMMA NewestExists ==
  ASSUME TypeOK
  PROVE  Newest \in Nat
  BY NewestIsAll, NatP

LEMMA AppendType ==
  ASSUME TypeOK, NEW e \in Entries, NEW v \in Values,
         Active # {}, Fits(ActivePage, Span(v))
  PROVE  [page EXCEPT ![ActivePage] = Written(@, FirstFit(ActivePage, Span(v)), e, v)]
           \in [1..P -> Page]
<1>1. ActivePage \in 1..P
  BY ActivePageExists
<1>2. FirstFit(ActivePage, Span(v)) \in Slots /\ Empty(ActivePage, FirstFit(ActivePage, Span(v)), Span(v))
  BY <1>1, FirstFitExists
<1>3. \A i \in Slots : i + Span(v) - 1 = i + DataSlots[v]
  BY DataNat DEF Span, Slots
<1>4. \A j \in FirstFit(ActivePage, Span(v))..(FirstFit(ActivePage, Span(v)) + DataSlots[v]) : j \in Slots
  BY <1>2, <1>3 DEF Empty
<1>5. Written(page[ActivePage], FirstFit(ActivePage, Span(v)), e, v) \in Page
  BY <1>1, <1>2, <1>4, WrittenType DEF TypeOK
<1> QED
  BY <1>1, <1>5 DEF TypeOK

LEMMA ErasedType ==
  ASSUME NEW pg \in Page, NEW i
  PROVE  Erased(pg, i) \in Page
  BY DEF Erased, Page

LEMMA FreshType == Fresh \in Page /\ [Fresh EXCEPT !.state = "active"] \in Page
  BY NatP DEF Fresh, Page

LEMMA FreshSound == Sound(Fresh)
  BY FreshType DEF Fresh, Sound, Whole, Owned, Head

LEMMA NextTypeOK == TypeOK /\ [Next]_vars => TypeOK'
<1> SUFFICES ASSUME TypeOK, [Next]_vars PROVE TypeOK'
  OBVIOUS
<1>1. page \in [1..P -> Page] /\ pending \subseteq Places
  BY DEF TypeOK
<1>2. ASSUME NEW k \in Keys, NEW v \in Values, NvsSet(k, v) PROVE TypeOK'
  <2> DEFINE x == LastMatch(k)
             e == page[x[1]].cell[x[2]].entry
             new == [page EXCEPT ![ActivePage] = Written(@, FirstFit(ActivePage, Span(v)), e, v)]
  <2>1. e \in Entries
    BY <1>2, LastMatchHead DEF NvsSet
  <2>2. new \in [1..P -> Page]
    BY <1>2, <2>1, AppendType DEF NvsSet
  <2>3. page' = [new EXCEPT ![x[1]] = Erased(@, x[2])] /\ pending' = pending
    BY <1>2 DEF NvsSet
  <2> HIDE DEF new, x, e
  <2>4. page' \in [1..P -> Page]
    BY <2>2, <2>3, ErasedType
  <2> QED
    BY <1>1, <2>3, <2>4 DEF TypeOK
<1>3. ASSUME NEW e \in Entries, NEW v \in Values, DeviceAppend(e, v) PROVE TypeOK'
  <2>1. page' \in [1..P -> Page]
    BY <1>3, AppendType DEF DeviceAppend
  <2>2. pending' \subseteq Places
    BY <1>3, FoundHeads DEF DeviceAppend, Current
  <2> QED
    BY <2>1, <2>2 DEF TypeOK
<1>4. CASE DeviceErase
  <2>1. \A p \in 1..P, f \in [Slots -> {"empty", "written", "erased"}] :
           [page[p] EXCEPT !.bits = f] \in Page
    BY <1>1 DEF Page
  <2>2. page' \in [1..P -> Page]
    <3> SUFFICES ASSUME NEW p \in 1..P PROVE page'[p] \in Page
      BY <1>4 DEF DeviceErase
    <3> DEFINE f == [j \in Slots |->
                 IF \E x \in pending : x[1] = p /\ j \in x[2]..(x[2] + DataSlots[page[p].cell[x[2]].value])
                 THEN "erased" ELSE page[p].bits[j]]
    <3>1. f \in [Slots -> {"empty", "written", "erased"}]
      BY <1>1 DEF Page
    <3>2. page'[p] = [page[p] EXCEPT !.bits = f]
      BY <1>4 DEF DeviceErase
    <3> HIDE DEF f
    <3> QED
      BY <2>1, <3>1, <3>2
  <2> QED
    BY <1>4, <2>2 DEF DeviceErase, TypeOK
<1>5. CASE PowerLoss
  BY <1>1, <1>5 DEF PowerLoss, TypeOK
<1>6. CASE DeviceNextPage
  <2>1. Newest + 1 \in 0..MaxSeq
    BY <1>6, NewestExists, NatP DEF DeviceNextPage
  <2>2. \A pg \in Page : /\ [pg EXCEPT !.state = "full"] \in Page
                         /\ [[pg EXCEPT !.state = "active"] EXCEPT !.seq = Newest + 1] \in Page
    BY <2>1 DEF Page
  <2>3. PICK p \in Active, q \in 1..P :
          /\ page[q].state = "uninit"
          /\ page' = [page EXCEPT ![p].state = "full", ![q].state = "active",
                                  ![q].seq = Newest + 1]
          /\ pending' = pending
    BY <1>6 DEF DeviceNextPage
  <2>4. page' \in [1..P -> Page]
    <3>1. p \in 1..P /\ p # q
      BY <2>3 DEF Active
    <3>2. page' = [page EXCEPT ![p] = [@ EXCEPT !.state = "full"],
                              ![q] = [[@ EXCEPT !.state = "active"] EXCEPT !.seq = Newest + 1]]
      BY <1>1, <2>3, <3>1
    <3>3. /\ [page[p] EXCEPT !.state = "full"] \in Page
          /\ [[page[q] EXCEPT !.state = "active"] EXCEPT !.seq = Newest + 1] \in Page
      BY <1>1, <2>2, <3>1
    <3> QED
      BY <1>1, <3>1, <3>2, <3>3
  <2> QED
    BY <1>1, <2>3, <2>4 DEF TypeOK
<1>7. CASE DeviceRecycle
  BY <1>1, <1>7, FreshType DEF DeviceRecycle, TypeOK
<1>8. CASE UNCHANGED vars
  BY <1>1, <1>8 DEF vars, TypeOK
<1> QED
  BY <1>2, <1>3, <1>4, <1>5, <1>6, <1>7, <1>8 DEF Next

LEMMA InitTypeOK == Init => TypeOK
  BY FreshType DEF Init, TypeOK

LEMMA NextStoreInv ==
  ASSUME ShortEntries
  PROVE  StoreInv /\ [Next]_vars => StoreInv'
<1> SUFFICES ASSUME StoreInv, [Next]_vars PROVE StoreInv'
  OBVIOUS
<1>1. /\ page \in [1..P -> Page] /\ TypeOK'
      /\ \A p \in 1..P : page[p] \in Page /\ Sound(page[p])
  BY NextTypeOK DEF StoreInv, TypeOK
<1>2. ASSUME NEW k \in Keys, NEW v \in Values, NvsSet(k, v) PROVE StoreInv'
  <2> DEFINE x == LastMatch(k)
             e == page[x[1]].cell[x[2]].entry
             new == [page EXCEPT ![ActivePage] = Written(@, FirstFit(ActivePage, Span(v)), e, v)]
  <2>1. x[1] \in 1..P /\ x[2] \in Slots /\ Head(page[x[1]], x[2]) /\ e \in Entries
    BY <1>2, LastMatchHead DEF NvsSet
  <2>2. /\ \A p \in 1..P : Sound(new[p])
        /\ new \in [1..P -> Page]
        /\ Head(new[x[1]], x[2])
    BY <1>2, <2>1, AppendSound DEF NvsSet
  <2>3. page' = [new EXCEPT ![x[1]] = Erased(@, x[2])] /\ pending' = {}
    BY <1>2 DEF NvsSet
  <2> HIDE DEF new, x
  <2>4. Sound(Erased(new[x[1]], x[2]))
    <3> DEFINE pg == new[x[1]]
               qg == Erased(pg, x[2])
    <3>1. pg \in Page /\ Sound(pg) /\ Head(pg, x[2])
      BY <2>1, <2>2
    <3> HIDE DEF pg
    <3>2. x[2] + Step(pg.cell[x[2]]) - 1 = Last(pg, x[2])
      <4>1. Span(pg.cell[x[2]].value) <= MaxSpan
        BY <2>1, <3>1, HeadType DEF ShortEntries
      <4>2. Step(pg.cell[x[2]]) = 1 + DataSlots[pg.cell[x[2]].value]
        BY <3>1, <4>1 DEF Head, Step, Span
      <4> QED
        BY <2>1, <3>1, <4>2, HeadType DEF Last
    <3>3. /\ qg \in Page /\ qg.cell = pg.cell
          /\ \A j \in Slots : qg.bits[j] = IF j \in x[2]..Last(pg, x[2]) THEN "erased"
                                           ELSE pg.bits[j]
      BY <3>1, <3>2, ErasedType DEF Erased, Page
    <3> HIDE DEF qg
    <3>4. Sound(qg)
      <4>1. \A j \in Slots : qg.bits[j] = IF \E h \in {x[2]} : j \in h..Last(pg, h)
                                          THEN "erased" ELSE pg.bits[j]
        BY <3>3
      <4> QED
        BY <2>1, <3>1, <3>3, <4>1, ErasedSound
    <3> QED
      BY <3>4 DEF qg, pg
  <2>5. \A p \in 1..P : Sound(page'[p])
    BY <2>1, <2>2, <2>3, <2>4
  <2> QED
    BY <1>1, <2>3, <2>5 DEF StoreInv, PendingHeads
<1>3. ASSUME NEW e \in Entries, NEW v \in Values, DeviceAppend(e, v) PROVE StoreInv'
  <2>1. /\ \A p \in 1..P : Sound(page'[p])
        /\ \A p \in 1..P, h \in Slots : Head(page[p], h) => Head(page'[p], h)
    BY <1>3, AppendSound DEF DeviceAppend
  <2>2. \A y \in Current(e) : /\ y \in Places /\ y[1] \in 1..P /\ y[2] \in Slots
                              /\ Head(page[y[1]], y[2])
    BY FoundHeads DEF Current
  <2>3. \A y \in pending' : y \in Places /\ Head(page'[y[1]], y[2])
    BY <1>3, <2>1, <2>2 DEF DeviceAppend
  <2> QED
    BY <1>1, <2>1, <2>3 DEF StoreInv, PendingHeads
<1>4. CASE DeviceErase
  <2>1. ASSUME NEW p \in 1..P PROVE Sound(page'[p])
    <3> DEFINE H == {h \in Slots : <<p, h>> \in pending}
    <3>1. \A y \in pending : y \in Places /\ y = <<y[1], y[2]>> /\ y[2] \in Slots /\ Head(page[y[1]], y[2])
      BY DEF StoreInv, PendingHeads, Places
    <3>2. H \subseteq {h \in Slots : Head(page[p], h)}
      BY <3>1
    <3>3. page'[p] \in Page
      BY <1>1 DEF TypeOK
    <3>4. /\ page'[p].cell = page[p].cell
          /\ \A j \in Slots : page'[p].bits[j] =
               IF \E y \in pending : y[1] = p /\ j \in y[2]..(y[2] + DataSlots[page[p].cell[y[2]].value])
               THEN "erased" ELSE page[p].bits[j]
      BY <1>1, <1>4 DEF DeviceErase, Page
    <3>5. ASSUME NEW j \in Slots
          PROVE  (\E y \in pending : y[1] = p /\ j \in y[2]..(y[2] + DataSlots[page[p].cell[y[2]].value]))
                   <=> (\E h \in H : j \in h..Last(page[p], h))
      <4>1. ASSUME NEW y \in pending, y[1] = p,
                   j \in y[2]..(y[2] + DataSlots[page[p].cell[y[2]].value])
            PROVE  \E h \in H : j \in h..Last(page[p], h)
        <5>1. y[2] \in H
          BY <3>1, <4>1
        <5> QED
          BY <4>1, <5>1 DEF Last
      <4>2. ASSUME NEW h \in H, j \in h..Last(page[p], h)
            PROVE  \E y \in pending : y[1] = p /\ j \in y[2]..(y[2] + DataSlots[page[p].cell[y[2]].value])
        BY <4>2 DEF Last
      <4> QED
        BY <4>1, <4>2
    <3> HIDE DEF H
    <3>6. \A j \in Slots : page'[p].bits[j] = IF \E h \in H : j \in h..Last(page[p], h)
                                              THEN "erased" ELSE page[p].bits[j]
      BY <3>4, <3>5
    <3>7. Sound(page[p])
      BY <1>1
    <3> QED
      BY <3>2, <3>3, <3>4, <3>6, <3>7, ErasedSound
  <2>2. pending' = {}
    BY <1>4 DEF DeviceErase
  <2> QED
    BY <1>1, <2>1, <2>2 DEF StoreInv, PendingHeads
<1>5. CASE PowerLoss
  BY <1>1, <1>5 DEF PowerLoss, StoreInv, PendingHeads
<1>6. CASE DeviceNextPage \/ DeviceRecycle
  <2>1. pending' = {}
    BY <1>6 DEF DeviceNextPage, DeviceRecycle
  <2>2. ASSUME NEW p \in 1..P
        PROVE  \/ page'[p].bits = page[p].bits /\ page'[p].cell = page[p].cell
               \/ page'[p] = Fresh
    <3>1. CASE DeviceNextPage
      <4>1. PICK r \in Active, q \in 1..P :
              page' = [page EXCEPT ![r].state = "full", ![q].state = "active",
                                   ![q].seq = Newest + 1]
        BY <3>1 DEF DeviceNextPage
      <4> QED
        BY <1>1, <4>1 DEF Page
    <3>2. CASE DeviceRecycle
      <4>1. PICK q \in 1..P : page' = [page EXCEPT ![q] = Fresh]
        BY <3>2 DEF DeviceRecycle
      <4> QED
        BY <1>1, <4>1
    <3> QED
      BY <1>6, <3>1, <3>2
  <2>3. ASSUME NEW p \in 1..P PROVE Sound(page'[p])
    <3>1. page'[p] \in Page /\ Sound(page[p])
      BY <1>1 DEF TypeOK
    <3>2. CASE page'[p].bits = page[p].bits /\ page'[p].cell = page[p].cell
      BY <3>1, <3>2 DEF Sound, Whole, Owned, Head, Last
    <3>3. CASE page'[p] = Fresh
      BY <3>1, <3>3, FreshSound
    <3> QED
      BY <2>2, <3>2, <3>3
  <2> QED
    BY <1>1, <2>1, <2>3 DEF StoreInv, PendingHeads
<1>7. CASE UNCHANGED vars
  BY <1>1, <1>7 DEF vars, StoreInv, PendingHeads
<1> QED
  BY <1>2, <1>3, <1>4, <1>5, <1>6, <1>7 DEF Next

LEMMA InitStoreInv == Init => StoreInv
<1> SUFFICES ASSUME Init PROVE StoreInv
  OBVIOUS
<1>1. \A p \in 1..P : page[p].bits = Fresh.bits /\ page[p].cell = Fresh.cell /\ page[p] \in Page
  BY FreshType DEF Init, Fresh
<1>2. \A p \in 1..P : Sound(page[p])
  BY <1>1, FreshSound DEF Sound, Whole, Owned, Head, Last
<1> QED
  BY <1>2, InitTypeOK DEF Init, StoreInv, PendingHeads

\* Where every head and its data are found again, each written slot has one
\* owner.
LEMMA OwnersAreOne == StoreInv => BitmapAgrees
<1> SUFFICES ASSUME StoreInv, NEW p \in 1..P, NEW i \in Slots, page[p].bits[i] = "written"
             PROVE  Cardinality({h \in 1..i : Covers(p, h, i)}) = 1
  BY DEF BitmapAgrees
<1>1. Whole(page[p]) /\ Owned(page[p])
  BY DEF StoreInv, Sound
<1>2. PICK g \in Slots : Head(page[p], g) /\ i \in g..Last(page[p], g)
  BY <1>1 DEF Owned
<1>3. g \in 1..i
  BY <1>2 DEF Slots
<1>4. Covers(p, g, i)
  <2> DEFINE v == page[p].cell[g].value
  <2>1. v \in Values /\ i \in g..(g + DataSlots[v])
    BY <1>2, HeadType DEF Last
  <2>2. \A k \in 1..DataSlots[v] : g + k \in Slots /\ page[p].cell[g + k] = [value |-> v, part |-> k]
    BY <1>1, <1>2 DEF Whole
  <2>3. ReadAt(<<p, g>>) = v
    BY <2>2 DEF ReadAt
  <2> QED
    BY <1>2, <2>1, <2>3, DataNat DEF Covers, Head
<1>5. ASSUME NEW h \in 1..i, Covers(p, h, i) PROVE h = g
  <2>1. h \in Slots
    BY NatP DEF Slots
  <2>2. Head(page[p], h) /\ i \in h..Last(page[p], h)
    BY <1>5 DEF Covers, Head, Last
  <2> QED
    BY <1>1, <1>2, <2>1, <2>2, OneOwner
<1>6. {h \in 1..i : Covers(p, h, i)} = {g}
  BY <1>3, <1>4, <1>5
<1> QED
  BY <1>6, FS_Singleton
-----------------------------------------------------------------------------
\* The partition is of the type of partitions, and what the device has yet to
\* erase is in it, whatever nvs_set.py and the device write.
THEOREM TypeCorrect == Spec => []TypeOK
  BY InitTypeOK, NextTypeOK, PTL DEF Spec

\* The inductive invariant: behind a live head is its data, written and in
\* order, and every written slot belongs to a live head.
THEOREM StoreInvariance ==
  ASSUME ShortEntries
  PROVE  Spec => []StoreInv
  BY InitStoreInv, NextStoreInv, PTL DEF Spec

\* The bitmap and the entries of a partition agree after every write, erasure
\* and loss of power, as long as no entry has a larger span than the walkers of
\* nvs_parse.py and nvs_set.py believe.
THEOREM BitmapStaysTrue ==
  ASSUME ShortEntries
  PROVE  Spec => []BitmapAgrees
  BY StoreInvariance, OwnersAreOne, PTL
-----------------------------------------------------------------------------
(***************************************************************************)
(* The partition as a map.                                                  *)
(***************************************************************************)

\* A page is filled from the front: entries, live or erased, lie behind each
\* other, and the slots behind the last of them are blank.
Laid(pg) ==
  /\ \A h \in Slots : pg.cell[h] \in Heads =>
       \A k \in 1..DataSlots[pg.cell[h].value] :
         /\ h + k \in Slots /\ pg.bits[h + k] # "empty"
         /\ pg.cell[h + k] = [value |-> pg.cell[h].value, part |-> k]
  /\ \A i \in Slots : pg.bits[i] = "empty" =>
       pg.cell[i] = Blank /\ \A j \in Slots : i < j => pg.bits[j] = "empty"
  /\ pg.state = "uninit" => \A i \in Slots : pg.bits[i] = "empty"

\* One page is written to, and it is the youngest; no two pages are of one age.
Used(p) == page[p].state # "uninit"
Aged ==
  /\ \E a \in 1..P :
       /\ page[a].state = "active"
       /\ \A p \in 1..P \ {a} : Used(p) => page[p].state # "active" /\ page[p].seq < page[a].seq
  /\ \A p, q \in 1..P : Used(p) /\ Used(q) /\ page[p].seq = page[q].seq => p = q

\* The live heads of entry e.
HeadsOf(e) == {x \in Places : Head(page[x[1]], x[2]) /\ page[x[1]].cell[x[2]].entry = e}

\* What the device has yet to erase has been written anew.
Outdated ==
  \A x \in pending, e \in Entries :
    x \in HeadsOf(e) => \E y \in HeadsOf(e) \ pending : Later(y, x)

MapInv ==
  /\ StoreInv
  /\ \A p \in 1..P : Laid(page[p])
  /\ Aged /\ Outdated
-----------------------------------------------------------------------------
(***************************************************************************)
(* The walk.                                                                *)
(***************************************************************************)

\* From every slot that does not lie inside an entry the walk finds every
\* head behind it, since it comes by the ends of entries only.
LEMMA WalkFinds ==
  ASSUME ShortEntries, NEW p \in 1..P, Laid(page[p]),
         NEW h \in Slots, page[p].cell[h] \in Heads
  PROVE  h \in Walk(p)
<1> DEFINE cell == page[p].cell
           nxt(i) == i + Step(cell[i])
           from == CHOOSE f : f = [i \in Slots |->
                     {i} \cup (IF i + Step(cell[i]) \in Slots THEN f[i + Step(cell[i])] ELSE {})]
           closed(A) == \A m \in A : nxt(m) \in Slots => nxt(m) \in A
           C(i) == {j \in Slots : \A A \in SUBSET Slots : i \in A /\ closed(A) => j \in A}
\* What can be reached is a solution of the recursion, so there is one.
<1>1. ASSUME NEW i \in Slots
      PROVE  C(i) = {i} \cup (IF nxt(i) \in Slots THEN C(nxt(i)) ELSE {})
  <2>1. C(i) \subseteq {i} \cup (IF nxt(i) \in Slots THEN C(nxt(i)) ELSE {})
    <3> DEFINE B == {i} \cup (IF nxt(i) \in Slots THEN C(nxt(i)) ELSE {})
    <3>1. B \in SUBSET Slots /\ i \in B
      OBVIOUS
    <3>2. closed(B)
      <4> SUFFICES ASSUME NEW m \in B, nxt(m) \in Slots PROVE nxt(m) \in B
        OBVIOUS
      <4>1. CASE m = i
        BY <4>1
      <4>2. CASE nxt(i) \in Slots /\ m \in C(nxt(i))
        BY <4>2
      <4> QED
        BY <4>1, <4>2
    <3> QED
      BY <3>1, <3>2
  <2>2. {i} \cup (IF nxt(i) \in Slots THEN C(nxt(i)) ELSE {}) \subseteq C(i)
    OBVIOUS
  <2> QED
    BY <2>1, <2>2
<1> DEFINE W == [i \in Slots |-> C(i)]
<1>2. W = [i \in Slots |-> {i} \cup (IF i + Step(cell[i]) \in Slots THEN W[i + Step(cell[i])] ELSE {})]
  <2> HIDE DEF C
  <2> QED
    BY <1>1
<1>3. from = [i \in Slots |->
        {i} \cup (IF i + Step(cell[i]) \in Slots THEN from[i + Step(cell[i])] ELSE {})]
  <2> HIDE DEF W, cell
  <2> QED
    BY <1>2
<1>4. Walk(p) = from[1]
  BY DEF Walk
<1> HIDE DEF from, W, C, closed
\* A slot that no entry has for its data, and the next the walk comes by.
<1> DEFINE good(i) == \A g \in Slots : cell[g] \in Heads => ~(g < i /\ i <= Last(page[p], g))
<1>5. \A g \in Slots : cell[g] \in Heads =>
        /\ g \in Nat /\ DataSlots[cell[g].value] \in Nat /\ Last(page[p], g) = g + DataSlots[cell[g].value]
        /\ Step(cell[g]) = 1 + DataSlots[cell[g].value]
        /\ \A k \in 1..DataSlots[cell[g].value] : cell[g + k] \notin Heads
  <2> SUFFICES ASSUME NEW g \in Slots, cell[g] \in Heads
               PROVE  /\ g \in Nat /\ DataSlots[cell[g].value] \in Nat
                      /\ Last(page[p], g) = g + DataSlots[cell[g].value]
                      /\ Step(cell[g]) = 1 + DataSlots[cell[g].value]
                      /\ \A k \in 1..DataSlots[cell[g].value] : cell[g + k] \notin Heads
    OBVIOUS
  <2>1. cell[g].value \in Values
    BY DEF Heads
  <2>2. DataSlots[cell[g].value] \in Nat /\ Span(cell[g].value) <= MaxSpan
    BY <2>1, DataNat DEF ShortEntries
  <2>3. \A k \in 1..DataSlots[cell[g].value] : cell[g + k] \notin Heads
    BY DataIsNoHead DEF Laid
  <2> QED
    BY <2>2, <2>3 DEF Step, Span, Last, Slots
<1>6. ASSUME NEW i \in Slots, good(i), i < h
      PROVE  nxt(i) \in Slots /\ nxt(i) <= h /\ i < nxt(i) /\ good(nxt(i))
  <2>1. i \in Nat /\ h \in Nat /\ i \in 1..S /\ h \in 1..S
    BY DEF Slots
  <2>2. CASE cell[i] \in Heads
    <3> DEFINE d == DataSlots[cell[i].value]
    <3>1. d \in Nat /\ nxt(i) = i + 1 + d /\ Last(page[p], i) = i + d
      BY <1>5, <2>1, <2>2
    <3>2. ASSUME NEW g \in Slots, i < g, g <= i + d PROVE cell[g] \notin Heads
      <4>1. g - i \in 1..d /\ i + (g - i) = g
        BY <2>1, <3>1, <3>2 DEF Slots
      <4> QED
        BY <1>5, <2>2, <4>1
    <3> HIDE DEF d
    <3>3. i + 1 + d <= h
      BY <1>6, <2>1, <3>1, <3>2
    <3>4. ASSUME NEW g \in Slots, cell[g] \in Heads, g < nxt(i), nxt(i) <= Last(page[p], g)
          PROVE  FALSE
      <4>1. g \in Nat /\ Last(page[p], g) \in Nat
        BY <1>5, <3>4
      <4>2. CASE g < i
        BY <1>6, <2>1, <3>1, <3>4, <4>1, <4>2
      <4>3. CASE i < g
        BY <2>1, <3>1, <3>2, <3>4, <4>1, <4>3
      <4>4. CASE g = i
        BY <2>1, <3>1, <3>4, <4>4
      <4> QED
        BY <2>1, <4>1, <4>2, <4>3, <4>4
    <3> HIDE DEF nxt
    <3>5. nxt(i) \in Slots /\ nxt(i) <= h /\ i < nxt(i)
      BY <2>1, <3>1, <3>3, NatP DEF Slots
    <3> QED
      BY <3>4, <3>5
  <2>3. CASE cell[i] \notin Heads
    <3>1. nxt(i) = i + 1
      BY <2>1, <2>3 DEF Step
    <3>2. ASSUME NEW g \in Slots, cell[g] \in Heads, g < nxt(i), nxt(i) <= Last(page[p], g)
          PROVE  FALSE
      <4>1. g \in Nat /\ Last(page[p], g) \in Nat /\ g # i
        BY <1>5, <2>3, <3>2
      <4>2. g < i /\ i <= Last(page[p], g)
        BY <2>1, <3>1, <3>2, <4>1
      <4> QED
        BY <1>6, <3>2, <4>2
    <3> HIDE DEF nxt
    <3>3. nxt(i) \in Slots /\ nxt(i) <= h /\ i < nxt(i)
      BY <1>6, <2>1, <3>1, NatP DEF Slots
    <3> QED
      BY <3>2, <3>3
  <2> QED
    BY <2>2, <2>3
<1> DEFINE T == {i \in Slots : i <= h /\ good(i) /\ h \notin from[i]}
<1>7. T = {}
  <2> SUFFICES ASSUME T # {} PROVE FALSE
    OBVIOUS
  <2>1. T \subseteq 0..S
    BY NatP DEF Slots
  <2> HIDE DEF T
  <2>2. PICK i \in T : \A m \in T : m <= i
    BY <2>1, Greatest, NatP
  <2>3. i \in Slots /\ i <= h /\ good(i) /\ h \notin from[i]
    BY DEF T
  <2>4. from[h] = {h} \cup (IF nxt(h) \in Slots THEN from[nxt(h)] ELSE {})
    BY <1>3
  <2>5. i # h
    BY <2>3, <2>4
  <2>6. i < h
    BY <2>3, <2>5 DEF Slots
  <2>7. nxt(i) \in Slots /\ nxt(i) <= h /\ i < nxt(i) /\ good(nxt(i))
    BY <1>6, <2>3, <2>6
  <2> HIDE DEF good
  <2>8. from[i] = {i} \cup from[nxt(i)]
    BY <1>3, <2>3, <2>7
  <2> HIDE DEF nxt
  <2>9. nxt(i) \in T
    BY <2>3, <2>7, <2>8 DEF T
  <2>10. nxt(i) <= i
    BY <2>2, <2>9
  <2> QED
    BY <2>3, <2>7, <2>10 DEF Slots
<1>8. 1 \in Slots /\ 1 <= h /\ good(1)
  <2>1. 1 \in Slots /\ 1 <= h
    BY NatP DEF Slots
  <2>2. \A g \in Slots : ~(g < 1)
    BY DEF Slots
  <2> QED
    BY <2>1, <2>2
<1>9. h \in from[1]
  BY <1>7, <1>8
<1> QED
  BY <1>4, <1>9
-----------------------------------------------------------------------------
(***************************************************************************)
(* Reading.                                                                 *)
(***************************************************************************)

\* The head of entry e that was written last.
Top(e, y) == y \in HeadsOf(e) /\ \A z \in HeadsOf(e) : Later(y, z)

LEMMA PlacesAre == \A x \in Places : x[1] \in 1..P /\ x[2] \in Slots /\ x = <<x[1], x[2]>>
  BY DEF Places

LEMMA PagesAre ==
  ASSUME TypeOK, NEW p \in 1..P
  PROVE  page[p] \in Page /\ page[p].seq \in Nat
<1>1. page[p] \in Page
  BY DEF TypeOK
<1> QED
  BY <1>1, NatP DEF Page

\* A live head lies on a page in use.
LEMMA HeadsUsed ==
  ASSUME MapInv, NEW e, NEW x \in HeadsOf(e)
  PROVE  /\ x[1] \in 1..P /\ x[2] \in Slots /\ x = <<x[1], x[2]>> /\ Used(x[1])
         /\ Head(page[x[1]], x[2]) /\ page[x[1]].cell[x[2]].entry = e
         /\ page[x[1]].cell[x[2]] \in Heads
<1>1. x[1] \in 1..P /\ x[2] \in Slots /\ x = <<x[1], x[2]>> /\ Head(page[x[1]], x[2])
      /\ page[x[1]].cell[x[2]].entry = e
  BY PlacesAre DEF HeadsOf
<1>2. Laid(page[x[1]])
  BY <1>1 DEF MapInv
<1>3. page[x[1]].bits[x[2]] # "empty"
  BY <1>1 DEF Head
<1>4. Used(x[1])
  BY <1>1, <1>2, <1>3 DEF Laid, Used
<1> QED
  BY <1>1, <1>4 DEF Head

\* The walkers find all live heads, and nothing else.
LEMMA FoundAll == ShortEntries /\ MapInv => \A e \in Entries : Found(e) = HeadsOf(e)
<1> SUFFICES ASSUME ShortEntries, MapInv, NEW e \in Entries PROVE Found(e) = HeadsOf(e)
  OBVIOUS
<1>1. Found(e) \subseteq HeadsOf(e)
  BY FoundHeads DEF HeadsOf
<1>2. ASSUME NEW x \in HeadsOf(e) PROVE x \in Found(e)
  <2>1. /\ x[1] \in 1..P /\ x[2] \in Slots /\ x = <<x[1], x[2]>> /\ Used(x[1])
        /\ Head(page[x[1]], x[2]) /\ page[x[1]].cell[x[2]].entry = e
        /\ page[x[1]].cell[x[2]] \in Heads
    BY HeadsUsed
  <2>2. Laid(page[x[1]])
    BY <2>1 DEF MapInv
  <2>3. x[2] \in Walk(x[1])
    BY <2>1, <2>2, WalkFinds
  <2>4. IsLive(page[x[1]], x[2], e)
    BY <2>1 DEF IsLive, Head
  <2>5. x \in {<<x[1], i>> : i \in {j \in Slots \cap Walk(x[1]) : IsLive(page[x[1]], j, e)}}
    BY <2>1, <2>3, <2>4
  <2>6. x[1] \in {q \in 1..P : page[q].state # "uninit"}
    BY <2>1 DEF Used
  <2> QED
    BY <2>5, <2>6, Zenon DEF Found
<1> QED
  BY <1>1, <1>2

\* One of the live heads of an entry was written last.
LEMMA TopExists ==
  ASSUME MapInv, NEW e, HeadsOf(e) # {}
  PROVE  \E y : Top(e, y)
<1> DEFINE M == HeadsOf(e)
           seq(x) == page[x[1]].seq
<1>1. \A x \in M : x[1] \in 1..P /\ x[2] \in Slots /\ x[2] \in 0..S /\ seq(x) \in 0..MaxSeq
  <2> SUFFICES ASSUME NEW x \in M
               PROVE  x[1] \in 1..P /\ x[2] \in Slots /\ x[2] \in 0..S /\ seq(x) \in 0..MaxSeq
    OBVIOUS
  <2>1. x[1] \in 1..P /\ x[2] \in Slots
    BY HeadsUsed
  <2>2. page[x[1]] \in Page
    BY <2>1, PagesAre DEF MapInv, StoreInv
  <2> QED
    BY <2>1, <2>2, NatP DEF Page, Slots
<1> HIDE DEF M, seq
<1>2. PICK s \in {seq(x) : x \in M} : \A t \in {seq(x) : x \in M} : t <= s
  <2>1. {seq(x) : x \in M} \subseteq 0..MaxSeq /\ {seq(x) : x \in M} # {}
    BY <1>1 DEF M
  <2> QED
    BY <2>1, Greatest, NatP
<1> DEFINE R == {x \in M : seq(x) = s}
<1>3. PICK i \in {x[2] : x \in R} : \A j \in {x[2] : x \in R} : j <= i
  <2>1. {x[2] : x \in R} \subseteq 0..S /\ {x[2] : x \in R} # {}
    BY <1>1, <1>2
  <2> QED
    BY <2>1, Greatest, NatP
<1>4. PICK y \in M : seq(y) = s /\ y[2] = i
  BY <1>3
<1>5. ASSUME NEW z \in M PROVE seq(y) > seq(z) \/ (seq(y) = seq(z) /\ y[2] >= z[2])
  <2>1. seq(z) <= seq(y) /\ seq(y) \in 0..MaxSeq /\ seq(z) \in 0..MaxSeq
    BY <1>1, <1>2, <1>4
  <2>2. CASE seq(z) = seq(y)
    <3>1. z[2] <= y[2] /\ z[2] \in 0..S /\ y[2] \in 0..S
      BY <1>1, <1>3, <1>4, <2>2
    <3> QED
      BY <2>2, <3>1
  <2> QED
    BY <2>1, <2>2
<1>6. Top(e, y)
  BY <1>4, <1>5 DEF Top, Later, M, seq
<1> QED
  BY <1>6

\* And one only.
LEMMA TopIsOne ==
  ASSUME MapInv, NEW e, NEW y, NEW z, y \in HeadsOf(e), z \in HeadsOf(e), Later(y, z), Later(z, y)
  PROVE  y = z
<1>1. /\ y[1] \in 1..P /\ y[2] \in Slots /\ y = <<y[1], y[2]>> /\ Used(y[1])
      /\ z[1] \in 1..P /\ z[2] \in Slots /\ z = <<z[1], z[2]>> /\ Used(z[1])
  BY HeadsUsed
<1>2. page[y[1]].seq \in Nat /\ page[z[1]].seq \in Nat /\ y[2] \in Nat /\ z[2] \in Nat
  BY <1>1, PagesAre DEF MapInv, StoreInv, Slots
<1>3. page[y[1]].seq = page[z[1]].seq /\ y[2] = z[2]
  BY <1>2 DEF Later
<1>4. y[1] = z[1]
  BY <1>1, <1>3 DEF MapInv, Aged
<1> QED
  BY <1>1, <1>3, <1>4

\* What nvs_parse.py finds of an entry is the value of that head.
TopIsLive ==
  \A e \in Entries : /\ HeadsOf(e) = {} => Live(e) = NoValue
                     /\ \A y : Top(e, y) => Live(e) = page[y[1]].cell[y[2]].value

LEMMA LiveIs == ShortEntries /\ MapInv => TopIsLive
<1> SUFFICES ASSUME ShortEntries, MapInv, NEW e \in Entries
             PROVE  /\ HeadsOf(e) = {} => Live(e) = NoValue
                    /\ \A y : Top(e, y) => Live(e) = page[y[1]].cell[y[2]].value
  BY DEF TopIsLive
<1> DEFINE seen == {x \in Found(e) : Span(page[x[1]].cell[x[2]].value) <= MaxSpan}
<1>1. seen = HeadsOf(e)
  <2>1. Found(e) = HeadsOf(e)
    BY FoundAll
  <2>2. \A x \in HeadsOf(e) : Span(page[x[1]].cell[x[2]].value) <= MaxSpan
    BY HeadsUsed DEF ShortEntries, Heads
  <2> QED
    BY <2>1, <2>2
<1>2. Live(e) = IF seen = {} THEN NoValue
                ELSE ReadAt(CHOOSE x \in seen : \A y \in seen : Later(x, y))
  BY DEF Live
<1> HIDE DEF seen
<1>3. ASSUME NEW y, Top(e, y) PROVE Live(e) = page[y[1]].cell[y[2]].value
  <2> DEFINE z == CHOOSE x \in HeadsOf(e) : \A w \in HeadsOf(e) : Later(x, w)
  <2>1. y \in HeadsOf(e) /\ \A w \in HeadsOf(e) : Later(y, w)
    BY <1>3 DEF Top
  <2>2. z \in HeadsOf(e) /\ \A w \in HeadsOf(e) : Later(z, w)
    BY <2>1, Zenon
  <2> HIDE DEF z
  <2>3. z = y
    BY <2>1, <2>2, TopIsOne
  <2>4. Live(e) = ReadAt(y)
    <3>1. Live(e) = ReadAt(z)
      BY <1>1, <1>2, <2>1 DEF z
    <3> QED
      BY <2>3, <3>1
  <2>5. y[1] \in 1..P /\ y[2] \in Slots /\ Head(page[y[1]], y[2])
    BY <2>1, HeadsUsed
  <2>6. Whole(page[y[1]])
    BY <2>5 DEF MapInv, StoreInv, Sound
  <2> DEFINE v == page[y[1]].cell[y[2]].value
  <2>7. \A k \in 1..DataSlots[v] :
          y[2] + k \in Slots /\ page[y[1]].cell[y[2] + k] = [value |-> v, part |-> k]
    BY <2>5, <2>6 DEF Whole
  <2>8. ReadAt(y) = v
    BY <2>7 DEF ReadAt
  <2> QED
    BY <2>4, <2>8
<1> QED
  BY <1>1, <1>2, <1>3

LEMMA LiveIsNext == ShortEntries /\ MapInv' => TopIsLive'
<1>1. (ShortEntries /\ MapInv => TopIsLive)'
  BY LiveIs, PTL
<1>2. ShortEntries => ShortEntries'
  BY DEF ShortEntries, Span
<1> QED
  BY <1>1, <1>2

\* A step keeps the value of an entry if it keeps the head written last, adds
\* no head, and leaves those that stay as they were.
LEMMA StepKeeps ==
  ASSUME ShortEntries, MapInv, MapInv', NEW e \in Entries,
         HeadsOf(e)' \subseteq HeadsOf(e),
         \A y : Top(e, y) => y \in HeadsOf(e)',
         \A x \in HeadsOf(e)' : /\ page'[x[1]].seq = page[x[1]].seq
                                /\ page'[x[1]].cell[x[2]] = page[x[1]].cell[x[2]]
  PROVE  Live(e)' = Live(e)
<1>1. /\ HeadsOf(e)' = {} => Live(e)' = NoValue
      /\ \A y : Top(e, y)' => Live(e)' = page'[y[1]].cell[y[2]].value
  BY LiveIsNext DEF TopIsLive
<1>2. /\ HeadsOf(e) = {} => Live(e) = NoValue
      /\ \A y : Top(e, y) => Live(e) = page[y[1]].cell[y[2]].value
  BY LiveIs DEF TopIsLive
<1>3. CASE HeadsOf(e) = {}
  BY <1>1, <1>2, <1>3
<1>4. CASE HeadsOf(e) # {}
  <2>1. PICK y : Top(e, y)
    BY <1>4, TopExists
  <2>2. y \in HeadsOf(e)' /\ \A z \in HeadsOf(e)' : Later(y, z)
    BY <2>1 DEF Top
  <2>3. \A z \in HeadsOf(e)' : Later(y, z)'
    BY <2>2 DEF Later
  <2>4. Top(e, y)'
    BY <2>2, <2>3 DEF Top
  <2> QED
    BY <1>1, <1>2, <2>1, <2>2, <2>4
<1> QED
  BY <1>3, <1>4
-----------------------------------------------------------------------------
(***************************************************************************)
(* Writing.                                                                 *)
(***************************************************************************)

\* What Laid says of a page stays true where no slot changes but from written
\* to erased.
LEMMA LaidSame ==
  ASSUME NEW pg, Laid(pg), NEW qg, qg.cell = pg.cell,
         \A i \in Slots : qg.bits[i] = "empty" <=> pg.bits[i] = "empty",
         qg.state = "uninit" => pg.state = "uninit"
  PROVE  Laid(qg)
  BY DEF Laid

\* The page that is written to, and where: behind all its entries.
LEMMA WhereToWrite ==
  ASSUME MapInv, NEW v \in Values, Active # {}, Fits(ActivePage, Span(v))
  PROVE  LET a == ActivePage
             i == FirstFit(a, Span(v))
         IN  /\ a \in 1..P /\ page[a].state = "active"
             /\ \A p \in 1..P \ {a} : Used(p) => page[p].state # "active" /\ page[p].seq < page[a].seq
             /\ i \in Slots
             /\ \A j \in i..(i + DataSlots[v]) : j \in Slots /\ page[a].bits[j] = "empty"
             /\ \A j \in Slots : page[a].bits[j] # "empty" <=> j < i
<1> DEFINE a == ActivePage
           i == FirstFit(a, Span(v))
           n == DataSlots[v]
<1>1. a \in 1..P /\ page[a].state = "active"
  BY ActivePageExists
<1>2. /\ i \in Slots /\ Empty(a, i, Span(v))
      /\ \A j \in 1..(i - 1) : ~Empty(a, j, Span(v))
  BY <1>1, FirstFitExists
<1>3. Laid(page[a])
  BY <1>1 DEF MapInv
<1>4. \A p \in 1..P \ {a} : Used(p) => page[p].state # "active" /\ page[p].seq < page[a].seq
  <2>1. PICK b \in 1..P :
          /\ page[b].state = "active"
          /\ \A p \in 1..P \ {b} : Used(p) => page[p].state # "active" /\ page[p].seq < page[b].seq
    BY DEF MapInv, Aged
  <2>2. Used(a)
    BY <1>1 DEF Used
  <2>3. a = b
    BY <1>1, <2>1, <2>2
  <2> QED
    BY <2>1, <2>3
<1> HIDE DEF a, i
<1>5. n \in Nat /\ Span(v) = n + 1 /\ i \in Nat /\ i \in 1..S
  BY <1>2, DataNat DEF Span, Slots
<1> HIDE DEF n
<1>6. \A j \in Nat : j + Span(v) - 1 = j + n
  BY <1>5
<1>7. \A j \in i..(i + n) : j \in Slots /\ page[a].bits[j] = "empty"
  BY <1>2, <1>5, <1>6 DEF Empty
<1>8. ASSUME NEW j \in Slots, page[a].bits[j] = "empty", j < i PROVE FALSE
  <2>1. j \in Nat /\ j \in 1..(i - 1)
    BY <1>5, <1>8 DEF Slots
  <2>2. ASSUME NEW k \in j..(j + n)
        PROVE  k \in Slots /\ page[a].bits[k] = "empty" /\ page[a].cell[k] = Blank
    <3>0. i + n \in i..(i + n)
      BY <1>5
    <3>1. i + n \in 1..S /\ S \in Nat
      BY <1>7, <3>0, NatP DEF Slots
    <3>2. k \in Slots /\ (k = j \/ j < k)
      BY <1>5, <1>8, <2>1, <3>1 DEF Slots
    <3> QED
      BY <1>3, <1>8, <3>2 DEF Laid
  <2>3. Empty(a, j, Span(v))
    BY <1>6, <2>1, <2>2 DEF Empty
  <2> QED
    BY <1>2, <2>1, <2>3
<1>9. ASSUME NEW j \in Slots, ~(j < i) PROVE page[a].bits[j] = "empty"
  <2>1. page[a].bits[i] = "empty"
    BY <1>5, <1>7
  <2>2. j = i \/ i < j
    BY <1>5, <1>9 DEF Slots
  <2> QED
    BY <1>2, <1>3, <2>1, <2>2 DEF Laid
<1> QED
  BY <1>1, <1>2, <1>4, <1>7, <1>8, <1>9 DEF a, i, n

LEMMA WrittenOn ==
  ASSUME NEW pg \in Page, NEW i, NEW e, NEW v
  PROVE  Written(pg, i, e, v).state = pg.state /\ Written(pg, i, e, v).seq = pg.seq
  BY DEF Written, Page

\* A page with an entry behind the others.
LEMMA LaidWritten ==
  ASSUME NEW pg \in Page, Laid(pg), NEW i \in Slots, NEW e \in Entries, NEW v \in Values,
         \A j \in i..(i + DataSlots[v]) : j \in Slots /\ pg.bits[j] = "empty",
         \A j \in Slots : pg.bits[j] # "empty" <=> j < i,
         pg.state # "uninit"
  PROVE  Laid(Written(pg, i, e, v))
<1> DEFINE n == DataSlots[v]
           qg == Written(pg, i, e, v)
<1>1. n \in Nat \ {0} /\ i \in Nat /\ i \in i..(i + n)
  BY DataNat DEF Slots
<1>2. /\ qg.bits = [j \in Slots |-> IF j \in i..(i + n) THEN "written" ELSE pg.bits[j]]
      /\ qg.cell = [j \in Slots |-> IF j = i THEN [entry |-> e, value |-> v]
                                    ELSE IF j \in i..(i + n) THEN [value |-> v, part |-> j - i]
                                    ELSE pg.cell[j]]
  BY WrittenType
<1>3. qg.state = pg.state
  BY DEF Written, Page
<1> HIDE DEF qg
<1>4. ASSUME NEW h \in Slots, qg.cell[h] \in Heads, NEW k \in 1..DataSlots[qg.cell[h].value]
      PROVE  /\ h + k \in Slots /\ qg.bits[h + k] # "empty"
             /\ qg.cell[h + k] = [value |-> qg.cell[h].value, part |-> k]
  <2>1. CASE h = i
    <3>1. qg.cell[h].value = v
      BY <1>2, <2>1
    <3> HIDE DEF n
    <3>2. k \in 1..n
      BY <1>4, <3>1 DEF n
    <3>3. i + k \in i..(i + n) /\ i + k # i /\ (i + k) - i = k
      BY <1>1, <3>2
    <3>4. i + k \in Slots
      BY <3>3 DEF n
    <3> QED
      BY <1>2, <2>1, <3>1, <3>3, <3>4
  <2>2. CASE h # i
    <3>1. h \notin i..(i + n)
      BY <1>2, <1>4, <2>2, DataIsNoHead
    <3>2. qg.cell[h] = pg.cell[h]
      BY <1>2, <2>2, <3>1
    <3>3. /\ h + k \in Slots /\ pg.bits[h + k] # "empty"
          /\ pg.cell[h + k] = [value |-> pg.cell[h].value, part |-> k]
      BY <1>4, <3>2 DEF Laid
    <3>4. h + k \notin i..(i + n)
      BY <3>3
    <3> QED
      BY <1>1, <1>2, <3>2, <3>3, <3>4
  <2> QED
    BY <2>1, <2>2
<1>5. ASSUME NEW j \in Slots, qg.bits[j] = "empty"
      PROVE  qg.cell[j] = Blank /\ \A m \in Slots : j < m => qg.bits[m] = "empty"
  <2>1. j \notin i..(i + n) /\ pg.bits[j] = "empty"
    BY <1>2, <1>5
  <2>2. pg.cell[j] = Blank /\ \A m \in Slots : j < m => pg.bits[m] = "empty"
    BY <2>1 DEF Laid
  <2>3. qg.cell[j] = Blank
    BY <1>1, <1>2, <2>1, <2>2
  <2>4. ~(j < i) /\ j \in Nat
    BY <2>1 DEF Slots
  <2> HIDE DEF n
  <2>5. j > i + n
    BY <1>1, <2>1, <2>4
  <2>6. ASSUME NEW m \in Slots, j < m PROVE qg.bits[m] = "empty"
    <3>1. m \in Nat /\ m \notin i..(i + n)
      BY <1>1, <2>4, <2>5, <2>6 DEF Slots
    <3> QED
      BY <1>2, <2>2, <2>6, <3>1
  <2> QED
    BY <2>3, <2>6
<1>6. Laid(qg)
  BY <1>3, <1>4, <1>5 DEF Laid
<1> QED
  BY <1>6 DEF qg

\* An entry appended to the active page is the last written of all, and nothing
\* else becomes of the partition.
LEMMA AppendAt ==
  ASSUME MapInv, NEW e \in Entries, NEW v \in Values,
         Active # {}, Fits(ActivePage, Span(v))
  PROVE  LET new == [page EXCEPT ![ActivePage] =
                       Written(@, FirstFit(ActivePage, Span(v)), e, v)]
         IN  \E a \in 1..P, i \in Slots :
               /\ ~Head(page[a], i)
               /\ Head(new[a], i) /\ new[a].cell[i] = [entry |-> e, value |-> v]
               /\ \A p \in 1..P : /\ Laid(new[p])
                                  /\ new[p].state = page[p].state /\ new[p].seq = page[p].seq
               /\ \A p \in 1..P, h \in Slots : Head(page[p], h) =>
                    /\ Head(new[p], h) /\ new[p].cell[h] = page[p].cell[h]
                    /\ \/ p = a /\ h < i
                       \/ p # a /\ page[p].seq < page[a].seq
               /\ \A p \in 1..P, h \in Slots :
                    Head(new[p], h) => Head(page[p], h) \/ (p = a /\ h = i)
<1> DEFINE a == ActivePage
           i == FirstFit(a, Span(v))
           new == [page EXCEPT ![a] = Written(@, i, e, v)]
<1>1. /\ a \in 1..P /\ page[a].state = "active"
      /\ \A p \in 1..P \ {a} : Used(p) => page[p].state # "active" /\ page[p].seq < page[a].seq
      /\ i \in Slots
      /\ \A j \in i..(i + DataSlots[v]) : j \in Slots /\ page[a].bits[j] = "empty"
      /\ \A j \in Slots : page[a].bits[j] # "empty" <=> j < i
  BY WhereToWrite
<1>2. page \in [1..P -> Page] /\ page[a] \in Page /\ Laid(page[a])
  BY <1>1 DEF MapInv, StoreInv, TypeOK
<1>3. new[a] = Written(page[a], i, e, v) /\ \A p \in 1..P \ {a} : new[p] = page[p]
  BY <1>1, <1>2
<1> HIDE DEF a, i, new
<1>4. /\ Head(new[a], i) /\ new[a].cell[i] = [entry |-> e, value |-> v]
      /\ \A h \in Slots : Head(page[a], h) => Head(new[a], h) /\ new[a].cell[h] = page[a].cell[h]
      /\ \A h \in Slots \ {i} : Head(new[a], h) => Head(page[a], h)
  BY <1>1, <1>2, <1>3, WrittenHeads
<1>5. Laid(new[a])
  BY <1>1, <1>2, <1>3, LaidWritten
<1>6. new[a].state = page[a].state /\ new[a].seq = page[a].seq
  BY <1>2, <1>3, WrittenOn
<1>7. ASSUME NEW p \in 1..P
      PROVE  Laid(new[p]) /\ new[p].state = page[p].state /\ new[p].seq = page[p].seq
  BY <1>3, <1>5, <1>6, <1>7 DEF MapInv
<1>8. ASSUME NEW p \in 1..P, NEW h \in Slots, Head(page[p], h)
      PROVE  /\ Head(new[p], h) /\ new[p].cell[h] = page[p].cell[h]
             /\ \/ p = a /\ h < i
                \/ p # a /\ page[p].seq < page[a].seq
  <2>1. page[p].bits[h] # "empty"
    BY <1>8 DEF Head
  <2>2. CASE p = a
    BY <1>1, <1>4, <1>8, <2>1, <2>2
  <2>3. CASE p # a
    <3>1. Used(p)
      BY <2>1 DEF MapInv, Laid, Used
    <3> QED
      BY <1>1, <1>3, <1>8, <2>3, <3>1
  <2> QED
    BY <2>2, <2>3
<1>9. ASSUME NEW p \in 1..P, NEW h \in Slots, Head(new[p], h)
      PROVE  Head(page[p], h) \/ (p = a /\ h = i)
  BY <1>3, <1>4, <1>9
<1>10. ~Head(page[a], i)
  BY <1>1 DEF Head, Slots
<1>11. \E b \in 1..P, j \in Slots :
         /\ ~Head(page[b], j)
         /\ Head(new[b], j) /\ new[b].cell[j] = [entry |-> e, value |-> v]
         /\ \A p \in 1..P : /\ Laid(new[p])
                            /\ new[p].state = page[p].state /\ new[p].seq = page[p].seq
         /\ \A p \in 1..P, h \in Slots : Head(page[p], h) =>
              /\ Head(new[p], h) /\ new[p].cell[h] = page[p].cell[h]
              /\ \/ p = b /\ h < j
                 \/ p # b /\ page[p].seq < page[b].seq
         /\ \A p \in 1..P, h \in Slots :
              Head(new[p], h) => Head(page[p], h) \/ (p = b /\ h = j)
  BY <1>1, <1>4, <1>7, <1>8, <1>9, <1>10
<1> QED
  BY <1>11 DEF new, i, a
-----------------------------------------------------------------------------
(***************************************************************************)
(* Steps.                                                                   *)
(***************************************************************************)

\* Pages that stay in use, and of their age.
LEMMA AgedSame ==
  ASSUME Aged, \A p \in 1..P : page'[p].state = page[p].state /\ page'[p].seq = page[p].seq
  PROVE  Aged'
<1>1. PICK a \in 1..P :
        /\ page[a].state = "active"
        /\ \A p \in 1..P \ {a} : Used(p) => page[p].state # "active" /\ page[p].seq < page[a].seq
  BY DEF Aged
<1>2. \A p \in 1..P : Used(p)' <=> Used(p)
  BY DEF Used
<1>3. /\ page'[a].state = "active"
      /\ \A p \in 1..P \ {a} : Used(p)' => page'[p].state # "active" /\ page'[p].seq < page'[a].seq
  BY <1>1, <1>2
<1>4. \A p, q \in 1..P : Used(p)' /\ Used(q)' /\ page'[p].seq = page'[q].seq => p = q
  BY <1>2 DEF Aged
<1> QED
  BY <1>3, <1>4 DEF Aged

\* A head behind all others of its entry decides what is read of it.
LEMMA ReadsNew ==
  ASSUME ShortEntries, MapInv', NEW e \in Entries, NEW a \in 1..P, NEW i \in Slots,
         <<a, i>> \in HeadsOf(e)',
         \A z \in HeadsOf(e)' : \/ z = <<a, i>>
                                \/ z[1] = a /\ z[2] < i
                                \/ page'[z[1]].seq < page'[a].seq
  PROVE  Live(e)' = page'[a].cell[i].value
<1> DEFINE y == <<a, i>>
<1>1. page'[a].seq \in Nat /\ i \in Nat
  BY NatP DEF MapInv, StoreInv, TypeOK, Page, Slots
<1>2. ASSUME NEW z \in HeadsOf(e)' PROVE Later(y, z)'
  <2>1. z[1] \in 1..P /\ z[2] \in Nat
    BY PlacesAre DEF HeadsOf, Slots
  <2>2. page'[z[1]].seq \in Nat
    BY <2>1, NatP DEF MapInv, StoreInv, TypeOK, Page
  <2> QED
    BY <1>1, <2>1, <2>2 DEF Later
<1>3. Top(e, y)'
  BY <1>2 DEF Top
<1>4. Live(e)' = page'[y[1]].cell[y[2]].value
  BY <1>3, LiveIsNext DEF TopIsLive
<1> QED
  BY <1>4

LEMMA AppendStep ==
  ASSUME ShortEntries, MapInv, NEW e \in Entries, NEW v \in Values, DeviceAppend(e, v)
  PROVE  MapInv' /\ Map!Put(e, v)
<1>1. StoreInv'
  BY NextStoreInv DEF MapInv, Next
<1>2. PICK a \in 1..P, i \in Slots :
      /\ ~Head(page[a], i)
      /\ Head(page'[a], i) /\ page'[a].cell[i] = [entry |-> e, value |-> v]
      /\ \A p \in 1..P : /\ Laid(page'[p])
                         /\ page'[p].state = page[p].state /\ page'[p].seq = page[p].seq
      /\ \A p \in 1..P, h \in Slots : Head(page[p], h) =>
           /\ Head(page'[p], h) /\ page'[p].cell[h] = page[p].cell[h]
           /\ \/ p = a /\ h < i
              \/ p # a /\ page[p].seq < page[a].seq
      /\ \A p \in 1..P, h \in Slots :
           Head(page'[p], h) => Head(page[p], h) \/ (p = a /\ h = i)
  BY AppendAt DEF DeviceAppend
<1>3. pending' = Current(e) /\ Current(e) \subseteq HeadsOf(e)
  BY FoundAll DEF DeviceAppend, Current
<1>4. /\ <<a, i>> \in HeadsOf(e)' /\ <<a, i>> \notin HeadsOf(e)
      /\ \A f \in Entries : HeadsOf(f) \subseteq HeadsOf(f)'
      /\ \A f \in Entries : HeadsOf(f)' \subseteq HeadsOf(f) \cup (IF f = e THEN {<<a, i>>} ELSE {})
  <2>1. <<a, i>> \in HeadsOf(e)' /\ <<a, i>> \notin HeadsOf(e)
    BY <1>2 DEF HeadsOf, Places
  <2>2. ASSUME NEW f \in Entries, NEW x \in HeadsOf(f) PROVE x \in HeadsOf(f)'
    BY <1>2, <2>2, HeadsUsed DEF HeadsOf
  <2>3. ASSUME NEW f \in Entries, NEW x \in HeadsOf(f)'
        PROVE  x \in HeadsOf(f) \cup (IF f = e THEN {<<a, i>>} ELSE {})
    <3>1. /\ x \in Places /\ x[1] \in 1..P /\ x[2] \in Slots /\ x = <<x[1], x[2]>>
          /\ Head(page'[x[1]], x[2]) /\ page'[x[1]].cell[x[2]].entry = f
      BY <2>3, PlacesAre DEF HeadsOf
    <3>2. CASE x[1] = a /\ x[2] = i
      BY <1>2, <3>1, <3>2
    <3>3. CASE Head(page[x[1]], x[2])
      BY <1>2, <3>1, <3>3 DEF HeadsOf
    <3> QED
      BY <1>2, <3>1, <3>2, <3>3
  <2> QED
    BY <2>1, <2>2, <2>3
<1>5. \A f \in Entries : \A x \in HeadsOf(f) :
        /\ x[1] \in 1..P /\ x[2] \in Slots
        /\ page'[x[1]].cell[x[2]] = page[x[1]].cell[x[2]] /\ page'[x[1]].seq = page[x[1]].seq
        /\ \/ x[1] = a /\ x[2] < i
           \/ page'[x[1]].seq < page'[a].seq
  BY <1>2, HeadsUsed
<1>6. Outdated'
  <2> SUFFICES ASSUME NEW x \in pending', NEW f \in Entries, x \in HeadsOf(f)'
               PROVE  \E y \in HeadsOf(f)' \ pending' : Later(y, x)'
    BY DEF Outdated
  <2>1. x \in HeadsOf(e) /\ x[1] \in 1..P /\ x[2] \in Slots
    BY <1>3, HeadsUsed
  <2>2. f = e
    BY <1>4, <2>1 DEF HeadsOf
  <2>3. <<a, i>> \in HeadsOf(e)' \ pending'
    BY <1>3, <1>4
  <2>4. Later(<<a, i>>, x)'
    <3>1. page'[a].seq \in Nat /\ page'[x[1]].seq \in Nat /\ i \in Nat /\ x[2] \in Nat
      BY <1>1, <1>2, <2>1, NatP DEF StoreInv, TypeOK, Page, Slots
    <3> QED
      BY <1>5, <2>1, <3>1 DEF Later
  <2> QED
    BY <2>2, <2>3, <2>4
<1>7. MapInv'
  <2>1. Aged'
    BY <1>2, AgedSame DEF MapInv
  <2> QED
    BY <1>1, <1>2, <1>6, <2>1 DEF MapInv
<1>8. Live(e)' = v
  <2>1. Live(e)' = page'[a].cell[i].value
    <3>1. \A z \in HeadsOf(e)' : \/ z = <<a, i>>
                                 \/ z[1] = a /\ z[2] < i
                                 \/ page'[z[1]].seq < page'[a].seq
      BY <1>4, <1>5
    <3>2. <<a, i>> \in HeadsOf(e)'
      BY <1>4
    <3> QED
      BY <1>7, <3>1, <3>2, ReadsNew
  <2> QED
    BY <1>2, <2>1
<1>9. ASSUME NEW f \in Entries, f # e PROVE Live(f)' = Live(f)
  <2>1. HeadsOf(f)' = HeadsOf(f)
    BY <1>4, <1>9
  <2>2. \A y : Top(f, y) => y \in HeadsOf(f)'
    BY <2>1 DEF Top
  <2>3. \A x \in HeadsOf(f)' : /\ page'[x[1]].seq = page[x[1]].seq
                               /\ page'[x[1]].cell[x[2]] = page[x[1]].cell[x[2]]
    BY <1>5, <2>1
  <2> QED
    BY <1>7, <2>1, <2>2, <2>3, StepKeeps
<1>10. Store' = [Store EXCEPT ![e] = v]
  BY <1>8, <1>9 DEF Store
<1> QED
  BY <1>7, <1>10 DEF Map!Put

LEMMA SetStep ==
  ASSUME ShortEntries, MapInv, NEW k \in Keys, NEW v \in Values, NvsSet(k, v)
  PROVE  MapInv' /\ \E e \in Entries : Key(e) = k /\ Map!Put(e, v)
<1>1. StoreInv'
  BY NextStoreInv DEF MapInv, Next
<1>2. PICK x \in Places, e \in Entries :
        /\ x = LastMatch(k) /\ e = page[x[1]].cell[x[2]].entry
        /\ Key(e) = k /\ x \in HeadsOf(e) /\ x[1] \in 1..P /\ x[2] \in Slots
        /\ x = <<x[1], x[2]>> /\ Head(page[x[1]], x[2])
  <2> DEFINE y == LastMatch(k)
  <2>1. y \in Matches(k)
    BY LastMatchIn DEF NvsSet
  <2> HIDE DEF y
  <2>2. PICK f \in Entries : Key(f) = k /\ y \in Found(f)
    BY <2>1 DEF Matches
  <2>3. y \in HeadsOf(f)
    BY <2>2, FoundAll
  <2>4. /\ y[1] \in 1..P /\ y[2] \in Slots /\ y = <<y[1], y[2]>> /\ Head(page[y[1]], y[2])
        /\ page[y[1]].cell[y[2]].entry = f
    BY <2>3, HeadsUsed
  <2>5. y \in Places
    BY <2>3 DEF HeadsOf
  <2> QED
    BY <2>2, <2>3, <2>4, <2>5 DEF y
<1> DEFINE new == [page EXCEPT ![ActivePage] =
                     Written(@, FirstFit(ActivePage, Span(v)), e, v)]
<1>3. page' = [new EXCEPT ![x[1]] = Erased(@, x[2])] /\ pending' = {}
  BY <1>2 DEF NvsSet
<1>4. PICK a \in 1..P, i \in Slots :
      /\ ~Head(page[a], i)
      /\ Head(new[a], i) /\ new[a].cell[i] = [entry |-> e, value |-> v]
      /\ \A p \in 1..P : /\ Laid(new[p])
                         /\ new[p].state = page[p].state /\ new[p].seq = page[p].seq
      /\ \A p \in 1..P, h \in Slots : Head(page[p], h) =>
           /\ Head(new[p], h) /\ new[p].cell[h] = page[p].cell[h]
           /\ \/ p = a /\ h < i
              \/ p # a /\ page[p].seq < page[a].seq
      /\ \A p \in 1..P, h \in Slots :
           Head(new[p], h) => Head(page[p], h) \/ (p = a /\ h = i)
  <2>1. Active # {} /\ Fits(ActivePage, Span(v))
    BY DEF NvsSet
  <2> QED
    BY <2>1, AppendAt
<1>5. /\ \A p \in 1..P : Sound(new[p])
      /\ new \in [1..P -> Page]
  BY <1>2, AppendSound DEF NvsSet, MapInv
<1> HIDE DEF new
\* The erasure.
<1>6. /\ \A p \in 1..P : /\ page'[p].cell = new[p].cell
                         /\ page'[p].state = new[p].state /\ page'[p].seq = new[p].seq
                         /\ \A j \in Slots : page'[p].bits[j] = "empty" <=> new[p].bits[j] = "empty"
      /\ \A p \in 1..P, h \in Slots :
           Head(page'[p], h) <=> Head(new[p], h) /\ ~(p = x[1] /\ h = x[2])
  <2> DEFINE pg == new[x[1]]
             qg == Erased(pg, x[2])
  <2>1. pg \in Page /\ Sound(pg) /\ Head(pg, x[2])
    BY <1>2, <1>4, <1>5
  <2>2. page'[x[1]] = qg /\ \A p \in 1..P \ {x[1]} : page'[p] = new[p]
    BY <1>2, <1>3, <1>5
  <2> HIDE DEF pg
  <2>3. x[2] + Step(pg.cell[x[2]]) - 1 = Last(pg, x[2])
    <3>1. Span(pg.cell[x[2]].value) <= MaxSpan
      BY <1>2, <2>1, HeadType DEF ShortEntries
    <3>2. Step(pg.cell[x[2]]) = 1 + DataSlots[pg.cell[x[2]].value]
      BY <2>1, <3>1 DEF Head, Step, Span
    <3> QED
      BY <1>2, <2>1, <3>2, HeadType DEF Last
  <2>4. /\ qg \in Page /\ qg.cell = pg.cell /\ qg.state = pg.state /\ qg.seq = pg.seq
        /\ \A j \in Slots : qg.bits[j] = IF j \in x[2]..Last(pg, x[2]) THEN "erased"
                                         ELSE pg.bits[j]
    BY <2>1, <2>3, ErasedType DEF Erased, Page
  <2> HIDE DEF qg
  <2>5. \A h \in Slots : Head(qg, h) <=> Head(pg, h) /\ h # x[2]
    <3> DEFINE H == {x[2]}
    <3>1. \A j \in Slots : qg.bits[j] = IF \E h \in H : j \in h..Last(pg, h)
                                        THEN "erased" ELSE pg.bits[j]
      BY <2>4
    <3>2. H \subseteq {h \in Slots : Head(pg, h)} /\ \A h \in Slots : h \in H <=> h = x[2]
      BY <1>2, <2>1
    <3> HIDE DEF H
    <3>3. \A h \in Slots : Head(qg, h) <=> Head(pg, h) /\ h \notin H
      BY <2>1, <2>4, <3>1, <3>2, ErasedHeads
    <3> QED
      BY <3>2, <3>3
  <2>6. \A j \in Slots : qg.bits[j] = "empty" <=> pg.bits[j] = "empty"
    <3> SUFFICES ASSUME NEW j \in Slots, j \in x[2]..Last(pg, x[2])
                 PROVE  pg.bits[j] # "empty"
      BY <2>4
    <3>1. CASE j = x[2]
      BY <2>1, <3>1 DEF Head
    <3>2. CASE j # x[2]
      <4>1. x[2] \in Nat /\ DataSlots[pg.cell[x[2]].value] \in Nat /\ j \in Nat
        BY <1>2, <2>1, HeadType DEF Slots
      <4>2. j - x[2] \in 1..DataSlots[pg.cell[x[2]].value] /\ x[2] + (j - x[2]) = j
        BY <3>2, <4>1 DEF Last
      <4>3. Whole(pg)
        BY <2>1 DEF Sound
      <4>4. pg.bits[x[2] + (j - x[2])] = "written"
        BY <1>2, <2>1, <4>2, <4>3 DEF Whole
      <4> QED
        BY <4>2, <4>4
    <3> QED
      BY <3>1, <3>2
  <2> QED
    BY <2>2, <2>4, <2>5, <2>6 DEF pg
<1>7. /\ <<a, i>> \in HeadsOf(e)'
      /\ \A f \in Entries : f # e => HeadsOf(f)' = HeadsOf(f)
      /\ HeadsOf(e)' \subseteq HeadsOf(e) \cup {<<a, i>>}
  <2>1. <<a, i>> \in HeadsOf(e)'
    <3>1. ~(a = x[1] /\ i = x[2])
      BY <1>2, <1>4
    <3>2. Head(page'[a], i) /\ page'[a].cell[i].entry = e
      BY <1>4, <1>6, <3>1
    <3> QED
      BY <3>2 DEF HeadsOf, Places
  <2>2. ASSUME NEW f \in Entries, f # e, NEW y \in HeadsOf(f) PROVE y \in HeadsOf(f)'
    <3>1. /\ y \in Places /\ y[1] \in 1..P /\ y[2] \in Slots /\ y = <<y[1], y[2]>>
          /\ Head(page[y[1]], y[2]) /\ page[y[1]].cell[y[2]].entry = f
      BY <2>2, PlacesAre DEF HeadsOf
    <3>2. Head(new[y[1]], y[2]) /\ new[y[1]].cell[y[2]] = page[y[1]].cell[y[2]]
      BY <1>4, <3>1
    <3>3. ~(y[1] = x[1] /\ y[2] = x[2])
      BY <1>2, <2>2, <3>1
    <3>4. Head(page'[y[1]], y[2]) /\ page'[y[1]].cell[y[2]].entry = f
      BY <1>6, <3>1, <3>2, <3>3
    <3> QED
      BY <3>1, <3>4 DEF HeadsOf
  <2>3. ASSUME NEW f \in Entries, NEW y \in HeadsOf(f)'
        PROVE  y \in HeadsOf(f) \cup (IF f = e THEN {<<a, i>>} ELSE {})
    <3>1. /\ y \in Places /\ y[1] \in 1..P /\ y[2] \in Slots /\ y = <<y[1], y[2]>>
          /\ Head(page'[y[1]], y[2]) /\ page'[y[1]].cell[y[2]].entry = f
      BY <2>3, PlacesAre DEF HeadsOf
    <3>2. Head(new[y[1]], y[2]) /\ new[y[1]].cell[y[2]].entry = f
      BY <1>6, <3>1
    <3>3. CASE y[1] = a /\ y[2] = i
      BY <1>4, <3>1, <3>2, <3>3
    <3>4. CASE Head(page[y[1]], y[2])
      BY <1>4, <3>1, <3>2, <3>4 DEF HeadsOf
    <3> QED
      BY <1>4, <3>1, <3>2, <3>3, <3>4
  <2>4. ASSUME NEW f \in Entries, f # e PROVE HeadsOf(f)' = HeadsOf(f)
    BY <2>2, <2>3, <2>4
  <2>5. HeadsOf(e)' \subseteq HeadsOf(e) \cup {<<a, i>>}
    BY <1>2, <2>3
  <2> QED
    BY <2>1, <2>4, <2>5
<1>8. \A f \in Entries : \A y \in HeadsOf(f) :
        /\ page'[y[1]].cell[y[2]] = page[y[1]].cell[y[2]] /\ page'[y[1]].seq = page[y[1]].seq
        /\ \/ y[1] = a /\ y[2] < i
           \/ page'[y[1]].seq < page'[a].seq
  BY <1>4, <1>6, HeadsUsed
<1>9. MapInv'
  <2>1. Aged'
    BY <1>4, <1>6, AgedSame DEF MapInv
  <2>2. Outdated'
    BY <1>3 DEF Outdated
  <2>3. \A p \in 1..P : Laid(page'[p])
    BY <1>4, <1>6, LaidSame
  <2> QED
    BY <1>1, <2>1, <2>2, <2>3 DEF MapInv
<1>10. Live(e)' = v
  <2>1. Live(e)' = page'[a].cell[i].value
    <3>1. \A z \in HeadsOf(e)' : \/ z = <<a, i>>
                                 \/ z[1] = a /\ z[2] < i
                                 \/ page'[z[1]].seq < page'[a].seq
      BY <1>2, <1>7, <1>8
    <3>2. <<a, i>> \in HeadsOf(e)'
      BY <1>7
    <3> QED
      BY <1>9, <3>1, <3>2, ReadsNew
  <2> QED
    BY <1>4, <1>6, <2>1
<1>11. ASSUME NEW f \in Entries, f # e PROVE Live(f)' = Live(f)
  <2>1. HeadsOf(f)' = HeadsOf(f)
    BY <1>7, <1>11
  <2>2. \A y : Top(f, y) => y \in HeadsOf(f)'
    BY <2>1 DEF Top
  <2>3. \A y \in HeadsOf(f)' : /\ page'[y[1]].seq = page[y[1]].seq
                               /\ page'[y[1]].cell[y[2]] = page[y[1]].cell[y[2]]
    BY <1>8, <2>1
  <2> QED
    BY <1>9, <2>1, <2>2, <2>3, StepKeeps
<1>12. Store' = [Store EXCEPT ![e] = v]
  BY <1>2, <1>10, <1>11 DEF Store
<1> QED
  BY <1>2, <1>9, <1>12 DEF Map!Put

\* A step that writes no entry.
LEMMA StoreKept ==
  ASSUME ShortEntries, MapInv, MapInv',
         \A e \in Entries :
           /\ HeadsOf(e)' \subseteq HeadsOf(e)
           /\ \A y : Top(e, y) => y \in HeadsOf(e)'
           /\ \A x \in HeadsOf(e)' : /\ page'[x[1]].seq = page[x[1]].seq
                                     /\ page'[x[1]].cell[x[2]] = page[x[1]].cell[x[2]]
  PROVE  Store' = Store
<1>1. \A e \in Entries : Live(e)' = Live(e)
  BY StepKeeps
<1> QED
  BY <1>1 DEF Store

LEMMA EraseStep ==
  ASSUME ShortEntries, MapInv, DeviceErase
  PROVE  MapInv' /\ Store' = Store
<1>1. StoreInv'
  BY NextStoreInv DEF MapInv, Next
<1>2. pending' = {}
  BY DEF DeviceErase
<1>3. page \in [1..P -> Page]
  BY DEF MapInv, StoreInv, TypeOK
<1>4. \A x \in pending : /\ x \in Places /\ x[1] \in 1..P /\ x[2] \in Slots /\ x = <<x[1], x[2]>>
                         /\ Head(page[x[1]], x[2])
  BY PlacesAre DEF MapInv, StoreInv, PendingHeads
<1>5. ASSUME NEW p \in 1..P
      PROVE  /\ page'[p].cell = page[p].cell
             /\ page'[p].state = page[p].state /\ page'[p].seq = page[p].seq
             /\ \A j \in Slots : page'[p].bits[j] = "empty" <=> page[p].bits[j] = "empty"
             /\ \A h \in Slots : Head(page'[p], h) <=> Head(page[p], h) /\ <<p, h>> \notin pending
  <2> DEFINE H == {h \in Slots : <<p, h>> \in pending}
  <2>1. H \subseteq {h \in Slots : Head(page[p], h)} /\ \A h \in Slots : h \in H <=> <<p, h>> \in pending
    BY <1>4
  <2>2. /\ page'[p].cell = page[p].cell
        /\ page'[p].state = page[p].state /\ page'[p].seq = page[p].seq
        /\ \A j \in Slots : page'[p].bits[j] =
             IF \E y \in pending : y[1] = p /\ j \in y[2]..(y[2] + DataSlots[page[p].cell[y[2]].value])
             THEN "erased" ELSE page[p].bits[j]
    BY <1>3 DEF DeviceErase, Page
  <2>3. ASSUME NEW j \in Slots
        PROVE  (\E y \in pending : y[1] = p /\ j \in y[2]..(y[2] + DataSlots[page[p].cell[y[2]].value]))
                 <=> (\E h \in H : j \in h..Last(page[p], h))
    <3>1. ASSUME NEW y \in pending, y[1] = p,
                 j \in y[2]..(y[2] + DataSlots[page[p].cell[y[2]].value])
          PROVE  \E h \in H : j \in h..Last(page[p], h)
      <4>1. y[2] \in H
        BY <1>4, <3>1
      <4> QED
        BY <3>1, <4>1 DEF Last
    <3>2. ASSUME NEW h \in H, j \in h..Last(page[p], h)
          PROVE  \E y \in pending : y[1] = p /\ j \in y[2]..(y[2] + DataSlots[page[p].cell[y[2]].value])
      BY <3>2 DEF Last
    <3> QED
      BY <3>1, <3>2
  <2> HIDE DEF H
  <2>4. \A j \in Slots : page'[p].bits[j] = IF \E h \in H : j \in h..Last(page[p], h)
                                            THEN "erased" ELSE page[p].bits[j]
    BY <2>2, <2>3
  <2>5. Sound(page[p])
    BY DEF MapInv, StoreInv
  <2>6. \A h \in Slots : Head(page'[p], h) <=> Head(page[p], h) /\ h \notin H
    BY <2>1, <2>2, <2>4, <2>5, ErasedHeads
  <2>7. ASSUME NEW j \in Slots, NEW h \in H, j \in h..Last(page[p], h)
        PROVE  page[p].bits[j] # "empty"
    <3>1. h \in Slots /\ Head(page[p], h)
      BY <2>1
    <3>2. CASE j = h
      BY <3>1, <3>2 DEF Head
    <3>3. CASE j # h
      <4>1. h \in Nat /\ DataSlots[page[p].cell[h].value] \in Nat /\ j \in Nat
        BY <3>1, HeadType DEF Slots
      <4>2. j - h \in 1..DataSlots[page[p].cell[h].value] /\ h + (j - h) = j
        BY <2>7, <3>3, <4>1 DEF Last
      <4>3. Whole(page[p])
        BY <2>5 DEF Sound
      <4>4. page[p].bits[h + (j - h)] = "written"
        BY <3>1, <4>2, <4>3 DEF Whole
      <4> QED
        BY <4>2, <4>4
    <3> QED
      BY <3>2, <3>3
  <2>8. \A j \in Slots : page'[p].bits[j] = "empty" <=> page[p].bits[j] = "empty"
    BY <2>4, <2>7
  <2> QED
    BY <2>1, <2>2, <2>6, <2>8
<1>6. MapInv'
  <2>1. Aged'
    BY <1>5, AgedSame DEF MapInv
  <2>2. Outdated'
    BY <1>2 DEF Outdated
  <2>3. ASSUME NEW p \in 1..P PROVE Laid(page'[p])
    <3>1. Laid(page[p])
      BY DEF MapInv
    <3> QED
      BY <1>5, <3>1, LaidSame
  <2> QED
    BY <1>1, <2>1, <2>2, <2>3 DEF MapInv
<1>7. ASSUME NEW e \in Entries
      PROVE  \A x : x \in HeadsOf(e)' <=> x \in HeadsOf(e) /\ x \notin pending
  <2> SUFFICES ASSUME NEW x \in Places
               PROVE  x \in HeadsOf(e)' <=> x \in HeadsOf(e) /\ x \notin pending
    BY DEF HeadsOf
  <2>1. x[1] \in 1..P /\ x[2] \in Slots /\ x = <<x[1], x[2]>>
    BY PlacesAre
  <2>2. /\ Head(page'[x[1]], x[2]) <=> Head(page[x[1]], x[2]) /\ <<x[1], x[2]>> \notin pending
        /\ page'[x[1]].cell = page[x[1]].cell
    BY <1>5, <2>1
  <2> QED
    BY <2>1, <2>2 DEF HeadsOf
<1>8. ASSUME NEW e \in Entries, NEW y, Top(e, y) PROVE y \in HeadsOf(e)'
  <2>1. y \in HeadsOf(e) /\ \A z \in HeadsOf(e) : Later(y, z)
    BY <1>8 DEF Top
  <2>2. ASSUME y \in pending PROVE FALSE
    <3>1. PICK z \in HeadsOf(e) \ pending : Later(z, y)
      BY <2>1, <2>2 DEF MapInv, Outdated
    <3>2. y = z
      BY <2>1, <3>1, TopIsOne
    <3> QED
      BY <2>2, <3>1, <3>2
  <2> QED
    BY <1>7, <2>1, <2>2
<1>9. ASSUME NEW e \in Entries, NEW x \in HeadsOf(e)'
      PROVE  page'[x[1]].seq = page[x[1]].seq /\ page'[x[1]].cell[x[2]] = page[x[1]].cell[x[2]]
  <2>1. x[1] \in 1..P
    BY PlacesAre DEF HeadsOf
  <2> QED
    BY <1>5, <2>1
<1>10. Store' = Store
  BY <1>6, <1>7, <1>8, <1>9, StoreKept
<1> QED
  BY <1>6, <1>10

LEMMA LossStep ==
  ASSUME ShortEntries, MapInv, PowerLoss
  PROVE  MapInv' /\ Store' = Store
<1>1. StoreInv' /\ page' = page /\ pending' = {}
  BY NextStoreInv DEF MapInv, Next, PowerLoss
<1>2. Aged'
  BY <1>1, AgedSame DEF MapInv
<1>3. MapInv'
  BY <1>1, <1>2 DEF MapInv, Outdated
<1>4. \A e \in Entries : HeadsOf(e)' = HeadsOf(e)
  BY <1>1 DEF HeadsOf
<1>5. Store' = Store
  BY <1>1, <1>3, <1>4, StoreKept DEF Top
<1> QED
  BY <1>3, <1>5

LEMMA NextPageStep ==
  ASSUME ShortEntries, MapInv, DeviceNextPage
  PROVE  MapInv' /\ Store' = Store
<1>1. StoreInv' /\ pending' = {}
  BY NextStoreInv DEF MapInv, Next, DeviceNextPage
<1>2. page \in [1..P -> Page] /\ Newest \in Nat /\ \A p \in 1..P : page[p].seq \in Nat /\ page[p].seq <= Newest
  <2>1. page \in [1..P -> Page]
    BY DEF MapInv, StoreInv, TypeOK
  <2>2. Newest \in Nat
    BY NewestExists DEF MapInv, StoreInv
  <2>3. \A p \in 1..P : page[p].seq \in Nat /\ page[p].seq <= Newest
    BY NewestIsAll, PagesAre DEF MapInv, StoreInv
  <2> QED
    BY <2>1, <2>2, <2>3
<1>3. PICK p \in Active, q \in 1..P :
        /\ page[q].state = "uninit"
        /\ page' = [page EXCEPT ![p].state = "full", ![q].state = "active", ![q].seq = Newest + 1]
  BY DEF DeviceNextPage
<1>4. p \in 1..P /\ page[p].state = "active" /\ p # q
  BY <1>3 DEF Active
<1> DEFINE n == Newest
<1>5. /\ \A r \in 1..P : page'[r].bits = page[r].bits /\ page'[r].cell = page[r].cell
      /\ page'[p].state = "full" /\ page'[q].state = "active" /\ page'[q].seq = n + 1
      /\ \A r \in 1..P \ {p, q} : page'[r].state = page[r].state
      /\ \A r \in 1..P \ {q} : page'[r].seq = page[r].seq
  BY <1>2, <1>3, <1>4 DEF Page
<1>6. n \in Nat /\ \A r \in 1..P : page[r].seq \in Nat /\ page[r].seq <= n
  BY <1>2
<1> HIDE DEF n
<1>7. \A r \in 1..P \ {p} : Used(r) => page[r].state # "active"
  <2>1. PICK b \in 1..P :
          \A r \in 1..P \ {b} : Used(r) => page[r].state # "active"
    BY DEF MapInv, Aged
  <2> QED
    BY <1>4, <2>1 DEF Used
<1>8. Aged'
  <2>1. \A r \in 1..P \ {q} : (Used(r)' <=> Used(r))
    BY <1>4, <1>5 DEF Used
  <2>2. \A r \in 1..P \ {q} : Used(r)' => page'[r].state # "active" /\ page'[r].seq < page'[q].seq
    BY <1>4, <1>5, <1>6, <1>7, <2>1
  <2>3. \A r, s \in 1..P : Used(r)' /\ Used(s)' /\ page'[r].seq = page'[s].seq => r = s
    <3> SUFFICES ASSUME NEW r \in 1..P, NEW s \in 1..P, Used(r)', Used(s)',
                        page'[r].seq = page'[s].seq
                 PROVE  r = s
      OBVIOUS
    <3>1. \A t \in 1..P \ {q} : page'[t].seq # n + 1
      BY <1>5, <1>6
    <3>2. CASE r = q \/ s = q
      BY <1>5, <3>1, <3>2
    <3>3. CASE r # q /\ s # q
      <4>1. Used(r) /\ Used(s) /\ page[r].seq = page[s].seq
        BY <1>5, <2>1, <3>3
      <4> QED
        BY <4>1 DEF MapInv, Aged
    <3> QED
      BY <3>2, <3>3
  <2> QED
    BY <1>5, <2>2, <2>3 DEF Aged
<1>9. MapInv'
  <2>1. Outdated'
    BY <1>1 DEF Outdated
  <2>2. ASSUME NEW r \in 1..P PROVE Laid(page'[r])
    <3>1. Laid(page[r]) /\ (page'[r].state = "uninit" => page[r].state = "uninit")
      BY <1>5 DEF MapInv
    <3> QED
      BY <1>5, <3>1, LaidSame
  <2> QED
    BY <1>1, <1>8, <2>1, <2>2 DEF MapInv
<1>10. \A r \in 1..P, h \in Slots : Head(page'[r], h) <=> Head(page[r], h)
  BY <1>5 DEF Head
<1>11. ASSUME NEW e \in Entries PROVE HeadsOf(e)' = HeadsOf(e)
  <2> SUFFICES ASSUME NEW x \in Places PROVE x \in HeadsOf(e)' <=> x \in HeadsOf(e)
    BY DEF HeadsOf
  <2>1. x[1] \in 1..P /\ x[2] \in Slots
    BY PlacesAre
  <2> QED
    BY <1>5, <1>10, <2>1 DEF HeadsOf
<1>12. ASSUME NEW e \in Entries, NEW x \in HeadsOf(e)
       PROVE  page'[x[1]].seq = page[x[1]].seq /\ page'[x[1]].cell[x[2]] = page[x[1]].cell[x[2]]
  <2>1. x[1] \in 1..P /\ x[1] # q
    BY <1>3, HeadsUsed DEF Used
  <2> QED
    BY <1>5, <2>1
<1>13. Store' = Store
  BY <1>9, <1>11, <1>12, StoreKept DEF Top
<1> QED
  BY <1>9, <1>13

LEMMA RecycleStep ==
  ASSUME ShortEntries, MapInv, DeviceRecycle
  PROVE  MapInv' /\ Store' = Store
<1>1. StoreInv' /\ pending' = {}
  BY NextStoreInv DEF MapInv, Next, DeviceRecycle
<1>2. PICK q \in 1..P : /\ page[q].state = "full"
                        /\ \A i \in Slots : page[q].bits[i] # "written"
                        /\ page' = [page EXCEPT ![q] = Fresh]
  BY DEF DeviceRecycle
<1>3. page \in [1..P -> Page]
  BY DEF MapInv, StoreInv, TypeOK
<1>4. page'[q] = Fresh /\ \A p \in 1..P \ {q} : page'[p] = page[p]
  BY <1>2, <1>3
<1>5. Fresh.state = "uninit" /\ (\A i \in Slots : Fresh.bits[i] = "empty" /\ Fresh.cell[i] = Blank)
  BY DEF Fresh
<1>6. Laid(Fresh) /\ \A h \in Slots : ~Head(Fresh, h)
  BY <1>5, NvsAssumption DEF Laid, Head, Heads
<1>7. \A p \in 1..P, h \in Slots : Head(page'[p], h) <=> Head(page[p], h)
  <2>1. \A h \in Slots : ~Head(page[q], h)
    BY <1>2 DEF Head
  <2> QED
    BY <1>4, <1>6, <2>1
<1>8. Aged'
  <2>1. PICK a \in 1..P :
          /\ page[a].state = "active"
          /\ \A p \in 1..P \ {a} : Used(p) => page[p].state # "active" /\ page[p].seq < page[a].seq
    BY DEF MapInv, Aged
  <2>2. a # q
    BY <1>2, <2>1
  <2>3. ~Used(q)' /\ \A p \in 1..P \ {q} : (Used(p)' <=> Used(p))
    BY <1>4, <1>5 DEF Used
  <2>4. /\ page'[a].state = "active"
        /\ \A p \in 1..P \ {a} : Used(p)' => page'[p].state # "active" /\ page'[p].seq < page'[a].seq
    BY <1>4, <2>1, <2>2, <2>3
  <2>5. \A p, r \in 1..P : Used(p) /\ Used(r) /\ page[p].seq = page[r].seq => p = r
    BY DEF MapInv, Aged
  <2>6. \A p, r \in 1..P : Used(p)' /\ Used(r)' /\ page'[p].seq = page'[r].seq => p = r
    <3> SUFFICES ASSUME NEW p \in 1..P, NEW r \in 1..P, Used(p)', Used(r)',
                        page'[p].seq = page'[r].seq
                 PROVE  p = r
      OBVIOUS
    <3>1. p # q /\ r # q
      BY <2>3
    <3> QED
      BY <1>4, <2>3, <2>5, <3>1
  <2> QED
    BY <2>4, <2>6 DEF Aged
<1>9. MapInv'
  <2>1. Outdated'
    BY <1>1 DEF Outdated
  <2>2. \A p \in 1..P : Laid(page'[p])
    BY <1>4, <1>6 DEF MapInv
  <2> QED
    BY <1>1, <1>8, <2>1, <2>2 DEF MapInv
<1>10. ASSUME NEW e \in Entries, NEW x \in Places
       PROVE  /\ x \in HeadsOf(e)' <=> x \in HeadsOf(e)
              /\ x \in HeadsOf(e) => page'[x[1]] = page[x[1]]
  <2>1. x[1] \in 1..P /\ x[2] \in Slots
    BY PlacesAre
  <2>2. CASE x[1] = q
    BY <1>2, <1>7, <2>1, <2>2 DEF HeadsOf, Head
  <2>3. CASE x[1] # q
    BY <1>4, <2>1, <2>3 DEF HeadsOf
  <2> QED
    BY <2>2, <2>3
<1>11. ASSUME NEW e \in Entries
       PROVE  /\ HeadsOf(e)' = HeadsOf(e)
              /\ \A x \in HeadsOf(e) : page'[x[1]] = page[x[1]]
  <2>1. \A x \in HeadsOf(e) : x \in Places
    BY DEF HeadsOf
  <2>2. \A x \in HeadsOf(e)' : x \in Places
    BY DEF HeadsOf
  <2> QED
    BY <1>10, <2>1, <2>2
<1>12. Store' = Store
  BY <1>9, <1>11, StoreKept DEF Top
<1> QED
  BY <1>9, <1>12
-----------------------------------------------------------------------------
LEMMA NextMapInv ==
  ASSUME ShortEntries
  PROVE  MapInv /\ [Next]_vars => MapInv'
<1> SUFFICES ASSUME MapInv, [Next]_vars PROVE MapInv'
  OBVIOUS
<1>1. CASE UNCHANGED vars
  <2>1. StoreInv' /\ page' = page /\ pending' = pending
    BY <1>1, NextStoreInv DEF MapInv, vars
  <2>2. Aged'
    BY <2>1, AgedSame DEF MapInv
  <2>3. Outdated'
    BY <2>1 DEF MapInv, Outdated, HeadsOf, Later
  <2> QED
    BY <2>1, <2>2, <2>3 DEF MapInv
<1> QED
  BY <1>1, SetStep, AppendStep, EraseStep, LossStep, NextPageStep, RecycleStep DEF Next

LEMMA InitMapInv == Init => MapInv
<1> SUFFICES ASSUME Init PROVE MapInv
  OBVIOUS
<1>1. 1 \in 1..P
  BY NvsAssumption
<1>2. /\ page[1].state = "active"
      /\ \A p \in 1..P \ {1} : page[p].state = "uninit"
      /\ \A p \in 1..P, i \in Slots : page[p].bits[i] = "empty" /\ page[p].cell[i] = Blank
  BY <1>1 DEF Init, Fresh
<1>3. Aged
  <2>1. \A p \in 1..P : Used(p) => p = 1
    BY <1>2 DEF Used
  <2> QED
    BY <1>1, <1>2, <2>1 DEF Aged
<1>4. \A p \in 1..P : Laid(page[p])
  BY <1>2, NvsAssumption DEF Laid, Heads
<1>5. Outdated
  BY DEF Init, Outdated
<1> QED
  BY <1>3, <1>4, <1>5, InitStoreInv DEF MapInv

\* What a step does to the map.
LEMMA NextPuts ==
  ASSUME ShortEntries
  PROVE  MapInv /\ [Next]_vars => [Map!Next]_Store
<1> SUFFICES ASSUME MapInv, [Next]_vars PROVE [Map!Next]_Store
  OBVIOUS
<1>1. ASSUME NEW k \in Keys, NEW v \in Values, NvsSet(k, v) PROVE Map!Next
  <2>1. \E e \in Entries : Key(e) = k /\ Map!Put(e, v)
    BY <1>1, SetStep
  <2> QED
    BY <2>1 DEF Map!Next
<1>2. ASSUME NEW e \in Entries, NEW v \in Values, DeviceAppend(e, v) PROVE Map!Next
  <2>1. Map!Put(e, v)
    BY <1>2, AppendStep
  <2> QED
    BY <2>1 DEF Map!Next
<1>3. CASE DeviceErase \/ PowerLoss \/ DeviceNextPage \/ DeviceRecycle
  BY <1>3, EraseStep, LossStep, NextPageStep, RecycleStep
<1>4. CASE UNCHANGED vars
  <2>1. page' = page
    BY <1>4 DEF vars
  <2> QED
    BY <2>1 DEF Store, Live, Found, IsLive, Walk, Later, ReadAt
<1> QED
  BY <1>1, <1>2, <1>3, <1>4 DEF Next

LEMMA InitIsEmpty ==
  ASSUME ShortEntries
  PROVE  Init => Map!Init
<1> SUFFICES ASSUME Init PROVE Store = [e \in Entries |-> NoValue]
  BY DEF Map!Init
<1>1. MapInv
  BY InitMapInv
<1>2. ASSUME NEW e \in Entries PROVE Live(e) = NoValue
  <2>1. HeadsOf(e) = {}
    <3> SUFFICES ASSUME NEW x \in HeadsOf(e) PROVE FALSE
      OBVIOUS
    <3>1. x[1] \in 1..P /\ x[2] \in Slots /\ Head(page[x[1]], x[2])
      BY <1>1, HeadsUsed
    <3> QED
      BY <3>1 DEF Init, Fresh, Head
  <2> QED
    BY <1>1, <2>1, LiveIs DEF TopIsLive
<1> QED
  BY <1>2 DEF Store
-----------------------------------------------------------------------------
\* The inductive invariant: pages are filled from the front and used in turn,
\* and what is about to be erased has been written anew.
THEOREM MapInvariance ==
  ASSUME ShortEntries
  PROVE  Spec => []MapInv
  BY InitMapInv, NextMapInv, PTL DEF Spec

\* For every size of the partition, what nvs_parse.py finds in it is a map: a
\* write of the device or of nvs_set.py gives one entry a value, and erasures,
\* losses of power, new pages and blanked ones change nothing.
THEOREM StoreImplementsMap ==
  ASSUME ShortEntries
  PROVE  Spec => ImplementsMap
<1>1. Init => Map!Init
  BY InitIsEmpty
<1>2. MapInv /\ [Next]_vars => [Map!Next]_Store
  BY NextPuts
<1> QED
  BY <1>1, <1>2, MapInvariance, PTL DEF Spec, ImplementsMap, Map!Spec

\* "Latest live entry wins": no erasure, loss of power, new page or blanked page
\* brings an older value back.
THEOREM OldStaysGoneForGood ==
  ASSUME ShortEntries
  PROVE  Spec => OldStaysGone
<1>1. MapInv /\ [Next]_vars =>
        [DeviceErase \/ PowerLoss \/ DeviceNextPage \/ DeviceRecycle => Store' = Store]_vars
  BY EraseStep, LossStep, NextPageStep, RecycleStep
<1> QED
  BY <1>1, MapInvariance, PTL DEF Spec, OldStaysGone

\* After nvs_set.py KEY VALUE the value is what nvs_parse.py finds under the key,
\* and it finds every other entry as before.
THEOREM SetIsReadBack ==
  ASSUME ShortEntries
  PROVE  Spec => SetReadsBack
<1>1. MapInv /\ [Next]_vars =>
        [\A k \in Keys, v \in Values :
           NvsSet(k, v) => \E e \in Entries : Key(e) = k /\ Map!Put(e, v)]_vars
  BY SetStep
<1> QED
  BY <1>1, MapInvariance, PTL DEF Spec, SetReadsBack
=============================================================================
