------------------------------- MODULE NvsStore -------------------------------
(***************************************************************************)
(* The ESP-IDF NVS partition as the tools see it: tools/nvs_parse.py reads  *)
(* a dump of it, tools/nvs_set.py gives a string key another value in one.  *)
(* A page has a state, a sequence number and S slots, each with two bits    *)
(* of state.  An entry is a head, which names its key and its span, and     *)
(* the slots with its data behind it.  Nothing is overwritten: a new value  *)
(* is appended to the active page and the old entry marked erased.          *)
(*                                                                          *)
(* The dumps come from the device, whose firmware is outside src/: its      *)
(* writes are modelled as nvs_set.py describes them ("the same way the      *)
(* firmware does"), with the power going between the write of the new entry *)
(* and the erasure of the old one, and with pages filling up and recycled.  *)
(*                                                                          *)
(* Abstractions.  CRCs, and the fields nvs_set.py copies, are left out.  A  *)
(* slot of data is never taken for a head: the walkers of both tools step   *)
(* over it one slot at a time when they land on it.                         *)
(***************************************************************************)
EXTENDS Naturals, FiniteSets

CONSTANTS
  P,            \* pages of the partition
  S,            \* slots of a page: 126
  MaxSpan,      \* the largest span the walkers believe: 32
  Entries,      \* pairs of a namespace and a key
  Strings,      \* keys of type STR; the others are numbers and blobs
  Values,
  DataSlots,    \* slots the data of each value takes
  NoValue,      \* no live entry
  Garbled,      \* what a head with damaged data reads as
  Blank,        \* a slot of 0xFF bytes
  MaxSeq        \* page sequence numbers (bound)

Key(e) == e[2]
Keys == {Key(e) : e \in Entries}

ASSUME NvsAssumption ==
  /\ P \in Nat \ {0} /\ S \in Nat \ {0} /\ MaxSpan \in Nat \ {0} /\ MaxSeq \in Nat
  /\ Strings \subseteq Keys
  /\ DataSlots \in [Values -> Nat \ {0}]
  /\ NoValue \notin Values /\ Garbled \notin Values /\ Garbled # NoValue
  /\ Blank \notin [entry : Entries, value : Values]

VARIABLES
  page,         \* the partition
  pending       \* the old entry the device is about to erase: a set of places

vars == <<page, pending>>

Slots == 1..S
Heads == [entry : Entries, value : Values]
Data == [value : Values, part : Nat]
Page == [state : {"uninit", "active", "full"}, seq : 0..MaxSeq,
         bits : [Slots -> {"empty", "written", "erased"}],
         cell : [Slots -> Heads \cup Data \cup {Blank}]]
Places == (1..P) \X Slots

TypeOK ==
  /\ page \in [1..P -> Page]
  /\ pending \subseteq Places

Fresh == [state |-> "uninit", seq |-> 0,
          bits |-> [i \in Slots |-> "empty"], cell |-> [i \in Slots |-> Blank]]

Init ==
  /\ page = [p \in 1..P |-> IF p = 1 THEN [Fresh EXCEPT !.state = "active"] ELSE Fresh]
  /\ pending = {}

Span(v) == 1 + DataSlots[v]

(***************************************************************************)
(* Reading: both tools walk the slots of a page from head to head.          *)
(***************************************************************************)

\* A span the walkers do not believe moves them one slot on.
Step(c) == IF c \in Heads /\ Span(c.value) <= MaxSpan THEN Span(c.value) ELSE 1

\* The slots a walk over page p comes by.
Walk(p) ==
  LET cell == page[p].cell
      from[i \in Slots] ==
        {i} \cup (IF i + Step(cell[i]) \in Slots THEN from[i + Step(cell[i])] ELSE {})
  IN  from[1]

\* Places of the live heads of entry e that a walk over the pages finds.
IsLive(pg, i, e) ==
  /\ pg.bits[i] = "written"
  /\ pg.cell[i] \in Heads /\ pg.cell[i].entry = e

Found(e) ==
  UNION {{<<p, i>> : i \in {j \in Slots \cap Walk(p) : IsLive(page[p], j, e)}} :
         p \in {q \in 1..P : page[q].state # "uninit"}}

\* The value a head is followed by.
ReadAt(x) ==
  LET cell == page[x[1]].cell
      v == cell[x[2]].value
  IN  IF \A k \in 1..DataSlots[v] :
           x[2] + k \in Slots /\ cell[x[2] + k] = [value |-> v, part |-> k]
      THEN v ELSE Garbled

\* Place x comes after place y in the dump.
After(x, y) ==
  \/ x[1] > y[1]
  \/ x[1] = y[1] /\ x[2] >= y[2]

\* Mutant of Later: the place in the dump decides, not the age of the page.
Later_InDump(x, y) == After(x, y)

\* nvs_parse: (seq, i) >= (seq, i) of another entry.
Later(x, y) ==
  \/ page[x[1]].seq > page[y[1]].seq
  \/ page[x[1]].seq = page[y[1]].seq /\ x[2] >= y[2]

\* nvs_parse: a head whose span is not believed is no entry at all; of the
\* others the latest wins.
Live(e) ==
  LET seen == {x \in Found(e) : Span(page[x[1]].cell[x[2]].value) <= MaxSpan}
  IN  IF seen = {} THEN NoValue
      ELSE ReadAt(CHOOSE x \in seen : \A y \in seen : Later(x, y))

(***************************************************************************)
(* Writing.                                                                 *)
(***************************************************************************)

\* Mutant of Empty: only the first slot of a run is looked at.
Empty_First(p, i, n) == page[p].bits[i] = "empty" /\ page[p].cell[i] = Blank

\* The n slots from i on can take an entry.
Empty(p, i, n) ==
  \A j \in i..(i + n - 1) :
    j \in Slots /\ page[p].bits[j] = "empty" /\ page[p].cell[j] = Blank

\* Where an entry of n slots fits on page p: the first run of empty slots.
Fits(p, n) == \E i \in Slots : Empty(p, i, n)
FirstFit(p, n) ==
  CHOOSE i \in Slots : Empty(p, i, n) /\ \A j \in 1..(i - 1) : ~Empty(p, j, n)

\* Page pg with entry e written at slot i.
Written(pg, i, e, v) ==
  LET new == i..(i + DataSlots[v])
  IN  [pg EXCEPT
        !.bits = [j \in Slots \cup new |-> IF j \in new THEN "written" ELSE @[j]],
        !.cell = [j \in Slots \cup new |-> IF j = i THEN [entry |-> e, value |-> v]
                                  ELSE IF j \in new THEN [value |-> v, part |-> j - i]
                                  ELSE @[j]]]

\* Mutant of Erased: the head goes, its data stays.
Erased_HeadOnly(pg, i) == [pg EXCEPT !.bits[i] = "erased"]

\* Page pg with the entry at slot i erased, as far as its span is believed.
Erased(pg, i) ==
  [pg EXCEPT !.bits = [j \in Slots |-> IF j \in i..(i + Step(pg.cell[i]) - 1)
                                       THEN "erased" ELSE @[j]]]

\* The last page in the dump that is active, if there is one.
Active == {p \in 1..P : page[p].state = "active"}
ActivePage == CHOOSE p \in Active : \A q \in Active : q <= p

\* nvs_set: the live entries of key k, and the last of them in the dump.
Matches(k) == UNION {Found(e) : e \in {f \in Entries : Key(f) = k /\ k \in Strings}}
LastMatch(k) == CHOOSE x \in Matches(k) : \A y \in Matches(k) : After(x, y)

\* nvs_set.py KEY VALUE, where it does not give up (no live entry, no active
\* page, no room) before it writes its output: append, then erase.
NvsSet(k, v) ==
  /\ pending = {}
  /\ Matches(k) # {} /\ Active # {}
  /\ Fits(ActivePage, Span(v))
  /\ LET x == LastMatch(k)
         e == page[x[1]].cell[x[2]].entry
         new == [page EXCEPT ![ActivePage] =
                   Written(@, FirstFit(ActivePage, Span(v)), e, v)]
     IN  page' = [new EXCEPT ![x[1]] = Erased(@, x[2])]
  /\ UNCHANGED pending

(***************************************************************************)
(* The device.                                                              *)
(***************************************************************************)

\* The latest live entry of e, whatever its span: what the device reads.
Current(e) ==
  {x \in Found(e) : \A y \in Found(e) : Later(x, y)}

DeviceAppend(e, v) ==
  /\ pending = {}
  /\ Active # {} /\ Fits(ActivePage, Span(v))
  /\ page' = [page EXCEPT ![ActivePage] = Written(@, FirstFit(ActivePage, Span(v)), e, v)]
  /\ pending' = Current(e)

DeviceErase ==
  /\ pending # {}
  /\ page' = [p \in 1..P |->
       [page[p] EXCEPT !.bits = [j \in Slots |->
          IF \E x \in pending : x[1] = p /\ j \in x[2]..(x[2] + DataSlots[page[p].cell[x[2]].value])
          THEN "erased" ELSE @[j]]]]
  /\ pending' = {}

\* The power goes before the old entry is erased: two live entries remain.
PowerLoss ==
  /\ pending # {} /\ pending' = {}
  /\ UNCHANGED page

Newest == CHOOSE n \in {page[p].seq : p \in 1..P} : \A p \in 1..P : page[p].seq <= n

\* The active page is full: a blank one takes over.
DeviceNextPage ==
  /\ pending = {} /\ Newest < MaxSeq
  /\ \E p \in Active, q \in 1..P :
       /\ \E v \in Values : ~Fits(p, Span(v))
       /\ page[q].state = "uninit"
       /\ page' = [page EXCEPT ![p].state = "full", ![q].state = "active",
                               ![q].seq = Newest + 1]
  /\ UNCHANGED pending

\* A full page without a live entry is blanked.
DeviceRecycle ==
  /\ pending = {}
  /\ \E p \in 1..P :
       /\ page[p].state = "full"
       /\ \A i \in Slots : page[p].bits[i] # "written"
       /\ page' = [page EXCEPT ![p] = Fresh]
  /\ UNCHANGED pending

Next ==
  \/ \E k \in Keys, v \in Values : NvsSet(k, v)
  \/ \E e \in Entries, v \in Values : DeviceAppend(e, v)
  \/ DeviceErase \/ PowerLoss \/ DeviceNextPage \/ DeviceRecycle

Spec == Init /\ [][Next]_vars

-----------------------------------------------------------------------------
\* The bitmap and the entries agree: a written slot is part of exactly one
\* live entry, whose data follows its head in full.
Covers(p, h, i) ==
  /\ page[p].bits[h] = "written" /\ page[p].cell[h] \in Heads
  /\ i \in h..(h + DataSlots[page[p].cell[h].value])
  /\ ReadAt(<<p, h>>) # Garbled

BitmapAgrees ==
  \A p \in 1..P, i \in Slots :
    page[p].bits[i] = "written" => Cardinality({h \in 1..i : Covers(p, h, i)}) = 1

Store == [e \in Entries |-> Live(e)]

\* What nvs_parse.py finds is a map, whatever the device and nvs_set.py did to
\* the partition, in whatever order its pages lie, and wherever the power went:
\* one step gives one entry a value, or changes nothing.
Map == INSTANCE NvsMap WITH store <- Store
ImplementsMap == Map!Spec

\* "Latest live entry wins": only a write changes what nvs_parse.py finds; the
\* erasure of an old entry, its loss, a full page or a blanked one do not bring
\* an older value back.
OldStaysGone ==
  [][DeviceErase \/ PowerLoss \/ DeviceNextPage \/ DeviceRecycle => Store' = Store]_vars

\* "ENDPOINT_STR is the new value, REGISTER_STR=1, token intact": after
\* nvs_set.py KEY VALUE, nvs_parse.py finds the value under the key, in the
\* namespace of the entry that was live, and every other entry as before.
SetReadsBack ==
  [][\A k \in Keys, v \in Values :
       NvsSet(k, v) => \E e \in Entries : Key(e) = k /\ Map!Put(e, v)]_vars
=============================================================================
