-------------------------------- MODULE Spiffs --------------------------------
(***************************************************************************)
(* The SPIFFS image of the orb's remembered networks: tools/spiffsgen.py    *)
(* lays the files of a directory out in blocks of pages, and                *)
(* tools/make_wifi_spiffs.py runs it and tells the user what to flash.      *)
(*                                                                          *)
(* A block starts with lookup pages, which name the object of every page    *)
(* behind them.  A file is an object: index pages, which record where its   *)
(* data pages are, and the data pages, each of them numbered by a span.     *)
(* When a block is full the object goes on in the next one, its open index  *)
(* page staying where it is; when an index page is full another is begun.   *)
(*                                                                          *)
(* Abstractions.  The bytes of a page are the chunk of the file it holds.   *)
(* Page sizes are powers of two.  Object numbers and page numbers stay      *)
(* below the width of their fields (2 bytes; the partition has 20480 pages).*)
(***************************************************************************)
EXTENDS Naturals, Sequences, SequencesExt

CONSTANTS
  PageSize, BlockSize, ObjNameLen, MetaLen,   \* in bytes
  AlignedTables,                              \* --aligned-obj-ix-tables
  Blocks,                                     \* blocks of the image
  Files,                                      \* what a directory may hold
  FileSize,                                   \* of each file, in bytes
  NameChars, NameBytes,                       \* the length of its path, twice
  Blank                                       \* an erased slot of a lookup page

ASSUME SpiffsAssumption ==
  /\ PageSize \in Nat \ {0} /\ BlockSize \in Nat /\ BlockSize % PageSize = 0
  /\ ObjNameLen \in Nat /\ MetaLen \in Nat /\ Blocks \in Nat
  /\ AlignedTables \in BOOLEAN
  /\ FileSize \in [Files -> Nat]
  /\ NameChars \in [Files -> Nat] /\ NameBytes \in [Files -> Nat]
  /\ \A f \in Files : NameChars[f] <= NameBytes[f]

(***************************************************************************)
(* The build configuration.                                                 *)
(***************************************************************************)
IdLen == 2                                    \* object number, span, page number
RoundUp(n, d) == (n + d - 1) \div d

PagesPerBlock == BlockSize \div PageSize
LuPages == RoundUp(PagesPerBlock * IdLen, PageSize)
UsablePages == PagesPerBlock - LuPages
LuIdsLim == PageSize \div IdLen

DataHeader == IdLen + IdLen + 1
DataHeaderAligned == 4 * RoundUp(DataHeader, 4)
ContentLen == PageSize - DataHeader
IndexHeader == DataHeaderAligned + 4 + 1 + ObjNameLen + MetaLen
IndexHeaderAligned == IF AlignedTables THEN 2 * RoundUp(IndexHeader, 2) ELSE IndexHeader
HeadLim == (PageSize - IndexHeaderAligned) \div IdLen
IndexLim == (PageSize - DataHeaderAligned) \div IdLen

ASSUME RoomAssumption ==
  UsablePages > 0 /\ ContentLen > 0 /\ IndexHeaderAligned <= PageSize /\ IndexLim > 0

VARIABLES
  phase,        \* of the run: start, walking, writing, written, told, failed
  out,          \* the output file: old (or none), torn, image
  todo,         \* files of the directory not walked over yet
  created,      \* the files with an object, in the order of their numbers
  blocks,       \* the blocks begun
  cur           \* the object being written

vars == <<phase, out, todo, created, blocks, cur>>

IndexPages == [kind : {"index"}, id : Nat, span : Nat, size : Nat, skew : Nat, pages : Seq(Nat)]
DataPages == [kind : {"data"}, id : Nat, span : Nat, part : Nat]
Pages == IndexPages \cup DataPages
LuEntries == [id : Nat, index : BOOLEAN]
NoObject == [file |-> "", span |-> 0, data |-> 0, left |-> 0, at |-> <<0, 0>>]

TypeOK ==
  /\ phase \in {"start", "walking", "writing", "written", "told", "failed"}
  /\ out \in {"old", "torn", "image"}
  /\ todo \subseteq Files
  /\ created \in Seq(Files)
  /\ blocks \in Seq([pages : Seq(Pages), lu : Seq(LuEntries)])
  /\ Len(blocks) <= Blocks
  /\ cur \in [file : Files \cup {""}, span : Nat, data : Nat, left : Nat, at : Nat \X Nat]

Init ==
  /\ phase = "start" /\ out = "old"
  /\ todo \in SUBSET Files
  /\ created = <<>> /\ blocks = <<>> /\ cur = NoObject

(***************************************************************************)
(* Pages and blocks.                                                        *)
(***************************************************************************)
NewBlock == [pages |-> <<>>, lu |-> <<>>]
Remaining(b) == UsablePages - Len(b.pages)
LastBlock(bs) == bs[Len(bs)]
BlockFull == IF blocks = <<>> THEN TRUE ELSE Remaining(LastBlock(blocks)) = 0

\* Mutant of ImageFull: one block too many.
ImageFull_Late == Len(blocks) > Blocks

ImageFull == Len(blocks) = Blocks

IndexPage(id, span, f) ==
  [kind |-> "index", id |-> id, span |-> span, size |-> FileSize[f],
   skew |-> IF span = 0 THEN NameBytes[f] - NameChars[f] ELSE 0, pages |-> <<>>]
PagesLim(page) == IF page.span = 0 THEN HeadLim ELSE IndexLim

\* The page goes behind the pages of the last block, its object into the lookup.
RegisterPage(bs, page) ==
  [bs EXCEPT ![Len(bs)] =
     [pages |-> Append(@.pages, page),
      lu |-> Append(@.lu, [id |-> page.id, index |-> page.kind = "index"])]]

\* Where the next page of the last block lies in the image.
NextPage(bs) == (Len(bs) - 1) * PagesPerBlock + LuPages + Len(LastBlock(bs).pages)

\* Index page `span` of object `id` in the last of the blocks bs.
BeginObj(bs, id, f, span, data, left) ==
  /\ blocks' = RegisterPage(bs, IndexPage(id, span, f))
  /\ cur' = [file |-> f, span |-> span + 1, data |-> data, left |-> left,
             at |-> <<Len(bs), Len(LastBlock(bs).pages) + 1>>]

OpenIndex == blocks[cur.at[1]].pages[cur.at[2]]
IndexFull == Len(OpenIndex.pages) = PagesLim(OpenIndex)
Id == Len(created) + 1

(***************************************************************************)
(* spiffsgen.py.                                                            *)
(***************************************************************************)

\* The output file is emptied before anything is built.
OpenOutput ==
  /\ phase = "start" /\ phase' = "walking" /\ out' = "torn"
  /\ UNCHANGED <<todo, created, blocks, cur>>

\* "image size should be a multiple of block size": make_wifi_spiffs.py hands
\* its --size on unseen, and the output file is empty by then.
OddSize ==
  /\ phase = "start" /\ phase' = "failed" /\ out' = "torn"
  /\ UNCHANGED <<todo, created, blocks, cur>>

Fail ==
  /\ phase' = "failed"
  /\ UNCHANGED <<out, todo, created, blocks, cur>>

\* create_file: the head index page, in the last block or in a new one.
CreateFile(f) ==
  /\ phase = "walking" /\ f \in todo
  /\ NameChars[f] <= ObjNameLen
  /\ ~(BlockFull /\ ImageFull)
  /\ phase' = "writing" /\ todo' = todo \ {f}
  /\ BeginObj(IF BlockFull THEN Append(blocks, NewBlock) ELSE blocks,
              Id, f, 0, 0, RoundUp(FileSize[f], ContentLen))
  /\ UNCHANGED <<out, created>>

NameTooLong(f) == phase = "walking" /\ f \in todo /\ NameChars[f] > ObjNameLen /\ Fail

NoRoomForFile(f) ==
  /\ phase = "walking" /\ f \in todo /\ NameChars[f] <= ObjNameLen
  /\ BlockFull /\ ImageFull /\ Fail

Writing == phase = "writing" /\ cur.left > 0

\* update_obj: the next chunk of the file in a data page, recorded in the index.
UpdateObj ==
  /\ Writing /\ ~BlockFull /\ ~IndexFull
  /\ LET page == [kind |-> "data", id |-> Id, span |-> cur.data,
                  part |-> RoundUp(FileSize[cur.file], ContentLen) - cur.left + 1]
         recorded == [blocks EXCEPT ![cur.at[1]].pages[cur.at[2]].pages = Append(@, NextPage(blocks))]
     IN  blocks' = RegisterPage(recorded, page)
  /\ cur' = [cur EXCEPT !.data = @ + 1, !.left = @ - 1]
  /\ UNCHANGED <<phase, out, todo, created>>

\* The open index page is full: another one, in the same block.
NextIndexPage ==
  /\ Writing /\ ~BlockFull /\ IndexFull
  /\ BeginObj(blocks, Id, cur.file, cur.span, cur.data, cur.left)
  /\ UNCHANGED <<phase, out, todo, created>>

\* Mutant of NextBlock: the data span is not copied.
NextBlock_NoSpan ==
  /\ Writing /\ BlockFull /\ ~ImageFull
  /\ blocks' = Append(blocks, NewBlock)
  /\ cur' = [cur EXCEPT !.data = 0]
  /\ UNCHANGED <<phase, out, todo, created>>

\* Mutant of NextBlock: the object goes on with an index page of its own there.
NextBlock_NewIndex ==
  /\ Writing /\ BlockFull /\ ~ImageFull
  /\ BeginObj(Append(blocks, NewBlock), Id, cur.file, cur.span, cur.data, cur.left)
  /\ UNCHANGED <<phase, out, todo, created>>

\* The block is full: the object, its open index page and its spans go on in
\* a new one.
NextBlock ==
  /\ Writing /\ BlockFull /\ ~ImageFull
  /\ blocks' = Append(blocks, NewBlock)
  /\ UNCHANGED <<phase, out, todo, created, cur>>

NoRoomForPage == Writing /\ BlockFull /\ ImageFull /\ Fail

EndObj ==
  /\ phase = "writing" /\ cur.left = 0
  /\ phase' = "walking" /\ created' = Append(created, cur.file) /\ cur' = NoObject
  /\ UNCHANGED <<out, todo, blocks>>

\* An index page fits its page: the name is padded by its characters, so its
\* further bytes push the table back.
FitsPage(page) ==
  page.kind = "index" =>
    (IF page.span = 0 THEN IndexHeaderAligned + page.skew ELSE DataHeaderAligned)
      + IdLen * Len(page.pages) <= PageSize

Packable == \A b \in Range(blocks) : \A page \in Range(b.pages) : FitsPage(page)

\* The last lookup page carries the magic number in its last slot but one,
\* unless that slot names a page.
LuCap == LuPages * LuIdsLim
Magic(bix) == [magic |-> Blocks - bix]
Blanks(n) == [i \in 1..n |-> Blank]
LuImage(lu, bix) ==
  IF Len(lu) <= LuCap - 2 THEN lu \o Blanks(LuCap - 2 - Len(lu)) \o <<Magic(bix), Blank>>
  ELSE lu \o Blanks(LuCap - Len(lu))

\* Mutant of Lookup: the blocks behind the last file all get one number.
Lookup_OneBix(b) ==
  IF b <= Len(blocks) THEN LuImage(blocks[b].lu, b - 1) ELSE LuImage(<<>>, Len(blocks))

\* The lookup pages of block b of the image; the blocks behind the last file
\* hold nothing else.
Lookup(b) == LuImage(IF b <= Len(blocks) THEN blocks[b].lu ELSE <<>>, b - 1)

\* to_binary, once the whole directory has been walked over.
WriteImage ==
  /\ phase = "walking" /\ todo = {} /\ Packable
  /\ phase' = "written" /\ out' = "image"
  /\ UNCHANGED <<todo, created, blocks, cur>>

PageOverflow == phase = "walking" /\ todo = {} /\ ~Packable /\ Fail

(***************************************************************************)
(* make_wifi_spiffs.py: an --also without a colon ends it before spiffsgen  *)
(* runs; the flash command is printed only when spiffsgen succeeded.        *)
(***************************************************************************)
BadArgument == phase = "start" /\ Fail

\* Mutant of Told: the return code of spiffsgen is not looked at.
Told_Always ==
  /\ phase \in {"written", "failed"} /\ phase' = "told"
  /\ UNCHANGED <<out, todo, created, blocks, cur>>

Told ==
  /\ phase = "written" /\ phase' = "told"
  /\ UNCHANGED <<out, todo, created, blocks, cur>>

Next ==
  \/ BadArgument \/ OddSize \/ OpenOutput
  \/ \E f \in Files : CreateFile(f) \/ NameTooLong(f) \/ NoRoomForFile(f)
  \/ UpdateObj \/ NextIndexPage \/ NextBlock \/ NoRoomForPage \/ EndObj
  \/ WriteImage \/ PageOverflow \/ Told

\* One process that runs until it ends.
Spec == Init /\ [][Next]_vars /\ WF_vars(Next)

-----------------------------------------------------------------------------
(***************************************************************************)
(* What the device does with the image.                                     *)
(***************************************************************************)
PageAt(n) == blocks[n \div PagesPerBlock + 1].pages[(n % PagesPerBlock) - LuPages + 1]

\* Index page `span` of object `id`, found through the lookup pages.
IndexOf(id, span) ==
  LET at == CHOOSE x \in {<<b, i>> : b \in 1..Len(blocks), i \in 1..UsablePages} :
              /\ x[2] <= Len(blocks[x[1]].lu)
              /\ blocks[x[1]].lu[x[2]] = [id |-> id, index |-> TRUE]
              /\ blocks[x[1]].pages[x[2]].span = span
  IN  blocks[at[1]].pages[at[2]]

\* The page the index records for span s of object `id`.
DataPage(id, s) ==
  IF s < HeadLim THEN PageAt(IndexOf(id, 0).pages[s + 1])
  ELSE PageAt(IndexOf(id, 1 + (s - HeadLim) \div IndexLim).pages[((s - HeadLim) % IndexLim) + 1])

Chunks(f) == RoundUp(FileSize[f], ContentLen)

\* Every file that was created, whose path has no character of several bytes,
\* reads back whole and in order, however it lies across blocks and index
\* pages, and stays so while later files are laid out behind it.
ReadBack ==
  \A k \in 1..Len(created) :
    LET f == created[k] IN
      NameBytes[f] = NameChars[f] =>
        /\ IndexOf(k, 0).size = FileSize[f]
        /\ \A s \in 0..(Chunks(f) - 1) :
             DataPage(k, s) = [kind |-> "data", id |-> k, span |-> s, part |-> s + 1]

\* The device mounts the image and finds its way in it: every block, used or
\* not, carries its own magic number, no page's entry is lost to it, and every
\* other slot of the lookup is blank.
Mountable ==
  phase \in {"written", "told"} /\ LuCap - UsablePages >= 2 =>
    \A b \in 1..Blocks, i \in 1..LuCap :
      Lookup(b)[i] =
        IF i = LuCap - 1 THEN [magic |-> Blocks - (b - 1)]
        ELSE IF b <= Len(blocks) /\ i <= Len(blocks[b].pages)
        THEN [id |-> blocks[b].pages[i].id, index |-> blocks[b].pages[i].kind = "index"]
        ELSE Blank

\* The pages a file takes: its chunks, its head index page and the further ones.
Need(f) ==
  1 + Chunks(f) + (IF Chunks(f) <= HeadLim THEN 0 ELSE RoundUp(Chunks(f) - HeadLim, IndexLim))
NeedAll(fs) ==
  LET first[n \in 0..Len(fs)] == IF n = 0 THEN 0 ELSE first[n - 1] + Need(fs[n])
  IN  first[Len(fs)]

\* "the image size has been exceeded" is said only of files that do not fit,
\* however their objects fell on the ends of blocks and of index pages.
FullOnlyWhenFull ==
  [][\A f \in Files :
       NoRoomForFile(f) \/ (NoRoomForPage /\ cur.file = f)
         => NeedAll(created) + Need(f) > Blocks * UsablePages]_vars

\* Every run ends, and one that prints the flash command has left an image with
\* every file of the directory in it.
EndsInAnImage == <>[](phase = "failed" \/ (phase = "told" /\ out = "image" /\ todo = {}))

=============================================================================
