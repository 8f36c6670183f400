------------------------------ MODULE AssetStage ------------------------------
(***************************************************************************)
(* What `orb_server.py --push-anims` makes of a zip: the manifest the       *)
(* device is sent and the bytes it may download, both rewritten together by *)
(* --anim-as and by the limit on the length of names.                       *)
(*                                                                          *)
(* A name is its stem, which is cut off behind a head, and what may follow: *)
(* a tail or two digits of an index.  An entry of a zip lies in a folder.   *)
(***************************************************************************)
EXTENDS Codec

CONSTANTS
  Names,            \* base names of files
  CharLen, VerLen,  \* length of the character's name and of the version in hex
  NoTail, NoIndex   \* of a name: nothing behind its head, or no number

\* A name of len characters; a dot and the ending are among them.
AnyName == [head : STRING, tail : {NoTail} \cup STRING, index : Nat \cup {NoIndex}, len : Nat, ext : BOOLEAN]

ASSUME StageAssumption ==
  /\ CharLen \in Nat /\ VerLen \in Nat
  /\ Names \subseteq AnyName

Entries == [folder : Nat, name : Names, bin : Bins]
DefaultMs == 4000

\* Of two entries under one path, and of two with one base name, the last counts.
LastOf(zip, is) == zip[Max(is)]
AtPath(zip, e) == LastOf(zip, {i \in DOMAIN zip : zip[i].folder = e.folder /\ zip[i].name = e.name}).bin

\* build_animations_manifest: sizes from the zip, durations from the sidecar.
Manifest(zip, sidecar) ==
  [i \in DOMAIN zip |->
     [name |-> zip[i].name, size |-> FileSize(AtPath(zip, zip[i])),
      duration |-> IF zip[i].name \in DOMAIN sidecar THEN sidecar[zip[i].name] ELSE DefaultMs]]

BytesOf(zip) ==
  [n \in {zip[i].name : i \in DOMAIN zip} |-> LastOf(zip, {i \in DOMAIN zip : zip[i].name = n}).bin]

\* Mutant of Moved: the old name stays.
Moved_Kept(bytes, old, new) ==
  [n \in DOMAIN bytes \cup {new} |-> IF n = new THEN bytes[old] ELSE bytes[n]]

\* ASSET_FILE_BYTES[new] = ASSET_FILE_BYTES.pop(old)
Moved(bytes, old, new) ==
  [n \in (DOMAIN bytes \ {old}) \cup {new} |-> IF n = new THEN bytes[old] ELSE bytes[n]]

\* --anim-as renames the first entry, and its bytes where there are any.
RenamedAs(st, as) ==
  [st EXCEPT !.anims[1].name = as,
             !.bytes = IF st.anims[1].name \in DOMAIN @ THEN Moved(@, st.anims[1].name, as) ELSE @]

\* <name>_<character>_<version>.bin must stay under 31 characters.
Dest(n) == n.len + 1 + CharLen + 1 + VerLen + 4
Budget == Max({5, 30 - (1 + CharLen + 1 + VerLen + 4)})

\* Mutant of Shortened: no index, so that heads collide.
Shortened_NoIndex(n, i, many) ==
  LET ext == IF n.ext THEN 4 ELSE 0
  IN  [n EXCEPT !.tail = NoTail, !.index = NoIndex,
                !.len = Min({@ - ext, Max({1, Budget - ext})}) + ext]

\* The i-th entry's name, cut to the budget; the index tells several apart.
Shortened(n, i, many) ==
  LET ext == IF n.ext THEN 4 ELSE 0
      digits == IF many THEN 2 ELSE 0
  IN  [n EXCEPT !.tail = NoTail, !.index = IF many THEN i - 1 ELSE NoIndex,
                !.len = Min({@ - ext, Max({1, Budget - ext - digits})}) + digits + ext]

\* One turn of the loop over the entries; a name without bytes ends the program.
Fit(st, i) ==
  LET old == st.anims[i].name
      new == Shortened(old, i, Len(st.anims) > 1)
  IN  IF ~st.ok \/ old.len <= Budget THEN st
      ELSE IF old \notin DOMAIN st.bytes THEN [st EXCEPT !.ok = FALSE]
      ELSE [st EXCEPT !.anims[i].name = new, !.bytes = Moved(@, old, new)]

\* The manifest and the bytes after both rewritings.
Staged(anims, bytes, as) ==
  LET st == [anims |-> anims, bytes |-> bytes, ok |-> TRUE]
      named == IF as = {} THEN st ELSE RenamedAs(st, CHOOSE n \in as : TRUE)
      fitted[i \in 0..Len(anims)] == IF i = 0 THEN named ELSE Fit(fitted[i - 1], i)
  IN  fitted[Len(anims)]

\* GET /persona/bin/<name>: the bytes, or 404.
Get(st, n) == IF n \in DOMAIN st.bytes THEN {st.bytes[n]} ELSE {}
=============================================================================
