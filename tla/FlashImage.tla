------------------------------ MODULE FlashImage ------------------------------
(***************************************************************************)
(* The app image the firmware patchers work on, and what each of them does  *)
(* to it.  An image has code at a few sites, a table of embedded sounds, a  *)
(* one-byte checksum of all of it (XOR, from a seed) and, where the header  *)
(* says so and the dump is long enough, a digest of everything before it,   *)
(* the checksum included.                                                   *)
(*                                                                          *)
(* The checksum is a set: every piece of the image is an element of its     *)
(* own, and XOR is the symmetric difference, so that adding a piece twice   *)
(* removes it.  The digest is what it is a digest of.                       *)
(***************************************************************************)
EXTENDS Naturals, Sequences

CONSTANTS
  Names,        \* embedded sounds
  Clips,        \* what may be put in their place
  ClipSize,
  OggClips      \* those that are Ogg files

ASSUME FlashAssumption == ClipSize \in [Clips -> Nat] /\ OggClips \subseteq Clips

Sites == {"auth", "pin", "cert"}              \* one of each patcher of code
Codes == {"stock", "patched", "other"}

Pieces == (Sites \X Codes) \cup (Names \X Clips \X Nat)
Xor(A, B) == (A \ B) \cup (B \ A)

Digests == [code : [Sites -> Codes], clip : [Names -> Clips], slot : [Names -> Nat],
            sum : SUBSET Pieces]
Image == [code : [Sites -> Codes], clip : [Names -> Clips], slot : [Names -> Nat],
          sum : SUBSET Pieces, hashed : BOOLEAN, digest : Digests]

\* recompute_checksum: over all segments, from the seed.
TrueSum(img) ==
  {<<s, img.code[s]>> : s \in Sites} \cup {<<n, img.clip[n], img.slot[n]>> : n \in Names}

DigestOf(img) ==
  [code |-> img.code, clip |-> img.clip, slot |-> img.slot, sum |-> img.sum]

\* hash_appended, and the dump reaches behind the digest.
Rehash(img) == IF img.hashed THEN [img EXCEPT !.digest = DigestOf(img)] ELSE img

\* What a check of the image accepts.
SumRight(img) == img.sum = TrueSum(img)
DigestRight(img) == img.hashed => img.digest = DigestOf(img)

(***************************************************************************)
(* patch_authmode_none, patch_pin_endpoint, patch_cert_trust: the code at   *)
(* the site must be what the stock build has there (an image that is        *)
(* patched already is refused like any other); the checksum is moved by     *)
(* what changes.                                                            *)
(***************************************************************************)
Patchable(site, img) == img.code[site] = "stock"

\* Mutant of Patched: the checksum is left for later.
Patched_NoSum(site, img) == Rehash([img EXCEPT !.code[site] = "patched"])

Patched(site, img) ==
  Rehash([img EXCEPT !.code[site] = "patched",
                     !.sum = Xor(@, {<<site, img.code[site]>>, <<site, "patched">>})])

(***************************************************************************)
(* patch_system_audio: clips, in order, into the slots of the table.  The   *)
(* slot ends where the new clip ends; what is behind it is zeroed.          *)
(***************************************************************************)
\* The last of the first k of the sets that is for sound n.
SetFor(sets, k, n) == sets[CHOOSE i \in 1..k : sets[i][1] = n /\ \A j \in (i + 1)..k : sets[j][1] # n]
SetsFor(sets, k) == {sets[i][1] : i \in 1..k}

\* The image after the first k turns of the loop over the sets.
Spliced(sets, k, img) ==
  [img EXCEPT
     !.clip = [n \in Names |-> IF n \in SetsFor(sets, k) THEN SetFor(sets, k, n)[2] ELSE img.clip[n]],
     !.slot = [n \in Names |->
                 IF n \in SetsFor(sets, k) THEN ClipSize[SetFor(sets, k, n)[2]] ELSE img.slot[n]]]

SlotFits(img, set) == set[2] \in OggClips /\ ClipSize[set[2]] <= img.slot[set[1]]

Spliceable(sets, img) ==
  \A k \in 1..Len(sets) : SlotFits(Spliced(sets, k - 1, img), sets[k])

\* The checksum is computed from nothing, so that a wrong one is put right.
WithSounds(sets, img) ==
  LET new == Spliced(sets, Len(sets), img)
  IN  Rehash([new EXCEPT !.sum = TrueSum(new)])
=============================================================================
