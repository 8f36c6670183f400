------------------------------ MODULE PushServer ------------------------------
(***************************************************************************)
(* From an animation to the server that offers it: the user encodes files   *)
(* (orb_encode.py), packs them (stage_anims.sh), and starts orb_server.py,   *)
(* which reads the pack, sees to its certificate and listens.  The packing  *)
(* and the certificate are two files each, written one after the other;     *)
(* every program may be stopped between any two steps and started again,    *)
(* and the user may pack anew while the server starts.                      *)
(*                                                                          *)
(* Abstractions.  Files are written in one step after the step that empties *)
(* them.  The zip is a sequence of entries that hold their files.  A pair   *)
(* of certificate and key is a number, given once.  The VAD, the opus, the  *)
(* ports and addresses are left out.                                        *)
(***************************************************************************)
EXTENDS AssetStage

CONSTANTS
  Sources,      \* files the user encodes: pairs of a folder and a name
  Encodings,    \* what they may hold
  Packs,        \* sequences of sources that are packed together
  AsNames,      \* what --anim-as is given: sets of one name, or none
  NoFile, Torn,
  MaxUser,      \* encodings and packings (bound)
  MaxStops      \* of any program (bound)

MaxFiles == 100   \* in a pack: an index has two digits

\* The encodings are those orb_encode.py makes without --lock-frames; those with
\* --lock-sweep turn by a step that is not 0.  No file of durations is one of the
\* two marks.
ASSUME PushAssumption ==
  /\ Sources \subseteq Nat \X Names /\ Packs \subseteq Seq(Sources)
  /\ \A pack \in Packs : Len(pack) \in 1..MaxFiles
  /\ Encodings \subseteq Bins
  /\ \A bin \in Encodings :
       \/ bin.deg # 0 /\ bin = Locked(bin.base[1], bin.deg)
       \/ bin = Plain(bin.base, bin.frames)
  /\ {} \in AsNames /\ AsNames \subseteq SUBSET Names
  /\ \A ns \in SUBSET Names, bin \in Encodings :
       [n \in ns |-> DurationMs(bin)] \notin {NoFile, Torn}
  /\ MaxUser \in Nat /\ MaxStops \in Nat

VARIABLES
  bins,         \* the encoded files
  told,         \* the duration orb_encode printed for each
  zip, sidecar, \* the pack and its durations
  packing,      \* what stage_anims.sh is at: <<sources, duration>>, or nothing
  paired,       \* the sidecar was written for this zip
  pc,           \* the server: down, bytes, cert, key, certfile, load, listening
  as,           \* its --anim-as
  read,         \* what it read: the pack for the manifest, the pack for the bytes,
                \* and whether the sidecar was of the first
  st,           \* manifest and bytes
  key, cert,    \* key.pem and cert.pem
  cut,          \* it was stopped while it wrote them
  user, stops

files == <<bins, told, zip, sidecar, packing, paired, user>>
pair == <<key, cert, cut>>
server == <<pc, as, read, st>>
vars == <<files, pair, server, stops>>

NoRead == [manifest |-> <<>>, bytes |-> <<>>, paired |-> FALSE]
NoStage == [anims |-> <<>>, bytes |-> [n \in {} |-> NoFile], ok |-> TRUE]

Init ==
  /\ bins = [s \in Sources |-> NoFile] /\ told = [s \in Sources |-> 0]
  /\ zip = NoFile /\ sidecar = NoFile /\ packing = <<>> /\ paired = FALSE
  /\ pc = "down" /\ as = {} /\ read = NoRead /\ st = NoStage
  /\ key \in {NoFile, 0} /\ cert \in {NoFile, 0} /\ cut = FALSE
  /\ user = 0 /\ stops = 0

Pack == zip \notin {NoFile, Torn}
NoSidecar == [n \in {} |-> 0]
Generations == 0..(MaxStops + 1)

\* Every variable is in range; no more files are offered than the pack had
\* when they were read.
TypeOK ==
  /\ \A s \in Sources : bins[s] \in Encodings \cup {NoFile} /\ told[s] \in Nat
  /\ Pack => \A i \in DOMAIN zip : zip[i] \in Entries
  /\ pc \in {"down", "bytes", "cert", "key", "certfile", "load", "listening"}
  /\ as \in AsNames
  /\ \A i \in DOMAIN st.anims :
       /\ st.anims[i].name \in Names \/ st.anims[i].name.tail = NoTail
       /\ st.anims[i].size \in Nat /\ st.anims[i].duration \in Nat
  /\ \A n \in DOMAIN st.bytes : st.bytes[n] \in Encodings
  /\ Cardinality(DOMAIN st.bytes) <= Len(read.bytes)
  /\ key \in Generations \cup {NoFile, Torn} /\ cert \in Generations \cup {NoFile, Torn}
  /\ cut \in BOOLEAN /\ user \in 0..MaxUser /\ stops \in 0..MaxStops

(***************************************************************************)
(* The user.                                                                *)
(***************************************************************************)
Encode(s, bin) ==
  /\ user < MaxUser /\ packing = <<>>
  /\ bins' = [bins EXCEPT ![s] = bin] /\ told' = [told EXCEPT ![s] = DurationMs(bin)]
  /\ user' = user + 1
  /\ UNCHANGED <<zip, sidecar, packing, paired, pair, server, stops>>

\* stage_anims.sh -d MS FILES: MS is what the encoder printed for the first.
BeginPack(pack) ==
  /\ user < MaxUser /\ packing = <<>>
  /\ \A i \in DOMAIN pack : bins[pack[i]] # NoFile
  /\ zip' = Torn /\ packing' = <<pack, told[pack[1]]>> /\ paired' = FALSE /\ user' = user + 1
  /\ UNCHANGED <<bins, told, sidecar, pair, server, stops>>

WriteZip ==
  /\ packing # <<>> /\ zip = Torn
  /\ zip' = [i \in DOMAIN packing[1] |->
       [folder |-> packing[1][i][1], name |-> packing[1][i][2], bin |-> bins[packing[1][i]]]]
  /\ UNCHANGED <<bins, told, sidecar, packing, paired, user, pair, server, stops>>

WriteSidecar ==
  /\ packing # <<>> /\ Pack
  /\ sidecar' = [n \in {zip[i].name : i \in DOMAIN zip} |-> packing[2]]
  /\ packing' = <<>> /\ paired' = TRUE
  /\ UNCHANGED <<bins, told, zip, user, pair, server, stops>>

StopPack ==
  /\ packing # <<>> /\ stops < MaxStops
  /\ packing' = <<>> /\ stops' = stops + 1
  /\ sidecar' \in {sidecar} \cup (IF Pack THEN {Torn} ELSE {})
  /\ UNCHANGED <<bins, told, zip, paired, user, pair, server>>

(***************************************************************************)
(* orb_server.py --push-anims.                                              *)
(***************************************************************************)
\* Without --push-anims.
StartBare ==
  /\ pc = "down" /\ pc' = "cert" /\ as' = {} /\ read' = NoRead /\ st' = NoStage
  /\ UNCHANGED <<files, pair, stops>>

\* Given one .bin: no pack, and no duration but the default.
StartRaw(s, a) ==
  /\ pc = "down" /\ bins[s] # NoFile
  /\ LET one == <<[folder |-> s[1], name |-> s[2], bin |-> bins[s]]>> IN
       /\ read' = [manifest |-> one, bytes |-> one, paired |-> FALSE]
       /\ st' = Staged(Manifest(one, NoSidecar), BytesOf(one), a)
  /\ pc' = "cert" /\ as' = a
  /\ UNCHANGED <<files, pair, stops>>

\* A pack that cannot be read ends the program; a sidecar that cannot is passed over.
StartServer(a) ==
  /\ pc = "down" /\ Pack
  /\ pc' = "bytes" /\ as' = a /\ read' = [NoRead EXCEPT !.manifest = zip, !.paired = paired]
  /\ st' = [NoStage EXCEPT !.anims =
       Manifest(zip, IF sidecar \in {NoFile, Torn} THEN NoSidecar ELSE sidecar)]
  /\ UNCHANGED <<files, pair, stops>>

\* The pack is opened a second time for the bytes.
ReadBytes ==
  /\ pc = "bytes" /\ Pack
  /\ LET new == Staged(st.anims, BytesOf(zip), as) IN
       /\ st' = new /\ pc' = IF new.ok THEN "cert" ELSE "down"
  /\ read' = [read EXCEPT !.bytes = zip]
  /\ UNCHANGED <<as, files, pair, stops>>

ReadBytesFails ==
  /\ pc = "bytes" /\ ~Pack /\ pc' = "down"
  /\ UNCHANGED <<as, read, st, files, pair, stops>>

\* Mutant of EnsureCert: one of the two files is enough.
EnsureCert_Either ==
  /\ pc = "cert"
  /\ IF key # NoFile \/ cert # NoFile THEN pc' = "load" /\ UNCHANGED key
     ELSE pc' = "key" /\ key' = Torn
  /\ UNCHANGED <<cert, cut, as, read, st, files, stops>>

\* ensure_cert looks whether the files exist, and opens the key to write it.
EnsureCert ==
  /\ pc = "cert"
  /\ IF key # NoFile /\ cert # NoFile THEN pc' = "load" /\ UNCHANGED key
     ELSE pc' = "key" /\ key' = Torn
  /\ UNCHANGED <<cert, cut, as, read, st, files, stops>>

\* Neither cryptography nor openssl: the program ends with both files as they were.
NoGenerator ==
  /\ pc = "cert" /\ (key = NoFile \/ cert = NoFile) /\ stops < MaxStops
  /\ pc' = "down" /\ stops' = stops + 1
  /\ UNCHANGED <<as, read, st, files, pair>>

\* The key, of a generation of its own; then the certificate is emptied, and written.
WriteKey ==
  /\ pc = "key"
  /\ key' = stops + 1 /\ pc' = "certfile"
  /\ UNCHANGED <<cert, cut, as, read, st, files, stops>>

OpenCert ==
  /\ pc = "certfile" /\ cert # Torn /\ cert' = Torn
  /\ UNCHANGED <<key, cut, server, files, stops>>

WriteCert ==
  /\ pc = "certfile" /\ cert = Torn
  /\ cert' = key /\ pc' = "load"
  /\ UNCHANGED <<key, cut, as, read, st, files, stops>>

\* load_cert_chain takes a whole pair; then both sockets are opened.
Load ==
  /\ pc = "load"
  /\ pc' = IF key = cert /\ key # Torn THEN "listening" ELSE "down"
  /\ UNCHANGED <<as, read, st, files, pair, stops>>

StopServer ==
  /\ pc # "down" /\ stops < MaxStops
  /\ pc' = "down" /\ stops' = stops + 1
  /\ cut' = (cut \/ pc \in {"key", "certfile"})
  /\ UNCHANGED <<as, read, st, key, cert, files>>

User == \/ \E s \in Sources, bin \in Encodings : Encode(s, bin)
        \/ \E pack \in Packs : BeginPack(pack)
Packing == WriteZip \/ WriteSidecar
Server == ReadBytes \/ ReadBytesFails \/ EnsureCert \/ WriteKey \/ OpenCert \/ WriteCert \/ Load

Next ==
  \/ User \/ Packing \/ StopPack
  \/ StartBare \/ \E a \in AsNames : StartServer(a) \/ \E s \in Sources : StartRaw(s, a)
  \/ Server \/ NoGenerator \/ StopServer

\* A program that runs goes on, and the user starts the server again.
Spec ==
  /\ Init /\ [][Next]_vars
  /\ WF_vars(Packing) /\ WF_vars(Server) /\ WF_vars(\E a \in AsNames : StartServer(a))

-----------------------------------------------------------------------------
\* Names that get in each other's way: two entries of one base name, an
\* --anim-as that another entry has, a name that needs no cutting and is what
\* another is cut to.
Given(i) == IF i = 1 /\ as # {} THEN CHOOSE a \in as : TRUE ELSE read.manifest[i].name
Clash ==
  \E i, j \in DOMAIN read.manifest :
    /\ i # j
    /\ \/ read.manifest[i].name = read.manifest[j].name
       \/ Given(i) = Given(j)
       \/ /\ Given(i).len <= Budget /\ Given(j).len > Budget
          /\ Given(i) = Shortened(Given(j), j, TRUE)

Listening == pc = "listening"

\* What the device is told to download is there: every entry of the manifest the
\* server pushes is served under its name, with the bytes that were packed for it
\* and the size the device checks them by, and its name on the fan fits, unless
\* the names packed get in each other's way or the pack changed while it was read.
ServedAsPacked ==
  Listening /\ read.manifest = read.bytes /\ ~Clash =>
    \A i \in DOMAIN st.anims :
      /\ Get(st, st.anims[i].name) = {read.manifest[i].bin}
      /\ st.anims[i].size = FileSize(read.manifest[i].bin)
      /\ Dest(st.anims[i].name) < 31

\* A file packed alone and to the end, as the encoder said, loops without a snap:
\* the device plays as many frames as the file has, after which the picture is as
\* near to where it began as the tolerance asks, or as any length comes.
LoopsWithoutSnap ==
  Listening /\ read.paired /\ Len(read.manifest) = 1 =>
    LET bin == read.manifest[1].bin
        played == st.anims[1].duration \div FrameMs
    IN  /\ played = bin.frames
        /\ \/ SeamDeg(played, bin.deg) <= Tol
           \/ \A n \in 1..Hi : SeamDeg(played, bin.deg) <= SeamDeg(n, bin.deg)

\* The decoder finds every column of every revolution that was encoded.
DecodesBack ==
  \A s \in Sources : bins[s] # NoFile =>
    LET file == FileColumns(bins[s]) IN
      \A i \in 0..(bins[s].frames - 1), c \in 0..(Cpr - 1) :
        Decoded(file, i, c) = FrameColumn(bins[s], i, c)

\* Started again and again, the server listens in the end, with whatever key and
\* certificate it found, unless the pack is unfit or it was cut off while it wrote
\* the two files.
Unfit == ~Pack \/ \E a \in AsNames : ~Staged(Manifest(zip, NoSidecar), BytesOf(zip), a).ok
StartRecovers == <>[](Listening \/ cut \/ Unfit)
=============================================================================
