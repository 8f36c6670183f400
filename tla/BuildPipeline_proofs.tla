------------------------- MODULE BuildPipeline_proofs -------------------------
(***************************************************************************)
(* Theorems about the image pipeline, for every dump, list of sounds and    *)
(* edits, and number of runs: app images stay valid through any chain of    *)
(* patchers, the dumps survive, and a run that says all is well ships what  *)
(* it was asked for.                                                        *)
(***************************************************************************)
EXTENDS BuildPipeline, TLAPS, WellFoundedInduction

\* What the proofs need to know of an image's type.
IsImage(img) ==
  img \in [code : [Sites -> Codes], clip : {img.clip}, slot : {img.slot}, sum : {img.sum},
           hashed : {img.hashed}, digest : {img.digest}]

\* The image is as right as the first dump was.
AsRight(img) ==
  /\ IsImage(img)
  /\ SumRight(stock.fw) => SumRight(img)
  /\ DigestRight(stock.fw) => DigestRight(img)

Temps == {".app_auth", ".app_pin", ".app_audio"}

FilesOK == files = [p \in Paths |-> files[p]]
ImagesOK == \A p \in AppFiles : Whole(p) => AsRight(files[p])
AudioOK == Whole(".app_audio") => SumRight(files[".app_audio"])

\* In the app stage the next file to read is the one given, or a temporary.
CurOK ==
  stage = "app" =>
    /\ args \in Arguments /\ args.fw \in AppFiles /\ done \in Nat
    /\ IF done = 0 THEN cur = args.fw ELSE cur \in Temps

IInv == FilesOK /\ ImagesOK /\ AudioOK /\ CurOK

(***************************************************************************)
(* The patchers.                                                            *)
(***************************************************************************)
LEMMA RehashKeeps ==
  ASSUME NEW img, IsImage(img)
  PROVE  /\ IsImage(Rehash(img))
         /\ SumRight(img) => SumRight(Rehash(img))
         /\ DigestRight(Rehash(img))
  <1>1. CASE img.hashed
    <2> DEFINE new == [img EXCEPT !.digest = DigestOf(img)]
    <2>1. Rehash(img) = new BY <1>1 DEF Rehash
    <2>2. /\ new.code = img.code /\ new.clip = img.clip /\ new.slot = img.slot
          /\ new.sum = img.sum /\ new.digest = DigestOf(img)
      BY DEF IsImage
    <2>3. IsImage(new) BY <2>2 DEF IsImage
    <2>4. TrueSum(new) = TrueSum(img) /\ DigestOf(new) = DigestOf(img)
      BY <2>2 DEF TrueSum, DigestOf
    <2> QED BY <2>1, <2>2, <2>3, <2>4 DEF SumRight, DigestRight
  <1>2. CASE ~img.hashed BY <1>2 DEF Rehash, DigestRight
  <1> QED BY <1>1, <1>2

\* The checksum moved by the difference is the checksum of the patched image.
LEMMA PatchedSum ==
  ASSUME NEW img, IsImage(img), NEW s \in Sites, Patchable(s, img), SumRight(img),
         NEW new, new.code = [img.code EXCEPT ![s] = "patched"],
         new.clip = img.clip, new.slot = img.slot
  PROVE  Xor(img.sum, {<<s, img.code[s]>>, <<s, "patched">>}) = TrueSum(new)
  <1> DEFINE diff == {<<s, "stock">>, <<s, "patched">>}
             sounds == {<<n, img.clip[n], img.slot[n]>> : n \in Names}
             of(c) == {<<t, c[t]>> : t \in Sites}
  <1>1. img.code[s] = "stock" /\ img.code \in [Sites -> Codes]
    BY DEF Patchable, IsImage
  <1>2. img.sum = of(img.code) \cup sounds BY DEF SumRight, TrueSum
  <1>3. TrueSum(new) = of([img.code EXCEPT ![s] = "patched"]) \cup sounds
    BY DEF TrueSum
  <1>4. diff \cap sounds = {}
    <2> SUFFICES ASSUME NEW n \in Names, NEW c,
                        <<n, img.clip[n], img.slot[n]>> = <<s, c>>
                 PROVE FALSE
      OBVIOUS
    <2>1. Len(<<n, img.clip[n], img.slot[n]>>) = 3 /\ Len(<<s, c>>) = 2 OBVIOUS
    <2> QED BY <2>1
  <1>5. of([img.code EXCEPT ![s] = "patched"]) = (of(img.code) \ {<<s, "stock">>}) \cup {<<s, "patched">>}
    BY <1>1
  <1>6. <<s, "patched">> \notin of(img.code) /\ <<s, "stock">> \in of(img.code)
    BY <1>1
  <1> QED BY <1>1, <1>2, <1>3, <1>4, <1>5, <1>6 DEF Xor

\* A patcher of code keeps what was right of an image.
LEMMA PatchedRight ==
  ASSUME NEW img, AsRight(img), NEW s \in Sites, Patchable(s, img)
  PROVE  AsRight(Patched(s, img))
  <1> DEFINE new == [img EXCEPT !.code[s] = "patched",
                                !.sum = Xor(@, {<<s, img.code[s]>>, <<s, "patched">>})]
  <1>1. IsImage(img) /\ (SumRight(stock.fw) => SumRight(img))
    BY DEF AsRight
  <1>2. /\ new.code = [img.code EXCEPT ![s] = "patched"] /\ new.clip = img.clip
        /\ new.slot = img.slot
        /\ new.sum = Xor(img.sum, {<<s, img.code[s]>>, <<s, "patched">>})
        /\ IsImage(new)
    BY <1>1 DEF IsImage, Codes
  <1>3. Patched(s, img) = Rehash(new) BY DEF Patched
  <1> HIDE DEF new
  <1>4. SumRight(img) => SumRight(new)
    BY <1>1, <1>2, PatchedSum DEF SumRight
  <1> QED BY <1>1, <1>2, <1>3, <1>4, RehashKeeps DEF AsRight

\* patch_system_audio puts the checksum right and keeps the digest so.
LEMMA SoundsRight ==
  ASSUME NEW img, AsRight(img), NEW sets
  PROVE  AsRight(WithSounds(sets, img)) /\ SumRight(WithSounds(sets, img))
  <1> DEFINE put == Spliced(sets, Len(sets), img)
             new == [put EXCEPT !.sum = TrueSum(put)]
  <1>1. IsImage(img) BY DEF AsRight
  <1>2. IsImage(put) BY <1>1 DEF IsImage, Spliced
  <1> HIDE DEF put
  <1>3. /\ new.code = put.code /\ new.clip = put.clip /\ new.slot = put.slot
        /\ new.sum = TrueSum(put) /\ IsImage(new)
    BY <1>2 DEF IsImage
  <1>4. WithSounds(sets, img) = Rehash(new) BY DEF WithSounds, put
  <1> HIDE DEF new
  <1>5. SumRight(new) BY <1>3 DEF SumRight, TrueSum
  <1> QED BY <1>3, <1>4, <1>5, RehashKeeps DEF AsRight

(***************************************************************************)
(* Steps.                                                                   *)
(***************************************************************************)
\* What a step does to the images when it writes one file.
LEMMA WriteKeeps ==
  ASSUME FilesOK, ImagesOK, AudioOK, stock' = stock, NEW p \in Paths, NEW c, Writes(p, c),
         p \in AppFiles /\ c \notin {NoFile, Torn} => AsRight(c),
         p = ".app_audio" /\ c \notin {NoFile, Torn} => SumRight(c)
  PROVE  FilesOK' /\ ImagesOK' /\ AudioOK'
  <1>1. files' = [q \in Paths |-> IF q = p THEN c ELSE files[q]]
    BY DEF FilesOK, Writes
  <1>2. FilesOK' BY <1>1 DEF FilesOK
  <1>3. ImagesOK'
    <2> SUFFICES ASSUME NEW q \in AppFiles, files'[q] \notin {NoFile, Torn}
                 PROVE  AsRight(files[q])'
      BY DEF ImagesOK, Whole
    <2>1. AsRight(files'[q]) BY <1>1 DEF ImagesOK, Whole, Paths
    <2> QED BY <2>1 DEF AsRight
  <1>4. AudioOK' BY <1>1 DEF AudioOK, Whole, Paths, AppFiles
  <1> QED BY <1>2, <1>3, <1>4

\* A step that writes no file keeps what the files are.
LEMMA SameKeeps ==
  ASSUME FilesOK, ImagesOK, AudioOK, stock' = stock, files' = files
  PROVE  FilesOK' /\ ImagesOK' /\ AudioOK'
  BY DEF FilesOK, ImagesOK, AudioOK, AsRight, Whole

\* A step that fails, its output not written or torn.
LEMMA FailKeeps ==
  ASSUME IInv, NEW dst \in Paths, FailInto(dst)
  PROVE  IInv'
  <1>1. stock' = stock /\ stage' = "idle" BY DEF FailInto, Static, Ends
  <1>2. CASE files' = files BY <1>1, <1>2, SameKeeps DEF IInv, CurOK
  <1>3. CASE Writes(dst, Torn) BY <1>1, <1>3, WriteKeeps DEF IInv, CurOK
  <1> QED BY <1>2, <1>3 DEF FailInto

\* Before the first run there is one app image, the dump.
LEMMA InitIInv == Init => IInv
  <1> SUFFICES ASSUME Init PROVE IInv OBVIOUS
  <1>1. /\ stock.fw \in Image
        /\ files = [p \in Paths |-> IF p = "fw_in" THEN stock.fw
                                    ELSE IF p = "nvs_in" THEN stock.nvs ELSE NoFile]
        /\ stage = "idle"
    BY PipelineAssumption DEF Init
  <1>2. IsImage(stock.fw) BY <1>1 DEF IsImage, Image
  <1>3. AsRight(stock.fw) BY <1>2 DEF AsRight
  <1>4. ImagesOK
    <2> SUFFICES ASSUME NEW p \in AppFiles, Whole(p) PROVE AsRight(files[p])
      BY DEF ImagesOK
    <2>1. p = "fw_in" BY <1>1 DEF Whole, AppFiles, Paths
    <2> QED BY <1>1, <1>3, <2>1 DEF Paths, AppFiles
  <1>5. AudioOK BY <1>1 DEF AudioOK, Whole, Paths, AppFiles
  <1> QED BY <1>1, <1>4, <1>5 DEF IInv, FilesOK, CurOK

\* The patch of one step of a build, of what Takes accepts.
LEMMA GivesRight ==
  ASSUME NEW s \in {"auth", "pin", "audio"}, NEW img, AsRight(img), Takes(s, img)
  PROVE  AsRight(Gives(s, img)) /\ (s = "audio" => SumRight(Gives(s, img)))
  <1>1. CASE s = "audio" BY <1>1, SoundsRight DEF Gives
  <1>2. CASE s # "audio" BY <1>2, PatchedRight DEF Gives, Takes, Sites
  <1> QED BY <1>1, <1>2

\* The steps of a build and the temporaries they write.
LEMMA AppStepsAre ==
  ASSUME NEW i \in 1..Len(AppSteps)
  PROVE  AppSteps[i] \in {"auth", "pin", "audio"}
  BY DEF AppSteps

LEMMA TempOf ==
  ASSUME NEW s \in {"auth", "pin", "audio"}
  PROVE  /\ AppTemp(s) \in Temps /\ AppTemp(s) \in AppFiles /\ AppTemp(s) \in Paths
         /\ AppTemp(s) = ".app_audio" => s = "audio"
  BY DEF AppTemp, Temps, AppFiles, Paths

\* No step over NVS writes an app file or the NVS dump.
LEMMA NvsWhere == NvsDst \in NvsFiles /\ NvsDst \in Paths /\ NvsDst \notin AppFiles /\ NvsDst # "nvs_in"
  BY DEF NvsDst, NvsTemp, NvsFiles, Paths, AppFiles

\* Every step keeps the invariant: one case per action.
LEMMA NextIInv == IInv /\ [Next]_vars => IInv'
  <1> SUFFICES ASSUME IInv, [Next]_vars PROVE IInv' OBVIOUS
  <1> USE DEF IInv
  <1>1. ASSUME NEW a \in Invocations, Start(a) PROVE IInv'
    <2>1. files' = files /\ stock' = stock /\ args' = a BY <1>1 DEF Start
    <2>2. a \in Arguments /\ a.fw \in AppFiles \cup {None} BY PipelineAssumption DEF Arguments
    <2>3. CurOK' BY <1>1, <2>1, <2>2 DEF CurOK, Start, Go
    <2> QED BY <2>1, <2>3, SameKeeps
  <1>2. ASSUME NEW src \in AppFiles, ByHand(src) PROVE IInv'
    <2>1. Whole(src) /\ stock' = stock /\ stage = "idle" /\ stage' = stage BY <1>2 DEF ByHand
    <2>2. AsRight(files[src]) BY <2>1 DEF ImagesOK
    <2>3. \E img : AsRight(img) /\ Writes("by_hand", img)
      BY <1>2, <2>2, PatchedRight, SoundsRight DEF ByHand
    <2>4. FilesOK' /\ ImagesOK' /\ AudioOK'
      BY <2>1, <2>3, WriteKeeps DEF Paths, AppFiles
    <2> QED BY <2>1, <2>4 DEF CurOK
  <1>3. CASE AppStep
    <2> DEFINE s == AppSteps[done + 1]
    <2>1. /\ stage = "app" /\ done \in Nat /\ done < Len(AppSteps) /\ Whole(cur)
          /\ Takes(s, files[cur]) /\ Writes(AppTemp(s), Gives(s, files[cur]))
          /\ cur' = AppTemp(s) /\ done' = done + 1 /\ stage' = stage
          /\ stock' = stock /\ args' = args
      BY <1>3 DEF AppStep, InApp, CurOK, Static
    <2>2. s \in {"auth", "pin", "audio"}
      <3>1. Len(AppSteps) \in Nat BY DEF AppSteps
      <3>2. done + 1 \in 1..Len(AppSteps) BY <2>1, <3>1
      <3> QED BY <3>2, AppStepsAre
    <2>3. AsRight(files[cur]) BY <2>1 DEF ImagesOK, CurOK, Temps, AppFiles
    <2>4. FilesOK' /\ ImagesOK' /\ AudioOK'
      BY <2>1, <2>2, <2>3, GivesRight, TempOf, WriteKeeps
    <2>5. CurOK' BY <2>1, <2>2, TempOf DEF CurOK
    <2> QED BY <2>4, <2>5
  <1>4. CASE AppStepFails
    <2>1. \E s \in {"auth", "pin", "audio"} : FailInto(AppTemp(s))
      <3>1. Len(AppSteps) \in Nat BY DEF AppSteps
      <3>2. done + 1 \in 1..Len(AppSteps) BY <1>4, <3>1 DEF AppStepFails, InApp, CurOK
      <3> QED BY <1>4, <3>2, AppStepsAre DEF AppStepFails
    <2> QED BY <2>1, TempOf, FailKeeps
  <1>5. CASE AppMove
    <2>1. /\ stage = "app" /\ cur \in AppFiles /\ files[cur] # NoFile
          /\ files' = [p \in Paths |-> Final(p)]
          /\ stage' = "nvs" /\ stock' = stock
      BY <1>5 DEF AppMove, Go, Static, CurOK, Temps, AppFiles
    <2>2. \A p \in AppFiles : files'[p] \in {NoFile, files[cur], files[p]}
      BY <2>1 DEF Final, Paths
    <2>3. ImagesOK'
      <3> SUFFICES ASSUME NEW p \in AppFiles, files'[p] \notin {NoFile, Torn}
                   PROVE  AsRight(files[p])'
        BY DEF ImagesOK, Whole
      <3>1. AsRight(files'[p]) BY <2>1, <2>2 DEF ImagesOK, Whole
      <3> QED BY <2>1, <3>1 DEF AsRight
    <2>4. AudioOK' BY <2>1 DEF AudioOK, Whole, Final, Paths, AppFiles
    <2> QED BY <2>1, <2>3, <2>4 DEF FilesOK, CurOK
  <1>6. CASE AppMoveFails
    BY <1>6, FailKeeps DEF AppMoveFails, Paths, AppFiles
  <1>7. CASE NvsStep
    <2>1. /\ stage = "nvs" /\ stage' = stage /\ stock' = stock
          /\ \E c : Writes(NvsDst, c)
      BY <1>7 DEF NvsStep, InNvs, Static
    <2>2. FilesOK' /\ ImagesOK' /\ AudioOK'
      BY <2>1, NvsWhere, WriteKeeps DEF AppFiles
    <2> QED BY <2>1, <2>2 DEF CurOK
  <1>8. CASE NvsStepFails
    BY <1>8, NvsWhere, FailKeeps DEF NvsStepFails, Paths, NvsFiles
  <1>9. CASE NvsDone
    <2>1. /\ stock' = stock /\ stage' # "app"
          /\ files' = [p \in Paths |->
               IF \E i \in 1..(Len(Edits) - 1) : p = NvsTemp(i) THEN NoFile ELSE files[p]]
      BY <1>9 DEF NvsDone, Go, Static
    <2>2. \A p \in AppFiles : files'[p] \in {NoFile, files[p]}
      BY <2>1 DEF Paths
    <2>3. ImagesOK'
      <3> SUFFICES ASSUME NEW p \in AppFiles, files'[p] \notin {NoFile, Torn}
                   PROVE  AsRight(files[p])'
        BY DEF ImagesOK, Whole
      <3>1. AsRight(files'[p]) BY <2>2 DEF ImagesOK, Whole
      <3> QED BY <2>1, <3>1 DEF AsRight
    <2>4. AudioOK' BY <2>2 DEF AudioOK, Whole, AppFiles
    <2> QED BY <2>1, <2>3, <2>4 DEF FilesOK, CurOK
  <1>10. CASE Wifi
    <2>1. /\ stock' = stock /\ stage' # "app"
          /\ files' = files \/ Writes("wifi", "image")
      BY <1>10 DEF Wifi, Go, Static
    <2>2. FilesOK' /\ ImagesOK' /\ AudioOK'
      BY <2>1, SameKeeps, WriteKeeps DEF Paths, AppFiles
    <2> QED BY <2>1, <2>2 DEF CurOK
  <1>11. CASE WifiFails
    BY <1>11, FailKeeps DEF WifiFails, Paths
  <1>12. CASE Include \/ Preflight
    <2>1. stock' = stock /\ stage' = "idle" /\ files' = files
      BY <1>12 DEF Include, Preflight, Ends, Static
    <2> QED BY <2>1, SameKeeps DEF CurOK
  <1>13. CASE UNCHANGED vars
    BY <1>13, SameKeeps DEF vars, CurOK, Temps
  <1> QED
    BY <1>1, <1>2, <1>3, <1>4, <1>5, <1>6, <1>7, <1>8, <1>9, <1>10, <1>11, <1>12, <1>13 DEF Next

-----------------------------------------------------------------------------
(***************************************************************************)
(* Theorems.                                                                *)
(***************************************************************************)
\* In every reachable state the images are as right as the dump was.
THEOREM Invariance == Spec => []IInv
  BY InitIInv, NextIInv, PTL DEF Spec

\* Whatever patchers have been over an app image (build_orb.py's chain, or by
\* hand), in whatever order and with failures in between, its checksum and its
\* digest are right if those of the first dump were.
THEOREM Validity == Spec => []ImagesStayValid
  <1>1. IInv => ImagesStayValid
    BY DEF IInv, ImagesOK, AudioOK, AsRight, ImagesStayValid, AppFiles
  <1> QED BY <1>1, Invariance, PTL

\* What a step of the pipeline may do to the user's dumps.
DumpsKept ==
  /\ files'["nvs_in"] = files["nvs_in"]
  /\ files'["fw_in"] # files["fw_in"] =>
       /\ args.fw = "fw_in" /\ args.sites = {} /\ args.audio = <<>>
       /\ files'["app_final"] = files["fw_in"]

\* A file that is written is not a dump.
LEMMA WriteSpares ==
  ASSUME FilesOK, NEW p \in Paths, NEW c, Writes(p, c), p \notin {"fw_in", "nvs_in"}
  PROVE  DumpsKept
  BY DEF FilesOK, Writes, DumpsKept, Paths, AppFiles, NvsFiles

LEMMA FailSpares ==
  ASSUME FilesOK, NEW p \in Paths, FailInto(p), p \notin {"fw_in", "nvs_in"}
  PROVE  DumpsKept
  BY WriteSpares DEF FailInto, DumpsKept

\* build_orb.py and reprovision.py leave the user's dumps alone whatever fails;
\* only a build that patches nothing moves the app dump to app_final.bin.
THEOREM DumpsAreSafe == Spec => DumpsSurvive
  <1>1. ASSUME IInv, [Next]_vars PROVE DumpsKept \/ UNCHANGED vars
    <2> USE <1>1 DEF IInv
    <2>1. ASSUME NEW src \in AppFiles, ByHand(src) PROVE DumpsKept
      BY <2>1, WriteSpares DEF ByHand, Paths, AppFiles
    <2>2. CASE AppStep \/ AppStepFails
      <3> DEFINE s == AppSteps[done + 1]
      <3>1. s \in {"auth", "pin", "audio"}
        <4>1. Len(AppSteps) \in Nat BY DEF AppSteps
        <4>2. done + 1 \in 1..Len(AppSteps) BY <2>2, <4>1 DEF AppStep, AppStepFails, InApp, CurOK
        <4> QED BY <4>2, AppStepsAre
      <3>2. AppTemp(s) \in Paths \ {"fw_in", "nvs_in"}
        BY <3>1, TempOf DEF Temps
      <3>3. (\E c : Writes(AppTemp(s), c)) \/ FailInto(AppTemp(s))
        BY <2>2 DEF AppStep, AppStepFails
      <3> QED BY <3>2, <3>3, WriteSpares, FailSpares
    <2>3. CASE AppMove
      <3>1. /\ stage = "app" /\ done = Len(AppSteps) /\ files' = [p \in Paths |-> Final(p)]
            /\ args \in Arguments /\ args.fw \in AppFiles
            /\ IF done = 0 THEN cur = args.fw ELSE cur \in Temps
        BY <2>3 DEF AppMove, CurOK
      <3>2. files'["nvs_in"] = files["nvs_in"] /\ files'["app_final"] = files[cur]
        BY <3>1 DEF Final, Paths, AppFiles, NvsFiles, Temps
      <3>3. ASSUME files'["fw_in"] # files["fw_in"] PROVE cur = "fw_in"
        BY <3>1, <3>3 DEF Final, Paths, AppFiles
      <3>4. ASSUME cur = "fw_in" PROVE args.sites = {} /\ args.audio = <<>> /\ args.fw = "fw_in"
        <4>1. done = 0 /\ args.fw = "fw_in" BY <3>1, <3>4 DEF Temps
        <4>2. Len(AppSteps) = 0 BY <3>1, <4>1
        <4>3. "auth" \notin args.sites /\ "pin" \notin args.sites /\ args.audio = <<>>
          BY <4>2 DEF AppSteps
        <4>4. args.sites \subseteq {"auth", "pin"} BY <3>1 DEF Arguments
        <4> QED BY <4>1, <4>3, <4>4
      <3> QED BY <3>2, <3>3, <3>4 DEF DumpsKept
    <2>4. CASE AppMoveFails BY <2>4, FailSpares DEF AppMoveFails, Paths, AppFiles
    <2>5. CASE NvsStep \/ NvsStepFails
      <3>1. (\E c : Writes(NvsDst, c)) \/ FailInto(NvsDst) \/ FailInto("nvs_out")
        BY <2>5 DEF NvsStep, NvsStepFails
      <3> QED BY <3>1, NvsWhere, WriteSpares, FailSpares DEF AppFiles, Paths, NvsFiles
    <2>6. CASE NvsDone
      <3>1. files' = [p \in Paths |->
               IF \E i \in 1..(Len(Edits) - 1) : p = NvsTemp(i) THEN NoFile ELSE files[p]]
        BY <2>6 DEF NvsDone
      <3>2. \A i : NvsTemp(i) \in {".nvs0", ".nvs1", ".nvs2"} BY DEF NvsTemp
      <3>3. files'["nvs_in"] = files["nvs_in"] /\ files'["fw_in"] = files["fw_in"]
        BY <3>1, <3>2 DEF Paths, AppFiles, NvsFiles
      <3> QED BY <3>3 DEF DumpsKept
    <2>7. CASE Wifi \/ WifiFails
      <3>1. files' = files \/ Writes("wifi", "image") \/ FailInto("wifi")
        BY <2>7 DEF Wifi, WifiFails
      <3> QED BY <3>1, WriteSpares, FailSpares DEF DumpsKept, Paths
    <2>8. CASE Include \/ Preflight BY <2>8 DEF Include, Preflight, DumpsKept
    <2>9. ASSUME NEW a \in Invocations, Start(a) PROVE DumpsKept BY <2>9 DEF Start, DumpsKept
    <2> QED BY <1>1, <2>1, <2>2, <2>3, <2>4, <2>5, <2>6, <2>7, <2>8, <2>9 DEF Next
  <1>2. IInv /\ [Next]_vars => [DumpsKept]_vars BY <1>1
  <1> QED BY <1>2, Invariance, PTL DEF Spec, DumpsSurvive, DumpsKept

-----------------------------------------------------------------------------
(***************************************************************************)
(* The last of several sets for one name.                                   *)
(***************************************************************************)

\* Every set of numbers has a least one.
LEMMA Least ==
  ASSUME NEW T, T \subseteq Nat, T # {}
  PROVE  \E n \in T : \A m \in T : n <= m
  <1>1. PICK n \in T : \A m \in T : ~ (<<m, n>> \in OpToRel(<, Nat))
    BY NatLessThanWellFounded, WFMin, Zenon
  <1>2. \A m \in T : m \in Nat /\ n \in Nat /\ ~ (m < n) BY <1>1 DEF OpToRel
  <1>3. \A m \in T : n <= m BY <1>2
  <1> QED BY <1>3

\* A set of numbers up to n has a last one.
LEMMA LastIn ==
  ASSUME NEW n \in Nat, NEW T, T \subseteq 1..n, T # {}
  PROVE  \E i \in T : \A j \in (i + 1)..n : j \notin T
  <1> DEFINE B == {b \in Nat : \A m \in T : m <= b}
  <1>1. B \subseteq Nat /\ n \in B OBVIOUS
  <1> HIDE DEF B
  <1>2. PICK b \in B : \A c \in B : b <= c BY <1>1, Least
  <1>3. b \in Nat /\ \A m \in T : m <= b BY <1>2 DEF B
  <1>4. b \in T
    <2> SUFFICES ASSUME b \notin T PROVE FALSE OBVIOUS
    <2>1. PICK t \in T : TRUE OBVIOUS
    <2>2. b - 1 \in Nat /\ b - 1 < b /\ \A m \in T : m <= b - 1 BY <1>3, <2>1
    <2>3. b - 1 \in B BY <2>2 DEF B
    <2> QED BY <1>2, <1>3, <2>2, <2>3
  <1> QED BY <1>3, <1>4

\* What CHOOSE picks in SetFor is the last set for the name.
LEMMA SetForIs ==
  ASSUME NEW sets, NEW k \in Nat, NEW n \in SetsFor(sets, k)
  PROVE  /\ \E i \in 1..k : SetFor(sets, k, n) = sets[i] /\ sets[i][1] = n
                            /\ \A j \in (i + 1)..k : sets[j][1] # n
         /\ \A i \in 1..k : sets[i][1] = n /\ (\A j \in (i + 1)..k : sets[j][1] # n)
                              => SetFor(sets, k, n) = sets[i]
  <1> DEFINE T == {i \in 1..k : sets[i][1] = n}
             l == CHOOSE i \in 1..k : sets[i][1] = n /\ \A j \in (i + 1)..k : sets[j][1] # n
  <1>1. PICK i \in T : \A j \in (i + 1)..k : j \notin T
    <2>1. T \subseteq 1..k /\ T # {} BY DEF SetsFor
    <2> QED BY <2>1, LastIn
  <1>2. i \in 1..k /\ sets[i][1] = n /\ \A j \in (i + 1)..k : sets[j][1] # n
    <2>1. \A j \in (i + 1)..k : j \in 1..k OBVIOUS
    <2> QED BY <1>1, <2>1
  <1>3. l \in 1..k /\ sets[l][1] = n /\ \A j \in (l + 1)..k : sets[j][1] # n
    BY <1>2, Zenon
  <1>4. SetFor(sets, k, n) = sets[l] BY DEF SetFor
  <1> HIDE DEF l
  <1>5. ASSUME NEW m \in 1..k, sets[m][1] = n, \A j \in (m + 1)..k : sets[j][1] # n
        PROVE  m = l
    <2>1. ~(m < l) BY <1>3, <1>5
    <2>2. ~(l < m) BY <1>3, <1>5
    <2> QED BY <1>3, <2>1, <2>2
  <1> QED BY <1>3, <1>4, <1>5

\* With one set more, the last one for a name is that or the one before.
LEMMA SetForNext ==
  ASSUME NEW sets, NEW k \in Nat
  PROVE  /\ SetsFor(sets, k + 1) = SetsFor(sets, k) \cup {sets[k + 1][1]}
         /\ SetFor(sets, k + 1, sets[k + 1][1]) = sets[k + 1]
         /\ \A n \in SetsFor(sets, k) :
              n # sets[k + 1][1] => SetFor(sets, k + 1, n) = SetFor(sets, k, n)
  <1>1. \A i : i \in 1..(k + 1) <=> i \in 1..k \/ i = k + 1 OBVIOUS
  <1>2. SetsFor(sets, k + 1) = SetsFor(sets, k) \cup {sets[k + 1][1]}
    <2>1. ASSUME NEW x \in SetsFor(sets, k + 1)
          PROVE  x \in SetsFor(sets, k) \cup {sets[k + 1][1]}
      <3>1. PICK i \in 1..(k + 1) : x = sets[i][1] BY DEF SetsFor
      <3> QED BY <1>1, <3>1 DEF SetsFor
    <2>2. ASSUME NEW x \in SetsFor(sets, k) PROVE x \in SetsFor(sets, k + 1)
      <3>1. PICK i \in 1..k : x = sets[i][1] BY DEF SetsFor
      <3> QED BY <1>1, <3>1 DEF SetsFor
    <2>3. sets[k + 1][1] \in SetsFor(sets, k + 1) BY <1>1 DEF SetsFor
    <2> QED BY <2>1, <2>2, <2>3
  <1>3. SetFor(sets, k + 1, sets[k + 1][1]) = sets[k + 1]
    <2>1. k + 1 \in Nat /\ k + 1 \in 1..(k + 1) /\ sets[k + 1][1] \in SetsFor(sets, k + 1)
      BY <1>2
    <2>2. \A j \in ((k + 1) + 1)..(k + 1) : sets[j][1] # sets[k + 1][1] OBVIOUS
    <2> QED BY <2>1, <2>2, SetForIs
  <1>4. ASSUME NEW n \in SetsFor(sets, k), n # sets[k + 1][1]
        PROVE  SetFor(sets, k + 1, n) = SetFor(sets, k, n)
    <2>1. PICK i \in 1..k : SetFor(sets, k, n) = sets[i] /\ sets[i][1] = n
                            /\ \A j \in (i + 1)..k : sets[j][1] # n
      BY SetForIs
    <2>2. i \in 1..(k + 1) /\ \A j \in (i + 1)..(k + 1) : sets[j][1] # n
      BY <1>4, <2>1
    <2>3. n \in SetsFor(sets, k + 1) /\ k + 1 \in Nat BY <1>2
    <2> QED BY <2>1, <2>2, <2>3, SetForIs
  <1> QED BY <1>2, <1>3, <1>4

\* Spliced is the loop over the sets.
LEMMA SplicedTurn ==
  ASSUME NEW img \in Image, NEW sets \in Seq(Names \X Clips), NEW k \in Nat, k < Len(sets)
  PROVE  /\ Spliced(sets, 0, img) = img
         /\ Spliced(sets, k + 1, img) = Splice(Spliced(sets, k, img), sets[k + 1])
  <1> DEFINE a == Spliced(sets, k, img)
             b == Spliced(sets, k + 1, img)
             set == sets[k + 1]
             c == Splice(a, set)
  <1>1. set \in Names \X Clips /\ set[1] \in Names OBVIOUS
  <1>2. /\ a = [img EXCEPT !.clip = a.clip, !.slot = a.slot]
        /\ b = [img EXCEPT !.clip = b.clip, !.slot = b.slot]
        /\ a.clip = [n \in Names |-> IF n \in SetsFor(sets, k) THEN SetFor(sets, k, n)[2] ELSE img.clip[n]]
        /\ a.slot = [n \in Names |-> IF n \in SetsFor(sets, k) THEN ClipSize[SetFor(sets, k, n)[2]]
                                     ELSE img.slot[n]]
        /\ b.clip = [n \in Names |-> IF n \in SetsFor(sets, k + 1) THEN SetFor(sets, k + 1, n)[2]
                                     ELSE img.clip[n]]
        /\ b.slot = [n \in Names |-> IF n \in SetsFor(sets, k + 1) THEN ClipSize[SetFor(sets, k + 1, n)[2]]
                                     ELSE img.slot[n]]
    BY DEF Spliced, Image
  <1>3. c = [img EXCEPT !.clip = [a.clip EXCEPT ![set[1]] = set[2]],
                        !.slot = [a.slot EXCEPT ![set[1]] = ClipSize[set[2]]]]
    BY <1>2 DEF Splice, Image, Spliced
  <1> HIDE DEF a, b, c, set
  <1>8. /\ SetsFor(sets, k + 1) = SetsFor(sets, k) \cup {set[1]}
        /\ SetFor(sets, k + 1, set[1]) = set
        /\ \A n \in SetsFor(sets, k) : n # set[1] => SetFor(sets, k + 1, n) = SetFor(sets, k, n)
    BY SetForNext DEF set
  <1> HIDE DEF set
  <1>4. b.clip = [a.clip EXCEPT ![set[1]] = set[2]]
    <2> DEFINE f == [n \in Names |-> IF n = set[1] THEN set[2] ELSE a.clip[n]]
    <2>1. [a.clip EXCEPT ![set[1]] = set[2]] = f BY <1>1, <1>2
    <2>2. ASSUME NEW n \in Names PROVE b.clip[n] = f[n]
      <3>1. f[n] = IF n = set[1] THEN set[2] ELSE a.clip[n] OBVIOUS
      <3>2. CASE n = set[1] BY <1>2, <1>8, <3>1, <3>2
      <3>3. CASE n # set[1] BY <1>2, <1>8, <3>1, <3>3
      <3> QED BY <3>2, <3>3
    <2>3. f = [n \in Names |-> f[n]] /\ b.clip = [n \in Names |-> b.clip[n]] BY <1>2
    <2> HIDE DEF f
    <2> QED BY <2>1, <2>2, <2>3
  <1>5. b.slot = [a.slot EXCEPT ![set[1]] = ClipSize[set[2]]]
    <2> DEFINE f == [n \in Names |-> IF n = set[1] THEN ClipSize[set[2]] ELSE a.slot[n]]
    <2>1. [a.slot EXCEPT ![set[1]] = ClipSize[set[2]]] = f BY <1>1, <1>2
    <2>2. ASSUME NEW n \in Names PROVE b.slot[n] = f[n]
      <3>1. f[n] = IF n = set[1] THEN ClipSize[set[2]] ELSE a.slot[n] OBVIOUS
      <3>2. CASE n = set[1] BY <1>2, <1>8, <3>1, <3>2
      <3>3. CASE n # set[1] BY <1>2, <1>8, <3>1, <3>3
      <3> QED BY <3>2, <3>3
    <2>3. f = [n \in Names |-> f[n]] /\ b.slot = [n \in Names |-> b.slot[n]] BY <1>2
    <2> HIDE DEF f
    <2> QED BY <2>1, <2>2, <2>3
  <1>6. b = c BY <1>2, <1>3, <1>4, <1>5
  <1>7. Spliced(sets, 0, img) = img
    <2>1. SetsFor(sets, 0) = {} BY DEF SetsFor
    <2>2. /\ img.clip = [n \in Names |-> img.clip[n]] /\ img.slot = [n \in Names |-> img.slot[n]]
          /\ img = [img EXCEPT !.clip = img.clip, !.slot = img.slot]
      BY DEF Image
    <2>3. Spliced(sets, 0, img) = [img EXCEPT !.clip = [n \in Names |-> img.clip[n]],
                                              !.slot = [n \in Names |-> img.slot[n]]]
      BY <2>1 DEF Spliced
    <2> QED BY <2>2, <2>3
  <1> QED BY <1>6, <1>7 DEF a, b, c, set

\* Clips put into their slots leave an image.
LEMMA SplicedImage ==
  ASSUME NEW img \in Image, NEW sets \in Seq(Names \X Clips), NEW k \in 0..Len(sets)
  PROVE  Spliced(sets, k, img) \in Image
  <1>1. \A n \in SetsFor(sets, k) : SetFor(sets, k, n)[2] \in Clips
    BY SetForIs
  <1>2. \A v \in Clips : ClipSize[v] \in Nat BY FlashAssumption
  <1> QED BY <1>1, <1>2 DEF Spliced, Image


\* Every code patch, and what the sets leave in the slots.
Coded(img, sites) == [s \in Sites |-> IF s \in sites THEN "patched" ELSE img.code[s]]

\* What a flash command should hold does not depend on turns taken.
LEMMA AskedImageIs ==
  ASSUME NEW img \in Image, args.audio \in Seq(Names \X Clips)
  PROVE  AskedImage(img) = [code |-> Coded(img, args.sites),
                            clip |-> Spliced(args.audio, Len(args.audio), img).clip,
                            slot |-> Spliced(args.audio, Len(args.audio), img).slot, sum |-> {}]
  <1> DEFINE audio == args.audio
             L == Len(audio)
             coded == [img EXCEPT !.code = Coded(img, args.sites)]
             after == CHOOSE f : f = [k \in 0..L |-> IF k = 0 THEN coded
                                                     ELSE Splice(f[k - 1], audio[k])]
             W == [k \in 0..L |-> Spliced(audio, k, coded)]
  <1>1. L \in Nat /\ audio \in Seq(Names \X Clips) OBVIOUS
  <1>2. coded \in Image BY DEF Coded, Image, Codes
  <1>3. AskedImage(img) = DigestOf([after[L] EXCEPT !.sum = {}])
    BY DEF AskedImage, Coded
  <1> HIDE DEF coded, audio, L
  <1>4. W = [k \in 0..L |-> IF k = 0 THEN coded ELSE Splice(W[k - 1], audio[k])]
    <2>1. ASSUME NEW k \in 0..L
          PROVE  W[k] = IF k = 0 THEN coded ELSE Splice(W[k - 1], audio[k])
      <3>1. CASE k = 0
        <4>1. Spliced(audio, 0, coded) = coded
          <5>1. SetsFor(audio, 0) = {} BY DEF SetsFor
          <5>2. /\ coded.clip = [n \in Names |-> coded.clip[n]]
                /\ coded.slot = [n \in Names |-> coded.slot[n]]
                /\ coded = [coded EXCEPT !.clip = coded.clip, !.slot = coded.slot]
            BY <1>2 DEF Image
          <5>3. Spliced(audio, 0, coded) = [coded EXCEPT !.clip = [n \in Names |-> coded.clip[n]],
                                                         !.slot = [n \in Names |-> coded.slot[n]]]
            BY <5>1 DEF Spliced
          <5> QED BY <5>2, <5>3
        <4> QED BY <3>1, <4>1
      <3>2. CASE k # 0
        <4>1. k - 1 \in 0..L /\ k - 1 \in Nat /\ k - 1 < L /\ (k - 1) + 1 = k BY <1>1, <3>2
        <4>2. k - 1 < Len(audio) BY <4>1 DEF L
        <4>3. Spliced(audio, (k - 1) + 1, coded) = Splice(Spliced(audio, k - 1, coded), audio[(k - 1) + 1])
          BY <1>1, <1>2, <4>1, <4>2, SplicedTurn
        <4> QED BY <3>2, <4>1, <4>3
      <3> QED BY <3>1, <3>2
    <2> HIDE DEF W
    <2>2. W = [k \in 0..L |-> W[k]] BY DEF W
    <2> QED BY <2>1, <2>2
  <1> HIDE DEF W
  <1>5. after = [k \in 0..L |-> IF k = 0 THEN coded ELSE Splice(after[k - 1], audio[k])]
    BY <1>4
  <1> HIDE DEF after
  <1> DEFINE T == {k \in 0..L : after[k] # W[k]}
  <1>6. T = {}
    <2> SUFFICES ASSUME T # {} PROVE FALSE OBVIOUS
    <2>0. T \subseteq Nat BY <1>1
    <2> HIDE DEF T
    <2>1. PICK k \in T : \A m \in T : k <= m BY <2>0, Least
    <2>2. k \in 0..L /\ after[k] # W[k] BY DEF T
    <2>3. CASE k = 0 BY <1>4, <1>5, <2>2, <2>3
    <2>4. CASE k # 0
      <3>1. k - 1 \in 0..L /\ ~(k <= k - 1) BY <1>1, <2>2, <2>4
      <3>2. k - 1 \notin T BY <2>1, <3>1
      <3>3. after[k - 1] = W[k - 1] BY <3>1, <3>2 DEF T
      <3>4. after[k] = Splice(after[k - 1], audio[k]) /\ W[k] = Splice(W[k - 1], audio[k])
        BY <1>4, <1>5, <2>2, <2>4
      <3> QED BY <2>2, <3>3, <3>4
    <2> QED BY <2>3, <2>4
  <1>7. after[L] = Spliced(audio, L, coded)
    <2>1. L \in 0..L BY <1>1
    <2> QED BY <1>6, <2>1 DEF T, W
  <1>8. /\ Spliced(audio, L, coded).code = Coded(img, args.sites)
        /\ Spliced(audio, L, coded).clip = Spliced(audio, L, img).clip
        /\ Spliced(audio, L, coded).slot = Spliced(audio, L, img).slot
        /\ Spliced(audio, L, coded) \in Image
    <2>1. L \in 0..Len(audio) BY <1>1 DEF L
    <2>2. Spliced(audio, L, coded) \in Image BY <1>1, <1>2, <2>1, SplicedImage
    <2>3. coded.code = Coded(img, args.sites) /\ coded.clip = img.clip /\ coded.slot = img.slot
      BY DEF coded, Image
    <2>4. /\ Spliced(audio, L, coded).code = coded.code
          /\ Spliced(audio, L, coded).clip = [n \in Names |-> IF n \in SetsFor(audio, L)
                                                THEN SetFor(audio, L, n)[2] ELSE coded.clip[n]]
          /\ Spliced(audio, L, coded).slot = [n \in Names |-> IF n \in SetsFor(audio, L)
                                                THEN ClipSize[SetFor(audio, L, n)[2]] ELSE coded.slot[n]]
      BY <1>2 DEF Spliced, Image
    <2>5. /\ Spliced(audio, L, img).clip = [n \in Names |-> IF n \in SetsFor(audio, L)
                                                THEN SetFor(audio, L, n)[2] ELSE img.clip[n]]
          /\ Spliced(audio, L, img).slot = [n \in Names |-> IF n \in SetsFor(audio, L)
                                                THEN ClipSize[SetFor(audio, L, n)[2]] ELSE img.slot[n]]
      BY DEF Spliced, Image
    <2> QED BY <2>2, <2>3, <2>4, <2>5
  <1> DEFINE last == Spliced(audio, L, coded)
  <1>9. DigestOf([last EXCEPT !.sum = {}])
          = [code |-> last.code, clip |-> last.clip, slot |-> last.slot, sum |-> {}]
    <2> HIDE DEF last
    <2> SUFFICES ASSUME last \in Image
                 PROVE  DigestOf([last EXCEPT !.sum = {}])
                          = [code |-> last.code, clip |-> last.clip, slot |-> last.slot, sum |-> {}]
      BY <1>8 DEF last
    <2> QED BY DEF DigestOf, Image
  <1> QED BY <1>3, <1>7, <1>8, <1>9 DEF audio, L

-----------------------------------------------------------------------------
(***************************************************************************)
(* Types.                                                                   *)
(***************************************************************************)
Maps == [Keys -> NvsValues \cup {NoValue}]

Typed(f) ==
  /\ f = [p \in Paths |-> f[p]]
  /\ \A p \in AppFiles : f[p] \notin {NoFile, Torn} => f[p] \in Image
  /\ \A p \in NvsFiles : f[p] \notin {NoFile, Torn} => f[p] \in Maps

\* The steps of a stage there are, and that a run has done.
Steps == CASE stage = "app" -> Len(AppSteps) [] stage = "nvs" -> Len(Edits) [] OTHER -> 0

TypeInv ==
  /\ Typed(files) /\ Typed(was)
  /\ stock.fw \in StockImages /\ stock.nvs \in StockMaps
  /\ args \in Arguments \cup {NoArgs} /\ (stage # "idle" => args \in Arguments)
  /\ stage \in {"idle", "app", "nvs", "wifi", "included", "check"}
  /\ done \in Nat /\ done <= Steps
  /\ cur \in Paths \cup {None} /\ line \subseteq Paths
  /\ stage = "app" => args.fw \in AppFiles /\ cur \in AppFiles
  /\ stage = "nvs" => cur \in NvsFiles \cup {None}
  /\ verdict \in {"none", "failed", "good", "bad"} /\ runs \in 0..MaxRuns

\* Fields of the arguments.
LEMMA ArgumentsAre ==
  ASSUME args \in Arguments
  PROVE  /\ args.tool \in {"build", "reprovision"} /\ args.fw \in AppFiles \cup {None}
         /\ args.sites \subseteq {"auth", "pin"} /\ args.audio \in Seq(Names \X Clips)
         /\ args.nvs \in NvsFiles \cup {None} /\ args.register \in BOOLEAN
         /\ args.edits \in Seq(Keys \X NvsValues)
  BY PipelineAssumption DEF Arguments

EditsOf(a) ==
  (IF a.register /\ (a.nvs # None \/ a.tool = "reprovision")
   THEN << <<"REGISTER_STR", "1">> >> ELSE <<>>) \o a.edits

LEMMA EditsOfAre ==
  ASSUME NEW a \in Arguments
  PROVE  EditsOf(a) \in Seq(Keys \X NvsValues)
  <1>1. a.edits \in Seq(Keys \X NvsValues) BY PipelineAssumption DEF Arguments
  <1>2. << <<"REGISTER_STR", "1">> >> \in Seq(Keys \X NvsValues) /\ <<>> \in Seq(Keys \X NvsValues)
    BY PipelineAssumption
  <1> DEFINE first == IF a.register /\ (a.nvs # None \/ a.tool = "reprovision")
                      THEN << <<"REGISTER_STR", "1">> >> ELSE <<>>
  <1>3. first \in Seq(Keys \X NvsValues) BY <1>2
  <1>4. EditsOf(a) = first \o a.edits BY DEF EditsOf
  <1> HIDE DEF first
  <1> QED BY <1>1, <1>3, <1>4

LEMMA EditsAre ==
  ASSUME args \in Arguments
  PROVE  /\ Edits \in Seq(Keys \X NvsValues) /\ Len(Edits) \in Nat
         /\ \A i \in 1..Len(Edits) : Edits[i][1] \in Keys /\ Edits[i][2] \in NvsValues
  <1>1. Edits \in Seq(Keys \X NvsValues) BY EditsOfAre DEF Edits, EditsOf
  <1> QED BY <1>1

LEMMA AppStepsLen == Len(AppSteps) \in Nat
  BY DEF AppSteps

\* No file is of two kinds.
LEMMA PathsAre ==
  /\ AppFiles \subseteq Paths /\ NvsFiles \subseteq Paths /\ AppFiles \cap NvsFiles = {}
  /\ "wifi" \in Paths /\ "wifi" \notin AppFiles /\ "wifi" \notin NvsFiles
  /\ None \notin Paths /\ Temps \subseteq AppFiles /\ "app_final" \in AppFiles
  /\ "nvs_out" \in NvsFiles /\ "app_final" \notin Temps
  BY DEF AppFiles, NvsFiles, Paths, None, Temps

LEMMA TypeInvTypes == TypeInv => TypeOK
  BY DEF TypeInv, TypeOK, Typed, Whole, Steps, Maps

\* What the patchers make of an image is an image.
LEMMA PatchedImage ==
  ASSUME NEW img \in Image, NEW s \in Sites
  PROVE  Patched(s, img) \in Image
  <1> DEFINE new == [img EXCEPT !.code[s] = "patched",
                                !.sum = Xor(@, {<<s, img.code[s]>>, <<s, "patched">>})]
  <1>1. img.code[s] \in Codes /\ "patched" \in Codes BY DEF Image, Codes
  <1>2. Xor(img.sum, {<<s, img.code[s]>>, <<s, "patched">>}) \in SUBSET Pieces
    BY <1>1 DEF Xor, Pieces, Image
  <1>3. new \in Image BY <1>1, <1>2 DEF Image
  <1> HIDE DEF new
  <1>4. DigestOf(new) \in Digests BY <1>3 DEF DigestOf, Digests, Image
  <1>5. Rehash(new) \in Image BY <1>3, <1>4 DEF Rehash, Image
  <1> QED BY <1>5 DEF Patched, new

LEMMA SoundsImage ==
  ASSUME NEW img \in Image, NEW sets \in Seq(Names \X Clips)
  PROVE  WithSounds(sets, img) \in Image
  <1> DEFINE put == Spliced(sets, Len(sets), img)
             new == [put EXCEPT !.sum = TrueSum(put)]
  <1>1. put \in Image
    <2>1. Len(sets) \in 0..Len(sets) OBVIOUS
    <2> QED BY <2>1, SplicedImage
  <1> HIDE DEF put
  <1>2. TrueSum(put) \in SUBSET Pieces BY <1>1 DEF TrueSum, Pieces, Image
  <1>3. new \in Image BY <1>1, <1>2 DEF Image
  <1> HIDE DEF new
  <1>4. DigestOf(new) \in Digests BY <1>3 DEF DigestOf, Digests, Image
  <1>5. Rehash(new) \in Image BY <1>3, <1>4 DEF Rehash, Image
  <1> QED BY <1>5 DEF WithSounds, new, put

LEMMA GivesImage ==
  ASSUME args \in Arguments, NEW s \in {"auth", "pin", "audio"}, NEW img \in Image
  PROVE  Gives(s, img) \in Image
  <1>1. CASE s = "audio" BY <1>1, SoundsImage, ArgumentsAre DEF Gives
  <1>2. CASE s # "audio" BY <1>2, PatchedImage DEF Gives, Sites
  <1> QED BY <1>1, <1>2

LEMMA WritesTyped ==
  ASSUME Typed(files), NEW p \in Paths, NEW c, Writes(p, c),
         p \in AppFiles => c \in Image \cup {NoFile, Torn},
         p \in NvsFiles => c \in Maps \cup {NoFile, Torn}
  PROVE  /\ Typed(files')
         /\ files' = [q \in Paths |-> IF q = p THEN c ELSE files[q]]
  <1>1. files' = [q \in Paths |-> IF q = p THEN c ELSE files[q]]
    BY DEF Typed, Writes
  <1> QED BY <1>1, PathsAre DEF Typed

\* What a failure leaves.
LEMMA FailTyped ==
  ASSUME TypeInv, NEW dst \in Paths, FailInto(dst)
  PROVE  TypeInv'
  <1>1. /\ stage' = "idle" /\ verdict' = "failed" /\ done' = 0 /\ cur' = None /\ line' = line
        /\ stock' = stock /\ args' = args /\ was' = was /\ runs' = runs
    BY DEF FailInto, Ends, Static
  <1>2. Typed(files') BY WritesTyped DEF FailInto, TypeInv
  <1>3. Steps' = 0 BY <1>1 DEF Steps
  <1> QED BY <1>1, <1>2, <1>3 DEF TypeInv

\* The step a run is at.
LEMMA AppStepIs ==
  ASSUME TypeInv, InApp
  PROVE  /\ AppSteps[done + 1] \in {"auth", "pin", "audio"} /\ done + 1 \in 1..Len(AppSteps)
         /\ AppTemp(AppSteps[done + 1]) \in Temps /\ AppTemp(AppSteps[done + 1]) \in Paths
         /\ AppTemp(AppSteps[done + 1]) \in AppFiles
  <1>1. done + 1 \in 1..Len(AppSteps) BY AppStepsLen DEF TypeInv, InApp
  <1> QED BY <1>1, AppStepsAre, TempOf

LEMMA NvsStepIs ==
  ASSUME TypeInv, InNvs
  PROVE  /\ args \in Arguments /\ done + 1 \in 1..Len(Edits)
         /\ Edits[done + 1][1] \in Keys /\ Edits[done + 1][2] \in NvsValues
  <1>1. args \in Arguments BY DEF TypeInv, InNvs
  <1>2. done + 1 \in 1..Len(Edits) BY <1>1, EditsAre DEF TypeInv, InNvs
  <1> QED BY <1>1, <1>2, EditsAre

\* Every step keeps the types.
LEMMA NextTypeInv == TypeInv /\ [Next]_vars => TypeInv'
  <1> SUFFICES ASSUME TypeInv, [Next]_vars PROVE TypeInv' OBVIOUS
  <1>1. ASSUME NEW a \in Invocations, Start(a) PROVE TypeInv'
    <2>1. /\ files' = files /\ stock' = stock /\ args' = a /\ was' = files /\ line' = {}
          /\ verdict' = "none" /\ runs' = runs + 1 /\ runs < MaxRuns /\ done' = 0
      BY <1>1 DEF Start, Go
    <2>2. a \in Arguments /\ a.fw \in AppFiles \cup {None} /\ a.nvs \in NvsFiles \cup {None}
      BY PipelineAssumption DEF Arguments
    <2>3. \/ stage' = "wifi" /\ cur' = None
          \/ stage' = "app" /\ cur' = a.fw /\ a.fw # None
          \/ stage' = "nvs" /\ cur' = a.nvs
      BY <1>1 DEF Start, Go
    <2>4. runs + 1 \in 0..MaxRuns BY <2>1, PipelineAssumption DEF TypeInv
    <2>5. done' <= Steps'
      <3>1. Len(AppSteps') \in Nat /\ Len(Edits') \in Nat
        <4>1. Len(AppSteps)' \in Nat BY DEF AppSteps
        <4>2. EditsOf(a) \in Seq(Keys \X NvsValues) BY <2>2, EditsOfAre
        <4>3. Edits' = EditsOf(a) BY <2>1 DEF Edits, EditsOf
        <4>5. Len(Edits') \in Nat BY <4>2, <4>3
        <4> QED BY <4>1, <4>5
      <3> QED BY <2>1, <3>1 DEF Steps
    <2> QED BY <2>1, <2>2, <2>3, <2>4, <2>5, PathsAre DEF TypeInv
  <1>2. ASSUME NEW src \in AppFiles, ByHand(src) PROVE TypeInv'
    <2>1. /\ Whole(src) /\ stage = "idle" /\ runs < MaxRuns /\ runs' = runs + 1 /\ line' = {}
          /\ verdict' = "none" /\ stock' = stock /\ args' = args /\ stage' = stage /\ done' = done
          /\ cur' = cur /\ was' = was
      BY <1>2 DEF ByHand
    <2>2. files[src] \in Image BY <2>1 DEF TypeInv, Typed, Whole
    <2>3. \E c \in Image : Writes("by_hand", c)
      BY <1>2, <2>2, PatchedImage, SoundsImage, PipelineAssumption DEF ByHand
    <2>4. Typed(files') BY <2>3, WritesTyped DEF TypeInv, Paths, AppFiles, NvsFiles
    <2>5. runs + 1 \in 0..MaxRuns BY <2>1, PipelineAssumption DEF TypeInv
    <2>6. Steps' = Steps BY <2>1 DEF Steps
    <2> QED BY <2>1, <2>4, <2>5, <2>6 DEF TypeInv
  <1>3. CASE AppStep
    <2> DEFINE s == AppSteps[done + 1]
    <2>1. /\ InApp /\ stage = "app" /\ Whole(cur) /\ Writes(AppTemp(s), Gives(s, files[cur]))
          /\ cur' = AppTemp(s) /\ done' = done + 1 /\ UNCHANGED <<stage, line, verdict>>
          /\ stock' = stock /\ args' = args /\ was' = was /\ runs' = runs
      BY <1>3 DEF AppStep, InApp, Static
    <2>2. /\ s \in {"auth", "pin", "audio"} /\ done + 1 \in 1..Len(AppSteps)
          /\ AppTemp(s) \in Paths /\ AppTemp(s) \in AppFiles
      BY <2>1, AppStepIs
    <2> HIDE DEF s
    <2>3. args \in Arguments /\ files[cur] \in Image BY <2>1 DEF TypeInv, Typed, Whole
    <2>4. Gives(s, files[cur]) \in Image BY <2>2, <2>3, GivesImage
    <2>5. Typed(files') BY <2>1, <2>2, <2>4, WritesTyped, PathsAre DEF TypeInv
    <2>6. done' <= Steps'
      <3>1. Steps' = Len(AppSteps) BY <2>1 DEF Steps, AppSteps
      <3> QED BY <2>1, <2>2, <3>1
    <2> QED BY <2>1, <2>2, <2>5, <2>6 DEF TypeInv
  <1>4. CASE AppStepFails
    BY <1>4, AppStepIs, FailTyped DEF AppStepFails
  <1>5. CASE AppMove
    <2>1. /\ stage = "app" /\ stage' = "nvs" /\ done' = 0 /\ cur' = args.nvs
          /\ files' = [p \in Paths |-> Final(p)] /\ line' = line \cup {"app_final"}
          /\ verdict' = verdict /\ stock' = stock /\ args' = args /\ was' = was /\ runs' = runs
      BY <1>5 DEF AppMove, Go, Static
    <2>2. args \in Arguments /\ cur \in AppFiles BY <2>1 DEF TypeInv
    <2>3. args.nvs \in NvsFiles \cup {None} BY <2>2, ArgumentsAre
    <2>4. Typed(files')
      <3>1. \A p \in AppFiles : files'[p] \in {NoFile, files[cur], files[p]}
        BY <2>1, PathsAre DEF Final
      <3>2. \A p \in NvsFiles : files'[p] = files[p]
        BY <2>1, <2>2, PathsAre DEF Final, NvsFiles, AppFiles
      <3> QED BY <2>1, <2>2, <3>1, <3>2 DEF TypeInv, Typed
    <2>5. done' <= Steps'
      <3>1. Len(Edits) \in Nat BY <2>2, EditsAre
      <3>2. Steps' = Len(Edits) BY <2>1 DEF Steps, Edits
      <3> QED BY <2>1, <3>1, <3>2
    <2> QED BY <2>1, <2>2, <2>3, <2>4, <2>5, PathsAre DEF TypeInv
  <1>6. CASE AppMoveFails
    BY <1>6, FailTyped, PathsAre DEF AppMoveFails
  <1>7. CASE NvsStep
    <2> DEFINE e == Edits[done + 1]
    <2>1. /\ InNvs /\ stage = "nvs" /\ cur # None /\ Whole(cur)
          /\ Writes(NvsDst, [files[cur] EXCEPT ![e[1]] = e[2]])
          /\ cur' = NvsDst /\ done' = done + 1 /\ UNCHANGED <<stage, line, verdict>>
          /\ stock' = stock /\ args' = args /\ was' = was /\ runs' = runs
      BY <1>7 DEF NvsStep, InNvs, Static
    <2>2. args \in Arguments /\ done + 1 \in 1..Len(Edits) /\ e[1] \in Keys /\ e[2] \in NvsValues
      BY <2>1, NvsStepIs
    <2> HIDE DEF e
    <2>3. files[cur] \in Maps BY <2>1 DEF TypeInv, Typed, Whole
    <2>4. [files[cur] EXCEPT ![e[1]] = e[2]] \in Maps BY <2>2, <2>3 DEF Maps
    <2>5. Typed(files') BY <2>1, <2>4, WritesTyped, NvsWhere DEF TypeInv
    <2>6. done' <= Steps'
      <3>1. Steps' = Len(Edits) BY <2>1 DEF Steps, Edits
      <3> QED BY <2>1, <2>2, <3>1
    <2> QED BY <2>1, <2>2, <2>5, <2>6, NvsWhere DEF TypeInv
  <1>8. CASE NvsStepFails
    BY <1>8, FailTyped, NvsWhere, PathsAre DEF NvsStepFails
  <1>9. CASE NvsDone
    <2>1. /\ stage = "nvs" /\ stage' \in {"wifi", "included"} /\ done' = 0 /\ cur' = None
          /\ files' = [p \in Paths |->
               IF \E i \in 1..(Len(Edits) - 1) : p = NvsTemp(i) THEN NoFile ELSE files[p]]
          /\ line' \subseteq line \cup {"nvs_out"}
          /\ verdict' = verdict /\ stock' = stock /\ args' = args /\ was' = was /\ runs' = runs
      BY <1>9 DEF NvsDone, Go, Static
    <2>2. Typed(files')
      <3>1. \A p \in Paths : files'[p] \in {NoFile, files[p]} BY <2>1
      <3> QED BY <2>1, <3>1, PathsAre DEF TypeInv, Typed
    <2>3. Steps' = 0 BY <2>1 DEF Steps
    <2> QED BY <2>1, <2>2, <2>3, PathsAre DEF TypeInv
  <1>10. CASE Wifi
    <2>1. /\ stage = "wifi" /\ line' \subseteq line \cup {"wifi"} /\ done' = 0
          /\ files' = files \/ Writes("wifi", "image")
          /\ (stage' = "check" /\ cur' = None) \/ (stage' = "nvs" /\ cur' = args.nvs)
          /\ verdict' = verdict /\ stock' = stock /\ args' = args /\ was' = was /\ runs' = runs
      BY <1>10 DEF Wifi, Go, Static
    <2>2. args \in Arguments BY <2>1 DEF TypeInv
    <2>3. args.nvs \in NvsFiles \cup {None} /\ Len(Edits) \in Nat BY <2>2, ArgumentsAre, EditsAre
    <2>4. Typed(files') BY <2>1, WritesTyped, PathsAre DEF TypeInv
    <2>5. done' <= Steps'
      <3>1. Edits' = Edits BY <2>1 DEF Edits
      <3>2. Steps' = 0 \/ Steps' = Len(Edits) BY <2>1, <3>1 DEF Steps
      <3> QED BY <2>1, <2>3, <3>2
    <2> QED BY <2>1, <2>2, <2>3, <2>4, <2>5, PathsAre DEF TypeInv
  <1>11. CASE WifiFails
    BY <1>11, FailTyped, PathsAre DEF WifiFails
  <1>12. CASE Include \/ Preflight
    <2>1. /\ stage # "idle" /\ stage' = "idle" /\ done' = 0 /\ cur' = None /\ files' = files
          /\ line' \subseteq line \cup {args.fw} /\ (args.fw = None => line' \subseteq line)
          /\ verdict' \in {"failed", "good", "bad"}
          /\ stock' = stock /\ args' = args /\ was' = was /\ runs' = runs
      BY <1>12 DEF Include, Preflight, Ends, Static
    <2>2. args.fw \in AppFiles \cup {None}
      BY <2>1, ArgumentsAre DEF TypeInv
    <2>3. Steps' = 0 BY <2>1 DEF Steps
    <2> QED BY <2>1, <2>2, <2>3, PathsAre DEF TypeInv
  <1>13. CASE UNCHANGED vars
    <2>1. Steps' = Steps BY <1>13 DEF vars, Steps, AppSteps, Edits
    <2> QED BY <1>13, <2>1 DEF vars, TypeInv
  <1> QED
    BY <1>1, <1>2, <1>3, <1>4, <1>5, <1>6, <1>7, <1>8, <1>9, <1>10, <1>11, <1>12, <1>13 DEF Next

LEMMA InitTypeInv == Init => TypeInv
  <1> SUFFICES ASSUME Init PROVE TypeInv OBVIOUS
  <1>1. stock.fw \in StockImages /\ stock.nvs \in StockMaps BY DEF Init
  <1>2. /\ files = [p \in Paths |-> IF p = "fw_in" THEN stock.fw
                                    ELSE IF p = "nvs_in" THEN stock.nvs ELSE NoFile]
        /\ was = files
    BY DEF Init
  <1>3. stock.fw \in Image /\ stock.nvs \in Maps BY <1>1, PipelineAssumption DEF Maps
  <1>4. Typed(files)
    BY <1>2, <1>3 DEF Typed, Paths, AppFiles, NvsFiles
  <1>5. Steps = 0 BY DEF Init, Steps
  <1> QED BY <1>1, <1>2, <1>4, <1>5, PipelineAssumption DEF Init, TypeInv

-----------------------------------------------------------------------------
(***************************************************************************)
(* What a run has made so far of what it was given.                         *)
(***************************************************************************)

\* Image img is image old after the first n steps of the build.
PatchedBy(img, old, n) ==
  LET steps == {AppSteps[i] : i \in 1..n}
  IN  /\ img.code = Coded(old, steps)
      /\ IF "audio" \in steps
         THEN /\ img.clip = Spliced(args.audio, Len(args.audio), old).clip
              /\ img.slot = Spliced(args.audio, Len(args.audio), old).slot
         ELSE img.clip = old.clip /\ img.slot = old.slot

Patching ==
  stage = "app" =>
    /\ args.tool = "build" /\ line = {}
    /\ IF done = 0 THEN cur = args.fw /\ files[cur] = was[cur]
       ELSE /\ cur \in Temps /\ files[cur] \in Image /\ was[args.fw] \in Image
            /\ PatchedBy(files[cur], was[args.fw], done)

\* The value of key k in map after the first n edits.
Edited(map, n, k) == IF k \in SetsFor(Edits, n) THEN SetFor(Edits, n, k)[2] ELSE map[k]

Editing ==
  stage = "nvs" =>
    IF done = 0 THEN cur = args.nvs
    ELSE /\ args.nvs \in NvsFiles /\ cur \in NvsFiles /\ files[cur] \in Maps
         /\ done = Len(Edits) => cur = "nvs_out"
         /\ \A k \in Keys : files[cur][k] = Edited(was[args.nvs], done, k)

\* Where no edit has been made yet.
BeforeEdits ==
  \/ stage = "app"
  \/ stage = "wifi" /\ args.tool = "reprovision"
  \/ stage = "nvs" /\ done = 0
Untouched == BeforeEdits => \A p \in NvsFiles : files[p] = was[p]

Ordered ==
  /\ stage = "check" => args.tool = "build"
  /\ stage = "included" => args.tool = "reprovision"
  /\ BeforeEdits \/ stage = "nvs" => "nvs_out" \notin line
  /\ stage # "idle" => verdict = "none"

\* What the files of the flash command hold.
AppIsBuilt ==
  args.tool = "build" /\ "app_final" \in line =>
    /\ args.fw \in AppFiles
    /\ was[args.fw] = Torn => args.sites = {}
    /\ was[args.fw] # Torn =>
         /\ was[args.fw] \in Image /\ files["app_final"] \in Image
         /\ files["app_final"].code = Coded(was[args.fw], args.sites)
         /\ files["app_final"].clip = Spliced(args.audio, Len(args.audio), was[args.fw]).clip
         /\ files["app_final"].slot = Spliced(args.audio, Len(args.audio), was[args.fw]).slot
NvsIsSet ==
  "nvs_out" \in line =>
    /\ args.nvs \in NvsFiles
    /\ \A k \in Keys : files["nvs_out"][k] = Edited(was[args.nvs], Len(Edits), k)

Reported ==
  stage # "idle" \/ verdict \in {"good", "bad"} =>
    /\ args \in Arguments
    /\ AppIsBuilt /\ NvsIsSet
    /\ "wifi" \in line => files["wifi"] = "image"

RunInv ==
  /\ TypeInv
  /\ Patching /\ Editing /\ Untouched /\ Ordered /\ Reported
  /\ PreflightOnlyForOverride


(***************************************************************************)
(* The steps of a build, one after the other.                               *)
(***************************************************************************)
LEMMA SameArgs == args' = args => AppSteps' = AppSteps /\ Edits' = Edits
  BY DEF AppSteps, Edits

\* Three sequences, one after the other.
LEMMA ThreeInTurn ==
  ASSUME NEW S, NEW x \in Seq(S), NEW y \in Seq(S), NEW z \in Seq(S)
  PROVE  /\ Len(x \o y \o z) = Len(x) + Len(y) + Len(z)
         /\ \A i \in 1..Len(x) : (x \o y \o z)[i] = x[i]
         /\ \A i \in 1..Len(y) : (x \o y \o z)[Len(x) + i] = y[i]
         /\ \A i \in 1..Len(z) : (x \o y \o z)[Len(x) + Len(y) + i] = z[i]
  <1>1. /\ x \o y \in Seq(S) /\ Len(x \o y) = Len(x) + Len(y)
        /\ \A i \in 1..Len(x) : (x \o y)[i] = x[i]
        /\ \A i \in 1..Len(y) : (x \o y)[Len(x) + i] = y[i]
    OBVIOUS
  <1> DEFINE w == x \o y
  <1>2. /\ w \in Seq(S) /\ Len(w) = Len(x) + Len(y)
        /\ \A i \in 1..Len(x) : w[i] = x[i]
        /\ \A i \in 1..Len(y) : w[Len(x) + i] = y[i]
    BY <1>1
  <1> HIDE DEF w
  <1>3. /\ Len(w \o z) = Len(w) + Len(z)
        /\ \A i \in 1..Len(w) : (w \o z)[i] = w[i]
        /\ \A i \in 1..Len(z) : (w \o z)[Len(w) + i] = z[i]
    <2>1. w \in Seq(S) BY <1>2
    <2> QED BY ONLY <2>1, z \in Seq(S)
  <1>4. /\ \A i \in 1..Len(x) : i \in 1..Len(w)
        /\ \A i \in 1..Len(y) : Len(x) + i \in 1..Len(w)
    BY <1>2
  <1> QED BY <1>2, <1>3, <1>4 DEF w

LEMMA OneOrNone ==
  ASSUME NEW b, NEW S, NEW e \in S
  PROVE  LET x == IF b THEN <<e>> ELSE <<>>
         IN  x \in Seq(S) /\ Len(x) = (IF b THEN 1 ELSE 0) /\ (b => x[1] = e)
  <1>1. CASE b BY <1>1
  <1>2. CASE ~b BY <1>2
  <1> QED BY <1>1, <1>2

\* A build does each step it was asked for, once.
LEMMA AppStepsAll ==
  ASSUME args \in Arguments
  PROVE  /\ \A i, j \in 1..Len(AppSteps) : AppSteps[i] = AppSteps[j] => i = j
         /\ {AppSteps[i] : i \in 1..Len(AppSteps)}
              = args.sites \cup (IF args.audio # <<>> THEN {"audio"} ELSE {})
  <1> DEFINE a == "auth" \in args.sites
             p == "pin" \in args.sites
             s == args.audio # <<>>
             all == args.sites \cup (IF s THEN {"audio"} ELSE {})
             x == IF a THEN <<"auth">> ELSE <<>>
             y == IF p THEN <<"pin">> ELSE <<>>
             z == IF s THEN <<"audio">> ELSE <<>>
  <1>1. \A q : q \in all <=> \/ (q = "auth" /\ a)
                            \/ (q = "pin" /\ p)
                            \/ (q = "audio" /\ s)
    BY ArgumentsAre
  <1> DEFINE S == {"auth", "pin", "audio"}
  <1>2. /\ x \in Seq(S) /\ y \in Seq(S) /\ z \in Seq(S)
        /\ Len(x) = (IF a THEN 1 ELSE 0) /\ (a => x[1] = "auth")
        /\ Len(y) = (IF p THEN 1 ELSE 0) /\ (p => y[1] = "pin")
        /\ Len(z) = (IF s THEN 1 ELSE 0) /\ (s => z[1] = "audio")
    <2>0. "auth" \in S /\ "pin" \in S /\ "audio" \in S OBVIOUS
    <2> HIDE DEF a, p, s, S
    <2>1. x \in Seq(S) /\ Len(x) = (IF a THEN 1 ELSE 0) /\ (a => x[1] = "auth")
      BY <2>0, OneOrNone, Zenon
    <2>2. y \in Seq(S) /\ Len(y) = (IF p THEN 1 ELSE 0) /\ (p => y[1] = "pin")
      BY <2>0, OneOrNone, Zenon
    <2>3. z \in Seq(S) /\ Len(z) = (IF s THEN 1 ELSE 0) /\ (s => z[1] = "audio")
      BY <2>0, OneOrNone, Zenon
    <2> QED BY <2>1, <2>2, <2>3
  <1>3. AppSteps = x \o y \o z BY DEF AppSteps
  <1> HIDE DEF x, y, z, all, S
  <1>4. /\ Len(AppSteps) = Len(x) + Len(y) + Len(z)
        /\ \A i \in 1..Len(x) : AppSteps[i] = x[i]
        /\ \A i \in 1..Len(y) : AppSteps[Len(x) + i] = y[i]
        /\ \A i \in 1..Len(z) : AppSteps[Len(x) + Len(y) + i] = z[i]
    <2>1. x \in Seq(S) /\ y \in Seq(S) /\ z \in Seq(S) BY <1>2
    <2> QED BY ONLY <1>3, <2>1, ThreeInTurn
  <1>5. /\ Len(AppSteps) = Len(x) + Len(y) + Len(z)
        /\ a => AppSteps[1] = "auth"
        /\ p => AppSteps[Len(x) + 1] = "pin"
        /\ s => AppSteps[Len(x) + Len(y) + 1] = "audio"
    BY <1>2, <1>4
  <1> HIDE DEF a, p, s
  <1>6. CASE a /\ p /\ s
    <2>1. Len(AppSteps) = 3 /\ AppSteps[1] = "auth" /\ AppSteps[2] = "pin" /\ AppSteps[3] = "audio"
      BY <1>2, <1>5, <1>6
    <2>2. \A i : i \in 1..Len(AppSteps) <=> i = 1 \/ i = 2 \/ i = 3 BY <2>1
    <2>3. {AppSteps[i] : i \in 1..Len(AppSteps)} = {"auth", "pin", "audio"} BY <2>1, <2>2
    <2>4. all = {"auth", "pin", "audio"} BY <1>1, <1>6
    <2>5. \A i, j \in 1..Len(AppSteps) : AppSteps[i] = AppSteps[j] => i = j BY <2>1, <2>2
    <2> QED BY <2>3, <2>4, <2>5 DEF all, s
  <1>7. CASE a /\ p /\ ~s
    <2>1. Len(AppSteps) = 2 /\ AppSteps[1] = "auth" /\ AppSteps[2] = "pin"
      BY <1>2, <1>5, <1>7
    <2>2. \A i : i \in 1..Len(AppSteps) <=> i = 1 \/ i = 2 BY <2>1
    <2>3. {AppSteps[i] : i \in 1..Len(AppSteps)} = {"auth", "pin"} BY <2>1, <2>2
    <2>4. all = {"auth", "pin"} BY <1>1, <1>7
    <2>5. \A i, j \in 1..Len(AppSteps) : AppSteps[i] = AppSteps[j] => i = j BY <2>1, <2>2
    <2> QED BY <2>3, <2>4, <2>5 DEF all, s
  <1>8. CASE a /\ ~p /\ s
    <2>1. Len(AppSteps) = 2 /\ AppSteps[1] = "auth" /\ AppSteps[2] = "audio"
      BY <1>2, <1>5, <1>8
    <2>2. \A i : i \in 1..Len(AppSteps) <=> i = 1 \/ i = 2 BY <2>1
    <2>3. {AppSteps[i] : i \in 1..Len(AppSteps)} = {"auth", "audio"} BY <2>1, <2>2
    <2>4. all = {"auth", "audio"} BY <1>1, <1>8
    <2>5. \A i, j \in 1..Len(AppSteps) : AppSteps[i] = AppSteps[j] => i = j BY <2>1, <2>2
    <2> QED BY <2>3, <2>4, <2>5 DEF all, s
  <1>9. CASE a /\ ~p /\ ~s
    <2>1. Len(AppSteps) = 1 /\ AppSteps[1] = "auth"
      BY <1>2, <1>5, <1>9
    <2>2. \A i : i \in 1..Len(AppSteps) <=> i = 1 BY <2>1
    <2>3. {AppSteps[i] : i \in 1..Len(AppSteps)} = {"auth"} BY <2>1, <2>2
    <2>4. all = {"auth"} BY <1>1, <1>9
    <2>5. \A i, j \in 1..Len(AppSteps) : AppSteps[i] = AppSteps[j] => i = j BY <2>1, <2>2
    <2> QED BY <2>3, <2>4, <2>5 DEF all, s
  <1>10. CASE ~a /\ p /\ s
    <2>1. Len(AppSteps) = 2 /\ AppSteps[1] = "pin" /\ AppSteps[2] = "audio"
      BY <1>2, <1>5, <1>10
    <2>2. \A i : i \in 1..Len(AppSteps) <=> i = 1 \/ i = 2 BY <2>1
    <2>3. {AppSteps[i] : i \in 1..Len(AppSteps)} = {"pin", "audio"} BY <2>1, <2>2
    <2>4. all = {"pin", "audio"} BY <1>1, <1>10
    <2>5. \A i, j \in 1..Len(AppSteps) : AppSteps[i] = AppSteps[j] => i = j BY <2>1, <2>2
    <2> QED BY <2>3, <2>4, <2>5 DEF all, s
  <1>11. CASE ~a /\ p /\ ~s
    <2>1. Len(AppSteps) = 1 /\ AppSteps[1] = "pin"
      BY <1>2, <1>5, <1>11
    <2>2. \A i : i \in 1..Len(AppSteps) <=> i = 1 BY <2>1
    <2>3. {AppSteps[i] : i \in 1..Len(AppSteps)} = {"pin"} BY <2>1, <2>2
    <2>4. all = {"pin"} BY <1>1, <1>11
    <2>5. \A i, j \in 1..Len(AppSteps) : AppSteps[i] = AppSteps[j] => i = j BY <2>1, <2>2
    <2> QED BY <2>3, <2>4, <2>5 DEF all, s
  <1>12. CASE ~a /\ ~p /\ s
    <2>1. Len(AppSteps) = 1 /\ AppSteps[1] = "audio"
      BY <1>2, <1>5, <1>12
    <2>2. \A i : i \in 1..Len(AppSteps) <=> i = 1 BY <2>1
    <2>3. {AppSteps[i] : i \in 1..Len(AppSteps)} = {"audio"} BY <2>1, <2>2
    <2>4. all = {"audio"} BY <1>1, <1>12
    <2>5. \A i, j \in 1..Len(AppSteps) : AppSteps[i] = AppSteps[j] => i = j BY <2>1, <2>2
    <2> QED BY <2>3, <2>4, <2>5 DEF all, s
  <1>13. CASE ~a /\ ~p /\ ~s
    <2>1. Len(AppSteps) = 0 BY <1>2, <1>5, <1>13
    <2>2. all = {} BY <1>1, <1>13
    <2> QED BY <2>1, <2>2 DEF all, s
  <1> QED BY <1>6, <1>7, <1>8, <1>9, <1>10, <1>11, <1>12, <1>13

\* What the sets leave in the slots hangs on what was there alone.
LEMMA SplicedOf ==
  ASSUME NEW img \in Image, NEW old \in Image, NEW sets, NEW k,
         img.clip = old.clip, img.slot = old.slot
  PROVE  /\ Spliced(sets, k, img).clip = Spliced(sets, k, old).clip
         /\ Spliced(sets, k, img).slot = Spliced(sets, k, old).slot
         /\ Spliced(sets, k, img).code = img.code
         /\ k = 0 => Spliced(sets, k, img).clip = img.clip /\ Spliced(sets, k, img).slot = img.slot
  <1> DEFINE clip(i) == [n \in Names |-> IF n \in SetsFor(sets, k) THEN SetFor(sets, k, n)[2]
                                         ELSE i.clip[n]]
             slot(i) == [n \in Names |-> IF n \in SetsFor(sets, k)
                                         THEN ClipSize[SetFor(sets, k, n)[2]] ELSE i.slot[n]]
  <1>1. \A i \in {img, old} : /\ Spliced(sets, k, i).clip = clip(i)
                              /\ Spliced(sets, k, i).slot = slot(i)
                              /\ Spliced(sets, k, i).code = i.code
    BY DEF Spliced, Image
  <1>2. clip(img) = clip(old) /\ slot(img) = slot(old) OBVIOUS
  <1>3. k = 0 => SetsFor(sets, k) = {} BY DEF SetsFor
  <1>4. img.clip = [n \in Names |-> img.clip[n]] /\ img.slot = [n \in Names |-> img.slot[n]]
    BY DEF Image
  <1>5. k = 0 => clip(img) = img.clip /\ slot(img) = img.slot BY <1>3, <1>4
  <1> HIDE DEF clip, slot
  <1> QED BY <1>1, <1>2, <1>5

\* What one patch changes.
LEMMA GivesIs ==
  ASSUME NEW img \in Image, NEW s \in {"auth", "pin", "audio"}, args \in Arguments
  PROVE  /\ s # "audio" => /\ Gives(s, img).code = [img.code EXCEPT ![s] = "patched"]
                           /\ Gives(s, img).clip = img.clip /\ Gives(s, img).slot = img.slot
         /\ s = "audio" =>
              /\ Gives(s, img).code = img.code
              /\ Gives(s, img).clip = Spliced(args.audio, Len(args.audio), img).clip
              /\ Gives(s, img).slot = Spliced(args.audio, Len(args.audio), img).slot
  <1>0. ASSUME NEW new \in Image
        PROVE  Rehash(new).code = new.code /\ Rehash(new).clip = new.clip /\ Rehash(new).slot = new.slot
    BY DEF Rehash, Image
  <1>1. CASE s # "audio"
    <2> DEFINE new == [img EXCEPT !.code[s] = "patched",
                                  !.sum = Xor(@, {<<s, img.code[s]>>, <<s, "patched">>})]
    <2>1. Gives(s, img) = Rehash(new) BY <1>1 DEF Gives, Patched
    <2>2. /\ new.code = [img.code EXCEPT ![s] = "patched"] /\ new.clip = img.clip
          /\ new.slot = img.slot
      BY DEF Image
    <2>3. new \in Image
      <3>1. img.code[s] \in Codes /\ "patched" \in Codes /\ s \in Sites
        BY <1>1 DEF Image, Codes, Sites
      <3>2. Xor(img.sum, {<<s, img.code[s]>>, <<s, "patched">>}) \in SUBSET Pieces
        BY <3>1 DEF Xor, Pieces, Image
      <3> QED BY <3>1, <3>2 DEF Image
    <2> HIDE DEF new
    <2> QED BY <1>0, <1>1, <2>1, <2>2, <2>3
  <1>2. CASE s = "audio"
    <2> DEFINE put == Spliced(args.audio, Len(args.audio), img)
               new == [put EXCEPT !.sum = TrueSum(put)]
    <2>1. Gives(s, img) = Rehash(new) BY <1>2 DEF Gives, WithSounds
    <2>2. put \in Image /\ put.code = img.code
      <3>1. args.audio \in Seq(Names \X Clips) BY ArgumentsAre
      <3>2. Len(args.audio) \in 0..Len(args.audio) BY <3>1
      <3> QED BY <3>1, <3>2, SplicedImage, SplicedOf
    <2> HIDE DEF put
    <2>3. TrueSum(put) \in SUBSET Pieces BY <2>2 DEF TrueSum, Pieces, Image
    <2>4. new \in Image /\ new.code = put.code /\ new.clip = put.clip /\ new.slot = put.slot
      BY <2>2, <2>3 DEF Image
    <2> HIDE DEF new
    <2>5. /\ Gives(s, img).code = img.code /\ Gives(s, img).clip = put.clip
          /\ Gives(s, img).slot = put.slot
      BY <1>0, <2>1, <2>2, <2>4
    <2> QED BY <1>2, <2>5 DEF put
  <1> QED BY <1>1, <1>2

\* Before the first step the image is what the run was given.
LEMMA PatchedNone ==
  ASSUME NEW old \in Image
  PROVE  PatchedBy(old, old, 0)
  <1>1. {AppSteps[i] : i \in 1..0} = {} OBVIOUS
  <1>2. old.code = [s \in Sites |-> old.code[s]] BY DEF Image
  <1> QED BY <1>1, <1>2 DEF PatchedBy, Coded

\* One patch more.
LEMMA PatchedNext ==
  ASSUME args \in Arguments, NEW old \in Image, NEW img \in Image, NEW n \in Nat,
         n < Len(AppSteps), PatchedBy(img, old, n)
  PROVE  PatchedBy(Gives(AppSteps[n + 1], img), old, n + 1)
  <1> DEFINE before == {AppSteps[i] : i \in 1..n}
             after == {AppSteps[i] : i \in 1..(n + 1)}
             s == AppSteps[n + 1]
  <1>1. n + 1 \in 1..Len(AppSteps) /\ s \in {"auth", "pin", "audio"}
    <2>1. n + 1 \in 1..Len(AppSteps) BY AppStepsLen
    <2> QED BY <2>1, AppStepsAre
  <1>2. after = before \cup {s}
    <2>1. \A i : i \in 1..(n + 1) <=> i \in 1..n \/ i = n + 1 OBVIOUS
    <2> QED BY <2>1
  <1>3. s \notin before
    <2> SUFFICES ASSUME NEW i \in 1..n, AppSteps[i] = s PROVE FALSE OBVIOUS
    <2>1. i \in 1..Len(AppSteps) /\ i # n + 1 BY AppStepsLen
    <2> QED BY <1>1, <2>1, AppStepsAll
  <1>4. /\ img.code = Coded(old, before)
        /\ IF "audio" \in before
           THEN /\ img.clip = Spliced(args.audio, Len(args.audio), old).clip
                /\ img.slot = Spliced(args.audio, Len(args.audio), old).slot
           ELSE img.clip = old.clip /\ img.slot = old.slot
    BY DEF PatchedBy
  <1>5. SUFFICES /\ Gives(s, img).code = Coded(old, after)
                 /\ IF "audio" \in after
                    THEN /\ Gives(s, img).clip = Spliced(args.audio, Len(args.audio), old).clip
                         /\ Gives(s, img).slot = Spliced(args.audio, Len(args.audio), old).slot
                    ELSE Gives(s, img).clip = old.clip /\ Gives(s, img).slot = old.slot
    BY DEF PatchedBy
  <1> HIDE DEF before, after, s
  <1>6. CASE s = "audio"
    <2>1. Coded(old, after) = Coded(old, before) BY <1>2, <1>6 DEF Coded, Sites
    <2>2. img.clip = old.clip /\ img.slot = old.slot BY <1>3, <1>4, <1>6
    <2>3. "audio" \in after BY <1>2, <1>6
    <2>4. /\ Gives(s, img).code = img.code
          /\ Gives(s, img).clip = Spliced(args.audio, Len(args.audio), img).clip
          /\ Gives(s, img).slot = Spliced(args.audio, Len(args.audio), img).slot
      BY <1>1, <1>6, GivesIs
    <2>5. /\ Spliced(args.audio, Len(args.audio), img).clip = Spliced(args.audio, Len(args.audio), old).clip
          /\ Spliced(args.audio, Len(args.audio), img).slot = Spliced(args.audio, Len(args.audio), old).slot
      BY <2>2, SplicedOf
    <2> QED BY <1>4, <2>1, <2>3, <2>4, <2>5
  <1>7. CASE s # "audio"
    <2>1. /\ Gives(s, img).code = [img.code EXCEPT ![s] = "patched"]
          /\ Gives(s, img).clip = img.clip /\ Gives(s, img).slot = img.slot
      BY <1>1, <1>7, GivesIs
    <2>2. "audio" \in after <=> "audio" \in before BY <1>2, <1>7
    <2>3. [img.code EXCEPT ![s] = "patched"] = Coded(old, after)
      <3>1. img.code = [q \in Sites |-> IF q \in before THEN "patched" ELSE old.code[q]]
        BY <1>4 DEF Coded
      <3>2. Coded(old, after) = [q \in Sites |-> IF q \in after THEN "patched" ELSE old.code[q]]
        BY DEF Coded
      <3> DEFINE f == [img.code EXCEPT ![s] = "patched"]
                 g == Coded(old, after)
      <3>3. f = [q \in Sites |-> IF q = s THEN "patched" ELSE img.code[q]] BY <3>1
      <3>4. ASSUME NEW q \in Sites PROVE f[q] = g[q]
        <4>1. f[q] = IF q = s THEN "patched" ELSE img.code[q] BY <3>3
        <4>2. img.code[q] = IF q \in before THEN "patched" ELSE old.code[q] BY <3>1
        <4>3. g[q] = IF q \in after THEN "patched" ELSE old.code[q] BY <3>2
        <4> HIDE DEF f, g
        <4> QED BY <1>2, <4>1, <4>2, <4>3
      <3>5. f = [q \in Sites |-> f[q]] /\ g = [q \in Sites |-> g[q]] BY <3>2, <3>3
      <3> HIDE DEF f, g
      <3>6. f = g BY <3>4, <3>5
      <3> QED BY <3>6 DEF f, g
    <2> QED BY <1>4, <2>1, <2>2, <2>3
  <1> QED BY <1>6, <1>7

\* After the last step the image has every patch and sound asked for.
LEMMA PatchedAll ==
  ASSUME args \in Arguments, NEW old \in Image, NEW img, PatchedBy(img, old, Len(AppSteps))
  PROVE  /\ img.code = Coded(old, args.sites)
         /\ img.clip = Spliced(args.audio, Len(args.audio), old).clip
         /\ img.slot = Spliced(args.audio, Len(args.audio), old).slot
  <1> DEFINE all == {AppSteps[i] : i \in 1..Len(AppSteps)}
  <1>1. all = args.sites \cup (IF args.audio # <<>> THEN {"audio"} ELSE {}) BY AppStepsAll
  <1>2. /\ img.code = Coded(old, all)
        /\ IF "audio" \in all
           THEN /\ img.clip = Spliced(args.audio, Len(args.audio), old).clip
                /\ img.slot = Spliced(args.audio, Len(args.audio), old).slot
           ELSE img.clip = old.clip /\ img.slot = old.slot
    BY DEF PatchedBy
  <1> HIDE DEF all
  <1>3. "audio" \notin args.sites BY ArgumentsAre
  <1>4. Coded(old, all) = Coded(old, args.sites) BY <1>1 DEF Coded, Sites
  <1>5. CASE args.audio # <<>> BY <1>1, <1>2, <1>4, <1>5
  <1>6. CASE args.audio = <<>>
    <2>1. Len(args.audio) = 0 BY <1>6
    <2>2. /\ Spliced(args.audio, Len(args.audio), old).clip = old.clip
          /\ Spliced(args.audio, Len(args.audio), old).slot = old.slot
      BY <2>1, SplicedOf
    <2> QED BY <1>1, <1>2, <1>3, <1>4, <1>6, <2>2
  <1> QED BY <1>5, <1>6

(***************************************************************************)
(* The edits of NVS, one after the other.                                   *)
(***************************************************************************)
\* One edit more.
LEMMA EditedNext ==
  ASSUME NEW map, NEW n \in Nat, NEW k
  PROVE  /\ Edited(map, 0, k) = map[k]
         /\ Edited(map, n + 1, k) = IF k = Edits[n + 1][1] THEN Edits[n + 1][2] ELSE Edited(map, n, k)
  <1>1. SetsFor(Edits, 0) = {} BY DEF SetsFor
  <1>2. /\ SetsFor(Edits, n + 1) = SetsFor(Edits, n) \cup {Edits[n + 1][1]}
        /\ SetFor(Edits, n + 1, Edits[n + 1][1]) = Edits[n + 1]
        /\ \A q \in SetsFor(Edits, n) :
             q # Edits[n + 1][1] => SetFor(Edits, n + 1, q) = SetFor(Edits, n, q)
    BY SetForNext
  <1> QED BY <1>1, <1>2 DEF Edited

\* A value that --register does not stand to was set by the user's own --set.
LEMMA RegisterOverride ==
  ASSUME args \in Arguments, args.register, args.nvs # None, NEW map,
         Edited(map, Len(Edits), "REGISTER_STR") # "1"
  PROVE  \E e \in Range(args.edits) : e[1] = "REGISTER_STR" /\ e[2] # "1"
  <1> DEFINE first == <<"REGISTER_STR", "1">>
  <1>1. args.edits \in Seq(Keys \X NvsValues) BY ArgumentsAre
  <1>2. Edits = <<first>> \o args.edits BY DEF Edits
  <1>3. /\ Len(Edits) = Len(args.edits) + 1 /\ Edits[1] = first /\ Len(Edits) \in Nat
        /\ Len(args.edits) \in Nat
        /\ \A i \in 2..Len(Edits) : Edits[i] = args.edits[i - 1]
    <2>1. <<first>> \in Seq(Keys \X NvsValues) /\ Len(<<first>>) = 1 /\ <<first>>[1] = first
      BY PipelineAssumption
    <2> HIDE DEF first
    <2> QED BY <1>1, <1>2, <2>1
  <1>4. "REGISTER_STR" \in SetsFor(Edits, Len(Edits))
    <2>1. 1 \in 1..Len(Edits) /\ Edits[1][1] = "REGISTER_STR" BY <1>3
    <2> QED BY <2>1 DEF SetsFor
  <1>5. PICK i \in 1..Len(Edits) : /\ SetFor(Edits, Len(Edits), "REGISTER_STR") = Edits[i]
                                   /\ Edits[i][1] = "REGISTER_STR"
    BY <1>3, <1>4, SetForIs
  <1>6. Edits[i][2] # "1" BY <1>4, <1>5 DEF Edited
  <1>7. i # 1 BY <1>3, <1>6
  <1>8. i \in 2..Len(Edits) /\ i - 1 \in 1..Len(args.edits) BY <1>3, <1>7
  <1>9. Edits[i] = args.edits[i - 1] /\ i - 1 \in DOMAIN args.edits BY <1>1, <1>3, <1>8
  <1>10. Edits[i] \in Range(args.edits) BY <1>9 DEF Range
  <1> QED BY <1>5, <1>6, <1>10


(***************************************************************************)
(* Steps.                                                                   *)
(***************************************************************************)
LEMMA WritesOne ==
  ASSUME TypeInv, NEW p \in Paths, NEW c, Writes(p, c)
  PROVE  \A q \in Paths : files'[q] = IF q = p THEN c ELSE files[q]
  BY DEF TypeInv, Typed, Writes

\* What was made stays as long as its file does.
LEMMA BuiltStays ==
  ASSUME AppIsBuilt, args' = args, was' = was, "app_final" \in line' => "app_final" \in line,
         files'["app_final"] = files["app_final"]
  PROVE  AppIsBuilt'
  BY DEF AppIsBuilt

\* What was set stays as long as its file does.
LEMMA SetStays ==
  ASSUME NvsIsSet, args' = args, was' = was, "nvs_out" \in line' => "nvs_out" \in line,
         files'["nvs_out"] = files["nvs_out"]
  PROVE  NvsIsSet'
  <1>1. Edits' = Edits BY SameArgs
  <1> QED BY <1>1 DEF NvsIsSet, Edited

\* A run that is over, or has said nothing yet, promises nothing.
LEMMA SilentRunInv ==
  ASSUME TypeInv', stage' = "idle", verdict' \in {"none", "failed"}
  PROVE  RunInv'
  BY DEF RunInv, Patching, Editing, Untouched, BeforeEdits, Ordered, Reported,
         PreflightOnlyForOverride

\* A run that goes on complains of nothing.
LEMMA GoingRunInv ==
  ASSUME TypeInv', verdict' = "none", stage' # "idle", args' \in Arguments,
         Patching', Editing', Untouched',
         stage' = "check" => args'.tool = "build",
         stage' = "included" => args'.tool = "reprovision",
         BeforeEdits' \/ stage' = "nvs" => "nvs_out" \notin line',
         AppIsBuilt', NvsIsSet', "wifi" \in line' => files'["wifi"] = "image"
  PROVE  RunInv'
  BY DEF RunInv, Ordered, Reported, PreflightOnlyForOverride

\* The invariant, one lemma per action that a run goes on or ends well with.
LEMMA StartRunInv ==
  ASSUME RunInv, TypeInv', NEW a \in Invocations, Start(a)
  PROVE  RunInv'
  <1>1. /\ files' = files /\ args' = a /\ was' = files /\ line' = {} /\ verdict' = "none"
        /\ done' = 0 /\ a \in Arguments
    BY PipelineAssumption DEF Start, Go
  <1>2. a.tool \in {"build", "reprovision"} BY <1>1 DEF Arguments
  <1>3. \/ stage' = "wifi"
        \/ stage' = "app" /\ cur' = a.fw /\ a.tool = "build"
        \/ stage' = "nvs" /\ cur' = a.nvs
    BY <1>2 DEF Start, Go
  <1>4. Patching' BY <1>1, <1>3 DEF Patching
  <1>5. Editing' BY <1>1, <1>3 DEF Editing
  <1>6. Untouched' BY <1>1 DEF Untouched
  <1>7. AppIsBuilt' /\ NvsIsSet' BY <1>1 DEF AppIsBuilt, NvsIsSet
  <1> QED BY <1>1, <1>3, <1>4, <1>5, <1>6, <1>7, GoingRunInv

LEMMA AppStepRunInv ==
  ASSUME RunInv, TypeInv', AppStep
  PROVE  RunInv'
  <1> DEFINE s == AppSteps[done + 1]
             old == was[args.fw]
  <1>1. /\ InApp /\ stage = "app" /\ Whole(cur) /\ Writes(AppTemp(s), Gives(s, files[cur]))
        /\ cur' = AppTemp(s) /\ done' = done + 1 /\ stage' = stage /\ line' = line
        /\ verdict' = verdict /\ args' = args /\ was' = was
    BY DEF AppStep, InApp, Static
  <1>2. TypeInv /\ Patching /\ Untouched /\ verdict = "none" /\ line = {}
        /\ args \in Arguments /\ done \in Nat /\ cur \in AppFiles /\ args.tool = "build"
    BY <1>1 DEF RunInv, TypeInv, Ordered, Patching
  <1>3. /\ s \in {"auth", "pin", "audio"} /\ done < Len(AppSteps)
        /\ AppTemp(s) \in Temps /\ AppTemp(s) \in Paths
    BY <1>1, <1>2, AppStepIs DEF InApp
  <1> HIDE DEF s
  <1>4. files[cur] \in Image BY <1>1, <1>2 DEF TypeInv, Typed, Whole
  <1>5. old \in Image /\ PatchedBy(files[cur], old, done)
    <2>1. CASE done = 0
      <3>1. cur = args.fw /\ files[cur] = old BY <1>1, <1>2, <2>1 DEF Patching
      <3> QED BY <1>4, <2>1, <3>1, PatchedNone
    <2>2. CASE done # 0 BY <1>1, <1>2, <2>2 DEF Patching
    <2> QED BY <2>1, <2>2
  <1>6. \A q \in Paths : files'[q] = IF q = AppTemp(s) THEN Gives(s, files[cur]) ELSE files[q]
    BY <1>1, <1>2, <1>3, WritesOne
  <1>7. files'[cur'] = Gives(s, files[cur]) BY <1>1, <1>3, <1>6
  <1>8. Gives(s, files[cur]) \in Image BY <1>2, <1>3, <1>4, GivesImage
  <1>9. PatchedBy(Gives(s, files[cur]), old, done + 1)
    BY <1>2, <1>3, <1>4, <1>5, PatchedNext DEF s
  <1>10. Patching'
    <2>1. AppSteps' = AppSteps BY <1>1, SameArgs
    <2>2. PatchedBy(files[cur], was[args.fw], done)'
      BY <1>1, <1>7, <1>9, <2>1 DEF PatchedBy
    <2> QED BY <1>1, <1>2, <1>3, <1>5, <1>7, <1>8, <2>2 DEF Patching
  <1>11. Untouched'
    <2>1. \A q \in NvsFiles : files'[q] = files[q] BY <1>3, <1>6, PathsAre
    <2>2. BeforeEdits BY <1>1 DEF BeforeEdits
    <2> QED BY <1>1, <1>2, <2>1, <2>2 DEF Untouched
  <1>12. Editing' /\ AppIsBuilt' /\ NvsIsSet' BY <1>1, <1>2 DEF Editing, AppIsBuilt, NvsIsSet
  <1> QED BY <1>1, <1>2, <1>10, <1>11, <1>12, GoingRunInv

LEMMA AppMoveRunInv ==
  ASSUME RunInv, TypeInv', AppMove
  PROVE  RunInv'
  <1> DEFINE old == was[args.fw]
  <1>1. /\ stage = "app" /\ done = Len(AppSteps) /\ files[cur] # NoFile
        /\ stage' = "nvs" /\ done' = 0 /\ cur' = args.nvs
        /\ files' = [p \in Paths |-> Final(p)] /\ line' = line \cup {"app_final"}
        /\ verdict' = verdict /\ args' = args /\ was' = was
    BY DEF AppMove, Go, Static
  <1>2. /\ TypeInv /\ Patching /\ Untouched /\ verdict = "none" /\ line = {}
        /\ args \in Arguments /\ done \in Nat /\ cur \in AppFiles /\ args.tool = "build"
        /\ args.fw \in AppFiles
    BY <1>1 DEF RunInv, TypeInv, Ordered, Patching
  <1>3. files'["app_final"] = files[cur] BY <1>1, PathsAre DEF Final
  <1>4. \A q \in NvsFiles : files'[q] = files[q]
    BY <1>1, <1>2, PathsAre DEF Final, NvsFiles, AppFiles
  <1>5. AppIsBuilt'
    <2>1. CASE done = 0 /\ old = Torn
      <3>1. {AppSteps[i] : i \in 1..Len(AppSteps)} = {} BY <1>1, <2>1
      <3>2. args.sites = {} BY <1>2, <3>1, AppStepsAll
      <3> QED BY <1>1, <1>2, <2>1, <3>2 DEF AppIsBuilt
    <2>2. CASE done # 0 \/ old # Torn
      <3>1. old \in Image /\ files[cur] \in Image /\ PatchedBy(files[cur], old, done)
        <4>1. CASE done = 0
          <5>1. cur = args.fw /\ files[cur] = old BY <1>1, <1>2, <4>1 DEF Patching
          <5>2. old \in Image BY <1>1, <1>2, <2>2, <4>1, <5>1 DEF TypeInv, Typed
          <5> QED BY <4>1, <5>1, <5>2, PatchedNone
        <4>2. CASE done # 0 BY <1>1, <1>2, <4>2 DEF Patching
        <4> QED BY <4>1, <4>2
      <3>2. /\ files[cur].code = Coded(old, args.sites)
            /\ files[cur].clip = Spliced(args.audio, Len(args.audio), old).clip
            /\ files[cur].slot = Spliced(args.audio, Len(args.audio), old).slot
        BY <1>1, <1>2, <3>1, PatchedAll
      <3>3. old # Torn BY <3>1, PipelineAssumption
      <3> QED BY <1>1, <1>2, <1>3, <3>1, <3>2, <3>3 DEF AppIsBuilt
    <2> QED BY <2>1, <2>2
  <1>6. Untouched'
    <2>1. BeforeEdits BY <1>1 DEF BeforeEdits
    <2> QED BY <1>1, <1>2, <1>4, <2>1 DEF Untouched
  <1>7. Patching' /\ Editing' /\ NvsIsSet'
    BY <1>1, <1>2 DEF Patching, Editing, NvsIsSet
  <1> QED BY <1>1, <1>2, <1>5, <1>6, <1>7, GoingRunInv

LEMMA NvsStepRunInv ==
  ASSUME RunInv, TypeInv', NvsStep
  PROVE  RunInv'
  <1> DEFINE e == Edits[done + 1]
             old == was[args.nvs]
             new == [files[cur] EXCEPT ![e[1]] = e[2]]
  <1>1. /\ InNvs /\ stage = "nvs" /\ cur # None /\ Whole(cur) /\ Writes(NvsDst, new)
        /\ cur' = NvsDst /\ done' = done + 1 /\ stage' = stage /\ line' = line
        /\ verdict' = verdict /\ args' = args /\ was' = was
    BY DEF NvsStep, InNvs, Static
  <1>2. /\ TypeInv /\ Editing /\ Untouched /\ verdict = "none" /\ "nvs_out" \notin line
        /\ args \in Arguments /\ done \in Nat /\ cur \in NvsFiles
        /\ AppIsBuilt /\ ("wifi" \in line => files["wifi"] = "image")
    BY <1>1 DEF RunInv, TypeInv, Ordered, Reported
  <1>3. e[1] \in Keys /\ e[2] \in NvsValues BY <1>1, <1>2, NvsStepIs
  <1> HIDE DEF e
  <1>4. files[cur] \in Maps BY <1>1, <1>2 DEF TypeInv, Typed, Whole
  <1>5. new \in Maps /\ \A k \in Keys : new[k] = IF k = e[1] THEN e[2] ELSE files[cur][k]
    BY <1>3, <1>4 DEF Maps
  <1> HIDE DEF new
  <1>6. args.nvs \in NvsFiles /\ \A k \in Keys : files[cur][k] = Edited(old, done, k)
    <2>1. CASE done = 0
      <3>1. cur = args.nvs BY <1>1, <1>2, <2>1 DEF Editing
      <3>2. files[cur] = old BY <1>1, <1>2, <2>1, <3>1 DEF Untouched, BeforeEdits
      <3> QED BY <1>2, <2>1, <3>1, <3>2, EditedNext
    <2>2. CASE done # 0 BY <1>1, <1>2, <2>2 DEF Editing
    <2> QED BY <2>1, <2>2
  <1>7. \A q \in Paths : files'[q] = IF q = NvsDst THEN new ELSE files[q]
    BY <1>1, <1>2, NvsWhere, WritesOne
  <1>8. files'[cur'] = new BY <1>1, <1>7, NvsWhere
  <1>9. \A k \in Keys : new[k] = Edited(old, done + 1, k)
    <2> SUFFICES ASSUME NEW k \in Keys PROVE new[k] = Edited(old, done + 1, k) OBVIOUS
    <2>1. Edited(old, done + 1, k)
            = IF k = Edits[done + 1][1] THEN Edits[done + 1][2] ELSE Edited(old, done, k)
      BY <1>2, EditedNext
    <2> HIDE DEF old
    <2> QED BY <1>5, <1>6, <2>1 DEF e
  <1>10. Editing'
    <2>1. Edits' = Edits BY <1>1, SameArgs
    <2>2. \A k \in Keys : files'[cur'][k] = Edited(was[args.nvs], done, k)'
      BY <1>1, <1>8, <1>9, <2>1 DEF Edited
    <2>3. done' = Len(Edits') => cur' = "nvs_out" BY <1>1, <2>1 DEF NvsDst
    <2>4. done' # 0 BY <1>1, <1>2
    <2> QED BY <1>1, <1>5, <1>6, <1>8, <2>2, <2>3, <2>4, NvsWhere DEF Editing
  <1>11. ~BeforeEdits' BY <1>1, <1>2 DEF BeforeEdits
  <1>12. /\ files'["app_final"] = files["app_final"] /\ files'["wifi"] = files["wifi"]
    BY <1>7, NvsWhere, PathsAre
  <1>13. AppIsBuilt' BY <1>1, <1>2, <1>12, BuiltStays
  <1>14. NvsIsSet' /\ Patching' /\ Untouched'
    BY <1>1, <1>2, <1>11 DEF NvsIsSet, Patching, Untouched
  <1> QED BY <1>1, <1>2, <1>10, <1>12, <1>13, <1>14, GoingRunInv

LEMMA NvsDoneRunInv ==
  ASSUME RunInv, TypeInv', NvsDone
  PROVE  RunInv'
  <1>1. /\ stage = "nvs" /\ done = Len(Edits)
        /\ stage' = (IF args.tool = "build" THEN "wifi" ELSE "included")
        /\ files' = [p \in Paths |->
             IF \E i \in 1..(Len(Edits) - 1) : p = NvsTemp(i) THEN NoFile ELSE files[p]]
        /\ line' = (IF Edits = <<>> THEN line ELSE line \cup {"nvs_out"})
        /\ verdict' = verdict /\ args' = args /\ was' = was
    BY DEF NvsDone, Go, Static
  <1>2. /\ TypeInv /\ Editing /\ verdict = "none" /\ "nvs_out" \notin line
        /\ args \in Arguments /\ args.tool \in {"build", "reprovision"}
        /\ AppIsBuilt /\ ("wifi" \in line => files["wifi"] = "image")
    BY <1>1, ArgumentsAre DEF RunInv, TypeInv, Ordered, Reported
  <1>3. \A i : NvsTemp(i) \in {".nvs0", ".nvs1", ".nvs2"} BY DEF NvsTemp
  <1>4. /\ files'["app_final"] = files["app_final"] /\ files'["wifi"] = files["wifi"]
        /\ files'["nvs_out"] = files["nvs_out"]
    BY <1>1, <1>3 DEF Paths, AppFiles, NvsFiles
  <1>5. AppIsBuilt' BY <1>1, <1>2, <1>4, BuiltStays
  <1>6. NvsIsSet'
    <2>1. CASE Edits = <<>> BY <1>1, <1>2, <2>1 DEF NvsIsSet
    <2>2. CASE Edits # <<>>
      <3>1. done # 0 BY <1>1, <1>2, <2>2, EditsAre
      <3>2. /\ args.nvs \in NvsFiles /\ cur = "nvs_out"
            /\ \A k \in Keys : files[cur][k] = Edited(was[args.nvs], done, k)
        BY <1>1, <1>2, <3>1 DEF Editing
      <3>3. Edits' = Edits BY <1>1, SameArgs
      <3> QED BY <1>1, <1>4, <3>2, <3>3 DEF NvsIsSet, Edited
    <2> QED BY <2>1, <2>2
  <1>7. ~BeforeEdits' BY <1>1, <1>2 DEF BeforeEdits
  <1>8. Patching' /\ Editing' /\ Untouched' BY <1>1, <1>7 DEF Patching, Editing, Untouched
  <1> QED BY <1>1, <1>2, <1>4, <1>5, <1>6, <1>7, <1>8, GoingRunInv

LEMMA WifiRunInv ==
  ASSUME RunInv, TypeInv', Wifi
  PROVE  RunInv'
  <1>1. /\ stage = "wifi" /\ done' = 0
        /\ \/ Writes("wifi", "image") /\ line' = line \cup {"wifi"}
           \/ files' = files /\ line' = line
        /\ IF args.tool = "build" THEN stage' = "check" ELSE stage' = "nvs" /\ cur' = args.nvs
        /\ verdict' = verdict /\ args' = args /\ was' = was
    BY DEF Wifi, Go, Static
  <1>2. /\ TypeInv /\ Untouched /\ Ordered /\ verdict = "none"
        /\ args \in Arguments /\ args.tool \in {"build", "reprovision"}
        /\ AppIsBuilt /\ NvsIsSet /\ ("wifi" \in line => files["wifi"] = "image")
    BY <1>1, ArgumentsAre DEF RunInv, TypeInv, Ordered, Reported
  <1>3. /\ \A q \in Paths \ {"wifi"} : files'[q] = files[q]
        /\ "wifi" \in line' => files'["wifi"] = "image"
    <2>1. CASE files' = files /\ line' = line BY <1>2, <2>1
    <2>2. CASE Writes("wifi", "image") BY <1>2, <2>2, WritesOne, PathsAre
    <2> QED BY <1>1, <2>1, <2>2
  <1>4. AppIsBuilt' BY <1>1, <1>2, <1>3, BuiltStays, PathsAre
  <1>5. NvsIsSet' BY <1>1, <1>2, <1>3, SetStays, PathsAre
  <1>6. BeforeEdits' \/ stage' = "nvs" => BeforeEdits BY <1>1, <1>2 DEF BeforeEdits
  <1>7. Untouched'
    <2>1. \A q \in NvsFiles : files'[q] = files[q] BY <1>3, PathsAre
    <2> QED BY <1>1, <1>2, <1>6, <2>1 DEF Untouched
  <1>8. Patching' /\ Editing' BY <1>1 DEF Patching, Editing
  <1>9. BeforeEdits' \/ stage' = "nvs" => "nvs_out" \notin line'
    BY <1>1, <1>2, <1>6 DEF Ordered
  <1> QED BY <1>1, <1>2, <1>3, <1>4, <1>5, <1>7, <1>8, <1>9, GoingRunInv

LEMMA IncludeRunInv ==
  ASSUME RunInv, TypeInv', Include
  PROVE  RunInv'
  <1>1. /\ stage = "included" /\ stage' = "idle" /\ files' = files
        /\ line' = (IF args.fw = None THEN line ELSE line \cup {args.fw})
        /\ verdict' \in {"failed", "good"} /\ args' = args /\ was' = was
    BY DEF Include, Ends, Static
  <1>2. /\ args \in Arguments /\ args.tool = "reprovision" /\ NvsIsSet
        /\ "wifi" \in line => files["wifi"] = "image"
    BY <1>1 DEF RunInv, TypeInv, Ordered, Reported
  <1>3. args.fw \in AppFiles \cup {None} BY <1>2, ArgumentsAre
  <1>4. NvsIsSet' BY <1>1, <1>2, <1>3, SetStays, PathsAre
  <1>5. AppIsBuilt' BY <1>1, <1>2 DEF AppIsBuilt
  <1>6. Reported' BY <1>1, <1>2, <1>3, <1>4, <1>5, PathsAre DEF Reported
  <1> QED BY <1>1, <1>6 DEF RunInv, Patching, Editing, Untouched, BeforeEdits, Ordered,
                            PreflightOnlyForOverride

\* Where the preflight complains the user has undone what --register set.
LEMMA PreflightRunInv ==
  ASSUME RunInv, TypeInv', Preflight
  PROVE  RunInv'
  <1>1. /\ stage = "check" /\ stage' = "idle" /\ files' = files /\ line' = line
        /\ verdict' = (IF line = {} THEN "failed" ELSE IF PreflightGood THEN "good" ELSE "bad")
        /\ args' = args /\ was' = was
    BY DEF Preflight, Ends, Static
  <1>2. /\ args \in Arguments /\ args.tool = "build" /\ NvsIsSet /\ AppIsBuilt
        /\ "wifi" \in line => files["wifi"] = "image"
    BY <1>1 DEF RunInv, TypeInv, Ordered, Reported
  <1>3. NvsIsSet' /\ AppIsBuilt' BY <1>1, <1>2, SetStays, BuiltStays
  <1>4. Reported' BY <1>1, <1>2, <1>3 DEF Reported
  <1>5. "app_final" \in line =>
          \A s \in args.sites : Whole("app_final") /\ files["app_final"].code[s] = "patched"
    <2> SUFFICES ASSUME "app_final" \in line, NEW s \in args.sites
                 PROVE  Whole("app_final") /\ files["app_final"].code[s] = "patched"
      OBVIOUS
    <2>1. s \in Sites BY <1>2, ArgumentsAre DEF Sites
    <2>2. /\ files["app_final"] \in Image
          /\ files["app_final"].code = Coded(was[args.fw], args.sites)
      BY <1>2 DEF AppIsBuilt
    <2> QED BY <2>1, <2>2, PipelineAssumption DEF Whole, Coded
  <1>6. verdict' = "bad" =>
          /\ args.register /\ args.nvs # None
          /\ Edited(was[args.nvs], Len(Edits), "REGISTER_STR") # "1"
    <2> SUFFICES ASSUME ~PreflightGood
                 PROVE  /\ args.register /\ args.nvs # None
                        /\ Edited(was[args.nvs], Len(Edits), "REGISTER_STR") # "1"
      BY <1>1
    <2>1. "nvs_out" \in line /\ args.register /\ files["nvs_out"]["REGISTER_STR"] # "1"
      BY <1>5 DEF PreflightGood
    <2>2. args.nvs \in NvsFiles BY <1>2, <2>1 DEF NvsIsSet
    <2> QED BY <1>2, <2>1, <2>2, PathsAre, PipelineAssumption DEF NvsIsSet
  <1>7. PreflightOnlyForOverride'
    BY <1>1, <1>2, <1>6, RegisterOverride DEF PreflightOnlyForOverride
  <1> QED BY <1>1, <1>4, <1>7 DEF RunInv, Patching, Editing, Untouched, BeforeEdits, Ordered

\* Every step keeps the invariant.
LEMMA NextRunInv == RunInv /\ [Next]_vars => RunInv'
  <1> SUFFICES ASSUME RunInv, [Next]_vars PROVE RunInv' OBVIOUS
  <1>0. TypeInv' BY NextTypeInv DEF RunInv
  <1>1. ASSUME NEW a \in Invocations, Start(a) PROVE RunInv' BY <1>0, <1>1, StartRunInv
  <1>2. ASSUME NEW src \in AppFiles, ByHand(src) PROVE RunInv'
    BY <1>0, <1>2, SilentRunInv DEF ByHand
  <1>3. CASE AppStepFails \/ AppMoveFails \/ NvsStepFails \/ WifiFails
    <2>1. \E dst : FailInto(dst)
      BY <1>3 DEF AppStepFails, AppMoveFails, NvsStepFails, WifiFails
    <2>2. stage' = "idle" /\ verdict' = "failed" BY <2>1 DEF FailInto, Ends
    <2> QED BY <1>0, <2>2, SilentRunInv
  <1>4. CASE AppStep BY <1>0, <1>4, AppStepRunInv
  <1>5. CASE AppMove BY <1>0, <1>5, AppMoveRunInv
  <1>6. CASE NvsStep BY <1>0, <1>6, NvsStepRunInv
  <1>7. CASE NvsDone BY <1>0, <1>7, NvsDoneRunInv
  <1>8. CASE Wifi BY <1>0, <1>8, WifiRunInv
  <1>9. CASE Include BY <1>0, <1>9, IncludeRunInv
  <1>10. CASE Preflight BY <1>0, <1>10, PreflightRunInv
  <1>11. CASE UNCHANGED vars
    <2>1. /\ AppSteps' = AppSteps /\ Edits' = Edits /\ files' = files /\ args' = args
          /\ stage' = stage /\ done' = done /\ cur' = cur /\ line' = line /\ was' = was
          /\ verdict' = verdict
      BY <1>11, SameArgs DEF vars
    <2>2. Patching' BY <2>1 DEF RunInv, Patching, PatchedBy
    <2>3. Editing' BY <2>1 DEF RunInv, Editing, Edited
    <2>4. Untouched' BY <2>1 DEF RunInv, Untouched, BeforeEdits
    <2>5. Ordered' BY <2>1 DEF RunInv, Ordered, BeforeEdits
    <2>6. Reported'
      BY <2>1 DEF RunInv, Reported, AppIsBuilt, NvsIsSet, Edited
    <2>7. PreflightOnlyForOverride' BY <2>1 DEF RunInv, PreflightOnlyForOverride
    <2> QED BY <1>0, <2>2, <2>3, <2>4, <2>5, <2>6, <2>7 DEF RunInv
  <1> QED
    BY <1>1, <1>2, <1>3, <1>4, <1>5, <1>6, <1>7, <1>8, <1>9, <1>10, <1>11 DEF Next

LEMMA InitRunInv == Init => RunInv
  <1> SUFFICES ASSUME Init PROVE RunInv OBVIOUS
  <1>1. stage = "idle" /\ verdict = "none" BY DEF Init
  <1> QED BY <1>1, InitTypeInv DEF RunInv, Patching, Editing, Untouched, BeforeEdits, Ordered,
                                   Reported, PreflightOnlyForOverride

\* The image of a good run, as it was asked for.
LEMMA RunIsAsAsked == RunInv => FlashIsAsAsked
  <1> SUFFICES ASSUME RunInv, verdict = "good"
               PROVE  /\ "app_final" \in line /\ args.tool = "build" /\ was[args.fw] # Torn =>
                           /\ Whole("app_final")
                           /\ DigestOf([files["app_final"] EXCEPT !.sum = {}])
                                = AskedImage(was[args.fw])
                      /\ "nvs_out" \in line =>
                           \A k \in Keys \ Contested : files["nvs_out"][k] = AskedValue(was[args.nvs], k)
                      /\ "wifi" \in line => Whole("wifi")
    BY DEF FlashIsAsAsked
  <1>1. args \in Arguments /\ AppIsBuilt /\ NvsIsSet /\ ("wifi" \in line => files["wifi"] = "image")
    BY DEF RunInv, Reported
  <1>2. ASSUME "app_final" \in line, args.tool = "build", was[args.fw] # Torn
        PROVE  /\ Whole("app_final")
               /\ DigestOf([files["app_final"] EXCEPT !.sum = {}]) = AskedImage(was[args.fw])
    <2> DEFINE img == files["app_final"]
               old == was[args.fw]
    <2>1. /\ old \in Image /\ img \in Image /\ img.code = Coded(old, args.sites)
          /\ img.clip = Spliced(args.audio, Len(args.audio), old).clip
          /\ img.slot = Spliced(args.audio, Len(args.audio), old).slot
      BY <1>1, <1>2 DEF AppIsBuilt
    <2>2. Whole("app_final") BY <2>1, PipelineAssumption DEF Whole
    <2> HIDE DEF img, old
    <2>3. AskedImage(old) = [code |-> Coded(old, args.sites),
                             clip |-> Spliced(args.audio, Len(args.audio), old).clip,
                             slot |-> Spliced(args.audio, Len(args.audio), old).slot, sum |-> {}]
      BY <1>1, <2>1, AskedImageIs, ArgumentsAre
    <2>4. DigestOf([img EXCEPT !.sum = {}])
            = [code |-> img.code, clip |-> img.clip, slot |-> img.slot, sum |-> {}]
      BY <2>1 DEF DigestOf, Image
    <2> QED BY <2>1, <2>2, <2>3, <2>4 DEF img, old
  <1>3. ASSUME "nvs_out" \in line
        PROVE  \A k \in Keys : files["nvs_out"][k] = AskedValue(was[args.nvs], k)
    BY <1>1, <1>3 DEF NvsIsSet, Edited, AskedValue
  <1>4. ASSUME "wifi" \in line PROVE Whole("wifi")
    BY <1>1, <1>4, PipelineAssumption DEF Whole
  <1> QED BY <1>2, <1>3, <1>4

\* In every reachable state the files are of their types, and a run is where
\* its arguments lead it.
THEOREM TypeCorrect == Spec => []TypeOK
  <1>1. Spec => []TypeInv BY InitTypeInv, NextTypeInv, PTL DEF Spec
  <1> QED BY <1>1, TypeInvTypes, PTL

\* Whatever earlier runs, by hand or interrupted, have left in the output
\* directory, a run has at every step made of what it was given what it was
\* asked for so far.
THEOREM RunInvariance == Spec => []RunInv
  BY InitRunInv, NextRunInv, PTL DEF Spec

\* A run of build_orb.py or reprovision.py that says all is well ships what was
\* asked for, complete, over the dumps it was given, and nothing else.
THEOREM ShipsWhatWasAsked == Spec => []FlashIsAsAsked
  BY RunIsAsAsked, RunInvariance, PTL

\* The preflight of build_orb.py complains only where the user's own --set undid
\* REGISTER_STR.
THEOREM NoChainFallsShort == Spec => []PreflightOnlyForOverride
  <1>1. RunInv => PreflightOnlyForOverride BY DEF RunInv
  <1> QED BY <1>1, RunInvariance, PTL
=============================================================================
