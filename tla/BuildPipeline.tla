---------------------------- MODULE BuildPipeline ----------------------------
(***************************************************************************)
(* tools/build_orb.py and tools/reprovision.py: chains of the other tools,  *)
(* each a process of its own, over files in an output directory, run again  *)
(* and again over what earlier runs have left there.  A process may fail,   *)
(* or be interrupted while it writes; then the run ends where it is.        *)
(*                                                                          *)
(* Abstractions.  The output directory of both tools is the same.  An NVS   *)
(* image is the map nvs_parse.py finds in it; nvs_set.py of a key with an   *)
(* entry gives it the value (NvsStore, SetReadsBack), or fails for want of  *)
(* room like any process: the values are strings of less than 992 bytes,    *)
(* for nvs_parse.py does not see a longer one (NvsStore, NvsLong.cfg).  The *)
(* WiFi image is whole or torn (Spiffs).  The arguments of a run are checked*)
(* as it goes on, by the guards of its steps: a run with wrong ones fails   *)
(* where the tool gives up.                                                 *)
(***************************************************************************)
EXTENDS FlashImage, SequencesExt

CONSTANTS
  Keys,         \* of NVS
  NvsValues,
  NoValue,      \* no live entry
  AudioLists,   \* what --audio is given, one after the other
  EditLists,    \* what --character, --endpoint and --set ask of NVS
  StockImages,  \* the user's app dump
  StockMaps,    \* the user's NVS dump
  Invocations,  \* the arguments the tools are run with
  NoFile, Torn,
  MaxRuns       \* runs of any tool (bound)

AppFiles == {"fw_in", "app_final", ".app_auth", ".app_pin", ".app_audio", "by_hand"}
NvsTemp(i) == CASE i = 1 -> ".nvs0" [] i = 2 -> ".nvs1" [] OTHER -> ".nvs2"
NvsFiles == {"nvs_in", "nvs_out", ".nvs0", ".nvs1", ".nvs2"}
Paths == AppFiles \cup NvsFiles \cup {"wifi"}
None == "none"

Arguments == [tool : {"build", "reprovision"}, fw : AppFiles \cup {None},
              sites : SUBSET {"auth", "pin"}, audio : AudioLists,
              nvs : NvsFiles \cup {None}, register : BOOLEAN, edits : EditLists, wifi : BOOLEAN]

ASSUME PipelineAssumption ==
  /\ "REGISTER_STR" \in Keys /\ "1" \in NvsValues /\ NoValue \notin NvsValues
  /\ StockMaps \subseteq [Keys -> NvsValues \cup {NoValue}]
  /\ StockImages \subseteq Image
  /\ EditLists \subseteq Seq(Keys \X NvsValues) /\ AudioLists \subseteq Seq(Names \X Clips)
  /\ Invocations \subseteq Arguments
  /\ MaxRuns \in Nat
  /\ \A f \in {NoFile, Torn} :
       f # "image" /\ f \notin Image /\ f \notin [Keys -> NvsValues \cup {NoValue}]

VARIABLES
  files,        \* what every path holds
  stock,        \* the dumps the user started from
  args,         \* of the run
  stage,        \* of the run: idle, app, nvs, wifi, included, check
  done,         \* steps done in this stage
  cur,          \* the file the next step reads
  line,         \* the files of the flash command
  was,          \* the files when the run began
  verdict,      \* of the last run: none, failed, good, bad
  runs

vars == <<files, stock, args, stage, done, cur, line, was, verdict, runs>>

NoArgs == [tool |-> "build", fw |-> None, sites |-> {}, audio |-> <<>>,
           nvs |-> None, register |-> FALSE, edits |-> <<>>, wifi |-> FALSE]
Whole(p) == files[p] \notin {NoFile, Torn}

\* The patches of a build, in order, and the edits of NVS.
AppSteps ==
  (IF "auth" \in args.sites THEN <<"auth">> ELSE <<>>) \o
  (IF "pin" \in args.sites THEN <<"pin">> ELSE <<>>) \o
  (IF args.audio # <<>> THEN <<"audio">> ELSE <<>>)

\* build_orb sets REGISTER_STR when it has an image to set it in; the edits of
\* reprovision do not wait for one.
Edits ==
  (IF args.register /\ (args.nvs # None \/ args.tool = "reprovision")
   THEN << <<"REGISTER_STR", "1">> >> ELSE <<>>) \o args.edits

TypeOK ==
  /\ \A p \in AppFiles : Whole(p) => files[p] \in Image
  /\ \A p \in NvsFiles : Whole(p) => files[p] \in [Keys -> NvsValues \cup {NoValue}]
  /\ stock.fw \in StockImages /\ stock.nvs \in StockMaps
  /\ args \in Arguments \cup {NoArgs}
  /\ stage \in {"idle", "app", "nvs", "wifi", "included", "check"}
  /\ done <= CASE stage = "app" -> Len(AppSteps) [] stage = "nvs" -> Len(Edits) [] OTHER -> 0
  /\ cur \in Paths \cup {None} /\ line \subseteq Paths
  /\ verdict \in {"none", "failed", "good", "bad"} /\ runs \in 0..MaxRuns

Init ==
  /\ stock \in [fw : StockImages, nvs : StockMaps]
  /\ files = [p \in Paths |-> IF p = "fw_in" THEN stock.fw
                              ELSE IF p = "nvs_in" THEN stock.nvs ELSE NoFile]
  /\ args = NoArgs /\ stage = "idle" /\ done = 0 /\ cur = None
  /\ line = {} /\ was = files /\ verdict = "none" /\ runs = 0

Writes(p, content) == files' = [files EXCEPT ![p] = content]

\* Mutant of Go: the steps are counted on.
Go_NoReset(s, from) == stage' = s /\ cur' = from /\ UNCHANGED done

\* Where the run goes from one stage to the next.
Go(s, from) == stage' = s /\ done' = 0 /\ cur' = from

(***************************************************************************)
(* A run.                                                                   *)
(***************************************************************************)
\* "app flags given but no --fw-in"
Refused(a) == a.tool = "build" /\ a.fw = None /\ (a.sites # {"auth", "pin"} \/ a.audio # <<>>)

Start(a) ==
  /\ stage = "idle" /\ runs < MaxRuns /\ ~Refused(a)
  /\ args' = a /\ runs' = runs + 1 /\ was' = files /\ line' = {} /\ verdict' = "none"
  /\ IF a.tool = "reprovision" THEN Go("wifi", None)
     ELSE IF a.fw # None THEN Go("app", a.fw)
     ELSE Go("nvs", a.nvs)
  /\ UNCHANGED <<files, stock>>

Static == UNCHANGED <<stock, args, was, runs>>

\* The step writes dst, or gives up before, or is cut off in the middle.
Ends(v) == stage' = "idle" /\ verdict' = v /\ done' = 0 /\ cur' = None
FailInto(dst) ==
  /\ Ends("failed") /\ UNCHANGED line /\ Static
  /\ files' = files \/ Writes(dst, Torn)

(***************************************************************************)
(* build_orb: the patches of the app, each from the file before it.         *)
(***************************************************************************)
AppTemp(s) == CASE s = "auth" -> ".app_auth" [] s = "pin" -> ".app_pin" [] OTHER -> ".app_audio"

Takes(s, img) == IF s = "audio" THEN Spliceable(args.audio, img) ELSE Patchable(s, img)
Gives(s, img) == IF s = "audio" THEN WithSounds(args.audio, img) ELSE Patched(s, img)

InApp == stage = "app" /\ done < Len(AppSteps)

\* Mutant of AppStep: every patch starts from the dump.
AppStep_FromInput ==
  /\ InApp /\ Whole(args.fw) /\ Takes(AppSteps[done + 1], files[args.fw])
  /\ Writes(AppTemp(AppSteps[done + 1]), Gives(AppSteps[done + 1], files[args.fw]))
  /\ cur' = AppTemp(AppSteps[done + 1]) /\ done' = done + 1
  /\ UNCHANGED <<stage, line, verdict>> /\ Static

\* Mutant of AppStep: the dump is patched in place.
AppStep_InPlace ==
  /\ InApp /\ Whole(cur) /\ Takes(AppSteps[done + 1], files[cur])
  /\ Writes(cur, Gives(AppSteps[done + 1], files[cur]))
  /\ done' = done + 1
  /\ UNCHANGED <<cur, stage, line, verdict>> /\ Static

AppStep ==
  /\ InApp /\ Whole(cur)
  /\ LET s == AppSteps[done + 1] IN
       /\ Takes(s, files[cur])
       /\ Writes(AppTemp(s), Gives(s, files[cur]))
       /\ cur' = AppTemp(s) /\ done' = done + 1
  /\ UNCHANGED <<stage, line, verdict>> /\ Static

AppStepFails == InApp /\ FailInto(AppTemp(AppSteps[done + 1]))

\* The last file of the chain becomes app_final.bin by a move: the user's own
\* dump, where there was nothing to patch.  The temporaries go.
Final(p) ==
  IF p = "app_final" THEN files[cur]
  ELSE IF p \in {cur, ".app_auth", ".app_pin", ".app_audio"} THEN NoFile
  ELSE files[p]

AppMove ==
  /\ stage = "app" /\ done = Len(AppSteps) /\ files[cur] # NoFile
  /\ files' = [p \in Paths |-> Final(p)]
  /\ line' = line \cup {"app_final"}
  /\ Go("nvs", args.nvs) /\ UNCHANGED verdict /\ Static

\* A move inside the output directory is one step, a move into it may be cut off.
AppMoveFails ==
  /\ stage = "app" /\ done = Len(AppSteps)
  /\ FailInto("app_final") /\ (cur # "fw_in" => UNCHANGED files)

(***************************************************************************)
(* Both: the edits of NVS, chained, the last one into nvs_out.bin.          *)
(***************************************************************************)
InNvs == stage = "nvs" /\ done < Len(Edits)
NvsDst == IF done + 1 = Len(Edits) THEN "nvs_out" ELSE NvsTemp(done + 1)

\* Mutant of NvsStep: every edit starts from the base image.
NvsStep_FromInput ==
  /\ InNvs /\ cur # None /\ Whole(args.nvs)
  /\ LET e == Edits[done + 1] IN
       /\ files[args.nvs][e[1]] # NoValue
       /\ Writes(NvsDst, [files[args.nvs] EXCEPT ![e[1]] = e[2]])
  /\ cur' = NvsDst /\ done' = done + 1
  /\ UNCHANGED <<stage, line, verdict>> /\ Static

NvsStep ==
  /\ InNvs /\ cur # None /\ Whole(cur)
  /\ LET e == Edits[done + 1] IN
       /\ files[cur][e[1]] # NoValue
       /\ Writes(NvsDst, [files[cur] EXCEPT ![e[1]] = e[2]])
  /\ cur' = NvsDst /\ done' = done + 1
  /\ UNCHANGED <<stage, line, verdict>> /\ Static

\* No base image for edits ends the run too, before anything is written.
NvsStepFails ==
  /\ InNvs
  /\ IF cur = None THEN FailInto("nvs_out") /\ UNCHANGED files ELSE FailInto(NvsDst)

NvsDone ==
  /\ stage = "nvs" /\ done = Len(Edits)
  /\ files' = [p \in Paths |->
       IF \E i \in 1..(Len(Edits) - 1) : p = NvsTemp(i) THEN NoFile ELSE files[p]]
  /\ line' = IF Edits = <<>> THEN line ELSE line \cup {"nvs_out"}
  /\ Go(IF args.tool = "build" THEN "wifi" ELSE "included", None)
  /\ UNCHANGED verdict /\ Static

(***************************************************************************)
(* Both: the WiFi image.  reprovision begins with it, build_orb ends so.    *)
(***************************************************************************)
Wifi ==
  /\ stage = "wifi"
  /\ IF args.wifi THEN Writes("wifi", "image") /\ line' = line \cup {"wifi"}
                  ELSE UNCHANGED <<files, line>>
  /\ IF args.tool = "build" THEN Go("check", None) ELSE Go("nvs", args.nvs)
  /\ UNCHANGED verdict /\ Static

WifiFails == stage = "wifi" /\ FailInto("wifi")

\* reprovision: the app file is named in the flash command, unread.
Include ==
  /\ stage = "included"
  /\ line' = IF args.fw = None THEN line ELSE line \cup {args.fw}
  /\ Ends(IF line' = {} THEN "failed" ELSE "good")
  /\ UNCHANGED files /\ Static

(***************************************************************************)
(* build_orb: the preflight reads back what was built.                      *)
(***************************************************************************)
PreflightGood ==
  /\ "app_final" \in line =>
       \A s \in args.sites : Whole("app_final") /\ files["app_final"].code[s] = "patched"
  /\ "nvs_out" \in line /\ args.register => files["nvs_out"]["REGISTER_STR"] = "1"

Preflight ==
  /\ stage = "check"
  /\ Ends(IF line = {} THEN "failed" ELSE IF PreflightGood THEN "good" ELSE "bad")
  /\ UNCHANGED <<files, line>> /\ Static

(***************************************************************************)
(* A patcher run by hand, in any order, over any app image.                 *)
(***************************************************************************)
ByHand(src) ==
  /\ stage = "idle" /\ runs < MaxRuns /\ Whole(src)
  /\ \/ \E s \in Sites : Patchable(s, files[src]) /\ Writes("by_hand", Patched(s, files[src]))
     \/ \E sets \in AudioLists \ {<<>>} :
          Spliceable(sets, files[src]) /\ Writes("by_hand", WithSounds(sets, files[src]))
  /\ runs' = runs + 1 /\ line' = {} /\ verdict' = "none"
  /\ UNCHANGED <<stock, args, stage, done, cur, was>>

Next ==
  \/ \E a \in Invocations : Start(a)
  \/ \E src \in AppFiles : ByHand(src)
  \/ AppStep \/ AppStepFails \/ AppMove \/ AppMoveFails
  \/ NvsStep \/ NvsStepFails \/ NvsDone
  \/ Wifi \/ WifiFails \/ Include \/ Preflight

Spec == Init /\ [][Next]_vars

-----------------------------------------------------------------------------
\* What the files of a flash command should hold, worked out from what the run
\* was given: every code patch, then the sounds, each put into its slot in turn.
Splice(img, set) == [img EXCEPT !.clip[set[1]] = set[2], !.slot[set[1]] = ClipSize[set[2]]]
AskedImage(img) ==
  LET coded == [img EXCEPT !.code = [s \in Sites |-> IF s \in args.sites THEN "patched" ELSE @[s]]]
      after[k \in 0..Len(args.audio)] ==
        IF k = 0 THEN coded ELSE Splice(after[k - 1], args.audio[k])
  IN  DigestOf([after[Len(args.audio)] EXCEPT !.sum = {}])

\* Of several edits of a key the last one counts.
AskedValue(map, k) ==
  IF k \in SetsFor(Edits, Len(Edits)) THEN SetFor(Edits, Len(Edits), k)[2] ELSE map[k]

\* Keys the run was not asked to set, about which the documents say otherwise
\* (RegisterIsAutomatic, below): REGISTER_STR in reprovision without --register.
Contested ==
  IF args.tool = "reprovision" /\ \A e \in Range(Edits) : e[1] # "REGISTER_STR"
  THEN {"REGISTER_STR"} ELSE {}

\* "a preflight check so you never ship a half-configured orb": a run that says
\* all is well names only files it has written whole in this run, with every
\* patch, sound and edit that was asked for, over the dumps it was given, and
\* nothing else in them changed.
FlashIsAsAsked ==
  verdict = "good" =>
    /\ "app_final" \in line /\ args.tool = "build" /\ was[args.fw] # Torn =>
         /\ Whole("app_final")
         /\ DigestOf([files["app_final"] EXCEPT !.sum = {}]) = AskedImage(was[args.fw])
    /\ "nvs_out" \in line =>
         \A k \in Keys \ Contested : files["nvs_out"][k] = AskedValue(was[args.nvs], k)
    /\ "wifi" \in line => Whole("wifi")

\* "so the output is a clean, valid image", "Safe to run AFTER
\* patch_pin_endpoint.py on the same image": whatever patchers have been over an
\* image, by hand or in a build, and in whatever order, its checksum is right if
\* that of the first dump was, and its digest is.
ImagesStayValid ==
  \A p \in AppFiles : Whole(p) =>
    /\ SumRight(stock.fw) => SumRight(files[p])
    /\ DigestRight(stock.fw) => DigestRight(files[p])
    /\ p = ".app_audio" => SumRight(files[p])

\* The user's dumps survive every run and every failure, except the app dump in a
\* build that patches nothing, where it becomes app_final.bin.
DumpsSurvive ==
  [][/\ files'["nvs_in"] = files["nvs_in"]
     /\ files'["fw_in"] # files["fw_in"] =>
          /\ args.fw = "fw_in" /\ args.sites = {} /\ args.audio = <<>>
          /\ files'["app_final"] = files["fw_in"]]_vars

\* The preflight fails only where the user's own --set undid REGISTER_STR; no
\* chain of the tools ends without complaint and short of a patch.
PreflightOnlyForOverride ==
  verdict = "bad" =>
    /\ args.register
    /\ \E e \in Range(args.edits) : e[1] = "REGISTER_STR" /\ e[2] # "1"

(***************************************************************************)
(* What a document says and the code does not do.                           *)
(***************************************************************************)

\* docs/wifi_provisioning.md, of reprovision over a factory dump, with an app, an
\* endpoint and a character and no --register: "REGISTER_STR=1 is automatic".
RegisterIsAutomatic ==
  /\ verdict = "good" /\ args.tool = "reprovision" /\ args.nvs = "nvs_in"
  /\ args.fw # None /\ Whole(args.fw)
  /\ {e[1] : e \in Range(args.edits)} = {"CHARACTER_STR", "ENDPOINT_STR"}
  => files["nvs_out"]["REGISTER_STR"] = "1"
=============================================================================
