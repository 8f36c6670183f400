------------------------------- MODULE MCBuild -------------------------------
(* One embedded sound, whose slot only ever gets smaller; a stock image       *)
(* with a right checksum and one without, whose dump ends before the digest;  *)
(* NVS with and without an entry for CHARACTER_STR.                           *)
EXTENDS BuildPipeline, TLC

Sound == {"bootup"}
SomeClips == {"factory", "small", "same", "wav"}
Sizes == "factory" :> 2 @@ "small" :> 1 @@ "same" :> 2 @@ "wav" :> 1
Oggs == {"factory", "small", "same"}

Bare == [code |-> [s \in Sites |-> "stock"], clip |-> [n \in Sound |-> "factory"],
         slot |-> [n \in Sound |-> 2], sum |-> {}]
Dump == [Bare EXCEPT !.sum = TrueSum(Bare)]
Img(bare, h) == [code |-> bare.code, clip |-> bare.clip, slot |-> bare.slot, sum |-> bare.sum,
                 hashed |-> h, digest |-> bare]
SomeImages == {Img(Dump, TRUE), Img(Bare, FALSE)}

SomeKeys == {"REGISTER_STR", "ENDPOINT_STR", "CHARACTER_STR"}
SomeValues == {"0", "1", "x"}
Factory == [k \in SomeKeys |-> "0"]
SomeMaps == {Factory, [Factory EXCEPT !["CHARACTER_STR"] = NoValue]}

SomeAudio == {<<>>, << <<"bootup", "small">> >>, << <<"bootup", "same">>, <<"bootup", "small">> >>,
              << <<"bootup", "wav">> >>}
Endpoint == <<"ENDPOINT_STR", "x">>
Character == <<"CHARACTER_STR", "x">>
SomeEdits == {<<>>, <<Endpoint>>, <<Character, Endpoint>>, <<Endpoint, <<"REGISTER_STR", "0">> >>}

\* Every app build over a dump, and over what is there, with NVS as usual; every
\* NVS build with and without an app.
Usual == [NoArgs EXCEPT !.sites = {"auth", "pin"}, !.register = TRUE]
AppRuns ==
  {[Usual EXCEPT !.fw = f, !.sites = s, !.audio = a, !.nvs = "nvs_in"] :
     f \in {"fw_in", "app_final", "by_hand"}, s \in SUBSET {"auth", "pin"}, a \in SomeAudio}
NvsRuns ==
  {[Usual EXCEPT !.tool = t, !.fw = f, !.nvs = n, !.register = r, !.edits = e, !.wifi = (n # "nvs_out")] :
     t \in {"build", "reprovision"}, f \in {None, "app_final"}, n \in {None, "nvs_in", "nvs_out"},
     r \in BOOLEAN, e \in SomeEdits}
SomeRuns == AppRuns \cup NvsRuns
=============================================================================
