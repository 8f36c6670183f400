-------------------------------- MODULE MCNvs --------------------------------
(* A small partition: two string keys and a blob, two namespaces.            *)
EXTENDS NvsStore, TLC

SmallEntries == {<<"my-app", "ENDPOINT_STR">>, <<"my-app", "TOKEN_STR">>, <<"phy", "cal_data">>}
SmallStrings == {"ENDPOINT_STR", "TOKEN_STR"}
ShortValues == {"a", "b"}
ShortData == "a" :> 1 @@ "b" :> 2

\* One value has a larger span than the walkers believe.
LongValues == {"a", "long"}
LongData == "a" :> 1 @@ "long" :> 3
=============================================================================
