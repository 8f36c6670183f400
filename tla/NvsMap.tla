-------------------------------- MODULE NvsMap --------------------------------
(***************************************************************************)
(* What an NVS partition promises its users: a map from entries (namespace  *)
(* and key) to values.  "latest live entry wins" (tools/nvs_set.py).        *)
(***************************************************************************)
CONSTANTS Entries, Values, NoValue

VARIABLE store

Init == store = [e \in Entries |-> NoValue]

\* One entry gets a value; every other entry keeps its own.
Put(e, v) == store' = [store EXCEPT ![e] = v]

Next == \E e \in Entries, v \in Values : Put(e, v)

Spec == Init /\ [][Next]_store
=============================================================================
