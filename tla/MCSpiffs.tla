------------------------------- MODULE MCSpiffs -------------------------------
(* Three blocks of six usable pages.  A head index page records one data page, *)
(* a further one four; a chunk has eleven bytes.                              *)
EXTENDS Spiffs, TLC

SomeFiles == {"empty", "wifi", "long", "longer", "accents", "named"}
SomeSizes == [f \in SomeFiles |->
  CASE f = "empty" -> 0 [] f = "wifi" -> 12 [] f = "long" -> 55 [] f = "longer" -> 77 [] OTHER -> 1]
Characters == [f \in SomeFiles |-> IF f = "named" THEN 2 ELSE 1]
Bytes == [f \in SomeFiles |-> IF f \in {"named", "accents"} THEN 2 ELSE 1]
=============================================================================
