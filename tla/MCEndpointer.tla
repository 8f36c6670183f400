----------------------------- MODULE MCEndpointer -----------------------------
(* Every audio of N frames, every way of cutting it into chunks.             *)
EXTENDS Endpointer
=============================================================================
