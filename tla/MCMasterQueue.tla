--------------------------- MODULE MCMasterQueue -----------------------------
(***************************************************************************)
(* Two masters that load the same two inputs for two applications.         *)
(***************************************************************************)
EXTENDS MasterQueueInvariant

MCInputs == {"i1", "i2"}
MCAppList == <<"a", "b">>
MCMasters == {"m1", "m2"}
=============================================================================
