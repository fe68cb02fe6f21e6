---------------------------- MODULE MCProducers -----------------------------
(* Producers with one change of every kind the trigger reports; the second
   stands for a message that is no row change. *)
EXTENDS Producers

MCOps == <<"insert", "truncate", "update", "delete">>
=============================================================================
