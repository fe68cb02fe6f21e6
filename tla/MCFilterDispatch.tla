-------------------------- MODULE MCFilterDispatch --------------------------
(* FilterDispatch on two fields.  MCSameKind gives every value the kind that
   filters of one JSON type use; MCMixedKinds adds an integer that prints
   like a string value. *)
EXTENDS FilterDispatch

MCSameKind == {[kind |-> "String", text |-> "1"], [kind |-> "String", text |-> "2"]}
MCMixedKinds == {[kind |-> "String", text |-> "1"], [kind |-> "Integer", text |-> "1"]}
=============================================================================
