----------------------------- MODULE JsonValue -----------------------------
(***************************************************************************)
(* JSON values as tagged tuples, <<"integer", 2>> or <<"object", f>> with f *)
(* a function from names.                                                  *)
(***************************************************************************)

Null      == <<"null">>
Missing   == <<"missing">>
Nothing   == [n \in {} |-> Null]
Object(f) == <<"object", f>>
=============================================================================
