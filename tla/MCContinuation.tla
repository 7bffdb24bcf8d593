--------------------------- MODULE MCContinuation ---------------------------
(* Instances of Continuation. *)
EXTENDS Continuation

CONSTANTS long, short

(* long has two pages, short one. *)
MCPages == [x \in Providers |-> IF x = long THEN 2 ELSE 1]
=============================================================================
