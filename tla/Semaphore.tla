------------------------------ MODULE Semaphore ------------------------------
(***************************************************************************)
(* What a lease set of the provider capacity coordinator promises: at most *)
(* Limit owners.  Owners leave at any time, several at once (a sweep), and *)
(* one enters at a time, only into room that is free when it enters.       *)
(***************************************************************************)
EXTENDS Naturals, FiniteSets

CONSTANTS Tokens, Limit
VARIABLE owners

Vacate(gone) == owners' = owners \ gone

Occupy(gone, t) ==
    /\ Cardinality(owners \ gone) < Limit
    /\ owners' = (owners \ gone) \cup {t}

SemaphoreNext == \E gone \in SUBSET owners : Vacate(gone) \/ (\E t \in Tokens : Occupy(gone, t))

=============================================================================
