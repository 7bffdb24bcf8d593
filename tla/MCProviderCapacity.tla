------------------------- MODULE MCProviderCapacity -------------------------
(* Instances of ProviderCapacity: slots, providers and tokens are          *)
(* interchangeable.                                                        *)
EXTENDS ProviderCapacity, TLC

Symmetry == Permutations(Ops) \cup Permutations(Providers) \cup Permutations(Tokens)
=============================================================================
