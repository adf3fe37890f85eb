------------------------ MODULE MCWorkAndWorkforce ------------------------
(* WorkAndWorkforce for TLC: the calls in progress are interchangeable, and *)
(* so are the members seeded as active.                                     *)
EXTENDS WorkAndWorkforce, TLC

Interchangeable == Permutations(Calls) \union Permutations(Founders)
=============================================================================
