------------------------------- MODULE MCCases --------------------------------
(* Instances of Cases for TLC. *)
EXTENDS Cases, TLC

Interchangeable == Permutations(Cases) \cup Permutations(Clients) \cup Permutations(Times)

===============================================================================
