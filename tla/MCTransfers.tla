------------------------------ MODULE MCTransfers ------------------------------
(* Instances of Transfers for TLC. *)
EXTENDS Transfers, TLC

Interchangeable == Permutations(Handlers) \cup Permutations(Keys) \cup Permutations(Sockets)
                   \cup Permutations(Agents)

================================================================================
