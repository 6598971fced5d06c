---------------------------- MODULE MCCallLifecycle ---------------------------
(* Instances of CallLifecycle for TLC. *)
EXTENDS CallLifecycle, TLC

SinksInterchangeable == Permutations(Sinks)

===============================================================================
