--------------------------- MODULE MCCryptoDeposits ---------------------------
(* CryptoDeposits on small instances. *)
EXTENDS CryptoDeposits, TLC

CONSTANTS o1, o2, a1, a2, d1, d2, job, button, agent

Interchangeable == Permutations({o1, o2}) \cup Permutations({a1, a2})
=============================================================================
