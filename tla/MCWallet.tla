------------------------------- MODULE MCWallet -------------------------------
(* Wallet on small instances. *)
EXTENDS Wallet, TLC

CONSTANTS c1, c2, o1, o2, t1, t2, r1

BothOfOne == [o \in Orders |-> c1]
Prices == [o \in Orders |-> IF o = o1 THEN 1 ELSE 2]

Interchangeable == Permutations({t1, t2})
=============================================================================
