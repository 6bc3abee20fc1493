------------------------------ MODULE MCDelivery ------------------------------
(* Delivery on small instances. *)
EXTENDS Delivery, TLC

CONSTANTS o1, l1, l2, i1, i2, i3, i4, w1, w2, a1

OneOrder == [l \in Lines |-> o1]
BothSecrets == [l \in Lines |-> "secret"]
InTurn == [l \in Lines |-> IF l = l1 THEN 1 ELSE 2]
OneEach == [l \in Lines |-> 1]

\* Beside the items of the two lines, the order was sold one of another product, and
\* another order one of the same product.
Products == [i \in Items |-> IF i = i3 THEN "key" ELSE "secret"]
SoldTo == [i \in Items |-> IF i = i4 THEN NoOrder ELSE o1]
=============================================================================
