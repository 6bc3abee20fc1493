------------------------------- MODULE MCOrders -------------------------------
(* Orders on small instances. *)
EXTENDS Orders, TLC, MCCartPricing

CONSTANTS c1, c2, o1, o2, o3, i1, i2, i3, p1, p2

OneCustomer == o1 :> c1 @@ o2 :> c1
TwoOfThree == o1 :> c1 @@ o2 :> c1 @@ o3 :> c2
OneItemEach == [o \in Orders |-> 1]
NoGoods == [o \in Orders |-> 0]
OneAndTwo == o1 :> 1 @@ o2 :> 2
MinusOne == {-1}

ItemSymmetry == Permutations(Items)
=============================================================================
