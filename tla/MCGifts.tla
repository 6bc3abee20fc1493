-------------------------------- MODULE MCGifts --------------------------------
(* Gifts on small instances. *)
EXTENDS Gifts, TLC

CONSTANTS k1, k2, k3, b1, b2, v1, v2, r1, r2, c1, c2, i1, i2

ProductOf(type, mode) == [giftType |-> type, inventoryMode |-> mode]
AllProducts ==
  {ProductOf("INSTANT_FREE", "INDIVIDUAL"), ProductOf("INSTANT_FREE", "QUANTITY"),
   ProductOf("SOCIAL_REWARD", "QUANTITY")}
SoldByItem == {ProductOf("INSTANT_FREE", "INDIVIDUAL")}

Senders == [s \in Claims \cup Checkouts \cup Rewards |-> IF s \in {k1, k2, r1} THEN c1 ELSE c2]

ItemSymmetry == Permutations(Items)
=============================================================================
