--------------------------- MODULE CartPricingProofs ---------------------------
(* What CartPricing computes, for every amount, percentage and rate. *)
EXTENDS CartPricing, TLAPS

IsCoupon(c) == c.value \in Nat /\ c.maxDiscount \in Nat \cup {Null}

-----------------------------------------------------------------------------
(* Arithmetic *)

\* A quotient, and what is lost by rounding it down.
LEMMA Quotient ==
  ASSUME NEW a \in Nat, NEW b \in Nat \ {0}
  PROVE  a \div b \in Nat /\ b * (a \div b) <= a /\ a < b * (a \div b) + b
  BY SMT

\* Multiplying keeps an order.
LEMMA TimesMonotone ==
  ASSUME NEW a \in Nat, NEW b \in Nat, NEW n \in Nat, a <= b
  PROVE  a * n \in Nat /\ a * n <= b * n
  BY SMT

\* An amount capped by a limit.
LEMMA Capped ==
  ASSUME NEW a \in Nat, NEW limit \in Nat
  PROVE  AtMost(a, limit) \in 0 .. limit
  BY DEF AtMost

\* A percentage of an amount grows with the amount and, up to all of it, no faster.
LEMMA PercentageGrows ==
  ASSUME NEW a \in Nat, NEW b \in Nat, NEW p \in Nat, a <= b
  PROVE  /\ (a * p) \div PerCent \in Nat /\ (b * p) \div PerCent \in Nat
         /\ (a * p) \div PerCent <= (b * p) \div PerCent
         /\ p <= PerCent => (b * p) \div PerCent <= (a * p) \div PerCent + (b - a)
         /\ p >= PerCent => (a * p) \div PerCent >= a
<1>1. a * p \in Nat /\ b * p \in Nat /\ a * p <= b * p
  BY TimesMonotone
<1>2. p <= PerCent => b * p <= a * p + (b - a) * PerCent
  <2>1. ASSUME p <= PerCent PROVE (b - a) * p <= (b - a) * PerCent
    BY <2>1, TimesMonotone, p * (b - a) <= PerCent * (b - a) DEF PerCent
  <2>2. (b - a) * p = b * p - a * p
    BY SMT
  <2> QED BY <1>1, <2>1, <2>2 DEF PerCent
<1>3. p >= PerCent => a * p >= a * PerCent
  BY TimesMonotone DEF PerCent
<1> QED BY <1>1, <1>2, <1>3 DEF PerCent

-----------------------------------------------------------------------------
(* Discounts *)

\* What a member discount takes is between nothing and all of the amount.
LEMMA MemberFits ==
  ASSUME NEW amount \in Nat, NEW p \in Nat
  PROVE  amountOff(p, amount) \in 0 .. amount
<1>1. amount * p \in Nat
  BY TimesMonotone, amount <= amount
<1>2. (amount * p) \div PerCent \in Nat
  BY <1>1, Quotient DEF PerCent
<1> QED BY <1>2, Capped DEF amountOff

\* So is what a coupon takes.
LEMMA CouponFits ==
  ASSUME NEW amount \in Nat, NEW c, IsCoupon(c)
  PROVE  computeDiscount(c, amount) \in 0 .. amount
<1>1. amount * c.value \in Nat
  BY TimesMonotone, amount <= amount DEF IsCoupon
<1>2. (amount * c.value) \div PerCent \in Nat
  BY <1>1, Quotient DEF PerCent
<1> DEFINE raw == (amount * c.value) \div PerCent
           taken == IF c.type = "FIXED" THEN c.value
                    ELSE IF c.maxDiscount = Null THEN raw ELSE AtMost(raw, c.maxDiscount)
<1>3. taken \in Nat
  BY <1>2 DEF IsCoupon, AtMost, Null
<1>4. computeDiscount(c, amount) = AtMost(taken, amount)
  BY DEF computeDiscount
<1> HIDE DEF taken
<1> QED BY <1>3, <1>4, Capped

\* What is left after a member discount grows with the amount.
LEMMA MemberKeepsOrder ==
  ASSUME NEW a \in Nat, NEW b \in Nat, NEW p \in Nat, a <= b
  PROVE  a - amountOff(p, a) <= b - amountOff(p, b)
  BY PercentageGrows DEF amountOff, AtMost, PerCent

\* So does what is left after a coupon, whatever its type, value and ceiling.
LEMMA CouponKeepsOrder ==
  ASSUME NEW a \in Nat, NEW b \in Nat, NEW c, IsCoupon(c), a <= b
  PROVE  a - computeDiscount(c, a) <= b - computeDiscount(c, b)
<1> DEFINE rawA == (a * c.value) \div PerCent
           rawB == (b * c.value) \div PerCent
<1>1. /\ rawA \in Nat /\ rawB \in Nat /\ rawA <= rawB
      /\ c.value <= PerCent => rawB <= rawA + (b - a)
      /\ c.value >= PerCent => rawA >= a
  BY PercentageGrows DEF IsCoupon
<1>2. c.value >= PerCent => rawB >= b
  BY PercentageGrows DEF IsCoupon
<1> HIDE DEF rawA, rawB
<1>3. computeDiscount(c, a) = AtMost(IF c.type = "FIXED" THEN c.value
        ELSE IF c.maxDiscount = Null THEN rawA ELSE AtMost(rawA, c.maxDiscount), a)
  BY DEF computeDiscount, rawA
<1>4. computeDiscount(c, b) = AtMost(IF c.type = "FIXED" THEN c.value
        ELSE IF c.maxDiscount = Null THEN rawB ELSE AtMost(rawB, c.maxDiscount), b)
  BY DEF computeDiscount, rawB
<1> QED BY <1>1, <1>2, <1>3, <1>4 DEF IsCoupon, AtMost, Null, PerCent

\* The member discount and a coupon together never take more than the cart is worth,
\* as the comment of CartPricingService.quote has it, and the total is the subtotal
\* less the two: no customer is owed money.
THEOREM NobodyIsOwed ==
  ASSUME NEW subtotal \in Nat, NEW p \in Nat, NEW c, c = NoCoupon \/ IsCoupon(c)
  PROVE  LET q == quote(subtotal, p, c)
         IN /\ q.total \in 0 .. subtotal /\ q.total = subtotal - q.discountTotal
            /\ q.discountTotal = q.member + q.coupon
            /\ q.member \in 0 .. subtotal /\ q.coupon \in 0 .. (subtotal - q.member)
<1>1. amountOff(p, subtotal) \in 0 .. subtotal
  BY MemberFits
<1>2. ASSUME c # NoCoupon
      PROVE  computeDiscount(c, subtotal - amountOff(p, subtotal))
               \in 0 .. (subtotal - amountOff(p, subtotal))
  BY <1>1, <1>2, CouponFits
<1> QED BY <1>1, <1>2 DEF quote

\* Putting more into a cart never makes it cheaper, whatever the member discount and
\* as long as the coupon stays the same: no rounding on the way turns the order round.
THEOREM MoreNeverCostsLess ==
  ASSUME NEW small \in Nat, NEW large \in Nat, NEW p \in Nat,
         NEW c, c = NoCoupon \/ IsCoupon(c), small <= large
  PROVE  quote(small, p, c).total <= quote(large, p, c).total
<1> DEFINE a == small - amountOff(p, small)
           b == large - amountOff(p, large)
<1>1. /\ amountOff(p, small) \in 0 .. small /\ amountOff(p, large) \in 0 .. large
      /\ a <= b
  BY MemberFits, MemberKeepsOrder
<1>2. CASE c = NoCoupon
  BY <1>1, <1>2 DEF quote
<1>3. CASE c # NoCoupon
  <2>1. a - computeDiscount(c, a) <= b - computeDiscount(c, b)
    BY <1>1, <1>3, CouponKeepsOrder
  <2>2. computeDiscount(c, a) \in 0 .. a /\ computeDiscount(c, b) \in 0 .. b
    BY <1>1, <1>3, CouponFits
  <2> QED BY <1>1, <1>3, <2>1, <2>2 DEF quote
<1> QED BY <1>2, <1>3

-----------------------------------------------------------------------------
(* Transfers *)

\* A quotient rounded up is the least that covers what is divided.
LEMMA RoundedUp ==
  ASSUME NEW a \in Nat, NEW b \in Nat \ {0}
  PROVE  /\ CeilDiv(a, b) \in Nat
         /\ b * CeilDiv(a, b) >= a /\ b * CeilDiv(a, b) < a + b
<1>1. a + b - 1 \in Nat
  OBVIOUS
<1> QED BY <1>1, Quotient DEF CeilDiv

\* An order in dollars paid in pounds, or the other way round, is never a piastre or
\* a cent short, and nobody is asked for a whole pound or cent more than it is worth.
THEOREM TransferCoversTotal ==
  ASSUME NEW total \in Nat, NEW rate \in Nat \ {0}
  PROVE  LET pounds == convertForPayment(total, "USD", "EGP", rate).amount
             dollars == convertForPayment(total, "EGP", "USD", rate).amount
         IN /\ pounds * Cents >= total * rate
            /\ pounds * Cents < total * rate + Cents * Cents
            /\ dollars * rate >= total * Cents
            /\ dollars * rate < total * Cents + rate
<1>1. total * rate \in Nat /\ total * Cents \in Nat
  BY TimesMonotone DEF Cents
<1> DEFINE up == CeilDiv(total * rate, Cents * Cents)
           down == CeilDiv(total * Cents, rate)
<1>2. up \in Nat /\ 10000 * up >= total * rate /\ 10000 * up < total * rate + 10000
  BY <1>1, RoundedUp DEF Cents
<1>3. down \in Nat /\ rate * down >= total * Cents /\ rate * down < total * Cents + rate
  BY <1>1, RoundedUp
<1>4. convertForPayment(total, "USD", "EGP", rate).amount = Cents * up
  BY DEF convertForPayment, canonical
<1>5. convertForPayment(total, "EGP", "USD", rate).amount = down
  BY DEF convertForPayment, canonical
<1> HIDE DEF up, down
<1>6. down * rate = rate * down
  BY <1>3
<1> QED BY <1>1, <1>2, <1>3, <1>4, <1>5, <1>6 DEF Cents

\* Units at the price shown for one miss what a bundle costs by half a cent each.
THEOREM UnitPriceIsNearest ==
  ASSUME NEW cost \in Nat, NEW units \in Nat \ {0}
  PROVE  LET miss == units * HalfUp(cost, units) - cost
         IN 2 * miss <= units /\ -units < 2 * miss
<1>1. 2 * cost + units \in Nat /\ 2 * units \in Nat \ {0}
  OBVIOUS
<1> DEFINE n == HalfUp(cost, units)
<1>2. /\ n \in Nat /\ (2 * units) * n <= 2 * cost + units
      /\ 2 * cost + units < (2 * units) * n + 2 * units
  BY <1>1, Quotient DEF HalfUp
<1> HIDE DEF n
<1>3. (2 * units) * n = 2 * (units * n) /\ units * n \in Nat
  BY <1>2
<1> QED BY <1>2, <1>3 DEF n
=============================================================================
