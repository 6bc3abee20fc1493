------------------------------ MODULE CartPricing ------------------------------
(***************************************************************************)
(* What a cart costs (apps/api/src/modules/orders/cart-pricing.service.ts, *)
(* coupons, loyalty, payment-currency.ts): the pure part of a checkout.    *)
(* Money is in hundredths of its currency, a percentage in hundredths of a *)
(* percent, a rate in hundredths of a pound; PerCent is 100% of that.  A   *)
(* quotient of more than the twenty digits the Decimal library keeps is    *)
(* taken as exact.                                                         *)
(***************************************************************************)
EXTENDS Integers, FiniteSetsExt

PerCent == 10000
Cents == 100
Null == -1        \* a column without a value; no amount is negative
NoBundle == ""    \* a line that names no bundle
NoCoupon == [type |-> "NONE"]

AtMost(amount, limit) == IF amount > limit THEN limit ELSE amount
CeilDiv(a, b) == (a + b - 1) \div b
HalfUp(a, b) == (2 * a + b) \div (2 * b)

-----------------------------------------------------------------------------
(* The cart.  db is the products and bundles by id; a line names a product, a *)
(* quantity and perhaps a bundle.                                             *)

isActive(db, item) ==
  /\ item.productId \in DOMAIN db.products
  /\ db.products[item.productId].status = "ACTIVE"
  /\ db.products[item.productId].visibility = "VISIBLE"

bundleMayBeBought(db, item, isWholesale) ==
  /\ item.bundleId \in DOMAIN db.bundles
  /\ db.bundles[item.bundleId].active
  /\ db.bundles[item.bundleId].productId = item.productId
  /\ db.bundles[item.bundleId].wholesaleOnly => isWholesale

\* priceCart throws nothing: every line can be bought, all in one currency.
Purchasable(db, items, isWholesale) ==
  /\ items # << >>
  /\ \A k \in DOMAIN items :
       /\ isActive(db, items[k])
       /\ items[k].bundleId # NoBundle => bundleMayBeBought(db, items[k], isWholesale)
  /\ \A j, k \in DOMAIN items :
       db.products[items[j].productId].currency = db.products[items[k].productId].currency

\* What the line costs, the units it reserves, and the price shown for one.
lineTotal(db, item) ==
  item.quantity * (IF item.bundleId = NoBundle THEN db.products[item.productId].price
                   ELSE db.bundles[item.bundleId].price)
lineUnits(db, item) ==
  item.quantity * (IF item.bundleId = NoBundle THEN 1 ELSE db.bundles[item.bundleId].quantity)
unitPrice(db, item) ==
  IF item.bundleId = NoBundle THEN db.products[item.productId].price
  ELSE HalfUp(lineTotal(db, item), lineUnits(db, item))

Subtotal(db, items) == MapThenSumSet(LAMBDA k : lineTotal(db, items[k]), DOMAIN items)

-----------------------------------------------------------------------------
(* Discounts *)

\* The member discount of a customer: the better of the standing ones, or the
\* welcome gift of somebody who has neither; [kind |-> "NONE"] for none.
memberDiscountFor(customer, settings) ==
  LET legacy == IF ~customer.legacy THEN 0
                ELSE IF customer.legacyPercent # Null THEN customer.legacyPercent
                ELSE settings.legacyDiscountPercent
      verified == IF customer.verified THEN settings.verifiedDiscountPercent ELSE 0
      newcomer == ~customer.legacy /\ ~customer.verified /\ ~customer.holdsGift
      discount(kind, percent) == [kind |-> kind, percent |-> percent]
  IN IF legacy > 0 /\ legacy >= verified THEN discount("LEGACY", legacy)
     ELSE IF verified > 0 THEN discount("VERIFIED", verified)
     ELSE IF newcomer /\ settings.welcomeGiftPercent > 0
     THEN discount("WELCOME", settings.welcomeGiftPercent)
     ELSE discount("NONE", 0)

amountOff(percent, amount) == AtMost((amount * percent) \div PerCent, amount)

\* What a coupon takes off: cents are rounded down, and never more than there is.
computeDiscount(coupon, subtotal) ==
  AtMost(IF coupon.type = "FIXED" THEN coupon.value
         ELSE LET raw == (subtotal * coupon.value) \div PerCent
              IN IF coupon.maxDiscount = Null THEN raw ELSE AtMost(raw, coupon.maxDiscount),
         subtotal)

\* CouponsService.quote throws nothing. A coupon's window is whether it has
\* started and not ended; used is the customer's redemptions of it.
Usable(coupon, used, subtotal) ==
  /\ coupon.active /\ coupon.started /\ ~coupon.ended
  /\ coupon.minSubtotal # Null => subtotal >= coupon.minSubtotal
  /\ coupon.maxRedemptions # Null => coupon.timesRedeemed < coupon.maxRedemptions
  /\ used < coupon.perCustomerLimit
  /\ computeDiscount(coupon, subtotal) > 0

\* The price of a subtotal for a customer with this percentage: the member
\* discount first, then the coupon, one that may be used or NoCoupon, on what is
\* left.
quote(subtotal, percent, coupon) ==
  LET member == amountOff(percent, subtotal)
      discount == IF coupon = NoCoupon THEN 0 ELSE computeDiscount(coupon, subtotal - member)
  IN [member |-> member, coupon |-> discount,
      discountTotal |-> member + discount, total |-> subtotal - (member + discount)]

-----------------------------------------------------------------------------
(* Payment in another currency *)

canonical(currency) == IF currency \in {"USDT", "USDC"} THEN "USD" ELSE currency

targetCurrency(method) == IF method.provider # "MANUAL" THEN "USD" ELSE method.currency

\* What is transferred: pounds rounded up to a whole one, dollars to a cent, and the
\* total itself where no conversion is known.
convertForPayment(total, orderCurrency, methodCurrency, egpPerUsd) ==
  LET from == canonical(orderCurrency)
      to == canonical(methodCurrency)
      converted(currency, amount) == [currency |-> currency, amount |-> amount]
  IN IF egpPerUsd > 0 /\ from = "USD" /\ to = "EGP"
     THEN converted("EGP", Cents * CeilDiv(total * egpPerUsd, Cents * Cents))
     ELSE IF egpPerUsd > 0 /\ from = "EGP" /\ to = "USD"
     THEN converted("USD", CeilDiv(total * Cents, egpPerUsd))
     ELSE converted(orderCurrency, total)

conversionFor(total, orderCurrency, method, egpPerUsd) ==
  convertForPayment(total, orderCurrency, targetCurrency(method), egpPerUsd)
=============================================================================
