---------------------------- MODULE MCCartPricing ----------------------------
(* CartPricing against reference definitions, on bounded inputs. *)
EXTENDS CartPricing, SequencesExt

Amounts == 0 .. 25 \cup {199, 300}
Percents == {0, 1, 333, 9000, 10000, 12000}
Caps == {Null, 0, 3, 100}

AllCoupons ==
  [type : {"PERCENT"}, value : Percents \ {0}, maxDiscount : Caps]
    \cup [type : {"FIXED"}, value : {1, 7, 1000}, maxDiscount : {Null}]

\* A percentage off is the largest number of cents that takes no more than the
\* percentage says and no more than there is.
ASSUME PercentageTakesNoMore ==
  \A a \in Amounts, p \in Percents :
    amountOff(p, a) = Max({d \in 0 .. a : d * PerCent <= a * p})

\* A coupon takes the largest number of cents within what it says, its ceiling and
\* the amount.
ASSUME CouponTakesNoMore ==
  \A a \in Amounts, c \in AllCoupons :
    computeDiscount(c, a) =
      Max({d \in 0 .. a :
             IF c.type = "FIXED" THEN d <= c.value
             ELSE d * PerCent <= a * c.value /\ (c.maxDiscount # Null => d <= c.maxDiscount)})

\* A transfer is the least whole pound, or the least cent, that is worth the total.
ASSUME TransferIsLeast ==
  \A total \in 0 .. 30, rate \in {50, 99, 100, 101, 5025} :
    LET pounds == convertForPayment(total, "USDT", "EGP", rate)
        dollars == convertForPayment(total, "EGP", "USD", rate)
    IN /\ pounds.amount = Min({a \in {Cents * n : n \in 0 .. 16} : a * Cents >= total * rate})
       /\ dollars.amount = Min({a \in 0 .. 60 : a * rate >= total * Cents})

\* An exchange is paid in dollars whatever its currency field says, and pairs that are
\* not known, and dollars by any name, are not converted.
ASSUME OnlyKnownPairsConvert ==
  \A from, to \in {"USD", "USDT", "USDC", "EGP", "SAR"}, provider \in {"MANUAL", "BINANCE"} :
    LET t == conversionFor(30, from, [provider |-> provider, currency |-> to], 5000)
    IN /\ (provider = "BINANCE" /\ from # "EGP") => t = [currency |-> from, amount |-> 30]
       /\ t.amount # 30 => {from, t.currency} \cap {"EGP"} # {} /\ t.currency \in {"EGP", "USD"}
       /\ "SAR" \in {from, to} /\ provider = "MANUAL" => t.amount = 30

-----------------------------------------------------------------------------

Product(currency, price, status) ==
  [status |-> status, visibility |-> "VISIBLE", currency |-> currency, price |-> price]
Store ==
  [products |-> [a |-> Product("USD", 250, "ACTIVE"), b |-> Product("USD", 199, "ACTIVE"),
                 e |-> Product("EGP", 5000, "ACTIVE"), x |-> Product("USD", 100, "DRAFT")],
   bundles |-> [a3 |-> [productId |-> "a", active |-> TRUE, wholesaleOnly |-> FALSE,
                        price |-> 700, quantity |-> 3],
                a9 |-> [productId |-> "a", active |-> TRUE, wholesaleOnly |-> TRUE,
                        price |-> 2006, quantity |-> 9],
                b2 |-> [productId |-> "b", active |-> FALSE, wholesaleOnly |-> FALSE,
                        price |-> 300, quantity |-> 2]]]
Lines ==
  [productId : {"a", "b", "e", "x", "gone"}, quantity : {1, 2}, bundleId : {NoBundle, "a3", "a9", "b2"}]
Carts == {<< >>} \cup {<<l>> : l \in Lines} \cup {<<l, m>> : l, m \in Lines}

\* What checkout would go through with: no draft, no bundle that is off, of another
\* product or for merchants only, no two currencies.
ASSUME CartsThatCanBeBought ==
  \A items \in Carts, merchant \in BOOLEAN :
    LET used == ToSet(items)
        bad == {l \in used : \/ l.productId \in {"x", "gone"}
                             \/ l.bundleId = "b2"
                             \/ l.bundleId \in {"a3", "a9"} /\ l.productId # "a"
                             \/ l.bundleId = "a9" /\ ~merchant}
    IN Purchasable(Store, items, merchant) <=>
         items # << >> /\ bad = {} /\ ("e" \in {l.productId : l \in used} =>
                                         \A l \in used : l.productId = "e")

\* The subtotal is what the loop over the lines adds up; the price shown for a unit of
\* a bundle is the nearest cent, so units at that price miss the line's total by half
\* a cent each at most.
ASSUME SubtotalAddsUp ==
  \A items \in {c \in Carts : Purchasable(Store, c, TRUE)} :
    /\ Subtotal(Store, items) = FoldLeft(LAMBDA sum, l : sum + lineTotal(Store, l), 0, items)
    /\ \A l \in ToSet(items) :
         LET miss == unitPrice(Store, l) * lineUnits(Store, l) - lineTotal(Store, l)
         IN 2 * miss <= lineUnits(Store, l) /\ -2 * miss <= lineUnits(Store, l)

\* One discount at most: the best standing one, and the gift only without any.
ASSUME BestDiscountWins ==
  \A customer \in [legacy : BOOLEAN, legacyPercent : {Null, 0, 500, 700}, verified : BOOLEAN,
                   holdsGift : BOOLEAN],
     settings \in [legacyDiscountPercent : {0, 600}, verifiedDiscountPercent : {0, 500, 600},
                   welcomeGiftPercent : {0, 1000}] :
    LET d == memberDiscountFor(customer, settings)
        legacy == IF customer.legacyPercent = Null THEN settings.legacyDiscountPercent
                  ELSE customer.legacyPercent
    IN /\ d.kind = "LEGACY" => customer.legacy /\ d.percent = legacy
       /\ d.kind = "VERIFIED" => customer.verified
       /\ customer.legacy => d.percent >= legacy
       /\ customer.verified => d.percent >= settings.verifiedDiscountPercent
       /\ d.kind = "WELCOME" => ~(customer.legacy \/ customer.verified \/ customer.holdsGift)
       /\ (d.percent = 0) <=> (d.kind = "NONE")

\* A code is turned down when it takes nothing off, and never otherwise within its
\* window, its limits and its minimum.
ASSUME UsableTakesSomething ==
  \A a \in Amounts, c \in AllCoupons, minimum \in {Null, 0, 20}, times \in {0, 1} :
    LET coupon == [type |-> c.type, value |-> c.value, maxDiscount |-> c.maxDiscount,
                   active |-> TRUE, started |-> TRUE, ended |-> FALSE, minSubtotal |-> minimum,
                   maxRedemptions |-> 1, timesRedeemed |-> times, perCustomerLimit |-> 1]
    IN Usable(coupon, 0, a) <=> times = 0 /\ a >= minimum /\ computeDiscount(c, a) \in 1 .. a
=============================================================================
