--------------------------- MODULE Pricing_proofs ---------------------------
(***************************************************************************)
(* Pricing, for every finite set of items and whatever prices staff enter: *)
(* what rounding does to an amount, what the totals of a cart are, and that *)
(* the page is kept and the amounts of an order stay together.             *)
(***************************************************************************)
EXTENDS Pricing, FiniteData

-----------------------------------------------------------------------------
(* Rounding *)

LEMMA HalfUpNearest ==
    ASSUME NEW x \in Int
    PROVE  /\ \E k \in Int : HalfUp(x) = k * Toman
           /\ HalfUp(x) \in Int
           /\ 2 * HalfUp(x) <= 2 * x + Toman
           /\ 2 * x < 2 * HalfUp(x) + Toman
<1> DEFINE q == (2 * x + Toman) \div (2 * Toman)
<1>1. Toman \in Nat \ {0}
  BY PricingConstants
<1>2. q \in Int
  BY <1>1
<1>3. (2 * Toman) * q <= 2 * x + Toman /\ 2 * x + Toman < (2 * Toman) * q + 2 * Toman
  BY <1>1
<1>4. HalfUp(x) = q * Toman
  BY DEF HalfUp
<1> HIDE DEF q
<1>5. q * Toman \in Int /\ (2 * Toman) * q = 2 * (q * Toman)
  BY <1>1, <1>2
<1>6. QED
  BY <1>1, <1>2, <1>3, <1>4, <1>5

\* A stored amount is half a toman away at most; one that is not negative is
\* rounded up from the half.
LEMMA Nearest ==
    ASSUME NEW x \in Int
    PROVE  /\ Rounded(x) \in Int
           /\ 2 * Rounded(x) <= 2 * x + Toman
           /\ 2 * x <= 2 * Rounded(x) + Toman
           /\ x >= 0 => 2 * x < 2 * Rounded(x) + Toman
<1>1. Toman \in Nat \ {0}
  BY PricingConstants
<1>2. CASE x >= 0
  <2>1. Rounded(x) = HalfUp(x)
    BY <1>2 DEF Rounded
  <2>2. QED
    BY <1>1, <2>1, HalfUpNearest
<1>3. CASE x < 0
  <2>1. Rounded(x) = -HalfUp(-x) /\ -x \in Int
    BY <1>3 DEF Rounded
  <2>2. /\ HalfUp(-x) \in Int
        /\ 2 * HalfUp(-x) <= 2 * (-x) + Toman /\ 2 * (-x) < 2 * HalfUp(-x) + Toman
    BY <2>1, HalfUpNearest
  <2>3. QED
    BY <1>1, <1>3, <2>1, <2>2
<1>4. QED
  BY <1>2, <1>3

LEMMA RoundedAt ==
    ASSUME NEW x \in Int
    PROVE  \E k \in Int : Rounded(x) = k * Toman
<1>1. Toman \in Nat \ {0}
  BY PricingConstants
<1>2. CASE x >= 0
  BY <1>2, HalfUpNearest DEF Rounded
<1>3. CASE x < 0
  <2>1. Rounded(x) = -HalfUp(-x) /\ -x \in Int
    BY <1>3 DEF Rounded
  <2>2. PICK k \in Int : HalfUp(-x) = k * Toman
    BY <2>1, HalfUpNearest
  <2>3. -k \in Int /\ -(k * Toman) = (-k) * Toman
    BY <1>1
  <2>4. QED
    BY <2>1, <2>2, <2>3
<1>4. QED
  BY <1>2, <1>3

LEMMA RoundedWhole ==
    ASSUME NEW x \in Int
    PROVE  /\ Rounded(x) \in WholeTomans
           /\ x >= 0 => Rounded(x) \in Amounts
<1>1. Toman \in Nat \ {0}
  BY PricingConstants
<1>2. PICK k \in Int : Rounded(x) = k * Toman
  BY RoundedAt
<1>3. k * Toman \in Int /\ (k * Toman) % Toman = 0
  BY <1>1
<1>4. Rounded(x) \in WholeTomans
  BY <1>2, <1>3 DEF WholeTomans
<1>5. ASSUME x >= 0 PROVE Rounded(x) >= 0
  <2>1. 2 * x < 2 * (k * Toman) + Toman
    BY <1>2, <1>5, Nearest
  <2>2. CASE k >= 0
    BY <1>1, <1>2, <2>2
  <2>3. CASE k < 0
    <3>1. k * Toman <= -Toman
      BY <1>1, <2>3
    <3>2. QED
      BY <1>1, <1>3, <1>5, <2>1, <3>1
  <2>4. QED
    BY <2>2, <2>3
<1>6. QED
  BY <1>2, <1>3, <1>4, <1>5 DEF Amounts

\* The toman next to an amount is the only whole one as near.
LEMMA NearestOnly ==
    ASSUME NEW x \in Nat, NEW k \in Int,
           2 * (k * Toman) <= 2 * x + Toman, 2 * x < 2 * (k * Toman) + Toman
    PROVE  Rounded(x) = k * Toman
<1>1. Toman \in Nat \ {0}
  BY PricingConstants
<1>2. (2 * Toman) * k <= 2 * x + Toman /\ 2 * x + Toman < (2 * Toman) * k + 2 * Toman
  BY <1>1
<1>3. (2 * x + Toman) \div (2 * Toman) = k
  <2> DEFINE n == 2 * x + Toman
             b == 2 * Toman
  <2>1. n \in Int /\ b \in Nat \ {0}
    BY <1>1
  <2>2. b * k <= n /\ n < b * k + b
    BY <1>2
  <2> HIDE DEF n, b
  <2>3. n \div b = k
    BY <2>1, <2>2
  <2>4. QED
    BY <2>3 DEF n, b
<1>4. Rounded(x) = HalfUp(x)
  BY DEF Rounded
<1>5. QED
  BY <1>3, <1>4 DEF HalfUp

LEMMA WholeIsMultiple ==
    ASSUME NEW x \in Int, x % Toman = 0
    PROVE  \E k \in Int : x = k * Toman
<1>1. Toman \in Nat \ {0}
  BY PricingConstants
<1>2. x = Toman * (x \div Toman) /\ x \div Toman \in Int
  BY <1>1
<1>3. QED
  BY <1>1, <1>2

LEMMA RoundedMonotone ==
    ASSUME NEW x \in Nat, NEW y \in Nat, x <= y
    PROVE  Rounded(x) <= Rounded(y)
<1>1. Toman \in Nat \ {0}
  BY PricingConstants
<1>2. PICK k \in Int : Rounded(x) = k * Toman
  BY RoundedAt
<1>3. PICK m \in Int : Rounded(y) = m * Toman
  BY RoundedAt
<1>4. CASE k <= m
  BY <1>1, <1>2, <1>3, <1>4
<1>5. CASE m < k
  <2>1. m * Toman + Toman <= k * Toman
    BY <1>1, <1>5
  <2>2. Rounded(y) + Toman <= Rounded(x) /\ Rounded(x) \in Int /\ Rounded(y) \in Int
    BY <1>2, <1>3, <2>1, Nearest
  <2>3. 2 * Rounded(x) <= 2 * x + Toman /\ 2 * y < 2 * Rounded(y) + Toman
    BY Nearest
  <2>4. QED
    BY <1>1, <2>2, <2>3
<1>6. QED
  BY <1>4, <1>5

\* Whole tomans, a shipping cost among them, are not rounded.
LEMMA RoundedBeside ==
    ASSUME NEW x \in Nat, NEW c \in Nat, c % Toman = 0
    PROVE  Rounded(x + c) = Rounded(x) + c
<1>1. Toman \in Nat \ {0}
  BY PricingConstants
<1>2. PICK k \in Int : c = k * Toman
  BY WholeIsMultiple
<1>3. PICK m \in Int : Rounded(x) = m * Toman
  BY RoundedAt
<1> DEFINE n == m + k
<1>4. n \in Int /\ n * Toman = Rounded(x) + c
  BY <1>1, <1>2, <1>3
<1>5. /\ 2 * Rounded(x) <= 2 * x + Toman
      /\ 2 * x < 2 * Rounded(x) + Toman
      /\ Rounded(x) \in Int
  BY Nearest
<1> HIDE DEF n
<1>6. /\ 2 * (n * Toman) <= 2 * (x + c) + Toman
      /\ 2 * (x + c) < 2 * (n * Toman) + Toman
  BY <1>1, <1>4, <1>5
<1>7. x + c \in Nat
  OBVIOUS
<1>8. Rounded(x + c) = n * Toman
  BY <1>4, <1>6, <1>7, NearestOnly
<1>9. QED
  BY <1>4, <1>8

LEMMA WholeUnrounded ==
    ASSUME NEW c \in Nat, c % Toman = 0
    PROVE  Rounded(c) = c
<1>1. Toman \in Nat \ {0}
  BY PricingConstants
<1>2. Rounded(0 + c) = Rounded(0) + c
  BY RoundedBeside
<1>3. Rounded(0) = 0 * Toman
  <2>1. 0 * Toman = 0
    BY <1>1
  <2>2. 2 * (0 * Toman) <= 2 * 0 + Toman /\ 2 * 0 < 2 * (0 * Toman) + Toman
    BY <1>1, <2>1
  <2>3. 0 \in Nat /\ 0 \in Int
    OBVIOUS
  <2>4. QED
    BY <2>2, <2>3, NearestOnly
<1>4. QED
  BY <1>1, <1>2, <1>3

\* Whole tomans less than two apart are at most one apart.
LEMMA WholeSteps ==
    ASSUME NEW x \in Int, NEW y \in Int, x % Toman = 0, y % Toman = 0, x - y < 2 * Toman
    PROVE  x - y <= Toman
<1>1. Toman \in Nat \ {0}
  BY PricingConstants
<1>2. PICK k \in Int : x = k * Toman
  BY WholeIsMultiple
<1>3. PICK m \in Int : y = m * Toman
  BY WholeIsMultiple
<1>4. CASE k <= m + 1
  <2>1. k * Toman <= (m + 1) * Toman /\ (m + 1) * Toman = m * Toman + Toman
    BY <1>1, <1>4
  <2>2. QED
    BY <1>1, <1>2, <1>3, <2>1
<1>5. CASE k > m + 1
  <2>1. (m + 2) * Toman <= k * Toman /\ (m + 2) * Toman = m * Toman + 2 * Toman
    BY <1>1, <1>5
  <2>2. QED
    BY <1>1, <1>2, <1>3, <2>1
<1>6. QED
  BY <1>4, <1>5

-----------------------------------------------------------------------------
(* The totals of a cart *)

LEMMA TotalIsInt ==
    ASSUME PricingTypeOK, NEW unit, \A i \in Items : unit[i] \in Int
    PROVE  Total(unit) \in Int
<1> DEFINE f == [i \in Items |-> row[i].qty * unit[i]]
<1>1. \A i \in Items : f[i] \in Int
  <2> SUFFICES ASSUME NEW i \in Items PROVE f[i] \in Int
    OBVIOUS
  <2>1. row[i].qty \in Nat /\ unit[i] \in Int
    BY DEF PricingTypeOK
  <2>2. row[i].qty * unit[i] \in Int
    BY <2>1
  <2>3. QED
    BY <2>2
<1>2. IsFiniteSet(Items)
  BY PricingConstants
<1>3. Total(unit) = SumFunctionOnSet(f, Items)
  BY DEF Total
<1> HIDE DEF f
<1>4. QED
  BY <1>1, <1>2, <1>3, SumIsInt

LEMMA TotalMonotone ==
    ASSUME PricingTypeOK, NEW low, NEW high,
           \A i \in Items : low[i] \in Int /\ high[i] \in Int /\ low[i] <= high[i]
    PROVE  Total(low) <= Total(high)
<1> DEFINE f == [i \in Items |-> row[i].qty * low[i]]
           g == [i \in Items |-> row[i].qty * high[i]]
<1>1. \A i \in Items : f[i] \in Int /\ g[i] \in Int /\ f[i] <= g[i]
  <2> SUFFICES ASSUME NEW i \in Items PROVE f[i] \in Int /\ g[i] \in Int /\ f[i] <= g[i]
    OBVIOUS
  <2>1. row[i].qty \in Nat /\ low[i] \in Int /\ high[i] \in Int /\ low[i] <= high[i]
    BY DEF PricingTypeOK
  <2>2. \A q \in Nat : \A a, b \in Int : a <= b => q * a \in Int /\ q * b \in Int /\ q * a <= q * b
    OBVIOUS
  <2>3. QED
    BY <2>1, <2>2
<1>2. IsFiniteSet(Items)
  BY PricingConstants
<1>3. Total(low) = SumFunctionOnSet(f, Items) /\ Total(high) = SumFunctionOnSet(g, Items)
  BY DEF Total
<1> HIDE DEF f, g
<1>4. SumFunctionOnSet(f, Items) <= SumFunctionOnSet(g, Items)
  BY <1>1, <1>2, SumMonotone
<1>5. QED
  BY <1>3, <1>4

\* A discount is never negative: a row's old price is at least what it costs.
LEMMA CartAmounts ==
    ASSUME PricingTypeOK
    PROVE  /\ Subtotal \in Int /\ Discount \in Nat
           /\ ShippingCost(Subtotal) \in Nat /\ ShippingCost(Subtotal) % Toman = 0
<1> DEFINE low == [i \in Items |-> row[i].snapshot]
           high == [i \in Items |-> UnitOldPrice(i)]
<1>1. \A i \in Items : low[i] \in Int /\ high[i] \in Int /\ low[i] <= high[i]
  <2> SUFFICES ASSUME NEW i \in Items
               PROVE  low[i] \in Int /\ high[i] \in Int /\ low[i] <= high[i]
    OBVIOUS
  <2>1. row[i].snapshot \in Int /\ oldPrice[ProductOf[i]] \in Int
    BY PricingConstants DEF PricingTypeOK
  <2>2. UnitOldPrice(i) \in Int /\ row[i].snapshot <= UnitOldPrice(i)
    BY <2>1 DEF UnitOldPrice
  <2>3. QED
    BY <2>1, <2>2
<1>2. Subtotal = Total(low) /\ Discount = Total(high) - Total(low)
  BY DEF Subtotal, Discount
<1> HIDE DEF low, high
<1>3. Total(low) \in Int /\ Total(high) \in Int
  BY <1>1, TotalIsInt
<1>4. Total(low) <= Total(high)
  BY <1>1, TotalMonotone
<1>5. method.cost \in Costs
  BY DEF PricingTypeOK
<1>6. Toman \in Nat \ {0} /\ \A c \in Costs : c \in Nat /\ c % Toman = 0
  BY PricingConstants
<1>7. 0 % Toman = 0
  BY <1>6
<1>8. QED
  BY <1>2, <1>3, <1>4, <1>5, <1>6, <1>7 DEF ShippingCost

-----------------------------------------------------------------------------
(* The amounts of an order *)

LEMMA FinalIsNat ==
    ASSUME NEW s \in Int, NEW d \in Nat, NEW c \in Nat
    PROVE  FinalAmount(s, d, c) \in Nat
  BY DEF FinalAmount

LEMMA FinalIsWhole ==
    ASSUME NEW s \in WholeTomans, NEW d \in Amounts, NEW c \in Amounts
    PROVE  FinalAmount(s, d, c) \in Amounts
<1>1. Toman \in Nat \ {0}
  BY PricingConstants
<1>2. s \in Int /\ d \in Nat /\ c \in Nat /\ s % Toman = 0 /\ d % Toman = 0 /\ c % Toman = 0
  BY DEF WholeTomans, Amounts
<1>3. PICK k \in Int : s = k * Toman
  BY <1>2, WholeIsMultiple
<1>4. PICK m \in Int : d = m * Toman
  BY <1>2, WholeIsMultiple
<1>5. PICK n \in Int : c = n * Toman
  BY <1>2, WholeIsMultiple
<1>6. s - d + c = (k - m + n) * Toman
  BY <1>1, <1>3, <1>4, <1>5
<1>7. (s - d + c) % Toman = 0
  <2> DEFINE e == k - m + n
  <2>1. e \in Int
    OBVIOUS
  <2> HIDE DEF e
  <2>2. (e * Toman) % Toman = 0
    BY <1>1, <2>1
  <2>3. QED
    BY <1>6, <2>2 DEF e
<1>8. 0 % Toman = 0
  BY <1>1
<1>9. QED
  BY <1>2, <1>7, <1>8 DEF FinalAmount, WholeTomans, Amounts

\* What is asked for and what the stored amounts add up to are whole, and less
\* than two tomans apart.
LEMMA RoundingTheSum ==
    ASSUME NEW s \in Int, NEW d \in Nat, NEW c \in Nat, c % Toman = 0
    PROVE  LET asked == Rounded(FinalAmount(s, d, c))
               sum == FinalAmount(Rounded(s), Rounded(d), Rounded(c))
           IN  /\ asked \in Amounts /\ sum \in Amounts
               /\ asked - sum <= Toman /\ sum - asked <= Toman
<1> DEFINE final == FinalAmount(s, d, c)
           asked == Rounded(final)
           sum == FinalAmount(Rounded(s), Rounded(d), Rounded(c))
<1>1. Toman \in Nat \ {0}
  BY PricingConstants
<1>2. final \in Nat
  BY FinalIsNat
<1>3. /\ Rounded(s) \in WholeTomans /\ Rounded(d) \in Amounts
      /\ Rounded(c) \in Amounts
  BY RoundedWhole
<1>4. asked \in Amounts
  <2> HIDE DEF final
  <2>1. QED
    BY <1>2, RoundedWhole
<1>5. sum \in Amounts
  BY <1>3, FinalIsWhole
<1>6. Rounded(c) = c
  BY WholeUnrounded
<1>7. /\ Rounded(s) \in Int
      /\ 2 * Rounded(s) <= 2 * s + Toman /\ 2 * s <= 2 * Rounded(s) + Toman
  BY Nearest
<1>8. /\ Rounded(d) \in Int
      /\ 2 * Rounded(d) <= 2 * d + Toman /\ 2 * d < 2 * Rounded(d) + Toman
  BY Nearest
<1>9. /\ asked \in Int
      /\ 2 * asked <= 2 * final + Toman /\ 2 * final < 2 * asked + Toman
  <2> HIDE DEF final
  <2>1. QED
    BY <1>2, Nearest
<1>10. final = IF s - d + c < 0 THEN 0 ELSE s - d + c
  BY DEF FinalAmount
<1>11. sum = IF Rounded(s) - Rounded(d) + c < 0 THEN 0 ELSE Rounded(s) - Rounded(d) + c
  BY <1>6 DEF FinalAmount
<1>12. sum \in Int /\ asked % Toman = 0 /\ sum % Toman = 0
  BY <1>4, <1>5 DEF WholeTomans, Amounts
<1> HIDE DEF final, asked, sum
<1>13. asked - sum < 2 * Toman /\ sum - asked < 2 * Toman
  BY <1>1, <1>2, <1>7, <1>8, <1>9, <1>10, <1>11, <1>12
<1>14. asked - sum <= Toman /\ sum - asked <= Toman
  BY <1>9, <1>12, <1>13, WholeSteps
<1>15. QED
  BY <1>4, <1>5, <1>14 DEF final, asked, sum

-----------------------------------------------------------------------------
(* The invariant: a page that still stands shows what the rows and the method *)
(* come to.  With the types and DriftsOneToman itself it is inductive.        *)
PageStands ==
    page # None => page = Rounded(Subtotal) + ShippingCost(Subtotal)

PricesConsistent == PricingTypeOK /\ PageStands /\ DriftsOneToman

LEMMA PricesInit == Init => PricesConsistent
<1> SUFFICES ASSUME Init PROVE PricesConsistent
  OBVIOUS
<1> USE DEF Init
<1>1. PricingTypeOK
  <2>1. Prices \subseteq Nat /\ 0 \in Amounts
    BY PricingConstants DEF WholeTomans, Amounts
  <2>2. row \in [Items -> [qty : Nat, snapshot : Int]]
    <3>1. NoRow \in [qty : Nat, snapshot : Int]
      BY DEF NoRow
    <3>2. QED
      BY <3>1
  <2>3. price \in [Products -> Nat]
    <3>1. price \in [Products -> Prices]
      OBVIOUS
    <3> HIDE DEF Init
    <3>2. QED
      BY <2>1, <3>1
  <2>4. oldPrice \in [Products -> Int]
    <3>1. oldPrice = [p \in Products |-> 0]
      OBVIOUS
    <3> HIDE DEF Init
    <3>2. QED
      BY <3>1
  <2>5. method \in [cost : Costs, threshold : Costs, active : BOOLEAN]
    OBVIOUS
  <2>6. QED
    BY <2>1, <2>2, <2>3, <2>4, <2>5 DEF PricingTypeOK
<1>2. QED
  BY <1>1 DEF PricesConsistent, PageStands, DriftsOneToman

\* What the page shows depends on the rows and the method only.
LEMMA SubtotalKept == row' = row => Subtotal' = Subtotal
  BY DEF Subtotal, Total

LEMMA PageKept ==
    ASSUME PageStands, UNCHANGED <<method, row, page>>
    PROVE  PageStands'
<1>1. Subtotal' = Subtotal
  BY SubtotalKept
<1>2. ShippingCost(Subtotal)' = ShippingCost(Subtotal)
  BY <1>1 DEF ShippingCost
<1>3. Rounded(Subtotal)' = Rounded(Subtotal)
  BY <1>1 DEF Rounded
<1>4. QED
  BY <1>2, <1>3 DEF PageStands

LEMMA AmountsKept ==
    ASSUME DriftsOneToman, UNCHANGED <<order, due>>
    PROVE  DriftsOneToman'
  BY DEF DriftsOneToman, FinalAmount

LEMMA RepriceStep ==
    ASSUME PricesConsistent, NEW p \in Products, Reprice(p)
    PROVE  PricesConsistent'
<1>1. Prices \subseteq Nat /\ OldPrices \subseteq Int
  BY PricingConstants
<1>2. price' \in [Products -> Nat] /\ oldPrice' \in [Products -> Int]
  BY <1>1 DEF Reprice, PricesConsistent, PricingTypeOK
<1>3. PricingTypeOK'
  BY <1>2 DEF Reprice, PricesConsistent, PricingTypeOK
<1>4. QED
  BY <1>3, PageKept, AmountsKept DEF Reprice, PricesConsistent

LEMMA EditMethodStep ==
    ASSUME PricesConsistent, EditMethod
    PROVE  PricesConsistent'
<1>1. method' \in [cost : Costs, threshold : Costs, active : BOOLEAN]
  BY DEF EditMethod, PricesConsistent, PricingTypeOK
<1>2. PricingTypeOK'
  BY <1>1 DEF EditMethod, PricesConsistent, PricingTypeOK
<1>3. PageStands'
  BY DEF EditMethod, PageStands
<1>4. QED
  BY <1>2, <1>3, AmountsKept DEF EditMethod, PricesConsistent

\* What the cart services do to a row: it is taken out or priced anew.
LEMMA RowStep ==
    ASSUME PricesConsistent, NEW i \in Items,
           TakeRow(i) \/ \E n \in 1..MaxQty : PutRow(i, n)
    PROVE  PricesConsistent'
<1>1. /\ UNCHANGED <<staffVars, order, due>>
      /\ page' = None
      /\ \/ row' = [row EXCEPT ![i] = NoRow]
         \/ \E n \in 1..MaxQty :
               row' = [row EXCEPT ![i] = [qty |-> n, snapshot |-> UnitPrice(i)]]
  BY DEF TakeRow, PutRow
<1>2. UnitPrice(i) \in Int
  BY PricingConstants DEF UnitPrice, PricesConsistent, PricingTypeOK
<1>3. \A n \in 1..MaxQty : n \in Nat
  BY PricingConstants
<1>4. \E r \in [qty : Nat, snapshot : Int] : row' = [row EXCEPT ![i] = r]
  <2>1. NoRow \in [qty : Nat, snapshot : Int]
    BY DEF NoRow
  <2>2. \A n \in 1..MaxQty : [qty |-> n, snapshot |-> UnitPrice(i)] \in [qty : Nat, snapshot : Int]
    BY <1>2, <1>3
  <2>3. QED
    BY <1>1, <2>1, <2>2
<1>5. row' \in [Items -> [qty : Nat, snapshot : Int]]
  BY <1>4 DEF PricesConsistent, PricingTypeOK
<1>6. PricingTypeOK'
  BY <1>1, <1>5 DEF PricesConsistent, PricingTypeOK, staffVars
<1>7. PageStands'
  BY <1>1 DEF PageStands
<1>8. QED
  BY <1>1, <1>6, <1>7, AmountsKept DEF PricesConsistent

LEMMA ShowCheckoutStep ==
    ASSUME PricesConsistent, ShowCheckout
    PROVE  PricesConsistent'
<1>1. Subtotal \in Int /\ ShippingCost(Subtotal) \in Nat
  BY CartAmounts DEF PricesConsistent
<1>2. Rounded(Subtotal) \in Int
  BY <1>1, Nearest
<1>3. page' = Rounded(Subtotal) + ShippingCost(Subtotal)
  BY DEF ShowCheckout
<1>4. PricingTypeOK'
  BY <1>1, <1>2, <1>3 DEF ShowCheckout, PricesConsistent, PricingTypeOK, staffVars
<1>5. PageStands'
  <2>1. Subtotal' = Subtotal
    BY SubtotalKept DEF ShowCheckout
  <2>2. ShippingCost(Subtotal)' = ShippingCost(Subtotal)
    BY <2>1 DEF ShippingCost, ShowCheckout, staffVars
  <2>3. Rounded(Subtotal)' = Rounded(Subtotal)
    BY <2>1 DEF Rounded
  <2>4. QED
    BY <1>3, <2>2, <2>3 DEF PageStands
<1>6. QED
  BY <1>4, <1>5, AmountsKept DEF ShowCheckout, PricesConsistent

LEMMA TotalsOfCart ==
    ASSUME PricingTypeOK
    PROVE  /\ Totals \in [subtotal : WholeTomans, discount : Amounts,
                          shipping : Amounts, final : Amounts]
           /\ LET sum == FinalAmount(Totals.subtotal, Totals.discount, Totals.shipping)
              IN  Totals.final - sum <= Toman /\ sum - Totals.final <= Toman
<1> DEFINE s == Subtotal
           d == Discount
           c == ShippingCost(Subtotal)
           final == FinalAmount(s, d, c)
<1>1. s \in Int /\ d \in Nat /\ c \in Nat /\ c % Toman = 0
  BY CartAmounts
<1>2. Totals = [subtotal |-> Rounded(s), discount |-> Rounded(d),
                shipping |-> Rounded(c), final |-> Rounded(final)]
  BY DEF Totals
<1> HIDE DEF s, d, c
<1>3. /\ Rounded(s) \in WholeTomans /\ Rounded(d) \in Amounts
      /\ Rounded(c) \in Amounts
  BY <1>1, RoundedWhole
<1> DEFINE sum == FinalAmount(Rounded(s), Rounded(d), Rounded(c))
<1>4. /\ Rounded(final) \in Amounts
      /\ Rounded(final) - sum <= Toman /\ sum - Rounded(final) <= Toman
  BY <1>1, RoundingTheSum
<1> HIDE DEF final, sum
<1>5. Totals \in [subtotal : WholeTomans, discount : Amounts,
                  shipping : Amounts, final : Amounts]
  BY <1>2, <1>3, <1>4
<1>6. Totals.final = Rounded(final)
  BY <1>2
<1>7. FinalAmount(Totals.subtotal, Totals.discount, Totals.shipping) = sum
  BY <1>2 DEF sum
<1>8. QED
  BY <1>4, <1>5, <1>6, <1>7

LEMMA PlaceOrderStep ==
    ASSUME PricesConsistent, PlaceOrder
    PROVE  PricesConsistent'
<1> DEFINE sum == FinalAmount(Totals.subtotal, Totals.discount, Totals.shipping)
<1>1. /\ Totals \in [subtotal : WholeTomans, discount : Amounts,
                     shipping : Amounts, final : Amounts]
      /\ Totals.final - sum <= Toman /\ sum - Totals.final <= Toman
  BY TotalsOfCart DEF PricesConsistent
<1>2. order' = Totals /\ due' = Totals.final
  BY DEF PlaceOrder
<1>3. Totals.final \in Amounts
  BY <1>1
<1>4. PricingTypeOK'
  BY <1>1, <1>2, <1>3 DEF PlaceOrder, PricesConsistent, PricingTypeOK, staffVars
<1>5. PageStands'
  BY PageKept DEF PlaceOrder, PricesConsistent, staffVars
<1>6. DriftsOneToman'
  <2>1. sum \in Amounts
    BY <1>1, FinalIsWhole
  <2>2. /\ due' = Totals.final /\ order'.final = Totals.final
        /\ FinalAmount(order.subtotal, order.discount, order.shipping)' = sum
    BY <1>2 DEF FinalAmount
  <2>3. Totals.final \in Int /\ sum \in Int /\ Toman \in Nat
    BY <1>3, <2>1, PricingConstants DEF WholeTomans, Amounts
  <2> HIDE DEF sum
  <2>4. \A x, y \in {Totals.final, sum} : x - y <= Toman
    BY <1>1, <2>3
  <2>5. QED
    BY <2>2, <2>4 DEF DriftsOneToman
<1>7. QED
  BY <1>4, <1>5, <1>6 DEF PricesConsistent

LEMMA SaveOrderFormStep ==
    ASSUME PricesConsistent, SaveOrderForm
    PROVE  PricesConsistent'
<1> DEFINE sum == FinalAmount(order.subtotal, order.discount, order.shipping)
<1>1. order # None /\ order' = [order EXCEPT !.final = sum]
  BY DEF SaveOrderForm
<1>2. order \in [subtotal : WholeTomans, discount : Amounts,
                 shipping : Amounts, final : Amounts]
  BY <1>1 DEF PricesConsistent, PricingTypeOK
<1>3. sum \in Amounts
  BY <1>2, FinalIsWhole
<1>4. /\ order' \in [subtotal : WholeTomans, discount : Amounts,
                     shipping : Amounts, final : Amounts]
      /\ order'.final = sum /\ order'.subtotal = order.subtotal
      /\ order'.discount = order.discount /\ order'.shipping = order.shipping
  <2> HIDE DEF sum
  <2>1. QED
    BY <1>1, <1>2, <1>3
<1>5. PricingTypeOK'
  BY <1>4 DEF SaveOrderForm, PricesConsistent, PricingTypeOK, staffVars
<1>6. PageStands'
  BY PageKept DEF SaveOrderForm, PricesConsistent, staffVars
<1>7. DriftsOneToman'
  <2>1. FinalAmount(order.subtotal, order.discount, order.shipping)' = sum
    BY <1>4 DEF FinalAmount
  <2>2. due' = due
    BY DEF SaveOrderForm
  <2>3. \A x, y \in {due, sum} : x - y <= Toman
    BY <1>1 DEF PricesConsistent, DriftsOneToman
  <2> HIDE DEF sum
  <2>4. QED
    BY <1>4, <2>1, <2>2, <2>3 DEF DriftsOneToman
<1>8. QED
  BY <1>5, <1>6, <1>7 DEF PricesConsistent

LEMMA InitiatePaymentStep ==
    ASSUME PricesConsistent, InitiatePayment
    PROVE  PricesConsistent'
<1>1. order # None /\ due' = order.final /\ order' = order
  BY DEF InitiatePayment
<1>2. PricingTypeOK'
  BY <1>1 DEF InitiatePayment, PricesConsistent, PricingTypeOK, staffVars
<1>3. PageStands'
  BY PageKept DEF InitiatePayment, PricesConsistent, staffVars
<1>4. DriftsOneToman'
  BY <1>1 DEF PricesConsistent, DriftsOneToman, FinalAmount
<1>5. QED
  BY <1>2, <1>3, <1>4 DEF PricesConsistent

LEMMA PricesNext == PricesConsistent /\ [Next]_vars => PricesConsistent'
<1> SUFFICES ASSUME PricesConsistent, [Next]_vars PROVE PricesConsistent'
  OBVIOUS
<1>1. ASSUME NEW p \in Products, Reprice(p) PROVE PricesConsistent'
  BY <1>1, RepriceStep
<1>2. CASE EditMethod
  BY <1>2, EditMethodStep
<1>3. ASSUME NEW i \in Items, TakeRow(i) \/ \E n \in 1..MaxQty : PutRow(i, n)
      PROVE  PricesConsistent'
  BY <1>3, RowStep
<1>4. CASE ShowCheckout
  BY <1>4, ShowCheckoutStep
<1>5. CASE PlaceOrder
  BY <1>5, PlaceOrderStep
<1>6. CASE SaveOrderForm
  BY <1>6, SaveOrderFormStep
<1>7. CASE InitiatePayment
  BY <1>7, InitiatePaymentStep
<1>8. CASE UNCHANGED vars
  <2>1. UNCHANGED <<method, row, page>> /\ UNCHANGED <<order, due>>
    BY <1>8 DEF vars
  <2>2. PricingTypeOK'
    BY <1>8 DEF vars, PricesConsistent, PricingTypeOK
  <2>3. QED
    BY <2>1, <2>2, PageKept, AmountsKept DEF PricesConsistent
<1>9. QED
  BY <1>1, <1>2, <1>3, <1>4, <1>5, <1>6, <1>7, <1>8 DEF Next

LEMMA PricesInvariant == Spec => []PricesConsistent
  BY PricesInit, PricesNext, PTL DEF Spec

\* What an order stores and asks for are whole tomans, and its discount, its
\* shipping, its final amount and what the payment asks for are never negative,
\* although variants may be priced below zero and old prices be anything
\* (price_adjustment, old_price, calculate_order_totals, Order.save).
THEOREM AmountsTyped == Spec => []PricingTypeOK
<1>1. PricesConsistent => PricingTypeOK
  BY DEF PricesConsistent
<1>2. QED
  BY <1>1, PricesInvariant, PTL

\* The payment, the order's final amount and the sum of the order's stored
\* amounts never differ by more than a toman, for any number of rows in the
\* cart (Order.save, create_order, initiate).
THEOREM AmountsStayTogether == Spec => []DriftsOneToman
<1>1. PricesConsistent => DriftsOneToman
  BY DEF PricesConsistent
<1>2. QED
  BY <1>1, PricesInvariant, PTL

LEMMA OrderWithinPage ==
    ASSUME PricesConsistent, Next, Ordered, page # None, Subtotal >= 0
    PROVE  order'.final <= page
<1> DEFINE s == Subtotal
           d == Discount
           c == ShippingCost(Subtotal)
           final == FinalAmount(s, d, c)
<1>1. PlaceOrder
  BY DEF Next, Ordered, Reprice, EditMethod, TakeRow, PutRow, ShowCheckout,
         SaveOrderForm, InitiatePayment
<1>2. order'.final = Rounded(final)
  BY <1>1 DEF PlaceOrder, Totals
<1>3. s \in Nat /\ d \in Nat /\ c \in Nat /\ c % Toman = 0
  BY CartAmounts DEF PricesConsistent
<1>4. page = Rounded(s) + c
  BY DEF PricesConsistent, PageStands
<1> HIDE DEF s, d, c
<1>5. final \in Nat /\ final <= s + c /\ s + c \in Nat
  BY <1>3 DEF FinalAmount
<1> HIDE DEF final
<1>6. Rounded(final) <= Rounded(s + c)
  BY <1>3, <1>5, RoundedMonotone
<1>7. Rounded(s + c) = Rounded(s) + c
  BY <1>3, RoundedBeside
<1>8. QED
  BY <1>2, <1>4, <1>6, <1>7

\* An order never costs more than the page the customer ordered from said,
\* whatever staff did to prices and old prices since (unit_price_snapshot,
\* unit_old_price), unless the rows come to less than nothing.
THEOREM PageAlwaysKept == Spec => PageIsKept
<1>1. PricesConsistent /\ [Next]_vars => [Ordered /\ page # None /\ Subtotal >= 0 => order'.final <= page]_vars
  BY OrderWithinPage DEF Ordered, vars
<1>2. QED
  BY <1>1, PricesInvariant, PTL DEF Spec, PageIsKept

\* No row was ever dearer than the customer pays for it now.
NothingReduced == \A i \in Items : UnitOldPrice(i) = row[i].snapshot

LEMMA NoDiscount ==
    ASSUME PricingTypeOK, NothingReduced
    PROVE  Discount = 0
<1> DEFINE low == [i \in Items |-> row[i].snapshot]
           high == [i \in Items |-> UnitOldPrice(i)]
<1>1. high = low
  BY DEF NothingReduced
<1>2. \A i \in Items : low[i] \in Int
  BY DEF PricingTypeOK
<1>3. Discount = Total(high) - Total(low)
  BY DEF Discount, Subtotal
<1> HIDE DEF low, high
<1>4. Total(low) \in Int
  BY <1>2, TotalIsInt
<1>5. QED
  BY <1>1, <1>3, <1>4

\* An order of a cart without reduced products, of nothing or more, costs what the snapshots of its
\* rows come to, and shipping, whatever staff did to the prices since: the old
\* price is all that stands between the code and SnapshotIsAuthority
\* (ARCHITECTURE_LOCK.md; unit_old_price, calculate_order_totals).
THEOREM SnapshotsChargedUnlessReduced ==
    Spec => [][Ordered /\ NothingReduced /\ Subtotal >= 0
                  => order'.final = Rounded(Subtotal) + order'.shipping]_vars
<1>1. ASSUME PricesConsistent, Next, Ordered, NothingReduced, Subtotal >= 0
      PROVE  order'.final = Rounded(Subtotal) + order'.shipping
  <2> DEFINE s == Subtotal
             c == ShippingCost(Subtotal)
             final == FinalAmount(s, Discount, c)
  <2>1. PlaceOrder
    BY <1>1 DEF Next, Ordered, Reprice, EditMethod, TakeRow, PutRow, ShowCheckout,
           SaveOrderForm, InitiatePayment
  <2>2. order'.final = Rounded(final) /\ order'.shipping = Rounded(c)
    BY <2>1 DEF PlaceOrder, Totals
  <2>3. s \in Nat /\ c \in Nat /\ c % Toman = 0
    BY <1>1, CartAmounts DEF PricesConsistent
  <2>4. Discount = 0
    BY <1>1, NoDiscount DEF PricesConsistent
  <2> HIDE DEF s, c
  <2>5. final = s + c
    BY <2>3, <2>4 DEF FinalAmount
  <2>6. Rounded(s + c) = Rounded(s) + c
    BY <2>3, RoundedBeside
  <2>7. Rounded(c) = c
    BY <2>3, WholeUnrounded
  <2> HIDE DEF final
  <2>8. QED
    BY <2>2, <2>5, <2>6, <2>7 DEF s
<1>2. PricesConsistent /\ [Next]_vars =>
         [Ordered /\ NothingReduced /\ Subtotal >= 0
             => order'.final = Rounded(Subtotal) + order'.shipping]_vars
  BY <1>1 DEF Ordered, vars
<1>3. QED
  BY <1>2, PricesInvariant, PTL DEF Spec
=============================================================================
