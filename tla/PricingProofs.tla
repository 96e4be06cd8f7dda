----------------------------- MODULE PricingProofs -----------------------------
(***************************************************************************)
(* For all prices, prompts and requests: what is reserved for a paid call  *)
(* stays below its cap and covers every charge the proxy may settle.       *)
(***************************************************************************)
EXTENDS Pricing, TLAPS

LEMMA DivBounds ==
  ASSUME NEW a \in Nat, NEW b \in Nat \ {0}
  PROVE  /\ a \div b \in Nat
         /\ (a \div b) * b <= a
         /\ a < (a \div b) * b + b
OBVIOUS

LEMMA ProductMonotone ==
  ASSUME NEW a \in Nat, NEW b \in Nat, NEW c \in Nat, a <= b
  PROVE  a * c \in Nat /\ a * c <= b * c
OBVIOUS

LEMMA FactorBound ==
  ASSUME NEW a \in Int, NEW b \in Int, NEW c \in Nat \ {0}, a * c < b * c
  PROVE  a < b
OBVIOUS

\* Rounding to cents rounds up.
LEMMA CentsCover ==
  ASSUME NEW a \in Nat
  PROVE  Cents(a) \in Nat /\ a <= Cents(a) * Unit
<1>1. Unit \in Nat \ {0} /\ a + Unit - 1 \in Nat
  BY PricingAssumption
<1> QED
  BY <1>1, DivBounds DEF Cents

\* It rounds up to the next cent and no further.
LEMMA CentsLeast ==
  ASSUME NEW a \in Nat, NEW n \in Nat, a <= n * Unit
  PROVE  Cents(a) <= n
<1> DEFINE k == Cents(a)
<1>1. /\ Unit \in Nat \ {0}
      /\ k \in Nat
      /\ k * Unit <= a + Unit - 1
  <2>1. Unit \in Nat \ {0} /\ a + Unit - 1 \in Nat
    BY PricingAssumption
  <2> QED
    BY <2>1, DivBounds DEF Cents
<1> HIDE DEF k
<1>2. k * Unit \in Int /\ n * Unit \in Int /\ (n + 1) * Unit = n * Unit + Unit
  BY <1>1
<1>3. k * Unit < (n + 1) * Unit
  BY <1>1, <1>2
<1>4. k < n + 1
  BY <1>1, <1>3, FactorBound
<1> QED
  BY <1>1, <1>4 DEF k

LEMMA CentsMonotone ==
  ASSUME NEW a \in Nat, NEW b \in Nat, a <= b
  PROVE  Cents(a) <= Cents(b)
<1>1. Cents(b) \in Nat /\ b <= Cents(b) * Unit /\ Cents(b) * Unit \in Int
  BY CentsCover, PricingAssumption
<1>2. a <= Cents(b) * Unit
  BY <1>1
<1> QED
  BY <1>1, <1>2, CentsLeast

LEMMA LeastOfThree ==
  ASSUME NEW a \in Int, NEW b \in Int, NEW c \in Int
  PROVE  /\ Min({a, b, c}) \in Int
         /\ Min({a, b, c}) <= a
         /\ Min({a, b, c}) <= b
         /\ Min({a, b, c}) <= c
<1>1. \E x \in {a, b, c} : \A y \in {a, b, c} : x <= y
  OBVIOUS
<1> QED
  BY <1>1 DEF Min

LEMMA TokenCostMonotone ==
  ASSUME NEW q \in ModelQuote, NEW p \in Nat, NEW o \in Nat,
         NEW prompt \in Nat, NEW output \in Nat, p <= prompt, o <= output
  PROVE  /\ TokenCost(q, p, o) \in Nat
         /\ TokenCost(q, prompt, output) \in Nat
         /\ TokenCost(q, p, o) <= TokenCost(q, prompt, output)
<1>1. q.input \in Nat /\ q.output \in Nat
  BY DEF ModelQuote
<1>2. /\ p * q.input \in Nat /\ prompt * q.input \in Nat /\ p * q.input <= prompt * q.input
      /\ o * q.output \in Nat /\ output * q.output \in Nat /\ o * q.output <= output * q.output
  BY <1>1, ProductMonotone
<1> QED
  BY <1>2 DEF TokenCost

\* A call that is not refused for its prompt or its clamp.
Bounded(q, prompt, requested) ==
  /\ prompt < q.max
  /\ prompt * q.input < q.cap * Unit
  /\ Clamped(q, prompt, requested) > 0

LEMMA ClampedPays ==
  ASSUME NEW q \in ModelQuote, NEW prompt \in Nat, NEW requested \in Nat \ {0},
         Bounded(q, prompt, requested)
  PROVE  /\ Clamped(q, prompt, requested) \in Nat
         /\ Clamped(q, prompt, requested) <= requested
         /\ prompt + Clamped(q, prompt, requested) <= q.max
         /\ TokenCost(q, prompt, Clamped(q, prompt, requested)) \in Nat
         /\ TokenCost(q, prompt, Clamped(q, prompt, requested)) <= q.cap * Unit
<1> DEFINE spent == prompt * q.input
           budget == q.cap * Unit
           output == Clamped(q, prompt, requested)
<1>1. /\ q.input \in Nat /\ q.output \in Nat /\ q.max \in Nat /\ q.cap \in Nat
      /\ Unit \in Nat
  BY PricingAssumption DEF ModelQuote
<1>2. spent \in Nat /\ budget \in Nat /\ spent < budget
  BY <1>1 DEF Bounded
<1>3. CostLimit(q, prompt) \in Int
  <2>1. CASE q.output > 0
    <3>1. budget - spent \in Nat /\ q.output \in Nat \ {0}
      BY <1>1, <1>2, <2>1
    <3> QED
      BY <2>1, <3>1, DivBounds DEF CostLimit
  <2>2. CASE ~(q.output > 0)
    BY <1>1, <2>2 DEF CostLimit
  <2> QED
    BY <2>1, <2>2
<1>4. /\ output \in Nat /\ output <= requested /\ prompt + output <= q.max
      /\ output <= CostLimit(q, prompt)
  <2>1. requested \in Int /\ q.max - prompt \in Int
    BY <1>1
  <2>2. output = Min({requested, q.max - prompt, CostLimit(q, prompt)})
    BY DEF Clamped
  <2>3. output \in Int /\ output <= requested /\ output <= q.max - prompt
        /\ output <= CostLimit(q, prompt)
    BY <1>3, <2>1, <2>2, LeastOfThree
  <2>4. output > 0
    BY DEF Bounded
  <2> HIDE DEF output
  <2> QED
    BY <1>1, <2>3, <2>4
<1> HIDE DEF output
<1>5. output * q.output \in Nat /\ output * q.output <= budget - spent
  <2>1. CASE q.output > 0
    <3>1. budget - spent \in Nat /\ q.output \in Nat \ {0}
      BY <1>1, <1>2, <2>1
    <3>2. /\ CostLimit(q, prompt) \in Nat
          /\ CostLimit(q, prompt) * q.output <= budget - spent
      BY <2>1, <3>1, DivBounds DEF CostLimit
    <3>3. output * q.output \in Nat /\ output * q.output <= CostLimit(q, prompt) * q.output
      BY <1>1, <1>4, <3>2, ProductMonotone
    <3>4. CostLimit(q, prompt) * q.output \in Int
      BY <1>1, <3>2
    <3> QED
      BY <3>1, <3>2, <3>3, <3>4
  <2>2. CASE ~(q.output > 0)
    <3>1. q.output = 0
      BY <1>1, <2>2
    <3>2. output * 0 = 0
      BY <1>4
    <3> QED
      BY <1>2, <3>1, <3>2
  <2> QED
    BY <2>1, <2>2
<1>6. TokenCost(q, prompt, output) \in Nat /\ TokenCost(q, prompt, output) <= budget
  BY <1>2, <1>5 DEF TokenCost
<1> QED
  BY <1>4, <1>6 DEF output

\* bounded_model_call's last test, that the reservation is above the cap
\* (spend.py), never fails once the earlier ones have passed.
THEOREM ReservationFitsCap ==
  ASSUME NEW q \in ModelQuote, NEW prompt \in Nat, NEW requested \in Nat \ {0},
         Bounded(q, prompt, requested)
  PROVE  /\ Reservation(q, prompt, requested) \in Nat
         /\ Reservation(q, prompt, requested) <= q.cap
<1>1. q.cap \in Nat
  BY DEF ModelQuote
<1> QED
  BY <1>1, ClampedPays, CentsCover, CentsLeast DEF Reservation

\* The proxy's second quarantine, for a charge above the reservation
\* (model_proxy.py), is unreachable: a usage that passed the token bounds is
\* charged no more than was reserved.
THEOREM ChargeFitsReservation ==
  ASSUME NEW q \in ModelQuote, NEW prompt \in Nat, NEW requested \in Nat \ {0},
         Affordable(q, prompt, requested),
         NEW p \in Nat, NEW o \in Nat, p <= prompt, o <= Clamped(q, prompt, requested)
  PROVE  /\ ModelCharge(q, p, o) \in Nat
         /\ ModelCharge(q, p, o) <= Reservation(q, prompt, requested)
<1>1. Bounded(q, prompt, requested)
  BY DEF Affordable, Bounded
<1>2. Clamped(q, prompt, requested) \in Nat
  BY <1>1, ClampedPays
<1>3. /\ TokenCost(q, p, o) \in Nat
      /\ TokenCost(q, prompt, Clamped(q, prompt, requested)) \in Nat
      /\ TokenCost(q, p, o) <= TokenCost(q, prompt, Clamped(q, prompt, requested))
  BY <1>2, TokenCostMonotone
<1> QED
  BY <1>3, CentsCover, CentsMonotone DEF ModelCharge, Reservation

\* A metered tool's charge for any trusted usage up to its maximum, with its fixed
\* price, fits what issue reserved for it (metered_quote and settle_record round
\* separately), and a larger usage never costs less.
THEOREM MeteredChargeFits ==
  ASSUME NEW rate \in Nat, NEW units \in Nat, NEW max \in Nat, units <= max,
         NEW fixed \in Nat
  PROVE  fixed + MeteredCents(rate, units) <= fixed + MeteredCents(rate, max)
<1>1. rate * units \in Nat /\ rate * max \in Nat /\ rate * units <= rate * max
  BY ProductMonotone
<1>2. \A a \in Nat, b \in Nat : a <= b => (a + 9999) \div 10000 <= (b + 9999) \div 10000
  OBVIOUS
<1>3. /\ MeteredCents(rate, units) \in Int /\ MeteredCents(rate, max) \in Int
      /\ MeteredCents(rate, units) <= MeteredCents(rate, max)
  BY <1>1, <1>2 DEF MeteredCents
<1> QED
  BY <1>3
=============================================================================
