-------------------------------- MODULE Pricing --------------------------------
(***************************************************************************)
(* The arithmetic of spend.py: what a paid model call or a metered tool    *)
(* may cost, and what it is charged.  The code computes with Decimals of   *)
(* finitely many digits; here rates are whole numbers of which Unit make a *)
(* cent, and the roundings to whole cents are the code's.                  *)
(***************************************************************************)
EXTENDS Integers, FiniteSetsExt

CONSTANT Unit     \* as many decimal places as the prices have: 10^k

ASSUME PricingAssumption == Unit \in Nat \ {0}

\* a node's prices per token, its limit of tokens and its cap per request in cents
ModelQuote == {q \in [input : Nat, output : Nat, max : Nat \ {0}, cap : Nat \ {0}] :
                 q.input + q.output > 0}

\* to_integral_value(rounding=ROUND_CEILING)
Cents(amount) == (amount + Unit - 1) \div Unit

TokenCost(q, prompt, output) == prompt * q.input + output * q.output

\* the output tokens that what is left of the cap can pay for
CostLimit(q, prompt) ==
  IF q.output > 0 THEN (q.cap * Unit - prompt * q.input) \div q.output ELSE q.max

\* the clamped output of a call and its reservation: bounded_model_call
Clamped(q, prompt, requested) ==
  Min({requested, q.max - prompt, CostLimit(q, prompt)})

\* Mutated form: the reservation is rounded down.
Reservation_Floor(q, prompt, requested) ==
  TokenCost(q, prompt, Clamped(q, prompt, requested)) \div Unit
Reservation(q, prompt, requested) ==
  Cents(TokenCost(q, prompt, Clamped(q, prompt, requested)))

\* bounded_model_call raises no SpendError
Affordable(q, prompt, requested) ==
  /\ prompt < q.max
  /\ prompt * q.input < q.cap * Unit
  /\ Clamped(q, prompt, requested) > 0
  /\ Reservation(q, prompt, requested) <= q.cap

\* what the proxy charges for the usage a node reports
ModelCharge(q, prompt, output) == Cents(TokenCost(q, prompt, output))

\* rate_per_unit_microusd is a ten-thousandth of a cent
MeteredCents(rate, units) == (rate * units + 9999) \div 10000
=============================================================================
