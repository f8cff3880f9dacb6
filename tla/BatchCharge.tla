------------------------------ MODULE BatchCharge ------------------------------
(***************************************************************************)
(* What the collection of hosted batches promises the brand                *)
(* (docs/payout-funding.md sections 4 to 7), without PaymentIntents, keys, *)
(* retries, searches, workers or webhooks: a batch reserves commissions no *)
(* other batch has; it asks for their money once, for an amount that never *)
(* changes after; it is charged at most once, and then keeps what it was   *)
(* charged for; it gives its commissions back only if it can never charge; *)
(* it is funded only when all that was paid for is still there; and what a *)
(* human has to look at never funds again.                                 *)
(***************************************************************************)
CONSTANTS Batches, Commissions

VARIABLES
  stage,    \* "none", "due", "asked", "charged", "returned" or "never"
  covers,   \* the commissions it has to itself
  price,    \* the commissions whose money was asked for
  outcome   \* "open", until the batch is funded or frozen for a human

Init ==
  /\ stage = [b \in Batches |-> "none"]
  /\ covers = [b \in Batches |-> {}]
  /\ price = [b \in Batches |-> {}]
  /\ outcome = [b \in Batches |-> "open"]

Becomes(b, from, to) == stage[b] \in from /\ stage' = [stage EXCEPT ![b] = to]

Reserve(b) ==
  /\ Becomes(b, {"none"}, "due")
  /\ \E S \in (SUBSET Commissions) \ {{}} :
       /\ \A x \in Batches : covers[x] \cap S = {}
       /\ covers' = [covers EXCEPT ![b] = S]
  /\ UNCHANGED <<price, outcome>>

\* A commission is reversed before its money was asked for.
Shrink(b) ==
  /\ stage[b] = "due"
  /\ \E c \in covers[b] : covers' = [covers EXCEPT ![b] = @ \ {c}]
  /\ UNCHANGED <<stage, price, outcome>>

\* The brand's bank is asked for exactly what the batch has.
Ask(b) ==
  /\ Becomes(b, {"due"}, "asked")
  /\ price' = [price EXCEPT ![b] = covers[b]]
  /\ UNCHANGED <<covers, outcome>>

Charge(b) ==
  /\ Becomes(b, {"asked"}, "charged")
  /\ UNCHANGED <<covers, price, outcome>>

\* The bank takes the money back.
GiveBack(b) ==
  /\ Becomes(b, {"charged"}, "returned")
  /\ UNCHANGED <<covers, price, outcome>>

\* It can no longer happen: the commissions go back to the planner.
GiveUp(b) ==
  /\ Becomes(b, {"due", "asked"}, "never")
  /\ covers' = [covers EXCEPT ![b] = {}]
  /\ UNCHANGED <<price, outcome>>

\* The webhook that takes the money back may come after.
Fund(b) ==
  /\ stage[b] \in {"charged", "returned"}
  /\ outcome[b] = "open" /\ covers[b] = price[b]
  /\ outcome' = [outcome EXCEPT ![b] = "funded"]
  /\ UNCHANGED <<stage, covers, price>>

\* For good, and only of a batch whose money was asked for once.
Freeze(b) ==
  /\ stage[b] \notin {"none", "due"}
  /\ outcome' = [outcome EXCEPT ![b] = "frozen"]
  /\ UNCHANGED <<stage, covers, price>>

Next ==
  \E b \in Batches :
    \/ Reserve(b) \/ Shrink(b) \/ Ask(b) \/ Charge(b) \/ GiveBack(b) \/ GiveUp(b)
    \/ Fund(b) \/ Freeze(b)

Spec == Init /\ [][Next]_<<stage, covers, price, outcome>>
=============================================================================
