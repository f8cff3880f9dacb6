------------------------------- MODULE RailSwitch -------------------------------
(***************************************************************************)
(* A tenant that changes its payout rail (routes/settings.ts) while a      *)
(* funded batch is being paid. The planner (payouts.ts) looks at the       *)
(* commissions alone, and the funded rail claims a commission in its       *)
(* allocation, not in Commission.payoutId: the two meet here over one      *)
(* commission ledger, everything else being FundedTransfers.               *)
(***************************************************************************)
EXTENDS FundedTransfers

VARIABLES
  rail,     \* Tenant.payoutRailPreference, as resolvePayoutMethod takes it
  byHand    \* commissions of manual Payouts, which the brand pays itself

railVars == <<vars, rail, byHand>>

RailInit == Init /\ rail = "stripe_connect" /\ byHand = {}

\* POST /config/payouts: no batch is looked at.
SetRail(r) ==
  /\ r # rail /\ rail' = r
  /\ UNCHANGED <<vars, byHand>>

\* One partner's part of runPayouts on the manual rail: all that is approved
\* and has no payoutId, which a commission of the funded rail has only once
\* its transfer is recorded.
PlanByHand(p) ==
  LET group == {a \in Of(p) : commission[a] = "approved"}
  IN /\ rail = "manual" /\ group # {}
     /\ commission' = [a \in Allocations |-> IF a \in group THEN "paid" ELSE commission[a]]
     /\ byHand' = byHand \cup group
     /\ UNCHANGED <<batch, residual, allocation, intents, held, stripe, worker, rail>>

RailNext ==
  \/ Next /\ UNCHANGED <<rail, byHand>>
  \/ \E r \in {"stripe_connect", "manual"} : SetRail(r)
  \/ \E p \in Partners : PlanByHand(p)

RailSpec == RailInit /\ [][RailNext]_railVars

-----------------------------------------------------------------------------

\* What payouts.ts says of its filter and interlocks.ts of a live allocation:
\* a commission frozen onto an open transfer intent is not regrouped, so no
\* transfer the partner keeps is of money the brand also pays by hand.
PaidByOneRail ==
  \A t \in made \ foreign : ~ Gone(t) => frozen[t[1]] \cap byHand = {}
=============================================================================
