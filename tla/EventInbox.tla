------------------------------- MODULE EventInbox -------------------------------
(***************************************************************************)
(* The inbox of the funding webhook (apps/api/src/funding/inbox.ts, and    *)
(* handleFundingEvent in funding/webhook.ts): one Stripe event, delivered  *)
(* again until it is acknowledged, and the handlers that compete for it. A *)
(* claim is a lease of five minutes; processedAt is the token of its owner.*)
(***************************************************************************)
EXTENDS NoValue

CONSTANT
  Handlers    \* deliveries being handled at the same time

VARIABLES
  claimed,    \* StripeWebhookInbox: is there a row?
  outcome,    \* is its outcome set?
  token,      \* processedAt: the delivery that claimed it last
  expired,    \* is that longer ago than the lease?
  effect,     \* has a handler run to its end?
  acked,      \* has Stripe had a 2xx?
  handler

inbox == <<claimed, outcome, token, expired>>
inboxVars == <<inbox, effect, acked, handler>>

InboxTypeOK ==
  /\ {claimed, outcome, expired, effect, acked} \subseteq BOOLEAN
  /\ token \in Handlers \cup {None}
  /\ handler \in [Handlers -> {"idle", "look", "route", "stamp", "release"}]

InboxInit ==
  /\ claimed = FALSE /\ outcome = FALSE /\ token = None /\ expired = FALSE
  /\ effect = FALSE /\ acked = FALSE
  /\ handler = [h \in Handlers |-> "idle"]

On(h, l) == handler[h] = l
To(h, l) == handler' = [handler EXCEPT ![h] = l]
Owns(h) == claimed /\ token = h

\* Stripe delivers what was not acknowledged; claimInboxEvent's upsert takes
\* a new event, or an unfinished one past its lease.
Receive(h) ==
  /\ On(h, "idle") /\ ~ acked
  /\ IF ~ claimed \/ (~ outcome /\ expired)
     THEN claimed' = TRUE /\ token' = h /\ expired' = FALSE /\ To(h, "route")
     ELSE To(h, "look") /\ UNCHANGED <<claimed, token, expired>>
  /\ UNCHANGED <<outcome, effect, acked>>

\* Mutant: a claim that somebody holds reads as a replay.
LookAcks(h) ==
  /\ On(h, "look")
  /\ acked' = (acked \/ claimed)
  /\ To(h, "idle")
  /\ UNCHANGED <<inbox, effect>>

\* Otherwise it reads the outcome: done is a replay, held is refused.
Look(h) ==
  /\ On(h, "look")
  /\ acked' = (acked \/ (claimed /\ outcome))
  /\ To(h, "idle")
  /\ UNCHANGED <<inbox, effect>>

\* routeFundingEvent: done, not ready (the claim stays for the alert), or failed.
RouteEvent(h) ==
  /\ On(h, "route")
  /\ \/ effect' = TRUE /\ To(h, "stamp")
     \/ \E l \in {"idle", "release"} : To(h, l) /\ UNCHANGED effect
  /\ UNCHANGED <<inbox, acked>>

\* stampInboxOutcome, by the owner of the claim; the answer is 2xx either way.
Stamp(h) ==
  /\ On(h, "stamp")
  /\ outcome' = (outcome \/ Owns(h)) /\ expired' = (expired /\ ~ Owns(h))
  /\ acked' = TRUE
  /\ To(h, "idle")
  /\ UNCHANGED <<claimed, token, effect>>

\* Mutant: the row goes whoever owns it, and whatever it says.
ReleaseAny(h) ==
  /\ On(h, "release")
  /\ claimed' = FALSE /\ outcome' = FALSE
  /\ token' = None /\ expired' = FALSE
  /\ To(h, "idle")
  /\ UNCHANGED <<effect, acked>>

\* Mutant: the row is kept, and its outcome cleared.
ReleaseNulls(h) ==
  /\ On(h, "release")
  /\ outcome' = None
  /\ To(h, "idle")
  /\ UNCHANGED <<claimed, token, expired, effect, acked>>

\* releaseInboxClaim, before the error goes back to Stripe.
Release(h) ==
  /\ On(h, "release")
  /\ IF Owns(h) /\ ~ outcome
     THEN claimed' = FALSE /\ token' = None /\ expired' = FALSE
     ELSE UNCHANGED <<claimed, token, expired>>
  /\ To(h, "idle")
  /\ UNCHANGED <<outcome, effect, acked>>

Lapse == claimed /\ ~ outcome /\ ~ expired /\ expired' = TRUE
         /\ UNCHANGED <<claimed, outcome, token, effect, acked, handler>>

Die(h) == ~ On(h, "idle") /\ To(h, "idle") /\ UNCHANGED <<inbox, effect, acked>>

InboxNext ==
  \/ \E h \in Handlers : Receive(h) \/ Look(h) \/ RouteEvent(h) \/ Stamp(h) \/ Release(h) \/ Die(h)
  \/ Lapse

InboxSpec == InboxInit /\ [][InboxNext]_inboxVars

\* An event is acknowledged, or its row finished, only when some handler ran
\* it to the end: Stripe never stops redelivering what nobody has processed.
AckedIsHandled == acked \/ outcome => effect

\* A handler at work within its lease keeps its claim: no other delivery
\* takes it, and none that lost it before drops it or stamps it.
ClaimStep ==
  \A h \in Handlers :
    Owns(h) /\ On(h, "route") /\ ~ expired /\ handler'[h] = handler[h]
    => claimed' /\ token' = h /\ outcome' = outcome
ClaimOutlivesGhosts == [][ClaimStep]_inboxVars
=============================================================================
