-------------------------- MODULE FundingCollection --------------------------
(***************************************************************************)
(* Collecting a hosted funding batch: reservation, the PaymentIntent that  *)
(* debits the brand, its confirmation, and the protocol that releases a    *)
(* batch that was not paid (apps/api/src/funding: reserve.ts, collect.ts,  *)
(* confirm.ts, release.ts, stripe-lookup.ts, and the payment half of       *)
(* webhook.ts and interlocks.ts), for one tenant and one currency.         *)
(*                                                                         *)
(* Every worker is a program counter over the SQL statements and Stripe    *)
(* calls of the function it runs; one action is one statement or one call, *)
(* so any other worker may move between them. A worker may die anywhere.   *)
(* An amount of money is the set of commissions whose amounts it adds up.  *)
(***************************************************************************)
EXTENDS Integers, FiniteSets, NoValue

CONSTANTS
  Batches,       \* ids of funding batches
  Commissions,   \* approved commissions of the tenant, one currency
  Slots,         \* bound: PaymentIntents Stripe may make for one batch
  Collectors,    \* processes running the funding-collector job
  Hooks,         \* webhook deliveries handled at the same time
  Operators,     \* force-release requests applied at the same time
  Floor,         \* BATCH_FLOOR_MINOR, in commissions
  LoseEvents     \* types of webhooks that Stripe may give up delivering

PaymentIntents == Batches \X Slots
Workers == Collectors \cup Hooks \cup Operators

EventTypes == {"succeeded", "payment_failed", "canceled", "clawback"}
Events == EventTypes \X PaymentIntents

ASSUME CollectionAssumption ==
  /\ None \notin Batches \cup PaymentIntents \cup Events
  /\ Floor \in Nat
  /\ LoseEvents \subseteq EventTypes
  /\ IsFiniteSet(Commissions)
  /\ Collectors \cap Hooks = {} /\ Collectors \cap Operators = {} /\ Hooks \cap Operators = {}

VARIABLES
  \* The database (HostedFundingBatch, HostedFundingAllocation, Commission).
  status,        \* HostedFundingBatch.status; "absent" before the insert
  stamp,         \* HostedFundingBatch.stripePaymentIntentId
  principal,     \* principalMinor = grossChargeMinor
  attempted,     \* fundingAttempts > 0
  allocation,    \* HostedFundingAllocation.state, "none" where there is no row
  commission,    \* Commission.status
  \* Time.
  timedOut,      \* the batch is older than FUNDING_TIMEOUT_DAYS
  quiet,         \* release_requested and not written for FORCE_RELEASE_QUIET_MS
  \* Stripe.
  intent,        \* PaymentIntent.status; "refunded" is succeeded, charge refunded
  amount,        \* PaymentIntent.amount
  indexed,       \* PaymentIntents that paymentIntents.search returns
  frozenKey,     \* the intent Stripe replays for the key fbpi:<batch>
  requests,      \* create requests on their way to Stripe
  events,        \* webhook events Stripe is still delivering
  \* The processes.
  worker

ledger  == <<status, stamp, principal, attempted, allocation, commission>>
stripe  == <<intent, amount, indexed, frozenKey, requests, events>>
clock   == <<timedOut, quiet>>
vars    == <<ledger, stripe, clock, worker>>

Statuses == {"absent", "reserved", "invoicing", "payment_processing", "funding_failed",
             "release_requested", "released", "funded", "funding_disputed", "recovery_required"}

\* The statuses outside the partial unique index on tenant and currency.
Terminal == {"absent", "released"}

IntentStatuses == {"absent", "requires_payment_method", "processing",
                   "succeeded", "refunded", "canceled"}
\* The bank debit can no longer happen.
Dead(p) == intent[p] \in {"absent", "canceled"}
Paid(p) == intent[p] \in {"succeeded", "refunded"}
IntentsOf(b) == {p \in PaymentIntents : p[1] = b}

Labels == {"idle", "claim", "reread", "search", "adopt", "adopted", "recheck", "poll", "retry",
           "retryPaid", "retryConfirm", "retried", "create", "await", "stamp", "stamped",
           "createError", "createFailed", "abandon", "orphanStamp", "orphanReclaim",
           "orphanFreeze", "confirm", "confirmCas", "relConfirm", "relConfirmCas", "release",
           "relSearch", "relStamp", "relRetrieve", "relCancel", "relFreeze",
           "relFree", "relClose", "forceSearch", "forceList", "forceClose", "forceFree"}

Process(l, b, s, p, v, e) == [pc |-> l, job |-> b, seen |-> s, hand |-> p, saw |-> v, evt |-> e]
Resting == Process("idle", None, "absent", None, "absent", None)

Processes == [pc : Labels,                          \* next statement or call
              job : Batches \cup {None},            \* the batch it works on
              seen : Statuses,                      \* the row status it read
              hand : PaymentIntents \cup {None},    \* the intent it holds
              saw : IntentStatuses,                 \* that intent's status, as read
              evt : Events \cup {None}]             \* the event it handles

TypeOK ==
  /\ status \in [Batches -> Statuses]
  /\ stamp \in [Batches -> PaymentIntents \cup {None}]
  /\ principal \in [Batches -> SUBSET Commissions]
  /\ attempted \in [Batches -> BOOLEAN]
  /\ allocation \in [Batches -> [Commissions -> {"none", "reserved", "canceled", "released"}]]
  /\ commission \in [Commissions -> {"approved", "reversed"}]
  /\ timedOut \in [Batches -> BOOLEAN]
  /\ quiet \in [Batches -> BOOLEAN]
  /\ intent \in [PaymentIntents -> IntentStatuses]
  /\ amount \in [PaymentIntents -> SUBSET Commissions]
  /\ indexed \in SUBSET PaymentIntents
  /\ frozenKey \in [Batches -> PaymentIntents \cup {None}]
  /\ requests \in SUBSET (Batches \X SUBSET Commissions)
  /\ events \in SUBSET Events
  /\ worker \in [Workers -> Processes]

Init ==
  /\ status = [b \in Batches |-> "absent"]
  /\ stamp = [b \in Batches |-> None]
  /\ principal = [b \in Batches |-> {}]
  /\ attempted = [b \in Batches |-> FALSE]
  /\ allocation = [b \in Batches |-> [c \in Commissions |-> "none"]]
  /\ commission = [c \in Commissions |-> "approved"]
  /\ timedOut = [b \in Batches |-> FALSE]
  /\ quiet = [b \in Batches |-> FALSE]
  /\ intent = [p \in PaymentIntents |-> "absent"]
  /\ amount = [p \in PaymentIntents |-> {}]
  /\ indexed = {}
  /\ frozenKey = [b \in Batches |-> None]
  /\ requests = {}
  /\ events = {}
  /\ worker = [w \in Workers |-> Resting]

-----------------------------------------------------------------------------
(* Steps of a worker, and the compare-and-set every transition goes through. *)

At(w, l) == worker[w].pc = l
Job(w) == worker[w].job
Hand(w) == worker[w].hand

Go(w, l) == worker' = [worker EXCEPT ![w] = [@ EXCEPT !.pc = l]]
GoWith(w, l, p) == worker' = [worker EXCEPT ![w] = [@ EXCEPT !.pc = l, !.hand = p]]
\* An intent a call returned, with the status it had then.
GoSeeing(w, l, p) ==
  worker' = [worker EXCEPT ![w] = [@ EXCEPT !.pc = l, !.hand = p, !.saw = intent[p]]]
\* The function returned: a webhook event is acknowledged.
Return(w) ==
  /\ worker' = [worker EXCEPT ![w] = Resting]
  /\ events' = events \ {worker[w].evt}
\* It threw, or its process died: the event is delivered again.
Throw(w) ==
  /\ worker' = [worker EXCEPT ![w] = Resting]
  /\ UNCHANGED events

\* casBatch: the UPDATE ... WHERE status IN from found the row.
Cas(b, from, to) == status[b] \in from /\ status' = [status EXCEPT ![b] = to]
\* updatedAt moves with every write of the row.
StampRow(b, p) ==
  /\ stamp' = [stamp EXCEPT ![b] = p]
  /\ quiet' = [quiet EXCEPT ![b] = FALSE]

\* The partial unique index: one open batch for each tenant and currency.
NoOtherOpen(b) == \A x \in Batches \ {b} : status[x] \in Terminal
Live(b, c) == allocation[b][c] = "reserved"
FreeAllocations(b) ==
  allocation' = [allocation EXCEPT ![b] = [c \in Commissions |->
                   IF Live(b, c) THEN "released" ELSE allocation[b][c]]]

-----------------------------------------------------------------------------
(* The planner and the reversal paths: one database transaction each. *)

\* A commission the reservation query locks: approved, in no live allocation,
\* and in no canceled allocation of a batch that collected (no disposition
\* of a residual is modelled here).
Eligible(c) ==
  /\ commission[c] = "approved"
  /\ \A x \in Batches : ~ Live(x, c) /\ (allocation[x][c] = "canceled" => status[x] = "released")

Reserve(b) ==
  /\ status[b] = "absent"
  /\ NoOtherOpen(b)
  /\ \E S \in SUBSET {c \in Commissions : Eligible(c)} :
       /\ S # {}
       /\ Cardinality(S) >= Floor
       /\ principal' = [principal EXCEPT ![b] = S]
       /\ allocation' = [allocation EXCEPT ![b] = [c \in Commissions |->
                           IF c \in S THEN "reserved" ELSE "none"]]
  /\ status' = [status EXCEPT ![b] = "reserved"]
  /\ UNCHANGED <<stamp, attempted, commission, stripe, clock, worker>>

\* A refund or an administrator reverses a commission no live allocation holds.
ReverseFree(c) ==
  /\ commission[c] = "approved"
  /\ \A b \in Batches : ~ Live(b, c)
  /\ commission' = [commission EXCEPT ![c] = "reversed"]
  /\ UNCHANGED <<status, stamp, principal, attempted, allocation, stripe, clock, worker>>

\* Mutant: the interlock still shrinks a batch whose amount is being charged.
ReverseReservedLate(b, c) ==
  /\ commission[c] = "approved" /\ Live(b, c)
  /\ status[b] \in {"reserved", "invoicing"}
  /\ commission' = [commission EXCEPT ![c] = "reversed"]
  /\ principal' = [principal EXCEPT ![b] = @ \ {c}]
  /\ allocation' = [allocation EXCEPT ![b][c] = "released"]
  /\ UNCHANGED <<status, stamp, attempted, stripe, clock, worker>>

\* The batch is still reserved: it shrinks, and closes if nothing is left.
ReverseReserved(b, c) ==
  /\ commission[c] = "approved" /\ Live(b, c)
  /\ status[b] = "reserved"
  /\ commission' = [commission EXCEPT ![c] = "reversed"]
  /\ principal' = [principal EXCEPT ![b] = @ \ {c}]
  /\ allocation' = [allocation EXCEPT ![b][c] = "released"]
  /\ status' = [status EXCEPT ![b] =
                  IF \E d \in Commissions \ {c} : Live(b, d) THEN "reserved" ELSE "released"]
  /\ UNCHANGED <<stamp, attempted, stripe, clock, worker>>

\* The charge amount is frozen: the allocation is canceled, a residual later.
ReverseInFlight(b, c) ==
  /\ commission[c] = "approved" /\ Live(b, c)
  /\ status[b] # "reserved"
  /\ commission' = [commission EXCEPT ![c] = "reversed"]
  /\ allocation' = [allocation EXCEPT ![b][c] = "canceled"]
  /\ UNCHANGED <<status, stamp, principal, attempted, stripe, clock, worker>>

-----------------------------------------------------------------------------
(* The collector. Scan is the row as the pass read it, and the branch of      *)
(* collectBatch that row selects.                                             *)

Branch(b) ==
  IF status[b] = "release_requested" THEN "release"
  ELSE IF status[b] = "invoicing" THEN "reread"
  ELSE IF timedOut[b] THEN "release"
  ELSE IF status[b] = "reserved" THEN "claim"
  ELSE IF status[b] = "payment_processing" THEN "poll"
  ELSE IF stamp[b] # None THEN "retry"
  ELSE IF attempted[b] THEN "search" ELSE "claim"

Scan(w, b) ==
  /\ At(w, "idle")
  /\ status[b] \in {"reserved", "invoicing", "payment_processing",
                    "funding_failed", "release_requested"}
  /\ status[b] = "payment_processing" => stamp[b] # None
  /\ LET p == IF Branch(b) \in {"poll", "retry"} THEN stamp[b] ELSE None
     IN  worker' = [worker EXCEPT ![w] = Process(Branch(b), b, status[b], p, "absent", None)]
  /\ UNCHANGED <<ledger, stripe, clock>>

\* CAS reserved -> invoicing, or funding_failed -> invoicing on a retry.
ClaimForCreate(w) ==
  /\ At(w, "claim")
  /\ \/ Cas(Job(w), {worker[w].seen}, "invoicing") /\ Go(w, "create") /\ UNCHANGED events
     \/ status[Job(w)] # worker[w].seen /\ Return(w) /\ UNCHANGED status
  /\ UNCHANGED <<stamp, principal, attempted, allocation, commission, intent, amount, indexed,
                 frozenKey, requests, clock>>

\* Mutant: a batch left in invoicing creates again without searching.
RereadCreates(w) ==
  /\ At(w, "reread")
  /\ IF status[Job(w)] = "invoicing" THEN Go(w, "create") /\ UNCHANGED events ELSE Return(w)
  /\ UNCHANGED <<ledger, intent, amount, indexed, frozenKey, requests, clock>>

RereadInvoicing(w) ==
  /\ At(w, "reread")
  /\ IF status[Job(w)] = "invoicing" THEN Go(w, "search") /\ UNCHANGED events ELSE Return(w)
  /\ UNCHANGED <<ledger, intent, amount, indexed, frozenKey, requests, clock>>

\* findFundingPaymentIntent: only what the search index holds by now.
Found(b) == IntentsOf(b) \cap indexed

SearchBeforeCreate(w) ==
  /\ At(w, "search")
  /\ \/ \E p \in Found(Job(w)) : GoSeeing(w, "adopt", p)
     \/ Found(Job(w)) = {} /\ Go(w, IF worker[w].seen = "invoicing" THEN "create" ELSE "claim")
  /\ UNCHANGED <<ledger, stripe, clock>>

\* adoptExistingPaymentIntent: the status-predicated stamp.
AdoptStamp(w) ==
  /\ At(w, "adopt")
  /\ \/ /\ status[Job(w)] = worker[w].seen
        /\ StampRow(Job(w), Hand(w))
        /\ IF worker[w].saw = "canceled" THEN Return(w) ELSE Go(w, "adopted") /\ UNCHANGED events
     \/ status[Job(w)] # worker[w].seen /\ Return(w) /\ UNCHANGED <<stamp, quiet>>
  /\ UNCHANGED <<status, principal, attempted, allocation, commission, intent, amount, indexed,
                 frozenKey, requests, timedOut>>

\* Its result is not looked at: a paid intent goes on to confirmation anyway.
AdoptMove(w) ==
  /\ At(w, "adopted")
  /\ \/ Cas(Job(w), {worker[w].seen}, "payment_processing")
     \/ status[Job(w)] # worker[w].seen /\ UNCHANGED status
  /\ IF worker[w].saw \in {"succeeded", "refunded"}
       THEN Go(w, "recheck") /\ UNCHANGED events
       ELSE Return(w)
  /\ UNCHANGED <<stamp, principal, attempted, allocation, commission, intent, amount, indexed,
                 frozenKey, requests, clock>>

\* Retrieved with the charge expanded: a refunded charge fails verification.
AdoptRetrieve(w) ==
  /\ At(w, "recheck")
  /\ IF intent[Hand(w)] = "succeeded" THEN GoSeeing(w, "confirm", Hand(w)) /\ UNCHANGED events
                                      ELSE Return(w)
  /\ UNCHANGED <<ledger, intent, amount, indexed, frozenKey, requests, clock>>

\* Mutant: the poll leaves a paid intent to its webhook.
PollCanceledOnly(w) ==
  /\ At(w, "poll")
  /\ IF intent[Hand(w)] = "canceled" THEN Go(w, "release") /\ UNCHANGED events ELSE Return(w)
  /\ UNCHANGED <<ledger, intent, amount, indexed, frozenKey, requests, clock>>

\* The webhook-loss backstop. Retrieved without the charge: latest_charge is
\* an id, so a refunded charge reads as a succeeded intent.
Poll(w) ==
  /\ At(w, "poll")
  /\ CASE Paid(Hand(w)) -> GoSeeing(w, "confirm", Hand(w)) /\ UNCHANGED events
       [] intent[Hand(w)] = "canceled" -> Go(w, "release") /\ UNCHANGED events
       [] OTHER -> Return(w)
  /\ UNCHANGED <<ledger, intent, amount, indexed, frozenKey, requests, clock>>

\* retryFundingPaymentIntent. Without an authorization it returns; the
\* authorization may be revoked and set up again at any time.
RetryRetrieve(w) ==
  /\ At(w, "retry")
  /\ \/ Paid(Hand(w)) /\ GoSeeing(w, "retryPaid", Hand(w)) /\ UNCHANGED events
     \/ intent[Hand(w)] = "canceled" /\ Go(w, "release") /\ UNCHANGED events
     \/ intent[Hand(w)] = "requires_payment_method" /\ Go(w, "retryConfirm") /\ UNCHANGED events
     \/ intent[Hand(w)] \in {"requires_payment_method", "processing"} /\ Return(w)
  /\ UNCHANGED <<ledger, intent, amount, indexed, frozenKey, requests, clock>>

RetryMovePaid(w) ==
  /\ At(w, "retryPaid")
  /\ \/ Cas(Job(w), {"funding_failed"}, "payment_processing")
     \/ status[Job(w)] # "funding_failed" /\ UNCHANGED status
  /\ Go(w, "confirm")
  /\ UNCHANGED <<stamp, principal, attempted, allocation, commission, stripe, clock>>

\* paymentIntents.confirm on the same intent; an error leaves funding_failed.
RetryConfirm(w) ==
  /\ At(w, "retryConfirm")
  /\ \/ /\ intent[Hand(w)] = "requires_payment_method"
        /\ intent' = [intent EXCEPT ![Hand(w)] = "processing"]
        /\ Go(w, "retried") \/ worker' = [worker EXCEPT ![w] = Resting]
     \/ worker' = [worker EXCEPT ![w] = Resting] /\ UNCHANGED intent
  /\ UNCHANGED <<ledger, amount, indexed, frozenKey, requests, events, clock>>

RetryRecord(w) ==
  /\ At(w, "retried")
  /\ \/ Cas(Job(w), {"funding_failed"}, "payment_processing")
     \/ status[Job(w)] # "funding_failed" /\ UNCHANGED status
  /\ Return(w)
  /\ UNCHANGED <<stamp, principal, attempted, allocation, commission, intent, amount, indexed,
                 frozenKey, requests, clock>>

-----------------------------------------------------------------------------
(* createFundingPaymentIntent, and the orphan it may leave.                   *)

\* No authorization or customer: the CAS of the failure path, nothing sent.
SendCreate(w) ==
  /\ At(w, "create")
  /\ \/ Go(w, "createFailed") /\ UNCHANGED requests
     \/ Go(w, "await") /\ requests' = requests \cup {<<Job(w), principal[Job(w)]>>}
  /\ UNCHANGED <<ledger, intent, amount, indexed, frozenKey, events, clock>>

\* The request of a worker is at Stripe until Stripe has acted on it.
Sent(b) == \E r \in requests : r[1] = b

\* An intent that was declined at once comes back on an error.
CreateReturns(w) ==
  /\ At(w, "await") /\ ~ Sent(Job(w))
  /\ frozenKey[Job(w)] # None
  /\ \/ GoWith(w, "stamp", frozenKey[Job(w)])
     \/ /\ intent[frozenKey[Job(w)]] = "requires_payment_method"
        /\ GoWith(w, "createError", frozenKey[Job(w)])
  /\ UNCHANGED <<ledger, stripe, clock>>

\* Timeout or network error: the request may be lost, or land later.
CreateFails(w) ==
  /\ At(w, "await")
  /\ Go(w, "createFailed")
  /\ requests' \in {requests, {r \in requests : r[1] # Job(w)}}
  /\ UNCHANGED <<ledger, intent, amount, indexed, frozenKey, events, clock>>

StampCreated(w) ==
  /\ At(w, "stamp")
  /\ \/ /\ status[Job(w)] = "invoicing"
        /\ StampRow(Job(w), Hand(w))
        /\ attempted' = [attempted EXCEPT ![Job(w)] = TRUE]
        /\ Go(w, "stamped")
     \/ status[Job(w)] # "invoicing" /\ Go(w, "abandon") /\ UNCHANGED <<stamp, quiet, attempted>>
  /\ UNCHANGED <<status, principal, allocation, commission, stripe, timedOut>>

MoveCreated(w) ==
  /\ At(w, "stamped")
  /\ \/ Cas(Job(w), {"invoicing"}, "payment_processing")
     \/ status[Job(w)] # "invoicing" /\ UNCHANGED status
  /\ Return(w)
  /\ UNCHANGED <<stamp, principal, attempted, allocation, commission, intent, amount, indexed,
                 frozenKey, requests, clock>>

RecordFailedIntent(w) ==
  /\ At(w, "createError")
  /\ \/ status[Job(w)] = "invoicing" /\ StampRow(Job(w), Hand(w))
     \/ status[Job(w)] # "invoicing" /\ UNCHANGED <<stamp, quiet>>
  /\ Go(w, "createFailed")
  /\ UNCHANGED <<status, principal, attempted, allocation, commission, stripe, timedOut>>

MoveCreateFailed(w) ==
  /\ At(w, "createFailed")
  /\ \/ /\ Cas(Job(w), {"invoicing"}, "funding_failed")
        /\ attempted' = [attempted EXCEPT ![Job(w)] = TRUE]
     \/ status[Job(w)] # "invoicing" /\ UNCHANGED <<status, attempted>>
  /\ Return(w)
  /\ UNCHANGED <<stamp, principal, allocation, commission, intent, amount, indexed, frozenKey,
                 requests, clock>>

\* paymentIntents.cancel took effect, and its webhook is on the way. A debit
\* already processing may refuse, and the response to a cancel may be lost.
Cancels(p) ==
  /\ intent[p] \in {"requires_payment_method", "processing"}
  /\ intent' = [intent EXCEPT ![p] = "canceled"]
CanceledEvent(p) == {<<"canceled", p>>}

AbandonOrphan(w) ==
  /\ At(w, "abandon")
  /\ \/ /\ Cancels(Hand(w))
        /\ events' = events \cup CanceledEvent(Hand(w))
        /\ worker' = [worker EXCEPT ![w] = Resting] \/ Go(w, "orphanStamp")
     \/ Go(w, "orphanStamp") /\ UNCHANGED <<intent, events>>
  /\ UNCHANGED <<ledger, amount, indexed, frozenKey, requests, clock>>

OrphanStamp(w) ==
  /\ At(w, "orphanStamp")
  /\ StampRow(Job(w), Hand(w))
  /\ Go(w, "orphanReclaim")
  /\ UNCHANGED <<status, principal, attempted, allocation, commission, stripe, timedOut>>

\* reclaimReleasedAllocations.
OrphanReclaim(w) ==
  /\ At(w, "orphanReclaim")
  /\ allocation' = [allocation EXCEPT ![Job(w)] = [c \in Commissions |->
       IF /\ allocation[Job(w)][c] = "released"
          /\ \A x \in Batches \ {Job(w)} : ~ Live(x, c)
         THEN "reserved" ELSE allocation[Job(w)][c]]]
  /\ Go(w, "orphanFreeze")
  /\ UNCHANGED <<status, stamp, principal, attempted, commission, stripe, clock>>

\* The unique index refuses to reopen a released batch beside an open one.
OrphanFreeze(w) ==
  /\ At(w, "orphanFreeze")
  /\ \/ /\ Cas(Job(w), {"released", "release_requested", "funding_failed", "payment_processing"},
              "recovery_required")
        /\ status[Job(w)] = "released" => NoOtherOpen(Job(w))
     \/ /\ \/ status[Job(w)] \in Statuses \ {"released", "release_requested", "funding_failed",
                                             "payment_processing"}
           \/ status[Job(w)] = "released" /\ ~ NoOtherOpen(Job(w))
        /\ UNCHANGED status
  /\ Return(w)
  /\ UNCHANGED <<stamp, principal, attempted, allocation, commission, intent, amount, indexed,
                 frozenKey, requests, clock>>

-----------------------------------------------------------------------------
(* confirmFundingFromPaymentIntent: the only way to funded. rel is TRUE when  *)
(* the release protocol calls it.                                             *)

\* Mutant: the intent on the row is not compared with the one that was paid.
ConfirmAnyIntent(w, rel) ==
  LET b == Job(w) IN
  /\ At(w, IF rel THEN "relConfirm" ELSE "confirm")
  /\ IF status[b] # "funded" /\ amount[Hand(w)] = principal[b]
       THEN Go(w, IF rel THEN "relConfirmCas" ELSE "confirmCas") /\ UNCHANGED events
       ELSE Return(w)
  /\ UNCHANGED <<ledger, intent, amount, indexed, frozenKey, requests, clock>>

Confirm(w, rel) ==
  LET b == Job(w) IN
  /\ At(w, IF rel THEN "relConfirm" ELSE "confirm")
  /\ CASE status[b] = "funded" -> Return(w)
       [] status[b] # "funded" /\ Hand(w) = stamp[b] /\ amount[Hand(w)] = principal[b] ->
            Go(w, IF rel THEN "relConfirmCas" ELSE "confirmCas") /\ UNCHANGED events
       [] OTHER -> IF rel THEN Go(w, "relFreeze") /\ UNCHANGED events ELSE Return(w)
  /\ UNCHANGED <<ledger, intent, amount, indexed, frozenKey, requests, clock>>

\* Mutant: it funds a batch that a clawback froze since it was checked.
ConfirmWinsFrozen(w, rel) ==
  /\ At(w, IF rel THEN "relConfirmCas" ELSE "confirmCas")
  /\ Cas(Job(w), {"payment_processing", "release_requested", "funding_disputed"}, "funded")
  /\ Return(w)
  /\ UNCHANGED <<stamp, principal, attempted, allocation, commission, intent, amount, indexed,
                 frozenKey, requests, clock>>

\* Payment wins over a release in progress.
ConfirmWins(w, rel) ==
  /\ At(w, IF rel THEN "relConfirmCas" ELSE "confirmCas")
  /\ Cas(Job(w), {"payment_processing", "release_requested"}, "funded")
  /\ Return(w)
  /\ UNCHANGED <<stamp, principal, attempted, allocation, commission, intent, amount, indexed,
                 frozenKey, requests, clock>>

\* Money for a released batch: frozen for a human, unless the index refuses,
\* which raises.
ConfirmLoses(w, rel) ==
  LET b == Job(w) IN
  /\ At(w, IF rel THEN "relConfirmCas" ELSE "confirmCas")
  /\ status[b] \notin {"payment_processing", "release_requested"}
  /\ \/ /\ status[b] = "released" /\ NoOtherOpen(b)
        /\ Cas(b, {"released"}, "recovery_required")
        /\ Return(w)
     \/ /\ status[b] = "released" /\ ~ NoOtherOpen(b)
        /\ Throw(w) /\ UNCHANGED status
     \/ /\ status[b] # "released"
        /\ IF rel /\ status[b] # "funded" THEN Go(w, "relFreeze") /\ UNCHANGED events
                                           ELSE Return(w)
        /\ UNCHANGED status
  /\ UNCHANGED <<stamp, principal, attempted, allocation, commission, intent, amount, indexed,
                 frozenKey, requests, clock>>

-----------------------------------------------------------------------------
(* releaseBatch.                                                              *)

\* Mutant: a batch whose create failed is freed like one that never reached Stripe.
ReleaseClaimEarly(w) ==
  LET b == Job(w) IN
  /\ At(w, "release")
  /\ \/ /\ Cas(b, {"reserved", "funding_failed"}, "release_requested")
        /\ Go(w, "relFree") /\ UNCHANGED events
     \/ status[b] \notin {"reserved", "funding_failed"} /\ Return(w) /\ UNCHANGED status
  /\ UNCHANGED <<stamp, principal, attempted, allocation, commission, intent, amount, indexed,
                 frozenKey, requests, clock>>

\* Mutant: a release that was interrupted is not taken up again.
ReleaseClaimOnce(w) ==
  LET b == Job(w) IN
  /\ At(w, "release")
  /\ \/ /\ Cas(b, {"payment_processing", "funding_failed"}, "release_requested")
        /\ GoWith(w, IF stamp[b] # None THEN "relRetrieve" ELSE "relSearch", stamp[b])
        /\ UNCHANGED events
     \/ status[b] \notin {"payment_processing", "funding_failed"} /\ Return(w) /\ UNCHANGED status
  /\ UNCHANGED <<stamp, principal, attempted, allocation, commission, intent, amount, indexed,
                 frozenKey, requests, clock>>

\* Re-entry reads the row; otherwise CAS from reserved, then from the states
\* that may have an intent. A batch claimed out of reserved never reached Stripe.
ReleaseClaim(w) ==
  LET b == Job(w)
      Claimed(l) == worker' = [worker EXCEPT ![w] =
        Process(IF stamp[b] # None THEN "relRetrieve" ELSE l, b, "absent", stamp[b], "absent",
                worker[w].evt)]
      Sources == {"reserved", "invoicing", "payment_processing", "funding_failed"}
      reentry == worker[w].seen = "release_requested"
  IN
  /\ At(w, "release")
  /\ \/ /\ reentry /\ status[b] = "release_requested"
        /\ Claimed("relSearch") /\ UNCHANGED <<status, events>>
     \/ /\ ~ reentry /\ Cas(b, {"reserved"}, "release_requested")
        /\ Claimed("relFree") /\ UNCHANGED events
     \/ /\ ~ reentry /\ Cas(b, Sources \ {"reserved"}, "release_requested")
        /\ Claimed("relSearch") /\ UNCHANGED events
     \/ /\ status[b] \notin (IF reentry THEN {"release_requested"} ELSE Sources)
        /\ Return(w) /\ UNCHANGED status
  /\ UNCHANGED <<stamp, principal, attempted, allocation, commission, intent, amount, indexed,
                 frozenKey, requests, clock>>

\* Mutant: a search that finds nothing is taken for the absence of an intent.
ReleaseSearchEmpty(w) ==
  /\ At(w, "relSearch")
  /\ \/ \E p \in Found(Job(w)) : GoWith(w, "relStamp", p)
     \/ Found(Job(w)) = {} /\ Go(w, "relFree")
  /\ UNCHANGED <<ledger, stripe, clock>>

\* Empty is not absent: nothing is freed.
ReleaseSearch(w) ==
  /\ At(w, "relSearch")
  /\ \/ \E p \in Found(Job(w)) : GoWith(w, "relStamp", p) /\ UNCHANGED events
     \/ Found(Job(w)) = {} /\ Return(w)
  /\ UNCHANGED <<ledger, intent, amount, indexed, frozenKey, requests, clock>>

ReleaseStamp(w) ==
  /\ At(w, "relStamp")
  /\ \/ status[Job(w)] = "release_requested" /\ StampRow(Job(w), Hand(w))
     \/ status[Job(w)] # "release_requested" /\ UNCHANGED <<stamp, quiet>>
  /\ Go(w, "relRetrieve")
  /\ UNCHANGED <<status, principal, attempted, allocation, commission, stripe, timedOut>>

ReleaseRetrieve(w) ==
  /\ At(w, "relRetrieve")
  /\ Go(w, CASE intent[Hand(w)] = "succeeded" -> "relConfirm"
              [] intent[Hand(w)] = "refunded" -> "relFreeze"
              [] intent[Hand(w)] = "canceled" -> "relFree"
              [] OTHER -> "relCancel")
  /\ UNCHANGED <<ledger, stripe, clock>>

\* Mutant: a cancel that was refused is taken for done.
ReleaseCancelBlind(w) ==
  /\ At(w, "relCancel")
  /\ \/ Cancels(Hand(w)) /\ events' = events \cup CanceledEvent(Hand(w))
     \/ UNCHANGED <<intent, events>>
  /\ Go(w, "relFree")
  /\ UNCHANGED <<ledger, amount, indexed, frozenKey, requests, clock>>

ReleaseCancel(w) ==
  /\ At(w, "relCancel")
  /\ \/ /\ Cancels(Hand(w))
        /\ \/ Go(w, "relFree") /\ events' = events \cup CanceledEvent(Hand(w))
           \/ /\ worker' = [worker EXCEPT ![w] = Resting]
              /\ events' = (events \ {worker[w].evt}) \cup CanceledEvent(Hand(w))
     \/ intent[Hand(w)] # "requires_payment_method" /\ Return(w) /\ UNCHANGED intent
  /\ UNCHANGED <<ledger, amount, indexed, frozenKey, requests, clock>>

\* A search, a retrieve or a cancel of the release that fails is caught: the
\* batch waits for a later pass.
ReleaseCallFails(w) ==
  /\ worker[w].pc \in {"relSearch", "relRetrieve", "relCancel"}
  /\ Return(w)
  /\ UNCHANGED <<ledger, intent, amount, indexed, frozenKey, requests, clock>>

ReleaseFreeze(w) ==
  /\ At(w, "relFreeze")
  /\ \/ Cas(Job(w), {"release_requested"}, "recovery_required")
     \/ status[Job(w)] # "release_requested" /\ UNCHANGED status
  /\ Return(w)
  /\ UNCHANGED <<stamp, principal, attempted, allocation, commission, intent, amount, indexed,
                 frozenKey, requests, clock>>

ReleaseFree(w) ==
  /\ At(w, "relFree")
  /\ FreeAllocations(Job(w))
  /\ Go(w, "relClose")
  /\ UNCHANGED <<status, stamp, principal, attempted, commission, stripe, clock>>

ReleaseClose(w) ==
  /\ At(w, "relClose")
  /\ \/ Cas(Job(w), {"release_requested"}, "released")
     \/ status[Job(w)] # "release_requested" /\ UNCHANGED status
  /\ Return(w)
  /\ UNCHANGED <<stamp, principal, attempted, allocation, commission, intent, amount, indexed,
                 frozenKey, requests, clock>>

-----------------------------------------------------------------------------
(* forceReleaseBatch: an operator frees a release that cannot finish.         *)

ForceRead(w, b) ==
  /\ At(w, "idle")
  /\ status[b] = "release_requested" /\ stamp[b] = None /\ quiet[b]
  /\ worker' = [worker EXCEPT ![w] = Process("forceSearch", b, "absent", None, "absent", None)]
  /\ UNCHANGED <<ledger, stripe, clock>>

ForceSearch(w) ==
  /\ At(w, "forceSearch")
  /\ \/ /\ \E p \in Found(Job(w)) :
             \/ status[Job(w)] = "release_requested" /\ StampRow(Job(w), p)
             \/ status[Job(w)] # "release_requested" /\ UNCHANGED <<stamp, quiet>>
        /\ Return(w)
     \/ Found(Job(w)) = {} /\ Go(w, "forceList") /\ UNCHANGED <<stamp, quiet, events>>
  /\ UNCHANGED <<status, principal, attempted, allocation, commission, intent, amount, indexed,
                 frozenKey, requests, timedOut>>

\* The customer's intents of this amount made since the batch, by list.
ForceList(w) ==
  /\ At(w, "forceList")
  /\ IF \E p \in IntentsOf(Job(w)) : ~ Dead(p) /\ amount[p] = principal[Job(w)]
       THEN Return(w)
       ELSE Go(w, "forceClose") /\ UNCHANGED events
  /\ UNCHANGED <<ledger, intent, amount, indexed, frozenKey, requests, clock>>

\* The CAS also requires the intent id to be null still.
ForceClose(w) ==
  /\ At(w, "forceClose")
  /\ \/ /\ stamp[Job(w)] = None
        /\ Cas(Job(w), {"release_requested"}, "released")
        /\ Go(w, "forceFree") /\ UNCHANGED events
     \/ /\ status[Job(w)] # "release_requested" \/ stamp[Job(w)] # None
        /\ Return(w) /\ UNCHANGED status
  /\ UNCHANGED <<stamp, principal, attempted, allocation, commission, intent, amount, indexed,
                 frozenKey, requests, clock>>

ForceFree(w) ==
  /\ At(w, "forceFree")
  /\ FreeAllocations(Job(w))
  /\ Return(w)
  /\ UNCHANGED <<status, stamp, principal, attempted, commission, intent, amount, indexed,
                 frozenKey, requests, clock>>

-----------------------------------------------------------------------------
(* The payment webhooks. An event is delivered until its handler returns.     *)

Handling(w, e, l) ==
  worker' = [worker EXCEPT ![w] =
               Process(l, e[2][1], status[e[2][1]], e[2], intent[e[2]], e)]

Available(w, e, type) == At(w, "idle") /\ e \in events /\ e[1] = type

\* The intent is retrieved with its charge; the event's payload is not used.
HookSucceeded(w, e) ==
  /\ Available(w, e, "succeeded")
  /\ \/ intent[e[2]] = "succeeded" /\ Handling(w, e, "confirm") /\ UNCHANGED events
     \/ intent[e[2]] # "succeeded" /\ events' = events \ {e} /\ UNCHANGED worker
  /\ UNCHANGED <<ledger, intent, amount, indexed, frozenKey, requests, clock>>

\* Mutant: the event's name is written as the status.
HookFailedByName(w, e) ==
  /\ Available(w, e, "payment_failed")
  /\ \/ Cas(e[2][1], {"payment_processing"}, e[1])
     \/ status[e[2][1]] # "payment_processing" /\ UNCHANGED status
  /\ events' = events \ {e}
  /\ UNCHANGED <<stamp, principal, attempted, allocation, commission, intent, amount, indexed,
                 frozenKey, requests, clock, worker>>

HookFailed(w, e) ==
  /\ Available(w, e, "payment_failed")
  /\ \/ Cas(e[2][1], {"payment_processing"}, "funding_failed")
     \/ status[e[2][1]] # "payment_processing" /\ UNCHANGED status
  /\ events' = events \ {e}
  /\ UNCHANGED <<stamp, principal, attempted, allocation, commission, intent, amount, indexed,
                 frozenKey, requests, clock, worker>>

HookCanceled(w, e) ==
  /\ Available(w, e, "canceled")
  /\ IF status[e[2][1]] \in {"reserved", "invoicing", "payment_processing", "funding_failed"}
       THEN Handling(w, e, "release") /\ UNCHANGED events
       ELSE events' = events \ {e} /\ UNCHANGED worker
  /\ UNCHANGED <<ledger, intent, amount, indexed, frozenKey, requests, clock>>

\* Mutant: a clawback is recorded only on a batch that is funded already.
ClawbackFundedOnly(b) ==
  \/ Cas(b, {"funded"}, "funding_disputed")
  \/ status[b] # "funded" /\ UNCHANGED status

\* recordFundingChargeClawback, for charge.refunded and charge.dispute.created.
Clawback(b) ==
  \/ Cas(b, {"reserved", "invoicing", "payment_processing", "funding_failed",
             "release_requested", "funded"}, "funding_disputed")
  \/ /\ status[b] \in {"absent", "released", "funding_disputed", "recovery_required"}
     /\ UNCHANGED status

HookClawback(w, e) ==
  /\ Available(w, e, "clawback")
  /\ Clawback(e[2][1])
  /\ events' = events \ {e}
  /\ UNCHANGED <<stamp, principal, attempted, allocation, commission, intent, amount, indexed,
                 frozenKey, requests, clock, worker>>

-----------------------------------------------------------------------------
(* Stripe, the brand and the clock.                                           *)

\* A create acts when it reaches Stripe: the frozen key replays the intent it
\* made, and only an expired key makes another.
StripeCreate(r) ==
  LET b == r[1] IN
  /\ r \in requests
  /\ requests' = requests \ {r}
  /\ \/ frozenKey[b] # None /\ UNCHANGED <<intent, amount, frozenKey>>
     \/ /\ frozenKey[b] = None
        /\ \E p \in IntentsOf(b), s \in {"processing", "requires_payment_method"} :
             /\ intent[p] = "absent"
             /\ intent' = [intent EXCEPT ![p] = s]
             /\ amount' = [amount EXCEPT ![p] = r[2]]
             /\ frozenKey' = [frozenKey EXCEPT ![b] = p]
  /\ UNCHANGED <<ledger, indexed, events, clock, worker>>

BankDebit(p, s, type) ==
  /\ intent[p] = "processing"
  /\ intent' = [intent EXCEPT ![p] = s]
  /\ events' = events \cup {<<type, p>>}
  /\ UNCHANGED <<ledger, amount, indexed, frozenKey, requests, clock, worker>>

DebitSucceeds(p) == BankDebit(p, "succeeded", "succeeded")
DebitFails(p) == BankDebit(p, "requires_payment_method", "payment_failed")

\* Canceled in the dashboard, or expired.
ExternalCancel(p) ==
  /\ intent[p] = "requires_payment_method"
  /\ Cancels(p)
  /\ events' = events \cup CanceledEvent(p)
  /\ UNCHANGED <<ledger, amount, indexed, frozenKey, requests, clock, worker>>

\* The brand's bank returns the charge: a refund, or a dispute of it.
ChargeReturned(p) ==
  /\ intent[p] = "succeeded"
  /\ intent' \in {intent, [intent EXCEPT ![p] = "refunded"]}
  /\ events' = events \cup {<<"clawback", p>>}
  /\ UNCHANGED <<ledger, amount, indexed, frozenKey, requests, clock, worker>>

Index(p) ==
  /\ intent[p] # "absent" /\ p \notin indexed
  /\ indexed' = indexed \cup {p}
  /\ UNCHANGED <<ledger, intent, amount, frozenKey, requests, events, clock, worker>>

LoseEvent(e) ==
  /\ e \in events /\ e[1] \in LoseEvents
  /\ events' = events \ {e}
  /\ UNCHANGED <<ledger, intent, amount, indexed, frozenKey, requests, clock, worker>>

AllIndexed(b) == \A p \in IntentsOf(b) : intent[p] # "absent" => p \in indexed

\* A worker between the read that lets it create and the end of its create.
Creating(b) ==
  \/ Sent(b)
  \/ \E w \in Workers : Job(w) = b /\ worker[w].pc \in {"search", "claim", "create", "await"}

\* Stripe keeps a key for 24 hours: longer than the search index lags and
\* longer than a pass takes from its search to the end of its create.
ExpireKey(b) ==
  /\ frozenKey[b] # None
  /\ AllIndexed(b) /\ ~ Creating(b)
  /\ frozenKey' = [frozenKey EXCEPT ![b] = None]
  /\ UNCHANGED <<ledger, intent, amount, indexed, requests, events, clock, worker>>

\* FORCE_RELEASE_QUIET_MS, an hour: longer than both again.
QuietHour(b) ==
  /\ status[b] = "release_requested" /\ ~ quiet[b]
  /\ AllIndexed(b) /\ ~ Creating(b)
  /\ quiet' = [quiet EXCEPT ![b] = TRUE]
  /\ UNCHANGED <<ledger, stripe, timedOut, worker>>

TimeOut(b) ==
  /\ status[b] # "absent" /\ ~ timedOut[b]
  /\ timedOut' = [timedOut EXCEPT ![b] = TRUE]
  /\ UNCHANGED <<ledger, stripe, quiet, worker>>

\* The process dies, or a call it makes throws.
Crash(w) ==
  /\ ~ At(w, "idle")
  /\ Throw(w)
  /\ UNCHANGED <<ledger, intent, amount, indexed, frozenKey, requests, clock>>

-----------------------------------------------------------------------------
Collect(w) ==
  \/ ClaimForCreate(w) \/ RereadInvoicing(w) \/ SearchBeforeCreate(w)
  \/ AdoptStamp(w) \/ AdoptMove(w) \/ AdoptRetrieve(w) \/ Poll(w)
  \/ RetryRetrieve(w) \/ RetryMovePaid(w) \/ RetryConfirm(w) \/ RetryRecord(w)
  \/ SendCreate(w) \/ CreateReturns(w) \/ CreateFails(w) \/ StampCreated(w) \/ MoveCreated(w)
  \/ RecordFailedIntent(w) \/ MoveCreateFailed(w)
  \/ AbandonOrphan(w) \/ OrphanStamp(w) \/ OrphanReclaim(w) \/ OrphanFreeze(w)

ConfirmStep(w) ==
  \E rel \in BOOLEAN : Confirm(w, rel) \/ ConfirmWins(w, rel) \/ ConfirmLoses(w, rel)

Release(w) ==
  \/ ReleaseClaim(w) \/ ReleaseSearch(w) \/ ReleaseStamp(w) \/ ReleaseRetrieve(w)
  \/ ReleaseCancel(w) \/ ReleaseFreeze(w)
  \/ ReleaseFree(w) \/ ReleaseClose(w)

ForceRelease(w) == ForceSearch(w) \/ ForceList(w) \/ ForceClose(w) \/ ForceFree(w)

Hook(w) ==
  \E e \in events : HookSucceeded(w, e) \/ HookFailed(w, e) \/ HookCanceled(w, e)
                    \/ HookClawback(w, e)

\* A worker in the middle of a function takes its next step.
Step(w) == Collect(w) \/ ConfirmStep(w) \/ Release(w) \/ ForceRelease(w)

Reversal(c) ==
  ReverseFree(c) \/ \E b \in Batches : ReverseReserved(b, c) \/ ReverseInFlight(b, c)

Bank(p) ==
  DebitSucceeds(p) \/ DebitFails(p) \/ ExternalCancel(p) \/ ChargeReturned(p) \/ Index(p)

Tick(b) == TimeOut(b) \/ QuietHour(b) \/ ExpireKey(b)

Running ==
  \/ \E b \in Batches : Reserve(b)
  \/ \E c \in Commissions : Reversal(c)
  \/ \E w \in Collectors, b \in Batches : Scan(w, b)
  \/ \E w \in Hooks : Hook(w)
  \/ \E w \in Operators, b \in Batches : ForceRead(w, b)
  \/ \E w \in Workers : Step(w)
  \/ \E r \in requests : StripeCreate(r)
  \/ \E p \in PaymentIntents : Bank(p)
  \/ \E e \in events : LoseEvent(e)
  \/ \E b \in Batches : Tick(b)

Failing == \E w \in Workers : ReleaseCallFails(w) \/ Crash(w)

Next == Running \/ Failing

Spec == Init /\ [][Next]_vars

\* The scheduler starts a pass over every collecting batch at each interval, a
\* pass runs to its end, Stripe acts on what it was sent and indexes it, a bank
\* decides a debit, and in the end processes stop dying and calls stop failing.
\* No webhook has to arrive.
Fairness ==
  /\ \A w \in Collectors : WF_vars(Step(w)) /\ \A b \in Batches : SF_vars(Scan(w, b))
  /\ \A p \in PaymentIntents : WF_vars(Index(p)) /\ WF_vars(DebitSucceeds(p) \/ DebitFails(p))
  /\ WF_vars(\E r \in requests : StripeCreate(r))
  /\ <>[][Running]_vars

FairSpec == Spec /\ Fairness

-----------------------------------------------------------------------------
(* Safety.                                                                    *)

\* A batch that closed as released, and so gave its commissions back to the
\* planner, has no PaymentIntent that can still debit the brand or already
\* did, and a create still on its way only replays a dead one (release.ts:
\* the order of operations; collect.ts: the status-predicated stamp).
ReleasedIsDead ==
  \A b \in Batches : status[b] = "released" =>
    /\ \A p \in IntentsOf(b) : Dead(p)
    /\ Sent(b) => frozenKey[b] # None

\* Whatever is retried, adopted or created again after a lost response, the
\* brand never has two PaymentIntents for one batch (collect.ts: never a second
\* blind create).
OneDebitPerBatch ==
  \A b \in Batches : \A p, q \in IntentsOf(b) : intent[p] # "absent" /\ intent[q] # "absent" => p = q

\* The commissions of a batch its debit pays for: all it holds, those whose
\* allocation a reversal canceled after the amount was frozen included.
Held(b) == {c \in Commissions : allocation[b][c] \in {"reserved", "canceled"}}

\* No commission is paid for by the debits of two batches: batches succeed
\* each other for the same commissions only when the earlier debit is dead.
ChargedOnce ==
  \A p, q \in PaymentIntents :
    p[1] # q[1] /\ ~ Dead(p) /\ ~ Dead(q) => amount[p] \cap amount[q] = {}

\* A batch is funded by the intent on its row, which is paid, of exactly its
\* principal, and every commission of the principal is still held by the
\* batch: money that arrived never finds its commissions given away.
FundedIsWhole ==
  \A b \in Batches : status[b] = "funded" =>
    /\ stamp[b] # None /\ Paid(stamp[b])
    /\ amount[stamp[b]] = principal[b]
    /\ principal[b] = Held(b)

\* A debit that happened or can still happen is of commissions its batch
\* holds, and of no fewer than it holds unless the batch is frozen for a human:
\* the interlock shrinks a batch only before the amount is frozen, and nobody
\* gives the commissions of a live debit to another batch.
DebitMatchesLedger ==
  \A p \in PaymentIntents : ~ Dead(p) =>
    /\ amount[p] \subseteq Held(p[1])
    /\ status[p[1]] \notin {"recovery_required", "funding_disputed"} => Held(p[1]) \subseteq amount[p]

\* Once Stripe has nothing more to say of a refunded charge, its batch is not
\* funded: a clawback is recorded in whatever state it finds the batch, and
\* the confirmation it overtakes does not fund the batch after it.
ClawbackHolds ==
  \A p \in PaymentIntents :
    intent[p] = "refunded" /\ <<"clawback", p>> \notin events => status[p[1]] # "funded"

\* Freeing the commissions of a batch that reached Stripe waits for its
\* intents to be dead; a batch closes before it is freed only by force.
FreedOnlyWhenDead ==
  [][\A b \in Batches :
       (\E c \in Commissions : Live(b, c) /\ allocation'[b][c] = "released")
         => \A p \in IntentsOf(b) : Dead(p)]_vars

-----------------------------------------------------------------------------
(* The abstract specification.                                                *)

\* How far the charge of a batch has come: what its PaymentIntents say, and
\* without one that is paid or canceled, whether the batch still has all of its
\* principal. A batch that gave a part of it back never charges.
Stage(b) ==
  LET seen == {intent[<<b, s>>] : s \in Slots}
  IN  IF "succeeded" \in seen THEN "charged"
      ELSE IF "refunded" \in seen THEN "returned"
      ELSE IF "canceled" \in seen \/ status[b] = "released" \/ ~ principal[b] \subseteq Held(b)
        THEN "never"
      ELSE IF seen \subseteq {"absent"} THEN IF status[b] = "absent" THEN "none" ELSE "due"
      ELSE "asked"

\* What a batch has, what its bank was asked for, and what became of it.
Covers(b) == IF Stage(b) = "never" THEN {} ELSE principal[b] \cap Held(b)
Price(b) == UNION {amount[<<b, s>>] : s \in Slots}
Outcome(b) ==
  IF status[b] = "funded" THEN "funded"
  ELSE IF status[b] \in {"recovery_required", "funding_disputed"} THEN "frozen" ELSE "open"

\* The brand is charged for a batch at most once, for an amount frozen when it
\* is asked, of commissions no other batch has; the batch keeps them from then
\* on, and gives them back only if the charge can never happen; it is funded
\* when all of them are there (reserve.ts, collect.ts, confirm.ts, release.ts).
Charge == INSTANCE BatchCharge WITH
  stage <- [b \in Batches |-> Stage(b)],
  covers <- [b \in Batches |-> Covers(b)],
  price <- [b \in Batches |-> Price(b)],
  outcome <- [b \in Batches |-> Outcome(b)]
ImplementsCharge == Charge!Spec

-----------------------------------------------------------------------------
(* Liveness, under FairSpec.                                                  *)

\* A debit that succeeded is noticed without its webhook: the collector's poll,
\* adoption and release paths all end in a funded batch or one a human holds.
PaymentIsNoticed ==
  \A b \in Batches :
    (status[b] \in {"invoicing", "payment_processing", "funding_failed", "release_requested"}
       /\ \E p \in IntentsOf(b) : intent[p] = "succeeded")
    ~> status[b] \in {"funded", "funding_disputed", "recovery_required"}

\* A release of a batch with an intent on its row ends, whichever way the race
\* with the payment goes.
ReleaseEnds ==
  \A b \in Batches :
    (status[b] = "release_requested" /\ stamp[b] # None)
    ~> status[b] \in {"released", "funded", "funding_disputed", "recovery_required"}

\* "Global timeout: a batch that hasn't funded within the window releases"
\* (collect.ts), of a batch that a PaymentIntent was created for.
TimeoutReleases ==
  \A b \in Batches :
    (timedOut[b] /\ \E p \in IntentsOf(b) : intent[p] # "absent")
    ~> status[b] \in {"released", "funded", "funding_disputed", "recovery_required"}
=============================================================================
