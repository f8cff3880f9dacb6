---------------------------- MODULE DirectTransfers ----------------------------
(***************************************************************************)
(* The direct Connect rail for one partner and one currency: the planner   *)
(* of apps/api/src/payouts.ts, which freezes approved commissions, less    *)
(* the refund clawbacks the partner owes (clawback-netting.ts), into a     *)
(* Payout; the executor and the operator functions of payout-transfers.ts, *)
(* which move the money; the transfer events of routes/stripe-webhook.ts;  *)
(* and refunds (refunds.ts), which cut a commission or claw it back.       *)
(*                                                                         *)
(* An executor is a program counter over the statements and Stripe calls   *)
(* of advanceIntent. The write that claims an attempt and the POST it      *)
(* allows are one step: a POST that has not been sent yet is a request     *)
(* that has not arrived. A commission is worth a number of units; an       *)
(* amount of money is the set of units it adds up.                         *)
(***************************************************************************)
EXTENDS Integers, FiniteSets, NoValue

CONSTANTS
  Lines,          \* conversions, each with one live commission
  Worth,          \* units of money in a commission when it accrues
  MaxPayouts,     \* bound: payouts ever planned
  Executors,      \* passes of executePayoutTransfers at the same time
  Operators,      \* recovery requests applied at the same time
  MaxGeneration,  \* bound: key generations an operator may hand out
  MaxTransfers,   \* bound: transfers Stripe may make for one payout
  MaxForeign,     \* bound: transfers that others put in a payout's group
  Truthful,       \* is it true that no POST is to come when an operator says so?
  DoorRefusals,   \* may Stripe turn a request away without looking at its key?
  StaleUpdates,   \* may transfer.updated be delivered after a later reversal?
  RefundParted,   \* may a refund reach a failed payout the partner still holds?
  Owed

Units == Lines \X (1..Worth)
Payouts == 1..MaxPayouts
Generations == 0..MaxGeneration
Transfers == Payouts \X (1..MaxTransfers)
Keys == Payouts \X Generations
Workers == Executors \cup Operators
Returned == {"none", "part", "full"}

ASSUME DirectAssumption ==
  /\ None \notin Payouts \cup Transfers \cup Workers /\ Owed \notin Payouts \cup {None}
  /\ Refused \notin Transfers \cup {None}
  /\ {Worth, MaxPayouts, MaxGeneration, MaxTransfers, MaxForeign} \subseteq Nat
  /\ {Truthful, DoorRefusals, StaleUpdates, RefundParted} \subseteq BOOLEAN
  /\ IsFiniteSet(Lines)
  /\ Executors \cap Operators = {}

VARIABLES
  \* The commission ledger (Commission, CommissionAdjustment, refund Events).
  status,       \* status of the live Commission of each line
  worth,        \* the units those commissions are worth
  refunded,     \* units of revenue refunded so far
  claim,        \* Commission.payoutId
  clawback,     \* a unit's refund_clawback: None, Owed, or its appliedPayoutId
  \* Payout and its metadata.
  state,        \* transferState; "none" where there is no row
  payout,       \* Payout.status
  generation,   \* keyGeneration
  postedAt,     \* how old postedAt is, against the idempotency window
  frozen,       \* the units claimed when it was planned,
  netted,       \* and those deducted; amountMinor is the difference
  recorded,     \* stripeTransferId
  \* Stripe.
  made,         \* transfers that exist, in the payout's transfer_group
  stamped,      \* their key generation (openpartner_key_generation)
  foreign,      \* those that do not match the frozen intent
  back,         \* how much of each was reversed
  kept,         \* the outcome Stripe replays for a key
  requests,     \* POSTs on their way, and the process that waits for each
  events,       \* transfer events being delivered: transfer, and reversed so far
  \* The processes.
  worker

ledger == <<status, worth, refunded, claim, clawback>>
intents == <<state, payout, generation, postedAt, frozen, netted, recorded>>
stripe == <<made, stamped, foreign, back, kept, requests, events>>
vars == <<ledger, intents, stripe, worker>>

Open == {"intent", "posted", "reconcile_required"}
States == Open \cup {"none", "manual", "confirmed", "duplicate_review", "canceled"}
Ages == {"null", "fresh", "old"}

Labels == {"idle", "check", "cancel", "stamp", "retry", "stale", "list", "park", "await", "retrieve",
           "record", "recordBack", "rearmList", "rearm", "disposeList", "dispose", "resolveList", "keep", "close"}

Processes == [pc : Labels,                              \* next statement or call
              who : Payouts \cup {None},                \* the payout in hand
              gen : Generations,                        \* its keyGeneration, as read
              xfer : Transfers \cup {None, Refused},    \* the transfer in hand
              cur : BOOLEAN]                            \* is the leaseAt, or the review nonce, it read on the row?

Resting == [pc |-> "idle", who |-> None, gen |-> 0, xfer |-> None, cur |-> FALSE]

TypeOK ==
  /\ status \in [Lines -> {"accrued", "approved", "reversed", "paid"}]
  /\ worth \in SUBSET Units /\ refunded \in SUBSET Units
  /\ claim \in [Lines -> Payouts \cup {None}]
  /\ clawback \in [Units -> Payouts \cup {None, Owed}]
  /\ state \in [Payouts -> States]
  /\ payout \in [Payouts -> {"pending", "paid", "failed"}]
  /\ generation \in [Payouts -> Generations]
  /\ postedAt \in [Payouts -> Ages]
  /\ frozen \in [Payouts -> SUBSET Units] /\ netted \in [Payouts -> SUBSET Units]
  /\ recorded \in [Payouts -> Transfers \cup {None}]
  /\ made \in SUBSET Transfers /\ foreign \in SUBSET made
  /\ stamped \in [Transfers -> Generations]
  /\ back \in [Transfers -> Returned]
  /\ kept \in [Keys -> Transfers \cup {None, Refused}]
  /\ requests \in SUBSET (Keys \X (Executors \cup {None}))
  /\ events \in SUBSET (Transfers \X Returned)
  /\ worker \in [Workers -> Processes]

Init ==
  /\ status = [c \in Lines |-> "accrued"]
  /\ worth = Units /\ refunded = {}
  /\ claim = [c \in Lines |-> None]
  /\ clawback = [u \in Units |-> None]
  /\ state = [p \in Payouts |-> "none"]
  /\ payout = [p \in Payouts |-> "pending"]
  /\ generation = [p \in Payouts |-> 0]
  /\ postedAt = [p \in Payouts |-> "null"]
  /\ frozen = [p \in Payouts |-> {}]
  /\ netted = [p \in Payouts |-> {}]
  /\ recorded = [p \in Payouts |-> None]
  /\ made = {} /\ foreign = {}
  /\ stamped = [t \in Transfers |-> 0]
  /\ back = [t \in Transfers |-> "none"]
  /\ kept = [k \in Keys |-> None]
  /\ requests = {} /\ events = {}
  /\ worker = [w \in Workers |-> Resting]

-----------------------------------------------------------------------------
(* Vocabulary.                                                                *)

At(w, l) == worker[w].pc = l
Who(w) == worker[w].who
Go(w, l) == worker' = [worker EXCEPT ![w].pc = l]
GoWith(w, l, t) == worker' = [worker EXCEPT ![w].pc = l, ![w].xfer = t]
Rest(w) == worker' = [worker EXCEPT ![w] = Resting]

\* A process reads the row of payout p.
Reads(w, p, l) ==
  worker' = [worker EXCEPT ![w] = [pc |-> l, who |-> p, gen |-> generation[p], xfer |-> None, cur |-> TRUE]]

\* A fresh leaseAt, or a fresh review nonce: what the others read is outdated.
Outdate(S, p, W) == [v \in Workers |-> IF v \in S /\ W[v].who = p THEN [W[v] EXCEPT !.cur = FALSE] ELSE W[v]]

\* listTransferGroup: membership is the transfer_group alone.
Group(p) == {t \in made : t[1] = p}
Whole(t) == back[t] = "none"
Gone(t) == back[t] = "full"

\* The state and epoch predicates of casTransferState.
Ours(w, from) == state[Who(w)] \in from /\ generation[Who(w)] = worker[w].gen

Claimed(p) == {c \in Lines : claim[c] = p}
UnitsOf(S) == {u \in worth : u[1] \in S}
Applied(p) == {u \in Units : clawback[u] = p}

-----------------------------------------------------------------------------
(* The planner, one transaction under the tenant's payout lock.               *)

Unclaimed == {c \in Lines : status[c] = "approved" /\ claim[c] = None}
Outstanding == {u \in Units : clawback[u] = Owed}

\* Owing at least what is due carries over to a later run.
Payable == Cardinality(UnitsOf(Unclaimed)) > Cardinality(Outstanding)

\* The new Payout row, and the claims and stamps that freeze its amount.
Freezes(p) ==
  /\ state[p] = "none" /\ \A q \in 1..(p - 1) : state[q] # "none"
  /\ Payable
  /\ frozen' = [frozen EXCEPT ![p] = UnitsOf(Unclaimed)]
  /\ netted' = [netted EXCEPT ![p] = Outstanding]
  /\ claim' = [c \in Lines |-> IF c \in Unclaimed THEN p ELSE claim[c]]
  /\ clawback' = [u \in Units |-> IF u \in Outstanding THEN p ELSE clawback[u]]

Plan(p) ==
  /\ Freezes(p)
  /\ state' = [state EXCEPT ![p] = "intent"]
  /\ UNCHANGED <<status, worth, refunded, payout, generation, postedAt, recorded, stripe, worker>>

\* The same on the manual rail, where planning is terminal.
PlanManual(p) ==
  /\ Freezes(p)
  /\ state' = [state EXCEPT ![p] = "manual"]
  /\ status' = [c \in Lines |-> IF c \in Unclaimed THEN "paid" ELSE status[c]]
  /\ UNCHANGED <<worth, refunded, payout, generation, postedAt, recorded, stripe, worker>>

\* Mutant: the netted clawbacks stay stamped with a dead payout.
ReleaseCommissionsOnly(p) ==
  /\ claim' = [c \in Lines |-> IF claim[c] = p /\ status[c] # "paid" THEN None ELSE claim[c]]
  /\ UNCHANGED clawback

\* releaseClaims: paid rows keep their link; the clawbacks are owed again.
ReleaseClaims(p) ==
  /\ claim' = [c \in Lines |-> IF claim[c] = p /\ status[c] # "paid" THEN None ELSE claim[c]]
  /\ clawback' = [u \in Units |-> IF clawback[u] = p THEN Owed ELSE clawback[u]]

\* A compare-and-set to canceled, and what it releases, in one transaction.
Abandon(p, won) ==
  IF won
  THEN /\ state' = [state EXCEPT ![p] = "canceled"]
       /\ payout' = [payout EXCEPT ![p] = "failed"]
       /\ ReleaseClaims(p)
  ELSE UNCHANGED <<state, payout, claim, clawback>>

-----------------------------------------------------------------------------
(* A pass: the intents one by one, each read some time before it is advanced. *)

Take(w, p) ==
  /\ At(w, "idle") /\ state[p] \in Open
  /\ Reads(w, p, CASE state[p] = "intent" -> "check"
                   [] state[p] = "reconcile_required" -> "list"
                   [] state[p] = "posted" /\ postedAt[p] = "old" -> "stale"
                   [] OTHER -> "retry")
  /\ UNCHANGED <<ledger, intents, stripe>>

\* preflight: an account that is not ready or a compliance hold may always
\* abandon the intent, a changed set or amount must.
Unchanged(p) ==
  /\ Claimed(p) # {} /\ \A c \in Claimed(p) : status[c] = "approved"
  /\ Cardinality(UnitsOf(Claimed(p))) - Cardinality(Applied(p)) = Cardinality(frozen[p]) - Cardinality(netted[p])

Preflight(w) ==
  /\ At(w, "check")
  /\ Go(w, "cancel") \/ (Unchanged(Who(w)) /\ Go(w, "stamp"))
  /\ UNCHANGED <<ledger, intents, stripe>>

\* cancelIntent, fenced on the state alone.
CancelIntent(w) ==
  /\ At(w, "cancel")
  /\ Abandon(Who(w), state[Who(w)] = "intent")
  /\ Rest(w)
  /\ UNCHANGED <<status, worth, refunded, generation, postedAt, frozen, netted, recorded, stripe>>

\* postTransfer, under the generation of the row that the write returned.
Posts(w, g) ==
  /\ requests' = requests \cup {<<<<Who(w), g>>, w>>}
  /\ worker' = Outdate(Executors, Who(w), [worker EXCEPT ![w].pc = "await", ![w].gen = g])
  /\ UNCHANGED <<made, stamped, foreign, back, kept, events>>

FirstPost(w) ==
  /\ At(w, "stamp")
  /\ IF Ours(w, {"intent"})
     THEN /\ state' = [state EXCEPT ![Who(w)] = "posted"]
          /\ postedAt' = [postedAt EXCEPT ![Who(w)] = "fresh"]
          /\ Posts(w, worker[w].gen)
     ELSE Rest(w) /\ UNCHANGED <<state, postedAt, stripe>>
  /\ UNCHANGED <<ledger, payout, generation, frozen, netted, recorded>>

\* leaseRetry swaps the leaseAt that was read; a compliance hold skips it.
RetryPost(w) ==
  /\ At(w, "retry")
  /\ \/ /\ state[Who(w)] = "posted" /\ worker[w].cur
        /\ Posts(w, generation[Who(w)])
     \/ Rest(w) /\ UNCHANGED stripe
  /\ UNCHANGED <<ledger, intents>>

\* The key may have been pruned; fenced on the postedAt that was read, of which
\* each generation has one.
Expire(w) ==
  /\ At(w, "stale")
  /\ IF Ours(w, {"posted"})
     THEN state' = [state EXCEPT ![Who(w)] = "reconcile_required"] /\ Go(w, "list")
     ELSE Rest(w) /\ UNCHANGED state
  /\ UNCHANGED <<ledger, payout, generation, postedAt, frozen, netted, recorded, stripe>>

\* failIntent, on an error that isDefiniteStripeError calls definite.
FailIntent(w) ==
  /\ At(w, "await") /\ worker[w].xfer = Refused
  /\ Abandon(Who(w), Ours(w, {"posted", "intent"}))
  /\ Rest(w)
  /\ UNCHANGED <<status, worth, refunded, generation, postedAt, frozen, netted, recorded, stripe>>

\* Whatever this process was waiting for, nobody waits for it now.
Forsake(w) == requests' = {r \in requests : r[2] # w} \cup {<<r[1], None>> : r \in {q \in requests : q[2] = w}}

\* Mutant: an ambiguous error fails the intent, as it did before the rail was split.
PostAmbiguousFails(w) ==
  /\ At(w, "await")
  /\ Forsake(w)
  /\ Abandon(Who(w), Ours(w, {"posted", "intent"}))
  /\ Rest(w)
  /\ UNCHANGED <<status, worth, refunded, generation, postedAt, frozen, netted, recorded,
                 made, stamped, foreign, back, kept, events>>

\* A timeout, a lost response, a 409 or a 429: the intent stays posted.
PostAmbiguous(w) ==
  /\ At(w, "await")
  /\ Forsake(w)
  /\ Rest(w)
  /\ UNCHANGED <<ledger, intents, made, stamped, foreign, back, kept, events>>

PostReturns(w) ==
  /\ At(w, "await") /\ worker[w].xfer \in Transfers
  /\ Go(w, "retrieve")
  /\ UNCHANGED <<ledger, intents, stripe>>

-----------------------------------------------------------------------------
(* finalizeTransfer: re-read the transfer, then write the ledger.              *)

Retrieve(w) ==
  /\ At(w, "retrieve")
  /\ Go(w, IF Whole(worker[w].xfer) THEN "record" ELSE "recordBack")
  /\ UNCHANGED <<ledger, intents, stripe>>

\* The payout and its commissions become paid in one transaction.
Pays(p, t) ==
  /\ state' = [state EXCEPT ![p] = "confirmed"]
  /\ payout' = [payout EXCEPT ![p] = "paid"]
  /\ recorded' = [recorded EXCEPT ![p] = t]
  /\ status' = [c \in Lines |-> IF claim[c] = p /\ status[c] = "approved" THEN "paid" ELSE status[c]]

Record(w) ==
  /\ At(w, "record")
  /\ IF Ours(w, {"posted", "reconcile_required"})
     THEN Pays(Who(w), worker[w].xfer)
     ELSE UNCHANGED <<state, payout, recorded, status>>
  /\ Rest(w)
  /\ UNCHANGED <<worth, refunded, claim, clawback, generation, postedAt, frozen, netted, stripe>>

\* A transfer that came back closes the intent; its commissions stay claimed.
Fails(p, t) ==
  /\ state' = [state EXCEPT ![p] = "confirmed"]
  /\ payout' = [payout EXCEPT ![p] = "failed"]
  /\ recorded' = [recorded EXCEPT ![p] = t]

RecordBack(w) ==
  /\ At(w, "recordBack")
  /\ IF Ours(w, {"posted", "reconcile_required"})
     THEN Fails(Who(w), worker[w].xfer)
     ELSE UNCHANGED <<state, payout, recorded>>
  /\ Rest(w)
  /\ UNCHANGED <<ledger, generation, postedAt, frozen, netted, stripe>>

-----------------------------------------------------------------------------
(* reconcileIntent.                                                           *)

\* Mutant: an empty listing is taken for proof, and a fresh key handed out.
ListRearms(w) ==
  /\ At(w, "list") /\ Group(Who(w)) = {}
  /\ IF Ours(w, {"reconcile_required"}) /\ worker[w].gen < MaxGeneration
     THEN /\ state' = [state EXCEPT ![Who(w)] = "intent"]
          /\ generation' = [generation EXCEPT ![Who(w)] = @ + 1]
     ELSE UNCHANGED <<state, generation>>
  /\ Rest(w)
  /\ UNCHANGED <<ledger, payout, postedAt, frozen, netted, recorded, stripe>>

\* Nothing found: the intent is held, and only its leaseAt moves.
ListNothing(w) ==
  /\ At(w, "list") /\ Group(Who(w)) = {}
  /\ worker' = [IF Ours(w, {"reconcile_required"}) THEN Outdate(Executors, Who(w), worker) ELSE worker
                EXCEPT ![w] = Resting]
  /\ UNCHANGED <<ledger, intents, stripe>>

\* The one transfer of the group, of this epoch and matching the frozen intent,
\* is finalized; anything else is parked for a human.
ListFound(w) ==
  /\ At(w, "list") /\ Group(Who(w)) # {}
  /\ LET own(t) == Group(Who(w)) = {t} /\ stamped[t] = worker[w].gen /\ t \notin foreign
     IN \/ \E t \in Group(Who(w)) : own(t) /\ GoWith(w, "retrieve", t)
        \/ (\A t \in Group(Who(w)) : ~ own(t)) /\ Go(w, "park")
  /\ UNCHANGED <<ledger, intents, stripe>>

Park(w) ==
  /\ At(w, "park")
  /\ IF Ours(w, {"posted", "reconcile_required"})
     THEN /\ state' = [state EXCEPT ![Who(w)] = "duplicate_review"]
          /\ payout' = [payout EXCEPT ![Who(w)] = "failed"]
     ELSE UNCHANGED <<state, payout>>
  /\ Rest(w)
  /\ UNCHANGED <<ledger, generation, postedAt, frozen, netted, recorded, stripe>>

\* A call to Stripe that fails, wherever one is made: the next pass looks again.
CannotVerify(w) ==
  /\ worker[w].pc \in {"list", "retrieve", "rearmList", "disposeList", "resolveList"}
  /\ Rest(w)
  /\ UNCHANGED <<ledger, intents, stripe>>

-----------------------------------------------------------------------------
(* The operator functions. An operator who says that no transfer exists says  *)
(* also that no POST is still to come: a listing cannot tell.                 *)

NoneToCome(p) == \A r \in requests : r[1][1] # p
Asserts(p) == Truthful => NoneToCome(p)

RearmRead(o, p) ==
  /\ At(o, "idle") /\ state[p] = "reconcile_required"
  /\ Asserts(p)
  /\ Reads(o, p, "rearmList")
  /\ UNCHANGED <<ledger, intents, stripe>>

RearmList(o) ==
  /\ At(o, "rearmList")
  /\ IF Group(Who(o)) = {} THEN Go(o, "rearm") ELSE Rest(o)
  /\ UNCHANGED <<ledger, intents, stripe>>

Rearm(o) ==
  /\ At(o, "rearm") /\ worker[o].gen < MaxGeneration
  /\ IF Ours(o, {"reconcile_required"})
     THEN /\ state' = [state EXCEPT ![Who(o)] = "intent"]
          /\ payout' = [payout EXCEPT ![Who(o)] = "pending"]
          /\ generation' = [generation EXCEPT ![Who(o)] = @ + 1]
          /\ postedAt' = [postedAt EXCEPT ![Who(o)] = "null"]
     ELSE UNCHANGED <<state, payout, generation, postedAt>>
  /\ Rest(o)
  /\ UNCHANGED <<ledger, frozen, netted, recorded, stripe>>

DisposeRead(o, p) ==
  /\ At(o, "idle") /\ state[p] \in {"reconcile_required", "confirmed"}
  /\ Asserts(p)
  /\ Reads(o, p, "disposeList")
  /\ UNCHANGED <<ledger, intents, stripe>>

\* Mutant: only the transfer stamped on the payout is verified.
DisposeStamped(o) ==
  /\ At(o, "disposeList")
  /\ IF recorded[Who(o)] \in Transfers => Gone(recorded[Who(o)]) THEN Go(o, "dispose") ELSE Rest(o)
  /\ UNCHANGED <<ledger, intents, stripe>>

\* Every transfer of the group is fully reversed, the stamped one among them.
DisposeList(o) ==
  /\ At(o, "disposeList")
  /\ IF \A t \in Group(Who(o)) : Gone(t) THEN Go(o, "dispose") ELSE Rest(o)
  /\ UNCHANGED <<ledger, intents, stripe>>

\* Fenced on the state and on the payout not being paid.
Dispose(o) ==
  /\ At(o, "dispose")
  /\ Abandon(Who(o), state[Who(o)] \in {"reconcile_required", "confirmed"} /\ payout[Who(o)] # "paid")
  /\ Rest(o)
  /\ UNCHANGED <<status, worth, refunded, generation, postedAt, frozen, netted, recorded, stripe>>

ResolveRead(o, p) ==
  /\ At(o, "idle") /\ state[p] = "duplicate_review"
  /\ Reads(o, p, "resolveList")
  /\ UNCHANGED <<ledger, intents, stripe>>

\* Kept: whole, the payment that was frozen, and alone; or all are reversed.
ResolveList(o) ==
  /\ At(o, "resolveList")
  /\ \/ \E t \in Group(Who(o)) \ foreign :
          /\ Whole(t) /\ \A s \in Group(Who(o)) \ {t} : Gone(s)
          /\ GoWith(o, "keep", t)
     \/ /\ \A t \in Group(Who(o)) : Gone(t)
        /\ Asserts(Who(o))
        /\ Go(o, "close")
     \/ Rest(o)
  /\ UNCHANGED <<ledger, intents, stripe>>

\* Mutant: the commit is not fenced on the review nonce.
KeepUnfenced(o) ==
  /\ At(o, "keep")
  /\ IF state[Who(o)] = "duplicate_review"
     THEN Pays(Who(o), worker[o].xfer)
     ELSE UNCHANGED <<state, payout, recorded, status>>
  /\ Rest(o)
  /\ UNCHANGED <<worth, refunded, claim, clawback, generation, postedAt, frozen, netted, stripe>>

Keep(o) ==
  /\ At(o, "keep")
  /\ IF state[Who(o)] = "duplicate_review" /\ worker[o].cur
     THEN Pays(Who(o), worker[o].xfer)
     ELSE UNCHANGED <<state, payout, recorded, status>>
  /\ Rest(o)
  /\ UNCHANGED <<worth, refunded, claim, clawback, generation, postedAt, frozen, netted, stripe>>

CloseReversed(o) ==
  /\ At(o, "close")
  /\ Abandon(Who(o), state[Who(o)] = "duplicate_review" /\ worker[o].cur)
  /\ Rest(o)
  /\ UNCHANGED <<status, worth, refunded, generation, postedAt, frozen, netted, recorded, stripe>>

-----------------------------------------------------------------------------
(* transfer.updated and transfer.reversed, under a lock on the payout. They   *)
(* are not deduplicated: an event may be delivered again, or late.            *)

\* Mutant: the status is the name of the event.
HookNamed(p, b) == payout' = [payout EXCEPT ![p] = IF b = "none" THEN "paid" ELSE "reversed"]

\* What the event means for the payout that recorded this transfer: a partial
\* reversal never overwrites the status.
HookRecorded(p, b) == payout' = [payout EXCEPT ![p] = IF b = "full" THEN "failed" ELSE IF b = "none" THEN "paid" ELSE @]

\* A reversal before finalization: the intent is closed as failed.
BeforeFinalize(p, t, b) ==
  b = "full" /\ recorded[p] = None /\ state[p] \in {"posted", "reconcile_required"} /\ stamped[t] = generation[p]

\* Mutant: without the match by metadata, the reversal goes by unmatched.
HookUnmatched(e) ==
  LET t == e[1]  b == e[2]  p == t[1]
  IN /\ e \in events
     /\ b = "none" => StaleUpdates \/ Whole(t)
     /\ IF recorded[p] = t THEN HookRecorded(p, b) ELSE UNCHANGED payout
     /\ worker' = IF recorded[p] # t /\ b # "none" /\ state[p] = "duplicate_review"
                  THEN Outdate(Operators, p, worker) ELSE worker
     /\ events' \in {events, events \ {e}}
     /\ UNCHANGED <<ledger, state, generation, postedAt, frozen, netted, recorded, made, stamped, foreign, back, kept, requests>>

Hook(e) ==
  LET t == e[1]  b == e[2]  p == t[1]
  IN /\ e \in events
     /\ b = "none" => StaleUpdates \/ Whole(t)
     /\ CASE recorded[p] = t -> HookRecorded(p, b) /\ UNCHANGED <<state, recorded>>
          [] recorded[p] # t /\ BeforeFinalize(p, t, b) -> Fails(p, t)
          [] OTHER -> UNCHANGED <<state, payout, recorded>>
     /\ worker' = IF recorded[p] # t /\ b # "none" /\ state[p] = "duplicate_review"
                  THEN Outdate(Operators, p, worker) ELSE worker
     /\ events' \in {events, events \ {e}}
     /\ UNCHANGED <<ledger, generation, postedAt, frozen, netted, made, stamped, foreign, back, kept, requests>>

-----------------------------------------------------------------------------
(* The ledger: approval, and a refund of the first n units of a conversion.   *)

Approve(c) ==
  /\ status[c] = "accrued"
  /\ status' = [status EXCEPT ![c] = "approved"]
  /\ UNCHANGED <<worth, refunded, claim, clawback, intents, stripe, worker>>

\* interlockCommissionReversal: anything but a closed intent holds its claims.
HeldInTransfer(c) == claim[c] # None /\ state[claim[c]] \notin {"confirmed", "canceled"}

\* The partner still has money of the failed payout that claims it.
Parted(c) == claim[c] # None /\ \E t \in Group(claim[c]) \ foreign : ~ Gone(t)

Share(c, n) == {<<c, i>> : i \in 1..n}

Refund(c, n) ==
  LET cut == Share(c, n) \cap worth
      owed == {u \in cut : clawback[u] = None}
  IN /\ refunded' = refunded \cup Share(c, n)
     /\ IF status[c] = "paid"
        THEN /\ clawback' = [u \in Units |-> IF u \in owed THEN Owed ELSE clawback[u]]
             /\ UNCHANGED <<status, worth, claim>>
        ELSE /\ RefundParted \/ ~ Parted(c)
             /\ IF status[c] # "reversed" /\ cut # {} /\ ~ HeldInTransfer(c)
                THEN /\ worth' = worth \ cut
                     /\ claim' = [claim EXCEPT ![c] = None]
                     /\ status' = IF UnitsOf({c}) = cut THEN [status EXCEPT ![c] = "reversed"] ELSE status
                ELSE UNCHANGED <<status, worth, claim>>
             /\ UNCHANGED clawback
     /\ UNCHANGED <<intents, stripe, worker>>

-----------------------------------------------------------------------------
(* Stripe, and time.                                                          *)

\* The next id Stripe gives out for this payout, if the bound leaves one.
Unmade(p) == {t \in Transfers \ made : t[1] = p}
NextTransfer(p) == CHOOSE t \in Unmade(p) : TRUE

\* A POST is answered to the process that still waits for it.
Answer(r, x) ==
  /\ requests' = requests \ {r}
  /\ worker' = IF r[2] = None THEN worker ELSE [worker EXCEPT ![r[2]].xfer = x]

StripeReplays(r) ==
  /\ r \in requests /\ kept[r[1]] # None
  /\ Answer(r, kept[r[1]])
  /\ UNCHANGED <<ledger, intents, made, stamped, foreign, back, kept, events>>

StripeTransfers(r) ==
  LET p == r[1][1]  t == NextTransfer(p)
  IN /\ r \in requests /\ kept[r[1]] = None /\ Unmade(p) # {}
     /\ made' = made \cup {t}
     /\ stamped' = [stamped EXCEPT ![t] = r[1][2]]
     /\ kept' = [kept EXCEPT ![r[1]] = t]
     /\ Answer(r, t)
     /\ UNCHANGED <<ledger, intents, foreign, back, events>>

\* An error that isDefiniteStripeError calls definite. Stripe replays the ones it
\* executed; authentication and permissions come before the key is looked up.
StripeRefuses(r) ==
  /\ r \in requests
  /\ \/ kept[r[1]] = None /\ kept' = [kept EXCEPT ![r[1]] = Refused]
     \/ DoorRefusals /\ UNCHANGED kept
  /\ Answer(r, Refused)
  /\ UNCHANGED <<ledger, intents, made, stamped, foreign, back, events>>

Drop(r) ==
  /\ r \in requests /\ requests' = requests \ {r}
  /\ UNCHANGED <<ledger, intents, made, stamped, foreign, back, kept, events, worker>>

\* A transfer that somebody else makes in this payout's transfer_group.
OutsideTransfer(p) ==
  /\ state[p] \notin {"none", "manual"}
  /\ Cardinality(foreign) < MaxForeign /\ Unmade(p) # {}
  /\ made' = made \cup {NextTransfer(p)}
  /\ foreign' = foreign \cup {NextTransfer(p)}
  /\ UNCHANGED <<ledger, intents, stamped, back, kept, requests, events, worker>>

StripeReverses(t, b) ==
  /\ t \in made /\ b # "none" /\ ~ Gone(t) /\ back[t] # b
  /\ back' = [back EXCEPT ![t] = b]
  /\ events' = events \cup {<<t, b>>}
  /\ UNCHANGED <<ledger, intents, made, stamped, foreign, kept, requests, worker>>

\* Any edit of a transfer is a transfer.updated with what it looks like then.
Edit(t) ==
  /\ t \in made /\ Whole(t)
  /\ events' = events \cup {<<t, "none">>}
  /\ UNCHANGED <<ledger, intents, made, stamped, foreign, back, kept, requests, worker>>

WindowPasses(p) ==
  /\ postedAt[p] = "fresh"
  /\ postedAt' = [postedAt EXCEPT ![p] = "old"]
  /\ UNCHANGED <<ledger, state, payout, generation, frozen, netted, recorded, stripe, worker>>

\* Past the window and its margin, which outlasts a pass and any POST in hand.
KeyPruned(k) ==
  /\ kept[k] # None
  /\ postedAt[k[1]] = "old" \/ k[2] # generation[k[1]]
  /\ \A r \in requests : r[1] # k
  /\ \A w \in Executors : ~ (At(w, "retry") /\ Who(w) = k[1])
  /\ kept' = [kept EXCEPT ![k] = None]
  /\ UNCHANGED <<ledger, intents, made, stamped, foreign, back, requests, events, worker>>

Crash(w) ==
  /\ ~ At(w, "idle")
  /\ Forsake(w)
  /\ Rest(w)
  /\ UNCHANGED <<ledger, intents, made, stamped, foreign, back, kept, events>>

-----------------------------------------------------------------------------

Execute(w) ==
  \/ \E p \in Payouts : Take(w, p)
  \/ Preflight(w) \/ CancelIntent(w) \/ FirstPost(w) \/ RetryPost(w) \/ Expire(w)
  \/ FailIntent(w) \/ PostAmbiguous(w) \/ PostReturns(w)
  \/ Retrieve(w) \/ Record(w) \/ RecordBack(w)
  \/ ListNothing(w) \/ ListFound(w) \/ Park(w)

Operate(o) ==
  \/ \E p \in Payouts : RearmRead(o, p) \/ DisposeRead(o, p) \/ ResolveRead(o, p)
  \/ RearmList(o) \/ Rearm(o) \/ DisposeList(o) \/ Dispose(o)
  \/ ResolveList(o) \/ Keep(o) \/ CloseReversed(o)

Business ==
  \/ \E p \in Payouts : Plan(p) \/ PlanManual(p) \/ OutsideTransfer(p)
  \/ \E c \in Lines : Approve(c) \/ \E n \in 1..Worth : Refund(c, n)

Outside ==
  \/ \E r \in requests : StripeReplays(r) \/ StripeTransfers(r) \/ StripeRefuses(r) \/ Drop(r)
  \/ \E t \in made : Edit(t) \/ \E b \in Returned : StripeReverses(t, b)
  \/ \E e \in events : Hook(e)
  \/ \E p \in Payouts : WindowPasses(p)
  \/ \E k \in Keys : KeyPruned(k)

Next ==
  \/ \E w \in Executors : Execute(w)
  \/ \E o \in Operators : Operate(o)
  \/ \E w \in Workers : CannotVerify(w) \/ Crash(w)
  \/ Business
  \/ Outside

Spec == Init /\ [][Next]_vars

-----------------------------------------------------------------------------
(* Properties.                                                                *)

\* A manual payout is a payment too: the operator pays what it says.
Payments == {t \in made \ foreign : ~ Gone(t)} \cup {<<p, 0>> : p \in {q \in Payouts : state[q] = "manual"}}

\* The partner is never paid twice for one commission, or for one half of it:
\* two payments that the partner still holds never share a unit, whatever
\* timed out, was retried under another key, reversed, refunded or re-planned.
PaidOnce == \A s, t \in Payments : s # t => frozen[s[1]] \cap frozen[t[1]] = {}

\* Invariant N of the netting design: while a payout lives, or once it has
\* paid, the commissions that name it and the clawbacks stamped with it are
\* those its frozen amount was computed from; an abandoned payout keeps neither.
Lives(p) == state[p] \in Open \cup {"manual", "duplicate_review"} \/ (state[p] = "confirmed" /\ payout[p] = "paid")

BooksBalance ==
  \A p \in Payouts :
    /\ Lives(p) => UnitsOf(Claimed(p)) = frozen[p] /\ Applied(p) = netted[p]
    /\ state[p] = "canceled" => Applied(p) = {} /\ \A c \in Claimed(p) : status[c] = "paid"

\* Commissions go back into the payable pool only when Stripe holds nothing for
\* them: every transfer of the payout is reversed in full, and a POST that is
\* still to arrive would find its key used and refused.
ReleaseIsSafe ==
  [][\A p \in Payouts : state[p] # "canceled" /\ state'[p] = "canceled" =>
       /\ \A t \in Group(p) \ foreign : Gone(t)
       /\ \A r \in requests : r[1][1] = p => kept[r[1]] = Refused]_vars

\* A payout that says paid although its transfer was reversed in full is about
\* to hear of it: no order of the response, the event and the review loses it.
ReversalIsKnown ==
  \A p \in Payouts :
    state[p] = "confirmed" /\ payout[p] = "paid" /\ Gone(recorded[p]) => <<recorded[p], "full">> \in events

\* What docs/direct-connect-payouts.md says of a payout whose transfer came
\* back: its commissions are invisible to the planner until an operator decides.
UntilAnOperatorDecides ==
  \A p, q \in Payouts :
    state[p] = "confirmed" /\ payout[p] = "failed" /\ p # q /\ state[q] \in Open => frozen[p] \cap frozen[q] = {}
=============================================================================
