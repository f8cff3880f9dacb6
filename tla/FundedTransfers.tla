--------------------------- MODULE FundedTransfers ---------------------------
(***************************************************************************)
(* Paying the partners of one funded batch: the transfer intents of        *)
(* apps/api/src/funding/executor.ts, the operator's way out of an intent   *)
(* that is held or parked, the transfer half of webhook.ts, and the daily  *)
(* sweep of reversals in reconcile.ts.                                     *)
(*                                                                         *)
(* An executor is a program counter over the statements and Stripe calls   *)
(* of runTransferExecutor. Two of them are one step here only where what   *)
(* lies between reads or writes nothing that another step writes or reads  *)
(* in between, or is checked again by the second. An amount of money is    *)
(* the set of allocations it adds up.                                      *)
(***************************************************************************)
EXTENDS Integers, FiniteSets, NoValue

CONSTANTS
  Partners,       \* partners with a share of the batch
  Lines,          \* numbers of the allocations of each of them
  Executors,      \* processes running the funding-executor job
  Operators,      \* recovery requests applied at the same time
  MaxGeneration,  \* bound: key generations an operator may hand out
  MaxTransfers,   \* bound: transfers Stripe may make for one intent
  Straggle,       \* may a POST be carried out after its key was pruned?
  Margin,         \* is a key kept until a POST that was judged safe arrives?
  Truthful,       \* is it true that no transfer exists when an operator says so?
  Overlap,        \* may a resolution be applied while a pass is under way?
  MaxForeign,     \* bound: transfers that others put in the batch's group
  LoseEvents      \* may Stripe give up delivering a webhook?

Allocations == Partners \X Lines
Of(p) == {a \in Allocations : a[1] = p}
Generations == 0..MaxGeneration
Transfers == Partners \X (1..MaxTransfers)
Keys == Partners \X Generations
Workers == Executors \cup Operators

Returned == {"none", "part", "full"}
Events == ({"created"} \X Transfers \X {"none"}) \cup ({"reversed"} \X Transfers \X {"part", "full"})

ASSUME TransferAssumption ==
  /\ None \notin Partners \cup Transfers \cup Workers
  /\ Refused \notin Transfers \cup {None}
  /\ MaxGeneration \in Nat /\ MaxTransfers \in Nat /\ MaxForeign \in Nat
  /\ {Straggle, Margin, Truthful, Overlap, LoseEvents} \subseteq BOOLEAN
  /\ IsFiniteSet(Partners) /\ IsFiniteSet(Lines)
  /\ Executors \cap Operators = {}

VARIABLES
  \* The database (HostedFundingBatch, Allocation, Transfer; Commission, Payout).
  batch,        \* HostedFundingBatch.status
  residual,     \* HostedFundingBatch.residualMinor
  allocation,   \* HostedFundingAllocation.state
  commission,   \* Commission.status
  state,        \* HostedFundingTransfer.state, "none" where there is no row
  generation,   \* the generation of its idempotencyKey
  postedAt,     \* how old its postedAt is, against IDEMPOTENCY_WINDOW_MS
  frozen,       \* its amountMinor
  recorded,     \* its stripeTransferId
  payout,       \* status of the Payout of its payoutId
  fenced,       \* operators that read the reviewNonce which is still on the row
  held,         \* partners on a compliance hold
  \* Stripe.
  made,         \* transfers that exist, in the batch's transfer group
  stamped,      \* their key generation (openpartner_key_generation)
  foreign,      \* those that do not match the frozen intent
  back,         \* how much of each was reversed
  kept,         \* the outcome Stripe replays for a key
  requests,     \* POSTs on their way, and the process that waits for each
  events,       \* webhook events Stripe is still delivering
  \* The processes.
  worker

intents == <<state, generation, postedAt, frozen, recorded, payout, fenced>>
ledger  == <<batch, residual, allocation, commission>>
stripe  == <<made, stamped, foreign, back, kept, requests, events>>
vars    == <<ledger, intents, held, stripe, worker>>

States == {"none", "pending", "posted", "failed", "reconcile_required", "duplicate_review", "confirmed"}
Ages == {"null", "fresh", "old"}

Labels == {"idle", "next", "create", "withhold", "cancel", "stale", "list", "park", "adopt", "post", "await",
           "rearmList", "rearm", "resolveList", "keep", "close"}

Processes == [pc : Labels,                                  \* next statement or call
              live : SUBSET Allocations,                    \* live allocations, as read
              todo : SUBSET Partners,                       \* partners still to visit
              who : Partners \cup {None},                   \* the partner in hand
              gen : Generations,                            \* key generation of its intent, as read,
              age : Ages,                                   \* and its postedAt
              xfer : Transfers \cup {None, Refused}]        \* the transfer in hand

Resting == [pc |-> "idle", live |-> {}, todo |-> {}, who |-> None,
            gen |-> 0, age |-> "null", xfer |-> None]

TypeOK ==
  /\ batch \in {"funded", "transferring", "settled", "settled_with_residual", "funding_disputed"}
  /\ residual \in SUBSET Allocations
  /\ allocation \in [Allocations -> {"reserved", "transfer_pending", "transferred", "canceled"}]
  /\ commission \in [Allocations -> {"approved", "reversed", "paid"}]
  /\ state \in [Partners -> States]
  /\ generation \in [Partners -> Generations]
  /\ postedAt \in [Partners -> Ages]
  /\ frozen \in [Partners -> SUBSET Allocations]
  /\ recorded \in [Partners -> Transfers \cup {None}]
  /\ payout \in [Partners -> {"none", "paid", "partially_reversed", "reversed"}]
  /\ fenced \in SUBSET Operators
  /\ held \in SUBSET Partners
  /\ made \in SUBSET Transfers
  /\ stamped \in [Transfers -> Generations]
  /\ foreign \in SUBSET Transfers
  /\ back \in [Transfers -> Returned]
  /\ kept \in [Keys -> Transfers \cup {None, Refused}]
  /\ requests \in SUBSET (Keys \X (Executors \cup {None}))
  /\ events \in SUBSET Events
  /\ worker \in [Workers -> Processes]

Init ==
  /\ batch = "funded"
  /\ residual = {}
  /\ \E S \in SUBSET Allocations :
       /\ allocation = [a \in Allocations |-> IF a \in S THEN "canceled" ELSE "reserved"]
       /\ commission = [a \in Allocations |-> IF a \in S THEN "reversed" ELSE "approved"]
  /\ state = [p \in Partners |-> "none"]
  /\ generation = [p \in Partners |-> 0]
  /\ postedAt = [p \in Partners |-> "null"]
  /\ frozen = [p \in Partners |-> {}]
  /\ recorded = [p \in Partners |-> None]
  /\ payout = [p \in Partners |-> "none"]
  /\ fenced = {}
  /\ held = {}
  /\ made = {}
  /\ stamped = [t \in Transfers |-> 0]
  /\ foreign = {}
  /\ back = [t \in Transfers |-> "none"]
  /\ kept = [k \in Keys |-> None]
  /\ requests = {}
  /\ events = {}
  /\ worker = [w \in Workers |-> Resting]

-----------------------------------------------------------------------------
(* Vocabulary.                                                                *)

At(w, l) == worker[w].pc = l
Who(w) == worker[w].who
Go(w, l) == worker' = [worker EXCEPT ![w] = [@ EXCEPT !.pc = l]]
GoWith(w, l, t) == worker' = [worker EXCEPT ![w] = [@ EXCEPT !.pc = l, !.xfer = t]]
Rest(w) == worker' = [worker EXCEPT ![w] = Resting]

\* Back to the loop over the partners.
Done(w) ==
  worker' = [worker EXCEPT ![w] = [Resting EXCEPT !.pc = "next", !.live = worker[w].live,
                                                  !.todo = worker[w].todo \ {Who(w)}]]

Live == {a \in Allocations : allocation[a] \in {"reserved", "transfer_pending"}}
Group(w) == worker[w].live \cap Of(Who(w))
Put(S, v) == [a \in Allocations |-> IF a \in S THEN v ELSE allocation[a]]

\* listFundedTransferMembers: what the batch's group holds for this intent.
Members(p) == {t \in made : t[1] = p}
Whole(t) == back[t] = "none"
Gone(t) == back[t] = "full"

\* A fresh reviewNonce: what any operator has read of it is out of date.
Renonce(p) == fenced' = {o \in fenced : Who(o) # p}

\* "updated === 0" of the intent's compare-and-set on states and key.
Ours(w, from) == state[Who(w)] \in from /\ generation[Who(w)] = worker[w].gen

-----------------------------------------------------------------------------
(* A pass: take the batch, visit each partner, settle.                        *)

\* runTransferExecutor picks the batch up and reads its live allocations.
Begin(w) ==
  /\ At(w, "idle")
  /\ batch \in {"funded", "transferring"}
  /\ batch' = "transferring"
  /\ worker' = [worker EXCEPT ![w] = [Resting EXCEPT !.pc = "next", !.live = Live,
                                                     !.todo = {a[1] : a \in Live}]]
  /\ UNCHANGED <<residual, allocation, commission, intents, held, stripe>>

\* The batch was frozen while the pass was at work.
Stop(w) ==
  /\ At(w, "next") /\ worker[w].todo # {}
  /\ batch # "transferring"
  /\ Rest(w)
  /\ UNCHANGED <<ledger, intents, held, stripe>>

\* Mutant: the age of the key is not looked at.
RouteAgeless(p) ==
  CASE state[p] \in {"confirmed", "duplicate_review"} -> "next"
    [] state[p] = "reconcile_required" -> "list"
    [] state[p] = "none" -> IF p \in held THEN "withhold" ELSE "create"
    [] state[p] \in {"pending", "failed"} /\ p \in held -> "cancel"
    [] state[p] = "posted" /\ p \in held -> "next"
    [] OTHER -> "post"

\* Where executePartnerTransfer goes with the intent it reads.
Route(p) ==
  CASE state[p] \in {"confirmed", "duplicate_review"} -> "next"
    [] state[p] = "reconcile_required" -> "list"
    [] state[p] = "none" /\ p \in held -> "withhold"
    [] state[p] \in {"pending", "failed"} /\ p \in held -> "cancel"
    [] state[p] = "none" /\ p \notin held -> "create"
    [] state[p] = "posted" /\ postedAt[p] = "old" -> "stale"
    [] state[p] = "posted" /\ postedAt[p] # "old" /\ p \in held -> "next"
    [] OTHER -> "post"

Take(w, p) ==
  /\ At(w, "next") /\ p \in worker[w].todo
  /\ batch = "transferring"
  /\ IF Route(p) = "next"
     THEN worker' = [worker EXCEPT ![w].todo = @ \ {p}]
     ELSE worker' = [worker EXCEPT ![w].pc = Route(p), ![w].who = p, ![w].gen = generation[p],
                                   ![w].age = IF Route(p) = "post" THEN postedAt[p] ELSE @]
  /\ UNCHANGED <<ledger, intents, held, stripe>>

\* Mutant: what was read of the group is not checked again.
CreateUnchecked(w) ==
  /\ At(w, "create")
  /\ batch = "transferring"
  /\ allocation' = Put({a \in Group(w) : allocation[a] = "reserved"}, "transfer_pending")
  /\ state' = [state EXCEPT ![Who(w)] = "pending"]
  /\ frozen' = [frozen EXCEPT ![Who(w)] = Group(w)]
  /\ Go(w, "post")
  /\ UNCHANGED <<batch, residual, commission, generation, postedAt, recorded, payout, fenced,
                 held, stripe>>

\* The intent-creation transaction. An allocation that left "reserved" since it
\* was read throws, which ends the pass over the batch.
Create(w) ==
  /\ At(w, "create")
  /\ LET g == Group(w)
         approved == \A a \in g : commission[a] = "approved"
         whole == \A a \in g : allocation[a] = "reserved"
     IN \/ /\ batch = "transferring" /\ approved /\ whole
           /\ allocation' = Put(g, "transfer_pending")
           /\ state' = [state EXCEPT ![Who(w)] = "pending"]
           /\ frozen' = [frozen EXCEPT ![Who(w)] = g]
           /\ Go(w, "post")
        \/ /\ batch # "transferring" \/ ~ approved
           /\ Done(w)
           /\ UNCHANGED <<allocation, state, frozen>>
        \/ /\ batch = "transferring" /\ approved /\ ~ whole
           /\ Rest(w)
           /\ UNCHANGED <<allocation, state, frozen>>
  /\ UNCHANGED <<batch, residual, commission, generation, postedAt, recorded, payout, fenced,
                 held, stripe>>

\* The partner's account cannot take a transfer; a later pass looks again.
Unready(w) ==
  /\ At(w, "create")
  /\ Done(w)
  /\ UNCHANGED <<ledger, intents, held, stripe>>

\* cancelHeldAllocations, one transaction, of a partner without an intent
Withhold(w) ==
  /\ At(w, "withhold")
  /\ allocation' = IF batch = "transferring"
                   THEN Put({a \in Of(Who(w)) : allocation[a] = "reserved"}, "canceled")
                   ELSE allocation
  /\ Done(w)
  /\ UNCHANGED <<batch, residual, commission, intents, held, stripe>>

\* and of one whose intent has not left, or came back refused.
Cancel(w) ==
  /\ At(w, "cancel")
  /\ IF batch = "transferring" /\ state[Who(w)] \in {"pending", "failed"}
     THEN /\ state' = [state EXCEPT ![Who(w)] = "failed"]
          /\ allocation' = Put(Live \cap Of(Who(w)), "canceled")
     ELSE UNCHANGED <<state, allocation>>
  /\ Done(w)
  /\ UNCHANGED <<batch, residual, commission, generation, postedAt, frozen, recorded, payout, fenced,
                 held, stripe>>

\* Mutant: a share that nobody could start to transfer does not keep a batch open.
SettleUnstarted(w) ==
  /\ At(w, "next") /\ worker[w].todo = {}
  /\ LET canceled == {a \in Allocations : allocation[a] = "canceled"}
     IN IF batch = "transferring" /\ \A a \in Allocations : allocation[a] # "transfer_pending"
        THEN /\ batch' = IF canceled = {} THEN "settled" ELSE "settled_with_residual"
             /\ residual' = canceled
        ELSE UNCHANGED <<batch, residual>>
  /\ Rest(w)
  /\ UNCHANGED <<allocation, commission, intents, held, stripe>>

\* Mutant: only a batch that was transferred in full is closed.
SettleInFull(w) ==
  /\ At(w, "next") /\ worker[w].todo = {}
  /\ batch' = IF batch = "transferring" /\ \A a \in Allocations : allocation[a] = "transferred"
              THEN "settled" ELSE batch
  /\ Rest(w)
  /\ UNCHANGED <<residual, allocation, commission, intents, held, stripe>>

\* The close of a batch all of whose allocations are terminal.
Settle(w) ==
  /\ At(w, "next") /\ worker[w].todo = {}
  /\ LET canceled == {a \in Allocations : allocation[a] = "canceled"}
     IN IF batch = "transferring" /\ Live = {}
        THEN /\ batch' = IF canceled = {} THEN "settled" ELSE "settled_with_residual"
             /\ residual' = canceled
        ELSE UNCHANGED <<batch, residual>>
  /\ Rest(w)
  /\ UNCHANGED <<allocation, commission, intents, held, stripe>>

-----------------------------------------------------------------------------
(* The POST.                                                                  *)

\* The last look at the batch, the stamp on the intent, and the POST it allows.
Post(w) ==
  /\ At(w, "post")
  /\ LET p == Who(w)
     IN \/ /\ batch = "transferring" /\ Ours(w, {"pending", "posted", "failed"})
           /\ state' = [state EXCEPT ![p] = "posted"]
           /\ postedAt' = [postedAt EXCEPT ![p] = IF worker[w].age = "null" THEN "fresh" ELSE @]
           /\ requests' = requests \cup {<<<<p, worker[w].gen>>, w>>}
           /\ worker' = [worker EXCEPT ![w] = [@ EXCEPT !.pc = "await", !.age = "null"]]
        \/ /\ ~ (batch = "transferring" /\ Ours(w, {"pending", "posted", "failed"}))
           /\ Done(w)
           /\ UNCHANGED <<state, postedAt, requests>>
  /\ UNCHANGED <<ledger, generation, frozen, recorded, payout, fenced, held,
                 made, stamped, foreign, back, kept, events>>

\* finalizeTransfer: intent confirmed, Payout paid, allocations transferred and
\* commissions paid in one transaction, if the fence still holds.
Finalize(p, t, g, fence) ==
  IF fence
  THEN /\ state' = [state EXCEPT ![p] = "confirmed"]
       /\ recorded' = [recorded EXCEPT ![p] = t]
       /\ payout' = [payout EXCEPT ![p] = "paid"]
       /\ allocation' = Put(g, "transferred")
       /\ commission' = [a \in Allocations |-> IF a \in g THEN "paid" ELSE commission[a]]
       /\ UNCHANGED <<batch, residual, generation, postedAt, frozen, fenced, held, stripe>>
  ELSE UNCHANGED <<ledger, intents, held, stripe>>

PostReturns(w) ==
  /\ At(w, "await") /\ worker[w].xfer \in Transfers
  /\ Finalize(Who(w), worker[w].xfer, Group(w), Ours(w, {"posted", "reconcile_required"}))
  /\ Done(w)

\* A definite error; "Only a definite error fails an intent".
PostRefused(w) ==
  /\ At(w, "await") /\ worker[w].xfer = Refused
  /\ state' = IF Ours(w, {"posted"}) THEN [state EXCEPT ![Who(w)] = "failed"] ELSE state
  /\ Done(w)
  /\ UNCHANGED <<ledger, generation, postedAt, frozen, recorded, payout, fenced, held, stripe>>

\* Whatever this process was waiting for, nobody waits for it now.
Forsake(w) == requests' = {r \in requests : r[2] # w} \cup {<<r[1], None>> : r \in {q \in requests : q[2] = w}}

\* Mutant: an ambiguous error fails the intent.
PostAmbiguousFails(w) ==
  /\ At(w, "await")
  /\ Forsake(w)
  /\ state' = IF Ours(w, {"posted"}) THEN [state EXCEPT ![Who(w)] = "failed"] ELSE state
  /\ Done(w)
  /\ UNCHANGED <<ledger, generation, postedAt, frozen, recorded, payout, fenced, held,
                 made, stamped, foreign, back, kept, events>>

\* A timeout, a lost response, a 409 or a 429: the intent stays posted.
PostAmbiguous(w) ==
  /\ At(w, "await")
  /\ Forsake(w)
  /\ Done(w)
  /\ UNCHANGED <<ledger, intents, held, made, stamped, foreign, back, kept, events>>

-----------------------------------------------------------------------------
(* Reconciliation by listing.                                                 *)

\* The key may have been pruned: stop posting. Only the state is compared.
Stale(w) ==
  /\ At(w, "stale")
  /\ state' = IF state[Who(w)] = "posted" THEN [state EXCEPT ![Who(w)] = "reconcile_required"] ELSE state
  /\ Go(w, "list")
  /\ UNCHANGED <<ledger, generation, postedAt, frozen, recorded, payout, fenced, held, stripe>>

\* Mutant: the one transfer of the group is adopted, whatever key made it.
ListAnyGeneration(w) ==
  /\ At(w, "list")
  /\ LET m == Members(Who(w))
     IN \/ m = {} /\ Done(w)
        \/ \E t \in m : m = {t} /\ t \notin foreign /\ GoWith(w, "adopt", t)
        \/ m # {} /\ (\A t \in m : m # {t} \/ t \in foreign) /\ Go(w, "park")
  /\ UNCHANGED <<ledger, intents, held, stripe>>

\* Nothing found holds the intent; one transfer that is surely this payment is
\* adopted; anything else is parked.
List(w) ==
  /\ At(w, "list")
  /\ LET m == Members(Who(w))
         surely(t) == m = {t} /\ stamped[t] = worker[w].gen /\ t \notin foreign
     IN \/ m = {} /\ Done(w)
        \/ \E t \in m : surely(t) /\ GoWith(w, "adopt", t)
        \/ m # {} /\ (\A t \in m : ~ surely(t)) /\ Go(w, "park")
  /\ UNCHANGED <<ledger, intents, held, stripe>>

CannotVerify(w) ==
  /\ At(w, "list")
  /\ Done(w)
  /\ UNCHANGED <<ledger, intents, held, stripe>>

Adopt(w) ==
  /\ At(w, "adopt")
  /\ Finalize(Who(w), worker[w].xfer, Live \cap Of(Who(w)), Ours(w, {"reconcile_required"}))
  /\ Done(w)

Park(w) ==
  /\ At(w, "park")
  /\ IF Ours(w, {"posted", "reconcile_required"})
     THEN state' = [state EXCEPT ![Who(w)] = "duplicate_review"] /\ Renonce(Who(w))
     ELSE UNCHANGED <<state, fenced>>
  /\ Done(w)
  /\ UNCHANGED <<ledger, generation, postedAt, frozen, recorded, payout, held, stripe>>

-----------------------------------------------------------------------------
(* The operator: re-arm an intent that is held, resolve one that is parked.    *)

Begins(o, l, p) ==
  worker' = [worker EXCEPT ![o] = [Resting EXCEPT !.pc = l, !.who = p, !.gen = generation[p]]]

\* The operator asserts that no transfer for the intent exists or ever will.
NoneToCome(p) == \A r \in requests : r[1][1] # p
AssertsTrue(p) == Members(p) = {} /\ NoneToCome(p)

RearmRead(o, p) ==
  /\ At(o, "idle")
  /\ state[p] = "reconcile_required"
  /\ Truthful => AssertsTrue(p)
  /\ Begins(o, "rearmList", p)
  /\ UNCHANGED <<ledger, intents, held, stripe>>

RearmList(o) ==
  /\ At(o, "rearmList")
  /\ IF Members(Who(o)) = {} THEN Go(o, "rearm") ELSE Rest(o)
  /\ UNCHANGED <<ledger, intents, held, stripe>>

Rearm(o) ==
  /\ At(o, "rearm")
  /\ IF Ours(o, {"reconcile_required"}) /\ worker[o].gen < MaxGeneration
     THEN /\ state' = [state EXCEPT ![Who(o)] = "pending"]
          /\ generation' = [generation EXCEPT ![Who(o)] = @ + 1]
          /\ postedAt' = [postedAt EXCEPT ![Who(o)] = "null"]
     ELSE UNCHANGED <<state, generation, postedAt>>
  /\ Rest(o)
  /\ UNCHANGED <<ledger, frozen, recorded, payout, fenced, held, stripe>>

ResolveRead(o, p) ==
  /\ At(o, "idle")
  /\ state[p] = "duplicate_review"
  /\ Begins(o, "resolveList", p)
  /\ fenced' = fenced \cup {o}
  /\ UNCHANGED <<ledger, state, generation, postedAt, frozen, recorded, payout, held, stripe>>

\* Mutant: a kept transfer is not compared with the frozen intent.
ResolveListAny(o) ==
  /\ At(o, "resolveList")
  /\ LET m == Members(Who(o))
     IN \/ \E t \in m : /\ Whole(t)
                        /\ \A u \in m \ {t} : Gone(u)
                        /\ GoWith(o, "keep", t)
        \/ (\A t \in m : Gone(t)) /\ Go(o, "close")
        \/ Rest(o)
  /\ UNCHANGED <<ledger, intents, held, stripe>>

\* Either disposition is checked against Stripe; one that is not true is refused.
ResolveList(o) ==
  /\ At(o, "resolveList")
  /\ LET m == Members(Who(o))
     IN \/ \E t \in m : /\ Whole(t) /\ t \notin foreign
                        /\ \A u \in m \ {t} : Gone(u)
                        /\ GoWith(o, "keep", t)
        \/ /\ \A t \in m : Gone(t)
           /\ Truthful => NoneToCome(Who(o))
           /\ Go(o, "close")
        \/ Rest(o)
  /\ UNCHANGED <<ledger, intents, held, stripe>>

\* The nonce the operator read is still on the parked intent.
Unmoved(o) == Ours(o, {"duplicate_review"}) /\ o \in fenced

Keep(o) ==
  /\ At(o, "keep")
  /\ Finalize(Who(o), worker[o].xfer, Live \cap Of(Who(o)), Unmoved(o))
  /\ Rest(o)

BetweenPasses == \A w \in Executors : At(w, "idle")

CloseReversed(o) ==
  /\ At(o, "close")
  /\ Overlap \/ BetweenPasses
  /\ IF Unmoved(o)
     THEN /\ state' = [state EXCEPT ![Who(o)] = "failed"]
          /\ allocation' = Put(Live \cap Of(Who(o)), "canceled")
     ELSE UNCHANGED <<state, allocation>>
  /\ Rest(o)
  /\ UNCHANGED <<batch, residual, commission, generation, postedAt, frozen, recorded, payout, fenced,
                 held, stripe>>

-----------------------------------------------------------------------------
(* Webhooks, the daily sweep, and the rest of the application.                 *)

\* Mutant: a new transfer of a parked intent is only logged.
HookCreatedLogs(e) ==
  /\ e[1] = "created"
  /\ events' = events \ {e}
  /\ UNCHANGED <<ledger, intents, held, made, stamped, foreign, back, kept, requests, worker>>

\* detectFundedTransferCreated writes nothing but the fence of a parked intent.
HookCreated(e) ==
  /\ e[1] = "created"
  /\ IF state[e[2][1]] = "duplicate_review" THEN Renonce(e[2][1]) ELSE UNCHANGED fenced
  /\ events' = events \ {e}
  /\ UNCHANGED <<ledger, state, generation, postedAt, frozen, recorded, payout, held,
                 made, stamped, foreign, back, kept, requests, worker>>

\* Mutant: the kind of the reversal is written as the status.
DeriveByName(p, b) == payout' = [payout EXCEPT ![p] = b]

\* The Payout's status, derived from the reversals recorded so far.
Derive(p, b) ==
  payout' = [payout EXCEPT ![p] = IF b = "full" \/ @ = "reversed" THEN "reversed" ELSE "partially_reversed"]

\* handleTransferReversed. Before the intent has a Payout it throws, and Stripe
\* delivers the event again.
HookReversed(e) ==
  LET t == e[2]
      p == e[2][1]
  IN /\ e[1] = "reversed"
     /\ \/ state[p] = "duplicate_review" /\ Renonce(p) /\ UNCHANGED payout
        \/ state[p] = "failed" /\ UNCHANGED <<fenced, payout>>
        \/ state[p] = "confirmed" /\ recorded[p] # t /\ UNCHANGED <<fenced, payout>>
        \/ state[p] = "confirmed" /\ recorded[p] = t /\ Derive(p, e[3]) /\ UNCHANGED fenced
     /\ events' = events \ {e}
     /\ UNCHANGED <<ledger, state, generation, postedAt, frozen, recorded, held,
                    made, stamped, foreign, back, kept, requests, worker>>

\* Mutant: a payout that was reversed in part is not looked at again.
SweepPaid(p) ==
  /\ state[p] = "confirmed" /\ payout[p] = "paid"
  /\ back[recorded[p]] # "none"
  /\ Derive(p, back[recorded[p]])
  /\ UNCHANGED <<ledger, state, generation, postedAt, frozen, recorded, fenced, held, stripe, worker>>

\* The daily reconcile reads the recorded transfer of a confirmed intent.
Sweep(p) ==
  /\ state[p] = "confirmed" /\ payout[p] # "reversed"
  /\ back[recorded[p]] # "none"
  /\ Derive(p, back[recorded[p]])
  /\ UNCHANGED <<ledger, state, generation, postedAt, frozen, recorded, fenced, held, stripe, worker>>

\* recordFundingChargeClawback; a settled batch only gets a note.
Clawback ==
  /\ batch \in {"funded", "transferring"}
  /\ batch' = "funding_disputed"
  /\ UNCHANGED <<residual, allocation, commission, intents, held, stripe, worker>>

\* Mutant: the interlock cancels an allocation that is being transferred.
ReverseInFlight(a) ==
  /\ commission[a] = "approved"
  /\ commission' = [commission EXCEPT ![a] = "reversed"]
  /\ allocation' = [allocation EXCEPT ![a] = IF @ \in {"reserved", "transfer_pending"} THEN "canceled" ELSE @]
  /\ UNCHANGED <<batch, residual, intents, held, stripe, worker>>

\* A reversal (refunds.ts, routes/commissions.ts) and its interlock: an
\* allocation that is being transferred holds it off.
ReverseCommission(a) ==
  /\ commission[a] = "approved"
  /\ allocation[a] # "transfer_pending"
  /\ commission' = [commission EXCEPT ![a] = "reversed"]
  /\ allocation' = [allocation EXCEPT ![a] = IF @ = "reserved" THEN "canceled" ELSE @]
  /\ UNCHANGED <<batch, residual, intents, held, stripe, worker>>

\* A rescreen, a blocked country, or an administrator who lifts the hold.
ToggleHold(p) ==
  /\ held' = IF p \in held THEN held \ {p} ELSE held \cup {p}
  /\ UNCHANGED <<ledger, intents, stripe, worker>>

-----------------------------------------------------------------------------
(* Stripe and time.                                                           *)

\* The caller that still waits is answered; a forsaken request just ends.
Answer(r, outcome) ==
  /\ requests' = requests \ {r}
  /\ worker' = IF r[2] = None THEN worker ELSE [worker EXCEPT ![r[2]].xfer = outcome]

StripeReplays(r) ==
  /\ kept[r[1]] # None
  /\ Answer(r, kept[r[1]])
  /\ UNCHANGED <<ledger, intents, held, made, stamped, foreign, back, kept, events>>

\* The transfers to a partner are numbered as they are made.
NextTransfer(t, p) == t[1] = p /\ t \notin made /\ \A n \in 1..(t[2] - 1) : <<p, n>> \in made

StripeTransfers(r) ==
  /\ kept[r[1]] = None
  /\ \E t \in Transfers :
       /\ NextTransfer(t, r[1][1])
       /\ made' = made \cup {t}
       /\ stamped' = [stamped EXCEPT ![t] = r[1][2]]
       /\ kept' = [kept EXCEPT ![r[1]] = t]
       /\ events' = events \cup {<<"created", t, "none">>}
       /\ Answer(r, t)
  /\ UNCHANGED <<ledger, intents, held, foreign, back>>

StripeRefuses(r) ==
  /\ kept[r[1]] = None
  /\ kept' = [kept EXCEPT ![r[1]] = Refused]
  /\ Answer(r, Refused)
  /\ UNCHANGED <<ledger, intents, held, made, stamped, foreign, back, events>>

\* A request nobody waits for may never have reached Stripe.
Drop(r) ==
  /\ r[2] = None
  /\ requests' = requests \ {r}
  /\ UNCHANGED <<ledger, intents, held, made, stamped, foreign, back, kept, events, worker>>

\* Some other transfer to the partner's account, put in the batch's group.
OutsideTransfer(p) ==
  /\ Cardinality(foreign) < MaxForeign /\ state[p] # "none"
  /\ \E t \in Transfers :
       /\ NextTransfer(t, p)
       /\ made' = made \cup {t}
       /\ foreign' = foreign \cup {t}
       /\ events' = events \cup {<<"created", t, "none">>}
  /\ UNCHANGED <<ledger, intents, held, stamped, back, kept, requests, worker>>

\* Somebody reverses a transfer, or part of it, at Stripe. The event of a
\* transfer without our stamp names no intent.
StripeReverses(t, b) ==
  /\ t \in made
  /\ \/ b = "full" /\ back[t] # "full"
     \/ b = "part" /\ back[t] = "none"
  /\ back' = [back EXCEPT ![t] = b]
  /\ events' = IF t \in foreign THEN events ELSE events \cup {<<"reversed", t, b>>}
  /\ UNCHANGED <<ledger, intents, held, made, stamped, foreign, kept, requests, worker>>

\* Stripe gives up on an event.
LoseEvent(e) ==
  /\ LoseEvents
  /\ events' = events \ {e}
  /\ UNCHANGED <<ledger, intents, held, made, stamped, foreign, back, kept, requests, worker>>

WindowPasses(p) ==
  /\ postedAt[p] = "fresh"
  /\ postedAt' = [postedAt EXCEPT ![p] = "old"]
  /\ UNCHANGED <<ledger, state, generation, frozen, recorded, payout, fenced, held, stripe, worker>>

\* Some process judged this key safe and has not posted with it yet.
AboutToPost(k) == \E w \in Executors : At(w, "post") /\ Who(w) = k[1] /\ worker[w].gen = k[2]

\* A key is kept for a day from its first use, which postedAt precedes.
KeyPruned(k) ==
  /\ kept[k] # None
  /\ k[2] < generation[k[1]] \/ postedAt[k[1]] = "old"
  /\ Straggle \/ \A r \in requests : r[1] # k
  /\ Margin => ~ AboutToPost(k)
  /\ kept' = [kept EXCEPT ![k] = None]
  /\ UNCHANGED <<ledger, intents, held, made, stamped, foreign, back, requests, events, worker>>

Crash(w) ==
  /\ ~ At(w, "idle")
  /\ Rest(w)
  /\ Forsake(w)
  /\ UNCHANGED <<ledger, intents, held, made, stamped, foreign, back, kept, events>>

-----------------------------------------------------------------------------
(* The specification.                                                         *)

Reconcile(w) == Stale(w) \/ List(w) \/ Adopt(w) \/ Park(w)

Step(w) ==
  \/ Stop(w) \/ Create(w) \/ Withhold(w) \/ Cancel(w) \/ Settle(w)
  \/ Post(w) \/ PostReturns(w) \/ PostRefused(w)
  \/ Reconcile(w)
  \/ \E p \in Partners : Take(w, p)

Operate(o) ==
  \/ RearmList(o) \/ Rearm(o) \/ ResolveList(o) \/ Keep(o) \/ CloseReversed(o)
  \/ \E p \in Partners : RearmRead(o, p) \/ ResolveRead(o, p)

Hook(e) == HookCreated(e) \/ HookReversed(e)

Running ==
  \/ \E w \in Executors : Begin(w) \/ Step(w)
  \/ \E o \in Operators : Operate(o)
  \/ \E e \in events : Hook(e)
  \/ \E p \in Partners : Sweep(p) \/ WindowPasses(p) \/ ToggleHold(p)
  \/ \E r \in requests : StripeReplays(r) \/ StripeTransfers(r)
  \/ \E t \in Transfers, b \in Returned : StripeReverses(t, b)
  \/ \E a \in Allocations : ReverseCommission(a)
  \/ \E k \in Keys : KeyPruned(k)
  \/ Clawback

Failing ==
  \/ \E w \in Executors : Unready(w) \/ PostAmbiguous(w) \/ CannotVerify(w)
  \/ \E w \in Workers : Crash(w)
  \/ \E r \in requests : StripeRefuses(r) \/ Drop(r)
  \/ \E p \in Partners : OutsideTransfer(p)
  \/ \E e \in events : LoseEvent(e)

Next == Running \/ Failing

Spec == Init /\ [][Next]_vars

\* The scheduler starts a pass at each interval and a pass runs to its end,
\* Stripe carries out what it was sent and forgets a key in the end, however
\* often it is used, days pass, the reconcile job runs every day, and at some
\* point processes stop dying and calls stop failing.
Fairness ==
  /\ \A w \in Executors : SF_vars(Begin(w)) /\ WF_vars(Step(w))
  /\ \A p \in Partners : WF_vars(Sweep(p)) /\ WF_vars(WindowPasses(p))
  /\ \A k \in Keys : SF_vars(KeyPruned(k))
  /\ \A r \in Keys \X (Executors \cup {None}) :
       WF_vars(r \in requests /\ (StripeReplays(r) \/ StripeTransfers(r)))
  /\ <>[][Running]_vars

FairSpec == Spec /\ Fairness

-----------------------------------------------------------------------------
(* Safety.                                                                    *)

\* Whatever is retried, reconciled, re-armed or resolved, a partner never
\* holds two transfers for one share of the batch (executor.ts: the frozen key,
\* "never a blind re-POST").
OneLiveTransfer ==
  \A p \in Partners : \A t, u \in Members(p) \ foreign : ~ Gone(t) /\ ~ Gone(u) => t = u

\* What is recorded as paid was paid: by a transfer that exists and is this
\* intent's, of the very allocations its amount was frozen from, all at once.
LedgerIsTrue ==
  /\ \A p \in Partners : state[p] = "confirmed" =>
       /\ recorded[p] \in Members(p) \ foreign
       /\ {a \in Of(p) : allocation[a] = "transferred"} = frozen[p]
  /\ \A a \in Allocations :
       /\ allocation[a] = "transferred" <=> commission[a] = "paid"
       /\ allocation[a] = "transferred" => state[a[1]] = "confirmed"

\* "Funded money that will not transfer": of an allocation that was canceled
\* after its amount was frozen, the partner holds no transfer.
CanceledIsUnpaid ==
  \A a \in Allocations : allocation[a] = "canceled" /\ a \in frozen[a[1]] =>
    \A t \in Members(a[1]) \ foreign : Gone(t)

\* A batch closes with every share decided, and its residual is exactly the
\* money that stayed: what an operator disposes of was not also transferred.
SettledIsComplete ==
  batch \in {"settled", "settled_with_residual"} =>
    /\ Live = {}
    /\ residual = {a \in Allocations : allocation[a] = "canceled"}
    /\ batch = "settled" <=> residual = {}

\* A pass records only a transfer of the key generation the intent is on: what
\* an operator re-armed or a later pass parked is not overwritten by a worker
\* that looked before (executor.ts: FinalizeFence).
AdoptsOwn ==
  [][\A p \in Partners :
       state[p] \notin {"confirmed", "duplicate_review"} /\ state'[p] = "confirmed" =>
         stamped[recorded'[p]] = generation[p] /\ recorded'[p] \notin foreign]_vars

\* A parked intent is only resolved by an operator who saw all that the
\* webhooks have reported of its transfers: a transfer still held besides the
\* kept one, or a reversal of the kept one, is news that is yet to be delivered.
ResolutionIsFenced ==
  [][\A p \in Partners :
       state[p] = "duplicate_review" /\ state'[p] # "duplicate_review" =>
         /\ \E o \in Operators : Who(o) = p /\ o \in fenced
         /\ \A t \in Members(p) \ {recorded'[p]} : ~ Gone(t) => <<"created", t, "none">> \in events
         /\ recorded'[p] # None /\ ~ Whole(recorded'[p]) =>
              \E b \in Returned : <<"reversed", recorded'[p], b>> \in events]_vars

\* Each share of the batch is decided once and for good, and a partner is paid
\* in one piece.
Payment == INSTANCE PartnerPayment WITH
  paid <- {a \in Allocations : allocation[a] = "transferred"},
  withheld <- {a \in Allocations : allocation[a] = "canceled"},
  closed <- batch \in {"settled", "settled_with_residual"}
ImplementsPayment == Payment!Spec

-----------------------------------------------------------------------------
(* Liveness, under FairSpec.                                                  *)

\* A funded batch is settled, frozen by a dispute, or waits for a human on an
\* intent that is held or parked: it is never forgotten.
Drains ==
  batch = "funded" ~>
    \/ batch \in {"settled", "settled_with_residual", "funding_disputed"}
    \/ \E p \in Partners : state[p] \in {"reconcile_required", "duplicate_review"}

\* A transfer on the books that came back is written off, webhook or not, even
\* when it came back before it was on the books.
ReversalIsRecorded ==
  \A p \in Partners :
    (state[p] = "confirmed" /\ Gone(recorded[p])) ~> payout[p] = "reversed"
=============================================================================
