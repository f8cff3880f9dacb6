----------------------- MODULE FundingCollectionProofs -----------------------
(***************************************************************************)
(* Proofs about FundingCollection, for any number of batches, commissions, *)
(* collectors, webhook deliveries and operators. The inductive invariant   *)
(* IInv is proved in two steps: every action is a move (Moves), which says *)
(* what it may do to the rows, to Stripe and to a worker; and each part of *)
(* IInv is kept by every move. The theorems are at the end of each part.   *)
(***************************************************************************)
EXTENDS FundingCollection, TLAPS

-----------------------------------------------------------------------------
(* The inductive invariant.                                                   *)

\* Statuses a batch never leaves for one in which money is being collected.
Closing == {"release_requested", "released", "funded", "funding_disputed", "recovery_required"}

Made(p) == intent[p] # "absent"

\* Labels at which the worker holds an intent.
Holding == {"adopt", "adopted", "recheck", "poll", "retry", "retryPaid", "retryConfirm", "retried",
            "stamp", "stamped", "createError", "abandon", "orphanStamp", "confirm", "confirmCas",
            "relConfirm", "relConfirmCas", "relStamp", "relRetrieve", "relCancel"}

\* What the fields of a process say of each other.
Coherent(r) ==
  /\ r.pc # "idle" => r.job \in Batches
  /\ r.hand # None => r.hand \in IntentsOf(r.job)
  /\ r.pc \in Holding => r.hand # None
  /\ r.pc = "reread" => r.seen = "invoicing"
  /\ r.pc = "claim" => r.seen \in {"reserved", "funding_failed"}
  /\ r.pc \in {"search", "adopt", "adopted"} => r.seen \in {"invoicing", "funding_failed"}

WorkersOK == worker \in [Workers -> {r \in Processes : Coherent(r)}]

RefsOK ==
  /\ WorkersOK
  /\ \A b \in Batches : stamp[b] \in IntentsOf(b) \cup {None}
  /\ \A b \in Batches : frozenKey[b] \in IntentsOf(b) \cup {None}

\* Every intent somebody knows of exists.
Known ==
  /\ \A p \in indexed : Made(p)
  /\ \A e \in events : Made(e[2])
  /\ \A b \in Batches : stamp[b] # None => Made(stamp[b])
  /\ \A b \in Batches : frozenKey[b] # None => Made(frozenKey[b])
  /\ \A w \in Workers : Hand(w) # None => Made(Hand(w))

\* Once the key has expired, search finds the intent and nobody is creating.
Keyed ==
  \A b \in Batches : \A p \in IntentsOf(b) : Made(p) /\ frozenKey[b] = None =>
    /\ p \in indexed
    /\ ~ Sent(b)
    /\ \A w \in Workers : Job(w) = b => worker[w].pc \notin {"claim", "create"}

\* No intent of the batch exists, and nobody is about to make one.
Untouched(b) ==
  /\ \A p \in IntentsOf(b) : ~ Made(p)
  /\ ~ Sent(b)
  /\ \A w \in Workers : Job(w) = b => worker[w].pc \notin {"search", "create"}

Early == \A b \in Batches : status[b] \in {"absent", "reserved"} => Untouched(b)

\* A batch that may be retried has its intent on the row, or a failed attempt.
Stamped ==
  /\ \A b \in Batches : status[b] = "payment_processing" => stamp[b] # None
  /\ \A b \in Batches : status[b] = "funding_failed" => stamp[b] # None \/ attempted[b]
  /\ \A w \in Workers :
       worker[w].pc \in {"adopted", "stamped", "retry", "retryPaid", "retryConfirm", "retried"}
         => stamp[Job(w)] # None

\* The batch can be given up: no debit can happen, now or later.
Closed(b) ==
  /\ status[b] \in Closing
  /\ \A p \in IntentsOf(b) : Dead(p)
  /\ Untouched(b) \/ \E p \in IntentsOf(b) : Made(p)

Freeing ==
  /\ \A w \in Workers :
       worker[w].pc \in {"relSearch", "relStamp", "relRetrieve", "relCancel"} => status[Job(w)] \in Closing
  /\ \A b \in Batches : status[b] = "released" => Closed(b)
  /\ \A w \in Workers : worker[w].pc \in {"relFree", "relClose"} => Closed(Job(w))

\* What the quiet hour buys: the search index is complete, and stays so.
Still(b) == status[b] \in Closing /\ AllIndexed(b) /\ ~ Creating(b)

Forcing ==
  /\ \A b \in Batches : quiet[b] => Still(b)
  /\ \A w \in Workers :
       /\ worker[w].pc \in {"forceSearch", "forceList", "forceClose", "forceFree"} => Still(Job(w))
       /\ worker[w].pc \in {"forceList", "forceClose", "forceFree"} =>
            \A p \in IntentsOf(Job(w)) : ~ Made(p)

IInv ==
  /\ TypeOK
  /\ RefsOK
  /\ Known
  /\ Keyed
  /\ OneDebitPerBatch
  /\ Early
  /\ Stamped
  /\ Freeing
  /\ Forcing

-----------------------------------------------------------------------------
(* Types, and the steps of a worker.                                          *)

\* A process that returned, threw or died is well formed.
LEMMA RestingOK == Resting \in Processes /\ Coherent(Resting)
  BY DEF Resting, Process, Processes, Labels, Statuses, IntentStatuses, Coherent, Holding

\* Moving a well-formed process on to label l keeps it well formed, if it holds
\* what the label needs.
LEMMA GoOK ==
  ASSUME WorkersOK, NEW w \in Workers, NEW l \in Labels, Go(w, l),
         worker[w].pc # "idle",
         l \in Holding => Hand(w) # None,
         l = "search" => worker[w].seen = "invoicing",
         l = "claim" => worker[w].seen = "funding_failed",
         l = "adopted" => worker[w].pc = "adopt",
         l \notin {"reread", "adopt"}
  PROVE  WorkersOK'
<1> DEFINE r == [worker[w] EXCEPT !.pc = l]
<1>1. r \in Processes /\ r.pc = l /\ r.job = worker[w].job /\ r.seen = worker[w].seen /\ r.hand = worker[w].hand
  BY DEF WorkersOK, Processes
<1>2. Coherent(r)
  BY <1>1 DEF WorkersOK, Coherent, Hand
<1> QED BY <1>1, <1>2 DEF WorkersOK, Go

\* So does moving on with an intent a call returned.
LEMMA GoWithOK ==
  ASSUME WorkersOK, NEW w \in Workers, NEW l \in Labels, NEW p \in IntentsOf(Job(w)),
         GoWith(w, l, p),
         worker[w].pc # "idle", Job(w) \in Batches,
         l \notin {"search", "claim", "adopt", "adopted", "reread"}
  PROVE  WorkersOK'
<1> DEFINE r == [worker[w] EXCEPT !.pc = l, !.hand = p]
<1>1. r \in Processes /\ r.pc = l /\ r.job = worker[w].job /\ r.seen = worker[w].seen /\ r.hand = p
  BY DEF WorkersOK, Processes, IntentsOf
<1>2. p # None
  BY CollectionAssumption DEF IntentsOf
<1>3. Coherent(r)
  BY <1>1, <1>2 DEF WorkersOK, Coherent, Job
<1> QED BY <1>1, <1>3 DEF WorkersOK, GoWith

\* So does moving on with an intent whose status was read.
LEMMA GoSeeingOK ==
  ASSUME WorkersOK, intent \in [PaymentIntents -> IntentStatuses],
         NEW w \in Workers, NEW l \in Labels, NEW p \in IntentsOf(Job(w)),
         GoSeeing(w, l, p),
         worker[w].pc # "idle", Job(w) \in Batches,
         l = "adopt" => worker[w].seen \in {"invoicing", "funding_failed"},
         l \notin {"search", "claim", "adopted", "reread"}
  PROVE  WorkersOK'
<1> DEFINE r == [worker[w] EXCEPT !.pc = l, !.hand = p, !.saw = intent[p]]
<1>1. r \in Processes /\ r.pc = l /\ r.job = worker[w].job /\ r.seen = worker[w].seen /\ r.hand = p
  BY DEF WorkersOK, Processes, IntentsOf
<1>2. p # None
  BY CollectionAssumption DEF IntentsOf
<1>3. Coherent(r)
  BY <1>1, <1>2 DEF WorkersOK, Coherent, Job
<1> QED BY <1>1, <1>3 DEF WorkersOK, GoSeeing

\* So does returning.
LEMMA RestOK ==
  ASSUME WorkersOK, NEW w \in Workers, worker' = [worker EXCEPT ![w] = Resting]
  PROVE  WorkersOK'
  BY RestingOK DEF WorkersOK

\* So does starting a function in a well-formed state.
LEMMA StartOK ==
  ASSUME WorkersOK, NEW w \in Workers, NEW r \in Processes, Coherent(r),
         worker' = [worker EXCEPT ![w] = r]
  PROVE  WorkersOK'
  BY DEF WorkersOK

\* The collector keeps every process well formed.
LEMMA CollectWorkers ==
  ASSUME TypeOK, RefsOK, NEW w \in Workers, Collect(w)
  PROVE  WorkersOK'
<1>0. WorkersOK /\ \A b \in Batches : frozenKey[b] \in IntentsOf(b) \cup {None}
  BY DEF RefsOK
<1>a. worker[w].pc \in Holding => Hand(w) # None /\ Hand(w) \in IntentsOf(Job(w))
  BY <1>0 DEF WorkersOK, Coherent, Holding, Hand, Job
<1>b. worker[w].pc # "idle" => Job(w) \in Batches
  BY <1>0 DEF WorkersOK, Coherent, Holding, Hand, Job
<1>c. worker[w].pc = "search" => worker[w].seen \in {"invoicing", "funding_failed"}
  BY <1>0 DEF WorkersOK, Coherent
<1>d. worker[w].pc = "reread" => worker[w].seen = "invoicing"
  BY <1>0 DEF WorkersOK, Coherent
<1>e. intent \in [PaymentIntents -> IntentStatuses]
  BY DEF TypeOK
<1> USE <1>0, <1>a, <1>b DEF At, Return, Throw, Labels, Holding
<1>1. CASE ClaimForCreate(w)
  BY <1>1, GoOK, RestOK DEF ClaimForCreate
<1>2. CASE RereadInvoicing(w)
  BY <1>2, <1>d, GoOK, RestOK DEF RereadInvoicing
<1>3. CASE SearchBeforeCreate(w)
  <2>1. CASE \E p \in Found(Job(w)) : GoSeeing(w, "adopt", p)
    BY <1>3, <1>c, <1>e, <2>1, GoSeeingOK DEF SearchBeforeCreate, Found
  <2> QED BY <1>3, <1>c, <2>1, GoOK DEF SearchBeforeCreate
<1>4. CASE AdoptStamp(w)
  BY <1>4, GoOK, RestOK DEF AdoptStamp
<1>5. CASE AdoptMove(w)
  BY <1>5, GoOK, RestOK DEF AdoptMove
<1>6. CASE AdoptRetrieve(w)
  BY <1>6, <1>e, GoSeeingOK, RestOK DEF AdoptRetrieve
<1>7. CASE Poll(w)
  BY <1>7, <1>e, GoOK, GoSeeingOK, RestOK DEF Poll
<1>8. CASE RetryRetrieve(w)
  BY <1>8, <1>e, GoOK, GoSeeingOK, RestOK DEF RetryRetrieve
<1>9. CASE RetryMovePaid(w)
  BY <1>9, GoOK, RestOK DEF RetryMovePaid
<1>10. CASE RetryConfirm(w)
  BY <1>10, GoOK, RestOK DEF RetryConfirm
<1>11. CASE RetryRecord(w)
  BY <1>11, GoOK, RestOK DEF RetryRecord
<1>12. CASE SendCreate(w)
  BY <1>12, GoOK, RestOK DEF SendCreate
<1>13. CASE CreateReturns(w)
  BY <1>13, GoWithOK DEF CreateReturns
<1>14. CASE CreateFails(w)
  BY <1>14, GoOK DEF CreateFails
<1>15. CASE StampCreated(w)
  BY <1>15, GoOK DEF StampCreated
<1>16. CASE MoveCreated(w)
  BY <1>16, RestOK DEF MoveCreated
<1>17. CASE RecordFailedIntent(w)
  BY <1>17, GoOK DEF RecordFailedIntent
<1>18. CASE MoveCreateFailed(w)
  BY <1>18, RestOK DEF MoveCreateFailed
<1>19. CASE AbandonOrphan(w)
  BY <1>19, GoOK, RestOK DEF AbandonOrphan
<1>20. CASE OrphanStamp(w)
  BY <1>20, GoOK DEF OrphanStamp
<1>21. CASE OrphanReclaim(w)
  BY <1>21, GoOK DEF OrphanReclaim
<1>22. CASE OrphanFreeze(w)
  BY <1>22, RestOK DEF OrphanFreeze
<1> QED
  BY <1>1, <1>2, <1>3, <1>4, <1>5, <1>6, <1>7, <1>8, <1>9, <1>10, <1>11, <1>12, <1>13, <1>14,
     <1>15, <1>16, <1>17, <1>18, <1>19, <1>20, <1>21, <1>22 DEF Collect

\* So do confirmation, release and the forced release.
LEMMA ReleaseWorkers ==
  ASSUME TypeOK, RefsOK, NEW w \in Workers, ConfirmStep(w) \/ Release(w) \/ ForceRelease(w)
  PROVE  WorkersOK'
<1>0. WorkersOK
  BY DEF RefsOK
<1>a. worker[w].pc \in Holding => Hand(w) # None /\ Hand(w) \in IntentsOf(Job(w))
  BY <1>0 DEF WorkersOK, Coherent, Holding, Hand, Job
<1>b. worker[w].pc # "idle" => Job(w) \in Batches
  BY <1>0 DEF WorkersOK, Coherent, Holding, Hand, Job
<1> USE <1>0, <1>a, <1>b DEF At, Return, Throw, Labels, Holding
<1>1. ASSUME NEW rel \in BOOLEAN, Confirm(w, rel) PROVE WorkersOK'
  BY <1>1, GoOK, RestOK DEF Confirm
<1>2. ASSUME NEW rel \in BOOLEAN, ConfirmWins(w, rel) PROVE WorkersOK'
  BY <1>2, GoOK, RestOK DEF ConfirmWins
<1>3. ASSUME NEW rel \in BOOLEAN, ConfirmLoses(w, rel) PROVE WorkersOK'
  BY <1>3, GoOK, RestOK DEF ConfirmLoses
<1>4. CASE ReleaseClaim(w)
  <2> DEFINE at(l) == IF stamp[Job(w)] # None THEN "relRetrieve" ELSE l
             r(l) == Process(at(l), Job(w), "absent", stamp[Job(w)], "absent", worker[w].evt)
  <2>1. Job(w) \in Batches /\ worker[w].evt \in Events \cup {None}
    BY <1>4 DEF ReleaseClaim, WorkersOK, Processes
  <2>2. stamp[Job(w)] \in IntentsOf(Job(w)) \cup {None} /\ stamp[Job(w)] \in PaymentIntents \cup {None}
    BY <2>1 DEF RefsOK, TypeOK
  <2>3. \A l \in {"relSearch", "relFree"} : r(l) \in Processes /\ Coherent(r(l))
    BY <2>1, <2>2 DEF Process, Processes, Statuses, IntentStatuses, Coherent
  <2>4. \A l \in {"relSearch", "relFree"} : worker' = [worker EXCEPT ![w] = r(l)] => WorkersOK'
    BY <2>3, StartOK
  <2> QED BY <1>4, <2>4, RestOK DEF ReleaseClaim
<1>5. CASE ReleaseSearch(w)
  BY <1>5, GoWithOK, RestOK DEF ReleaseSearch, Found
<1>6. CASE ReleaseStamp(w)
  BY <1>6, GoOK, RestOK DEF ReleaseStamp
<1>7. CASE ReleaseRetrieve(w)
  BY <1>7, GoOK, RestOK DEF ReleaseRetrieve
<1>8. CASE ReleaseCancel(w)
  BY <1>8, GoOK, RestOK DEF ReleaseCancel
<1>9. CASE ReleaseFreeze(w) \/ ReleaseFree(w) \/ ReleaseClose(w)
  BY <1>9, GoOK, RestOK DEF ReleaseFreeze, ReleaseFree, ReleaseClose
<1>10. CASE ForceRelease(w)
  BY <1>10, GoOK, RestOK DEF ForceRelease, ForceSearch, ForceList, ForceClose, ForceFree
<1> QED
  BY <1>1, <1>2, <1>3, <1>4, <1>5, <1>6, <1>7, <1>8, <1>9, <1>10 DEF ConfirmStep, Release

\* So does every step.
LEMMA StartWorkers ==
  ASSUME TypeOK, RefsOK, Next
  PROVE  WorkersOK'
<1>0. WorkersOK
  BY DEF RefsOK
<1>1. ASSUME NEW w \in Collectors, NEW b \in Batches, Scan(w, b) PROVE WorkersOK'
  <2> DEFINE h == IF Branch(b) \in {"poll", "retry"} THEN stamp[b] ELSE None
             r == Process(Branch(b), b, status[b], h, "absent", None)
  <2>1. status[b] \in Statuses /\ stamp[b] \in IntentsOf(b) \cup {None} /\ stamp[b] \in PaymentIntents \cup {None}
    BY DEF RefsOK, TypeOK
  <2>2. /\ Branch(b) \in {"release", "reread", "claim", "poll", "retry", "search"}
        /\ Branch(b) = "reread" => status[b] = "invoicing"
        /\ Branch(b) = "claim" => status[b] \in {"reserved", "funding_failed"}
        /\ Branch(b) = "search" => status[b] = "funding_failed"
        /\ Branch(b) \in {"poll", "retry"} => stamp[b] # None
    BY <1>1 DEF Scan, Branch
  <2>3. r \in Processes
    BY <2>1, <2>2 DEF Process, Processes, Labels, IntentStatuses
  <2>4. Coherent(r)
    BY <2>1, <2>2 DEF Process, Coherent, Holding
  <2> QED BY <1>0, <1>1, <2>3, <2>4, StartOK DEF Scan, Workers
<1>2. ASSUME NEW w \in Hooks, Hook(w) PROVE WorkersOK'
  <2> PICK e \in events : HookSucceeded(w, e) \/ HookFailed(w, e) \/ HookCanceled(w, e)
                            \/ HookClawback(w, e)
    BY <1>2 DEF Hook
  <2> DEFINE r(l) == Process(l, e[2][1], status[e[2][1]], e[2], intent[e[2]], e)
  <2>1. e \in Events /\ e[2] \in IntentsOf(e[2][1]) /\ e[2] \in PaymentIntents /\ e[2][1] \in Batches
    BY DEF TypeOK, Events, PaymentIntents, IntentsOf
  <2>2. status[e[2][1]] \in Statuses /\ intent[e[2]] \in IntentStatuses /\ e[2] # None
    BY <2>1, CollectionAssumption DEF TypeOK
  <2>3. \A l \in {"confirm", "release"} : r(l) \in Processes /\ Coherent(r(l))
    BY <2>1, <2>2 DEF Process, Processes, Labels, Coherent, Holding
  <2>4. \A l \in {"confirm", "release"} : Handling(w, e, l) => WorkersOK'
    BY <1>0, <2>3, StartOK DEF Handling, Workers
  <2>5. worker' = worker => WorkersOK'
    BY <1>0 DEF WorkersOK
  <2> QED BY <2>4, <2>5 DEF HookSucceeded, HookFailed, HookCanceled, HookClawback
<1>3. ASSUME NEW w \in Operators, NEW b \in Batches, ForceRead(w, b) PROVE WorkersOK'
  <2> DEFINE r == Process("forceSearch", b, "absent", None, "absent", None)
  <2>1. r \in Processes /\ Coherent(r)
    BY DEF Process, Processes, Labels, Statuses, IntentStatuses, Coherent, Holding
  <2> QED BY <1>0, <1>3, <2>1, StartOK DEF ForceRead, Workers
<1>4. ASSUME NEW w \in Workers, ReleaseCallFails(w) \/ Crash(w) PROVE WorkersOK'
  BY <1>0, <1>4, RestOK DEF ReleaseCallFails, Crash, Return, Throw
<1>5. ASSUME NEW w \in Workers, Step(w) PROVE WorkersOK'
  BY <1>5, CollectWorkers, ReleaseWorkers DEF Step
<1>6. UNCHANGED worker => WorkersOK'
  BY <1>0 DEF WorkersOK
<1>7. ASSUME NEW b \in Batches, Reserve(b) \/ Tick(b) PROVE WorkersOK'
  BY <1>6, <1>7 DEF Reserve, Tick, TimeOut, QuietHour, ExpireKey
<1>8. ASSUME NEW c \in Commissions, Reversal(c) PROVE WorkersOK'
  BY <1>6, <1>8 DEF Reversal, ReverseFree, ReverseReserved, ReverseInFlight
<1>9. ASSUME NEW p \in PaymentIntents, Bank(p) PROVE WorkersOK'
  BY <1>6, <1>9 DEF Bank, DebitSucceeds, DebitFails, BankDebit, ExternalCancel, ChargeReturned, Index
<1>10. ASSUME NEW r \in requests, StripeCreate(r) PROVE WorkersOK'
  BY <1>6, <1>10 DEF StripeCreate
<1>11. ASSUME NEW e \in events, LoseEvent(e) PROVE WorkersOK'
  BY <1>6, <1>11 DEF LoseEvent
<1> QED
  BY <1>1, <1>2, <1>3, <1>4, <1>5, <1>7, <1>8, <1>9, <1>10, <1>11 DEF Next, Running, Failing

\* The part of RefsOK that StampRow writes.
StampOK ==
  /\ stamp \in [Batches -> PaymentIntents \cup {None}]
  /\ quiet \in [Batches -> BOOLEAN]
  /\ \A b \in Batches : stamp[b] \in IntentsOf(b) \cup {None}

\* Writing the intent id of a row keeps its type, and keeps it an id of that row.
LEMMA StampType ==
  ASSUME StampOK, NEW b \in Batches, NEW p \in IntentsOf(b), StampRow(b, p)
  PROVE  StampOK'
  BY DEF StampOK, StampRow, IntentsOf

\* The collector keeps every variable of its type.
LEMMA CollectType ==
  ASSUME TypeOK, RefsOK, WorkersOK', NEW w \in Workers, Collect(w)
  PROVE  TypeOK' /\ RefsOK'
<1>a. worker[w].pc \in Holding => Hand(w) \in PaymentIntents /\ Hand(w) \in IntentsOf(Job(w))
  BY DEF RefsOK, WorkersOK, Coherent, Holding, Hand, Job, IntentsOf
<1>b. worker[w].pc # "idle" => Job(w) \in Batches
  BY DEF RefsOK, WorkersOK, Coherent, Job
<1>c. worker' \in [Workers -> Processes]
  BY DEF WorkersOK
<1> USE <1>a, <1>b, <1>c DEF TypeOK, RefsOK, Holding, At, ledger, stripe, clock
<1>1. CASE ClaimForCreate(w)
  BY <1>1 DEF ClaimForCreate, Cas, Statuses, Return
<1>2. CASE RereadInvoicing(w)
  BY <1>2 DEF RereadInvoicing, Return
<1>3. CASE SearchBeforeCreate(w)
  BY <1>3 DEF SearchBeforeCreate
<1>4. CASE AdoptStamp(w)
  <2>1. StampOK'
    BY <1>4, StampType DEF AdoptStamp, StampOK
  <2> QED BY <1>4, <2>1 DEF AdoptStamp, StampOK, Return
<1>5. CASE AdoptMove(w)
  BY <1>5 DEF AdoptMove, Cas, Statuses, Return
<1>6. CASE AdoptRetrieve(w)
  BY <1>6 DEF AdoptRetrieve, Return
<1>7. CASE Poll(w)
  BY <1>7 DEF Poll, Return
<1>8. CASE RetryRetrieve(w)
  BY <1>8 DEF RetryRetrieve, Return
<1>9. CASE RetryMovePaid(w)
  BY <1>9 DEF RetryMovePaid, Cas, Statuses
<1>10. CASE RetryConfirm(w)
  BY <1>10 DEF RetryConfirm, IntentStatuses
<1>11. CASE RetryRecord(w)
  BY <1>11 DEF RetryRecord, Cas, Statuses, Return
<1>12. CASE SendCreate(w)
  BY <1>12 DEF SendCreate
<1>13. CASE CreateReturns(w)
  BY <1>13 DEF CreateReturns
<1>14. CASE CreateFails(w)
  BY <1>14 DEF CreateFails
<1>15. CASE StampCreated(w)
  <2>1. StampOK'
    BY <1>15, StampType DEF StampCreated, StampOK
  <2>2. attempted' \in [Batches -> BOOLEAN]
    BY <1>15 DEF StampCreated
  <2> QED BY <1>15, <2>1, <2>2 DEF StampCreated, StampOK
<1>16. CASE MoveCreated(w)
  BY <1>16 DEF MoveCreated, Cas, Statuses, Return
<1>17. CASE RecordFailedIntent(w)
  <2>1. StampOK'
    BY <1>17, StampType DEF RecordFailedIntent, StampOK
  <2>2. attempted' \in [Batches -> BOOLEAN]
    BY <1>17 DEF RecordFailedIntent
  <2> QED BY <1>17, <2>1, <2>2 DEF RecordFailedIntent, StampOK
<1>18. CASE MoveCreateFailed(w)
  BY <1>18 DEF MoveCreateFailed, Cas, Statuses, Return
<1>19. CASE AbandonOrphan(w)
  BY <1>19 DEF AbandonOrphan, Cancels, CanceledEvent, Events, EventTypes, IntentStatuses
<1>20. CASE OrphanStamp(w)
  BY <1>20 DEF OrphanStamp, StampRow
<1>21. CASE OrphanReclaim(w)
  BY <1>21 DEF OrphanReclaim
<1>22. CASE OrphanFreeze(w)
  BY <1>22 DEF OrphanFreeze, Cas, Statuses, Return
<1> QED
  BY <1>1, <1>2, <1>3, <1>4, <1>5, <1>6, <1>7, <1>8, <1>9, <1>10, <1>11, <1>12, <1>13, <1>14,
     <1>15, <1>16, <1>17, <1>18, <1>19, <1>20, <1>21, <1>22 DEF Collect

\* So do confirmation, release and the forced release.
LEMMA ReleaseType ==
  ASSUME TypeOK, RefsOK, WorkersOK', NEW w \in Workers, ConfirmStep(w) \/ Release(w) \/ ForceRelease(w)
  PROVE  TypeOK' /\ RefsOK'
<1>a. worker[w].pc \in Holding => Hand(w) \in PaymentIntents /\ Hand(w) \in IntentsOf(Job(w))
  BY DEF RefsOK, WorkersOK, Coherent, Holding, Hand, Job, IntentsOf
<1>b. worker[w].pc # "idle" => Job(w) \in Batches
  BY DEF RefsOK, WorkersOK, Coherent, Job
<1>c. worker' \in [Workers -> Processes]
  BY DEF WorkersOK
<1> USE <1>a, <1>b, <1>c DEF TypeOK, RefsOK, Holding, At, ledger, stripe, clock
<1>1. CASE ConfirmStep(w)
  <2>1. ASSUME NEW rel \in BOOLEAN, Confirm(w, rel) PROVE TypeOK' /\ RefsOK'
    BY <2>1 DEF Confirm, Return
  <2>2. ASSUME NEW rel \in BOOLEAN, ConfirmWins(w, rel) PROVE TypeOK' /\ RefsOK'
    BY <2>2 DEF ConfirmWins, Cas, Statuses, Return
  <2>3. ASSUME NEW rel \in BOOLEAN, ConfirmLoses(w, rel) PROVE TypeOK' /\ RefsOK'
    BY <2>3 DEF ConfirmLoses, Cas, Statuses, Return, Throw
  <2> QED BY <1>1, <2>1, <2>2, <2>3 DEF ConfirmStep
<1>2. CASE ReleaseClaim(w)
  BY <1>2 DEF ReleaseClaim, Cas, Statuses, Return
<1>3. CASE ReleaseSearch(w)
  BY <1>3 DEF ReleaseSearch, Return
<1>4. CASE ReleaseStamp(w)
  <2>1. StampOK'
    BY <1>4, StampType DEF ReleaseStamp, StampOK
  <2> QED BY <1>4, <2>1 DEF ReleaseStamp, StampOK
<1>5. CASE ReleaseRetrieve(w)
  BY <1>5 DEF ReleaseRetrieve
<1>6. CASE ReleaseCancel(w)
  <2>1. intent' \in [PaymentIntents -> IntentStatuses]
    BY <1>6 DEF ReleaseCancel, Cancels, IntentStatuses
  <2>2. CanceledEvent(Hand(w)) \in SUBSET Events
    BY <1>6 DEF ReleaseCancel, CanceledEvent, Events, EventTypes
  <2>3. events' \in SUBSET Events
    BY <1>6, <2>2 DEF ReleaseCancel, Return
  <2> QED BY <1>6, <2>1, <2>3 DEF ReleaseCancel
<1>7. CASE ReleaseFreeze(w)
  BY <1>7 DEF ReleaseFreeze, Cas, Statuses, Return
<1>8. CASE ReleaseFree(w)
  BY <1>8 DEF ReleaseFree, FreeAllocations
<1>9. CASE ReleaseClose(w)
  BY <1>9 DEF ReleaseClose, Cas, Statuses, Return
<1>10. CASE ForceSearch(w)
  BY <1>10, StampType DEF ForceSearch, StampOK, Found, Return
<1>11. CASE ForceList(w)
  BY <1>11 DEF ForceList, Return
<1>12. CASE ForceClose(w)
  BY <1>12 DEF ForceClose, Cas, Statuses, Return
<1>13. CASE ForceFree(w)
  BY <1>13 DEF ForceFree, FreeAllocations, Return
<1> QED
  BY <1>1, <1>2, <1>3, <1>4, <1>5, <1>6, <1>7, <1>8, <1>9, <1>10, <1>11, <1>12, <1>13
     DEF Release, ForceRelease

\* So do the planner, the reversals, the webhooks, Stripe, the bank and the clock.
LEMMA OtherType ==
  ASSUME TypeOK, RefsOK, WorkersOK', Next, \A w \in Workers : ~ Step(w)
  PROVE  TypeOK' /\ RefsOK'
<1>c. worker' \in [Workers -> Processes]
  BY DEF WorkersOK
<1> USE <1>c DEF TypeOK, RefsOK, ledger, stripe, clock
<1>1. ASSUME NEW b \in Batches, Reserve(b) PROVE TypeOK' /\ RefsOK'
  BY <1>1 DEF Reserve, Statuses
<1>2. ASSUME NEW c \in Commissions, Reversal(c) PROVE TypeOK' /\ RefsOK'
  <2>1. CASE ReverseFree(c)
    BY <2>1 DEF ReverseFree
  <2>2. ASSUME NEW b \in Batches, ReverseReserved(b, c) PROVE TypeOK' /\ RefsOK'
    BY <2>2 DEF ReverseReserved, Statuses
  <2>3. ASSUME NEW b \in Batches, ReverseInFlight(b, c) PROVE TypeOK' /\ RefsOK'
    BY <2>3 DEF ReverseInFlight
  <2> QED BY <1>2, <2>1, <2>2, <2>3 DEF Reversal
<1>3. ASSUME NEW w \in Collectors, NEW b \in Batches, Scan(w, b) PROVE TypeOK' /\ RefsOK'
  BY <1>3 DEF Scan
<1>4. ASSUME NEW w \in Hooks, NEW e \in events,
             HookSucceeded(w, e) \/ HookFailed(w, e) \/ HookCanceled(w, e) \/ HookClawback(w, e)
      PROVE  TypeOK' /\ RefsOK'
  BY <1>4 DEF HookSucceeded, HookFailed, HookCanceled, HookClawback, Clawback, Cas, Statuses
<1>5. ASSUME NEW w \in Operators, NEW b \in Batches, ForceRead(w, b) PROVE TypeOK' /\ RefsOK'
  BY <1>5 DEF ForceRead
<1>6. ASSUME NEW w \in Workers, ReleaseCallFails(w) \/ Crash(w) PROVE TypeOK' /\ RefsOK'
  BY <1>6 DEF ReleaseCallFails, Crash, Return, Throw
<1>7. ASSUME NEW r \in requests, StripeCreate(r) PROVE TypeOK' /\ RefsOK'
  <2>1. r[1] \in Batches /\ r[2] \in SUBSET Commissions
    OBVIOUS
  <2>2. CASE UNCHANGED <<intent, amount, frozenKey>>
    BY <1>7, <2>2 DEF StripeCreate
  <2>3. ASSUME NEW p \in IntentsOf(r[1]), NEW s \in {"processing", "requires_payment_method"},
               intent' = [intent EXCEPT ![p] = s], amount' = [amount EXCEPT ![p] = r[2]],
               frozenKey' = [frozenKey EXCEPT ![r[1]] = p]
        PROVE  TypeOK' /\ RefsOK'
    <3>1. p \in PaymentIntents /\ s \in IntentStatuses
      BY DEF IntentsOf, IntentStatuses
    <3>2. /\ intent' \in [PaymentIntents -> IntentStatuses]
          /\ amount' \in [PaymentIntents -> SUBSET Commissions]
      BY <2>1, <2>3, <3>1
    <3>3. /\ frozenKey' \in [Batches -> PaymentIntents \cup {None}]
          /\ \A b \in Batches : frozenKey'[b] \in IntentsOf(b) \cup {None}
      BY <2>1, <2>3, <3>1
    <3> QED BY <1>7, <3>2, <3>3 DEF StripeCreate
  <2> QED BY <1>7, <2>2, <2>3 DEF StripeCreate
<1>8. ASSUME NEW p \in PaymentIntents, Bank(p) PROVE TypeOK' /\ RefsOK'
  <2>1. \A type \in EventTypes : {<<type, p>>} \in SUBSET Events
    BY DEF Events
  <2>2. CASE DebitSucceeds(p) \/ DebitFails(p)
    BY <2>1, <2>2 DEF DebitSucceeds, DebitFails, BankDebit, IntentStatuses, EventTypes
  <2>3. CASE ExternalCancel(p)
    BY <2>1, <2>3 DEF ExternalCancel, Cancels, CanceledEvent, IntentStatuses, EventTypes
  <2>4. CASE ChargeReturned(p)
    BY <2>1, <2>4 DEF ChargeReturned, IntentStatuses, EventTypes
  <2>5. CASE Index(p)
    BY <2>5 DEF Index
  <2> QED BY <1>8, <2>2, <2>3, <2>4, <2>5 DEF Bank
<1>9. ASSUME NEW e \in events, LoseEvent(e) PROVE TypeOK' /\ RefsOK'
  BY <1>9 DEF LoseEvent
<1>10. ASSUME NEW b \in Batches, Tick(b) PROVE TypeOK' /\ RefsOK'
  BY <1>10 DEF Tick, TimeOut, QuietHour, ExpireKey
<1> QED
  BY <1>1, <1>2, <1>3, <1>4, <1>5, <1>6, <1>7, <1>8, <1>9, <1>10
     DEF Next, Running, Failing, Hook

\* The initial state is well typed.
LEMMA InitType == Init => TypeOK /\ RefsOK
  BY RestingOK DEF Init, TypeOK, RefsOK, WorkersOK, Statuses, IntentStatuses, Events

\* Every step keeps it so.
LEMMA TypeStep == TypeOK /\ RefsOK /\ [Next]_vars => TypeOK' /\ RefsOK'
<1> SUFFICES ASSUME TypeOK, RefsOK, [Next]_vars PROVE TypeOK' /\ RefsOK'
  OBVIOUS
<1>1. CASE UNCHANGED vars
  BY <1>1 DEF TypeOK, RefsOK, WorkersOK, vars, ledger, stripe, clock
<1>2. CASE Next
  <2>1. WorkersOK'
    BY <1>2, StartWorkers
  <2>2. ASSUME NEW w \in Workers, Step(w) PROVE TypeOK' /\ RefsOK'
    BY <2>1, <2>2, CollectType, ReleaseType DEF Step
  <2> QED BY <1>2, <2>1, <2>2, OtherType
<1> QED BY <1>1, <1>2

\* Type correctness: every row, intent, event and process is of its type, and
\* a worker in the middle of a function has a batch to work on.
THEOREM TypeCorrect == Spec => []TypeOK
<1>1. Spec => [](TypeOK /\ RefsOK)
  BY InitType, TypeStep, PTL DEF Spec
<1> QED BY <1>1, PTL

-----------------------------------------------------------------------------
(* What a step may do to the rows, to Stripe and to a worker, as far as the   *)
(* rest of the invariant depends on it.                                       *)

RowMoves ==
  \A b \in Batches :
    /\ status[b] \in Closing => status'[b] \in Closing
    /\ status'[b] \in {"absent", "reserved"} => status[b] \in {"absent", "reserved"}
    /\ status'[b] = "payment_processing" => status[b] = "payment_processing" \/ stamp'[b] # None
    /\ status'[b] = "funding_failed" =>
         status[b] \in {"payment_processing", "funding_failed"} \/ attempted'[b]
    /\ status'[b] = "released" =>
         \/ status[b] \in {"reserved", "released"}
         \/ \E w \in Workers : Job(w) = b /\ worker[w].pc \in {"relClose", "forceClose"}
    /\ stamp[b] # None => stamp'[b] # None
    /\ stamp'[b] # None => Made(stamp'[b])
    /\ attempted[b] => attempted'[b]
    /\ quiet'[b] => quiet[b] \/ (status[b] = "release_requested" /\ AllIndexed(b) /\ ~ Creating(b))

StripeMoves ==
  /\ \A p \in PaymentIntents :
       /\ Made(p) => intent'[p] # "absent"
       /\ intent[p] = "canceled" => intent'[p] = "canceled"
       /\ ~ Made(p) /\ intent'[p] # "absent" =>
            /\ Sent(p[1]) /\ frozenKey[p[1]] = None /\ frozenKey'[p[1]] = p
            /\ \A q \in PaymentIntents \ {p} : intent'[q] = intent[q]
  /\ indexed \subseteq indexed'
  /\ \A p \in indexed' : Made(p)
  /\ \A b \in Batches :
       \/ frozenKey'[b] = frozenKey[b]
       \/ frozenKey'[b] # None /\ intent'[frozenKey'[b]] # "absent"
       \/ frozenKey'[b] = None /\ AllIndexed(b) /\ ~ Creating(b)
  /\ \A r \in requests' : Sent(r[1]) \/ \E w \in Workers : Job(w) = r[1] /\ At(w, "create")
  /\ \A e \in events' : Made(e[2])

WorkerMoves(w) ==
  LET l == worker'[w].pc
      b == worker'[w].job
      From(L) == Job(w) = b /\ worker[w].pc \in L
  IN
  /\ worker'[w].hand # None => Made(worker'[w].hand)
  /\ l = "claim" => status[b] = "reserved" \/ (From({"search"}) /\ Found(b) = {})
  /\ l = "search" => status[b] \in {"invoicing", "funding_failed"}
  /\ l = "create" =>
       \/ From({"claim"}) /\ status[b] \in {"reserved", "funding_failed"} /\ status'[b] = "invoicing"
       \/ From({"search"}) /\ Found(b) = {}
  /\ l = "await" => From({"create"})
  /\ l \in {"adopted", "stamped", "retry"} => stamp'[b] # None
  /\ l \in {"retryPaid", "retryConfirm", "retried"} => From({"retry", "retryConfirm"})
  /\ l \in {"relSearch", "relStamp", "relRetrieve", "relCancel"} => status'[b] \in Closing
  /\ l = "relFree" =>
       \/ Job(w) = b /\ status[b] = "reserved" /\ status'[b] \in Closing
       \/ From({"relRetrieve", "relCancel"}) /\ intent'[Hand(w)] = "canceled"
  /\ l = "relClose" => From({"relFree"})
  /\ l = "forceSearch" => quiet[b]
  /\ l = "forceList" => From({"forceSearch"}) /\ Found(b) = {}
  /\ l = "forceClose" => From({"forceList"})
  /\ l = "forceFree" => From({"forceClose"})

Moves ==
  /\ RowMoves
  /\ StripeMoves
  /\ \A w \in Workers : worker'[w] = worker[w] \/ WorkerMoves(w)

Others(w) == \A x \in Workers \ {w} : worker'[x] = worker[x]

\* The process a Go leaves, and that the others stay.
LEMMA GoIs ==
  ASSUME WorkersOK, NEW w \in Workers, NEW l, Go(w, l)
  PROVE  /\ worker'[w].pc = l /\ worker'[w].job = Job(w) /\ worker'[w].hand = Hand(w)
         /\ Others(w)
  BY DEF WorkersOK, Processes, Go, Job, Hand, Others

\* The same of GoWith.
LEMMA GoWithIs ==
  ASSUME WorkersOK, NEW w \in Workers, NEW l, NEW p, GoWith(w, l, p)
  PROVE  /\ worker'[w].pc = l /\ worker'[w].job = Job(w) /\ worker'[w].hand = p
         /\ Others(w)
  BY DEF WorkersOK, Processes, GoWith, Job, Hand, Others

\* The same of GoSeeing.
LEMMA GoSeeingIs ==
  ASSUME WorkersOK, NEW w \in Workers, NEW l, NEW p, GoSeeing(w, l, p)
  PROVE  /\ worker'[w].pc = l /\ worker'[w].job = Job(w) /\ worker'[w].hand = p
         /\ Others(w)
  BY DEF WorkersOK, Processes, GoSeeing, Job, Hand, Others

\* The same of a return.
LEMMA RestIs ==
  ASSUME WorkersOK, NEW w \in Workers, worker' = [worker EXCEPT ![w] = Resting]
  PROVE  worker'[w].pc = "idle" /\ worker'[w].hand = None /\ Others(w)
  BY DEF WorkersOK, Resting, Process, Others

\* The same of the start of a function.
LEMMA StartIs ==
  ASSUME WorkersOK, NEW w \in Workers, NEW l, NEW b, NEW s, NEW p, NEW v, NEW e,
         worker' = [worker EXCEPT ![w] = Process(l, b, s, p, v, e)]
  PROVE  worker'[w].pc = l /\ worker'[w].job = b /\ worker'[w].hand = p /\ Others(w)
  BY DEF WorkersOK, Process, Others

\* A step of the collector is a move of its worker.
LEMMA CollectWorkerMoves ==
  ASSUME TypeOK, RefsOK, Known, Stamped, NEW w \in Workers, Collect(w)
  PROVE  WorkerMoves(w) /\ Others(w)
<1>0. WorkersOK
  BY DEF RefsOK
<1>a. Hand(w) # None => Made(Hand(w))
  BY DEF Known
<1>b. worker[w].pc # "idle" => Job(w) \in Batches
  BY <1>0 DEF WorkersOK, Coherent, Job
<1>c. worker[w].pc = "search" => worker[w].seen \in {"invoicing", "funding_failed"}
  BY <1>0 DEF WorkersOK, Coherent
<1>d. worker[w].pc = "claim" => worker[w].seen \in {"reserved", "funding_failed"}
  BY <1>0 DEF WorkersOK, Coherent
<1>e. worker[w].pc \in Holding => Hand(w) # None
  BY <1>0 DEF WorkersOK, Coherent, Hand
<1>f. stamp \in [Batches -> PaymentIntents \cup {None}] /\ status \in [Batches -> Statuses]
  BY DEF TypeOK
<1>g. \A p \in indexed : Made(p)
  BY DEF Known
<1>h. \A b \in Batches : frozenKey[b] # None => Made(frozenKey[b])
  BY DEF Known
<1> USE <1>0, <1>a, <1>b, GoIs, RestIs DEF WorkerMoves, At, Return, Throw
<1>1. CASE ClaimForCreate(w)
  BY <1>1, <1>d, <1>f DEF ClaimForCreate, Cas
<1>2. CASE RereadInvoicing(w)
  BY <1>2 DEF RereadInvoicing
<1>3. CASE SearchBeforeCreate(w)
  BY <1>3, <1>c, <1>g, GoSeeingIs DEF SearchBeforeCreate, Found
<1>4. CASE AdoptStamp(w)
  BY <1>4, <1>e, <1>f DEF AdoptStamp, StampRow, Holding
<1>5. CASE AdoptMove(w)
  BY <1>5 DEF AdoptMove
<1>6. CASE AdoptRetrieve(w)
  BY <1>6, GoSeeingIs DEF AdoptRetrieve
<1>7. CASE Poll(w)
  BY <1>7, GoSeeingIs DEF Poll
<1>8. CASE RetryRetrieve(w)
  BY <1>8, GoSeeingIs DEF RetryRetrieve
<1>9. CASE RetryMovePaid(w)
  BY <1>9 DEF RetryMovePaid
<1>10. CASE RetryConfirm(w)
  BY <1>10 DEF RetryConfirm
<1>11. CASE RetryRecord(w)
  BY <1>11 DEF RetryRecord
<1>12. CASE SendCreate(w)
  BY <1>12 DEF SendCreate
<1>13. CASE CreateReturns(w)
  BY <1>13, <1>h, GoWithIs DEF CreateReturns
<1>14. CASE CreateFails(w)
  BY <1>14 DEF CreateFails
<1>15. CASE StampCreated(w)
  BY <1>15, <1>e, <1>f DEF StampCreated, StampRow, Holding
<1>16. CASE MoveCreated(w)
  BY <1>16 DEF MoveCreated
<1>17. CASE RecordFailedIntent(w)
  BY <1>17 DEF RecordFailedIntent
<1>18. CASE MoveCreateFailed(w)
  BY <1>18 DEF MoveCreateFailed
<1>19. CASE AbandonOrphan(w)
  BY <1>19 DEF AbandonOrphan
<1>20. CASE OrphanStamp(w)
  BY <1>20 DEF OrphanStamp
<1>21. CASE OrphanReclaim(w)
  BY <1>21 DEF OrphanReclaim
<1>22. CASE OrphanFreeze(w)
  BY <1>22 DEF OrphanFreeze
<1> QED
  BY <1>1, <1>2, <1>3, <1>4, <1>5, <1>6, <1>7, <1>8, <1>9, <1>10, <1>11, <1>12, <1>13, <1>14,
     <1>15, <1>16, <1>17, <1>18, <1>19, <1>20, <1>21, <1>22 DEF Collect

\* So is a step of confirmation, release or the forced release.
LEMMA ReleaseWorkerMoves ==
  ASSUME TypeOK, RefsOK, Known, Freeing, NEW w \in Workers,
         ConfirmStep(w) \/ Release(w) \/ ForceRelease(w)
  PROVE  WorkerMoves(w) /\ Others(w)
<1>0. WorkersOK /\ status \in [Batches -> Statuses]
  BY DEF RefsOK, TypeOK
<1>a. Hand(w) # None => Made(Hand(w))
  BY DEF Known
<1>b. worker[w].pc # "idle" => Job(w) \in Batches
  BY <1>0 DEF WorkersOK, Coherent, Job
<1>c. worker[w].pc \in {"relSearch", "relStamp", "relRetrieve", "relCancel"} => status[Job(w)] \in Closing
  BY DEF Freeing
<1>d. \A p \in indexed : Made(p)
  BY DEF Known
<1> USE <1>0, <1>a, <1>b, GoIs, RestIs DEF WorkerMoves, At, Return, Throw
<1>1. ASSUME NEW rel \in BOOLEAN, Confirm(w, rel) PROVE WorkerMoves(w) /\ Others(w)
  BY <1>1 DEF Confirm
<1>2. ASSUME NEW rel \in BOOLEAN, ConfirmWins(w, rel) PROVE WorkerMoves(w) /\ Others(w)
  BY <1>2 DEF ConfirmWins
<1>3. ASSUME NEW rel \in BOOLEAN, ConfirmLoses(w, rel) PROVE WorkerMoves(w) /\ Others(w)
  BY <1>3 DEF ConfirmLoses
<1>4. CASE ReleaseClaim(w)
  <2> DEFINE at(l) == IF stamp[Job(w)] # None THEN "relRetrieve" ELSE l
             claimed(l) == worker' = [worker EXCEPT ![w] =
               Process(at(l), Job(w), "absent", stamp[Job(w)], "absent", worker[w].evt)]
  <2>1. Job(w) \in Batches
    BY <1>4 DEF ReleaseClaim
  <2>2. stamp[Job(w)] # None => Made(stamp[Job(w)])
    BY <2>1 DEF Known
  <2>3. at("relSearch") \in {"relSearch", "relRetrieve"} /\ at("relFree") \in {"relFree", "relRetrieve"}
    OBVIOUS
  <2>4. \/ claimed("relSearch") /\ status'[Job(w)] = "release_requested"
        \/ claimed("relFree") /\ status[Job(w)] = "reserved" /\ status'[Job(w)] = "release_requested"
        \/ Return(w)
    BY <1>4, <2>1 DEF ReleaseClaim, Cas
  <2> HIDE DEF at
  <2>5. ASSUME NEW l, claimed(l)
        PROVE  worker'[w].pc = at(l) /\ worker'[w].job = Job(w) /\ worker'[w].hand = stamp[Job(w)]
                 /\ Others(w)
    BY <2>5, StartIs
  <2> HIDE DEF claimed
  <2>6. CASE claimed("relSearch") /\ status'[Job(w)] = "release_requested"
    BY <2>2, <2>3, <2>5, <2>6 DEF Closing
  <2>7. CASE claimed("relFree") /\ status[Job(w)] = "reserved" /\ status'[Job(w)] = "release_requested"
    BY <2>2, <2>3, <2>5, <2>7 DEF Closing
  <2> QED BY <2>4, <2>6, <2>7
<1>5. CASE ReleaseSearch(w)
  BY <1>5, <1>c, <1>d, GoWithIs DEF ReleaseSearch, Found, ledger
<1>6. CASE ReleaseStamp(w)
  BY <1>6, <1>c DEF ReleaseStamp
<1>7. CASE ReleaseRetrieve(w)
  BY <1>7, <1>c DEF ReleaseRetrieve, ledger, stripe
<1>8. CASE ReleaseCancel(w)
  <2>1. Hand(w) \in PaymentIntents /\ intent \in [PaymentIntents -> IntentStatuses]
    BY <1>8 DEF ReleaseCancel, WorkersOK, Coherent, Holding, Hand, Job, IntentsOf, TypeOK
  <2> QED BY <1>8, <2>1 DEF ReleaseCancel, Cancels
<1>9. CASE ReleaseFreeze(w) \/ ReleaseFree(w) \/ ReleaseClose(w)
  BY <1>9 DEF ReleaseFreeze, ReleaseFree, ReleaseClose
<1>10. CASE ForceRelease(w)
  BY <1>10 DEF ForceRelease, ForceSearch, ForceList, ForceClose, ForceFree
<1> QED
  BY <1>1, <1>2, <1>3, <1>4, <1>5, <1>6, <1>7, <1>8, <1>9, <1>10 DEF ConfirmStep, Release

\* So is every step, whatever makes it.
LEMMA NextWorkerMoves ==
  ASSUME TypeOK, RefsOK, Known, Stamped, Freeing, Next
  PROVE  \A w \in Workers : worker'[w] = worker[w] \/ WorkerMoves(w)
<1> DEFINE P == \A w \in Workers : worker'[w] = worker[w] \/ WorkerMoves(w)
<1>0. WorkersOK /\ \A p \in indexed : Made(p)
  BY DEF RefsOK, Known
<1>a. ASSUME NEW w \in Workers, WorkerMoves(w), Others(w) PROVE P
  BY <1>a DEF Others
<1>1. ASSUME NEW w \in Collectors, NEW b \in Batches, Scan(w, b) PROVE P
  <2> DEFINE h == IF Branch(b) \in {"poll", "retry"} THEN stamp[b] ELSE None
  <2>1. w \in Workers /\ worker' = [worker EXCEPT ![w] = Process(Branch(b), b, status[b], h, "absent", None)]
    BY <1>1 DEF Scan, Workers
  <2>2. /\ Branch(b) \in {"release", "reread", "claim", "poll", "retry", "search"}
        /\ Branch(b) = "claim" => status[b] = "reserved"
        /\ Branch(b) = "search" => status[b] = "funding_failed"
        /\ Branch(b) \in {"poll", "retry"} => stamp[b] # None
    BY <1>1 DEF Scan, Branch, Stamped
  <2>3. h # None => Made(h)
    BY DEF Known
  <2> HIDE DEF h
  <2>4. worker'[w].pc = Branch(b) /\ worker'[w].job = b /\ worker'[w].hand = h /\ Others(w)
    BY <1>0, <2>1, StartIs
  <2>5. stamp' = stamp
    BY <1>1 DEF Scan, ledger
  <2>6. WorkerMoves(w)
    BY <2>2, <2>3, <2>4, <2>5 DEF WorkerMoves
  <2> QED BY <1>a, <2>1, <2>4, <2>6
<1>2. ASSUME NEW w \in Hooks, Hook(w) PROVE P
  <2> PICK e \in events : HookSucceeded(w, e) \/ HookFailed(w, e) \/ HookCanceled(w, e)
                            \/ HookClawback(w, e)
    BY <1>2 DEF Hook
  <2>1. w \in Workers /\ Made(e[2])
    BY DEF Workers, Known
  <2>2. ASSUME Handling(w, e, "confirm") \/ Handling(w, e, "release") PROVE P
    <3>1. worker'[w].pc \in {"confirm", "release"} /\ worker'[w].hand = e[2] /\ Others(w)
      BY <1>0, <2>1, <2>2, StartIs DEF Handling
    <3> QED BY <1>a, <2>1, <3>1 DEF WorkerMoves
  <2>3. CASE UNCHANGED worker
    BY <2>3
  <2> QED BY <2>2, <2>3 DEF HookSucceeded, HookFailed, HookCanceled, HookClawback
<1>3. ASSUME NEW w \in Operators, NEW b \in Batches, ForceRead(w, b) PROVE P
  <2>1. w \in Workers /\ quiet[b]
           /\ worker' = [worker EXCEPT ![w] = Process("forceSearch", b, "absent", None, "absent", None)]
    BY <1>3 DEF ForceRead, Workers
  <2>2. worker'[w].pc = "forceSearch" /\ worker'[w].job = b /\ worker'[w].hand = None /\ Others(w)
    BY <1>0, <2>1, StartIs
  <2> QED BY <1>a, <2>1, <2>2 DEF WorkerMoves
<1>4. ASSUME NEW w \in Workers, ReleaseCallFails(w) \/ Crash(w) PROVE P
  <2>1. worker'[w].pc = "idle" /\ worker'[w].hand = None /\ Others(w)
    BY <1>0, <1>4, RestIs DEF ReleaseCallFails, Crash, Return, Throw
  <2> QED BY <1>a, <2>1 DEF WorkerMoves
<1>5. ASSUME NEW w \in Workers, Step(w) PROVE P
  BY <1>5, <1>a, CollectWorkerMoves, ReleaseWorkerMoves DEF Step
<1>6. UNCHANGED worker => P
  OBVIOUS
<1>7. ASSUME NEW b \in Batches, Reserve(b) \/ Tick(b) PROVE P
  BY <1>6, <1>7 DEF Reserve, Tick, TimeOut, QuietHour, ExpireKey
<1>8. ASSUME NEW c \in Commissions, Reversal(c) PROVE P
  BY <1>6, <1>8 DEF Reversal, ReverseFree, ReverseReserved, ReverseInFlight
<1>9. ASSUME NEW p \in PaymentIntents, Bank(p) PROVE P
  BY <1>6, <1>9 DEF Bank, DebitSucceeds, DebitFails, BankDebit, ExternalCancel, ChargeReturned, Index
<1>10. ASSUME NEW r \in requests, StripeCreate(r) PROVE P
  BY <1>6, <1>10 DEF StripeCreate
<1>11. ASSUME NEW e \in events, LoseEvent(e) PROVE P
  BY <1>6, <1>11 DEF LoseEvent
<1> QED
  BY <1>1, <1>2, <1>3, <1>4, <1>5, <1>7, <1>8, <1>9, <1>10, <1>11 DEF Next, Running, Failing

\* A step that writes none of the columns is a move of the rows.
LEMMA RowsKept ==
  ASSUME Known, UNCHANGED <<status, stamp, attempted, quiet>>
  PROVE  RowMoves
  BY DEF Known, RowMoves, Closing

\* So is a write of the intent id of one row.
LEMMA RowStamped ==
  ASSUME Known, TypeOK, NEW b \in Batches, NEW p, p # None, Made(p), StampRow(b, p),
         UNCHANGED status, attempted' = [attempted EXCEPT ![b] = TRUE] \/ UNCHANGED attempted
  PROVE  RowMoves
  BY DEF Known, TypeOK, StampRow, RowMoves, Closing

\* A step that writes nothing but the status of one row, not to a status out of
\* which money is collected.
LEMMA RowClosed ==
  ASSUME Known, TypeOK, NEW b \in Batches, NEW to \in Closing \ {"released"},
         status' = [status EXCEPT ![b] = to], UNCHANGED <<stamp, attempted, quiet>>
  PROVE  RowMoves
  BY DEF Known, TypeOK, RowMoves, Closing

\* Every step of the collector is a move of the rows.
LEMMA CollectRowMoves ==
  ASSUME TypeOK, RefsOK, Known, Stamped, NEW w \in Workers, Collect(w)
  PROVE  RowMoves
<1>0. status \in [Batches -> Statuses] /\ attempted \in [Batches -> BOOLEAN]
  BY DEF TypeOK
<1>a. worker[w].pc # "idle" => Job(w) \in Batches
  BY DEF RefsOK, WorkersOK, Coherent, Job
<1>b. worker[w].pc \in Holding => Hand(w) # None /\ Made(Hand(w))
  BY DEF RefsOK, WorkersOK, Coherent, Hand, Known
<1>c. worker[w].pc = "claim" => worker[w].seen \in {"reserved", "funding_failed"}
  BY DEF RefsOK, WorkersOK, Coherent
<1>d. worker[w].pc = "adopted" => worker[w].seen \in {"invoicing", "funding_failed"}
  BY DEF RefsOK, WorkersOK, Coherent
<1>e. worker[w].pc \in {"adopted", "stamped", "retryPaid", "retried"} => stamp[Job(w)] # None
  BY DEF Stamped
<1>f. \A b \in Batches : stamp[b] # None => Made(stamp[b])
  BY DEF Known
<1> USE <1>0, <1>a, <1>b, <1>f DEF At, Holding, ledger, stripe, clock
<1>1. CASE ClaimForCreate(w)
  BY <1>1, <1>c DEF ClaimForCreate, Cas, RowMoves, Closing
<1>2. CASE RereadInvoicing(w) \/ SearchBeforeCreate(w) \/ AdoptRetrieve(w) \/ Poll(w)
           \/ RetryRetrieve(w) \/ RetryConfirm(w) \/ SendCreate(w) \/ CreateReturns(w)
           \/ CreateFails(w) \/ AbandonOrphan(w) \/ OrphanReclaim(w)
  BY <1>2, RowsKept DEF RereadInvoicing, SearchBeforeCreate, AdoptRetrieve, Poll, RetryRetrieve,
       RetryConfirm, SendCreate, CreateReturns, CreateFails, AbandonOrphan, OrphanReclaim
<1>3. CASE AdoptStamp(w)
  BY <1>3, RowsKept, RowStamped DEF AdoptStamp
<1>4. CASE AdoptMove(w)
  BY <1>4, <1>d, <1>e DEF AdoptMove, Cas, RowMoves, Closing
<1>5. CASE RetryMovePaid(w)
  BY <1>5, <1>e DEF RetryMovePaid, Cas, RowMoves, Closing
<1>6. CASE RetryRecord(w)
  BY <1>6, <1>e DEF RetryRecord, Cas, RowMoves, Closing
<1>7. CASE StampCreated(w)
  BY <1>7, RowsKept, RowStamped DEF StampCreated
<1>8. CASE MoveCreated(w)
  BY <1>8, <1>e DEF MoveCreated, Cas, RowMoves, Closing
<1>9. CASE RecordFailedIntent(w)
  BY <1>9, RowsKept, RowStamped DEF RecordFailedIntent
<1>10. CASE MoveCreateFailed(w)
  BY <1>10 DEF MoveCreateFailed, Cas, RowMoves, Closing
<1>11. CASE OrphanStamp(w)
  BY <1>11, RowStamped DEF OrphanStamp
<1>12. CASE OrphanFreeze(w)
  BY <1>12, RowsKept, RowClosed DEF OrphanFreeze, Cas, Closing
<1> QED
  BY <1>1, <1>2, <1>3, <1>4, <1>5, <1>6, <1>7, <1>8, <1>9, <1>10, <1>11, <1>12 DEF Collect

\* So is every step of confirmation, release and the forced release.
LEMMA ReleaseRowMoves ==
  ASSUME TypeOK, RefsOK, Known, NEW w \in Workers, ConfirmStep(w) \/ Release(w) \/ ForceRelease(w)
  PROVE  RowMoves
<1>0. status \in [Batches -> Statuses]
  BY DEF TypeOK
<1>a. worker[w].pc # "idle" => Job(w) \in Batches
  BY DEF RefsOK, WorkersOK, Coherent, Job
<1>b. worker[w].pc \in Holding => Hand(w) # None /\ Made(Hand(w))
  BY DEF RefsOK, WorkersOK, Coherent, Hand, Known
<1>c. \A b \in Batches : stamp[b] # None => Made(stamp[b])
  BY DEF Known
<1> USE <1>0, <1>a, <1>b DEF At, Holding, ledger, stripe, clock
<1>1. CASE ConfirmStep(w)
  <2>1. ASSUME NEW rel \in BOOLEAN, Confirm(w, rel) PROVE RowMoves
    BY <2>1, RowsKept DEF Confirm
  <2>2. ASSUME NEW rel \in BOOLEAN, ConfirmWins(w, rel) PROVE RowMoves
    BY <2>2, RowClosed DEF ConfirmWins, Cas, Closing
  <2>3. ASSUME NEW rel \in BOOLEAN, ConfirmLoses(w, rel) PROVE RowMoves
    BY <2>3, RowsKept, RowClosed DEF ConfirmLoses, Cas, Closing
  <2> QED BY <1>1, <2>1, <2>2, <2>3 DEF ConfirmStep
<1>2. CASE ReleaseClaim(w)
  BY <1>2, RowsKept, RowClosed DEF ReleaseClaim, Cas, Closing
<1>3. CASE ReleaseSearch(w) \/ ReleaseRetrieve(w) \/ ReleaseCancel(w) \/ ReleaseFree(w)
  BY <1>3, RowsKept DEF ReleaseSearch, ReleaseRetrieve, ReleaseCancel, ReleaseFree
<1>4. CASE ReleaseStamp(w)
  BY <1>4, RowsKept, RowStamped DEF ReleaseStamp
<1>5. CASE ReleaseFreeze(w)
  BY <1>5, RowsKept, RowClosed DEF ReleaseFreeze, Cas, Closing
<1>6. CASE ReleaseClose(w)
  BY <1>6, <1>c DEF ReleaseClose, Cas, RowMoves, Closing
<1>7. CASE ForceSearch(w)
  <2>1. ASSUME NEW p \in Found(Job(w)) PROVE p # None /\ Made(p)
    BY CollectionAssumption DEF Found, IntentsOf, Known
  <2> QED BY <1>7, <2>1, RowsKept, RowStamped DEF ForceSearch
<1>8. CASE ForceList(w) \/ ForceFree(w)
  BY <1>8, RowsKept DEF ForceList, ForceFree
<1>9. CASE ForceClose(w)
  BY <1>9, <1>c DEF ForceClose, Cas, RowMoves, Closing
<1> QED
  BY <1>1, <1>2, <1>3, <1>4, <1>5, <1>6, <1>7, <1>8, <1>9 DEF Release, ForceRelease

\* So is every step.
LEMMA NextRowMoves ==
  ASSUME TypeOK, RefsOK, Known, Stamped, Next
  PROVE  RowMoves
<1>0. /\ status \in [Batches -> Statuses] /\ quiet \in [Batches -> BOOLEAN]
      /\ \A b \in Batches : stamp[b] # None => Made(stamp[b])
  BY DEF TypeOK, Known
<1> USE <1>0 DEF ledger, stripe, clock
<1>1. ASSUME NEW w \in Workers, Step(w) PROVE RowMoves
  BY <1>1, CollectRowMoves, ReleaseRowMoves DEF Step
<1>2. ASSUME NEW b \in Batches, Reserve(b) PROVE RowMoves
  BY <1>2 DEF Reserve, RowMoves, Closing
<1>3. ASSUME NEW c \in Commissions, Reversal(c) PROVE RowMoves
  <2>1. CASE ReverseFree(c)
    BY <2>1, RowsKept DEF ReverseFree
  <2>2. ASSUME NEW b \in Batches, ReverseReserved(b, c) PROVE RowMoves
    BY <2>2 DEF ReverseReserved, RowMoves, Closing
  <2>3. ASSUME NEW b \in Batches, ReverseInFlight(b, c) PROVE RowMoves
    BY <2>3, RowsKept DEF ReverseInFlight
  <2> QED BY <1>3, <2>1, <2>2, <2>3 DEF Reversal
<1>4. ASSUME NEW w \in Hooks, NEW e \in events,
             HookSucceeded(w, e) \/ HookFailed(w, e) \/ HookCanceled(w, e) \/ HookClawback(w, e)
      PROVE  RowMoves
  <2>1. e[2][1] \in Batches
    BY DEF TypeOK, Events, PaymentIntents
  <2>2. CASE HookSucceeded(w, e) \/ HookCanceled(w, e)
    BY <2>2, RowsKept DEF HookSucceeded, HookCanceled
  <2>3. CASE HookFailed(w, e)
    BY <2>1, <2>3 DEF HookFailed, Cas, RowMoves, Closing
  <2>4. CASE HookClawback(w, e)
    BY <2>1, <2>4, RowsKept, RowClosed DEF HookClawback, Clawback, Cas, Closing
  <2> QED BY <1>4, <2>2, <2>3, <2>4
<1>5. ASSUME UNCHANGED <<status, stamp, attempted, quiet>> PROVE RowMoves
  BY <1>5, RowsKept
<1>6. ASSUME NEW w \in Workers, NEW b \in Batches, Scan(w, b) \/ ForceRead(w, b) PROVE RowMoves
  BY <1>5, <1>6 DEF Scan, ForceRead
<1>7. ASSUME NEW w \in Workers, ReleaseCallFails(w) \/ Crash(w) PROVE RowMoves
  BY <1>5, <1>7 DEF ReleaseCallFails, Crash
<1>8. ASSUME NEW r \in requests, StripeCreate(r) PROVE RowMoves
  BY <1>5, <1>8 DEF StripeCreate
<1>9. ASSUME NEW p \in PaymentIntents, Bank(p) PROVE RowMoves
  BY <1>5, <1>9 DEF Bank, DebitSucceeds, DebitFails, BankDebit, ExternalCancel, ChargeReturned, Index
<1>10. ASSUME NEW e \in events, LoseEvent(e) PROVE RowMoves
  BY <1>5, <1>10 DEF LoseEvent
<1>11. ASSUME NEW b \in Batches, TimeOut(b) \/ ExpireKey(b) PROVE RowMoves
  BY <1>5, <1>11 DEF TimeOut, ExpireKey
<1>12. ASSUME NEW b \in Batches, QuietHour(b) PROVE RowMoves
  BY <1>12 DEF QuietHour, RowMoves
<1> QED
  BY <1>1, <1>2, <1>3, <1>4, <1>6, <1>7, <1>8, <1>9, <1>10, <1>11, <1>12
     DEF Next, Running, Failing, Hook, Tick, Workers

\* Stripe is as it was but for events that were acknowledged.
LEMMA StripeKept ==
  ASSUME Known, UNCHANGED <<intent, indexed, frozenKey, requests>>, events' \subseteq events
  PROVE  StripeMoves
  BY DEF Known, StripeMoves, Made, Sent

\* Nothing happened but that one intent took another status.
LEMMA StripeSet ==
  ASSUME Known, TypeOK, NEW p \in PaymentIntents, NEW s \in IntentStatuses \ {"absent"},
         Made(p), intent[p] # "canceled", intent' = [intent EXCEPT ![p] = s],
         \A e \in events' : e \in events \/ e[2] = p,
         UNCHANGED <<indexed, frozenKey, requests>>
  PROVE  StripeMoves
  BY DEF Known, TypeOK, StripeMoves, Made, Sent

\* Every step of the collector is a move of Stripe.
LEMMA CollectStripeMoves ==
  ASSUME TypeOK, RefsOK, Known, NEW w \in Workers, Collect(w)
  PROVE  StripeMoves
<1>a. worker[w].pc \in Holding => Hand(w) \in PaymentIntents /\ Made(Hand(w))
  BY DEF RefsOK, WorkersOK, Coherent, Holding, Hand, Job, IntentsOf, Known
<1> USE <1>a DEF At, Holding, ledger, stripe, clock, Return
<1>1. CASE ClaimForCreate(w) \/ RereadInvoicing(w) \/ SearchBeforeCreate(w) \/ AdoptStamp(w)
           \/ AdoptMove(w) \/ AdoptRetrieve(w) \/ Poll(w) \/ RetryRetrieve(w) \/ RetryMovePaid(w)
           \/ RetryRecord(w) \/ CreateReturns(w) \/ StampCreated(w) \/ MoveCreated(w)
           \/ RecordFailedIntent(w) \/ MoveCreateFailed(w) \/ OrphanStamp(w) \/ OrphanReclaim(w)
           \/ OrphanFreeze(w)
  BY <1>1, StripeKept DEF ClaimForCreate, RereadInvoicing, SearchBeforeCreate, AdoptStamp,
       AdoptMove, AdoptRetrieve, Poll, RetryRetrieve, RetryMovePaid, RetryRecord, CreateReturns,
       StampCreated, MoveCreated, RecordFailedIntent, MoveCreateFailed, OrphanStamp,
       OrphanReclaim, OrphanFreeze
<1>2. CASE RetryConfirm(w)
  BY <1>2, StripeKept, StripeSet DEF RetryConfirm, IntentStatuses
<1>3. CASE SendCreate(w)
  BY <1>3 DEF SendCreate, StripeMoves, Known, Made, Sent, Job
<1>4. CASE CreateFails(w)
  BY <1>4 DEF CreateFails, StripeMoves, Known, Made, Sent
<1>5. CASE AbandonOrphan(w)
  BY <1>5, StripeKept, StripeSet DEF AbandonOrphan, Cancels, CanceledEvent, IntentStatuses
<1> QED BY <1>1, <1>2, <1>3, <1>4, <1>5 DEF Collect

\* So is every step of confirmation, release and the forced release.
LEMMA ReleaseStripeMoves ==
  ASSUME TypeOK, RefsOK, Known, NEW w \in Workers, ConfirmStep(w) \/ Release(w) \/ ForceRelease(w)
  PROVE  StripeMoves
<1>a. worker[w].pc \in Holding => Hand(w) \in PaymentIntents /\ Made(Hand(w))
  BY DEF RefsOK, WorkersOK, Coherent, Holding, Hand, Job, IntentsOf, Known
<1> USE <1>a DEF At, Holding, ledger, stripe, clock, Return, Throw
<1>1. ASSUME NEW rel \in BOOLEAN, Confirm(w, rel) \/ ConfirmWins(w, rel) \/ ConfirmLoses(w, rel)
      PROVE  StripeMoves
  BY <1>1, StripeKept DEF Confirm, ConfirmWins, ConfirmLoses
<1>2. CASE ReleaseClaim(w) \/ ReleaseSearch(w) \/ ReleaseStamp(w) \/ ReleaseRetrieve(w)
           \/ ReleaseFreeze(w) \/ ReleaseFree(w) \/ ReleaseClose(w)
  BY <1>2, StripeKept DEF ReleaseClaim, ReleaseSearch, ReleaseStamp, ReleaseRetrieve,
       ReleaseFreeze, ReleaseFree, ReleaseClose
<1>3. CASE ReleaseCancel(w)
  BY <1>3, StripeKept, StripeSet DEF ReleaseCancel, Cancels, CanceledEvent, IntentStatuses
<1>4. CASE ForceRelease(w)
  BY <1>4, StripeKept DEF ForceRelease, ForceSearch, ForceList, ForceClose, ForceFree
<1> QED BY <1>1, <1>2, <1>3, <1>4 DEF ConfirmStep, Release

\* So is every step.
LEMMA NextStripeMoves ==
  ASSUME TypeOK, RefsOK, Known, Next
  PROVE  StripeMoves
<1> USE DEF ledger, stripe, clock
<1>1. ASSUME NEW w \in Workers, Step(w) PROVE StripeMoves
  BY <1>1, CollectStripeMoves, ReleaseStripeMoves DEF Step
<1>2. ASSUME UNCHANGED <<intent, indexed, frozenKey, requests>>, events' \subseteq events
      PROVE  StripeMoves
  BY <1>2, StripeKept
<1>3. ASSUME NEW b \in Batches, Reserve(b) PROVE StripeMoves
  BY <1>2, <1>3 DEF Reserve
<1>4. ASSUME NEW c \in Commissions, Reversal(c) PROVE StripeMoves
  BY <1>2, <1>4 DEF Reversal, ReverseFree, ReverseReserved, ReverseInFlight
<1>5. ASSUME NEW w \in Workers, NEW b \in Batches, Scan(w, b) \/ ForceRead(w, b) PROVE StripeMoves
  BY <1>2, <1>5 DEF Scan, ForceRead
<1>6. ASSUME NEW w \in Workers, Hook(w) PROVE StripeMoves
  BY <1>2, <1>6 DEF Hook, HookSucceeded, HookFailed, HookCanceled, HookClawback
<1>7. ASSUME NEW w \in Workers, ReleaseCallFails(w) \/ Crash(w) PROVE StripeMoves
  BY <1>2, <1>7 DEF ReleaseCallFails, Crash, Return, Throw
<1>8. ASSUME NEW r \in requests, StripeCreate(r) PROVE StripeMoves
  <2>1. r[1] \in Batches /\ Sent(r[1]) /\ requests' \subseteq requests
    BY <1>8 DEF TypeOK, StripeCreate, Sent
  <2>2. CASE UNCHANGED <<intent, amount, frozenKey>>
    BY <1>8, <2>1, <2>2 DEF StripeCreate, StripeMoves, Known, Made, Sent
  <2>3. ASSUME NEW p \in IntentsOf(r[1]), NEW s \in {"processing", "requires_payment_method"},
               intent[p] = "absent", frozenKey[r[1]] = None,
               intent' = [intent EXCEPT ![p] = s], frozenKey' = [frozenKey EXCEPT ![r[1]] = p]
        PROVE  StripeMoves
    <3>1. p \in PaymentIntents /\ p[1] = r[1] /\ p # None
      BY CollectionAssumption DEF IntentsOf
    <3>2. /\ intent'[p] = s /\ s # "absent"
          /\ \A q \in PaymentIntents \ {p} : intent'[q] = intent[q]
          /\ frozenKey'[r[1]] = p
          /\ \A b \in Batches \ {r[1]} : frozenKey'[b] = frozenKey[b]
      BY <2>1, <2>3, <3>1 DEF TypeOK
    <3>3. UNCHANGED <<indexed, events>>
      BY <1>8 DEF StripeCreate
    <3> QED BY <2>1, <2>3, <3>1, <3>2, <3>3 DEF StripeMoves, Known, Made, Sent
  <2> QED BY <1>8, <2>2, <2>3 DEF StripeCreate
<1>9. ASSUME NEW p \in PaymentIntents, Bank(p) PROVE StripeMoves
  <2>1. CASE DebitSucceeds(p) \/ DebitFails(p)
    BY <2>1, StripeSet DEF DebitSucceeds, DebitFails, BankDebit, IntentStatuses, Made
  <2>2. CASE ExternalCancel(p)
    <3>1. \A e \in events' : e \in events \/ e[2] = p
      BY <2>2 DEF ExternalCancel, CanceledEvent
    <3> QED BY <2>2, <3>1, StripeSet DEF ExternalCancel, Cancels, IntentStatuses, Made
  <2>3. CASE ChargeReturned(p)
    <3>1. \A e \in events' : Made(e[2])
      BY <2>3 DEF ChargeReturned, Known, Made
    <3> QED BY <2>3, <3>1 DEF ChargeReturned, StripeMoves, Known, TypeOK, Made, Sent
  <2>4. CASE Index(p)
    BY <2>4 DEF Index, StripeMoves, Known, Made, Sent
  <2> QED BY <1>9, <2>1, <2>2, <2>3, <2>4 DEF Bank
<1>10. ASSUME NEW e \in events, LoseEvent(e) PROVE StripeMoves
  BY <1>2, <1>10 DEF LoseEvent
<1>11. ASSUME NEW b \in Batches, TimeOut(b) \/ QuietHour(b) PROVE StripeMoves
  BY <1>2, <1>11 DEF TimeOut, QuietHour
<1>12. ASSUME NEW b \in Batches, ExpireKey(b) PROVE StripeMoves
  BY <1>12 DEF ExpireKey, StripeMoves, Known, TypeOK, Made, Sent
<1> QED
  BY <1>1, <1>3, <1>4, <1>5, <1>6, <1>7, <1>8, <1>9, <1>10, <1>11, <1>12
     DEF Next, Running, Failing, Tick, Workers

\* Every step is a move, stuttering included.
LEMMA NextMoves ==
  ASSUME TypeOK, RefsOK, Known, Stamped, Freeing, [Next]_vars
  PROVE  Moves
<1>1. CASE Next
  BY <1>1, NextRowMoves, NextStripeMoves, NextWorkerMoves DEF Moves
<1>2. CASE UNCHANGED vars
  <2>1. RowMoves
    BY <1>2, RowsKept DEF vars, ledger, clock
  <2>2. StripeMoves
    BY <1>2, StripeKept DEF vars, stripe
  <2> QED BY <1>2, <2>1, <2>2 DEF Moves, vars
<1> QED BY <1>1, <1>2

-----------------------------------------------------------------------------
(* Each part of the invariant is kept by every move.                          *)

\* Who may come to be about to create an intent, and whose request may be sent.
LEMMA Makers ==
  ASSUME Moves, NEW b \in Batches
  PROVE  /\ Sent(b)' => Sent(b) \/ \E w \in Workers : Job(w) = b /\ At(w, "create")
         /\ \A w \in Workers : worker'[w].job = b /\ worker'[w].pc = "search" =>
              \/ Job(w) = b /\ At(w, "search")
              \/ status[b] \in {"invoicing", "funding_failed"}
         /\ \A w \in Workers : worker'[w].job = b /\ worker'[w].pc = "claim" =>
              \/ Job(w) = b /\ At(w, "claim")
              \/ status[b] = "reserved"
              \/ Job(w) = b /\ At(w, "search") /\ Found(b) = {}
         /\ \A w \in Workers : worker'[w].job = b /\ worker'[w].pc = "create" =>
              \/ Job(w) = b /\ At(w, "create")
              \/ Job(w) = b /\ At(w, "claim") /\ status[b] \in {"reserved", "funding_failed"}
                   /\ status'[b] = "invoicing"
              \/ Job(w) = b /\ At(w, "search") /\ Found(b) = {}
         /\ \A w \in Workers : worker'[w].job = b /\ worker'[w].pc = "await" =>
              Job(w) = b /\ worker[w].pc \in {"create", "await"}
<1>1. /\ \A w \in Workers : worker'[w] = worker[w] \/ WorkerMoves(w)
      /\ \A r \in requests' : Sent(r[1]) \/ \E w \in Workers : Job(w) = r[1] /\ At(w, "create")
  BY DEF Moves, StripeMoves
<1>2. Sent(b)' => Sent(b) \/ \E w \in Workers : Job(w) = b /\ At(w, "create")
  BY <1>1 DEF Sent
<1>3. \A w \in Workers : worker'[w] = worker[w] => worker'[w].job = Job(w) /\ worker'[w].pc = worker[w].pc
  BY DEF Job
<1> QED BY <1>1, <1>2, <1>3 DEF WorkerMoves, At

\* What somebody knows of exists, and an intent never ceases to exist.
LEMMA KnownKept ==
  ASSUME TypeOK, RefsOK, Known, Moves, TypeOK', RefsOK'
  PROVE  Known'
<1>0. \A p \in PaymentIntents : Made(p) => Made(p)'
  BY DEF Moves, StripeMoves, Made
<1>1. ASSUME NEW p \in indexed' PROVE Made(p)'
  BY <1>0 DEF TypeOK, Moves, StripeMoves
<1>2. ASSUME NEW e \in events' PROVE Made(e[2])'
  <2>1. e[2] \in PaymentIntents
    BY DEF TypeOK, Events
  <2> QED BY <1>0, <2>1 DEF Moves, StripeMoves
<1>3. ASSUME NEW b \in Batches, stamp'[b] # None PROVE Made(stamp[b])'
  <2>1. stamp'[b] \in PaymentIntents
    BY <1>3 DEF TypeOK
  <2> QED BY <1>0, <1>3, <2>1 DEF Moves, RowMoves
<1>4. ASSUME NEW b \in Batches, frozenKey'[b] # None PROVE Made(frozenKey[b])'
  <2>1. frozenKey'[b] \in PaymentIntents
    BY <1>4 DEF TypeOK
  <2> QED BY <1>0, <1>4, <2>1 DEF Known, Moves, StripeMoves, Made
<1>5. ASSUME NEW w \in Workers, worker'[w].hand # None PROVE Made(worker[w].hand)'
  <2>1. worker'[w].hand \in PaymentIntents
    BY <1>5 DEF TypeOK, Processes
  <2> QED BY <1>0, <1>5, <2>1 DEF Known, Moves, WorkerMoves, Hand
<1> QED BY <1>1, <1>2, <1>3, <1>4, <1>5 DEF Known, Hand

\* No intent of b comes to exist unless a create of it is at Stripe.
LEMMA NothingMade ==
  ASSUME Moves, NEW b \in Batches, NEW p \in IntentsOf(b), ~ Made(p), Made(p)'
  PROVE  Sent(b) /\ frozenKey[b] = None /\ frozenKey'[b] = p
  BY DEF Moves, StripeMoves, Made, IntentsOf

\* A batch without an intent stays so while it is reserved or given up.
LEMMA UntouchedKept ==
  ASSUME Moves, NEW b \in Batches, Untouched(b),
         status[b] \in Closing \/ status'[b] \in {"absent", "reserved"} \cup Closing,
         status[b] \notin {"invoicing", "funding_failed"}
  PROVE  Untouched(b)'
<1>1. \A p \in IntentsOf(b) : ~ Made(p)'
  BY NothingMade DEF Untouched
<1>2. ~ Sent(b)'
  BY Makers DEF Untouched, At
<1>3. status'[b] # "invoicing"
  BY DEF Moves, RowMoves, Closing
<1>4. \A w \in Workers : worker'[w].job = b => worker'[w].pc \notin {"search", "create"}
  BY <1>3, Makers DEF Untouched, At
<1> QED BY <1>1, <1>2, <1>4 DEF Untouched, Job, IntentsOf

\* An expired key can not be used again: the search comes first and finds.
LEMMA KeyedKept ==
  ASSUME Keyed, Early, Moves
  PROVE  Keyed'
<1> SUFFICES ASSUME NEW b \in Batches, NEW p \in IntentsOf(b), Made(p)', frozenKey'[b] = None
             PROVE  /\ p \in indexed'
                    /\ ~ Sent(b)'
                    /\ \A w \in Workers : worker'[w].job = b => worker'[w].pc \notin {"claim", "create"}
  BY DEF Keyed, Job, IntentsOf
<1>1. Made(p)
  BY NothingMade, CollectionAssumption DEF IntentsOf
<1>2. /\ p \in indexed
      /\ ~ Sent(b)
      /\ \A w \in Workers : Job(w) = b => worker[w].pc \notin {"claim", "create"}
  <2>1. CASE frozenKey[b] = None
    BY <1>1, <2>1 DEF Keyed
  <2>2. CASE frozenKey[b] # None
    <3>1. AllIndexed(b) /\ ~ Creating(b)
      BY <2>2 DEF Moves, StripeMoves
    <3> QED BY <1>1, <3>1 DEF AllIndexed, Creating, Made
  <2> QED BY <2>1, <2>2
<1>3. p \in Found(b) /\ status[b] # "reserved"
  BY <1>1, <1>2 DEF Found, Early, Untouched
<1>4. p \in indexed'
  BY <1>2 DEF Moves, StripeMoves
<1> QED BY <1>2, <1>3, <1>4, Makers DEF At

\* A second intent would need an expired key and a create at Stripe.
LEMMA OneDebitKept ==
  ASSUME OneDebitPerBatch, Keyed, Moves
  PROVE  OneDebitPerBatch'
<1>1. ASSUME NEW b \in Batches, NEW p \in IntentsOf(b), NEW q \in IntentsOf(b),
             ~ Made(p), Made(p)', Made(q)'
      PROVE  p = q
  <2>1. Sent(b) /\ frozenKey[b] = None
    BY <1>1, NothingMade
  <2>2. ~ Made(q)
    BY <2>1 DEF Keyed
  <2> QED BY <1>1, <2>2, NothingMade
<1> QED BY <1>1 DEF OneDebitPerBatch, Made, IntentsOf

\* A reserved batch has not reached Stripe.
LEMMA EarlyKept ==
  ASSUME Early, Moves
  PROVE  Early'
<1> SUFFICES ASSUME NEW b \in Batches, status'[b] \in {"absent", "reserved"} PROVE Untouched(b)'
  BY DEF Early
<1>1. status[b] \in {"absent", "reserved"}
  BY DEF Moves, RowMoves
<1> QED BY <1>1, UntouchedKept DEF Early

\* A batch that may be retried keeps its intent or its failed attempt.
LEMMA StampedKept ==
  ASSUME Stamped, RefsOK', Moves
  PROVE  Stamped'
<1>1. ASSUME NEW b \in Batches, status'[b] = "payment_processing" PROVE stamp'[b] # None
  BY <1>1 DEF Stamped, Moves, RowMoves
<1>2. ASSUME NEW b \in Batches, status'[b] = "funding_failed" PROVE stamp'[b] # None \/ attempted'[b]
  BY <1>2 DEF Stamped, Moves, RowMoves
<1>3. ASSUME NEW w \in Workers,
             worker'[w].pc \in {"adopted", "stamped", "retry", "retryPaid", "retryConfirm", "retried"}
      PROVE  stamp'[worker'[w].job] # None
  <2>1. worker'[w].job \in Batches
    BY <1>3 DEF RefsOK, WorkersOK, Coherent
  <2> QED BY <1>3, <2>1 DEF Stamped, Moves, RowMoves, WorkerMoves, Job
<1> QED BY <1>1, <1>2, <1>3 DEF Stamped, Job

\* A batch that can be given up can be given up ever after.
LEMMA ClosedKept ==
  ASSUME OneDebitPerBatch, Keyed, Moves, NEW b \in Batches, Closed(b)
  PROVE  Closed(b)'
<1>1. status'[b] \in Closing
  BY DEF Closed, Moves, RowMoves
<1>2. CASE Untouched(b)
  <2>1. Untouched(b)'
    BY <1>1, <1>2, UntouchedKept DEF Closed, Closing
  <2> QED BY <1>1, <2>1 DEF Closed, Untouched, Dead, Made, IntentsOf
<1>3. ASSUME NEW p \in IntentsOf(b), Made(p) PROVE Closed(b)'
  <2>1. \A q \in IntentsOf(b) : ~ Made(q) => ~ Made(q)'
    BY <1>3, NothingMade DEF Keyed
  <2>2. \A q \in IntentsOf(b) : intent[q] = "canceled" => intent'[q] = "canceled"
    BY DEF Moves, StripeMoves, IntentsOf
  <2>3. Made(p)'
    BY <1>3 DEF Moves, StripeMoves, Made, IntentsOf
  <2> QED BY <1>1, <2>1, <2>2, <2>3 DEF Closed, Dead, Made, IntentsOf
<1> QED BY <1>2, <1>3 DEF Closed

\* A search index that was complete, with nobody creating, stays complete.
LEMMA StillKept ==
  ASSUME Moves, NEW b \in Batches, Still(b)
  PROVE  Still(b)'
<1>1. status'[b] \in Closing
  BY DEF Still, Moves, RowMoves
<1>2. \A p \in IntentsOf(b) : Made(p)' => p \in indexed'
  BY NothingMade DEF Still, AllIndexed, Creating, Made, Moves, StripeMoves
<1>3. ~ Sent(b)'
  BY Makers DEF Still, Creating, At
<1>4. \A w \in Workers : worker'[w].job = b =>
        worker'[w].pc \notin {"search", "claim", "create", "await"}
  BY Makers DEF Still, Closing, Creating, At
<1> QED BY <1>1, <1>2, <1>3, <1>4 DEF Still, AllIndexed, Creating, Made, Job, IntentsOf

\* A release frees only what it found dead.
LEMMA FreeingKept ==
  ASSUME RefsOK, Known, OneDebitPerBatch, Keyed, Early, Freeing, Forcing, Moves, RefsOK'
  PROVE  Freeing'
<1>0. \A w \in Workers : worker'[w].pc # "idle" => worker'[w].job \in Batches
  BY DEF RefsOK, WorkersOK, Coherent
<1>1. ASSUME NEW w \in Workers,
             worker'[w].pc \in {"relSearch", "relStamp", "relRetrieve", "relCancel"}
      PROVE  (status[Job(w)] \in Closing)'
  BY <1>0, <1>1 DEF Freeing, Moves, RowMoves, WorkerMoves, Job
<1>2. ASSUME NEW b \in Batches, status[b] = "reserved", status'[b] \in Closing
      PROVE  Closed(b)'
  <2>1. Untouched(b)'
    BY <1>2, UntouchedKept DEF Early
  <2> QED BY <1>2, <2>1 DEF Closed, Untouched, Dead, Made, IntentsOf
<1>3. ASSUME NEW b \in Batches, status'[b] = "released" PROVE Closed(b)'
  <2>1. CASE status[b] = "reserved"
    BY <1>2, <1>3, <2>1 DEF Closing
  <2>2. CASE status[b] = "released"
    BY <2>2, ClosedKept DEF Freeing
  <2>3. ASSUME NEW w \in Workers, Job(w) = b, worker[w].pc = "relClose" PROVE Closed(b)'
    BY <2>3, ClosedKept DEF Freeing
  <2>4. ASSUME NEW w \in Workers, Job(w) = b, worker[w].pc = "forceClose" PROVE Closed(b)'
    <3>1. Still(b) /\ \A p \in IntentsOf(b) : ~ Made(p)
      BY <2>4 DEF Forcing
    <3>2. Closed(b)
      BY <3>1 DEF Still, Creating, Untouched, Closed, Dead, Made
    <3> QED BY <3>2, ClosedKept
  <2> QED BY <1>3, <2>1, <2>2, <2>3, <2>4 DEF Moves, RowMoves
<1>4. ASSUME NEW w \in Workers, worker'[w].pc \in {"relFree", "relClose"}
      PROVE  Closed(Job(w))'
  <2>0. PICK b \in Batches : worker'[w].job = b
    BY <1>0, <1>4
  <2> SUFFICES Closed(b)'
    BY <2>0 DEF Closed, Untouched, Sent, Dead, Made, Job, IntentsOf
  <2>1. CASE Job(w) = b /\ worker[w].pc \in {"relFree", "relClose"}
    BY <2>0, <2>1, ClosedKept DEF Freeing
  <2>2. CASE status[b] = "reserved" /\ status'[b] \in Closing
    BY <1>2, <2>0, <2>2
  <2>3. CASE Job(w) = b /\ worker[w].pc \in {"relRetrieve", "relCancel"} /\ intent'[Hand(w)] = "canceled"
    <3>1. Hand(w) # None /\ Hand(w) \in IntentsOf(b) /\ Made(Hand(w))
      BY <2>3 DEF RefsOK, WorkersOK, Coherent, Holding, Hand, Job, Known
    <3>2. status'[b] \in Closing
      BY <2>0, <2>3 DEF Freeing, Moves, RowMoves
    <3>3. \A q \in IntentsOf(b) : Made(q) => q = Hand(w)
      BY <2>0, <3>1 DEF OneDebitPerBatch, Made
    <3>4. \A q \in IntentsOf(b) : ~ Made(q) => ~ Made(q)'
      BY <2>0, <3>1, NothingMade DEF Keyed
    <3> QED BY <2>3, <3>1, <3>2, <3>3, <3>4 DEF Closed, Dead, Made, IntentsOf
  <2>4. \/ worker'[w] = worker[w]
        \/ WorkerMoves(w)
    BY DEF Moves
  <2> QED BY <1>4, <2>0, <2>1, <2>2, <2>3, <2>4 DEF WorkerMoves, Job
<1> QED BY <1>1, <1>3, <1>4 DEF Freeing

\* A forced release searches a complete index.
LEMMA ForcingKept ==
  ASSUME RefsOK', Forcing, Moves
  PROVE  Forcing'
<1>0. \A w \in Workers : worker'[w].pc # "idle" => worker'[w].job \in Batches
  BY DEF RefsOK, WorkersOK, Coherent
<1>1. ASSUME NEW b \in Batches, quiet'[b] PROVE Still(b)'
  <2>1. Still(b)
    BY <1>1 DEF Forcing, Moves, RowMoves, Still, Closing
  <2> QED BY <2>1, StillKept
<1>2. ASSUME NEW w \in Workers,
             worker'[w].pc \in {"forceSearch", "forceList", "forceClose", "forceFree"}
      PROVE  Still(worker[w].job)'
  <2>1. worker'[w].job \in Batches
    BY <1>0, <1>2
  <2>2. Still(worker'[w].job)
    BY <1>2, <2>1 DEF Forcing, Moves, WorkerMoves, Job
  <2> QED BY <2>1, <2>2, StillKept
<1>3. ASSUME NEW w \in Workers, worker'[w].pc \in {"forceList", "forceClose", "forceFree"}
      PROVE  \A p \in IntentsOf(worker'[w].job) : ~ Made(p)'
  <2> DEFINE b == worker'[w].job
  <2>0. b \in Batches
    BY <1>0, <1>3
  <2>1. Job(w) = b /\ worker[w].pc \in {"forceSearch", "forceList", "forceClose", "forceFree"}
    BY <1>3 DEF Moves, WorkerMoves, Job
  <2>2. Still(b)
    BY <2>1 DEF Forcing
  <2>3. \A p \in IntentsOf(b) : ~ Made(p)
    <3>1. CASE Found(b) = {}
      BY <2>2, <3>1 DEF Still, AllIndexed, Found, Made
    <3>2. CASE worker[w].pc \in {"forceList", "forceClose", "forceFree"}
      BY <2>1, <3>2 DEF Forcing
    <3> QED BY <1>3, <3>1, <3>2 DEF Moves, WorkerMoves, Job
  <2> QED BY <2>0, <2>2, <2>3, NothingMade DEF Still, Creating
<1> QED BY <1>1, <1>2, <1>3 DEF Forcing, Job, IntentsOf

-----------------------------------------------------------------------------
(* The invariant, and what it says of the batches.                            *)

\* The initial state satisfies the invariant.
LEMMA InitInv == Init => IInv
<1> SUFFICES ASSUME Init PROVE IInv
  OBVIOUS
<1>1. TypeOK /\ RefsOK
  BY InitType
<1>2. \A w \in Workers : worker[w].pc = "idle" /\ Hand(w) = None
  BY DEF Init, Resting, Process, Hand
<1> QED
  BY <1>1, <1>2 DEF Init, IInv, Known, Keyed, OneDebitPerBatch, Early, Untouched, Stamped,
       Freeing, Forcing, Made, Sent, IntentsOf

\* Every step keeps the invariant.
LEMMA InvStep == IInv /\ [Next]_vars => IInv'
<1> SUFFICES ASSUME IInv, [Next]_vars PROVE IInv'
  OBVIOUS
<1>1. TypeOK' /\ RefsOK'
  BY TypeStep DEF IInv
<1>2. Moves
  BY NextMoves DEF IInv
<1> QED
  BY <1>1, <1>2, KnownKept, KeyedKept, OneDebitKept, EarlyKept, StampedKept, FreeingKept,
     ForcingKept DEF IInv

\* The strengthening behind the theorems below holds of every reachable state.
THEOREM Inductive == Spec => []IInv
  BY InitInv, InvStep, PTL DEF Spec

\* Whatever is retried, adopted or created again after a lost response, the
\* brand never has two PaymentIntents for one batch (collect.ts).
THEOREM OneDebit == Spec => []OneDebitPerBatch
<1>1. IInv => OneDebitPerBatch
  BY DEF IInv
<1> QED BY <1>1, Inductive, PTL

\* A released batch has no PaymentIntent that debited or can debit the brand,
\* and no request on its way can make one (release.ts, collect.ts).
THEOREM ReleasedDead == Spec => []ReleasedIsDead
<1>1. IInv => ReleasedIsDead
  <2> SUFFICES ASSUME IInv, NEW b \in Batches, status[b] = "released"
               PROVE  /\ \A p \in IntentsOf(b) : Dead(p)
                      /\ Sent(b) => frozenKey[b] # None
    BY DEF ReleasedIsDead
  <2>1. Closed(b)
    BY DEF IInv, Freeing
  <2> QED BY <2>1 DEF Closed, Untouched, IInv, Keyed
<1> QED BY <1>1, Inductive, PTL

\* The commission c of batch b is given back by this step.
Freed(b, c) == Live(b, c) /\ allocation'[b][c] = "released"

\* Only the interlock on a reserved batch and the two ends of a release do that.
LEMMA WhoFrees ==
  ASSUME TypeOK, RefsOK, NEW b \in Batches, NEW c \in Commissions, Freed(b, c), Next
  PROVE  \/ status[b] = "reserved"
         \/ \E w \in Workers : Job(w) = b /\ worker[w].pc \in {"relFree", "forceFree"}
<1> DEFINE G == \/ status[b] = "reserved"
                \/ \E w \in Workers : Job(w) = b /\ worker[w].pc \in {"relFree", "forceFree"}
<1>0. allocation' # allocation
  BY DEF Freed, Live
<1>a. \A w \in Workers : worker[w].pc # "idle" => Job(w) \in Batches
  BY DEF RefsOK, WorkersOK, Coherent, Job
<1> USE <1>0 DEF ledger, stripe, clock
<1>1. ASSUME NEW x \in Batches, Reserve(x) PROVE G
  BY <1>1 DEF Reserve, Freed, Live, TypeOK
<1>2. ASSUME NEW d \in Commissions, Reversal(d) PROVE G
  <2>1. ASSUME NEW x \in Batches, ReverseReserved(x, d) PROVE G
    BY <2>1 DEF ReverseReserved, Freed, Live, TypeOK
  <2>2. ASSUME NEW x \in Batches, ReverseInFlight(x, d) PROVE G
    BY <2>2 DEF ReverseInFlight, Freed, Live, TypeOK
  <2> QED BY <1>2, <2>1, <2>2 DEF Reversal, ReverseFree
<1>3. ASSUME NEW w \in Workers, ReleaseFree(w) \/ ForceFree(w) PROVE G
  BY <1>3, <1>a DEF ReleaseFree, ForceFree, FreeAllocations, At, Freed, Live, TypeOK
<1>4. ASSUME NEW w \in Workers, OrphanReclaim(w) PROVE G
  BY <1>4, <1>a DEF OrphanReclaim, At, Freed, Live, TypeOK
<1>5. ASSUME NEW w \in Workers, Step(w), ~ ReleaseFree(w), ~ ForceFree(w), ~ OrphanReclaim(w)
      PROVE  G
  <2>1. CASE Collect(w)
    BY <1>5, <2>1 DEF Collect, ClaimForCreate, RereadInvoicing, SearchBeforeCreate, AdoptStamp,
         AdoptMove, AdoptRetrieve, Poll, RetryRetrieve, RetryMovePaid, RetryConfirm, RetryRecord,
         SendCreate, CreateReturns, CreateFails, StampCreated, MoveCreated, RecordFailedIntent,
         MoveCreateFailed, AbandonOrphan, OrphanStamp, OrphanFreeze
  <2>2. CASE ConfirmStep(w)
    BY <2>2 DEF ConfirmStep, Confirm, ConfirmWins, ConfirmLoses
  <2>3. CASE Release(w)
    BY <1>5, <2>3 DEF Release, ReleaseClaim, ReleaseSearch, ReleaseStamp, ReleaseRetrieve,
         ReleaseCancel, ReleaseFreeze, ReleaseClose
  <2>4. CASE ForceRelease(w)
    BY <1>5, <2>4 DEF ForceRelease, ForceSearch, ForceList, ForceClose
  <2> QED BY <1>5, <2>1, <2>2, <2>3, <2>4 DEF Step
<1>6. ASSUME NEW w \in Workers, Hook(w) PROVE G
  BY <1>6 DEF Hook, HookSucceeded, HookFailed, HookCanceled, HookClawback
<1>7. ASSUME NEW w \in Workers, NEW x \in Batches, Scan(w, x) \/ ForceRead(w, x) PROVE G
  BY <1>7 DEF Scan, ForceRead
<1>8. ASSUME NEW w \in Workers, ReleaseCallFails(w) \/ Crash(w) PROVE G
  BY <1>8 DEF ReleaseCallFails, Crash
<1>9. ASSUME NEW r \in requests, StripeCreate(r) PROVE G
  BY <1>9 DEF StripeCreate
<1>10. ASSUME NEW p \in PaymentIntents, Bank(p) PROVE G
  BY <1>10 DEF Bank, DebitSucceeds, DebitFails, BankDebit, ExternalCancel, ChargeReturned, Index
<1>11. ASSUME NEW e \in events, LoseEvent(e) PROVE G
  BY <1>11 DEF LoseEvent
<1>12. ASSUME NEW x \in Batches, Tick(x) PROVE G
  BY <1>12 DEF Tick, TimeOut, QuietHour, ExpireKey
<1> QED
  BY <1>1, <1>2, <1>3, <1>4, <1>5, <1>6, <1>7, <1>8, <1>9, <1>10, <1>11, <1>12
     DEF Next, Running, Failing, Workers

\* No step gives back the commissions of a batch while one of its debits
\* happened or can still happen (release.ts, interlocks.ts).
THEOREM FreedDead == Spec => FreedOnlyWhenDead
<1>1. IInv /\ [Next]_vars =>
        [\A b \in Batches :
           (\E c \in Commissions : Live(b, c) /\ allocation'[b][c] = "released")
             => \A p \in IntentsOf(b) : Dead(p)]_vars
  <2> SUFFICES ASSUME IInv, [Next]_vars, NEW b \in Batches, NEW c \in Commissions, Freed(b, c)
               PROVE  \A p \in IntentsOf(b) : Dead(p)
    BY DEF Freed
  <2>1. Next
    BY DEF Freed, Live, vars, ledger
  <2>2. \/ status[b] = "reserved"
        \/ \E w \in Workers : Job(w) = b /\ worker[w].pc \in {"relFree", "forceFree"}
    BY <2>1, WhoFrees DEF IInv
  <2>3. CASE status[b] = "reserved"
    BY <2>3 DEF IInv, Early, Untouched, Made, Dead
  <2>4. ASSUME NEW w \in Workers, Job(w) = b, worker[w].pc \in {"relFree", "forceFree"}
        PROVE  \A p \in IntentsOf(b) : Dead(p)
    BY <2>4 DEF IInv, Freeing, Forcing, Closed, Made, Dead
  <2> QED BY <2>2, <2>3, <2>4
<1> QED BY <1>1, Inductive, PTL DEF FreedOnlyWhenDead, Spec
=============================================================================
