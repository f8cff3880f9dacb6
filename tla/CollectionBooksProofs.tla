------------------------ MODULE CollectionBooksProofs ------------------------
(***************************************************************************)
(* Proofs about the books of FundingCollection: what a batch charges, what *)
(* it holds of its commissions, and what its status says of the money. On  *)
(* top of the invariant of FundingCollectionProofs, in four parts:         *)
(* BooksInv of any number of workers, ReturnInv if Stripe delivers every   *)
(* clawback in the end, PassInv if the passes of the collector do not      *)
(* overlap, and ChargeInv, of any number of workers, for the refinement of *)
(* BatchCharge. As there, every action is a move, which says what it may   *)
(* do to the statuses, the books, the charges and a worker; a step is      *)
(* about one batch at most, which it advances in BatchCharge or leaves.    *)
(***************************************************************************)
EXTENDS FundingCollectionProofs

-----------------------------------------------------------------------------
(* The inductive invariant.                                                   *)

\* Statuses of a batch that is frozen for a human.
Frozen == {"recovery_required", "funding_disputed"}

\* The partial unique index: one open batch for the tenant and the currency.
OneOpen == \A x, y \in Batches : status[x] \notin Terminal /\ status[y] \notin Terminal => x = y

\* The amount of a request and of an intent is the principal of the batch.
Priced ==
  /\ \A r \in requests : r[2] = principal[r[1]]
  /\ \A p \in PaymentIntents : Made(p) => amount[p] = principal[p[1]]

\* A batch holds all it charges for, until it can be given up.
Kept == \A b \in Batches : principal[b] \subseteq Held(b) \/ Closed(b)

\* An intent that is being confirmed is paid, and past the check it is on the row.
Confirming ==
  \A w \in Workers :
    /\ worker[w].pc \in {"retryPaid", "confirm", "confirmCas", "relConfirm", "relConfirmCas"} =>
         Paid(Hand(w))
    /\ worker[w].pc \in {"confirmCas", "relConfirmCas"} => stamp[Job(w)] # None

FundedPaid == \A b \in Batches : status[b] = "funded" => stamp[b] # None /\ Paid(stamp[b])

BooksInv == OneOpen /\ Priced /\ Kept /\ Confirming /\ FundedPaid

\* No handler of a clawback is interrupted: it is one statement.
Handled == \A w \in Workers, p \in PaymentIntents : worker[w].evt # <<"clawback", p>>

\* A refund that has been handled has frozen its batch.
Returned ==
  \A p \in PaymentIntents :
    intent[p] = "refunded" /\ <<"clawback", p>> \notin events => status[p[1]] \in Frozen

ReturnInv == Handled /\ Returned

\* The labels of collectBatch: only the collector is ever at one.
Collecting == {"claim", "reread", "search", "adopt", "adopted", "recheck", "poll", "retry",
               "retryPaid", "retryConfirm", "retried", "create", "await", "stamp", "stamped",
               "createError", "createFailed", "abandon", "orphanStamp", "orphanReclaim",
               "orphanFreeze"}

\* The batch is frozen, or no debit for it can happen any more.
Spent(b) == status[b] \in Frozen \/ \E p \in IntentsOf(b) : intent[p] = "canceled"

\* A canceled event is of an intent that is canceled.
EventsTrue == \A p \in PaymentIntents : <<"canceled", p>> \in events => intent[p] = "canceled"

\* A webhook releases a batch only because its intent was canceled.
Roles ==
  \A w \in Workers \ Collectors :
    /\ worker[w].pc \notin Collecting
    /\ worker[w].pc = "release" => \E p \in IntentsOf(Job(w)) : intent[p] = "canceled"

\* While the collector creates the intent of a batch, only a cancellation or a
\* clawback takes the batch from it: what it then reclaims is spent.
Passing ==
  \A w \in Workers :
    /\ worker[w].pc \in {"create", "await", "stamp"}
         \/ (worker[w].pc = "search" /\ worker[w].seen = "invoicing")
       => status[Job(w)] = "invoicing" \/ Spent(Job(w))
    /\ worker[w].pc \in {"abandon", "orphanStamp", "orphanReclaim"} => Spent(Job(w))

\* A batch holds no more than it charges for, unless it is spent.
Whole == \A b \in Batches : Held(b) \subseteq principal[b] \/ Spent(b)

PassInv == EventsTrue /\ Roles /\ Passing /\ Whole

\* The advisory lock of the scheduler: no two passes at once (scheduler.ts).
OneCollector == \A v, w \in Collectors : v = w

-----------------------------------------------------------------------------
(* What a step may do to the statuses.                                        *)

\* Somebody holds an intent of the batch, or an event of one is delivered.
Freezing(b) ==
  \/ \E w \in Workers :
       Job(w) = b /\ worker[w].pc \in {"confirmCas", "relConfirmCas", "relFreeze", "orphanFreeze"}
  \/ \E e \in events : e[2][1] = b

StatusMoves ==
  \A b \in Batches : status'[b] # status[b] =>
    /\ \A x \in Batches \ {b} : status'[x] = status[x]
    /\ status[b] \in Terminal /\ status'[b] \notin Terminal => NoOtherOpen(b)
    /\ status[b] \notin Frozen
    /\ status'[b] # "absent"
    /\ status[b] \in {"released", "funded"} => status'[b] \in Frozen
    /\ status[b] = "invoicing" =>
         \/ status'[b] \in Frozen
         \/ \E w \in Workers : Job(w) = b /\ worker[w].pc \in {"release", "adopted", "stamped", "createFailed"}
    /\ status'[b] = "funded" =>
         \E w \in Workers : Job(w) = b /\ worker[w].pc \in {"confirmCas", "relConfirmCas"}
    /\ status'[b] \in Frozen => Freezing(b)

\* A step that writes no status is a move of the statuses.
LEMMA StatusKept ==
  ASSUME UNCHANGED status
  PROVE  StatusMoves
  BY DEF StatusMoves

\* So is a write of one status, if it is one of those.
LEMMA StatusWritten ==
  ASSUME status \in [Batches -> Statuses], NEW b \in Batches, NEW to \in Statuses,
         status' = [status EXCEPT ![b] = to], status[b] \notin Frozen,
         status[b] \in Terminal /\ to \notin Terminal => NoOtherOpen(b),
         to # "absent", status[b] \in {"released", "funded"} => to \in Frozen,
         status[b] = "invoicing" /\ to \notin Frozen =>
           \E w \in Workers : Job(w) = b /\ worker[w].pc \in {"release", "adopted", "stamped", "createFailed"},
         to = "funded" =>
           \E w \in Workers : Job(w) = b /\ worker[w].pc \in {"confirmCas", "relConfirmCas"},
         to \in Frozen => Freezing(b)
  PROVE  StatusMoves
  BY DEF StatusMoves

\* So is every step of the collector.
LEMMA CollectStatusMoves ==
  ASSUME TypeOK, RefsOK, NEW w \in Workers, Collect(w)
  PROVE  StatusMoves
<1>0. status \in [Batches -> Statuses]
  BY DEF TypeOK
<1>a. worker[w].pc # "idle" => Job(w) \in Batches
  BY DEF RefsOK, WorkersOK, Coherent, Job
<1>b. worker[w].pc = "claim" => worker[w].seen \in {"reserved", "funding_failed"}
  BY DEF RefsOK, WorkersOK, Coherent
<1>c. worker[w].pc = "adopted" => worker[w].seen \in {"invoicing", "funding_failed"}
  BY DEF RefsOK, WorkersOK, Coherent
<1> USE <1>0, <1>a, StatusKept, StatusWritten DEF At, ledger, Cas, Statuses, Frozen, Terminal
<1>1. CASE ClaimForCreate(w)
  BY <1>1, <1>b DEF ClaimForCreate
<1>2. CASE RereadInvoicing(w) \/ SearchBeforeCreate(w) \/ AdoptRetrieve(w) \/ Poll(w)
           \/ RetryRetrieve(w) \/ RetryConfirm(w) \/ SendCreate(w) \/ CreateReturns(w)
           \/ CreateFails(w) \/ AbandonOrphan(w) \/ OrphanReclaim(w) \/ AdoptStamp(w)
           \/ StampCreated(w) \/ RecordFailedIntent(w) \/ OrphanStamp(w)
  BY <1>2 DEF RereadInvoicing, SearchBeforeCreate, AdoptRetrieve, Poll, RetryRetrieve,
       RetryConfirm, SendCreate, CreateReturns, CreateFails, AbandonOrphan, OrphanReclaim,
       AdoptStamp, StampCreated, RecordFailedIntent, OrphanStamp
<1>3. CASE AdoptMove(w)
  BY <1>3, <1>c DEF AdoptMove
<1>4. CASE RetryMovePaid(w)
  BY <1>4 DEF RetryMovePaid
<1>5. CASE RetryRecord(w)
  BY <1>5 DEF RetryRecord
<1>6. CASE MoveCreated(w)
  BY <1>6 DEF MoveCreated
<1>7. CASE MoveCreateFailed(w)
  BY <1>7 DEF MoveCreateFailed
<1>8. CASE OrphanFreeze(w)
  BY <1>8 DEF OrphanFreeze, Freezing
<1> QED
  BY <1>1, <1>2, <1>3, <1>4, <1>5, <1>6, <1>7, <1>8 DEF Collect

\* So is every step of confirmation, release and the forced release.
LEMMA ReleaseStatusMoves ==
  ASSUME TypeOK, RefsOK, NEW w \in Workers, ConfirmStep(w) \/ Release(w) \/ ForceRelease(w)
  PROVE  StatusMoves
<1>0. status \in [Batches -> Statuses]
  BY DEF TypeOK
<1>a. worker[w].pc # "idle" => Job(w) \in Batches
  BY DEF RefsOK, WorkersOK, Coherent, Job
<1> USE <1>0, <1>a, StatusKept, StatusWritten DEF At, ledger, Cas, Statuses, Frozen, Terminal
<1>1. CASE ConfirmStep(w)
  <2>1. ASSUME NEW rel \in BOOLEAN, Confirm(w, rel) PROVE StatusMoves
    BY <2>1 DEF Confirm
  <2>2. ASSUME NEW rel \in BOOLEAN, ConfirmWins(w, rel) PROVE StatusMoves
    BY <2>2 DEF ConfirmWins
  <2>3. ASSUME NEW rel \in BOOLEAN, ConfirmLoses(w, rel) PROVE StatusMoves
    BY <2>3 DEF ConfirmLoses, Freezing
  <2> QED BY <1>1, <2>1, <2>2, <2>3 DEF ConfirmStep
<1>2. CASE ReleaseClaim(w)
  BY <1>2 DEF ReleaseClaim
<1>3. CASE ReleaseSearch(w) \/ ReleaseRetrieve(w) \/ ReleaseCancel(w) \/ ReleaseFree(w)
           \/ ReleaseStamp(w)
  BY <1>3 DEF ReleaseSearch, ReleaseRetrieve, ReleaseCancel, ReleaseFree, ReleaseStamp
<1>4. CASE ReleaseFreeze(w)
  BY <1>4 DEF ReleaseFreeze, Freezing
<1>5. CASE ReleaseClose(w)
  BY <1>5 DEF ReleaseClose
<1>6. CASE ForceSearch(w) \/ ForceList(w) \/ ForceFree(w)
  BY <1>6 DEF ForceSearch, ForceList, ForceFree
<1>7. CASE ForceClose(w)
  BY <1>7 DEF ForceClose
<1> QED
  BY <1>1, <1>2, <1>3, <1>4, <1>5, <1>6, <1>7 DEF Release, ForceRelease

\* So is every step.
LEMMA NextStatusMoves ==
  ASSUME TypeOK, RefsOK, Next
  PROVE  StatusMoves
<1>0. status \in [Batches -> Statuses]
  BY DEF TypeOK
<1> USE <1>0, StatusKept DEF ledger
<1>1. ASSUME NEW w \in Workers, Step(w) PROVE StatusMoves
  BY <1>1, CollectStatusMoves, ReleaseStatusMoves DEF Step
<1>2. ASSUME NEW b \in Batches, Reserve(b) PROVE StatusMoves
  BY <1>2, StatusWritten DEF Reserve, Statuses, Frozen, Terminal
<1>3. ASSUME NEW c \in Commissions, Reversal(c) PROVE StatusMoves
  <2>1. ASSUME NEW b \in Batches, ReverseReserved(b, c) PROVE StatusMoves
    BY <2>1, StatusWritten DEF ReverseReserved, Statuses, Frozen, Terminal
  <2> QED BY <1>3, <2>1 DEF Reversal, ReverseFree, ReverseInFlight
<1>4. ASSUME NEW w \in Hooks, NEW e \in events,
             HookSucceeded(w, e) \/ HookFailed(w, e) \/ HookCanceled(w, e) \/ HookClawback(w, e)
      PROVE  StatusMoves
  <2>1. e[2][1] \in Batches
    BY DEF TypeOK, Events, PaymentIntents
  <2>2. CASE HookFailed(w, e)
    BY <2>1, <2>2, StatusWritten DEF HookFailed, Cas, Statuses, Frozen, Terminal
  <2>3. CASE HookClawback(w, e)
    BY <2>1, <2>3, StatusWritten DEF HookClawback, Clawback, Cas, Statuses, Frozen, Terminal, Freezing
  <2> QED BY <1>4, <2>2, <2>3 DEF HookSucceeded, HookCanceled
<1>5. ASSUME NEW w \in Workers, NEW b \in Batches, Scan(w, b) \/ ForceRead(w, b) PROVE StatusMoves
  BY <1>5 DEF Scan, ForceRead
<1>6. ASSUME NEW w \in Workers, ReleaseCallFails(w) \/ Crash(w) PROVE StatusMoves
  BY <1>6 DEF ReleaseCallFails, Crash
<1>7. ASSUME NEW r \in requests, StripeCreate(r) PROVE StatusMoves
  BY <1>7 DEF StripeCreate
<1>8. ASSUME NEW p \in PaymentIntents, Bank(p) PROVE StatusMoves
  BY <1>8 DEF Bank, DebitSucceeds, DebitFails, BankDebit, ExternalCancel, ChargeReturned, Index
<1>9. ASSUME NEW e \in events, LoseEvent(e) PROVE StatusMoves
  BY <1>9 DEF LoseEvent
<1>10. ASSUME NEW b \in Batches, Tick(b) PROVE StatusMoves
  BY <1>10 DEF Tick, TimeOut, QuietHour, ExpireKey
<1> QED
  BY <1>1, <1>2, <1>3, <1>4, <1>5, <1>6, <1>7, <1>8, <1>9, <1>10
     DEF Next, Running, Failing, Hook, Workers

-----------------------------------------------------------------------------
(* What a step may do to the books.                                           *)

BookMoves ==
  /\ \A b \in Batches :
       \/ principal'[b] = principal[b] /\ Held(b)' = Held(b)
       \/ status[b] = "absent" /\ Held(b)' = principal'[b]
       \/ /\ status[b] = "reserved"
          /\ \E c \in Commissions : principal'[b] = principal[b] \ {c} /\ Held(b)' = Held(b) \ {c}
       \/ /\ principal'[b] = principal[b] /\ Held(b)' \subseteq Held(b)
          /\ \E w \in Workers : Job(w) = b /\ worker[w].pc \in {"relFree", "forceFree"}
       \/ /\ principal'[b] = principal[b] /\ Held(b) \subseteq Held(b)'
          /\ \E w \in Workers : Job(w) = b /\ worker[w].pc = "orphanReclaim"
  /\ \A r \in requests' :
       \/ r \in requests
       \/ \E w \in Workers : At(w, "create") /\ r = <<Job(w), principal[Job(w)]>>
  /\ \A p \in PaymentIntents : Made(p) => amount'[p] = amount[p]
  /\ \A b \in Batches : frozenKey'[b] \notin {frozenKey[b], None} =>
       \E r \in requests : r[1] = b /\ amount'[frozenKey'[b]] = r[2]

\* A step that writes none of the books is a move of the books.
LEMMA BooksKept ==
  ASSUME UNCHANGED <<principal, allocation, requests, amount, frozenKey>>
  PROVE  BookMoves
<1>1. \A b \in Batches : Held(b)' = Held(b)
  BY DEF Held
<1> QED BY <1>1 DEF BookMoves

\* So is every step of a worker.
LEMMA StepBookMoves ==
  ASSUME TypeOK, RefsOK, NEW w \in Workers, Step(w)
  PROVE  BookMoves
<1>a. worker[w].pc # "idle" => Job(w) \in Batches
  BY DEF RefsOK, WorkersOK, Coherent, Job
<1>b. \A b \in Batches : allocation'[b] = allocation[b] => Held(b)' = Held(b)
  BY DEF Held
<1> USE <1>a, BooksKept DEF At, ledger, stripe
<1>1. CASE SendCreate(w)
  BY <1>1, <1>b DEF SendCreate, BookMoves
<1>2. CASE CreateFails(w)
  BY <1>2, <1>b DEF CreateFails, BookMoves
<1>3. CASE OrphanReclaim(w)
  <2>1. \A b \in Batches \ {Job(w)} : allocation'[b] = allocation[b]
    BY <1>3 DEF OrphanReclaim, TypeOK
  <2>2. \A b \in Batches : b = Job(w) => Held(b) \subseteq Held(b)'
    BY <1>3 DEF OrphanReclaim, TypeOK, Held
  <2> QED BY <1>3, <1>b, <2>1, <2>2 DEF OrphanReclaim, BookMoves
<1>4. CASE ReleaseFree(w) \/ ForceFree(w)
  <2>1. \A b \in Batches \ {Job(w)} : allocation'[b] = allocation[b]
    BY <1>4 DEF ReleaseFree, ForceFree, FreeAllocations, TypeOK
  <2>2. \A b \in Batches : b = Job(w) => Held(b)' \subseteq Held(b)
    BY <1>4 DEF ReleaseFree, ForceFree, FreeAllocations, TypeOK, Held, Live
  <2> QED BY <1>4, <1>b, <2>1, <2>2 DEF ReleaseFree, ForceFree, BookMoves
<1>5. CASE Collect(w) /\ ~ SendCreate(w) /\ ~ CreateFails(w) /\ ~ OrphanReclaim(w)
  BY <1>5 DEF Collect, ClaimForCreate, RereadInvoicing, SearchBeforeCreate, AdoptStamp,
       AdoptMove, AdoptRetrieve, Poll, RetryRetrieve, RetryMovePaid, RetryConfirm, RetryRecord,
       CreateReturns, StampCreated, MoveCreated, RecordFailedIntent,
       MoveCreateFailed, AbandonOrphan, OrphanStamp, OrphanFreeze
<1>6. CASE ConfirmStep(w)
  BY <1>6 DEF ConfirmStep, Confirm, ConfirmWins, ConfirmLoses
<1>7. CASE Release(w) /\ ~ ReleaseFree(w)
  BY <1>7 DEF Release, ReleaseClaim, ReleaseSearch, ReleaseStamp, ReleaseRetrieve,
       ReleaseCancel, ReleaseFreeze, ReleaseClose
<1>8. CASE ForceRelease(w) /\ ~ ForceFree(w)
  BY <1>8 DEF ForceRelease, ForceSearch, ForceList, ForceClose
<1> QED BY <1>1, <1>2, <1>3, <1>4, <1>5, <1>6, <1>7, <1>8 DEF Step

\* So is every step.
LEMMA NextBookMoves ==
  ASSUME TypeOK, RefsOK, Next
  PROVE  BookMoves
<1>b. \A b \in Batches : allocation'[b] = allocation[b] => Held(b)' = Held(b)
  BY DEF Held
<1> USE BooksKept DEF ledger, stripe
<1>1. ASSUME NEW w \in Workers, Step(w) PROVE BookMoves
  BY <1>1, StepBookMoves
<1>2. ASSUME NEW b \in Batches, Reserve(b) PROVE BookMoves
  <2>1. \A x \in Batches \ {b} : allocation'[x] = allocation[x] /\ principal'[x] = principal[x]
    BY <1>2 DEF Reserve, TypeOK
  <2>2. Held(b)' = principal'[b]
    BY <1>2 DEF Reserve, TypeOK, Held
  <2> QED BY <1>2, <1>b, <2>1, <2>2 DEF Reserve, BookMoves
<1>3. ASSUME NEW c \in Commissions, NEW b \in Batches, ReverseReserved(b, c) PROVE BookMoves
  <2>1. \A x \in Batches \ {b} : allocation'[x] = allocation[x] /\ principal'[x] = principal[x]
    BY <1>3 DEF ReverseReserved, TypeOK
  <2>2. principal'[b] = principal[b] \ {c} /\ Held(b)' = Held(b) \ {c}
    BY <1>3 DEF ReverseReserved, TypeOK, Held
  <2> QED BY <1>3, <1>b, <2>1, <2>2 DEF ReverseReserved, BookMoves
<1>4. ASSUME NEW c \in Commissions, NEW b \in Batches, ReverseInFlight(b, c) PROVE BookMoves
  <2>1. \A x \in Batches : Held(x)' = Held(x)
    BY <1>4 DEF ReverseInFlight, TypeOK, Held, Live
  <2> QED BY <1>4, <2>1 DEF ReverseInFlight, BookMoves
<1>5. ASSUME NEW c \in Commissions, ReverseFree(c) PROVE BookMoves
  BY <1>5 DEF ReverseFree
<1>6. ASSUME NEW w \in Workers, Hook(w) PROVE BookMoves
  BY <1>6 DEF Hook, HookSucceeded, HookFailed, HookCanceled, HookClawback
<1>7. ASSUME NEW w \in Workers, NEW b \in Batches, Scan(w, b) \/ ForceRead(w, b) PROVE BookMoves
  BY <1>7 DEF Scan, ForceRead
<1>8. ASSUME NEW w \in Workers, ReleaseCallFails(w) \/ Crash(w) PROVE BookMoves
  BY <1>8 DEF ReleaseCallFails, Crash
<1>9. ASSUME NEW r \in requests, StripeCreate(r) PROVE BookMoves
  <2>1. \A p \in PaymentIntents : Made(p) => amount'[p] = amount[p]
    BY <1>9 DEF StripeCreate, TypeOK, IntentsOf, Made
  <2>2. \A b \in Batches : frozenKey'[b] # frozenKey[b] => r[1] = b /\ amount'[frozenKey'[b]] = r[2]
    BY <1>9 DEF StripeCreate, TypeOK, IntentsOf
  <2> QED BY <1>9, <1>b, <2>1, <2>2 DEF StripeCreate, BookMoves
<1>10. ASSUME NEW p \in PaymentIntents, Bank(p) PROVE BookMoves
  BY <1>10 DEF Bank, DebitSucceeds, DebitFails, BankDebit, ExternalCancel, ChargeReturned, Index
<1>11. ASSUME NEW e \in events, LoseEvent(e) PROVE BookMoves
  BY <1>11 DEF LoseEvent
<1>12. ASSUME NEW b \in Batches, TimeOut(b) \/ QuietHour(b) PROVE BookMoves
  BY <1>12 DEF TimeOut, QuietHour
<1>13. ASSUME NEW b \in Batches, ExpireKey(b) PROVE BookMoves
  BY <1>13, <1>b DEF ExpireKey, TypeOK, BookMoves
<1> QED
  BY <1>1, <1>2, <1>3, <1>4, <1>5, <1>6, <1>7, <1>8, <1>9, <1>10, <1>11, <1>12,
     <1>13 DEF Next, Running, Failing, Reversal, Tick, Workers

-----------------------------------------------------------------------------
(* What a step may do to the charges.                                         *)

ChargeMoves ==
  \A p \in PaymentIntents :
    /\ Paid(p) => Paid(p)'
    /\ intent'[p] = "refunded" => intent[p] = "refunded" \/ <<"clawback", p>> \in events'
    /\ <<"canceled", p>> \in events' => <<"canceled", p>> \in events \/ intent'[p] = "canceled"
    /\ <<"clawback", p>> \in events =>
         \/ <<"clawback", p>> \in events'
         \/ status'[p[1]] \in Terminal \cup Frozen
         \/ "clawback" \in LoseEvents
         \/ \E w \in Workers : worker[w].evt = <<"clawback", p>>

\* A step that leaves the intents alone and acknowledges at most the event of one
\* worker is a move of the charges.
LEMMA ChargesKept ==
  ASSUME UNCHANGED intent, NEW w \in Workers, events \ {worker[w].evt} \subseteq events', events' \subseteq events
  PROVE  ChargeMoves
  BY DEF ChargeMoves, Paid

\* So is one that changes one intent that is not paid, and sends other events
\* of it than a clawback.
LEMMA ChargeSet ==
  ASSUME TypeOK, NEW p \in PaymentIntents, NEW s \in IntentStatuses \ {"refunded"}, ~ Paid(p),
         intent' = [intent EXCEPT ![p] = s], NEW w \in Workers,
         events \ {worker[w].evt} \subseteq events',
         \A e \in events' : e \in events \/ (e[1] # "clawback" /\ e[2] = p /\ (e[1] = "canceled" => s = "canceled"))
  PROVE  ChargeMoves
<1>1. \A q \in PaymentIntents : intent'[q] = IF q = p THEN s ELSE intent[q]
  BY DEF TypeOK
<1> QED BY <1>1 DEF ChargeMoves, Paid

\* So is every step of a worker.
LEMMA StepChargeMoves ==
  ASSUME TypeOK, RefsOK, NEW w \in Workers, Step(w)
  PROVE  ChargeMoves
<1>a. worker[w].pc \in Holding => Hand(w) \in PaymentIntents
  BY DEF RefsOK, WorkersOK, Coherent, Holding, Hand, Job, IntentsOf
<1> USE ChargesKept DEF At, ledger, stripe, Return, Throw
<1>1. CASE RetryConfirm(w)
  BY <1>1, <1>a, ChargeSet DEF RetryConfirm, Holding, Paid, IntentStatuses
<1>2. CASE AbandonOrphan(w)
  BY <1>2, <1>a, ChargeSet DEF AbandonOrphan, Cancels, CanceledEvent, Holding, Paid, IntentStatuses
<1>3. CASE ReleaseCancel(w)
  BY <1>3, <1>a, ChargeSet DEF ReleaseCancel, Cancels, CanceledEvent, Holding, Paid, IntentStatuses
<1>4. CASE Collect(w) /\ ~ RetryConfirm(w) /\ ~ AbandonOrphan(w)
  BY <1>4 DEF Collect, ClaimForCreate, RereadInvoicing, SearchBeforeCreate, AdoptStamp,
       AdoptMove, AdoptRetrieve, Poll, RetryRetrieve, RetryMovePaid, RetryRecord, SendCreate,
       CreateReturns, CreateFails, StampCreated, MoveCreated, RecordFailedIntent,
       MoveCreateFailed, OrphanStamp, OrphanReclaim, OrphanFreeze
<1>5. CASE ConfirmStep(w)
  BY <1>5 DEF ConfirmStep, Confirm, ConfirmWins, ConfirmLoses
<1>6. CASE Release(w) /\ ~ ReleaseCancel(w)
  BY <1>6 DEF Release, ReleaseClaim, ReleaseSearch, ReleaseStamp, ReleaseRetrieve,
       ReleaseFreeze, ReleaseFree, ReleaseClose
<1>7. CASE ForceRelease(w)
  BY <1>7 DEF ForceRelease, ForceSearch, ForceList, ForceClose, ForceFree
<1> QED BY <1>1, <1>2, <1>3, <1>4, <1>5, <1>6, <1>7 DEF Step

\* So is every step.
LEMMA NextChargeMoves ==
  ASSUME TypeOK, RefsOK, Next
  PROVE  ChargeMoves
<1>k. ASSUME UNCHANGED <<intent, events>> PROVE ChargeMoves
  BY <1>k DEF ChargeMoves, Paid
<1> USE DEF ledger, stripe
<1>1. ASSUME NEW w \in Workers, Step(w) PROVE ChargeMoves
  BY <1>1, StepChargeMoves
<1>2. ASSUME NEW b \in Batches, Reserve(b) PROVE ChargeMoves
  BY <1>2, <1>k DEF Reserve
<1>3. ASSUME NEW c \in Commissions, Reversal(c) PROVE ChargeMoves
  BY <1>3, <1>k DEF Reversal, ReverseFree, ReverseReserved, ReverseInFlight
<1>4. ASSUME NEW w \in Hooks, NEW e \in events,
             HookSucceeded(w, e) \/ HookFailed(w, e) \/ HookCanceled(w, e) \/ HookClawback(w, e)
      PROVE  ChargeMoves
  <2>1. UNCHANGED intent /\ events \ {e} \subseteq events' /\ events' \subseteq events
    BY <1>4 DEF HookSucceeded, HookFailed, HookCanceled, HookClawback
  <2>2. e[1] # "clawback" \/ status'[e[2][1]] \in Terminal \cup Frozen
    <3>1. CASE HookClawback(w, e)
      <4>1. e[2][1] \in Batches /\ status \in [Batches -> Statuses]
        BY DEF TypeOK, Events, PaymentIntents
      <4> QED BY <3>1, <4>1 DEF HookClawback, Clawback, Cas, Statuses, Terminal, Frozen
    <3> QED BY <1>4, <3>1 DEF HookSucceeded, HookFailed, HookCanceled, Available
  <2> QED BY <2>1, <2>2 DEF ChargeMoves, Paid
<1>5. ASSUME NEW w \in Workers, NEW b \in Batches, Scan(w, b) \/ ForceRead(w, b) PROVE ChargeMoves
  BY <1>5, <1>k DEF Scan, ForceRead
<1>6. ASSUME NEW w \in Workers, ReleaseCallFails(w) \/ Crash(w) PROVE ChargeMoves
  BY <1>6, ChargesKept DEF ReleaseCallFails, Crash, Return, Throw
<1>7. ASSUME NEW r \in requests, StripeCreate(r) PROVE ChargeMoves
  <2>1. UNCHANGED events
    BY <1>7 DEF StripeCreate
  <2>2. \A p \in PaymentIntents : \/ intent'[p] = intent[p]
                                  \/ intent[p] = "absent" /\ intent'[p] # "refunded"
    BY <1>7 DEF StripeCreate, TypeOK, IntentsOf
  <2> QED BY <2>1, <2>2 DEF ChargeMoves, Paid
<1>8. ASSUME NEW p \in PaymentIntents, Bank(p) PROVE ChargeMoves
  <2>1. \A q \in PaymentIntents : q # p => intent'[q] = intent[q]
    BY <1>8 DEF Bank, DebitSucceeds, DebitFails, BankDebit, ExternalCancel, Cancels,
         ChargeReturned, Index, TypeOK
  <2>2. events \subseteq events' /\ \A e \in events' : e \in events \/ e[2] = p
    BY <1>8 DEF Bank, DebitSucceeds, DebitFails, BankDebit, ExternalCancel, CanceledEvent,
         ChargeReturned, Index
  <2>3. /\ Paid(p) => Paid(p)'
        /\ intent'[p] = "refunded" => intent[p] = "refunded" \/ <<"clawback", p>> \in events'
        /\ <<"canceled", p>> \in events' => <<"canceled", p>> \in events \/ intent'[p] = "canceled"
    BY <1>8 DEF Bank, DebitSucceeds, DebitFails, BankDebit, ExternalCancel, Cancels, CanceledEvent,
         ChargeReturned, Index, Paid, TypeOK
  <2> QED BY <2>1, <2>2, <2>3 DEF ChargeMoves, Paid
<1>9. ASSUME NEW e \in events, LoseEvent(e) PROVE ChargeMoves
  BY <1>9 DEF LoseEvent, ChargeMoves, Paid
<1>10. ASSUME NEW b \in Batches, Tick(b) PROVE ChargeMoves
  BY <1>10, <1>k DEF Tick, TimeOut, QuietHour, ExpireKey
<1> QED
  BY <1>1, <1>2, <1>3, <1>4, <1>5, <1>6, <1>7, <1>8, <1>9, <1>10
     DEF Next, Running, Failing, Hook, Workers

-----------------------------------------------------------------------------
(* What a step may do to a worker, as far as the books depend on it.          *)

\* Labels at which the intent in hand is known to be paid.
Paying == {"retryPaid", "confirm", "confirmCas", "relConfirm", "relConfirmCas"}

PassMoves(w) ==
  LET v == worker'[w]
      From(L) == Job(w) = v.job /\ worker[w].pc \in L
  IN
  /\ v.evt = worker[w].evt \/ \A p \in PaymentIntents : v.evt # <<"clawback", p>>
  /\ v.pc \in Paying => Paid(v.hand) \/ (v.hand = Hand(w) /\ worker[w].pc \in Paying)
  /\ v.pc \in {"confirmCas", "relConfirmCas"} => stamp[v.job] # None
  /\ v.pc \in Collecting => w \in Collectors \/ worker[w].pc \in Collecting
  /\ v.pc = "release" =>
       \/ w \in Collectors \/ worker[w].pc \in Collecting
       \/ \E p \in IntentsOf(v.job) : <<"canceled", p>> \in events
  /\ v.pc = "search" /\ v.seen = "invoicing" => status[v.job] = "invoicing" /\ UNCHANGED status
  /\ v.pc = "create" =>
       status'[v.job] = "invoicing" \/ (From({"search"}) /\ worker[w].seen = "invoicing")
  /\ v.pc = "await" => From({"create"})
  /\ v.pc = "stamp" => From({"await"})
  /\ v.pc = "abandon" => From({"stamp"}) /\ status[v.job] # "invoicing"
  /\ v.pc = "orphanStamp" => From({"abandon"})
  /\ v.pc = "orphanReclaim" => From({"orphanStamp"})
  /\ v.pc = "orphanFreeze" => From({"orphanReclaim"})
  /\ v.pc = "relFreeze" => From({"relRetrieve", "relConfirm", "relConfirmCas"})

\* What a Go leaves of a process.
LEMMA GoLeaves ==
  ASSUME WorkersOK, NEW w \in Workers, NEW l, Go(w, l)
  PROVE  /\ worker'[w].pc = l /\ worker'[w].job = Job(w) /\ worker'[w].hand = Hand(w)
         /\ worker'[w].seen = worker[w].seen /\ worker'[w].evt = worker[w].evt
         /\ Others(w)
  BY DEF WorkersOK, Processes, Go, Job, Hand, Others

\* The same of GoWith and GoSeeing.
LEMMA GoHoldingLeaves ==
  ASSUME WorkersOK, NEW w \in Workers, NEW l, NEW p, GoWith(w, l, p) \/ GoSeeing(w, l, p)
  PROVE  /\ worker'[w].pc = l /\ worker'[w].job = Job(w) /\ worker'[w].hand = p
         /\ worker'[w].seen = worker[w].seen /\ worker'[w].evt = worker[w].evt
         /\ Others(w)
  BY DEF WorkersOK, Processes, GoWith, GoSeeing, Job, Others

\* The same of a return.
LEMMA RestLeaves ==
  ASSUME WorkersOK, NEW w \in Workers, worker' = [worker EXCEPT ![w] = Resting]
  PROVE  /\ worker'[w].pc = "idle"
         /\ \A p \in PaymentIntents : worker'[w].evt # <<"clawback", p>>
         /\ Others(w)
<1>1. \A p \in PaymentIntents : None # <<"clawback", p>>
  BY CollectionAssumption DEF Events, EventTypes
<1> QED BY <1>1 DEF WorkersOK, Resting, Process, Others

\* The same of the start of a function.
LEMMA StartLeaves ==
  ASSUME WorkersOK, NEW w \in Workers, NEW l, NEW b, NEW s, NEW p, NEW v, NEW e,
         worker' = [worker EXCEPT ![w] = Process(l, b, s, p, v, e)]
  PROVE  /\ worker'[w].pc = l /\ worker'[w].job = b /\ worker'[w].hand = p
         /\ worker'[w].seen = s /\ worker'[w].evt = e
         /\ Others(w)
  BY DEF WorkersOK, Process, Others

\* A step of the collector is such a move of its worker.
LEMMA CollectPassMoves ==
  ASSUME TypeOK, RefsOK, NEW w \in Workers, Collect(w)
  PROVE  PassMoves(w) /\ Others(w)
<1>0. WorkersOK /\ status \in [Batches -> Statuses]
  BY DEF RefsOK, TypeOK
<1>a. worker[w].pc # "idle" => Job(w) \in Batches
  BY <1>0 DEF WorkersOK, Coherent, Job
<1> USE <1>0, <1>a, GoLeaves, RestLeaves DEF PassMoves, At, Return, Throw, Collecting, Paying, ledger
<1>1. CASE ClaimForCreate(w)
  BY <1>1 DEF ClaimForCreate, Cas
<1>2. CASE RereadInvoicing(w)
  BY <1>2 DEF RereadInvoicing
<1>3. CASE SearchBeforeCreate(w)
  BY <1>3, GoHoldingLeaves DEF SearchBeforeCreate
<1>4. CASE AdoptStamp(w)
  BY <1>4 DEF AdoptStamp
<1>5. CASE AdoptMove(w)
  BY <1>5 DEF AdoptMove
<1>6. CASE AdoptRetrieve(w)
  BY <1>6, GoHoldingLeaves DEF AdoptRetrieve, Paid
<1>7. CASE Poll(w)
  BY <1>7, GoHoldingLeaves DEF Poll
<1>8. CASE RetryRetrieve(w)
  BY <1>8, GoHoldingLeaves DEF RetryRetrieve
<1>9. CASE RetryMovePaid(w)
  BY <1>9 DEF RetryMovePaid
<1>10. CASE RetryConfirm(w)
  BY <1>10 DEF RetryConfirm
<1>11. CASE RetryRecord(w)
  BY <1>11 DEF RetryRecord
<1>12. CASE SendCreate(w)
  BY <1>12 DEF SendCreate
<1>13. CASE CreateReturns(w)
  BY <1>13, GoHoldingLeaves DEF CreateReturns
<1>14. CASE CreateFails(w)
  BY <1>14 DEF CreateFails
<1>15. CASE StampCreated(w)
  BY <1>15 DEF StampCreated
<1>16. CASE MoveCreated(w)
  BY <1>16 DEF MoveCreated
<1>17. CASE RecordFailedIntent(w)
  BY <1>17 DEF RecordFailedIntent
<1>18. CASE MoveCreateFailed(w)
  BY <1>18 DEF MoveCreateFailed
<1>19. CASE AbandonOrphan(w)
  BY <1>19 DEF AbandonOrphan
<1>20. CASE OrphanStamp(w) \/ OrphanReclaim(w)
  BY <1>20 DEF OrphanStamp, OrphanReclaim
<1>21. CASE OrphanFreeze(w)
  BY <1>21 DEF OrphanFreeze
<1> QED
  BY <1>1, <1>2, <1>3, <1>4, <1>5, <1>6, <1>7, <1>8, <1>9, <1>10, <1>11, <1>12, <1>13, <1>14,
     <1>15, <1>16, <1>17, <1>18, <1>19, <1>20, <1>21 DEF Collect

\* So is a step of confirmation, release or the forced release.
LEMMA ReleasePassMoves ==
  ASSUME TypeOK, RefsOK, NEW w \in Workers, ConfirmStep(w) \/ Release(w) \/ ForceRelease(w)
  PROVE  PassMoves(w) /\ Others(w)
<1>0. WorkersOK
  BY DEF RefsOK
<1>a. worker[w].pc \in Holding => Hand(w) # None
  BY <1>0 DEF WorkersOK, Coherent, Hand
<1> USE <1>0, GoLeaves, RestLeaves DEF PassMoves, At, Return, Throw, Collecting, Paying
<1>1. ASSUME NEW rel \in BOOLEAN, Confirm(w, rel) PROVE PassMoves(w) /\ Others(w)
  BY <1>1, <1>a DEF Confirm, Holding
<1>2. ASSUME NEW rel \in BOOLEAN, ConfirmWins(w, rel) PROVE PassMoves(w) /\ Others(w)
  BY <1>2 DEF ConfirmWins
<1>3. ASSUME NEW rel \in BOOLEAN, ConfirmLoses(w, rel) PROVE PassMoves(w) /\ Others(w)
  BY <1>3 DEF ConfirmLoses
<1>4. CASE ReleaseClaim(w)
  <2> DEFINE at(l) == IF stamp[Job(w)] # None THEN "relRetrieve" ELSE l
             claimed(l) == worker' = [worker EXCEPT ![w] =
               Process(at(l), Job(w), "absent", stamp[Job(w)], "absent", worker[w].evt)]
  <2>1. claimed("relSearch") \/ claimed("relFree") \/ Return(w)
    BY <1>4 DEF ReleaseClaim
  <2>2. at("relSearch") \in {"relSearch", "relRetrieve"} /\ at("relFree") \in {"relFree", "relRetrieve"}
    OBVIOUS
  <2> HIDE DEF at
  <2>3. ASSUME NEW l, claimed(l)
        PROVE  worker'[w].pc = at(l) /\ worker'[w].evt = worker[w].evt /\ Others(w)
    BY <2>3 DEF WorkersOK, Process, Others
  <2>4. CASE Return(w)
    BY <2>4
  <2> HIDE DEF claimed
  <2> QED BY <2>1, <2>2, <2>3, <2>4
<1>5. CASE ReleaseSearch(w)
  BY <1>5, GoHoldingLeaves DEF ReleaseSearch
<1>6. CASE ReleaseStamp(w)
  BY <1>6 DEF ReleaseStamp
<1>7. CASE ReleaseRetrieve(w)
  BY <1>7 DEF ReleaseRetrieve, Paid
<1>8. CASE ReleaseCancel(w)
  BY <1>8 DEF ReleaseCancel
<1>9. CASE ReleaseFreeze(w) \/ ReleaseFree(w) \/ ReleaseClose(w)
  BY <1>9 DEF ReleaseFreeze, ReleaseFree, ReleaseClose
<1>10. CASE ForceRelease(w)
  BY <1>10 DEF ForceRelease, ForceSearch, ForceList, ForceClose, ForceFree
<1> QED
  BY <1>1, <1>2, <1>3, <1>4, <1>5, <1>6, <1>7, <1>8, <1>9, <1>10 DEF ConfirmStep, Release

\* So is every step, whatever makes it.
LEMMA NextPassMoves ==
  ASSUME TypeOK, RefsOK, Next
  PROVE  \A w \in Workers : worker'[w] = worker[w] \/ PassMoves(w)
<1> DEFINE P == \A w \in Workers : worker'[w] = worker[w] \/ PassMoves(w)
<1>0. WorkersOK
  BY DEF RefsOK
<1>a. ASSUME NEW w \in Workers, PassMoves(w), Others(w) PROVE P
  BY <1>a DEF Others
<1>n. \A p \in PaymentIntents : None # <<"clawback", p>>
  BY CollectionAssumption DEF Events, EventTypes
<1>1. ASSUME NEW w \in Collectors, NEW b \in Batches, Scan(w, b) PROVE P
  <2> DEFINE h == IF Branch(b) \in {"poll", "retry"} THEN stamp[b] ELSE None
  <2>1. w \in Workers /\ worker' = [worker EXCEPT ![w] = Process(Branch(b), b, status[b], h, "absent", None)]
    BY <1>1 DEF Scan, Workers
  <2>2. /\ Branch(b) \in {"release", "reread", "claim", "poll", "retry", "search"}
        /\ Branch(b) = "search" => status[b] = "funding_failed"
    BY <1>1 DEF Scan, Branch
  <2> HIDE DEF h
  <2>3. /\ worker'[w].pc = Branch(b) /\ worker'[w].seen = status[b] /\ worker'[w].evt = None /\ Others(w)
    BY <1>0, <2>1, StartLeaves
  <2>4. PassMoves(w)
    BY <1>n, <2>2, <2>3 DEF PassMoves, Paying
  <2> QED BY <1>a, <2>1, <2>3, <2>4
<1>2. ASSUME NEW w \in Hooks, Hook(w) PROVE P
  <2> PICK e \in events : HookSucceeded(w, e) \/ HookFailed(w, e) \/ HookCanceled(w, e)
                            \/ HookClawback(w, e)
    BY <1>2 DEF Hook
  <2>1. w \in Workers /\ e = <<e[1], e[2]>> /\ e[2] \in IntentsOf(e[2][1])
    BY DEF Workers, TypeOK, Events, PaymentIntents, IntentsOf
  <2>2. ASSUME NEW l, Handling(w, e, l)
        PROVE  /\ worker'[w].pc = l /\ worker'[w].job = e[2][1] /\ worker'[w].hand = e[2]
               /\ worker'[w].evt = e /\ Others(w)
    BY <1>0, <2>1, <2>2 DEF Handling, WorkersOK, Process, Others
  <2>e. e[1] # "clawback" => \A p \in PaymentIntents : e # <<"clawback", p>>
    OBVIOUS
  <2>3. ASSUME Available(w, e, "succeeded"), intent[e[2]] = "succeeded", Handling(w, e, "confirm")
        PROVE  PassMoves(w)
    BY <2>2, <2>3, <2>e DEF Available, Paid, PassMoves, Paying, Collecting
  <2>4. ASSUME Available(w, e, "canceled"), Handling(w, e, "release") PROVE PassMoves(w)
    BY <2>1, <2>2, <2>4, <2>e DEF Available, PassMoves, Paying, Collecting
  <2>5. CASE UNCHANGED worker
    BY <2>5
  <2> QED BY <1>a, <2>1, <2>2, <2>3, <2>4, <2>5 DEF HookSucceeded, HookFailed, HookCanceled, HookClawback
<1>3. ASSUME NEW w \in Operators, NEW b \in Batches, ForceRead(w, b) PROVE P
  <2>1. w \in Workers /\ worker' = [worker EXCEPT ![w] = Process("forceSearch", b, "absent", None, "absent", None)]
    BY <1>3 DEF ForceRead, Workers
  <2>2. worker'[w].pc = "forceSearch" /\ worker'[w].evt = None /\ Others(w)
    BY <1>0, <2>1, StartLeaves
  <2> QED BY <1>a, <1>n, <2>1, <2>2 DEF PassMoves, Paying, Collecting
<1>4. ASSUME NEW w \in Workers, ReleaseCallFails(w) \/ Crash(w) PROVE P
  <2>1. /\ worker'[w].pc = "idle" /\ Others(w)
        /\ \A p \in PaymentIntents : worker'[w].evt # <<"clawback", p>>
    BY <1>0, <1>4, RestLeaves DEF ReleaseCallFails, Crash, Return, Throw
  <2> QED BY <1>a, <2>1 DEF PassMoves, Paying, Collecting
<1>5. ASSUME NEW w \in Workers, Step(w) PROVE P
  BY <1>5, <1>a, CollectPassMoves, ReleasePassMoves DEF Step
<1>6. UNCHANGED worker => P
  OBVIOUS
<1>7. ASSUME NEW b \in Batches, Reserve(b) \/ Tick(b) PROVE P
  BY <1>6, <1>7 DEF Reserve, Tick, TimeOut, QuietHour, ExpireKey
<1>8. ASSUME NEW c \in Commissions, Reversal(c) PROVE P
  BY <1>6, <1>8 DEF Reversal, ReverseFree, ReverseReserved, ReverseInFlight
<1>9. ASSUME NEW p \in PaymentIntents, Bank(p) PROVE P
  BY <1>6, <1>9 DEF Bank, DebitSucceeds, DebitFails, BankDebit, ExternalCancel, ChargeReturned, Index
<1>10. ASSUME NEW r \in requests, StripeCreate(r) PROVE P
  BY <1>6, <1>10 DEF StripeCreate
<1>11. ASSUME NEW e \in events, LoseEvent(e) PROVE P
  BY <1>6, <1>11 DEF LoseEvent
<1> QED
  BY <1>1, <1>2, <1>3, <1>4, <1>5, <1>7, <1>8, <1>9, <1>10, <1>11 DEF Next, Running, Failing

-----------------------------------------------------------------------------
(* The books of any number of workers.                                        *)

\* What the four lemmas above say of a step, stuttering included.
AllMoves ==
  /\ Moves /\ StatusMoves /\ BookMoves /\ ChargeMoves
  /\ \A w \in Workers : worker'[w] = worker[w] \/ PassMoves(w)

LEMMA NextAllMoves ==
  ASSUME IInv, [Next]_vars
  PROVE  AllMoves
<1>1. Moves
  BY NextMoves DEF IInv
<1>2. CASE Next
  BY <1>1, <1>2, NextStatusMoves, NextBookMoves, NextChargeMoves, NextPassMoves DEF IInv, AllMoves
<1>3. CASE UNCHANGED vars
  <2>1. StatusMoves /\ BookMoves
    BY <1>3, StatusKept, BooksKept DEF vars, ledger, stripe
  <2>2. ChargeMoves
    BY <1>3 DEF ChargeMoves, Paid, vars, stripe
  <2> QED BY <1>1, <1>3, <2>1, <2>2 DEF AllMoves, vars
<1> QED BY <1>2, <1>3

\* A batch opens only while no other is open.
LEMMA OneOpenKept ==
  ASSUME OneOpen, StatusMoves
  PROVE  OneOpen'
<1> SUFFICES ASSUME NEW x \in Batches, NEW y \in Batches, status'[x] \notin Terminal, status'[y] \notin Terminal,
                    x # y
             PROVE  FALSE
  BY DEF OneOpen
<1>1. CASE status'[x] = status[x] /\ status'[y] = status[y]
  BY <1>1 DEF OneOpen
<1>2. CASE status'[x] # status[x]
  BY <1>2 DEF OneOpen, StatusMoves, NoOtherOpen
<1>3. CASE status'[y] # status[y]
  BY <1>3 DEF OneOpen, StatusMoves, NoOtherOpen
<1> QED BY <1>1, <1>2, <1>3

\* The principal of a batch that has reached Stripe does not change.
LEMMA PricedKept ==
  ASSUME IInv, IInv', Moves, BookMoves, Priced
  PROVE  Priced'
<1>1. ASSUME NEW b \in Batches, ~ Untouched(b) PROVE principal'[b] = principal[b]
  BY <1>1 DEF BookMoves, IInv, Early
<1>2. ASSUME NEW r \in requests' PROVE r[2] = principal'[r[1]]
  <2>1. CASE r \in requests
    <3>1. r[1] \in Batches /\ Sent(r[1])
      BY <2>1 DEF IInv, TypeOK, Sent
    <3> QED BY <1>1, <2>1, <3>1 DEF Priced, Untouched
  <2>2. ASSUME NEW w \in Workers, At(w, "create"), r = <<Job(w), principal[Job(w)]>>
        PROVE  r[2] = principal'[r[1]]
    <3>1. Job(w) \in Batches
      BY <2>2 DEF IInv, RefsOK, WorkersOK, Coherent, Job, At
    <3> QED BY <1>1, <2>2, <3>1 DEF Untouched, At
  <2> QED BY <2>1, <2>2 DEF BookMoves
<1>3. ASSUME NEW p \in PaymentIntents, Made(p)' PROVE amount'[p] = principal'[p[1]]
  <2>0. p[1] \in Batches /\ p \in IntentsOf(p[1]) /\ p # None
    BY CollectionAssumption DEF PaymentIntents, IntentsOf
  <2>1. CASE Made(p)
    BY <1>1, <2>0, <2>1 DEF Priced, BookMoves, Untouched
  <2>2. CASE ~ Made(p)
    <3>1. Sent(p[1]) /\ frozenKey[p[1]] = None /\ frozenKey'[p[1]] = p
      BY <1>3, <2>0, <2>2, NothingMade
    <3>2. principal'[p[1]] = principal[p[1]]
      BY <1>1, <2>0, <3>1 DEF Untouched
    <3>3. PICK r \in requests : r[1] = p[1] /\ amount'[p] = r[2]
      BY <2>0, <3>1 DEF BookMoves
    <3> QED BY <3>2, <3>3 DEF Priced
  <2> QED BY <2>1, <2>2
<1> QED BY <1>2, <1>3 DEF Priced, Made

\* What is freed belongs to a batch that can be given up.
LEMMA KeptKept ==
  ASSUME IInv, Moves, BookMoves, Kept
  PROVE  Kept'
<1> SUFFICES ASSUME NEW b \in Batches PROVE (principal[b] \subseteq Held(b) \/ Closed(b))'
  BY DEF Kept
<1>1. CASE Closed(b)
  BY <1>1, ClosedKept DEF IInv
<1>2. ASSUME NEW w \in Workers, Job(w) = b, worker[w].pc \in {"relFree", "forceFree"} PROVE Closed(b)
  BY <1>2 DEF IInv, Freeing, Forcing, Still, Creating, Untouched, Closed, Dead, Made
<1>3. CASE principal[b] \subseteq Held(b) /\ ~ Closed(b)
  BY <1>2, <1>3 DEF BookMoves
<1> QED BY <1>1, <1>3 DEF Kept

\* A paid intent stays paid, and the row keeps an intent.
LEMMA ConfirmingKept ==
  ASSUME IInv, IInv', AllMoves, Confirming
  PROVE  Confirming'
<1> SUFFICES ASSUME NEW w \in Workers
             PROVE  /\ worker'[w].pc \in Paying => intent'[worker'[w].hand] \in {"succeeded", "refunded"}
                    /\ worker'[w].pc \in {"confirmCas", "relConfirmCas"} => stamp'[worker'[w].job] # None
  BY DEF Confirming, Paying, Hand, Job, Paid
<1>1. worker'[w].pc \in Paying => worker'[w].hand \in PaymentIntents /\ worker'[w].job \in Batches
  BY DEF IInv, RefsOK, WorkersOK, Coherent, Holding, Paying, IntentsOf
<1>2. worker'[w].pc \in Paying => Paid(worker'[w].hand)
  BY DEF AllMoves, PassMoves, Confirming, Paying, Hand
<1>3. worker'[w].pc \in {"confirmCas", "relConfirmCas"} => stamp[worker'[w].job] # None
  BY DEF AllMoves, PassMoves, Confirming, Job
<1>4. ASSUME NEW p \in PaymentIntents, Paid(p) PROVE intent'[p] \in {"succeeded", "refunded"}
  BY <1>4 DEF AllMoves, ChargeMoves, Paid
<1>5. ASSUME NEW b \in Batches, stamp[b] # None PROVE stamp'[b] # None
  BY <1>5 DEF AllMoves, Moves, RowMoves
<1>6. {"confirmCas", "relConfirmCas"} \subseteq Paying
  BY DEF Paying
<1> QED BY <1>1, <1>2, <1>3, <1>4, <1>5, <1>6

\* All that is known of a batch is one intent: the one that is confirmed is on
\* the row when the batch is funded.
LEMMA FundedPaidKept ==
  ASSUME IInv, IInv', AllMoves, Confirming, FundedPaid
  PROVE  FundedPaid'
<1> SUFFICES ASSUME NEW b \in Batches, status'[b] = "funded"
             PROVE  stamp'[b] # None /\ Paid(stamp[b])'
  BY DEF FundedPaid
<1>1. PICK p \in IntentsOf(b) : Paid(p) /\ stamp[b] # None
  <2>1. CASE status[b] = "funded"
    BY <2>1 DEF FundedPaid, IInv, RefsOK
  <2>2. ASSUME NEW w \in Workers, Job(w) = b, worker[w].pc \in {"confirmCas", "relConfirmCas"}
        PROVE  Paid(Hand(w)) /\ stamp[b] # None /\ Hand(w) \in IntentsOf(b)
    BY <2>2 DEF Confirming, IInv, RefsOK, WorkersOK, Coherent, Holding, Hand, Job
  <2> QED BY <2>1, <2>2 DEF AllMoves, StatusMoves
<1>2. stamp'[b] # None /\ Made(stamp'[b])
  BY <1>1 DEF AllMoves, Moves, RowMoves
<1>3. stamp'[b] \in IntentsOf(b)
  BY <1>2 DEF IInv, RefsOK, IntentsOf
<1>4. stamp'[b] = p
  BY <1>1, <1>2, <1>3 DEF IInv, OneDebitPerBatch, Made, Paid
<1> QED BY <1>1, <1>2, <1>4 DEF AllMoves, ChargeMoves, Paid, IntentsOf

LEMMA InitBooks == Init => BooksInv
<1> SUFFICES ASSUME Init PROVE BooksInv
  OBVIOUS
<1>1. \A w \in Workers : worker[w].pc = "idle"
  BY DEF Init, Resting, Process
<1> QED
  BY <1>1 DEF Init, BooksInv, OneOpen, Terminal, Priced, Kept, Confirming, FundedPaid, Made

LEMMA BooksStep == IInv /\ IInv' /\ BooksInv /\ [Next]_vars => BooksInv'
  BY NextAllMoves, OneOpenKept, PricedKept, KeptKept, ConfirmingKept, FundedPaidKept DEF BooksInv, AllMoves

\* The books hold of every reachable state.
LEMMA BooksHold == Spec => [](IInv /\ BooksInv)
  BY InitInv, InvStep, InitBooks, BooksStep, PTL DEF Spec

\* No commission is paid for by the debits of two batches: while a debit of one
\* has happened or can happen the batch is open, and no other is (reserve.ts,
\* release.ts).
THEOREM ChargedByOne == Spec => []ChargedOnce
<1>1. IInv /\ BooksInv => ChargedOnce
  <2> SUFFICES ASSUME IInv, BooksInv, NEW p \in PaymentIntents, NEW q \in PaymentIntents,
                      p[1] # q[1], ~ Dead(p), ~ Dead(q)
               PROVE  FALSE
    BY DEF ChargedOnce
  <2>1. ASSUME NEW x \in PaymentIntents, ~ Dead(x) PROVE x[1] \in Batches /\ status[x[1]] \notin Terminal
    BY <2>1 DEF IInv, Early, Untouched, Freeing, Closed, Dead, Made, Terminal, IntentsOf, PaymentIntents
  <2> QED BY <2>1 DEF BooksInv, OneOpen
<1> QED BY <1>1, BooksHold, PTL

\* Whatever workers overlap, a debit that happened or can happen is of
\* commissions its batch still holds (reserve.ts, interlocks.ts, release.ts).
DebitIsHeld == \A p \in PaymentIntents : ~ Dead(p) => amount[p] \subseteq Held(p[1])

THEOREM DebitHeld == Spec => []DebitIsHeld
<1>1. IInv /\ BooksInv => DebitIsHeld
  BY DEF IInv, BooksInv, Priced, Kept, Closed, Dead, Made, DebitIsHeld, IntentsOf, PaymentIntents
<1> QED BY <1>1, BooksHold, PTL

-----------------------------------------------------------------------------
(* Charges that are given back.                                               *)

\* A refund freezes its batch before its event is gone.
LEMMA ReturnedKept ==
  ASSUME "clawback" \notin LoseEvents, IInv, IInv', AllMoves, ReturnInv
  PROVE  ReturnInv'
<1>1. Handled'
  BY DEF AllMoves, PassMoves, ReturnInv, Handled
<1>2. ASSUME NEW p \in PaymentIntents, intent'[p] = "refunded", <<"clawback", p>> \notin events'
      PROVE  status'[p[1]] \in Frozen
  <2>0. p[1] \in Batches /\ p \in IntentsOf(p[1])
    BY DEF PaymentIntents, IntentsOf
  <2>1. intent[p] = "refunded"
    BY <1>2 DEF AllMoves, ChargeMoves
  <2>2. CASE <<"clawback", p>> \notin events
    BY <2>0, <2>1, <2>2 DEF ReturnInv, Returned, AllMoves, StatusMoves
  <2>3. CASE <<"clawback", p>> \in events
    <3>1. status'[p[1]] \in Terminal \cup Frozen
      BY <1>2, <2>3 DEF AllMoves, ChargeMoves, ReturnInv, Handled
    <3>2. status'[p[1]] \notin Terminal
      BY <1>2, <2>0 DEF IInv, Early, Untouched, Freeing, Closed, Dead, Made, Terminal, IntentsOf
    <3> QED BY <3>1, <3>2
  <2> QED BY <2>2, <2>3
<1> QED BY <1>1, <1>2 DEF ReturnInv, Returned

LEMMA InitReturn == Init => ReturnInv
<1> SUFFICES ASSUME Init PROVE ReturnInv
  OBVIOUS
<1>1. \A w \in Workers : worker[w].evt = None
  BY DEF Init, Resting, Process
<1>2. \A p \in PaymentIntents : None # <<"clawback", p>>
  BY CollectionAssumption DEF Events, EventTypes
<1> QED BY <1>1, <1>2 DEF Init, ReturnInv, Handled, Returned

\* If Stripe delivers its clawbacks in the end, a refunded charge whose event has
\* been handled leaves no funded batch behind, whatever confirmation it overtook
\* (interlocks.ts, recordFundingChargeClawback).
THEOREM ClawbackKept ==
  ASSUME "clawback" \notin LoseEvents
  PROVE  Spec => []ClawbackHolds
<1>1. IInv /\ IInv' /\ ReturnInv /\ [Next]_vars => ReturnInv'
  BY NextAllMoves, ReturnedKept
<1>2. ReturnInv => ClawbackHolds
  BY DEF ReturnInv, Returned, ClawbackHolds, Frozen
<1> QED BY <1>1, <1>2, InitReturn, Inductive, PTL DEF Spec

-----------------------------------------------------------------------------
(* One pass of the collector at a time.                                       *)

\* A batch that is spent stays so.
LEMMA SpentKept ==
  ASSUME AllMoves, NEW b \in Batches, Spent(b)
  PROVE  Spent(b)'
  BY DEF Spent, AllMoves, StatusMoves, Moves, StripeMoves, IntentsOf

\* A batch whose intent the collector is creating stays invoicing until it is
\* spent: the only other way out is the collector's own.
LEMMA InvoicingKept ==
  ASSUME OneCollector, IInv, AllMoves, PassInv, NEW w \in Workers, NEW b \in Batches, Job(w) = b,
         worker[w].pc \in {"search", "create", "await", "stamp"},
         status[b] = "invoicing" \/ Spent(b)
  PROVE  (status[b] = "invoicing" \/ Spent(b))'
<1>1. CASE Spent(b)
  BY <1>1, SpentKept
<1>2. CASE status[b] = "invoicing" /\ status'[b] # "invoicing"
  <2>1. CASE status'[b] \in Frozen
    BY <2>1 DEF Spent
  <2>2. ASSUME NEW x \in Workers, Job(x) = b,
               worker[x].pc \in {"release", "adopted", "stamped", "createFailed"}
        PROVE  Spent(b)'
    <3>1. w \in Collectors
      BY DEF PassInv, Roles, Collecting
    <3>2. x \notin Collectors
      BY <2>2, <3>1 DEF OneCollector
    <3>3. \E p \in IntentsOf(b) : intent[p] = "canceled"
      BY <2>2, <3>2 DEF PassInv, Roles, Collecting
    <3> QED BY <3>3, SpentKept DEF Spent
  <2> QED BY <1>2, <2>1, <2>2 DEF AllMoves, StatusMoves
<1> QED BY <1>1, <1>2

\* The collector is alone at its labels, and webhooks release what is canceled.
LEMMA RolesKept ==
  ASSUME IInv, IInv', AllMoves, PassInv
  PROVE  EventsTrue' /\ Roles'
<1>0. \A p \in PaymentIntents : intent[p] = "canceled" => intent'[p] = "canceled"
  BY DEF AllMoves, Moves, StripeMoves
<1>1. EventsTrue'
  BY <1>0 DEF AllMoves, ChargeMoves, PassInv, EventsTrue
<1>2. ASSUME NEW w \in Workers \ Collectors
      PROVE  /\ worker'[w].pc \notin Collecting
             /\ worker'[w].pc = "release" => \E p \in IntentsOf(worker'[w].job) : intent'[p] = "canceled"
  <2>1. worker'[w] = worker[w] \/ PassMoves(w)
    BY DEF AllMoves
  <2>2. \A b : \A p \in IntentsOf(b) : p \in PaymentIntents
    BY DEF IntentsOf
  <2>3. CASE worker'[w] = worker[w]
    BY <1>0, <2>2, <2>3 DEF PassInv, Roles, Job
  <2>4. CASE PassMoves(w)
    BY <1>0, <2>2, <2>4 DEF PassInv, Roles, EventsTrue, PassMoves
  <2> QED BY <2>1, <2>3, <2>4
<1> QED BY <1>1, <1>2 DEF Roles, Job, IntentsOf

\* What the collector creates or reclaims for is invoicing or spent.
LEMMA PassingKept ==
  ASSUME OneCollector, IInv, IInv', AllMoves, PassInv
  PROVE  Passing'
<1> SUFFICES ASSUME NEW w \in Workers, NEW b \in Batches, worker'[w].job = b
             PROVE  /\ worker'[w].pc \in {"create", "await", "stamp"}
                         \/ (worker'[w].pc = "search" /\ worker'[w].seen = "invoicing")
                       => (status[b] = "invoicing" \/ Spent(b))'
                    /\ worker'[w].pc \in {"abandon", "orphanStamp", "orphanReclaim"} => Spent(b)'
  <2>1. \A w \in Workers : worker'[w].pc # "idle" => worker'[w].job \in Batches
    BY DEF IInv, RefsOK, WorkersOK, Coherent
  <2> QED BY <2>1 DEF Passing, Job, Spent, IntentsOf
<1>1. worker'[w] = worker[w] \/ PassMoves(w)
  BY DEF AllMoves
<1>2. Job(w) = b /\ (worker[w].pc \in {"create", "await", "stamp"}
                       \/ (worker[w].pc = "search" /\ worker[w].seen = "invoicing"))
        => (status[b] = "invoicing" \/ Spent(b))'
  BY InvoicingKept DEF PassInv, Passing
<1>3. Job(w) = b /\ worker[w].pc \in {"abandon", "orphanStamp", "orphanReclaim"} => Spent(b)'
  BY SpentKept DEF PassInv, Passing
<1>4. Job(w) = b /\ worker[w].pc = "stamp" /\ status[b] # "invoicing" => Spent(b)'
  BY SpentKept DEF PassInv, Passing
<1>5. CASE worker'[w] = worker[w]
  BY <1>2, <1>3, <1>5 DEF Job
<1>6. CASE PassMoves(w)
  BY <1>2, <1>3, <1>4, <1>6 DEF PassMoves
<1> QED BY <1>1, <1>5, <1>6

\* Only what is spent is reclaimed.
LEMMA WholeKept ==
  ASSUME AllMoves, PassInv
  PROVE  Whole'
<1> SUFFICES ASSUME NEW b \in Batches PROVE (Held(b) \subseteq principal[b] \/ Spent(b))'
  BY DEF Whole
<1>1. CASE Spent(b)
  BY <1>1, SpentKept
<1>2. CASE Held(b) \subseteq principal[b] /\ ~ Spent(b)
  BY <1>2 DEF AllMoves, BookMoves, PassInv, Passing
<1> QED BY <1>1, <1>2 DEF PassInv, Whole

LEMMA InitPass == Init => PassInv
<1> SUFFICES ASSUME Init PROVE PassInv
  OBVIOUS
<1>1. \A w \in Workers : worker[w].pc = "idle"
  BY DEF Init, Resting, Process
<1>2. \A b \in Batches : Held(b) = {}
  BY DEF Init, Held
<1> QED BY <1>1, <1>2 DEF Init, PassInv, EventsTrue, Roles, Collecting, Passing, Whole

\* Under the scheduler's lock, the books of a pass hold of every reachable state.
LEMMA PassHolds ==
  ASSUME OneCollector
  PROVE  Spec => [](IInv /\ BooksInv /\ PassInv)
<1>1. IInv /\ IInv' /\ PassInv /\ [Next]_vars => PassInv'
  BY NextAllMoves, RolesKept, PassingKept, WholeKept DEF PassInv
<1> QED BY <1>1, InitPass, BooksHold, PTL DEF Spec

\* If the passes of the collector do not overlap, a debit that happened or can
\* happen is of exactly what its batch holds, unless the batch is frozen for a
\* human (interlocks.ts, reserve.ts, collect.ts).
THEOREM DebitMatches ==
  ASSUME OneCollector
  PROVE  Spec => []DebitMatchesLedger
<1>1. IInv /\ BooksInv /\ PassInv => DebitMatchesLedger
  <2> SUFFICES ASSUME IInv, BooksInv, PassInv, NEW p \in PaymentIntents, ~ Dead(p)
               PROVE  /\ amount[p] \subseteq Held(p[1])
                      /\ status[p[1]] \notin Frozen => Held(p[1]) \subseteq amount[p]
    BY DEF DebitMatchesLedger, Frozen
  <2>1. p[1] \in Batches /\ p \in IntentsOf(p[1]) /\ Made(p)
    BY DEF PaymentIntents, IntentsOf, Dead, Made
  <2>2. amount[p] = principal[p[1]]
    BY <2>1 DEF BooksInv, Priced
  <2>3. principal[p[1]] \subseteq Held(p[1])
    BY <2>1 DEF BooksInv, Kept, Closed
  <2>4. \A q \in IntentsOf(p[1]) : intent[q] # "canceled"
    BY <2>1 DEF IInv, OneDebitPerBatch, Made, Dead
  <2>5. status[p[1]] \notin Frozen => Held(p[1]) \subseteq principal[p[1]]
    BY <2>1, <2>4 DEF PassInv, Whole, Spent
  <2> QED BY <2>2, <2>3, <2>5
<1> QED BY <1>1, PassHolds, PTL

\* If they do not overlap, a funded batch is funded by the paid intent on its
\* row, of exactly its principal, and still holds every commission of it
\* (confirm.ts).
THEOREM FundedWhole ==
  ASSUME OneCollector
  PROVE  Spec => []FundedIsWhole
<1>1. IInv /\ BooksInv /\ PassInv => FundedIsWhole
  <2> SUFFICES ASSUME IInv, BooksInv, PassInv, NEW b \in Batches, status[b] = "funded"
               PROVE  /\ stamp[b] # None /\ Paid(stamp[b])
                      /\ amount[stamp[b]] = principal[b]
                      /\ principal[b] = Held(b)
    BY DEF FundedIsWhole
  <2>1. stamp[b] # None /\ Paid(stamp[b])
    BY DEF BooksInv, FundedPaid
  <2>2. stamp[b] \in IntentsOf(b) /\ stamp[b] \in PaymentIntents /\ stamp[b][1] = b
    BY <2>1 DEF IInv, RefsOK, IntentsOf
  <2>3. amount[stamp[b]] = principal[b]
    BY <2>1, <2>2 DEF BooksInv, Priced, Made, Paid
  <2>4. principal[b] \subseteq Held(b)
    BY <2>1, <2>2 DEF BooksInv, Kept, Closed, Dead, Paid
  <2>5. \A q \in IntentsOf(b) : intent[q] # "canceled"
    BY <2>1, <2>2 DEF IInv, OneDebitPerBatch, Paid
  <2>6. Held(b) \subseteq principal[b]
    BY <2>5 DEF PassInv, Whole, Spent, Frozen
  <2> QED BY <2>1, <2>3, <2>4, <2>6
<1> QED BY <1>1, PassHolds, PTL

-----------------------------------------------------------------------------
(* The batch a step is about.                                                 *)

SameStatus(b) == status'[b] = status[b]
SameBooks(b) == principal'[b] = principal[b] /\ Held(b)' = Held(b)
SameIntents(b) == \A p \in IntentsOf(b) : intent'[p] = intent[p] /\ amount'[p] = amount[p]
Same(b) == SameStatus(b) /\ SameBooks(b) /\ SameIntents(b)

\* Stripe or a bank moves one intent of the batch.
IntentMove(b) ==
  \E p \in IntentsOf(b) :
    /\ \A q \in IntentsOf(b) \ {p} : intent'[q] = intent[q] /\ amount'[q] = amount[q]
    /\ Made(p) => amount'[p] = amount[p]
    /\ \/ ~ Made(p) /\ intent'[p] \in {"processing", "requires_payment_method"}
       \/ /\ intent[p] \in {"processing", "requires_payment_method"}
          /\ intent'[p] \in {"processing", "requires_payment_method", "succeeded", "canceled"}
       \/ intent[p] = "succeeded" /\ intent'[p] \in {"succeeded", "refunded"}

\* One write of the row, of the allocations, or of Stripe; or one transaction of
\* the planner or the interlock.
OneMove(b) ==
  \/ status[b] # "absent" /\ SameBooks(b) /\ SameIntents(b)
  \/ SameStatus(b) /\ principal'[b] = principal[b] /\ SameIntents(b)
  \/ SameStatus(b) /\ SameBooks(b) /\ IntentMove(b)
  \/ Reserve(b) /\ SameIntents(b)
  \/ \E c \in Commissions : ReverseReserved(b, c) /\ SameIntents(b)

AboutOne ==
  \/ \A x \in Batches : Same(x)
  \/ \E b \in Batches : OneMove(b) /\ \A x \in Batches \ {b} : Same(x)

\* A step that leaves all of them alone is about none.
LEMMA AboutNone ==
  ASSUME UNCHANGED <<status, principal, allocation, intent, amount>>
  PROVE  AboutOne
<1>1. \A b \in Batches : Held(b)' = Held(b)
  BY DEF Held
<1> QED BY <1>1 DEF AboutOne, Same, SameStatus, SameBooks, SameIntents

\* A write of one status is about one batch.
LEMMA AboutStatus ==
  ASSUME status \in [Batches -> Statuses], NEW b \in Batches, NEW to, status[b] # "absent",
         status' = [status EXCEPT ![b] = to], UNCHANGED <<principal, allocation, intent, amount>>
  PROVE  AboutOne
<1>1. \A x \in Batches : Held(x)' = Held(x)
  BY DEF Held
<1>2. \A x \in Batches \ {b} : status'[x] = status[x]
  OBVIOUS
<1> QED BY <1>1, <1>2 DEF AboutOne, OneMove, Same, SameStatus, SameBooks, SameIntents

\* So is a write of the allocations of one.
LEMMA AboutAllocations ==
  ASSUME NEW b \in Batches, \A x \in Batches \ {b} : allocation'[x] = allocation[x],
         UNCHANGED <<status, principal, intent, amount>>
  PROVE  AboutOne
<1>1. \A x \in Batches \ {b} : Held(x)' = Held(x)
  BY DEF Held
<1> QED BY <1>1 DEF AboutOne, OneMove, Same, SameStatus, SameBooks, SameIntents

\* So is a move of an intent.
LEMMA AboutIntent ==
  ASSUME NEW p \in PaymentIntents,
         \A q \in PaymentIntents \ {p} : intent'[q] = intent[q] /\ amount'[q] = amount[q],
         Made(p) => amount'[p] = amount[p],
         \/ ~ Made(p) /\ intent'[p] \in {"processing", "requires_payment_method"}
         \/ /\ intent[p] \in {"processing", "requires_payment_method"}
            /\ intent'[p] \in {"processing", "requires_payment_method", "succeeded", "canceled"}
         \/ intent[p] = "succeeded" /\ intent'[p] \in {"succeeded", "refunded"},
         UNCHANGED <<status, principal, allocation>>
  PROVE  AboutOne
<1>1. p[1] \in Batches /\ p \in IntentsOf(p[1])
  BY DEF PaymentIntents, IntentsOf
<1>2. \A x \in Batches : Held(x)' = Held(x)
  BY DEF Held
<1>3. IntentMove(p[1])
  BY <1>1 DEF IntentMove, IntentsOf
<1>4. \A x \in Batches \ {p[1]} : SameIntents(x)
  BY DEF SameIntents, IntentsOf
<1> QED BY <1>1, <1>2, <1>3, <1>4 DEF AboutOne, OneMove, Same, SameStatus, SameBooks

\* So is every step of a worker.
LEMMA StepAboutOne ==
  ASSUME TypeOK, RefsOK, NEW w \in Workers, Step(w)
  PROVE  AboutOne
<1>0. status \in [Batches -> Statuses] /\ intent \in [PaymentIntents -> IntentStatuses]
  BY DEF TypeOK
<1>a. worker[w].pc # "idle" => Job(w) \in Batches
  BY DEF RefsOK, WorkersOK, Coherent, Job
<1>b. worker[w].pc \in Holding => Hand(w) \in PaymentIntents
  BY DEF RefsOK, WorkersOK, Coherent, Holding, Hand, Job, IntentsOf
<1>c. worker[w].pc \in {"claim", "adopted"} => worker[w].seen # "absent"
  BY DEF RefsOK, WorkersOK, Coherent
<1> USE <1>0, <1>a DEF At, ledger, stripe
<1>1. CASE ClaimForCreate(w) \/ AdoptMove(w)
  BY <1>1, <1>c, AboutStatus, AboutNone DEF ClaimForCreate, AdoptMove, Cas
<1>2. CASE RetryMovePaid(w) \/ RetryRecord(w) \/ MoveCreated(w) \/ MoveCreateFailed(w)
  BY <1>2, AboutStatus, AboutNone DEF RetryMovePaid, RetryRecord, MoveCreated, MoveCreateFailed, Cas
<1>3. CASE OrphanFreeze(w)
  BY <1>3, AboutStatus, AboutNone DEF OrphanFreeze, Cas
<1>4. CASE RetryConfirm(w)
  BY <1>4, <1>b, AboutIntent, AboutNone DEF RetryConfirm, Holding
<1>5. CASE AbandonOrphan(w)
  BY <1>5, <1>b, AboutIntent, AboutNone DEF AbandonOrphan, Cancels, Holding
<1>6. CASE ReleaseCancel(w)
  BY <1>6, <1>b, AboutIntent, AboutNone DEF ReleaseCancel, Cancels, Holding
<1>7. CASE OrphanReclaim(w)
  BY <1>7, AboutAllocations DEF OrphanReclaim, TypeOK
<1>8. CASE ReleaseFree(w) \/ ForceFree(w)
  BY <1>8, AboutAllocations DEF ReleaseFree, ForceFree, FreeAllocations, TypeOK
<1>9. CASE RereadInvoicing(w) \/ SearchBeforeCreate(w) \/ AdoptStamp(w) \/ AdoptRetrieve(w)
           \/ Poll(w) \/ RetryRetrieve(w) \/ SendCreate(w) \/ CreateReturns(w) \/ CreateFails(w)
           \/ StampCreated(w) \/ RecordFailedIntent(w) \/ OrphanStamp(w)
  BY <1>9, AboutNone DEF RereadInvoicing, SearchBeforeCreate, AdoptStamp, AdoptRetrieve, Poll,
       RetryRetrieve, SendCreate, CreateReturns, CreateFails, StampCreated, RecordFailedIntent,
       OrphanStamp
<1>10. CASE ConfirmStep(w)
  BY <1>10, AboutStatus, AboutNone DEF ConfirmStep, Confirm, ConfirmWins, ConfirmLoses, Cas
<1>11. CASE ReleaseClaim(w)
  BY <1>11, AboutStatus, AboutNone DEF ReleaseClaim, Cas
<1>12. CASE ReleaseFreeze(w) \/ ReleaseClose(w) \/ ForceClose(w)
  BY <1>12, AboutStatus, AboutNone DEF ReleaseFreeze, ReleaseClose, ForceClose, Cas
<1>13. CASE ReleaseSearch(w) \/ ReleaseStamp(w) \/ ReleaseRetrieve(w) \/ ForceSearch(w) \/ ForceList(w)
  BY <1>13, AboutNone DEF ReleaseSearch, ReleaseStamp, ReleaseRetrieve, ForceSearch, ForceList
<1> QED
  BY <1>1, <1>2, <1>3, <1>4, <1>5, <1>6, <1>7, <1>8, <1>9, <1>10, <1>11, <1>12, <1>13
     DEF Step, Collect, Release, ForceRelease

\* So is every step, whatever makes it.
LEMMA NextAboutOne ==
  ASSUME TypeOK, RefsOK, Known, [Next]_vars
  PROVE  AboutOne
<1>0. status \in [Batches -> Statuses] /\ intent \in [PaymentIntents -> IntentStatuses]
  BY DEF TypeOK
<1> USE <1>0, AboutNone DEF ledger, stripe
<1>1. ASSUME NEW w \in Workers, Step(w) PROVE AboutOne
  BY <1>1, StepAboutOne
<1>2. ASSUME NEW b \in Batches, Reserve(b) PROVE AboutOne
  <2>1. \A x \in Batches \ {b} : /\ status'[x] = status[x] /\ principal'[x] = principal[x]
                                 /\ allocation'[x] = allocation[x]
    BY <1>2 DEF Reserve, TypeOK
  <2>2. \A x \in Batches : SameIntents(x)
    BY <1>2 DEF Reserve, SameIntents
  <2> QED BY <1>2, <2>1, <2>2 DEF AboutOne, OneMove, Same, SameStatus, SameBooks, Held
<1>3. ASSUME NEW c \in Commissions, NEW b \in Batches, ReverseReserved(b, c) PROVE AboutOne
  <2>1. \A x \in Batches \ {b} : /\ status'[x] = status[x] /\ principal'[x] = principal[x]
                                 /\ allocation'[x] = allocation[x]
    BY <1>3 DEF ReverseReserved, TypeOK
  <2>2. \A x \in Batches : SameIntents(x)
    BY <1>3 DEF ReverseReserved, SameIntents
  <2> QED BY <1>3, <2>1, <2>2 DEF AboutOne, OneMove, Same, SameStatus, SameBooks, Held
<1>4. ASSUME NEW c \in Commissions, NEW b \in Batches, ReverseInFlight(b, c) PROVE AboutOne
  BY <1>4, AboutAllocations DEF ReverseInFlight, TypeOK
<1>5. ASSUME NEW c \in Commissions, ReverseFree(c) PROVE AboutOne
  BY <1>5 DEF ReverseFree
<1>6. ASSUME NEW w \in Hooks, NEW e \in events,
             HookSucceeded(w, e) \/ HookFailed(w, e) \/ HookCanceled(w, e) \/ HookClawback(w, e)
      PROVE  AboutOne
  <2>1. e[2][1] \in Batches
    BY DEF TypeOK, Events, PaymentIntents
  <2>2. CASE HookFailed(w, e)
    BY <2>1, <2>2, AboutStatus DEF HookFailed, Cas
  <2>3. CASE HookClawback(w, e)
    BY <2>1, <2>3, AboutStatus DEF HookClawback, Clawback, Cas
  <2> QED BY <1>6, <2>2, <2>3 DEF HookSucceeded, HookCanceled
<1>7. ASSUME NEW w \in Workers, NEW b \in Batches, Scan(w, b) \/ ForceRead(w, b) PROVE AboutOne
  BY <1>7 DEF Scan, ForceRead
<1>8. ASSUME NEW w \in Workers, ReleaseCallFails(w) \/ Crash(w) PROVE AboutOne
  BY <1>8 DEF ReleaseCallFails, Crash
<1>9. ASSUME NEW r \in requests, StripeCreate(r) PROVE AboutOne
  <2>1. UNCHANGED <<status, principal, allocation>>
    BY <1>9 DEF StripeCreate
  <2>2. CASE UNCHANGED <<intent, amount>>
    BY <2>1, <2>2
  <2>3. ASSUME NEW p \in IntentsOf(r[1]), NEW s \in {"processing", "requires_payment_method"},
               intent[p] = "absent", intent' = [intent EXCEPT ![p] = s],
               amount' = [amount EXCEPT ![p] = r[2]]
        PROVE  AboutOne
    <3>1. p \in PaymentIntents
      BY DEF IntentsOf
    <3>2. \A q \in PaymentIntents \ {p} : intent'[q] = intent[q] /\ amount'[q] = amount[q]
      BY <2>3 DEF TypeOK
    <3> QED BY <2>1, <2>3, <3>1, <3>2, AboutIntent DEF Made
  <2> QED BY <1>9, <2>2, <2>3 DEF StripeCreate
<1>10. ASSUME NEW p \in PaymentIntents, Bank(p) PROVE AboutOne
  <2>1. CASE Index(p)
    BY <2>1 DEF Index
  <2>2. CASE ExternalCancel(p)
    BY <2>2, AboutIntent DEF ExternalCancel, Cancels
  <2>3. CASE DebitSucceeds(p) \/ DebitFails(p)
    BY <2>3, AboutIntent DEF DebitSucceeds, DebitFails, BankDebit
  <2>4. CASE ChargeReturned(p)
    BY <2>4, AboutIntent DEF ChargeReturned
  <2> QED BY <1>10, <2>1, <2>2, <2>3, <2>4 DEF Bank
<1>11. ASSUME NEW e \in events, LoseEvent(e) PROVE AboutOne
  BY <1>11 DEF LoseEvent
<1>12. ASSUME NEW b \in Batches, Tick(b) PROVE AboutOne
  BY <1>12 DEF Tick, TimeOut, QuietHour, ExpireKey
<1>13. CASE UNCHANGED vars
  BY <1>13 DEF vars
<1> QED
  BY <1>1, <1>2, <1>3, <1>4, <1>5, <1>6, <1>7, <1>8, <1>9, <1>10, <1>11, <1>12, <1>13
     DEF Next, Running, Failing, Reversal, Hook, Workers

-----------------------------------------------------------------------------
(* The refinement of BatchCharge.                                             *)

\* A worker that reclaims or freezes holds an intent of the batch.
Touched ==
  \A w \in Workers : worker[w].pc \in {"orphanReclaim", "orphanFreeze", "relFreeze"} =>
    \E p \in IntentsOf(Job(w)) : Made(p)

\* An intent has an amount once it exists.
Unpriced == \A p \in PaymentIntents : ~ Made(p) => amount[p] = {}

ChargeInv == Touched /\ Unpriced

\* Every step keeps both: an intent is made, with its amount, after the stamp of
\* the first call, and neither is ever taken back.
LEMMA ChargeInvKept ==
  ASSUME IInv, IInv', AllMoves, AboutOne, ChargeInv
  PROVE  ChargeInv'
<1>1. ASSUME NEW w \in Workers, worker'[w].pc \in {"orphanReclaim", "orphanFreeze", "relFreeze"}
      PROVE  \E p \in IntentsOf(worker'[w].job) : Made(p)'
  <2>1. \A b : \A p \in IntentsOf(b) : Made(p) => Made(p)'
    BY DEF AllMoves, Moves, StripeMoves, Made, IntentsOf
  <2>2. worker[w].pc \in Holding => Hand(w) \in IntentsOf(Job(w)) /\ Made(Hand(w))
    BY DEF IInv, RefsOK, WorkersOK, Coherent, Known, Hand, Job
  <2>3. CASE worker'[w] = worker[w]
    BY <1>1, <2>1, <2>3 DEF ChargeInv, Touched, Job
  <2>4. CASE PassMoves(w)
    BY <1>1, <2>1, <2>2, <2>4 DEF PassMoves, ChargeInv, Touched, Holding
  <2> QED BY <2>3, <2>4 DEF AllMoves
<1>2. ASSUME NEW p \in PaymentIntents, ~ Made(p)' PROVE amount'[p] = {}
  <2>1. p[1] \in Batches /\ p \in IntentsOf(p[1]) /\ ~ Made(p)
    BY <1>2 DEF PaymentIntents, IntentsOf, AllMoves, Moves, StripeMoves, Made
  <2>2. CASE SameIntents(p[1])
    BY <2>1, <2>2 DEF SameIntents, ChargeInv, Unpriced
  <2>3. CASE IntentMove(p[1])
    BY <1>2, <2>1, <2>3 DEF IntentMove, ChargeInv, Unpriced, Made
  <2> QED BY <2>1, <2>2, <2>3 DEF AboutOne, OneMove, Same
<1> QED BY <1>1, <1>2 DEF ChargeInv, Touched, Unpriced, Made, Job, IntentsOf

\* The intents of a batch, slot by slot.
LEMMA IntentsAre == \A b \in Batches : IntentsOf(b) = {<<b, s>> : s \in Slots}
  BY DEF IntentsOf, PaymentIntents

\* How far a batch is, by the one intent it has, if any.
StageFacts ==
  \A b \in Batches :
    /\ (\A p \in IntentsOf(b) : ~ Made(p)) =>
         /\ Price(b) = {}
         /\ Stage(b) = IF status[b] = "released" \/ ~ principal[b] \subseteq Held(b) THEN "never"
                       ELSE IF status[b] = "absent" THEN "none" ELSE "due"
    /\ \A p \in IntentsOf(b) : Made(p) =>
         /\ amount[p] = principal[b] /\ Price(b) = principal[b]
         /\ intent[p] = "succeeded" => Stage(b) = "charged"
         /\ intent[p] = "refunded" => Stage(b) = "returned"
         /\ intent[p] = "canceled" => Stage(b) = "never"
         /\ intent[p] \in {"processing", "requires_payment_method"} => Stage(b) = "asked"
         /\ ~ Dead(p) => Covers(b) = principal[b]

\* A batch makes one intent at most, and holds what it charges until it is closed.
LEMMA StagesAre == IInv /\ BooksInv /\ ChargeInv => StageFacts
<1> SUFFICES ASSUME IInv, BooksInv, ChargeInv, NEW b \in Batches
             PROVE  /\ (\A p \in IntentsOf(b) : ~ Made(p)) =>
                         /\ Price(b) = {}
                         /\ Stage(b) = IF status[b] = "released" \/ ~ principal[b] \subseteq Held(b) THEN "never"
                                       ELSE IF status[b] = "absent" THEN "none" ELSE "due"
                    /\ \A p \in IntentsOf(b) : Made(p) =>
                         /\ amount[p] = principal[b] /\ Price(b) = principal[b]
                         /\ intent[p] = "succeeded" => Stage(b) = "charged"
                         /\ intent[p] = "refunded" => Stage(b) = "returned"
                         /\ intent[p] = "canceled" => Stage(b) = "never"
                         /\ intent[p] \in {"processing", "requires_payment_method"} => Stage(b) = "asked"
                         /\ ~ Dead(p) => Covers(b) = principal[b]
  BY DEF StageFacts
<1>0. \A s \in Slots : <<b, s>> \in IntentsOf(b) /\ <<b, s>> \in PaymentIntents
  BY DEF IntentsOf, PaymentIntents
<1>1. ASSUME \A p \in IntentsOf(b) : ~ Made(p)
      PROVE  /\ Price(b) = {}
             /\ Stage(b) = IF status[b] = "released" \/ ~ principal[b] \subseteq Held(b) THEN "never"
                           ELSE IF status[b] = "absent" THEN "none" ELSE "due"
  <2>1. \A s \in Slots : intent[<<b, s>>] = "absent" /\ amount[<<b, s>>] = {}
    BY <1>0, <1>1 DEF ChargeInv, Unpriced, Made
  <2> QED BY <2>1 DEF Price, Stage
<1>2. ASSUME NEW p \in IntentsOf(b), Made(p)
      PROVE  /\ amount[p] = principal[b] /\ Price(b) = principal[b]
             /\ intent[p] = "succeeded" => Stage(b) = "charged"
             /\ intent[p] = "refunded" => Stage(b) = "returned"
             /\ intent[p] = "canceled" => Stage(b) = "never"
             /\ intent[p] \in {"processing", "requires_payment_method"} => Stage(b) = "asked"
             /\ ~ Dead(p) => Covers(b) = principal[b]
  <2>0. p \in PaymentIntents /\ p[1] = b /\ intent[p] \in IntentStatuses
    BY DEF IntentsOf, IInv, TypeOK
  <2>s. PICK s \in Slots : p = <<b, s>>
    BY IntentsAre
  <2>1. amount[p] = principal[b]
    BY <1>2, <2>0 DEF BooksInv, Priced
  <2>2. \A q \in IntentsOf(b) \ {p} : intent[q] = "absent" /\ amount[q] = {}
    BY <1>2 DEF IInv, OneDebitPerBatch, Made, ChargeInv, Unpriced, IntentsOf
  <2>3. \A t \in Slots : <<b, t>> = p \/ (intent[<<b, t>>] = "absent" /\ amount[<<b, t>>] = {})
    BY <1>0, <2>2
  <2>4. Price(b) = principal[b]
    BY <2>s, <2>1, <2>3 DEF Price
  <2>5. {intent[<<b, t>>] : t \in Slots} \subseteq {intent[p], "absent"} /\ intent[p] \in {intent[<<b, t>>] : t \in Slots}
    BY <2>s, <2>3
  <2>6. ~ Dead(p) => status[b] # "released" /\ principal[b] \subseteq Held(b)
    BY DEF IInv, Freeing, BooksInv, Kept, Closed
  <2>7. /\ intent[p] = "succeeded" => Stage(b) = "charged"
        /\ intent[p] = "refunded" => Stage(b) = "returned"
        /\ intent[p] = "canceled" => Stage(b) = "never"
        /\ intent[p] \in {"processing", "requires_payment_method"} => Stage(b) = "asked"
    <3> DEFINE seen == {intent[<<b, t>>] : t \in Slots}
    <3>1. seen \subseteq {intent[p], "absent"} /\ intent[p] \in seen
      BY <2>5
    <3>2. Stage(b) = IF "succeeded" \in seen THEN "charged"
                     ELSE IF "refunded" \in seen THEN "returned"
                     ELSE IF "canceled" \in seen \/ status[b] = "released" \/ ~ principal[b] \subseteq Held(b)
                       THEN "never"
                     ELSE IF seen \subseteq {"absent"} THEN IF status[b] = "absent" THEN "none" ELSE "due"
                     ELSE "asked"
      BY DEF Stage
    <3> HIDE DEF seen
    <3> QED BY <2>6, <3>1, <3>2 DEF Dead
  <2>8. ~ Dead(p) => Covers(b) = principal[b]
    <3>1. ~ Dead(p) => Stage(b) # "never"
      BY <2>0, <2>7 DEF Dead, IntentStatuses
    <3> QED BY <2>6, <3>1 DEF Covers
  <2> QED BY <2>1, <2>4, <2>7, <2>8
<1> QED BY <1>1, <1>2

\* What the step does to the abstract state of one batch.
Stutters(b) ==
  Stage(b)' = Stage(b) /\ Covers(b)' = Covers(b) /\ Price(b)' = Price(b) /\ Outcome(b)' = Outcome(b)

Advances(b) ==
  \/ Stutters(b)
  \/ /\ Price(b)' = Price(b) /\ Outcome(b)' = Outcome(b)
     /\ \/ /\ Stage(b) = "none" /\ Stage(b)' = "due"
           /\ Covers(b)' \in (SUBSET Commissions) \ {{}}
           /\ \A x \in Batches : Covers(x) \cap Covers(b)' = {}
        \/ /\ Stage(b) = "due" /\ Stage(b)' = "due"
           /\ \E c \in Covers(b) : Covers(b)' = Covers(b) \ {c}
        \/ /\ <<Stage(b), Stage(b)'>> \in {<<"asked", "charged">>, <<"charged", "returned">>}
           /\ Covers(b)' = Covers(b)
        \/ Stage(b) \in {"due", "asked"} /\ Stage(b)' = "never" /\ Covers(b)' = {}
  \/ /\ Stage(b) = "due" /\ Stage(b)' = "asked" /\ Price(b)' = Covers(b)
     /\ Covers(b)' = Covers(b) /\ Outcome(b)' = Outcome(b)
  \/ /\ Stage(b)' = Stage(b) /\ Covers(b)' = Covers(b) /\ Price(b)' = Price(b)
     /\ \/ /\ Stage(b) \in {"charged", "returned"} /\ Covers(b) = Price(b)
           /\ Outcome(b) = "open" /\ Outcome(b)' = "funded"
        \/ Stage(b) \notin {"none", "due"} /\ Outcome(b)' = "frozen"

\* A batch a step is not about stutters.
LEMMA SameStutters ==
  ASSUME NEW b \in Batches, Same(b)
  PROVE  Stutters(b)
<1>1. \A s \in Slots : intent'[<<b, s>>] = intent[<<b, s>>] /\ amount'[<<b, s>>] = amount[<<b, s>>]
  BY IntentsAre DEF Same, SameIntents
<1>2. Stage(b)' = Stage(b)
  BY <1>1 DEF Stage, Same, SameStatus, SameBooks
<1> QED BY <1>1, <1>2 DEF Stutters, Same, SameStatus, SameBooks, Covers, Price, Outcome

\* A batch is frozen only after an intent of it was made.
LEMMA FreezingMade ==
  ASSUME IInv, ChargeInv, NEW b \in Batches, Freezing(b)
  PROVE  \E p \in IntentsOf(b) : Made(p)
<1>1. ASSUME NEW w \in Workers, Job(w) = b,
             worker[w].pc \in {"confirmCas", "relConfirmCas", "relFreeze", "orphanFreeze"}
      PROVE  \E p \in IntentsOf(b) : Made(p)
  BY <1>1 DEF IInv, RefsOK, WorkersOK, Coherent, Holding, Known, Hand, Job, ChargeInv, Touched
<1>2. ASSUME NEW e \in events, e[2][1] = b PROVE \E p \in IntentsOf(b) : Made(p)
  BY <1>2 DEF IInv, TypeOK, Known, Events, IntentsOf
<1> QED BY <1>1, <1>2 DEF Freezing

\* A write of the status funds or freezes a batch, or closes one that never
\* asked for its money.
LEMMA StatusAdvances ==
  ASSUME IInv, IInv', BooksInv, ChargeInv, AllMoves, StageFacts, StageFacts',
         NEW b \in Batches, status[b] # "absent", SameBooks(b), SameIntents(b)
  PROVE  Advances(b)
<1>0. CASE status'[b] = status[b]
  BY <1>0, SameStutters DEF Same, SameStatus, Advances
<1>1. CASE status'[b] # status[b]
  <2>0. /\ status[b] \notin Frozen /\ status'[b] # "absent"
        /\ status[b] \in {"released", "funded"} => status'[b] \in Frozen
        /\ status'[b] \in Frozen => Freezing(b)
        /\ status'[b] = "funded" =>
             \E w \in Workers : Job(w) = b /\ worker[w].pc \in {"confirmCas", "relConfirmCas"}
    BY <1>1 DEF AllMoves, StatusMoves
  <2>1. ASSUME NEW p \in IntentsOf(b), Made(p) PROVE Advances(b)
    <3>1. Made(p)' /\ intent'[p] = intent[p] /\ intent[p] \in IntentStatuses
      BY <2>1 DEF SameIntents, Made, IInv, TypeOK, IntentsOf
    <3>2. Stage(b)' = Stage(b) /\ Stage(b) \notin {"none", "due"}
      BY <2>1, <3>1 DEF StageFacts, IntentStatuses, Made
    <3>3. Covers(b)' = Covers(b) /\ Price(b)' = Price(b)
      <4>1. Covers(b)' = Covers(b)
        BY <3>2 DEF SameBooks, Covers
      <4>2. Price(b) = principal[b] /\ Price(b)' = principal'[b]
        BY <2>1, <3>1 DEF StageFacts, IntentsOf
      <4> QED BY <4>1, <4>2 DEF SameBooks
    <3>4. ASSUME NEW w \in Workers, Job(w) = b, worker[w].pc \in {"confirmCas", "relConfirmCas"}
          PROVE  Stage(b) \in {"charged", "returned"} /\ Covers(b) = Price(b)
      <4>1. Hand(w) \in IntentsOf(b) /\ Paid(Hand(w)) /\ Made(Hand(w)) /\ ~ Dead(Hand(w))
        BY <3>4 DEF IInv, RefsOK, WorkersOK, Coherent, Holding, Hand, Job, BooksInv, Confirming,
             Paid, Made, Dead
      <4> QED BY <4>1 DEF StageFacts, Paid
    <3> QED BY <2>0, <3>2, <3>3, <3>4 DEF Advances, Stutters, Outcome, Frozen
  <2>2. CASE \A p \in IntentsOf(b) : ~ Made(p)
    <3>1. \A p \in IntentsOf(b) : ~ Made(p)'
      BY <2>2 DEF SameIntents, Made
    <3>2. status'[b] \notin Frozen
      BY <2>0, <2>2, FreezingMade
    <3>3. status'[b] # "funded"
      BY <2>0, <2>2 DEF IInv, RefsOK, WorkersOK, Coherent, Holding, Hand, Job, Known
    <3>4. Outcome(b)' = Outcome(b) /\ Price(b)' = Price(b) /\ status[b] # "released"
      BY <2>0, <2>2, <3>1, <3>2, <3>3 DEF Outcome, Frozen, StageFacts
    <3>5. \/ Stage(b) = "never" /\ Stage(b)' = "never"
          \/ Stage(b) = "due" /\ Stage(b)' \in {"never", "due"}
      BY <2>0, <2>2, <3>1, <3>4 DEF StageFacts, SameBooks
    <3> QED BY <3>4, <3>5 DEF Advances, Stutters, Covers, SameBooks
  <2> QED BY <2>1, <2>2
<1> QED BY <1>0, <1>1

\* A write of the allocations stutters, or gives up a batch that never asked for
\* its money.
LEMMA AllocationAdvances ==
  ASSUME IInv, IInv', BooksInv, BooksInv', ChargeInv, AllMoves, StageFacts, StageFacts',
         NEW b \in Batches, SameStatus(b), principal'[b] = principal[b], SameIntents(b)
  PROVE  Advances(b)
<1>0. Outcome(b)' = Outcome(b)
  BY DEF Outcome, SameStatus
<1>1. ASSUME NEW p \in IntentsOf(b), Made(p) PROVE Advances(b)
  <2>1. Made(p)' /\ intent'[p] = intent[p] /\ intent[p] \in IntentStatuses
    BY <1>1 DEF SameIntents, Made, IInv, TypeOK, IntentsOf
  <2>2. Stage(b)' = Stage(b)
    BY <1>1, <2>1 DEF StageFacts, IntentStatuses, Made
  <2>3. Price(b) = principal[b] /\ Price(b)' = principal'[b]
    BY <1>1, <2>1 DEF StageFacts, IntentsOf
  <2>4. CASE Dead(p)
    <3>1. Stage(b) = "never"
      BY <1>1, <2>4 DEF StageFacts, Dead, Made
    <3> QED BY <1>0, <2>2, <2>3, <3>1 DEF Advances, Stutters, Covers
  <2>5. CASE ~ Dead(p)
    <3>1. Covers(b) = principal[b]
      BY <1>1, <2>5 DEF StageFacts
    <3>2. Covers(b)' = principal'[b]
      BY <2>1, <2>5 DEF StageFacts, IntentsOf, Dead
    <3> QED BY <1>0, <2>2, <2>3, <3>1, <3>2 DEF Advances, Stutters
  <2> QED BY <2>4, <2>5
<1>2. CASE \A p \in IntentsOf(b) : ~ Made(p)
  <2>0. \A p \in IntentsOf(b) : ~ Made(p)'
    BY <1>2 DEF SameIntents, Made
  <2>1. Price(b)' = Price(b)
    BY <1>2, <2>0 DEF StageFacts
  <2>2. /\ Stage(b) = IF status[b] = "released" \/ ~ principal[b] \subseteq Held(b) THEN "never"
                      ELSE IF status[b] = "absent" THEN "none" ELSE "due"
        /\ Stage(b)' = IF status[b] = "released" \/ ~ principal[b] \subseteq Held(b)' THEN "never"
                       ELSE IF status[b] = "absent" THEN "none" ELSE "due"
    BY <1>2, <2>0 DEF StageFacts, SameStatus
  <2>3. CASE principal[b] \subseteq Held(b) /\ principal[b] \subseteq Held(b)'
    <3>1. principal[b] \cap Held(b) = principal[b] /\ principal'[b] \cap Held(b)' = principal[b]
      BY <2>3
    <3> QED BY <1>0, <2>1, <2>2, <2>3, <3>1 DEF Advances, Stutters, Covers
  <2>4. CASE ~ principal[b] \subseteq Held(b) /\ ~ principal[b] \subseteq Held(b)'
    BY <1>0, <2>1, <2>2, <2>4 DEF Advances, Stutters, Covers
  <2>5. CASE principal[b] \subseteq Held(b) /\ ~ principal[b] \subseteq Held(b)'
    <3>1. Closed(b)'
      BY <2>5 DEF BooksInv, Kept
    <3>2. status[b] # "absent"
      BY <3>1 DEF Closed, Closing, SameStatus
    <3> QED BY <1>0, <2>1, <2>2, <2>5, <3>2 DEF Advances, Stutters, Covers
  <2>6. CASE ~ principal[b] \subseteq Held(b) /\ principal[b] \subseteq Held(b)'
    <3>1. status[b] \notin {"absent", "reserved"}
      BY <2>6 DEF BooksInv, Kept, Closed, Closing
    <3>2. \A w \in Workers : Job(w) = b => worker[w].pc # "orphanReclaim"
      BY <1>2 DEF ChargeInv, Touched
    <3>3. Held(b)' \subseteq Held(b)
      BY <3>1, <3>2 DEF AllMoves, BookMoves
    <3> QED BY <2>6, <3>3
  <2> QED BY <2>3, <2>4, <2>5, <2>6
<1> QED BY <1>1, <1>2

\* A move of an intent asks for the money of a batch, charges it, takes it back,
\* or gives it up.
LEMMA IntentAdvances ==
  ASSUME IInv, IInv', BooksInv, BooksInv', ChargeInv, AllMoves, StageFacts, StageFacts',
         NEW b \in Batches, SameStatus(b), SameBooks(b), IntentMove(b)
  PROVE  Advances(b)
<1>0. Outcome(b)' = Outcome(b)
  BY DEF Outcome, SameStatus
<1> PICK p \in IntentsOf(b) :
      /\ \A q \in IntentsOf(b) \ {p} : intent'[q] = intent[q] /\ amount'[q] = amount[q]
      /\ Made(p) => amount'[p] = amount[p]
      /\ \/ ~ Made(p) /\ intent'[p] \in {"processing", "requires_payment_method"}
         \/ /\ intent[p] \in {"processing", "requires_payment_method"}
            /\ intent'[p] \in {"processing", "requires_payment_method", "succeeded", "canceled"}
         \/ intent[p] = "succeeded" /\ intent'[p] \in {"succeeded", "refunded"}
  BY DEF IntentMove
<1>p. p \in IntentsOf(b)' /\ Made(p)'
  BY DEF IntentsOf, Made
<1>1. CASE Made(p)
  <2>1. Price(b)' = Price(b)
    BY <1>1, <1>p DEF StageFacts, SameBooks
  <2>2. CASE intent'[p] = "canceled"
    <3>1. Stage(b) = "asked" /\ Stage(b)' = "never"
      BY <1>1, <1>p, <2>2 DEF StageFacts
    <3> QED BY <1>0, <2>1, <3>1 DEF Advances, Covers
  <2>3. CASE intent'[p] # "canceled"
    <3>1. Covers(b)' = Covers(b)
      <4>1. Covers(b) = principal[b]
        BY <1>1, <2>3 DEF StageFacts, Dead
      <4>2. Covers(b)' = principal'[b]
        BY <1>1, <1>p, <2>3 DEF StageFacts, Dead
      <4> QED BY <4>1, <4>2 DEF SameBooks
    <3>2. \/ Stage(b)' = Stage(b)
          \/ <<Stage(b), Stage(b)'>> \in {<<"asked", "charged">>, <<"charged", "returned">>}
      BY <1>1, <1>p, <2>3 DEF StageFacts
    <3> QED BY <1>0, <2>1, <3>1, <3>2 DEF Advances, Stutters
  <2> QED BY <2>2, <2>3
<1>2. CASE ~ Made(p)
  <2>1. Sent(b) /\ frozenKey[b] = None
    BY <1>2, <1>p, NothingMade DEF AllMoves
  <2>2. \A q \in IntentsOf(b) : ~ Made(q)
    BY <2>1 DEF IInv, Keyed
  <2>3. ~ Closed(b) /\ status[b] # "absent"
    BY <2>1, <2>2 DEF Closed, Untouched, IInv, Early
  <2>4. principal[b] \subseteq Held(b) /\ status[b] # "released"
    BY <2>3 DEF BooksInv, Kept, IInv, Freeing
  <2>5. Stage(b) = "due" /\ Covers(b) = principal[b]
    BY <2>2, <2>3, <2>4 DEF StageFacts, Covers
  <2>6. Stage(b)' = "asked" /\ Price(b)' = principal'[b] /\ Covers(b)' = principal'[b]
    BY <1>2, <1>p DEF StageFacts, Dead, Made
  <2> QED BY <1>0, <2>5, <2>6 DEF Advances, SameBooks
<1> QED BY <1>1, <1>2

\* The planner reserves commissions that no batch covers.
LEMMA ReserveAdvances ==
  ASSUME IInv, IInv', BooksInv, BooksInv', StageFacts, StageFacts',
         NEW b \in Batches, Reserve(b), SameIntents(b)
  PROVE  Advances(b)
<1>1. \A p \in IntentsOf(b) : ~ Made(p) /\ ~ Made(p)'
  BY DEF Reserve, IInv, Early, Untouched, SameIntents, Made
<1>2. status[b] = "absent" /\ status'[b] = "reserved"
  BY DEF Reserve, IInv, TypeOK
<1>3. Price(b)' = Price(b) /\ Outcome(b)' = Outcome(b)
  BY <1>1, <1>2 DEF StageFacts, Outcome
<1>4. Stage(b) = "none"
  BY <1>1, <1>2 DEF StageFacts, BooksInv, Kept, Closed, Closing
<1>5. principal'[b] \subseteq Held(b)'
  BY <1>2 DEF BooksInv, Kept, Closed, Closing
<1>6. Stage(b)' = "due" /\ Covers(b)' = principal'[b]
  BY <1>1, <1>2, <1>5 DEF StageFacts, Covers
<1>7. /\ principal'[b] \in (SUBSET Commissions) \ {{}}
      /\ \A c \in principal'[b] : Eligible(c)
  <2>1. principal \in [Batches -> SUBSET Commissions]
    BY DEF IInv, TypeOK
  <2>2. PICK S \in SUBSET {c \in Commissions : Eligible(c)} :
          S # {} /\ principal' = [principal EXCEPT ![b] = S]
    BY DEF Reserve
  <2>3. principal'[b] = S
    BY <2>1, <2>2
  <2> QED BY <2>2, <2>3
<1>8. ASSUME NEW x \in Batches PROVE Covers(x) \cap principal'[b] = {}
  <2> SUFFICES ASSUME NEW c \in Covers(x), Eligible(c) PROVE FALSE
    BY <1>7
  <2>1. Stage(x) # "never" /\ c \in Held(x)
    BY DEF Covers
  <2>2. status[x] = "released"
    BY <2>1 DEF Eligible, Held, Live
  <2>3. \A p \in IntentsOf(x) : Dead(p)
    BY <2>2 DEF IInv, Freeing, Closed
  <2> QED BY <2>1, <2>2, <2>3 DEF StageFacts, Dead, Made
<1> QED BY <1>3, <1>4, <1>6, <1>7, <1>8 DEF Advances

\* The interlock takes a commission from a batch that has not asked for its money.
LEMMA ShrinkAdvances ==
  ASSUME IInv, IInv', BooksInv, BooksInv', StageFacts, StageFacts',
         NEW b \in Batches, NEW c \in Commissions, ReverseReserved(b, c), SameIntents(b)
  PROVE  Advances(b)
<1>1. \A p \in IntentsOf(b) : ~ Made(p) /\ ~ Made(p)'
  BY DEF ReverseReserved, IInv, Early, Untouched, SameIntents, Made
<1>2. status[b] = "reserved" /\ status'[b] \in {"reserved", "released"}
  BY DEF ReverseReserved, IInv, TypeOK
<1>3. Price(b)' = Price(b) /\ Outcome(b)' = Outcome(b)
  BY <1>1, <1>2 DEF StageFacts, Outcome
<1>4. principal[b] \subseteq Held(b)
  BY <1>2 DEF BooksInv, Kept, Closed, Closing
<1>5. Stage(b) = "due" /\ Covers(b) = principal[b]
  BY <1>1, <1>2, <1>4 DEF StageFacts, Covers
<1>6. CASE status'[b] = "released"
  <2>1. Stage(b)' = "never"
    BY <1>1, <1>6 DEF StageFacts
  <2> QED BY <1>3, <1>5, <2>1 DEF Advances, Covers
<1>7. CASE status'[b] = "reserved"
  <2>1. principal'[b] \subseteq Held(b)'
    BY <1>7 DEF BooksInv, Kept, Closed, Closing
  <2>2. Stage(b)' = "due" /\ Covers(b)' = principal'[b]
    BY <1>1, <1>7, <2>1 DEF StageFacts, Covers
  <2>3. principal'[b] = principal[b] \ {c}
    BY DEF ReverseReserved, IInv, TypeOK
  <2>4. CASE c \in principal[b]
    BY <1>3, <1>5, <2>2, <2>3, <2>4 DEF Advances
  <2>5. CASE c \notin principal[b]
    BY <1>3, <1>5, <2>2, <2>3, <2>5 DEF Advances, Stutters
  <2> QED BY <2>4, <2>5
<1> QED BY <1>2, <1>6, <1>7

\* A batch that advances alone is a step of the abstract specification.
ChargeStep ==
  [Charge!Next]_<<[b \in Batches |-> Stage(b)], [b \in Batches |-> Covers(b)],
                  [b \in Batches |-> Price(b)], [b \in Batches |-> Outcome(b)]>>

\* An advance of one batch is a step of BatchCharge, whatever batch it is.
LEMMA AdvanceIsStep ==
  ASSUME NEW b \in Batches, Advances(b), \A x \in Batches \ {b} : Stutters(x)
  PROVE  ChargeStep
<1> DEFINE stages == [x \in Batches |-> Stage(x)]
           covered == [x \in Batches |-> Covers(x)]
           prices == [x \in Batches |-> Price(x)]
           outcomes == [x \in Batches |-> Outcome(x)]
<1>1. /\ stages' = [stages EXCEPT ![b] = Stage(b)']
      /\ covered' = [covered EXCEPT ![b] = Covers(b)']
      /\ prices' = [prices EXCEPT ![b] = Price(b)']
      /\ outcomes' = [outcomes EXCEPT ![b] = Outcome(b)']
  BY DEF Stutters
<1>2. /\ Stage(b)' = Stage(b) => stages' = stages
      /\ Covers(b)' = Covers(b) => covered' = covered
      /\ Price(b)' = Price(b) => prices' = prices
      /\ Outcome(b)' = Outcome(b) => outcomes' = outcomes
  BY DEF Stutters
<1>3. /\ stages[b] = Stage(b) /\ prices[b] = Price(b) /\ outcomes[b] = Outcome(b)
      /\ \A x \in Batches : covered[x] = Covers(x)
  OBVIOUS
<1>4. CASE Stutters(b)
  BY <1>2, <1>4 DEF Stutters, ChargeStep
<1>5. ASSUME Price(b)' = Price(b), Outcome(b)' = Outcome(b),
             Stage(b) = "none", Stage(b)' = "due",
             Covers(b)' \in (SUBSET Commissions) \ {{}},
             \A x \in Batches : Covers(x) \cap Covers(b)' = {}
      PROVE  ChargeStep
  <2>1. Charge!Reserve(b)
    BY <1>1, <1>2, <1>3, <1>5 DEF Charge!Reserve, Charge!Becomes
  <2> QED BY <2>1 DEF ChargeStep, Charge!Next
<1>6. ASSUME Price(b)' = Price(b), Outcome(b)' = Outcome(b),
             Stage(b) = "due", Stage(b)' = "due",
             \E c \in Covers(b) : Covers(b)' = Covers(b) \ {c}
      PROVE  ChargeStep
  <2>1. Charge!Shrink(b)
    BY <1>1, <1>2, <1>3, <1>6 DEF Charge!Shrink
  <2> QED BY <2>1 DEF ChargeStep, Charge!Next
<1>7. ASSUME Price(b)' = Price(b), Outcome(b)' = Outcome(b), Covers(b)' = Covers(b),
             Stage(b) = "asked", Stage(b)' = "charged"
      PROVE  ChargeStep
  <2>1. Charge!Charge(b)
    BY <1>1, <1>2, <1>3, <1>7 DEF Charge!Charge, Charge!Becomes
  <2> QED BY <2>1 DEF ChargeStep, Charge!Next
<1>8. ASSUME Price(b)' = Price(b), Outcome(b)' = Outcome(b), Covers(b)' = Covers(b),
             Stage(b) = "charged", Stage(b)' = "returned"
      PROVE  ChargeStep
  <2>1. Charge!GiveBack(b)
    BY <1>1, <1>2, <1>3, <1>8 DEF Charge!GiveBack, Charge!Becomes
  <2> QED BY <2>1 DEF ChargeStep, Charge!Next
<1>9. ASSUME Price(b)' = Price(b), Outcome(b)' = Outcome(b), Covers(b)' = {},
             Stage(b) \in {"due", "asked"}, Stage(b)' = "never"
      PROVE  ChargeStep
  <2>1. Charge!GiveUp(b)
    BY <1>1, <1>2, <1>3, <1>9 DEF Charge!GiveUp, Charge!Becomes
  <2> QED BY <2>1 DEF ChargeStep, Charge!Next
<1>10. ASSUME Outcome(b)' = Outcome(b), Covers(b)' = Covers(b), Price(b)' = Covers(b),
              Stage(b) = "due", Stage(b)' = "asked"
       PROVE  ChargeStep
  <2>1. Charge!Ask(b)
    BY <1>1, <1>2, <1>3, <1>10 DEF Charge!Ask, Charge!Becomes
  <2> QED BY <2>1 DEF ChargeStep, Charge!Next
<1>11. ASSUME Stage(b)' = Stage(b), Covers(b)' = Covers(b), Price(b)' = Price(b),
              Stage(b) \in {"charged", "returned"}, Covers(b) = Price(b),
              Outcome(b) = "open", Outcome(b)' = "funded"
       PROVE  ChargeStep
  <2>1. Charge!Fund(b)
    BY <1>1, <1>2, <1>3, <1>11 DEF Charge!Fund
  <2> QED BY <2>1 DEF ChargeStep, Charge!Next
<1>12. ASSUME Stage(b)' = Stage(b), Covers(b)' = Covers(b), Price(b)' = Price(b),
              Stage(b) \notin {"none", "due"}, Outcome(b)' = "frozen"
       PROVE  ChargeStep
  <2>1. Charge!Freeze(b)
    BY <1>1, <1>2, <1>3, <1>12 DEF Charge!Freeze
  <2> QED BY <2>1 DEF ChargeStep, Charge!Next
<1> QED
  BY <1>4, <1>5, <1>6, <1>7, <1>8, <1>9, <1>10, <1>11, <1>12 DEF Advances

\* Nothing has been asked for at the start, and BatchCharge starts there.
LEMMA InitCharge == Init => ChargeInv /\ Charge!Init
<1> SUFFICES ASSUME Init PROVE ChargeInv /\ Charge!Init
  OBVIOUS
<1>1. \A w \in Workers : worker[w].pc = "idle"
  BY DEF Init, Resting, Process
<1>2. ChargeInv
  BY <1>1 DEF Init, ChargeInv, Touched, Unpriced
<1>3. ASSUME NEW b \in Batches
      PROVE  Stage(b) = "none" /\ Covers(b) = {} /\ Price(b) = {} /\ Outcome(b) = "open"
  <2>1. \A s \in Slots : intent[<<b, s>>] = "absent" /\ amount[<<b, s>>] = {}
    BY DEF Init, PaymentIntents
  <2>2. status[b] = "absent" /\ principal[b] = {}
    BY DEF Init
  <2> QED BY <2>1, <2>2 DEF Stage, Covers, Price, Outcome
<1> QED BY <1>2, <1>3 DEF Charge!Init

\* However workers, calls and webhooks overlap, and whatever dies between two
\* steps, every step of the collection is a step of BatchCharge: a batch asks for
\* its money once and for a fixed amount, is charged at most once, keeps what it
\* is charged for, and funds only whole (reserve.ts, collect.ts, confirm.ts,
\* release.ts, interlocks.ts).
THEOREM CollectionRefinement == Spec => ImplementsCharge
<1>1. IInv /\ IInv' /\ BooksInv /\ BooksInv' /\ ChargeInv /\ [Next]_vars => ChargeInv' /\ ChargeStep
  <2> SUFFICES ASSUME IInv, IInv', BooksInv, BooksInv', ChargeInv, [Next]_vars
               PROVE  ChargeInv' /\ ChargeStep
    OBVIOUS
  <2>1. AllMoves /\ AboutOne
    BY NextAllMoves, NextAboutOne DEF IInv
  <2>2. ChargeInv'
    BY <2>1, ChargeInvKept
  <2>3. StageFacts
    BY StagesAre
  <2>4. (IInv /\ BooksInv /\ ChargeInv => StageFacts)'
    BY StagesAre, PTL
  <2>5. StageFacts'
    BY <2>2, <2>4
  <2>6. CASE \A x \in Batches : Same(x)
    <3>1. \A x \in Batches : Stutters(x)
      BY <2>6, SameStutters
    <3> QED BY <2>2, <3>1 DEF ChargeStep, Stutters
  <2>7. ASSUME NEW b \in Batches, OneMove(b), \A x \in Batches \ {b} : Same(x)
        PROVE  ChargeStep
    <3>1. \A x \in Batches \ {b} : Stutters(x)
      BY <2>7, SameStutters
    <3>2. Advances(b)
      BY <2>1, <2>3, <2>5, <2>7, StatusAdvances, AllocationAdvances, IntentAdvances,
         ReserveAdvances, ShrinkAdvances DEF OneMove
    <3> QED BY <3>1, <3>2, AdvanceIsStep
  <2> QED BY <2>1, <2>2, <2>6, <2>7 DEF AboutOne
<1> QED
  BY <1>1, InitCharge, BooksHold, PTL DEF Spec, ImplementsCharge, Charge!Spec, ChargeStep
=============================================================================
