----------------------------- MODULE PayPalPayouts -----------------------------
(***************************************************************************)
(* Pay with PayPal (apps/api/src/paypal-payouts.ts, and the file exports   *)
(* and manual confirmations of manual-payout-files.ts that compete for the *)
(* same payouts): the pending manual payouts of one run and one currency,  *)
(* sent from the brand's live PayPal account in batches.                   *)
(*                                                                         *)
(* A pass is the scheduler job, a webhook or an admin at work on one batch *)
(* or payout, one SQL statement or PayPal call at a time. A lease may run  *)
(* out under any of them: taking it is always possible, and what a pass    *)
(* that lost it writes to the batch is fenced on the leaseAt it set.       *)
(* Left out: sandbox rehearsals, converted quotes, the content of a file,  *)
(* and a batch id that PayPal says is somebody else's.                     *)
(***************************************************************************)
EXTENDS Integers, FiniteSets, NoValue

CONSTANTS
  Payouts,      \* manual payouts of the run
  MaxBatches,   \* bound: batches and files ever made
  Copies,       \* bound: batches PayPal may make for one sender_batch_id
  Passes,       \* processes at work at the same time
  AdminChecks,  \* does an admin release a held batch only if PayPal has none and gets none?
  StaleToken    \* PayPal's 401

PayoutBatches == 1..MaxBatches
Remotes == PayoutBatches \X Copies

ASSUME PayPalAssumption ==
  /\ MaxBatches \in Nat /\ Copies \subseteq Nat
  /\ None \notin PayoutBatches \cup Passes
  /\ {None, Refused, StaleToken} \cap Remotes = {} /\ None \notin {Refused, StaleToken}

VARIABLES
  \* The database (PaypalPayoutBatch, Payout).
  payoutState, \* PaypalPayoutBatch.state; "file" where the export is a file
  leaseAt,     \* who took the lease last
  sealed,      \* is the frozen request still there?
  age,         \* of postedAt: the 29 days of a re-send, then PayPal's 30
  contents,    \* the payouts of the frozen request
  linked,      \* payoutBatchId
  stampedBy,   \* Payout.metadata.manualExport.exportId
  paid,        \* Payout.status = paid
  byHand,      \* payouts the brand paid itself, and confirmed
  \* PayPal.
  item,        \* transaction status of each payout in each batch PayPal made
  posts,       \* requests on their way, and the pass that waits for each
  \* The processes.
  pass

rows == <<payoutState, leaseAt, sealed, age, contents, linked>>
payouts == <<stampedBy, paid, byHand>>
paypal == <<item, posts>>
paypalVars == <<rows, payouts, paypal, pass>>

Open == {"intent", "posted", "submitted", "reconcile_required"}
Ended == {"failed", "denied", "released"}
Syncable == {"submitted", "completed"}
Statuses == {"absent", "processing", "unclaimed", "success", "returned", "denied"}
GivenBack == {"returned", "denied"}

Idle == [pc |-> "idle", job |-> None, prior |-> None, hand |-> None, ours |-> {},
         saw |-> [p \in Payouts |-> "absent"]]

PassRecords ==
  [pc : {"idle", "lease", "ready", "await", "free", "synclease", "read", "list", "apply", "confirm", "unclaim"},
   job : PayoutBatches \cup {None},                            \* the batch in hand
   prior : {"intent", "posted", None},                   \* its state before this POST
   hand : Remotes \cup Payouts \cup {Refused, StaleToken, None},   \* PayPal's answer, or a payout
   ours : SUBSET (Payouts \X BOOLEAN),                   \* the payouts still to settle, paid or not as read
   saw : [Payouts -> Statuses]]                          \* the batch as PayPal listed it

PayPalTypeOK ==
  /\ payoutState \in [PayoutBatches -> Open \cup Ended \cup {"none", "file", "completed"}]
  /\ leaseAt \in [PayoutBatches -> Passes \cup {None}]
  /\ sealed \in [PayoutBatches -> BOOLEAN]
  /\ age \in [PayoutBatches -> {"null", "fresh", "held", "gone"}]
  /\ contents \in [PayoutBatches -> SUBSET Payouts]
  /\ linked \in [PayoutBatches -> Remotes \cup {None}]
  /\ stampedBy \in [Payouts -> PayoutBatches \cup {None}]
  /\ paid \in [Payouts -> BOOLEAN]
  /\ byHand \in SUBSET Payouts
  /\ item \in [Remotes -> [Payouts -> Statuses]]
  /\ posts \in SUBSET (PayoutBatches \X (Passes \cup {None}))
  /\ pass \in [Passes -> PassRecords]

PayPalInit ==
  /\ payoutState = [b \in PayoutBatches |-> "none"]
  /\ leaseAt = [b \in PayoutBatches |-> None]
  /\ sealed = [b \in PayoutBatches |-> FALSE]
  /\ age = [b \in PayoutBatches |-> "null"]
  /\ contents = [b \in PayoutBatches |-> {}]
  /\ linked = [b \in PayoutBatches |-> None]
  /\ stampedBy = [p \in Payouts |-> None]
  /\ paid = [p \in Payouts |-> FALSE]
  /\ byHand = {}
  /\ item = [r \in Remotes |-> [p \in Payouts |-> "absent"]]
  /\ posts = {}
  /\ pass = [w \in Passes |-> Idle]

-----------------------------------------------------------------------------
(* Vocabulary.                                                                *)

PassAt(w, l) == pass[w].pc = l
Job(w) == pass[w].job
PassGo(w, l) == pass' = [pass EXCEPT ![w].pc = l]
PassBegin(w, l, b, h) == pass' = [pass EXCEPT ![w].pc = l, ![w].job = b, ![w].hand = h]
PassDone(w) == pass' = [pass EXCEPT ![w] = Idle]

Exists(r) == \E p \in Payouts : item[r][p] # "absent"
Stamped(b) == {p \in Payouts : stampedBy[p] = b /\ ~ paid[p]}
Free == {p \in Payouts : stampedBy[p] = None /\ ~ paid[p]}

\* cas: the state is one of those expected, under the lease this pass took.
Leased(w, from) == payoutState[Job(w)] \in from /\ leaseAt[Job(w)] = w

\* Moves the leased batch on, if it may, and then goes to l. drops says
\* whether the lease is given up, and keeps whether the request is kept.
Moves(w, from, to, l, drops, keeps) ==
  IF Leased(w, from)
  THEN /\ payoutState' = [payoutState EXCEPT ![Job(w)] = to]
       /\ leaseAt' = [leaseAt EXCEPT ![Job(w)] = IF drops THEN None ELSE @]
       /\ sealed' = [sealed EXCEPT ![Job(w)] = keeps /\ @]
       /\ IF l = "idle" THEN PassDone(w) ELSE PassGo(w, l)
  ELSE PassDone(w) /\ UNCHANGED <<payoutState, leaseAt, sealed>>

Fails(w, from) == Moves(w, from, "failed", "free", TRUE, FALSE)
Holds(w, from, keeps) == Moves(w, from, "reconcile_required", "idle", TRUE, keeps)

-----------------------------------------------------------------------------
(* Making a batch or a file: the stamps and the row commit together.          *)

Freeze(b, s) ==
  /\ payoutState[b] = "none" /\ \A a \in 1..(b - 1) : payoutState[a] # "none"
  /\ s # {} /\ s \subseteq Free
  /\ stampedBy' = [p \in Payouts |-> IF p \in s THEN b ELSE stampedBy[p]]
  /\ contents' = [contents EXCEPT ![b] = s]
  /\ UNCHANGED <<leaseAt, age, linked, paid, byHand, paypal, pass>>

\* sendRunWithPaypal: the intent, with the request frozen and sealed.
SendRun(b, s) ==
  /\ Freeze(b, s)
  /\ payoutState' = [payoutState EXCEPT ![b] = "intent"] /\ sealed' = [sealed EXCEPT ![b] = TRUE]

\* createManualExport, and discardManualExport: a file that was never uploaded.
Export(b, s) ==
  /\ Freeze(b, s)
  /\ payoutState' = [payoutState EXCEPT ![b] = "file"] /\ UNCHANGED sealed

Unstamp(b) ==
  /\ stampedBy' = [p \in Payouts |-> IF p \in Stamped(b) THEN None ELSE stampedBy[p]]
  /\ UNCHANGED <<rows, paid, byHand, paypal>>

Discard(b) == payoutState[b] = "file" /\ Stamped(b) # {} /\ Unstamp(b) /\ UNCHANGED pass

\* confirmManualPayouts: the brand says it has paid this one itself. Not
\* while the batch it was read in is open,
ConfirmRead(w, p) ==
  /\ PassAt(w, "idle") /\ ~ paid[p]
  /\ stampedBy[p] \notin {b \in PayoutBatches : payoutState[b] \in Open}
  /\ PassBegin(w, "confirm", stampedBy[p], p)
  /\ UNCHANGED <<rows, payouts, paypal>>

Confirmed(w, settled) ==
  /\ PassAt(w, "confirm")
  /\ IF ~ paid[pass[w].hand] /\ settled
     THEN paid' = [paid EXCEPT ![pass[w].hand] = TRUE] /\ byHand' = byHand \cup {pass[w].hand}
     ELSE UNCHANGED <<paid, byHand>>
  /\ PassDone(w)
  /\ UNCHANGED <<rows, stampedBy, paypal>>

\* Mutant: decided on the read, not on the row being updated.
ConfirmAsRead(w) == Confirmed(w, TRUE)

\* and not if a batch has stamped it since.
Confirm(w) ==
  LET s == stampedBy[pass[w].hand]
  IN PassAt(w, "confirm") /\ Confirmed(w, s \in {None, Job(w)} \cup {b \in PayoutBatches : payoutState[b] = "file"})

-----------------------------------------------------------------------------
(* postBatch.                                                                 *)

\* Mutant: a batch is re-sent however old it is.
TakeAnyAge(w, b) ==
  /\ PassAt(w, "idle") /\ payoutState[b] \in {"intent", "posted"}
  /\ PassBegin(w, "lease", b, None)
  /\ UNCHANGED <<rows, payouts, paypal>>

\* A posted batch past the window of a re-send is held; else it is leased.
TakeBatch(w, b) ==
  /\ PassAt(w, "idle") /\ payoutState[b] \in {"intent", "posted"}
  /\ IF payoutState[b] = "posted" /\ age[b] \in {"held", "gone"}
     THEN /\ payoutState' = [payoutState EXCEPT ![b] = "reconcile_required"]
          /\ leaseAt' = [leaseAt EXCEPT ![b] = None] /\ sealed' = [sealed EXCEPT ![b] = FALSE]
          /\ UNCHANGED pass
     ELSE PassBegin(w, "lease", b, None) /\ UNCHANGED <<payoutState, leaseAt, sealed>>
  /\ UNCHANGED <<age, contents, linked, payouts, paypal>>

Lease(w) ==
  /\ PassAt(w, "lease")
  /\ IF payoutState[Job(w)] \in {"intent", "posted"}
     THEN /\ leaseAt' = [leaseAt EXCEPT ![Job(w)] = w]
          /\ pass' = [pass EXCEPT ![w].pc = "ready", ![w].prior = payoutState[Job(w)]]
     ELSE PassDone(w) /\ UNCHANGED leaseAt
  /\ UNCHANGED <<payoutState, sealed, age, contents, linked, payouts, paypal>>

\* No credentials: nothing was ever sent, or the batch waits for them.
Unsendable(w) ==
  /\ PassAt(w, "ready")
  /\ IF pass[w].prior = "intent" THEN Fails(w, {"intent", "posted"})
     ELSE PassDone(w) /\ UNCHANGED <<payoutState, leaseAt, sealed>>
  /\ UNCHANGED <<age, contents, linked, payouts, paypal>>

\* The sealed request cannot be opened: failed, or held for the admin.
Unreadable(w) ==
  /\ PassAt(w, "ready")
  /\ IF pass[w].prior = "intent" THEN Fails(w, {"intent", "posted"}) ELSE Holds(w, {"posted"}, TRUE)
  /\ UNCHANGED <<age, contents, linked, payouts, paypal>>

\* posted before the POST; the first one anchors the window.
Arm(w) ==
  /\ PassAt(w, "ready") /\ sealed[Job(w)]
  /\ IF Leased(w, {pass[w].prior})
     THEN /\ payoutState' = [payoutState EXCEPT ![Job(w)] = "posted"]
          /\ age' = [age EXCEPT ![Job(w)] = IF @ = "null" THEN "fresh" ELSE @]
          /\ posts' = posts \cup {<<Job(w), w>>}
          /\ PassGo(w, "await")
     ELSE PassDone(w) /\ UNCHANGED <<payoutState, age, posts>>
  /\ UNCHANGED <<leaseAt, sealed, contents, linked, payouts, item>>

\* Nobody waits for a request any more; it may still arrive.
HangUp(w) ==
  posts' = {q \in posts : q[2] # w} \cup {<<q[1], None>> : q \in {x \in posts : x[2] = w}}

\* A timeout, a 5xx, a 429 or a 409, or a duplicate that cannot be read yet.
Ambiguous(w) ==
  /\ PassAt(w, "await")
  /\ HangUp(w) /\ PassDone(w)
  /\ UNCHANGED <<rows, payouts, item>>

\* markSubmitted.
Submits(w, from, r) ==
  /\ Moves(w, from, "submitted", "idle", TRUE, FALSE)
  /\ linked' = IF Leased(w, from) THEN [linked EXCEPT ![Job(w)] = r] ELSE linked
  /\ UNCHANGED <<age, contents, payouts, paypal>>

\* Mutant: whatever PayPal answers is taken for the batch.
SubmittedUnread(w) ==
  /\ PassAt(w, "await") /\ pass[w].hand # None
  /\ Submits(w, {"posted", "reconcile_required"}, pass[w].hand)

\* PayPal's answer: the batch it made, or the one it links as a duplicate.
Submitted(w) ==
  /\ PassAt(w, "await") /\ pass[w].hand \in Remotes
  /\ Submits(w, {"posted", "reconcile_required"}, pass[w].hand)

\* A stale token: this request made nothing, back to where it was.
Unauthorized(w) ==
  /\ PassAt(w, "await") /\ pass[w].hand = StaleToken
  /\ Moves(w, {"posted"}, pass[w].prior, "idle", FALSE, TRUE)
  /\ UNCHANGED <<age, contents, linked, payouts, paypal>>

\* Mutant: a refusal fails the batch whatever was sent before.
RefusalFails(w) ==
  /\ PassAt(w, "await") /\ pass[w].hand = Refused
  /\ Fails(w, {"intent", "posted"})
  /\ UNCHANGED <<age, contents, linked, payouts, paypal>>

\* A refusal proves only that this request made nothing.
RefusedPost(w) ==
  /\ PassAt(w, "await") /\ pass[w].hand = Refused
  /\ IF pass[w].prior = "intent" THEN Fails(w, {"intent", "posted"}) ELSE Holds(w, {"posted"}, TRUE)
  /\ UNCHANGED <<age, contents, linked, payouts, paypal>>

\* failBatch and an admin's release move the batch first; the payouts follow.
ReleaseAllPending(w) == PassAt(w, "free") /\ Unstamp(Job(w)) /\ PassDone(w)

\* repairReleasedStamps: what a crash in between left.
Repair(b) == payoutState[b] \in Ended /\ Stamped(b) # {} /\ Unstamp(b) /\ UNCHANGED pass

-----------------------------------------------------------------------------
(* syncBatch: PayPal's list first, our payouts after it, then one by one.     *)

Sync(w, b) ==
  /\ PassAt(w, "idle") /\ payoutState[b] \in Syncable
  /\ leaseAt' = [leaseAt EXCEPT ![b] = w]
  /\ PassBegin(w, "read", b, linked[b])
  /\ UNCHANGED <<payoutState, sealed, age, contents, linked, payouts, paypal>>

\* It could not be read: later.
SyncFails(w) ==
  /\ PassAt(w, "read")
  /\ Moves(w, Syncable, payoutState[Job(w)], "idle", TRUE, TRUE)
  /\ UNCHANGED <<age, contents, linked, payouts, paypal>>

ReadItems(w) ==
  /\ PassAt(w, "read")
  /\ pass' = [pass EXCEPT ![w].pc = "list", ![w].saw = item[pass[w].hand]]
  /\ UNCHANGED <<rows, payouts, paypal>>

ListPayouts(w) ==
  /\ PassAt(w, "list")
  /\ pass' = [pass EXCEPT ![w].pc = "apply",
                          ![w].ours = {<<p, paid[p]>> : p \in {x \in Payouts : stampedBy[x] = Job(w)}}]
  /\ UNCHANGED <<rows, payouts, paypal>>

Denied(w) == \A p \in contents[Job(w)] : pass[w].saw[p] = "denied"

\* confirmOne and releaseOne: fenced on the stamp and on the status as read.
Settles(w, p, was, s) ==
  IF stampedBy[p] # Job(w) \/ paid[p] # was THEN UNCHANGED <<stampedBy, paid>>
  ELSE IF s = "success" THEN paid' = [paid EXCEPT ![p] = TRUE] /\ UNCHANGED stampedBy
  ELSE IF s \in GivenBack
       THEN stampedBy' = [stampedBy EXCEPT ![p] = None] /\ paid' = [paid EXCEPT ![p] = FALSE]
       ELSE UNCHANGED <<stampedBy, paid>>

\* Mutant: the payout is settled by its id, whichever batch it is in now.
ApplyUnfenced(w, p, was) ==
  /\ PassAt(w, "apply") /\ <<p, was>> \in pass[w].ours
  /\ IF pass[w].saw[p] \in GivenBack
     THEN stampedBy' = [stampedBy EXCEPT ![p] = None] /\ paid' = [paid EXCEPT ![p] = FALSE]
     ELSE paid' = [paid EXCEPT ![p] = @ \/ pass[w].saw[p] = "success"] /\ UNCHANGED stampedBy
  /\ pass' = [pass EXCEPT ![w].ours = @ \ {<<p, was>>}]
  /\ UNCHANGED <<rows, byHand, paypal>>

Apply(w, p, was) ==
  /\ PassAt(w, "apply") /\ <<p, was>> \in pass[w].ours
  /\ Settles(w, p, was, pass[w].saw[p])
  /\ pass' = [pass EXCEPT ![w].ours = @ \ {<<p, was>>}]
  /\ UNCHANGED <<rows, byHand, paypal>>

\* updateSummary counts what the batch still holds, and the batch moves on.
FinishSync(w) ==
  /\ PassAt(w, "apply") /\ pass[w].ours = {}
  /\ LET next == IF Stamped(Job(w)) # {} THEN payoutState[Job(w)]
                 ELSE IF Denied(w) THEN "denied" ELSE "completed"
     IN Moves(w, Syncable, next, "idle", TRUE, TRUE)
  /\ UNCHANGED <<age, contents, linked, payouts, paypal>>

\* cancelUnclaimedPayout: PayPal gives the money back, then the payout is
\* released (what the answer does not settle, a sync does).
CancelUnclaimed(w, p) ==
  /\ PassAt(w, "idle") /\ ~ paid[p] /\ stampedBy[p] # None
  /\ linked[stampedBy[p]] # None /\ item[linked[stampedBy[p]]][p] = "unclaimed"
  /\ item' = [item EXCEPT ![linked[stampedBy[p]]][p] = "returned"]
  /\ PassBegin(w, "unclaim", stampedBy[p], p)
  /\ UNCHANGED <<rows, payouts, posts>>

ReleaseCanceled(w) ==
  /\ PassAt(w, "unclaim")
  /\ Settles(w, pass[w].hand, FALSE, "returned")
  /\ PassDone(w)
  /\ UNCHANGED <<rows, byHand, paypal>>

-----------------------------------------------------------------------------
(* resolvePaypalBatch: an admin settles what the system could not.            *)

AdminRelease(w, b) ==
  /\ PassAt(w, "idle") /\ payoutState[b] \in {"reconcile_required", "intent"}
  /\ payoutState[b] = "intent" \/ ~ AdminChecks \/ (posts = {} /\ \A k \in Copies : ~ Exists(<<b, k>>))
  /\ payoutState' = [payoutState EXCEPT ![b] = "released"]
  /\ leaseAt' = [leaseAt EXCEPT ![b] = None] /\ sealed' = [sealed EXCEPT ![b] = FALSE]
  /\ PassBegin(w, "free", b, None)
  /\ UNCHANGED <<age, contents, linked, payouts, paypal>>

AdminRetry(w, b) ==
  /\ PassAt(w, "idle") /\ payoutState[b] = "reconcile_required" /\ sealed[b] /\ age[b] = "fresh"
  /\ payoutState' = [payoutState EXCEPT ![b] = "posted"]
  /\ leaseAt' = [leaseAt EXCEPT ![b] = None]
  /\ PassBegin(w, "lease", b, None)
  /\ UNCHANGED <<sealed, age, contents, linked, payouts, paypal>>

\* The batch the admin found, if it is this one's.
AdminLink(b, r) ==
  /\ payoutState[b] = "reconcile_required" /\ r[1] = b /\ Exists(r)
  /\ payoutState' = [payoutState EXCEPT ![b] = "submitted"]
  /\ leaseAt' = [leaseAt EXCEPT ![b] = None] /\ sealed' = [sealed EXCEPT ![b] = FALSE]
  /\ linked' = [linked EXCEPT ![b] = r]
  /\ UNCHANGED <<age, contents, payouts, paypal, pass>>

-----------------------------------------------------------------------------
(* PayPal, time, and crashes.                                                 *)

Tell(w, a) == pass' = IF w = None THEN pass ELSE [pass EXCEPT ![w].hand = a]

\* A sender_batch_id pays once within 30 days of its first use.
Deliver(q) ==
  /\ LET b == q[1]
         made == {k \in Copies : Exists(<<b, k>>)}
     IN IF made # {} /\ age[b] # "gone"
        THEN Tell(q[2], <<b, CHOOSE k \in made : TRUE>>) /\ UNCHANGED item
        ELSE \E k \in Copies \ made :
               /\ \A j \in Copies : j < k => j \in made
               /\ item' = [item EXCEPT ![<<b, k>>] =
                             [p \in Payouts |-> IF p \in contents[b] THEN "processing" ELSE "absent"]]
               /\ Tell(q[2], <<b, k>>)
  /\ posts' = posts \ {q}
  /\ UNCHANGED <<rows, payouts>>

\* It makes nothing, and says so or is not heard.
Refuse(q, a) ==
  /\ Tell(q[2], a)
  /\ posts' = posts \ {q}
  /\ UNCHANGED <<rows, payouts, item>>

\* One item moves: paid, held for the partner to claim, given back, refunded.
ItemMoves(r, p, s) ==
  /\ \/ item[r][p] \in {"processing", "unclaimed"} /\ s \in {"success", "returned"}
     \/ item[r][p] = "processing" /\ s = "unclaimed"
     \/ item[r][p] = "success" /\ s = "returned"
  /\ item' = [item EXCEPT ![r][p] = s]
  /\ UNCHANGED <<rows, payouts, posts, pass>>

\* PayPal denies the whole batch.
DenyAll(r) ==
  /\ Exists(r) /\ \A p \in contents[r[1]] : item[r][p] = "processing"
  /\ item' = [item EXCEPT ![r] = [p \in Payouts |-> IF @[p] = "absent" THEN "absent" ELSE "denied"]]
  /\ UNCHANGED <<rows, payouts, posts, pass>>

\* Days pass: 29 since the first POST, then PayPal's 30 since it first used
\* the id. The day of margin outlasts any pass that judged the batch young.
DaysPass(b) ==
  /\ \/ age[b] = "fresh" /\ age' = [age EXCEPT ![b] = "held"]
     \/ /\ age[b] = "held" /\ \A q \in posts : q[1] # b
        /\ \E k \in Copies : Exists(<<b, k>>)
        /\ \A w \in Passes : Job(w) = b => pass[w].pc \notin {"lease", "ready"}
        /\ age' = [age EXCEPT ![b] = "gone"]
  /\ UNCHANGED <<payoutState, leaseAt, sealed, contents, linked, payouts, paypal, pass>>

PassDies(w) == ~ PassAt(w, "idle") /\ HangUp(w) /\ PassDone(w) /\ UNCHANGED <<rows, payouts, item>>

-----------------------------------------------------------------------------

PostStep(w) ==
  \/ \E b \in PayoutBatches : TakeBatch(w, b)
  \/ Lease(w) \/ Unsendable(w) \/ Unreadable(w) \/ Arm(w) \/ Ambiguous(w)
  \/ Submitted(w) \/ Unauthorized(w) \/ RefusedPost(w) \/ ReleaseAllPending(w)

SyncStep(w) ==
  \/ \E b \in PayoutBatches : Sync(w, b)
  \/ SyncFails(w) \/ ReadItems(w) \/ ListPayouts(w) \/ FinishSync(w)
  \/ \E p \in Payouts, was \in BOOLEAN : Apply(w, p, was)

AdminStep(w) ==
  \/ \E p \in Payouts : ConfirmRead(w, p) \/ CancelUnclaimed(w, p)
  \/ Confirm(w) \/ ReleaseCanceled(w)
  \/ \E b \in PayoutBatches : AdminRelease(w, b) \/ AdminRetry(w, b)

PayPalStep ==
  \/ \E q \in posts : Deliver(q) \/ Refuse(q, Refused) \/ Refuse(q, StaleToken)
  \/ \E r \in Remotes : DenyAll(r) \/ \E p \in Payouts, s \in Statuses : ItemMoves(r, p, s)

PayPalNext ==
  \/ \E b \in PayoutBatches, s \in SUBSET Payouts : SendRun(b, s) \/ Export(b, s)
  \/ \E b \in PayoutBatches : Discard(b) \/ Repair(b) \/ DaysPass(b) \/ \E r \in Remotes : AdminLink(b, r)
  \/ \E w \in Passes : PostStep(w) \/ SyncStep(w) \/ AdminStep(w) \/ PassDies(w)
  \/ PayPalStep

PayPalSpec == PayPalInit /\ [][PayPalNext]_paypalVars

-----------------------------------------------------------------------------

\* A payment PayPal has made, or may still make, and not given back.
Paying(r, p) == item[r][p] \notin GivenBack \cup {"absent"}

\* "One batch, at most once": whatever was re-sent, released, linked or
\* confirmed, a payout is never in two payments of PayPal that stand, nor in
\* one beside the brand's own.
PayPalPaysOnce ==
  \A p \in Payouts :
    /\ Cardinality({r \in Remotes : Paying(r, p)}) =< 1
    /\ p \in byHand => \A r \in Remotes : ~ Paying(r, p)

\* Nothing is released on an unknown outcome: a payout that left its batch is
\* in no payment of that batch, and will not be.
ReleasedIsUnpaid ==
  \A b \in PayoutBatches : \A p \in contents[b] :
    stampedBy[p] # b => \A k \in Copies : ~ Paying(<<b, k>>, p)

\* A payout reads as paid because PayPal paid it in the batch it is stamped
\* with (and may have taken back since), or because the brand paid it.
PaidIsTrue ==
  \A p \in Payouts :
    paid[p] /\ p \notin byHand =>
      /\ stampedBy[p] # None /\ linked[stampedBy[p]] # None
      /\ item[linked[stampedBy[p]]][p] \in {"success", "returned"}
=============================================================================
