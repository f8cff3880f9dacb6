------------------------------ MODULE PartsProofs ------------------------------
(***************************************************************************)
(* Proofs about three small components beside the rails.                   *)
(*                                                                         *)
(* The webhook inbox: whatever number of handlers compete for an event,    *)
(* die, or outlive their lease, it is acknowledged only when it was        *)
(* handled, and a claim that is live stands.                               *)
(*                                                                         *)
(* The recovery queue: for any number of passes and any limits on          *)
(* attempts, what a request is settled as is true, and final.              *)
(*                                                                         *)
(* The usage report: for any number of conversions, rates, revisions and   *)
(* runs, a refund in full nets to nothing, and Stripe metered, exactly     *)
(* once, what the ledger says was billed. Both are about sums over a       *)
(* finite set of conversions. The definition of SumFunctionOnSet recurses  *)
(* over subsets, and an induction over them needs no rule with an operator *)
(* for a parameter: the strict subsets of a finite set are well founded,   *)
(* so a set of subsets that is not empty has a smallest member             *)
(* (SetInduction).                                                         *)
(***************************************************************************)
EXTENDS EventInbox, RecoveryRequests, UsageReports, TLAPS, FiniteSetTheorems, WellFoundedInduction

-----------------------------------------------------------------------------
(* The webhook inbox.                                                         *)

\* A handler that is about to stamp the event has handled it.
Handled == \A h \in Handlers : On(h, "stamp") => effect

\* The inductive invariant.
InboxInv == InboxTypeOK /\ Handled /\ AckedIsHandled

LEMMA InboxStart == InboxInit => InboxInv
BY DEF InboxInit, InboxInv, InboxTypeOK, Handled, AckedIsHandled, On

\* A step of one handler, seen from the others.
LEMMA OneHandler ==
  ASSUME InboxTypeOK, NEW h \in Handlers,
         NEW l \in {"idle", "look", "route", "stamp", "release"}, To(h, l)
  PROVE  /\ handler' \in [Handlers -> {"idle", "look", "route", "stamp", "release"}]
         /\ handler'[h] = l
         /\ \A g \in Handlers : g # h => handler'[g] = handler[g]
BY DEF InboxTypeOK, To

LEMMA InboxStep == InboxInv /\ [InboxNext]_inboxVars => InboxInv'
<1> SUFFICES ASSUME InboxInv, [InboxNext]_inboxVars PROVE InboxInv'
  OBVIOUS
<1> USE DEF InboxInv, InboxTypeOK, Handled, AckedIsHandled, On, inbox
<1>1. ASSUME NEW h \in Handlers, Receive(h) PROVE InboxInv'
  BY <1>1, OneHandler DEF Receive
<1>2. ASSUME NEW h \in Handlers, Look(h) PROVE InboxInv'
  BY <1>2, OneHandler DEF Look
<1>3. ASSUME NEW h \in Handlers, RouteEvent(h) PROVE InboxInv'
  <2>1. CASE effect' = TRUE /\ To(h, "stamp")
    BY <1>3, <2>1, OneHandler DEF RouteEvent
  <2>2. CASE \E l \in {"idle", "release"} : To(h, l) /\ UNCHANGED effect
    BY <1>3, <2>2, OneHandler DEF RouteEvent
  <2> QED BY <1>3, <2>1, <2>2 DEF RouteEvent
<1>4. ASSUME NEW h \in Handlers, Stamp(h) PROVE InboxInv'
  BY <1>4, OneHandler DEF Stamp, Owns
<1>5. ASSUME NEW h \in Handlers, Release(h) PROVE InboxInv'
  BY <1>5, OneHandler DEF Release
<1>6. ASSUME NEW h \in Handlers, Die(h) PROVE InboxInv'
  BY <1>6, OneHandler DEF Die
<1>7. CASE Lapse
  BY <1>7 DEF Lapse
<1>8. CASE UNCHANGED inboxVars
  BY <1>8 DEF inboxVars
<1> QED
  BY <1>1, <1>2, <1>3, <1>4, <1>5, <1>6, <1>7, <1>8 DEF InboxNext

\* The types of the inbox (inbox.ts, StripeWebhookInbox).
THEOREM InboxTypes == InboxSpec => []InboxTypeOK
<1>1. InboxInv => InboxTypeOK
  BY DEF InboxInv
<1> QED
  BY <1>1, InboxStart, InboxStep, PTL DEF InboxSpec

\* An event is acknowledged, or its row finished, only when some handler ran it
\* to the end (claimInboxEvent, stampInboxOutcome, handleFundingEvent).
THEOREM Acknowledged == InboxSpec => []AckedIsHandled
<1>1. InboxInv => AckedIsHandled
  BY DEF InboxInv
<1> QED
  BY <1>1, InboxStart, InboxStep, PTL DEF InboxSpec

\* A claim within its lease stands: an upsert, a stamp or a drop is another's
\* only if the row is.
LEMMA ClaimKept == InboxTypeOK /\ [InboxNext]_inboxVars => ClaimStep
<1> SUFFICES ASSUME InboxTypeOK, [InboxNext]_inboxVars,
                    NEW h \in Handlers, Owns(h), On(h, "route"), ~ expired, handler'[h] = handler[h]
             PROVE  claimed' /\ token' = h /\ outcome' = outcome
  BY DEF ClaimStep
<1> USE DEF On, Owns, inbox, InboxTypeOK
<1>1. ASSUME NEW g \in Handlers, Receive(g) PROVE claimed' /\ token' = h /\ outcome' = outcome
  BY <1>1 DEF Receive
<1>2. ASSUME NEW g \in Handlers, Look(g) \/ RouteEvent(g) \/ Die(g)
      PROVE  claimed' /\ token' = h /\ outcome' = outcome
  BY <1>2 DEF Look, RouteEvent, Die
<1>3. ASSUME NEW g \in Handlers, Stamp(g) PROVE claimed' /\ token' = h /\ outcome' = outcome
  BY <1>3 DEF Stamp
<1>4. ASSUME NEW g \in Handlers, Release(g) PROVE claimed' /\ token' = h /\ outcome' = outcome
  BY <1>4 DEF Release
<1>5. CASE Lapse \/ UNCHANGED inboxVars
  BY <1>5 DEF Lapse, inboxVars
<1> QED
  BY <1>1, <1>2, <1>3, <1>4, <1>5 DEF InboxNext

\* A handler at work within its lease keeps its claim (releaseInboxClaim and
\* stampInboxOutcome are fenced on processedAt).
THEOREM ClaimStands == InboxSpec => ClaimOutlivesGhosts
<1>1. InboxInv => InboxTypeOK
  BY DEF InboxInv
<1> QED
  BY <1>1, InboxStart, InboxStep, ClaimKept, PTL DEF InboxSpec, ClaimOutlivesGhosts

-----------------------------------------------------------------------------
(* The recovery queue.                                                        *)

\* A lease names its holder; what says that the function acted is right.
Holding ==
  /\ lease = "null" => holder = None
  /\ marked => acted
  /\ \A a \in Appliers : In(a, "applied") => acted

\* While nothing was retried in doubt: a request nobody holds was not acted on
\* and will not be; its first holder alone may act, and has not where it is
\* about to, or was refused.
Alone(a) == \A b \in Appliers \ {a} : ~ In(b, "call")
Fresh ==
  ~ retried /\ verdict = "pending" =>
    /\ lease = "null" => ~ acted /\ \A b \in Appliers : ~ In(b, "call")
    /\ \A a \in Appliers :
         Fenced(a) /\ ~ applier[a].takeover /\ applier[a].pc \in {"call", "applied", "retry", "refusal"} =>
           Alone(a) /\ (applier[a].pc \in {"call", "refusal"} => ~ acted)

\* A clean refusal was not acted on, and will not be.
CleanRefusal ==
  verdict = "refused" /\ ~ doubt /\ ~ retried => ~ acted /\ \A b \in Appliers : ~ In(b, "call")

\* What the outcome rests on.
RequestInv ==
  RequestTypeOK /\ Holding /\ Fresh /\ CleanRefusal /\ (verdict = "applied" => acted)

\* A recheck is of a request that was decided, and who holds it finds it due.
Listing ==
  \A a \in Appliers : In(a, "list") => verdict # "pending" /\ (Fenced(a) => recheck = "due")

\* The inductive invariant.
QueueInv == RequestInv /\ Listing

\* A pass, as RequestTypeOK types it.
Process == [pc : {"idle", "call", "applied", "retry", "refusal", "marker", "list"},
            takeover : BOOLEAN, tries : 0..(MaxAttempts + MaxRechecks + 1)]

LEMMA RequestStart == RequestInit => QueueInv
<1> SUFFICES ASSUME RequestInit PROVE QueueInv
  OBVIOUS
<1>1. \A a \in Appliers : applier[a] = Waiting
  BY DEF RequestInit
<1>2. applier \in [Appliers -> Process]
  <2>1. Waiting \in Process
    BY RequestAssumption DEF Waiting, Process
  <2> QED BY <2>1 DEF RequestInit
<1>3. RequestTypeOK
  <2>1. attempts \in 0..(MaxAttempts + 1) /\ rechecks \in 0..(MaxRechecks + 1)
    BY RequestAssumption DEF RequestInit
  <2>2. {doubt, acted, marked, retried} \subseteq BOOLEAN
    BY DEF RequestInit
  <2> QED BY <1>2, <2>1, <2>2 DEF RequestInit, RequestTypeOK, Process
<1> QED
  BY <1>1, <1>3, RequestAssumption DEF RequestInit, QueueInv, RequestInv, Holding, Fresh, CleanRefusal, Listing, In, Waiting

-----------------------------------------------------------------------------
(* Steps of one pass, seen from the others.                                   *)

LEMMA OneApplier ==
  ASSUME RequestTypeOK, NEW a \in Appliers, NEW r \in Process, applier' = [applier EXCEPT ![a] = r]
  PROVE  /\ applier' \in [Appliers -> Process]
         /\ applier'[a] = r
         /\ \A b \in Appliers : b # a => applier'[b] = applier[b]
BY DEF RequestTypeOK, Process

LEMMA Resting ==
  ASSUME RequestTypeOK, NEW a \in Appliers, GoIdle(a)
  PROVE  /\ applier' \in [Appliers -> Process]
         /\ applier'[a].pc = "idle"
         /\ \A b \in Appliers : b # a => applier'[b] = applier[b]
<1>1. Waiting \in Process /\ Waiting.pc = "idle"
  BY RequestAssumption DEF Waiting, Process
<1> QED BY <1>1, OneApplier DEF GoIdle

LEMMA Stepping ==
  ASSUME RequestTypeOK, NEW a \in Appliers,
         NEW l \in {"idle", "call", "applied", "retry", "refusal", "marker", "list"}, Proceed(a, l)
  PROVE  /\ applier' \in [Appliers -> Process]
         /\ applier'[a].pc = l /\ applier'[a].takeover = applier[a].takeover
         /\ \A b \in Appliers : b # a => applier'[b] = applier[b]
BY DEF RequestTypeOK, Process, Proceed

\* A pass that settles, or tries to, what is true keeps the invariant.
LEMMA Settling ==
  ASSUME RequestInv, NEW a \in Appliers,
         NEW v \in {"applied", "refused", "failed"}, NEW d \in BOOLEAN, SettleTerminal(a, v, d),
         v = "applied" => acted,
         v = "refused" /\ ~ d => In(a, "refusal") /\ ~ applier[a].takeover
  PROVE  RequestInv'
<1> USE DEF RequestInv, Holding, In, Fenced, target
<1>1. /\ applier' \in [Appliers -> Process]
      /\ applier'[a].pc = "idle"
      /\ \A b \in Appliers : b # a => applier'[b] = applier[b]
  BY Resting DEF SettleTerminal
<1>2. UNCHANGED <<attempts, rechecks, acted, marked, retried>>
  BY DEF SettleTerminal
<1>3. CASE Fenced(a) /\ verdict = "pending"
  <2>1. verdict' = v /\ doubt' = d /\ lease' = "null" /\ holder' = None
        /\ recheck' \in {"none", "due", "settled"}
    BY <1>3 DEF SettleTerminal, RequestTypeOK
  <2>2. RequestTypeOK'
    BY <1>1, <1>2, <2>1 DEF RequestTypeOK, Process
  <2>3. CleanRefusal'
    BY <1>1, <1>2, <1>3, <2>1 DEF CleanRefusal, Fresh, Alone
  <2> QED BY <1>1, <1>2, <2>1, <2>2, <2>3 DEF Fresh
<1>4. CASE ~ (Fenced(a) /\ verdict = "pending")
  <2>1. UNCHANGED <<verdict, doubt, lease, holder, recheck>>
    BY <1>4 DEF SettleTerminal
  <2>2. RequestTypeOK'
    BY <1>1, <1>2, <2>1 DEF RequestTypeOK, Process
  <2>3. Fresh' /\ CleanRefusal'
    BY <1>1, <1>2, <2>1 DEF Fresh, CleanRefusal, Alone
  <2> QED BY <1>1, <1>2, <2>1, <2>2, <2>3
<1> QED BY <1>3, <1>4

-----------------------------------------------------------------------------

LEMMA Claims ==
  ASSUME RequestInv, NEW a \in Appliers, Claim(a) PROVE RequestInv'
<1> USE DEF RequestInv, In, target
<1> DEFINE r == [pc |-> "call", takeover |-> lease # "null", tries |-> attempts + 1]
<1>1. r \in Process /\ r.pc = "call" /\ (r.takeover <=> lease # "null")
  <2>1. attempts \in 0..(MaxAttempts + 1) /\ attempts < MaxAttempts + 1
    BY DEF Claim, RequestTypeOK
  <2>2. attempts + 1 \in 0..(MaxAttempts + MaxRechecks + 1)
    BY <2>1, RequestAssumption
  <2>3. (lease # "null") \in BOOLEAN
    OBVIOUS
  <2> QED BY <2>2, <2>3 DEF Process
<1>2. /\ applier' \in [Appliers -> Process] /\ applier'[a] = r
      /\ \A b \in Appliers : b # a => applier'[b] = applier[b]
  <2>1. applier' = [applier EXCEPT ![a] = r]
    BY DEF Claim
  <2> HIDE DEF r
  <2> QED BY <1>1, <2>1, OneApplier
<1> HIDE DEF r
<1>3. RequestTypeOK'
  BY <1>2, RequestAssumption DEF Claim, RequestTypeOK, Process
<1>4. Holding'
  BY <1>1, <1>2, RequestAssumption DEF Claim, Holding
<1>5. Fresh'
  <2> SUFFICES ASSUME ~ retried, verdict = "pending", NEW b \in Appliers, Fenced(b)', ~ applier'[b].takeover
               PROVE  Alone(b)' /\ (applier'[b].pc \in {"call", "refusal"} => ~ acted')
    BY DEF Claim, Fresh
  <2>1. b = a /\ lease = "null"
    BY <1>1, <1>2 DEF Claim, Fenced
  <2> QED BY <1>2, <2>1 DEF Claim, Fresh, Alone
<1>6. CleanRefusal' /\ (verdict' = "applied" => acted')
  BY DEF Claim, CleanRefusal
<1> QED BY <1>3, <1>4, <1>5, <1>6

LEMMA Calls ==
  ASSUME RequestInv, NEW a \in Appliers, Call(a) PROVE RequestInv'
<1> USE DEF RequestInv, In, request
<1>1. PICK l \in {"applied", "retry", "refusal"} :
        /\ Proceed(a, l)
        /\ l = "applied" => acted'
        /\ l = "refusal" => UNCHANGED acted
        /\ acted' \in BOOLEAN /\ marked' \in BOOLEAN
        /\ (acted => acted') /\ (marked' => acted')
  <2>1. acted \in BOOLEAN /\ marked \in BOOLEAN /\ (marked => acted)
    BY DEF Holding, RequestTypeOK
  <2>2. CASE acted' = TRUE /\ marked' = TRUE /\ ~ acted /\ \E l \in {"applied", "retry"} : Proceed(a, l)
    <3>1. PICK l \in {"applied", "retry"} : Proceed(a, l)
      BY <2>2
    <3> QED BY <2>2, <3>1
  <2>3. CASE (\E l \in {"refusal", "retry"} : Proceed(a, l)) /\ UNCHANGED <<acted, marked>>
    <3>1. PICK l \in {"refusal", "retry"} : Proceed(a, l)
      BY <2>3
    <3> QED BY <2>1, <2>3, <3>1
  <2> QED BY <2>2, <2>3 DEF Call
<1>2. /\ applier' \in [Appliers -> Process]
      /\ applier'[a].pc = l /\ applier'[a].takeover = applier[a].takeover
      /\ \A b \in Appliers : b # a => applier'[b] = applier[b]
  BY <1>1, Stepping
<1>3. UNCHANGED <<verdict, doubt, lease, holder, attempts, rechecks, recheck, retried>> /\ applier[a].pc = "call"
  BY DEF Call
<1>4. RequestTypeOK'
  BY <1>1, <1>2, <1>3 DEF RequestTypeOK, Process
<1>5. Holding'
  BY <1>1, <1>2, <1>3 DEF Holding
<1>6. Fresh'
  <2> SUFFICES ASSUME ~ retried, verdict = "pending" PROVE Fresh'
    BY <1>3 DEF Fresh
  <2>1. lease # "null"
    BY <1>3 DEF Fresh
  <2>2. ASSUME NEW b \in Appliers, Fenced(b)', ~ applier'[b].takeover,
               applier'[b].pc \in {"call", "applied", "retry", "refusal"}
        PROVE  Alone(b)' /\ (applier'[b].pc \in {"call", "refusal"} => ~ acted')
    <3>1. CASE b = a
      BY <1>1, <1>2, <1>3, <2>2, <3>1 DEF Fresh, Fenced, Alone
    <3>2. CASE b # a
      BY <1>2, <1>3, <2>2, <3>2 DEF Fresh, Fenced, Alone
    <3> QED BY <3>1, <3>2
  <2> QED BY <1>3, <2>1, <2>2 DEF Fresh
<1>7. CleanRefusal' /\ (verdict' = "applied" => acted')
  BY <1>1, <1>3 DEF CleanRefusal
<1> QED BY <1>4, <1>5, <1>6, <1>7

LEMMA Retries ==
  ASSUME RequestInv, NEW a \in Appliers, Retry(a) PROVE RequestInv'
<1> USE DEF RequestInv, In, target
<1>1. CASE applier[a].tries >= MaxAttempts
  BY <1>1, Settling DEF Retry
<1>2. CASE ~ (applier[a].tries >= MaxAttempts)
  <2>1. /\ applier' \in [Appliers -> Process] /\ applier'[a].pc = "idle"
        /\ \A b \in Appliers : b # a => applier'[b] = applier[b]
    BY <1>2, Resting DEF Retry
  <2>2. UNCHANGED <<verdict, doubt, attempts, rechecks, recheck, acted, marked>> /\ applier[a].pc = "retry"
    BY <1>2 DEF Retry
  <2>3. CASE Fenced(a) /\ verdict = "pending"
    <3>1. lease' = "null" /\ holder' = None /\ retried' = (retried \/ acted \/ applier[a].takeover)
      BY <1>2, <2>3 DEF Retry
    <3>2. RequestTypeOK'
      BY <2>1, <2>2, <3>1 DEF RequestTypeOK, Process
    <3>3. Fresh'
      BY <2>1, <2>2, <2>3, <3>1, RequestAssumption DEF Fresh, Fenced, Alone
    <3> QED BY <2>1, <2>2, <2>3, <3>1, <3>2, <3>3 DEF Holding, CleanRefusal
  <2>4. CASE ~ (Fenced(a) /\ verdict = "pending")
    <3>1. UNCHANGED <<lease, holder, retried>>
      BY <1>2, <2>4 DEF Retry
    <3>2. RequestTypeOK'
      BY <2>1, <2>2, <3>1 DEF RequestTypeOK, Process
    <3> QED BY <2>1, <2>2, <3>1, <3>2 DEF Holding, Fresh, CleanRefusal, Fenced, Alone
  <2> QED BY <2>3, <2>4
<1> QED BY <1>1, <1>2

LEMMA Refusals ==
  ASSUME RequestInv, NEW a \in Appliers, Refusal(a) PROVE RequestInv'
<1>1. CASE applier[a].takeover
  <2>1. Proceed(a, "marker") /\ UNCHANGED <<request, target>>
    BY <1>1 DEF Refusal
  <2>2. /\ applier' \in [Appliers -> Process]
        /\ applier'[a].pc = "marker" /\ applier'[a].takeover = applier[a].takeover
        /\ \A b \in Appliers : b # a => applier'[b] = applier[b]
    BY <2>1, Stepping DEF RequestInv
  <2>3. RequestTypeOK'
    BY <2>1, <2>2 DEF RequestInv, RequestTypeOK, Process, request, target
  <2> QED
    BY <2>1, <2>2, <2>3 DEF RequestInv, Holding, Fresh, CleanRefusal, Fenced, Alone, In, request, target
<1>2. CASE ~ applier[a].takeover
  BY <1>2, Settling DEF Refusal
<1> QED BY <1>1, <1>2

LEMMA Markers ==
  ASSUME RequestInv, NEW a \in Appliers, Marker(a) PROVE RequestInv'
<1>1. CASE marked
  BY <1>1, Settling DEF Marker, RequestInv, Holding
<1>2. CASE ~ marked
  BY <1>2, Settling DEF Marker
<1> QED BY <1>1, <1>2

LEMMA RecheckClaims ==
  ASSUME RequestInv, NEW a \in Appliers, ClaimRecheck(a) PROVE RequestInv'
<1> USE DEF RequestInv, In, target
<1> DEFINE r == [pc |-> "list", takeover |-> FALSE, tries |-> rechecks + 1]
<1>1. rechecks + 1 \in 0..(MaxRechecks + 1) /\ r \in Process /\ r.pc = "list"
  <2>1. rechecks \in 0..(MaxRechecks + 1) /\ rechecks < MaxRechecks + 1
    BY DEF ClaimRecheck, RequestTypeOK
  <2>2. /\ rechecks + 1 \in 0..(MaxRechecks + 1)
        /\ rechecks + 1 \in 0..(MaxAttempts + MaxRechecks + 1)
    BY <2>1, RequestAssumption
  <2> QED BY <2>2 DEF Process
<1>2. /\ applier' \in [Appliers -> Process] /\ applier'[a] = r
      /\ \A b \in Appliers : b # a => applier'[b] = applier[b]
  <2>1. applier' = [applier EXCEPT ![a] = r]
    BY DEF ClaimRecheck
  <2> HIDE DEF r
  <2> QED BY <1>1, <2>1, OneApplier
<1> HIDE DEF r
<1>3. /\ lease' = "held" /\ holder' = a /\ rechecks' = rechecks + 1 /\ verdict # "pending"
      /\ UNCHANGED <<verdict, doubt, attempts, recheck, acted, marked, retried>>
  BY DEF ClaimRecheck
<1>4. RequestTypeOK'
  BY <1>1, <1>2, <1>3 DEF RequestTypeOK, Process
<1> QED BY <1>1, <1>2, <1>3, <1>4 DEF Holding, Fresh, CleanRefusal

LEMMA Rechecks ==
  ASSUME QueueInv, NEW a \in Appliers, Recheck(a) PROVE RequestInv'
<1> USE DEF QueueInv, RequestInv, In, target
<1>1. /\ applier' \in [Appliers -> Process] /\ applier'[a].pc = "idle"
      /\ \A b \in Appliers : b # a => applier'[b] = applier[b]
  BY Resting DEF Recheck
<1>2. /\ UNCHANGED <<verdict, doubt, attempts, rechecks, acted, marked, retried>>
      /\ applier[a].pc = "list" /\ verdict # "pending"
  BY DEF Recheck, Listing
<1>3. CASE Fenced(a)
  <2>1. recheck' \in {"settled", "due"} /\ lease' = "null" /\ holder' = None
    BY <1>3 DEF Recheck
  <2>2. RequestTypeOK'
    BY <1>1, <1>2, <2>1 DEF RequestTypeOK, Process
  <2> QED BY <1>1, <1>2, <1>3, <2>1, <2>2 DEF Holding, Fresh, Fenced, Alone, CleanRefusal
<1>4. CASE ~ Fenced(a)
  <2>1. UNCHANGED <<recheck, lease, holder>>
    BY <1>4 DEF Recheck
  <2>2. RequestTypeOK'
    BY <1>1, <1>2, <2>1 DEF RequestTypeOK, Process
  <2> QED BY <1>1, <1>2, <2>1, <2>2 DEF Holding, Fresh, Fenced, Alone, CleanRefusal
<1> QED BY <1>3, <1>4

LEMMA Perishes ==
  ASSUME RequestInv, NEW a \in Appliers, Perish(a) PROVE RequestInv'
<1> USE DEF RequestInv, In, target, request
<1>1. /\ applier' \in [Appliers -> Process] /\ applier'[a].pc = "idle"
      /\ \A b \in Appliers : b # a => applier'[b] = applier[b]
  BY Resting DEF Perish
<1>2. UNCHANGED <<request, target>>
  BY DEF Perish
<1>3. RequestTypeOK'
  BY <1>1, <1>2 DEF RequestTypeOK, Process
<1> QED BY <1>1, <1>2, <1>3 DEF Holding, Fresh, Fenced, Alone, CleanRefusal

\* Nobody undoes a decision, and a recheck is scheduled with it.
LEMMA Decided ==
  ASSUME QueueInv, NEW a \in Appliers, NEW v, NEW d, SettleTerminal(a, v, d), verdict # "pending"
  PROVE  UNCHANGED <<verdict, doubt, recheck, holder>>
BY DEF SettleTerminal

\* Every step of a pass, for what a recheck relies on.
LEMMA Lists ==
  ASSUME QueueInv, RequestNext PROVE Listing'
<1> USE DEF QueueInv, RequestInv, Listing, In, Fenced
<1>1. ASSUME NEW a \in Appliers, NEW v \in {"applied", "refused", "failed"}, NEW d \in BOOLEAN, SettleTerminal(a, v, d)
      PROVE  Listing'
  <2>1. applier'[a].pc = "idle" /\ \A b \in Appliers : b # a => applier'[b] = applier[b]
    BY <1>1, Resting DEF SettleTerminal
  <2>2. CASE verdict = "pending"
    BY <2>1, <2>2
  <2>3. CASE verdict # "pending"
    BY <1>1, <2>1, <2>3 DEF SettleTerminal
  <2> QED BY <2>2, <2>3
<1>2. ASSUME NEW a \in Appliers, Claim(a) PROVE Listing'
  <2>1. \A b \in Appliers : applier'[b].pc # "list"
    BY <1>2 DEF Claim, RequestTypeOK
  <2> QED BY <2>1
<1>3. ASSUME NEW a \in Appliers, Call(a) PROVE Listing'
  <2>1. PICK l \in {"applied", "retry", "refusal"} : Proceed(a, l)
    BY <1>3 DEF Call
  <2>2. applier'[a].pc = l /\ \A b \in Appliers : b # a => applier'[b] = applier[b]
    BY <2>1, Stepping
  <2> QED BY <1>3, <2>2 DEF Call, request
<1>4. ASSUME NEW a \in Appliers, Applied(a) PROVE Listing'
  BY <1>1, <1>4 DEF Applied
<1>5. ASSUME NEW a \in Appliers, Retry(a) PROVE Listing'
  <2>1. CASE applier[a].tries >= MaxAttempts
    BY <1>1, <1>5, <2>1 DEF Retry
  <2>2. CASE ~ (applier[a].tries >= MaxAttempts)
    <3>1. applier'[a].pc = "idle" /\ \A b \in Appliers : b # a => applier'[b] = applier[b]
      BY <1>5, <2>2, Resting DEF Retry
    <3>2. UNCHANGED <<verdict, recheck>> /\ (holder' = holder \/ holder' = None)
      BY <1>5, <2>2 DEF Retry
    <3> QED BY <3>1, <3>2, RequestAssumption
  <2> QED BY <2>1, <2>2
<1>6. ASSUME NEW a \in Appliers, Refusal(a) PROVE Listing'
  <2>1. CASE applier[a].takeover
    <3>1. Proceed(a, "marker") /\ UNCHANGED request
      BY <1>6, <2>1 DEF Refusal
    <3>2. applier'[a].pc = "marker" /\ \A b \in Appliers : b # a => applier'[b] = applier[b]
      BY <3>1, Stepping
    <3> QED BY <3>1, <3>2 DEF request
  <2>2. CASE ~ applier[a].takeover
    BY <1>1, <1>6, <2>2 DEF Refusal
  <2> QED BY <2>1, <2>2
<1>7. ASSUME NEW a \in Appliers, Marker(a) PROVE Listing'
  BY <1>1, <1>7 DEF Marker
<1>8. ASSUME NEW a \in Appliers, ClaimRecheck(a) PROVE Listing'
  <2>1. \A b \in Appliers : b # a => applier'[b] = applier[b]
    BY <1>8 DEF ClaimRecheck, RequestTypeOK
  <2> QED BY <1>8, <2>1 DEF ClaimRecheck
<1>9. ASSUME NEW a \in Appliers, Recheck(a) PROVE Listing'
  <2>1. applier'[a].pc = "idle" /\ \A b \in Appliers : b # a => applier'[b] = applier[b]
    BY <1>9, Resting DEF Recheck
  <2>2. verdict' = verdict /\ (UNCHANGED <<recheck, holder>> \/ holder' = None)
    BY <1>9 DEF Recheck
  <2> QED BY <2>1, <2>2, RequestAssumption
<1>10. ASSUME NEW a \in Appliers, Perish(a) PROVE Listing'
  <2>1. applier'[a].pc = "idle" /\ \A b \in Appliers : b # a => applier'[b] = applier[b]
    BY <1>10, Resting DEF Perish
  <2> QED BY <1>10, <2>1 DEF Perish, request
<1>11. Overwrite \/ RunOut => Listing'
  BY DEF Overwrite, RunOut, request
<1> QED
  BY <1>2, <1>3, <1>4, <1>5, <1>6, <1>7, <1>8, <1>9, <1>10, <1>11 DEF RequestNext

\* Every step, or none.
LEMMA RequestStep ==
  ASSUME QueueInv, [RequestNext]_requestVars PROVE QueueInv'
<1>1. CASE UNCHANGED requestVars
  BY <1>1 DEF requestVars, request, target, QueueInv, RequestInv, RequestTypeOK, Holding, Fresh,
       CleanRefusal, Listing, Fenced, Alone, In
<1>2. CASE RequestNext
  <2>1. ASSUME Overwrite PROVE RequestInv'
    <3>1. marked' = FALSE /\ UNCHANGED <<request, acted, retried, applier>>
      BY <2>1 DEF Overwrite
    <3>2. RequestTypeOK'
      BY <3>1 DEF QueueInv, RequestInv, RequestTypeOK, request
    <3> QED
      BY <3>1, <3>2 DEF QueueInv, RequestInv, request, Holding, Fresh, CleanRefusal, Fenced, Alone, In
  <2>2. RunOut => RequestInv'
    BY DEF QueueInv, RequestInv, RunOut, target, RequestTypeOK, Holding, Fresh, CleanRefusal, Fenced, Alone, In
  <2>3. ASSUME NEW a \in Appliers, Applied(a) PROVE RequestInv'
    BY <2>3, Settling DEF Applied, QueueInv, RequestInv, Holding
  <2>4. \A a \in Appliers :
          Claim(a) \/ Call(a) \/ Retry(a) \/ Refusal(a) \/ Marker(a)
          \/ ClaimRecheck(a) \/ Recheck(a) \/ Perish(a) => RequestInv'
    BY Claims, Calls, Retries, Refusals, Markers, RecheckClaims, Rechecks, Perishes DEF QueueInv
  <2>5. RequestInv'
    BY <1>2, <2>1, <2>2, <2>3, <2>4 DEF RequestNext
  <2> QED BY <1>2, <2>5, Lists DEF QueueInv
<1> QED BY <1>1, <1>2

\* A decision is not edited, and a recheck that is settled is not taken up.
LEMMA Deciding ==
  ASSUME QueueInv, [RequestNext]_requestVars PROVE VerdictStep
<1> SUFFICES ASSUME verdict # "pending"
             PROVE  verdict' = verdict /\ doubt' = doubt /\ (recheck = "settled" => recheck' = "settled")
  BY DEF VerdictStep
<1> USE DEF request, target
<1>1. CASE UNCHANGED requestVars
  BY <1>1 DEF requestVars
<1>2. CASE Overwrite \/ RunOut
  BY <1>2 DEF Overwrite, RunOut
<1>3. ASSUME NEW a \in Appliers, Claim(a) \/ Call(a) \/ ClaimRecheck(a) \/ Perish(a)
      PROVE  verdict' = verdict /\ doubt' = doubt /\ (recheck = "settled" => recheck' = "settled")
  BY <1>3 DEF Claim, Call, ClaimRecheck, Perish
<1>4. ASSUME NEW a \in Appliers, Applied(a) \/ Retry(a) \/ Refusal(a) \/ Marker(a)
      PROVE  verdict' = verdict /\ doubt' = doubt /\ (recheck = "settled" => recheck' = "settled")
  BY <1>4, Decided DEF Applied, Retry, Refusal, Marker
<1>5. ASSUME NEW a \in Appliers, Recheck(a)
      PROVE  verdict' = verdict /\ doubt' = doubt /\ (recheck = "settled" => recheck' = "settled")
  BY <1>5 DEF Recheck, QueueInv, Listing
<1> QED
  BY <1>1, <1>2, <1>3, <1>4, <1>5 DEF RequestNext

-----------------------------------------------------------------------------

LEMMA Queue == RequestSpec => []QueueInv
<1>1. RequestInit => QueueInv
  BY RequestStart
<1>2. QueueInv /\ [RequestNext]_requestVars => QueueInv'
  BY RequestStep
<1> QED BY <1>1, <1>2, PTL DEF RequestSpec

\* The record and every pass over it keep their types.
THEOREM RequestTypes == RequestSpec => []RequestTypeOK
<1>1. QueueInv => RequestTypeOK
  BY DEF QueueInv, RequestInv
<1> QED BY <1>1, Queue, PTL

\* What operator-recovery.ts records of a request is what its function did:
\* applied only if it acted, and refused without an annotation only if it did
\* not, unless a retryable outcome hid an attempt that was interrupted.
THEOREM Truthful == RequestSpec => []VerdictIsTrue
<1>1. QueueInv => VerdictIsTrue
  BY DEF QueueInv, RequestInv, RequestTypeOK, CleanRefusal, VerdictIsTrue
<1> QED BY <1>1, Queue, PTL

\* No pass, a ghost whose lease ran out included, edits what was decided, and
\* no recheck reopens one that is settled.
THEOREM Final == RequestSpec => VerdictStands
<1>1. QueueInv /\ [RequestNext]_requestVars => [VerdictStep]_requestVars
  BY Deciding
<1> QED BY <1>1, Queue, PTL DEF RequestSpec, VerdictStands

-----------------------------------------------------------------------------
(* Sums over a finite set.                                                    *)

\* A set Q that holds of a subset of S whenever it holds of the subset less any
\* one of its elements holds of every subset of S.
LEMMA SetInduction ==
  ASSUME NEW S, IsFiniteSet(S), NEW Q, 
         \A t \in SUBSET S : (\A x \in t : t \ {x} \in Q) => t \in Q
  PROVE  \A t \in SUBSET S : t \in Q
<1> SUFFICES ASSUME NEW t0 \in SUBSET S, t0 \notin Q PROVE FALSE
  OBVIOUS
<1> DEFINE Bad == {t \in SUBSET S : t \notin Q}
<1>1. IsWellFoundedOn(StrictSubsetOrdering(S), SUBSET S)
  <2>1. IsWellFoundedOn(StrictSubsetOrdering(S), FiniteSubsetsOf(S))
    BY FS_StrictSubsetOrderingWellFounded
  <2>2. FiniteSubsetsOf(S) = SUBSET S
    BY FS_FiniteSubsetsOfFinite
  <2> QED BY <2>1, <2>2
<1>2. PICK t \in Bad : \A u \in Bad : <<u, t>> \notin StrictSubsetOrdering(S)
  <2>1. Bad \subseteq SUBSET S /\ Bad # {}
    OBVIOUS
  <2> QED BY <1>1, <2>1, WFMin
<1>3. ASSUME NEW x \in t PROVE t \ {x} \in Q
  <2>1. t \ {x} \in SUBSET S /\ t \ {x} \subseteq t /\ t \ {x} # t
    OBVIOUS
  <2>2. <<t \ {x}, t>> \in StrictSubsetOrdering(S)
    BY <2>1 DEF StrictSubsetOrdering
  <2> QED BY <1>2, <2>1, <2>2
<1> QED BY <1>3

\* The recursion of SumFunctionOnSet, on the subsets of t.
Pick(s) == CHOOSE x \in s : TRUE
Sums(g, f, t) == g = [s \in SUBSET t |-> IF s = {} THEN 0 ELSE f[Pick(s)] + g[s \ {Pick(s)}]]

LEMMA PickIn == ASSUME NEW s, s # {} PROVE Pick(s) \in s
BY DEF Pick

\* The sum over t is the value at t of some function that satisfies the recursion.
LEMMA SumIs ==
  ASSUME NEW f, NEW t
  PROVE SumFunctionOnSet(f, t) = (CHOOSE g : Sums(g, f, t))[t]
BY DEF SumFunctionOnSet, FoldFunctionOnSet, MapThenFoldSet, Sums, Pick

\* Any two such functions agree where both are defined,
LEMMA SumsAgree ==
  ASSUME NEW t, IsFiniteSet(t), NEW u \in SUBSET t, NEW f, NEW g, NEW h, Sums(g, f, t), Sums(h, f, u)
  PROVE  \A s \in SUBSET u : g[s] = h[s]
<1> DEFINE Q == {s \in SUBSET u : g[s] = h[s]}
<1>1. IsFiniteSet(u)
  BY FS_Subset
<1>2. ASSUME NEW s \in SUBSET u, \A x \in s : s \ {x} \in Q PROVE s \in Q
  <2>1. CASE s = {}
    BY <2>1 DEF Sums
  <2>2. CASE s # {}
    <3>1. Pick(s) \in s
      BY <2>2, PickIn
    <3>2. g[s \ {Pick(s)}] = h[s \ {Pick(s)}]
      BY <1>2, <3>1
    <3> QED BY <2>2, <3>2 DEF Sums
  <2> QED BY <2>1, <2>2
<1> HIDE DEF Q
<1>3. \A s \in SUBSET u : s \in Q
  BY <1>1, <1>2, SetInduction
<1> QED BY <1>3 DEF Q

\* and one for a set is one for its subsets.
LEMMA SumsRestrict ==
  ASSUME NEW t, NEW u \in SUBSET t, NEW f, NEW g, Sums(g, f, t)
  PROVE  \E h : Sums(h, f, u)
<1> DEFINE h == [s \in SUBSET u |-> g[s]]
<1>1. ASSUME NEW s \in SUBSET u PROVE h[s] = IF s = {} THEN 0 ELSE f[Pick(s)] + h[s \ {Pick(s)}]
  <2>1. s \ {Pick(s)} \in SUBSET u /\ s \in SUBSET t
    OBVIOUS
  <2> QED BY <2>1 DEF Sums
<1>2. Sums(h, f, u)
  <2> HIDE DEF h
  <2>1. h = [s \in SUBSET u |-> h[s]]
    BY DEF h
  <2> QED BY <1>1, <2>1 DEF Sums
<1> QED BY <1>2

\* What a sum is, once there is one.
LEMMA SumUnfolds ==
  ASSUME NEW t, IsFiniteSet(t), NEW f, \E g : Sums(g, f, t)
  PROVE  SumFunctionOnSet(f, t) =
           IF t = {} THEN 0 ELSE f[Pick(t)] + SumFunctionOnSet(f, t \ {Pick(t)})
<1> DEFINE G(u) == CHOOSE g : Sums(g, f, u)
           u == t \ {Pick(t)}
<1>1. Sums(G(t), f, t)
  OBVIOUS
<1>2. Sums(G(u), f, u)
  BY <1>1, SumsRestrict
<1>3. G(t)[u] = G(u)[u]
  BY <1>1, <1>2, SumsAgree
<1>4. SumFunctionOnSet(f, t) = G(t)[t] /\ SumFunctionOnSet(f, u) = G(u)[u]
  BY SumIs
<1> HIDE DEF G
<1>5. G(t)[t] = IF t = {} THEN 0 ELSE f[Pick(t)] + G(t)[u]
  BY <1>1 DEF Sums
<1> QED BY <1>3, <1>4, <1>5

\* There is one: the sums of the smaller sets make up the next.
LEMMA SumsExist ==
  ASSUME NEW S, IsFiniteSet(S), NEW f
  PROVE  \E g : Sums(g, f, S)
<1> DEFINE Q == {t \in SUBSET S : \A u \in SUBSET t : \E g : Sums(g, f, u)}
           W(u) == SumFunctionOnSet(f, u)
<1>1. ASSUME NEW t \in SUBSET S, \A x \in t : t \ {x} \in Q PROVE t \in Q
  <2>1. ASSUME NEW u \in SUBSET t, u # t PROVE \E g : Sums(g, f, u)
    <3>1. PICK x \in t : u \in SUBSET (t \ {x})
      BY <2>1
    <3> QED BY <1>1, <3>1
  <2>2. \E g : Sums(g, f, t)
    <3> DEFINE h == [s \in SUBSET t |-> IF s = {} THEN 0 ELSE f[Pick(s)] + W(s \ {Pick(s)})]
    <3>1. ASSUME NEW s \in SUBSET t, s # {} PROVE h[s \ {Pick(s)}] = W(s \ {Pick(s)})
      <4> DEFINE u == s \ {Pick(s)}
      <4>1. u \in SUBSET t /\ u # t
        BY <3>1, PickIn
      <4>2. IsFiniteSet(u)
        BY <4>1, FS_Subset
      <4>3. W(u) = IF u = {} THEN 0 ELSE f[Pick(u)] + W(u \ {Pick(u)})
        BY <2>1, <4>1, <4>2, SumUnfolds
      <4> QED BY <4>1, <4>3
    <3>2. Sums(h, f, t)
      <4>1. \A s \in SUBSET t : h[s] = IF s = {} THEN 0 ELSE f[Pick(s)] + h[s \ {Pick(s)}]
        BY <3>1
      <4> HIDE DEF h
      <4>2. h = [s \in SUBSET t |-> h[s]]
        BY DEF h
      <4> QED BY <4>1, <4>2 DEF Sums
    <3> QED BY <3>2
  <2> QED BY <2>1, <2>2
<1> HIDE DEF Q
<1>2. \A t \in SUBSET S : t \in Q
  BY <1>1, SetInduction
<1> QED BY <1>2 DEF Q

\* So the sum is what its recursion says.
LEMMA SumIsRecursive ==
  ASSUME NEW t, IsFiniteSet(t), NEW f
  PROVE  SumFunctionOnSet(f, t) =
           IF t = {} THEN 0 ELSE f[Pick(t)] + SumFunctionOnSet(f, t \ {Pick(t)})
BY SumsExist, SumUnfolds

-----------------------------------------------------------------------------
(* What a sum does.                                                           *)

IntOn(f, S) == \A x \in S : f[x] \in Int

\* A sum of integers is an integer,
LEMMA SumType ==
  ASSUME NEW S, IsFiniteSet(S), NEW f, IntOn(f, S)
  PROVE  \A t \in SUBSET S : SumFunctionOnSet(f, t) \in Int
<1> DEFINE Q == {t \in SUBSET S : SumFunctionOnSet(f, t) \in Int}
<1>1. ASSUME NEW t \in SUBSET S, \A x \in t : t \ {x} \in Q PROVE t \in Q
  <2>1. IsFiniteSet(t)
    BY FS_Subset
  <2>2. CASE t = {}
    BY <2>1, <2>2, SumIsRecursive
  <2>3. CASE t # {}
    <3>1. Pick(t) \in t
      BY <2>3, PickIn
    <3>2. SumFunctionOnSet(f, t) = f[Pick(t)] + SumFunctionOnSet(f, t \ {Pick(t)})
      BY <2>1, <2>3, SumIsRecursive
    <3> QED BY <1>1, <3>1, <3>2 DEF IntOn
  <2> QED BY <2>2, <2>3
<1> HIDE DEF Q
<1>2. \A t \in SUBSET S : t \in Q
  BY <1>1, SetInduction
<1> QED BY <1>2 DEF Q

\* Any element may be taken out first.
LEMMA SumTake ==
  ASSUME NEW S, IsFiniteSet(S), NEW f, IntOn(f, S)
  PROVE  \A t \in SUBSET S : \A x \in t : SumFunctionOnSet(f, t) = f[x] + SumFunctionOnSet(f, t \ {x})
<1> DEFINE W(t) == SumFunctionOnSet(f, t)
           Q == {t \in SUBSET S : \A x \in t : W(t) = f[x] + W(t \ {x})}
<1>0. \A t \in SUBSET S : W(t) \in Int
  BY SumType
<1>1. ASSUME NEW t \in SUBSET S, \A x \in t : t \ {x} \in Q PROVE t \in Q
  <2> SUFFICES ASSUME NEW x \in t PROVE W(t) = f[x] + W(t \ {x})
    OBVIOUS
  <2> DEFINE c == Pick(t)
  <2>1. c \in t
    BY PickIn
  <2>2. W(t) = f[c] + W(t \ {c})
    <3>1. IsFiniteSet(t)
      BY FS_Subset
    <3> QED BY <3>1, SumIsRecursive
  <2> HIDE DEF c, W
  <2>3. CASE x = c
    BY <2>2, <2>3
  <2>4. CASE x # c
    <3>1. W(t \ {c}) = f[x] + W((t \ {c}) \ {x})
      BY <1>1, <2>1, <2>4
    <3>2. W(t \ {x}) = f[c] + W((t \ {x}) \ {c})
      BY <1>1, <2>1, <2>4
    <3>3. (t \ {c}) \ {x} = (t \ {x}) \ {c}
      OBVIOUS
    <3>4. f[x] \in Int /\ f[c] \in Int /\ W((t \ {c}) \ {x}) \in Int
      BY <1>0, <2>1 DEF IntOn
    <3>5. f[c] + (f[x] + W((t \ {c}) \ {x})) = f[x] + (f[c] + W((t \ {c}) \ {x}))
      BY <3>4
    <3> QED BY <2>2, <3>1, <3>2, <3>3, <3>5
  <2> QED BY <2>3, <2>4
<1> HIDE DEF Q
<1>2. \A t \in SUBSET S : t \in Q
  BY <1>1, SetInduction
<1> QED BY <1>2 DEF Q

\* nothing over the empty set,
LEMMA SumEmpty == ASSUME NEW f PROVE SumFunctionOnSet(f, {}) = 0
BY SumIsRecursive, FS_EmptySet

\* and adds pointwise.
LEMMA SumAdds ==
  ASSUME NEW S, IsFiniteSet(S), NEW f, NEW g, NEW h, IntOn(f, S), IntOn(g, S),
         \A x \in S : h[x] = f[x] + g[x]
  PROVE  SumFunctionOnSet(h, S) = SumFunctionOnSet(f, S) + SumFunctionOnSet(g, S)
<1> DEFINE W(k, t) == SumFunctionOnSet(k, t)
           Q == {t \in SUBSET S : W(h, t) = W(f, t) + W(g, t)}
<1>0. IntOn(h, S)
  BY DEF IntOn
<1>1. ASSUME NEW t \in SUBSET S, \A x \in t : t \ {x} \in Q PROVE t \in Q
  <2>1. CASE t = {}
    BY <2>1, SumEmpty
  <2>2. ASSUME NEW x \in t PROVE W(h, t) = W(f, t) + W(g, t)
    <3>1. /\ W(h, t) = h[x] + W(h, t \ {x})
          /\ W(f, t) = f[x] + W(f, t \ {x})
          /\ W(g, t) = g[x] + W(g, t \ {x})
      BY <1>0, SumTake
    <3>2. W(h, t \ {x}) = W(f, t \ {x}) + W(g, t \ {x})
      BY <1>1
    <3>3. W(f, t \ {x}) \in Int /\ W(g, t \ {x}) \in Int /\ f[x] \in Int /\ g[x] \in Int /\ h[x] = f[x] + g[x]
      BY SumType DEF IntOn
    <3> HIDE DEF W
    <3> QED BY <3>1, <3>2, <3>3
  <2> QED BY <2>1, <2>2
<1> HIDE DEF Q
<1>2. \A t \in SUBSET S : t \in Q
  BY <1>1, SetInduction
<1> QED BY <1>2 DEF Q

\* What is zero does not count.
LEMMA SumDrops ==
  ASSUME NEW S, IsFiniteSet(S), NEW T \in SUBSET S, NEW f, IntOn(f, S), \A x \in S \ T : f[x] = 0
  PROVE  SumFunctionOnSet(f, S) = SumFunctionOnSet(f, T)
<1> DEFINE W(t) == SumFunctionOnSet(f, t)
           Q == {t \in SUBSET S : W(t) = W(t \cap T)}
<1>1. ASSUME NEW t \in SUBSET S, \A x \in t : t \ {x} \in Q PROVE t \in Q
  <2>1. CASE t \subseteq T
    <3>1. t \cap T = t
      BY <2>1
    <3> QED BY <3>1
  <2>2. ASSUME NEW x \in t, x \notin T PROVE W(t) = W(t \cap T)
    <3>1. W(t) = f[x] + W(t \ {x})
      BY SumTake
    <3>2. f[x] = 0 /\ W(t \ {x}) \in Int
      BY <2>2, SumType
    <3>3. (t \ {x}) \cap T = t \cap T
      BY <2>2
    <3>4. W(t \ {x}) = W(t \cap T)
      BY <1>1, <3>3
    <3> HIDE DEF W
    <3> QED BY <3>1, <3>2, <3>4
  <2> QED BY <2>1, <2>2
<1> HIDE DEF Q
<1>2. \A t \in SUBSET S : t \in Q
  BY <1>1, SetInduction
<1>3. S \cap T = T
  OBVIOUS
<1> QED BY <1>2, <1>3 DEF Q

\* Only the values on the set count.
LEMMA SumSame ==
  ASSUME NEW S, IsFiniteSet(S), NEW f, NEW g, IntOn(f, S), \A x \in S : f[x] = g[x]
  PROVE  SumFunctionOnSet(f, S) = SumFunctionOnSet(g, S)
<1> DEFINE zero == [x \in S |-> 0]
<1>1. IntOn(zero, S) /\ \A x \in S : g[x] = f[x] + zero[x]
  BY DEF IntOn
<1>2. SumFunctionOnSet(g, S) = SumFunctionOnSet(f, S) + SumFunctionOnSet(zero, S)
  BY <1>1, SumAdds
<1>3. SumFunctionOnSet(zero, S) = SumFunctionOnSet(zero, {})
  BY <1>1, SumDrops
<1> QED BY <1>2, <1>3, SumEmpty, SumType
-----------------------------------------------------------------------------
(* The inductive invariant of the ledger.                                     *)

Runs == [at : {"idle", "send", "sent"}, report : Reports \cup {None}]
Books == [billed : Amounts, usd : Amounts, rows : SUBSET Conversions, old : SUBSET Conversions,
          carry : Int, mark : Marks, pending : Reports \cup {None}]

\* The rows of report m leave no conversion below zero in ledger b, and bring one
\* that is back at zero to nothing in dollars.
Netted(b, m) ==
  \A c \in Conversions :
    /\ b.billed[c] + m.billed[c] >= 0
    /\ b.billed[c] + m.billed[c] = 0 => b.usd[c] + m.usd[c] = 0

\* A report is frozen only outside of a transaction, for the period of the mark,
\* and its rows are in the ledger.
LedgerOK ==
  /\ \A c \in Conversions : books.billed[c] >= 0
  /\ books.pending # None =>
       /\ ~ enclosed
       /\ books.pending.billed = Nothing /\ books.pending.usd = Nothing
       /\ books.pending.ident = books.mark /\ books.pending.amount > 0 /\ books.mark < MaxReports

\* There is one run at a time, and it sends the frozen report or, inside a
\* transaction, one whose rows net out.
RunsOK ==
  /\ \A r, s \in Reporters : ~ RunAt(r, "idle") /\ ~ RunAt(s, "idle") => r = s
  /\ \A r \in Reporters :
       LET m == reporter[r].report IN
       ~ RunAt(r, "idle") =>
         /\ m \in Reports /\ Netted(books, m)
         /\ ~ enclosed => m = books.pending
         /\ enclosed => m.ident <= books.mark /\ m.amount > 0 /\ m.ident < MaxReports

UsageInv == UsageTypeOK /\ LedgerOK /\ RefundsNetOut /\ RunsOK

-----------------------------------------------------------------------------
(* One report.                                                                *)

\* What is metered is a natural number of units.
LEMMA Rounds == \A net \in Int : Rounded(net) \in Nat
<1> TAKE net \in Int
<1> DEFINE q == (2 * net + Cent) \div (2 * Cent)
<1>1. net > 0 => q \in Nat
  BY UsageAssumption
<1> HIDE DEF q
<1>2. net > 0 => Cent * q \in Nat
  BY <1>1, UsageAssumption
<1> QED BY <1>2 DEF Rounded, q

\* A basis that went to nothing takes back all that was billed in dollars.
LEMMA NetsOut == \A u, b, d \in Int : b > 0 /\ b + d = 0 => (u * d) \div b = - u
<1> TAKE u, b, d \in Int
<1> HAVE b > 0 /\ b + d = 0
<1>1. u * d = b * (- u)
  OBVIOUS
<1>2. \A q \in Int : (b * q) \div b = q
  OBVIOUS
<1> QED BY <1>1, <1>2

\* The rows of one conversion: none is billed below zero, and one that is back
\* at zero has cost nothing.
LEMMA Deltas ==
  ASSUME UsageTypeOK, LedgerOK, RefundsNetOut, NEW c \in Conversions, NEW rate \in [Conversions -> Rates]
  PROVE  /\ Delta(c) \in Int /\ Usd(c, rate) \in Int
         /\ books.billed[c] + Delta(c) >= 0
         /\ books.billed[c] + Delta(c) = 0 => books.usd[c] + Usd(c, rate) = 0
<1> DEFINE b == books.billed[c]
           u == books.usd[c]
           d == Delta(c)
<1>1. b \in Int /\ u \in Int /\ basis[c] \in Nat /\ rate[c] \in Nat /\ b >= 0 /\ (b = 0 => u = 0)
  <2>1. b \in Int /\ u \in Int
    BY DEF UsageTypeOK, Amounts
  <2>2. basis[c] \in 0..MaxBasis /\ rate[c] \in Rates
    BY DEF UsageTypeOK
  <2>3. basis[c] \in Nat /\ rate[c] \in Nat
    <3>1. MaxBasis \in Nat /\ Rates \subseteq Nat
      BY UsageAssumption
    <3>2. \A n \in 0..MaxBasis : n \in Nat
      BY <3>1
    <3>3. \A n \in Rates : n \in Nat
      BY <3>1
    <3> QED BY <2>2, <3>2, <3>3
  <2>4. b >= 0 /\ (b = 0 => u = 0)
    BY DEF LedgerOK, RefundsNetOut
  <2> QED BY <2>1, <2>3, <2>4
<1>2. d \in Int /\ b + d >= 0
  BY <1>1 DEF Delta
<1> HIDE DEF d, b, u
<1>3. CASE d >= 0
  <2>1. Usd(c, rate) = d * rate[c]
    BY <1>3 DEF Usd, d
  <2>2. d * rate[c] \in Int /\ (d = 0 => d * rate[c] = 0)
    BY <1>1, <1>2
  <2>3. b + d = 0 => u + d * rate[c] = 0
    BY <1>1, <1>2, <1>3, <2>2
  <2> QED BY <1>2, <2>1, <2>2, <2>3 DEF d, b, u
<1>4. CASE ~ (d >= 0)
  <2>1. Usd(c, rate) = (u * d) \div b
    BY <1>4 DEF Usd, d, b, u
  <2>2. b > 0
    BY <1>1, <1>2, <1>4
  <2>3. u * d \in Int
    BY <1>1, <1>2
  <2>4. (u * d) \div b \in Int
    BY <1>1, <2>2, <2>3
  <2>5. b + d = 0 => (u * d) \div b = - u
    BY <1>1, <1>2, <2>2, NetsOut
  <2>6. b + d = 0 => u + (u * d) \div b = 0
    BY <1>1, <2>4, <2>5
  <2> QED BY <1>2, <2>1, <2>4, <2>6 DEF d, b, u
<1> QED BY <1>3, <1>4

\* The sum over all conversions.
LEMMA SumsInt ==
  ASSUME NEW f \in Amounts
  PROVE  /\ SumFunction(f) = SumFunctionOnSet(f, Conversions)
         /\ SumFunction(f) \in Int /\ IntOn(f, Conversions)
<1>1. DOMAIN f = Conversions /\ IntOn(f, Conversions)
  BY DEF Amounts, IntOn
<1>2. SumFunctionOnSet(f, Conversions) \in Int
  BY <1>1, SumType, UsageAssumption
<1> QED BY <1>1, <1>2 DEF SumFunction

\* A report of now: what it adds to the ledger is what it sends and carries,
\* less what was carried before.
LEMMA Reported ==
  ASSUME UsageTypeOK, LedgerOK, RefundsNetOut,
         NEW rate \in [Conversions -> Rates], NEW old \in SUBSET visible
  PROVE  LET m == ReportNow(rate, old) IN
         /\ m \in Reports /\ m.ident = books.mark /\ m.old = old
         /\ Netted(books, m)
         /\ SumFunction(m.usd) + books.carry = m.amount + m.carry
         /\ m.amount <= 0 => m.amount = 0
<1> DEFINE usd == [c \in Conversions |-> Usd(c, rate)]
           billed == [c \in Conversions |-> Delta(c)]
           net == SumFunction(usd) + books.carry
           m == ReportNow(rate, old)
<1>1. usd \in Amounts /\ billed \in Amounts
  BY Deltas DEF Amounts
<1>2. books.carry \in Int /\ books.mark \in Marks /\ old \in SUBSET Conversions
  BY DEF UsageTypeOK
<1>3. SumFunction(usd) \in Int
  BY <1>1, SumsInt
<1>4. Netted(books, m)
  BY Deltas DEF Netted, ReportNow
<1>5. m = [amount |-> Rounded(net), carry |-> net - Rounded(net), ident |-> books.mark, old |-> old,
           billed |-> billed, usd |-> usd]
  BY DEF ReportNow
<1> HIDE DEF usd, billed, m
<1>6. net \in Int /\ Rounded(net) \in Nat
  BY <1>2, <1>3, Rounds
<1>7. m \in Reports
  BY <1>1, <1>2, <1>5, <1>6 DEF Reports
<1> HIDE DEF net
<1>8. SumFunction(usd) + books.carry = Rounded(net) + (net - Rounded(net))
  BY <1>2, <1>3, <1>6 DEF net
<1> QED BY <1>4, <1>5, <1>6, <1>7, <1>8 DEF m

\* Rows that go into the ledger.
LEMMA Inserts ==
  ASSUME UsageTypeOK, LedgerOK, RefundsNetOut, NEW m \in Reports, Netted(books, m)
  PROVE  LET b == Inserted(books, m) IN
         /\ b.billed \in Amounts /\ b.usd \in Amounts /\ b.rows \subseteq Conversions
         /\ b.old = books.old /\ b.carry = books.carry /\ b.mark = books.mark /\ b.pending = books.pending
         /\ b = [billed |-> b.billed, usd |-> b.usd, rows |-> b.rows, old |-> books.old,
                 carry |-> books.carry, mark |-> books.mark, pending |-> books.pending]
         /\ \A c \in Conversions : b.billed[c] >= 0 /\ (b.billed[c] = 0 => b.usd[c] = 0)
         /\ SumFunction(b.usd) = SumFunction(books.usd) + SumFunction(m.usd)
<1> DEFINE b == Inserted(books, m)
<1>0. /\ books = [billed |-> books.billed, usd |-> books.usd, rows |-> books.rows, old |-> books.old,
                  carry |-> books.carry, mark |-> books.mark, pending |-> books.pending]
      /\ books.billed \in Amounts /\ books.usd \in Amounts /\ books.rows \subseteq Conversions
      /\ m.billed \in Amounts /\ m.usd \in Amounts
  BY DEF UsageTypeOK, Reports
<1>1. /\ b = [billed |-> b.billed, usd |-> b.usd, rows |-> b.rows, old |-> books.old,
              carry |-> books.carry, mark |-> books.mark, pending |-> books.pending]
      /\ b.billed = [c \in Conversions |-> books.billed[c] + m.billed[c]]
      /\ b.usd = [c \in Conversions |-> books.usd[c] + m.usd[c]]
      /\ b.rows = books.rows \cup {c \in Conversions : m.billed[c] # 0}
  <2> DEFINE B == [c \in Conversions |-> books.billed[c] + m.billed[c]]
             U == [c \in Conversions |-> books.usd[c] + m.usd[c]]
             R == books.rows \cup {c \in Conversions : m.billed[c] # 0}
  <2>1. b = [books EXCEPT !.billed = B, !.usd = U, !.rows = R]
    BY DEF Inserted
  <2> HIDE DEF B, U, R, b
  <2>2. b = [billed |-> B, usd |-> U, rows |-> R, old |-> books.old,
             carry |-> books.carry, mark |-> books.mark, pending |-> books.pending]
    BY <1>0, <2>1
  <2> QED BY <2>2 DEF B, U, R
<1> HIDE DEF b
<1>2. b.billed \in Amounts /\ b.usd \in Amounts /\ b.rows \subseteq Conversions
  BY <1>0, <1>1 DEF Amounts
<1>3. \A c \in Conversions : b.billed[c] >= 0 /\ (b.billed[c] = 0 => b.usd[c] = 0)
  BY <1>1 DEF Netted
<1>4. SumFunction(b.usd) = SumFunction(books.usd) + SumFunction(m.usd)
  <2>1. \A c \in Conversions : b.usd[c] = books.usd[c] + m.usd[c]
    BY <1>1
  <2>2. SumFunctionOnSet(b.usd, Conversions) =
          SumFunctionOnSet(books.usd, Conversions) + SumFunctionOnSet(m.usd, Conversions)
    BY <1>0, <2>1, SumsInt, SumAdds, UsageAssumption
  <2> QED BY <1>0, <1>2, <2>2, SumsInt
<1> QED BY <1>1, <1>2, <1>3, <1>4 DEF b

-----------------------------------------------------------------------------
(* The ledger and the runs.                                                   *)

LEMMA NothingIs == Nothing \in Amounts /\ SumFunction(Nothing) = 0
<1>1. Nothing \in Amounts /\ \A c \in Conversions : Nothing[c] = 0
  BY DEF Nothing, Amounts
<1>2. SumFunctionOnSet(Nothing, Conversions) = SumFunctionOnSet(Nothing, {})
  BY <1>1, SumsInt, SumDrops, UsageAssumption
<1> QED BY <1>1, <1>2, SumsInt, SumEmpty

\* The fields of an edited record.
\* What is written over in a record is all that changes of it.
LEMMA FrozenIs ==
  ASSUME NEW A, NEW E, NEW B, NEW C, NEW D, NEW m, NEW z \in B,
         m \in [amount : A, carry : C, ident : D, old : E, billed : B, usd : B]
  PROVE  LET n == [m EXCEPT !.billed = z, !.usd = z] IN
         /\ n \in [amount : A, carry : C, ident : D, old : E, billed : B, usd : B]
         /\ n.billed = z /\ n.usd = z
         /\ n.amount = m.amount /\ n.carry = m.carry /\ n.ident = m.ident
OBVIOUS

LEMMA FinishedIs ==
  ASSUME NEW L, NEW R, NEW C, NEW K, NEW P, NEW b, NEW o \in R, NEW c \in C, NEW k \in K, NEW p \in P,
         b \in [billed : L, usd : L, rows : R, old : R, carry : C, mark : K, pending : P]
  PROVE  LET n == [b EXCEPT !.carry = c, !.mark = k, !.old = o, !.pending = p] IN
         /\ n \in [billed : L, usd : L, rows : R, old : R, carry : C, mark : K, pending : P]
         /\ n.billed = b.billed /\ n.usd = b.usd
         /\ n.pending = p /\ n.carry = c /\ n.mark = k
OBVIOUS

\* A report whose rows are in the ledger: it has no more of them.
LEMMA Freezes ==
  ASSUME NEW m \in Reports
  PROVE  LET n == Frozen(m) IN
         /\ n \in Reports /\ n.billed = Nothing /\ n.usd = Nothing
         /\ n.amount = m.amount /\ n.carry = m.carry /\ n.ident = m.ident
<1> DEFINE O == SUBSET Conversions
<1>1. Nothing \in Amounts
  BY NothingIs
<1>2. m \in [amount : Nat, carry : Int, ident : Marks, old : O, billed : Amounts, usd : Amounts]
  BY DEF Reports
<1> HIDE DEF O
<1>3. LET n == [m EXCEPT !.billed = Nothing, !.usd = Nothing] IN
      /\ n \in [amount : Nat, carry : Int, ident : Marks, old : O, billed : Amounts, usd : Amounts]
      /\ n.billed = Nothing /\ n.usd = Nothing
      /\ n.amount = m.amount /\ n.carry = m.carry /\ n.ident = m.ident
  BY <1>1, <1>2, FrozenIs
<1> QED BY <1>3 DEF Frozen, Reports, O

\* A frozen report nets out, for it adds no rows.
LEMMA NothingMore ==
  ASSUME UsageTypeOK, LedgerOK, RefundsNetOut, NEW m, m.billed = Nothing, m.usd = Nothing
  PROVE  Netted(books, m)
<1> SUFFICES ASSUME NEW c \in Conversions
             PROVE  /\ books.billed[c] + Nothing[c] >= 0
                    /\ books.billed[c] + Nothing[c] = 0 => books.usd[c] + Nothing[c] = 0
  BY DEF Netted
<1>1. books.billed[c] \in Int /\ books.usd[c] \in Int /\ Nothing[c] = 0
  BY DEF UsageTypeOK, Amounts, Nothing
<1> QED BY <1>1 DEF LedgerOK, RefundsNetOut

\* One reporter's step.
LEMMA Moved ==
  ASSUME UsageTypeOK, NEW r \in Reporters, NEW l \in {"idle", "send", "sent"}, NEW m \in Reports \cup {None},
         reporter' = [reporter EXCEPT ![r] = [at |-> l, report |-> m]]
  PROVE  /\ reporter' \in [Reporters -> Runs]
         /\ reporter'[r].at = l /\ reporter'[r].report = m
         /\ \A s \in Reporters : s # r => reporter'[s] = reporter[s]
BY DEF UsageTypeOK, Runs

LEMMA UsageStart == UsageInit => UsageInv
<1> SUFFICES ASSUME UsageInit PROVE UsageInv
  OBVIOUS
<1>1. /\ books.billed = Nothing /\ books.usd = Nothing /\ books.rows = {} /\ books.old = {}
      /\ books.carry = 0 /\ books.mark = 0 /\ books.pending = None
  BY DEF UsageInit
<1>2. \A r \in Reporters : reporter[r].at = "idle"
  BY DEF UsageInit, Away
<1>3. UsageTypeOK
  <2>1. 0 \in Marks /\ 0 \in 0..MaxBasis
    <3>1. MaxBasis \in Nat /\ MaxReports \in Nat
      BY UsageAssumption
    <3> QED BY <3>1 DEF Marks
  <2>2. basis \in [Conversions -> 0..MaxBasis]
    BY <2>1 DEF UsageInit, Nothing
  <2>3. Enclosures \subseteq BOOLEAN
    BY UsageAssumption
  <2>4. {enclosed, alerted} \subseteq BOOLEAN
    BY <2>3 DEF UsageInit
  <2>5. books \in [billed : Amounts, usd : Amounts, rows : SUBSET Conversions, old : SUBSET Conversions,
                   carry : Int, mark : Marks, pending : Reports \cup {None}]
    BY <2>1, NothingIs DEF UsageInit
  <2>6. meter \in [Marks -> Nat] /\ visible \subseteq Conversions
    BY DEF UsageInit
  <2>7. reporter \in [Reporters -> Runs]
    BY DEF UsageInit, Away, Runs
  <2> QED BY <2>2, <2>4, <2>5, <2>6, <2>7 DEF UsageTypeOK, Runs
<1>4. LedgerOK /\ RefundsNetOut
  BY <1>1 DEF LedgerOK, RefundsNetOut, Nothing
<1>5. RunsOK
  BY <1>2 DEF RunsOK, RunAt
<1> QED BY <1>3, <1>4, <1>5 DEF UsageInv

\* finishReport changes the carry, the mark and the outbox, and no row.
LEMMA FinishesBooks ==
  ASSUME NEW i \in Books, NEW m, m.old \in SUBSET Conversions, m.carry \in Int, m.ident + 1 \in Marks
  PROVE  LET b == Finished(i, m) IN
         /\ b \in Books /\ b.billed = i.billed /\ b.usd = i.usd
         /\ b.pending = None /\ b.carry = m.carry /\ b.mark = m.ident + 1
<1> DEFINE R == SUBSET Conversions
           P == Reports \cup {None}
<1>1. i \in [billed : Amounts, usd : Amounts, rows : R, old : R, carry : Int, mark : Marks, pending : P]
  BY DEF Books
<1>2. m.old \in R /\ None \in P
  OBVIOUS
<1> PICK o, c, k : o = m.old /\ c = m.carry /\ k = m.ident + 1
  OBVIOUS
<1> HIDE DEF R, P
<1>3. LET n == [i EXCEPT !.carry = c, !.mark = k, !.old = o, !.pending = None] IN
      /\ n \in [billed : Amounts, usd : Amounts, rows : R, old : R, carry : Int, mark : Marks, pending : P]
      /\ n.billed = i.billed /\ n.usd = i.usd
      /\ n.pending = None /\ n.carry = c /\ n.mark = k
  BY <1>1, <1>2, FinishedIs
<1>4. Finished(i, m) = [i EXCEPT !.carry = c, !.mark = k, !.old = o, !.pending = None]
  BY DEF Finished
<1> QED BY <1>3, <1>4 DEF Books, R, P

\* A report that is finished, whatever it found the mark at.
LEMMA Finishes ==
  ASSUME UsageTypeOK, LedgerOK, RefundsNetOut, NEW m \in Reports, Netted(books, m), m.ident < MaxReports
  PROVE  LET b == Finished(Inserted(books, m), m) IN
         /\ b \in Books /\ b.pending = None /\ b.carry = m.carry /\ b.mark = m.ident + 1
         /\ \A c \in Conversions : b.billed[c] >= 0 /\ (b.billed[c] = 0 => b.usd[c] = 0)
         /\ SumFunction(b.usd) = SumFunction(books.usd) + SumFunction(m.usd)
<1> DEFINE i == Inserted(books, m)
           b == Finished(i, m)
<1>1. /\ i \in Books
      /\ \A c \in Conversions : i.billed[c] >= 0 /\ (i.billed[c] = 0 => i.usd[c] = 0)
      /\ SumFunction(i.usd) = SumFunction(books.usd) + SumFunction(m.usd)
  <2>1. /\ i.billed \in Amounts /\ i.usd \in Amounts /\ i.rows \subseteq Conversions
        /\ i = [billed |-> i.billed, usd |-> i.usd, rows |-> i.rows, old |-> books.old,
                carry |-> books.carry, mark |-> books.mark, pending |-> books.pending]
        /\ \A c \in Conversions : i.billed[c] >= 0 /\ (i.billed[c] = 0 => i.usd[c] = 0)
        /\ SumFunction(i.usd) = SumFunction(books.usd) + SumFunction(m.usd)
    BY Inserts
  <2> HIDE DEF i
  <2>2. i \in Books
    BY <2>1 DEF Books, UsageTypeOK
  <2> QED BY <2>1, <2>2
<1>2. m.old \in SUBSET Conversions /\ m.carry \in Int /\ m.ident + 1 \in Marks
  <2>1. MaxReports \in Nat
    BY UsageAssumption
  <2> QED BY <2>1 DEF Reports, Marks
<1> HIDE DEF i
<1>3. /\ b \in Books /\ b.billed = i.billed /\ b.usd = i.usd
      /\ b.pending = None /\ b.carry = m.carry /\ b.mark = m.ident + 1
  BY <1>1, <1>2, FinishesBooks
<1> QED BY <1>1, <1>3 DEF i

\* Read, in its three branches: nothing to send, inside a transaction, outside.
LEMMA ReadStep ==
  ASSUME UsageInv, NEW r \in Reporters, Read(r)
  PROVE  UsageInv'
<1> PICK rate \in [Conversions -> Rates], old \in SUBSET visible :
      LET m == ReportNow(rate, old) IN
       /\ books.old \subseteq old
       /\ IF m.amount <= 0
          THEN books' = Finished(Inserted(books, m), m) /\ UNCHANGED reporter
          ELSE IF enclosed
               THEN Move(r, "send", m) /\ UNCHANGED books
               ELSE Move(r, "send", Frozen(m)) /\ books' = [Inserted(books, m) EXCEPT !.pending = Frozen(m)]
  BY DEF Read
<1> PICK m : m = ReportNow(rate, old)
  OBVIOUS
<1> USE DEF UsageInv
<1>1. /\ m \in Reports /\ m.ident = books.mark /\ m.old = old /\ Netted(books, m)
      /\ m.amount <= 0 => m.amount = 0
  BY Reported
<1>2. /\ Unlocked /\ books.mark < MaxReports /\ books.pending = None
      /\ UNCHANGED <<basis, visible, meter, enclosed, alerted>>
  BY DEF Read
<1>3. CASE m.amount <= 0
  <2>1. books' = Finished(Inserted(books, m), m) /\ UNCHANGED reporter
    BY <1>3
  <2>2. /\ books' \in Books /\ books'.pending = None
        /\ \A c \in Conversions : books'.billed[c] >= 0 /\ (books'.billed[c] = 0 => books'.usd[c] = 0)
    BY <1>1, <1>2, <2>1, Finishes
  <2>3. UsageTypeOK'
    BY <1>2, <2>1, <2>2 DEF UsageTypeOK, Books
  <2> QED BY <1>2, <2>1, <2>2, <2>3 DEF LedgerOK, RefundsNetOut, RunsOK, Unlocked, RunAt
<1>4. CASE ~ (m.amount <= 0) /\ enclosed
  <2>1. Move(r, "send", m) /\ UNCHANGED books
    BY <1>4
  <2>2. /\ reporter' \in [Reporters -> Runs] /\ reporter'[r].at = "send" /\ reporter'[r].report = m
        /\ \A s \in Reporters : s # r => reporter'[s] = reporter[s]
    BY <1>1, <2>1, Moved DEF Move
  <2>3. UsageTypeOK'
    BY <1>2, <2>1, <2>2 DEF UsageTypeOK, Runs
  <2>4. m.amount > 0
    BY <1>1, <1>4 DEF Reports
  <2>5. RunsOK'
    BY <1>1, <1>2, <1>4, <2>1, <2>2, <2>4 DEF RunsOK, Unlocked, RunAt, Netted, UsageTypeOK, Marks
  <2> QED BY <1>2, <2>1, <2>3, <2>5 DEF LedgerOK, RefundsNetOut
<1>5. CASE ~ (m.amount <= 0) /\ ~ enclosed
  <2> PICK f : f = Frozen(m)
    OBVIOUS
  <2> DEFINE i == Inserted(books, m)
  <2>1. Move(r, "send", f) /\ books' = [i EXCEPT !.pending = f]
    BY <1>5
  <2>2. /\ f \in Reports /\ f.billed = Nothing /\ f.usd = Nothing
        /\ f.amount = m.amount /\ f.carry = m.carry /\ f.ident = m.ident
    BY <1>1, Freezes
  <2>3. /\ reporter' \in [Reporters -> Runs] /\ reporter'[r].at = "send" /\ reporter'[r].report = f
        /\ \A s \in Reporters : s # r => reporter'[s] = reporter[s]
    BY <2>1, <2>2, Moved DEF Move
  <2>4. /\ i.billed \in Amounts /\ i.usd \in Amounts /\ i.rows \subseteq Conversions
        /\ i = [billed |-> i.billed, usd |-> i.usd, rows |-> i.rows, old |-> books.old,
                   carry |-> books.carry, mark |-> books.mark, pending |-> books.pending]
        /\ \A c \in Conversions : i.billed[c] >= 0 /\ (i.billed[c] = 0 => i.usd[c] = 0)
    BY <1>1, Inserts
  <2> HIDE DEF i
  <2>5. books' = [billed |-> i.billed, usd |-> i.usd, rows |-> i.rows, old |-> books.old,
                  carry |-> books.carry, mark |-> books.mark, pending |-> f]
    BY <2>1, <2>4
  <2>6. UsageTypeOK'
    <3>1. books' \in Books
      BY <2>2, <2>4, <2>5 DEF Books, UsageTypeOK
    <3> QED BY <1>2, <2>3, <3>1 DEF UsageTypeOK, Runs, Books
  <2>7. m.amount > 0
    BY <1>1, <1>5 DEF Reports
  <2>8. LedgerOK' /\ RefundsNetOut'
    BY <1>1, <1>2, <1>5, <2>2, <2>4, <2>5, <2>7 DEF LedgerOK, RefundsNetOut
  <2>9. Netted(books, f)'
    <3>1. /\ books'.billed \in Amounts /\ books'.usd \in Amounts
      BY <2>4, <2>5
    <3> QED BY <2>2, <2>4, <2>5, <3>1 DEF Netted, Nothing, Amounts
  <2>10. RunsOK'
    BY <1>2, <1>5, <2>2, <2>3, <2>5, <2>9 DEF RunsOK, Unlocked, RunAt
  <2> QED BY <2>6, <2>8, <2>10
<1> QED BY <1>3, <1>4, <1>5 DEF UsageTypeOK

\* Every step keeps the ledger and the runs as they should be.
LEMMA UsageStep == UsageInv /\ [UsageNext]_usageVars => UsageInv'
<1> SUFFICES ASSUME UsageInv, [UsageNext]_usageVars PROVE UsageInv'
  OBVIOUS
<1> USE DEF UsageInv
<1>1. ASSUME NEW r \in Reporters, Read(r) PROVE UsageInv'
  BY <1>1, ReadStep
<1>2. ASSUME NEW r \in Reporters, Resend(r) PROVE UsageInv'
  <2>1. /\ Unlocked /\ books.pending # None /\ books.pending \in Reports
        /\ UNCHANGED <<basis, visible, meter, books, enclosed, alerted>>
    BY <1>2 DEF Resend, UsageTypeOK
  <2>2. /\ reporter' \in [Reporters -> Runs] /\ reporter'[r].at = "send" /\ reporter'[r].report = books.pending
        /\ \A s \in Reporters : s # r => reporter'[s] = reporter[s]
    BY <1>2, <2>1, Moved DEF Resend, Move
  <2>3. UsageTypeOK'
    BY <2>1, <2>2 DEF UsageTypeOK, Runs
  <2>4. Netted(books, books.pending)
    BY <2>1, NothingMore DEF LedgerOK
  <2>5. RunsOK'
    BY <2>1, <2>2, <2>4 DEF RunsOK, Unlocked, RunAt, LedgerOK, Netted
  <2> QED BY <2>1, <2>3, <2>5 DEF LedgerOK, RefundsNetOut
<1>3. ASSUME NEW r \in Reporters, Send(r) PROVE UsageInv'
  <2>1. /\ reporter' \in [Reporters -> Runs] /\ reporter'[r].at = "sent" /\ reporter'[r].report = reporter[r].report
        /\ \A s \in Reporters : s # r => reporter'[s] = reporter[s]
        /\ UNCHANGED <<basis, visible, books, enclosed, alerted>>
    BY <1>3 DEF Send, UsageTypeOK, Runs
  <2>2. RunAt(r, "send") /\ reporter[r].report \in Reports
    BY <1>3 DEF Send, RunsOK, RunAt
  <2>3. meter' \in [Marks -> Nat]
    BY <1>3, <2>2 DEF Send, UsageTypeOK, Reports
  <2>4. UsageTypeOK'
    BY <2>1, <2>3 DEF UsageTypeOK, Runs
  <2>5. RunsOK'
    BY <2>1, <2>2 DEF RunsOK, RunAt, Netted
  <2> QED BY <2>1, <2>4, <2>5 DEF LedgerOK, RefundsNetOut
<1>4. ASSUME NEW r \in Reporters, Finish(r) PROVE UsageInv'
  <2> DEFINE m == reporter[r].report
  <2>1. /\ RunAt(r, "sent") /\ books' = Finished(Inserted(books, m), m) /\ Leave(r)
        /\ UNCHANGED <<basis, visible, meter, enclosed, alerted>>
    BY <1>4 DEF Finish
  <2>2. m \in Reports /\ Netted(books, m) /\ m.ident < MaxReports
    BY <2>1, UsageAssumption DEF RunsOK, RunAt, LedgerOK
  <2>3. /\ books' \in Books /\ books'.pending = None
        /\ \A c \in Conversions : books'.billed[c] >= 0 /\ (books'.billed[c] = 0 => books'.usd[c] = 0)
    BY <2>1, <2>2, Finishes
  <2>4. /\ reporter' \in [Reporters -> Runs] /\ reporter'[r].at = "idle"
        /\ \A s \in Reporters : s # r => reporter'[s] = reporter[s]
    BY <2>1, Moved DEF Leave, Away
  <2>5. UsageTypeOK'
    BY <2>1, <2>3, <2>4 DEF UsageTypeOK, Runs, Books
  <2>6. \A s \in Reporters : reporter'[s].at = "idle"
    BY <2>1, <2>4 DEF RunsOK, RunAt
  <2> QED BY <2>3, <2>5, <2>6 DEF RunsOK, RunAt, LedgerOK, RefundsNetOut
<1>5. ASSUME NEW r \in Reporters, Fail(r) PROVE UsageInv'
  <2>1. /\ reporter' \in [Reporters -> Runs] /\ reporter'[r].at = "idle"
        /\ \A s \in Reporters : s # r => reporter'[s] = reporter[s]
        /\ UNCHANGED <<basis, visible, books, meter, enclosed, alerted>>
    BY <1>5, Moved DEF Fail, Leave, Away
  <2>2. UsageTypeOK'
    BY <2>1 DEF UsageTypeOK, Runs
  <2>3. RunsOK'
    BY <2>1 DEF RunsOK, RunAt, Netted
  <2> QED BY <2>1, <2>2, <2>3 DEF LedgerOK, RefundsNetOut
<1>6. CASE Abandon
  <2> DEFINE m == books.pending
  <2>1. /\ Unlocked /\ m \in Reports /\ m.ident = books.mark /\ books.mark < MaxReports
        /\ books' = Finished(books, m) /\ alerted' = TRUE
        /\ UNCHANGED <<basis, visible, meter, reporter, enclosed>>
    BY <1>6 DEF Abandon, UsageTypeOK, LedgerOK
  <2>2. books' = [billed |-> books.billed, usd |-> books.usd, rows |-> books.rows, old |-> m.old,
                  carry |-> m.carry, mark |-> m.ident + 1, pending |-> None]
    <3>1. books = [billed |-> books.billed, usd |-> books.usd, rows |-> books.rows, old |-> books.old,
                   carry |-> books.carry, mark |-> books.mark, pending |-> books.pending]
      BY DEF UsageTypeOK
    <3> QED BY <2>1, <3>1 DEF Finished
  <2>3. books' \in Books
    <3>1. m.ident + 1 \in Marks /\ m.old \subseteq Conversions /\ m.carry \in Int
      <4>1. MaxReports \in Nat
        BY UsageAssumption
      <4> QED BY <2>1, <4>1 DEF Marks, Reports
    <3> QED BY <2>2, <3>1 DEF Books, UsageTypeOK
  <2>4. UsageTypeOK'
    BY <2>1, <2>3 DEF UsageTypeOK, Books
  <2> QED BY <2>1, <2>2, <2>4 DEF LedgerOK, RefundsNetOut, RunsOK, Unlocked, RunAt
<1>7. CASE Contract
  <2>1. PICK old \in SUBSET visible : books' = [books EXCEPT !.mark = @ + 1, !.old = old, !.pending = None]
    BY <1>7 DEF Contract
  <2>2. /\ books.mark < MaxReports /\ (enclosed \/ Unlocked) /\ alerted' \in BOOLEAN
        /\ UNCHANGED <<basis, visible, meter, reporter, enclosed>>
    BY <1>7 DEF Contract, UsageTypeOK
  <2>3. books' = [billed |-> books.billed, usd |-> books.usd, rows |-> books.rows, old |-> old,
                  carry |-> books.carry, mark |-> books.mark + 1, pending |-> None]
    BY <2>1 DEF UsageTypeOK
  <2>4. books' \in Books
    <3>1. books.mark + 1 \in Marks /\ old \subseteq Conversions
      <4>1. MaxReports \in Nat
        BY UsageAssumption
      <4> QED BY <2>2, <4>1 DEF Marks, UsageTypeOK
    <3> QED BY <2>3, <3>1 DEF Books, UsageTypeOK
  <2>5. UsageTypeOK'
    BY <2>2, <2>4 DEF UsageTypeOK, Books
  <2>6. RunsOK'
    BY <2>2, <2>3 DEF RunsOK, Unlocked, RunAt, Netted, UsageTypeOK, Marks, Reports
  <2> QED BY <2>3, <2>5, <2>6 DEF LedgerOK, RefundsNetOut
<1>8. ASSUME NEW c \in Conversions, Revise(c) PROVE UsageInv'
  <2>1. UsageTypeOK'
    BY <1>8 DEF Revise, UsageTypeOK
  <2> QED BY <1>8, <2>1 DEF Revise, LedgerOK, RefundsNetOut, RunsOK, RunAt, Netted
<1>9. CASE UNCHANGED usageVars
  BY <1>9 DEF usageVars, UsageTypeOK, LedgerOK, RefundsNetOut, RunsOK, RunAt, Netted
<1> QED BY <1>1, <1>2, <1>3, <1>4, <1>5, <1>6, <1>7, <1>8, <1>9 DEF UsageNext

LEMMA UsageHolds == UsageSpec => []UsageInv
<1> QED BY UsageStart, UsageStep, PTL DEF UsageSpec

-----------------------------------------------------------------------------
(* What was metered.                                                          *)

\* What f holds up to k.
Taken(f, k) == SumFunctionOnSet(f, 0..(k - 1))
Blank(f, k) == \A j \in Marks : j >= k => f[j] = 0

LEMMA MarksAre == MaxReports \in Nat /\ \A k \in Marks : k \in Int /\ 0 <= k /\ k <= MaxReports
<1>1. MaxReports \in Nat
  BY UsageAssumption
<1> QED BY <1>1 DEF Marks

\* Nothing was taken in the period that follows, nor in a later one.
LEMMA BlankAfter ==
  ASSUME NEW f, NEW k \in Marks, k < MaxReports, Blank(f, k + 1)
  PROVE  Blank(f, (k + 1) + 1) /\ f[k + 1] = 0
<1>1. MaxReports \in Nat /\ k \in Int /\ 0 <= k /\ k + 1 \in Marks
  BY MarksAre DEF Marks
<1>2. \A j \in Marks : j \in Int
  BY MarksAre
<1> QED BY <1>1, <1>2 DEF Blank

\* One more period adds what was taken in it, a later one changes nothing, and
\* periods in which nothing was taken do not count.
LEMMA TakenIs ==
  ASSUME NEW f \in [Marks -> Nat], NEW k \in Marks
  PROVE  /\ Taken(f, k) \in Int
         /\ Taken(f, k + 1) = Taken(f, k) + f[k]
         /\ \A g \in [Marks -> Nat] : (\A j \in Marks : j < k => g[j] = f[j]) => Taken(g, k) = Taken(f, k)
         /\ \A l \in Marks : l <= k /\ Blank(f, l) => Taken(f, k) = Taken(f, l)
<1> DEFINE S == 0..k
           T == 0..(k - 1)
<1>0. k \in Nat /\ S \subseteq Marks /\ T = S \ {k} /\ k \in S
  BY MarksAre DEF Marks
<1>1. IsFiniteSet(S) /\ IsFiniteSet(T)
  BY <1>0, FS_Interval
<1>2. IntOn(f, S) /\ IntOn(f, T)
  BY <1>0 DEF IntOn
<1>3. Taken(f, k) \in Int
  BY <1>1, <1>2, SumType DEF Taken
<1>4. Taken(f, k + 1) = Taken(f, k) + f[k]
  <2>1. SumFunctionOnSet(f, S) = f[k] + SumFunctionOnSet(f, T)
    BY <1>0, <1>1, <1>2, SumTake
  <2>2. 0..((k + 1) - 1) = S
    BY <1>0
  <2>3. f[k] \in Int /\ SumFunctionOnSet(f, T) \in Int
    BY <1>0, <1>3 DEF Taken
  <2> QED BY <2>1, <2>2, <2>3 DEF Taken
<1>5. ASSUME NEW g \in [Marks -> Nat], \A j \in Marks : j < k => g[j] = f[j]
      PROVE  Taken(g, k) = Taken(f, k)
  <2>1. \A j \in T : f[j] = g[j]
    BY <1>0, <1>5
  <2> QED BY <1>1, <1>2, <2>1, SumSame DEF Taken
<1>6. ASSUME NEW l \in Marks, l <= k, Blank(f, l)
      PROVE  Taken(f, k) = Taken(f, l)
  <2> DEFINE U == 0..(l - 1)
  <2>1. U \in SUBSET T
    BY <1>0, <1>6, MarksAre
  <2>2. \A j \in T \ U : f[j] = 0
    BY <1>0, <1>6, MarksAre DEF Blank
  <2> QED BY <1>1, <1>2, <2>1, <2>2, SumDrops DEF Taken
<1> QED BY <1>3, <1>4, <1>5, <1>6

\* Stripe has an event of which nothing is left in the ledger: the transaction
\* the run was called in failed after Stripe took it.
Unbooked == Unlocked /\ books.pending = None /\ meter[books.mark] # 0

\* What the code relies on in its caller's transaction, where the frozen report
\* of usage-billing.ts:458-461 is a savepoint that goes with it: the next run
\* comes to the amount that Stripe took, before the mark moves, and no mark moves
\* under the run that is lost. (A revision or a contract in between breaks it:
\* run meter.) Of a run that was called directly it says nothing.
Repeats ==
  enclosed =>
    /\ Unbooked =>
         /\ books'.mark = books.mark
         /\ \A r \in Reporters :
              reporter'[r].at = "send" => reporter'[r].report.amount = meter[books.mark]
    /\ \A r \in Reporters :
         Fail(r) /\ meter[reporter[r].report.ident] # 0 => reporter[r].report.ident = books.mark

\* Between two runs the books balance, and what Stripe took beyond them is of the
\* period that is open; a report that is frozen is in the ledger before the meter
\* has it; one that runs in its caller's transaction is not.
Settled ==
  books.pending = None /\ Unlocked =>
    /\ SumFunction(books.usd) = Taken(meter, books.mark) + books.carry
    /\ Blank(meter, books.mark + 1)
    /\ ~ enclosed => meter[books.mark] = 0
Pending ==
  LET m == books.pending IN
  m # None =>
    /\ SumFunction(books.usd) = Taken(meter, books.mark) + m.amount + m.carry
    /\ meter[books.mark] \in {0, m.amount} /\ Blank(meter, books.mark + 1)
Running ==
  \A r \in Reporters :
    LET m == reporter[r].report IN
    /\ RunAt(r, "sent") => meter[m.ident] = m.amount
    /\ enclosed /\ ~ RunAt(r, "idle") =>
         /\ SumFunction(books.usd) = Taken(meter, m.ident) + books.carry
         /\ SumFunction(m.usd) + books.carry = m.amount + m.carry
         /\ Blank(meter, m.ident + 1)
         /\ RunAt(r, "send") => meter[m.ident] \in {0, m.amount}
MeterInv == ~ alerted => Settled /\ Pending /\ Running

\* The sums are numbers.
LEMMA SumsAre ==
  ASSUME UsageTypeOK
  PROVE  /\ SumFunction(books.usd) \in Int /\ books.carry \in Int /\ books.mark \in Marks
         /\ meter \in [Marks -> Nat] /\ Taken(meter, books.mark) \in Int
         /\ \A m \in Reports : /\ SumFunction(m.usd) \in Int /\ m.amount \in Int /\ m.carry \in Int
                               /\ m.ident \in Marks /\ Taken(meter, m.ident) \in Int
<1>1. books.usd \in Amounts /\ books.carry \in Int /\ books.mark \in Marks /\ meter \in [Marks -> Nat]
  BY DEF UsageTypeOK
<1>2. \A m \in Reports : m.usd \in Amounts /\ m.amount \in Int /\ m.carry \in Int /\ m.ident \in Marks
  BY DEF Reports
<1> QED BY <1>1, <1>2, SumsInt, TakenIs

LEMMA MeterStart == UsageInit => MeterInv
<1> SUFFICES ASSUME UsageInit PROVE Settled /\ Pending /\ Running
  BY DEF MeterInv
<1>1. /\ books.usd = Nothing /\ books.carry = 0 /\ books.mark = 0 /\ books.pending = None
      /\ meter = [m \in Marks |-> 0] /\ \A r \in Reporters : RunAt(r, "idle")
  BY DEF UsageInit, RunAt, Away
<1>2. 0..(0 - 1) = {}
  OBVIOUS
<1>3. Taken(meter, 0) = 0
  BY <1>2, SumEmpty DEF Taken
<1>4. Blank(meter, 1) /\ meter[0] = 0
  BY <1>1, UsageAssumption DEF Blank, Marks
<1>5. Settled
  BY <1>1, <1>3, <1>4, NothingIs DEF Settled
<1>6. Running
  BY <1>1 DEF Running, RunAt
<1> QED BY <1>1, <1>5, <1>6 DEF Pending

\* A report that is read is settled at once, or frozen, or not in the ledger yet.
LEMMA MeterRead ==
  ASSUME UsageInv, MeterInv, Repeats, ~ alerted, NEW r \in Reporters, Read(r)
  PROVE  Settled' /\ Pending' /\ Running'
<1> PICK rate \in [Conversions -> Rates], old \in SUBSET visible :
      LET m == ReportNow(rate, old) IN
       /\ books.old \subseteq old
       /\ IF m.amount <= 0
          THEN books' = Finished(Inserted(books, m), m) /\ UNCHANGED reporter
          ELSE IF enclosed
               THEN Move(r, "send", m) /\ UNCHANGED books
               ELSE Move(r, "send", Frozen(m)) /\ books' = [Inserted(books, m) EXCEPT !.pending = Frozen(m)]
  BY DEF Read
<1> PICK m : m = ReportNow(rate, old)
  OBVIOUS
<1> USE DEF UsageInv
<1>1. /\ m \in Reports /\ m.ident = books.mark /\ Netted(books, m)
      /\ SumFunction(m.usd) + books.carry = m.amount + m.carry
      /\ m.amount <= 0 => m.amount = 0
  BY Reported
<1>2. /\ Unlocked /\ books.mark < MaxReports /\ books.pending = None
      /\ UNCHANGED <<meter, enclosed>>
  BY DEF Read
<1>3. /\ SumFunction(books.usd) = Taken(meter, books.mark) + books.carry
      /\ Taken(meter, books.mark + 1) = Taken(meter, books.mark) + meter[books.mark]
      /\ meter[books.mark] \in Nat /\ Blank(meter, books.mark + 1)
      /\ ~ enclosed => meter[books.mark] = 0
  <2>1. /\ SumFunction(books.usd) = Taken(meter, books.mark) + books.carry
        /\ Blank(meter, books.mark + 1) /\ (~ enclosed => meter[books.mark] = 0)
    BY <1>2 DEF MeterInv, Settled
  <2> QED BY <2>1, SumsAre, TakenIs
<1>4. /\ SumFunction(books.usd) \in Int /\ books.carry \in Int /\ Taken(meter, books.mark) \in Int
      /\ SumFunction(m.usd) \in Int /\ m.amount \in Int /\ m.carry \in Int
  BY <1>1, SumsAre
<1>5. CASE m.amount <= 0
  <2>1. books' = Finished(Inserted(books, m), m) /\ UNCHANGED reporter
    BY <1>5
  <2>2. /\ books'.pending = None /\ books'.carry = m.carry /\ books'.mark = books.mark + 1
        /\ SumFunction(books'.usd) = SumFunction(books.usd) + SumFunction(m.usd)
    BY <1>1, <1>2, <2>1, Finishes
  <2>3. meter[books.mark] = 0
    BY <1>2, <1>3, <2>2, SumsAre DEF Repeats, Unbooked, Marks
  <2>4. SumFunction(books'.usd) = Taken(meter, books.mark + 1) + m.carry
    BY <1>1, <1>3, <1>4, <1>5, <2>2, <2>3
  <2>5. Blank(meter, (books.mark + 1) + 1) /\ meter[books.mark + 1] = 0
    BY <1>2, <1>3, BlankAfter DEF UsageTypeOK
  <2>6. Settled'
    BY <1>2, <1>3, <2>2, <2>4, <2>5, SumsAre, MarksAre DEF Settled
  <2> QED BY <1>2, <2>1, <2>2, <2>6 DEF Pending, Running, Unlocked, RunAt
<1>6. CASE ~ (m.amount <= 0) /\ enclosed
  <2>1. Move(r, "send", m) /\ UNCHANGED books
    BY <1>6
  <2>2. /\ reporter'[r].at = "send" /\ reporter'[r].report = m
        /\ \A s \in Reporters : s # r => reporter'[s] = reporter[s]
    BY <1>1, <2>1, Moved DEF Move
  <2>3. meter[books.mark] \in {0, m.amount}
    BY <1>2, <1>6, <2>2 DEF Repeats, Unbooked
  <2>4. Running'
    BY <1>1, <1>2, <1>3, <2>1, <2>2, <2>3 DEF Running, Unlocked, RunAt
  <2>5. ~ Unlocked'
    BY <2>2 DEF Unlocked, RunAt
  <2> QED BY <1>2, <2>1, <2>4, <2>5 DEF Settled, Pending
<1>7. CASE ~ (m.amount <= 0) /\ ~ enclosed
  <2> PICK f : f = Frozen(m)
    OBVIOUS
  <2> DEFINE i == Inserted(books, m)
  <2>1. Move(r, "send", f) /\ books' = [i EXCEPT !.pending = f]
    BY <1>7
  <2>2. f \in Reports /\ f.amount = m.amount /\ f.carry = m.carry /\ f.ident = m.ident
    BY <1>1, Freezes
  <2>3. /\ reporter'[r].at = "send" /\ reporter'[r].report = f
        /\ \A s \in Reporters : s # r => reporter'[s] = reporter[s]
    BY <2>1, <2>2, Moved DEF Move
  <2>4. /\ i = [billed |-> i.billed, usd |-> i.usd, rows |-> i.rows, old |-> books.old,
                carry |-> books.carry, mark |-> books.mark, pending |-> books.pending]
        /\ SumFunction(i.usd) = SumFunction(books.usd) + SumFunction(m.usd)
    BY <1>1, Inserts
  <2> HIDE DEF i
  <2>5. books'.pending = f /\ books'.usd = i.usd /\ books'.mark = books.mark
    BY <2>1, <2>4
  <2>6. SumFunction(books'.usd) = Taken(meter, books.mark) + m.amount + m.carry
    BY <1>1, <1>3, <1>4, <2>4, <2>5
  <2>7. Pending'
    BY <1>2, <1>3, <1>7, <2>2, <2>5, <2>6 DEF Pending
  <2>8. f # None
    BY <2>2, UsageAssumption
  <2>9. Running'
    BY <1>2, <1>7, <2>3 DEF Running, Unlocked, RunAt
  <2> QED BY <2>5, <2>7, <2>8, <2>9 DEF Settled
<1> QED BY <1>5, <1>6, <1>7 DEF UsageTypeOK

\* Stripe takes it, or took it before: either way it has what the report says.
LEMMA MeterSend ==
  ASSUME UsageInv, MeterInv, ~ alerted, NEW r \in Reporters, Send(r)
  PROVE  Settled' /\ Pending' /\ Running'
<1> USE DEF UsageInv
<1> PICK m : m = reporter[r].report
  OBVIOUS
<1>1. /\ RunAt(r, "send") /\ UNCHANGED <<books, enclosed>>
      /\ meter' = IF meter[m.ident] = 0 THEN [meter EXCEPT ![m.ident] = m.amount] ELSE meter
  BY DEF Send
<1>2. /\ reporter'[r].at = "sent" /\ reporter'[r].report = m
      /\ \A s \in Reporters : s # r => reporter'[s] = reporter[s] /\ reporter[s].at = "idle"
  BY <1>1 DEF Send, UsageTypeOK, Runs, RunsOK, RunAt
<1>3. /\ m \in Reports /\ m.amount > 0 /\ m.ident \in Marks /\ m.amount \in Nat
      /\ enclosed => /\ books.pending = None
                     /\ SumFunction(books.usd) = Taken(meter, m.ident) + books.carry
                     /\ SumFunction(m.usd) + books.carry = m.amount + m.carry
                     /\ Blank(meter, m.ident + 1) /\ meter[m.ident] \in {0, m.amount}
      /\ ~ enclosed => m = books.pending /\ m # None /\ m.ident = books.mark
  BY <1>1, UsageAssumption DEF RunsOK, RunAt, LedgerOK, MeterInv, Running, Reports
<1>4. ~ enclosed => /\ SumFunction(books.usd) = Taken(meter, m.ident) + m.amount + m.carry
                    /\ meter[m.ident] \in {0, m.amount} /\ Blank(meter, m.ident + 1)
  BY <1>3 DEF MeterInv, Pending
<1>5. meter \in [Marks -> Nat]
  BY SumsAre
<1>6. /\ meter' \in [Marks -> Nat] /\ meter'[m.ident] = m.amount
      /\ \A j \in Marks : j # m.ident => meter'[j] = meter[j]
  <2>1. meter[m.ident] \in {0, m.amount}
    BY <1>3, <1>4
  <2> QED BY <1>1, <1>3, <1>5, <2>1
<1>7. Taken(meter', m.ident) = Taken(meter, m.ident) /\ Blank(meter', m.ident + 1)
  <2>1. Blank(meter, m.ident + 1)
    BY <1>3, <1>4
  <2>2. Blank(meter', m.ident + 1)
    BY <1>3, <1>6, <2>1, MarksAre DEF Blank
  <2>3. \A j \in Marks : j < m.ident => meter'[j] = meter[j]
    BY <1>3, <1>6, MarksAre
  <2> QED BY <1>3, <1>5, <1>6, <2>2, <2>3, TakenIs
<1>8. ~ Unlocked'
  BY <1>2 DEF Unlocked, RunAt
<1>9. Pending'
  BY <1>1, <1>3, <1>4, <1>6, <1>7 DEF Pending
<1>10. Running'
  BY <1>1, <1>2, <1>3, <1>6, <1>7 DEF Running, RunAt
<1> QED BY <1>8, <1>9, <1>10 DEF Settled

\* The mark moves over a period that was metered.
LEMMA MeterFinish ==
  ASSUME UsageInv, MeterInv, ~ alerted, NEW r \in Reporters, Finish(r)
  PROVE  Settled' /\ Pending' /\ Running'
<1> USE DEF UsageInv
<1> PICK m : m = reporter[r].report
  OBVIOUS
<1>1. /\ RunAt(r, "sent") /\ books' = Finished(Inserted(books, m), m) /\ Leave(r)
      /\ UNCHANGED <<meter, enclosed>>
  BY DEF Finish
<1>2. m \in Reports /\ Netted(books, m) /\ m.ident < MaxReports /\ m.ident \in Marks
  BY <1>1, UsageAssumption DEF RunsOK, RunAt, LedgerOK, Reports
<1>3. /\ books'.pending = None /\ books'.carry = m.carry /\ books'.mark = m.ident + 1
      /\ SumFunction(books'.usd) = SumFunction(books.usd) + SumFunction(m.usd)
  BY <1>1, <1>2, Finishes
<1>4. \A s \in Reporters : reporter'[s].at = "idle"
  <2>1. /\ reporter'[r].at = "idle" /\ \A s \in Reporters : s # r => reporter'[s] = reporter[s]
    BY <1>1, Moved DEF Leave, Away
  <2> QED BY <1>1, <2>1 DEF RunsOK, RunAt
<1>5. /\ SumFunction(books.usd) \in Int /\ books.carry \in Int /\ Taken(meter, m.ident) \in Int
      /\ SumFunction(m.usd) \in Int /\ m.amount \in Int /\ m.carry \in Int
  BY <1>2, SumsAre
<1>6. Taken(meter, m.ident + 1) = Taken(meter, m.ident) + m.amount
  <2>1. meter[m.ident] = m.amount
    BY <1>1 DEF MeterInv, Running
  <2> QED BY <1>2, <2>1, SumsAre, TakenIs
<1>7. SumFunction(books'.usd) = Taken(meter, m.ident + 1) + m.carry /\ Blank(meter, m.ident + 1)
  <2>1. CASE enclosed
    <3>1. /\ SumFunction(books.usd) = Taken(meter, m.ident) + books.carry
          /\ SumFunction(m.usd) + books.carry = m.amount + m.carry
          /\ Blank(meter, m.ident + 1)
      BY <1>1, <2>1 DEF MeterInv, Running, RunAt
    <3> QED BY <1>3, <1>5, <1>6, <3>1
  <2>2. CASE ~ enclosed
    <3>1. m = books.pending /\ m # None /\ m.ident = books.mark /\ m.usd = Nothing
      BY <1>1, <1>2, <2>2, UsageAssumption DEF RunsOK, RunAt, LedgerOK
    <3>2. /\ SumFunction(books.usd) = Taken(meter, m.ident) + m.amount + m.carry
          /\ Blank(meter, m.ident + 1)
      BY <3>1 DEF MeterInv, Pending
    <3>3. SumFunction(m.usd) = 0
      BY <3>1, NothingIs
    <3> QED BY <1>3, <1>5, <1>6, <3>2, <3>3
  <2> QED BY <2>1, <2>2
<1>8. Blank(meter, (m.ident + 1) + 1) /\ meter[m.ident + 1] = 0
  BY <1>2, <1>7, BlankAfter
<1>9. Settled'
  BY <1>1, <1>3, <1>7, <1>8 DEF Settled
<1> QED BY <1>3, <1>4, <1>9 DEF Pending, Running, RunAt

\* A run that is over left the ledger as it was, or a frozen report in it.
LEMMA MeterFail ==
  ASSUME UsageInv, MeterInv, Repeats, ~ alerted, NEW r \in Reporters, Fail(r)
  PROVE  Settled' /\ Pending' /\ Running'
<1> USE DEF UsageInv
<1> PICK m : m = reporter[r].report
  OBVIOUS
<1>1. ~ RunAt(r, "idle") /\ Leave(r) /\ UNCHANGED <<books, meter, enclosed>>
  BY DEF Fail
<1>2. \A s \in Reporters : reporter'[s].at = "idle"
  <2>1. /\ reporter'[r].at = "idle" /\ \A s \in Reporters : s # r => reporter'[s] = reporter[s]
    BY <1>1, Moved DEF Leave, Away
  <2> QED BY <1>1, <2>1 DEF RunsOK, RunAt
<1>3. m \in Reports /\ m.ident \in Marks /\ (enclosed => m.ident <= books.mark)
  BY <1>1 DEF RunsOK, Reports
<1>4. enclosed => /\ SumFunction(books.usd) = Taken(meter, books.mark) + books.carry
                  /\ Blank(meter, books.mark + 1)
  <2> SUFFICES ASSUME enclosed
               PROVE  /\ SumFunction(books.usd) = Taken(meter, books.mark) + books.carry
                      /\ Blank(meter, books.mark + 1)
    OBVIOUS
  <2>1. /\ SumFunction(books.usd) = Taken(meter, m.ident) + books.carry
        /\ Blank(meter, m.ident + 1)
    BY <1>1 DEF MeterInv, Running
  <2>2. CASE m.ident = books.mark
    BY <2>1, <2>2
  <2>3. CASE m.ident # books.mark
    <3>1. meter[m.ident] = 0
      BY <2>3 DEF Repeats
    <3>2. Blank(meter, m.ident)
      BY <1>3, <2>1, <3>1, MarksAre DEF Blank
    <3>3. Blank(meter, books.mark + 1)
      BY <1>3, <3>2, SumsAre, MarksAre DEF Blank
    <3>4. Taken(meter, books.mark) = Taken(meter, m.ident)
      BY <1>3, <3>2, SumsAre, TakenIs
    <3> QED BY <2>1, <3>3, <3>4
  <2> QED BY <2>2, <2>3
<1>5. ~ enclosed => books.pending # None
  BY <1>1, <1>3, UsageAssumption DEF RunsOK
<1>6. Settled'
  BY <1>1, <1>4, <1>5 DEF Settled
<1>7. Pending'
  BY <1>1 DEF MeterInv, Pending
<1> QED BY <1>2, <1>6, <1>7 DEF Running, RunAt

\* The mark moves over a period in which nothing was taken.
LEMMA MeterContract ==
  ASSUME UsageInv, MeterInv, Repeats, ~ alerted', Contract
  PROVE  Settled' /\ Pending' /\ Running'
<1> USE DEF UsageInv
<1>1. ~ alerted /\ books.pending = None
  BY DEF Contract
<1>2. PICK old \in SUBSET visible : books' = [books EXCEPT !.mark = @ + 1, !.old = old, !.pending = None]
  BY DEF Contract
<1>3. /\ books.mark < MaxReports /\ (enclosed \/ Unlocked)
      /\ UNCHANGED <<meter, reporter, enclosed>>
  BY DEF Contract
<1>4. /\ books'.usd = books.usd /\ books'.carry = books.carry
      /\ books'.mark = books.mark + 1 /\ books'.pending = None
  BY <1>2 DEF UsageTypeOK
<1>5. Settled'
  <2> SUFFICES ASSUME Unlocked
               PROVE  /\ SumFunction(books.usd) = Taken(meter, books.mark + 1) + books.carry
                      /\ Blank(meter, (books.mark + 1) + 1)
                      /\ meter[books.mark + 1] = 0
    BY <1>3, <1>4 DEF Settled, Unlocked, RunAt
  <2>1. /\ SumFunction(books.usd) = Taken(meter, books.mark) + books.carry
        /\ Blank(meter, books.mark + 1) /\ (~ enclosed => meter[books.mark] = 0)
    BY <1>1 DEF MeterInv, Settled
  <2>2. meter[books.mark] = 0
    BY <1>1, <1>4, <2>1, SumsAre DEF Repeats, Unbooked, Marks
  <2>3. Blank(meter, (books.mark + 1) + 1) /\ meter[books.mark + 1] = 0
    BY <1>3, <2>1, BlankAfter DEF UsageTypeOK
  <2>4. Taken(meter, books.mark + 1) = Taken(meter, books.mark)
    BY <2>1, <2>2, SumsAre, TakenIs
  <2> QED BY <2>1, <2>3, <2>4
<1>6. Running'
  BY <1>1, <1>3, <1>4 DEF MeterInv, Running, RunAt
<1> QED BY <1>4, <1>5, <1>6 DEF Pending

LEMMA MeterStep ==
  ASSUME UsageInv, MeterInv, [Repeats]_usageVars, [UsageNext]_usageVars
  PROVE  MeterInv'
<1>0. CASE UNCHANGED usageVars
  BY <1>0 DEF usageVars, MeterInv, Settled, Pending, Running, Unlocked, RunAt
<1> SUFFICES ASSUME Repeats, UsageNext, ~ alerted' PROVE Settled' /\ Pending' /\ Running'
  BY <1>0 DEF MeterInv
<1>1. ASSUME NEW r \in Reporters, Read(r) \/ Send(r) \/ Finish(r) \/ Fail(r)
      PROVE  Settled' /\ Pending' /\ Running'
  <2>1. ~ alerted
    BY <1>1 DEF Read, Send, Finish, Fail
  <2> QED BY <1>1, <2>1, MeterRead, MeterSend, MeterFinish, MeterFail
<1>2. ASSUME NEW r \in Reporters, Resend(r)
      PROVE  Settled' /\ Pending' /\ Running'
  <2>1. /\ ~ alerted /\ Unlocked /\ books.pending # None /\ books.pending \in Reports
        /\ ~ enclosed /\ UNCHANGED <<meter, books, enclosed>>
    BY <1>2 DEF Resend, UsageInv, UsageTypeOK, LedgerOK
  <2>2. /\ reporter'[r].at = "send" /\ \A s \in Reporters : s # r => reporter'[s] = reporter[s]
    BY <1>2, <2>1, Moved DEF Resend, Move, UsageInv
  <2>3. Running'
    BY <2>1, <2>2 DEF Running, Unlocked, RunAt
  <2> QED BY <2>1, <2>3 DEF Settled, Pending, MeterInv
<1>3. CASE Abandon
  BY <1>3 DEF Abandon
<1>4. CASE Contract
  BY <1>4, MeterContract
<1>5. CASE \E c \in Conversions : Revise(c)
  BY <1>5 DEF Revise, MeterInv, Settled, Pending, Running, Unlocked, RunAt
<1> QED BY <1>1, <1>2, <1>3, <1>4, <1>5 DEF UsageNext

-----------------------------------------------------------------------------
(* What the runs check.                                                       *)

\* What a report leaves in the ledger is a number for each conversion, and a run
\* has a report of its own only while it is under way.
THEOREM UsageTypes == UsageSpec => []UsageTypeOK
<1>1. UsageInv => UsageTypeOK
  BY DEF UsageInv
<1> QED BY <1>1, UsageHolds, PTL

\* A conversion that is refunded in full costs nothing (priceDeltas takes a
\* credit out of what is left of it, so that the last one takes the rest).
THEOREM Refunds == UsageSpec => []RefundsNetOut
<1>1. UsageInv => RefundsNetOut
  BY DEF UsageInv
<1> QED BY <1>1, UsageHolds, PTL

\* The ledger says what Stripe metered, exactly once, for any number of
\* conversions, rates, revisions and runs. A run that was called directly may die
\* anywhere, after Stripe took its event too. One in its caller's transaction may
\* as well, if what is computed after it is what Stripe took (Repeats), as the
\* identifier of usage-billing.ts supposes; without that, run meter refutes it.
THEOREM MeterTrue == UsageSpec /\ [][Repeats]_usageVars => []MeterIsTrue
<1>1. UsageInv /\ MeterInv /\ [Repeats]_usageVars /\ [UsageNext]_usageVars => MeterInv'
  BY MeterStep
<1>2. UsageInv /\ MeterInv => MeterIsTrue
  <2> SUFFICES ASSUME UsageInv, MeterInv PROVE MeterIsTrue
    OBVIOUS
  <2>1. books.usd \in Amounts
    BY DEF UsageInv, UsageTypeOK
  <2> QED BY <2>1 DEF MeterIsTrue, MeterInv, Settled, Unlocked, Taken
<1> QED BY <1>1, <1>2, MeterStart, UsageHolds, PTL DEF UsageSpec

=============================================================================
