---------------------------- MODULE RecoveryRequests ----------------------------
(***************************************************************************)
(* The queue of operator recovery requests (apps/api/src/                  *)
(* operator-recovery.ts): one request, the passes that claim, apply and    *)
(* settle it, and the audit marker on its target. What the operator        *)
(* function does to its target is modelled where that target is; here it   *)
(* acts at most once, as its own fences see to, and leaves its marker.     *)
(***************************************************************************)
EXTENDS Naturals, NoValue

CONSTANTS
  Appliers,       \* passes at work at the same time
  MaxAttempts,    \* MAX_APPLY_ATTEMPTS
  MaxRechecks     \* MAX_RECHECK_ATTEMPTS

ASSUME RequestAssumption == None \notin Appliers /\ MaxAttempts \in Nat /\ MaxRechecks \in Nat

VARIABLES
  verdict,    \* OperatorRecoveryRequest.status
  doubt,      \* is the refusal annotated after_interrupted_attempt?
  lease,      \* leaseAt: "null", "held", or past its 15 minutes
  holder,     \* leaseToken
  attempts, rechecks,
  recheck,    \* recheckDueAt: never scheduled, due, or settled
  acted,      \* has the operator function committed for this request?
  marked,     \* does the target still carry this request's marker?
  retried,    \* was a retryable outcome settled after it acted, or on a takeover?
  applier

request == <<verdict, doubt, lease, holder, attempts, rechecks, recheck>>
target == <<acted, marked, retried>>
requestVars == <<request, target, applier>>

Waiting == [pc |-> "idle", takeover |-> FALSE, tries |-> 0]

RequestTypeOK ==
  /\ verdict \in {"pending", "applied", "refused", "failed"}
  /\ lease \in {"null", "held", "expired"} /\ holder \in Appliers \cup {None}
  /\ attempts \in 0..(MaxAttempts + 1) /\ rechecks \in 0..(MaxRechecks + 1)
  /\ recheck \in {"none", "due", "settled"}
  /\ {doubt, acted, marked, retried} \subseteq BOOLEAN
  /\ applier \in [Appliers -> [pc : {"idle", "call", "applied", "retry", "refusal", "marker", "list"},
                               takeover : BOOLEAN, tries : 0..(MaxAttempts + MaxRechecks + 1)]]

RequestInit ==
  /\ verdict = "pending" /\ doubt = FALSE
  /\ lease = "null" /\ holder = None
  /\ attempts = 0 /\ rechecks = 0 /\ recheck = "none"
  /\ acted = FALSE /\ marked = FALSE /\ retried = FALSE
  /\ applier = [a \in Appliers |-> Waiting]

In(a, l) == applier[a].pc = l
Proceed(a, l) == applier' = [applier EXCEPT ![a].pc = l]
GoIdle(a) == applier' = [applier EXCEPT ![a] = Waiting]
Claimable == lease \in {"null", "expired"}
Fenced(a) == holder = a

-----------------------------------------------------------------------------

\* claimRequests: a lease that ran out marks a takeover. (MaxAttempts + 1 bounds
\* the attempts that died: nothing caps those at the claim.)
Claim(a) ==
  /\ In(a, "idle") /\ verdict = "pending" /\ Claimable /\ attempts < MaxAttempts + 1
  /\ lease' = "held" /\ holder' = a /\ attempts' = attempts + 1
  /\ applier' = [applier EXCEPT ![a] = [pc |-> "call", takeover |-> lease # "null", tries |-> attempts + 1]]
  /\ UNCHANGED <<verdict, doubt, rechecks, recheck, target>>

\* The operator function acts, refuses for good, or has to be tried again. It
\* may throw after its transaction committed: that is a retry as well.
Call(a) ==
  /\ In(a, "call")
  /\ \/ /\ ~ acted
        /\ acted' = TRUE /\ marked' = TRUE
        /\ \E l \in {"applied", "retry"} : Proceed(a, l)
     \/ /\ \E l \in {"refusal", "retry"} : Proceed(a, l)
        /\ UNCHANGED <<acted, marked>>
  /\ UNCHANGED <<request, retried>>

\* The rail goes on with the target, and its next write clears the marker.
Overwrite == marked /\ marked' = FALSE /\ UNCHANGED <<request, acted, retried, applier>>

\* Mutant: a ghost settles whatever has been decided since.
SettleUnfenced(a, v, d) ==
  /\ GoIdle(a)
  /\ verdict' = v /\ doubt' = d
  /\ lease' = "null" /\ holder' = None
  /\ recheck' = IF v = "applied" \/ d THEN "due" ELSE recheck
  /\ UNCHANGED <<attempts, rechecks, target>>

\* Mutant: the request is closed without a status.
SettleBlank(a, v, d) ==
  /\ GoIdle(a)
  /\ verdict' = None /\ doubt' = d
  /\ lease' = "null" /\ holder' = None
  /\ UNCHANGED <<attempts, rechecks, recheck, target>>

\* settleTerminal, fenced on the token and on the request still pending.
SettleTerminal(a, v, d) ==
  /\ GoIdle(a)
  /\ IF Fenced(a) /\ verdict = "pending"
     THEN /\ verdict' = v /\ doubt' = d
          /\ lease' = "null" /\ holder' = None
          /\ recheck' = IF v = "applied" \/ d THEN "due" ELSE recheck
     ELSE UNCHANGED <<verdict, doubt, lease, holder, recheck>>
  /\ UNCHANGED <<attempts, rechecks, target>>

Applied(a) == In(a, "applied") /\ SettleTerminal(a, "applied", FALSE)

\* settleRetryable: later, or failed once the attempts are spent.
Retry(a) ==
  /\ In(a, "retry")
  /\ IF applier[a].tries >= MaxAttempts
     THEN SettleTerminal(a, "failed", FALSE)
     ELSE /\ GoIdle(a)
          /\ IF Fenced(a) /\ verdict = "pending"
             THEN lease' = "null" /\ holder' = None /\ retried' = (retried \/ acted \/ applier[a].takeover)
             ELSE UNCHANGED <<lease, holder, retried>>
          /\ UNCHANGED <<verdict, doubt, attempts, rechecks, recheck, acted, marked>>

\* Mutant: a refusal is taken at its word, as on a first attempt.
RefusalIsClean(a) == In(a, "refusal") /\ SettleTerminal(a, "refused", FALSE)

\* A refusal after a takeover is suspect: the marker is read,
Refusal(a) ==
  /\ In(a, "refusal")
  /\ IF applier[a].takeover THEN Proceed(a, "marker") /\ UNCHANGED <<request, target>>
     ELSE SettleTerminal(a, "refused", FALSE)

\* and says that the attempt that died applied it, or that nobody knows.
Marker(a) ==
  /\ In(a, "marker")
  /\ IF marked THEN SettleTerminal(a, "applied", FALSE) ELSE SettleTerminal(a, "refused", TRUE)

\* recheckAppliedRequests, claimed and settled like the request.
ClaimRecheck(a) ==
  /\ In(a, "idle") /\ verdict \in {"applied", "refused"} /\ recheck = "due" /\ Claimable
  /\ rechecks < MaxRechecks + 1
  /\ lease' = "held" /\ holder' = a /\ rechecks' = rechecks + 1
  /\ applier' = [applier EXCEPT ![a] = [pc |-> "list", takeover |-> FALSE, tries |-> rechecks + 1]]
  /\ UNCHANGED <<verdict, doubt, attempts, recheck, target>>

\* It is listed, or could not be; after enough of those a human is told.
Recheck(a) ==
  /\ In(a, "list")
  /\ \E done \in BOOLEAN :
       IF Fenced(a)
       THEN /\ recheck' = IF done \/ applier[a].tries >= MaxRechecks THEN "settled" ELSE "due"
            /\ lease' = "null" /\ holder' = None
       ELSE UNCHANGED <<recheck, lease, holder>>
  /\ GoIdle(a)
  /\ UNCHANGED <<verdict, doubt, attempts, rechecks, target>>

RunOut == lease = "held" /\ lease' = "expired"
          /\ UNCHANGED <<verdict, doubt, holder, attempts, rechecks, recheck, target, applier>>

Perish(a) == ~ In(a, "idle") /\ GoIdle(a) /\ UNCHANGED <<request, target>>

RequestNext ==
  \/ \E a \in Appliers :
       Claim(a) \/ Call(a) \/ Applied(a) \/ Retry(a) \/ Refusal(a) \/ Marker(a)
       \/ ClaimRecheck(a) \/ Recheck(a) \/ Perish(a)
  \/ Overwrite \/ RunOut

RequestSpec == RequestInit /\ [][RequestNext]_requestVars

-----------------------------------------------------------------------------

\* The outcome is truthful: what is recorded as applied has acted, and what is
\* recorded as cleanly refused has not, however many attempts died between
\* acting and settling. The one exception is an attempt that acted, or was
\* interrupted, and was followed by a retryable outcome: settleRetryable
\* clears the lease, and with it the only trace of the interruption.
VerdictIsTrue ==
  /\ verdict = "applied" => acted
  /\ verdict = "refused" /\ ~ doubt => ~ acted \/ retried

\* "Terminal rows are never edited into a new decision", by no ghost either,
\* and a recheck that is settled stays settled.
VerdictStep ==
  verdict # "pending" => /\ verdict' = verdict /\ doubt' = doubt
                         /\ recheck = "settled" => recheck' = "settled"
VerdictStands == [][VerdictStep]_requestVars
=============================================================================
