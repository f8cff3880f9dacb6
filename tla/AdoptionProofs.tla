---------------------------- MODULE AdoptionProofs ----------------------------
(***************************************************************************)
(* Proofs about what is put on the books of FundedTransfers: a pass records *)
(* only a transfer of the key generation the intent is on, with any number *)
(* of passes at a time, and an operator resolves a review only on news     *)
(* that is complete but for what is yet to be delivered.                   *)
(***************************************************************************)
EXTENDS TransferSafetyProofs

-----------------------------------------------------------------------------
(* What is kept or in hand bears the stamp of its generation.                 *)

Stamped ==
  /\ \A k \in Keys : kept[k] \in Transfers => stamped[kept[k]] = k[2]
  /\ \A w \in Executors : worker[w].pc \in {"await", "adopt"} /\ worker[w].xfer \in Transfers =>
       stamped[worker[w].xfer] = worker[w].gen

\* A process comes to hold a transfer only with its generation.
Matches(w) ==
  worker'[w].pc \in {"await", "adopt"} /\ worker'[w].xfer \in Transfers =>
    stamped[worker'[w].xfer] = worker'[w].gen

LEMMA StampedStays ==
  ASSUME UNCHANGED stamped, \A w \in Executors : Matches(w), Stamped,
         \A k \in Keys : kept'[k] = kept[k] \/ kept'[k] \notin Transfers
  PROVE  Stamped'
BY DEF Stamped, Matches

LEMMA SameMatches ==
  ASSUME Stamped, NEW w \in Executors, worker'[w] = worker[w]
  PROVE  Matches(w)
BY DEF Stamped, Matches

\* A step of one process that is left with nothing of Stripe's in hand,
LEMMA OneMatches ==
  ASSUME Stamped, TInv, NEW w \in Workers, NEW r, worker' = [worker EXCEPT ![w] = r],
         w \in Executors => r.pc \notin {"await", "adopt"} \/ r.xfer \notin Transfers
  PROVE  \A v \in Executors : Matches(v)
<1> SUFFICES ASSUME NEW v \in Executors PROVE Matches(v)
  OBVIOUS
<1>1. v \in Workers /\ worker \in [Workers -> Processes]
  BY DEF Workers, TInv, TypeOK
<1>2. CASE v = w
  BY <1>1, <1>2 DEF Matches
<1>3. CASE v # w
  BY <1>1, <1>3, SameMatches
<1> QED
  BY <1>2, <1>3

LEMMA RestMatches ==
  ASSUME Stamped, TInv, NEW w \in Workers, Rest(w)
  PROVE  \A v \in Executors : Matches(v)
BY OneMatches DEF Rest, Resting

LEMMA DoneMatches ==
  ASSUME Stamped, TInv, NEW w \in Executors, Done(w)
  PROVE  \A v \in Executors : Matches(v)
<1>1. PICK r \in Processes : worker' = [worker EXCEPT ![w] = r] /\ r.pc = "next"
  BY GoesOn
<1> QED
  BY <1>1, OneMatches DEF Workers

LEMMA GoMatches ==
  ASSUME Stamped, TInv, NEW w \in Workers, NEW l, Go(w, l), l \notin {"await", "adopt"}
  PROVE  \A v \in Executors : Matches(v)
<1>1. worker[w] \in Processes
  BY DEF TInv, TypeOK
<1>2. [worker[w] EXCEPT !.pc = l].pc = l
  BY <1>1 DEF Processes
<1>3. worker' = [worker EXCEPT ![w] = [worker[w] EXCEPT !.pc = l]]
  BY DEF Go, TInv, TypeOK
<1> QED
  BY <1>2, <1>3, OneMatches

\* and one of an operator.
LEMMA OperatorMatches ==
  ASSUME Stamped, TInv, NEW o \in Operators, Operate(o)
  PROVE  \A v \in Executors : Matches(v)
<1>1. \A v \in Executors : worker'[v] = worker[v]
  BY OperatorApart DEF Operate, RearmRead, RearmList, Rearm, ResolveRead, ResolveList, Keep, CloseReversed,
                       Begins, Go, GoWith, Rest, IInv
<1> QED
  BY <1>1, SameMatches
-----------------------------------------------------------------------------
(* Each action.                                                               *)

\* An executor takes a transfer in hand when it lists the group,
LEMMA ListStamped ==
  ASSUME Stamped, TInv, NEW w \in Executors, List(w)
  PROVE  Stamped'
<1> USE DEF List, stripe
<1>0. worker[w] \in Processes /\ w \in Workers /\ worker \in [Workers -> Processes]
  BY DEF TInv, TypeOK, Workers
<1>1. CASE Done(w)
  BY <1>1, DoneMatches, StampedStays
<1>2. CASE Go(w, "park")
  BY <1>0, <1>2, GoMatches, StampedStays
<1>3. CASE \E t \in Members(Who(w)) : stamped[t] = worker[w].gen /\ GoWith(w, "adopt", t)
  <2>1. PICK t : stamped[t] = worker[w].gen /\ GoWith(w, "adopt", t)
    BY <1>3
  <2>2. worker'[w] = [worker[w] EXCEPT !.pc = "adopt", !.xfer = t] /\ \A v \in Workers \ {w} : worker'[v] = worker[v]
    BY <1>0, <2>1 DEF GoWith
  <2>3. worker'[w].xfer = t /\ worker'[w].gen = worker[w].gen
    BY <1>0, <2>2 DEF Processes
  <2>4. \A v \in Executors : Matches(v)
    BY <2>1, <2>2, <2>3, SameMatches DEF Matches, Workers
  <2> QED
    BY <2>4, StampedStays
<1> QED
  BY <1>1, <1>2, <1>3

\* or when Stripe answers it.
LEMMA AnswerStamped ==
  ASSUME Stamped, TInv, NEW r \in requests, StripeReplays(r) \/ StripeRefuses(r)
  PROVE  Stamped'
<1> USE DEF StripeReplays, StripeRefuses
<1>1. PICK outcome : /\ Answer(r, outcome)
                     /\ outcome = kept[r[1]] \/ outcome = Refused
  OBVIOUS
<1>2. r[1] \in Keys /\ Refused \notin Transfers
  BY RequestType, TransferAssumption
<1>3. ASSUME NEW v \in Executors PROVE Matches(v)
  <2>1. /\ worker'[v].pc = worker[v].pc /\ worker'[v].gen = worker[v].gen
        /\ worker'[v].xfer = worker[v].xfer \/ (worker'[v].xfer = outcome /\ r[1][2] = worker[v].gen)
    BY <1>1, AnswerHand DEF Workers
  <2>2. outcome \in Transfers => stamped[outcome] = r[1][2]
    BY <1>1, <1>2 DEF Stamped
  <2> QED
    BY <2>1, <2>2 DEF Matches, Stamped
<1>4. \A k \in Keys : kept'[k] = kept[k] \/ kept'[k] \notin Transfers
  BY <1>2 DEF TInv, TypeOK
<1>5. UNCHANGED stamped
  BY DEF stripe
<1> QED
  BY <1>3, <1>4, <1>5, StampedStays

LEMMA TransferStamped ==
  ASSUME Stamped, TInv, NEW r \in requests, StripeTransfers(r)
  PROVE  Stamped'
<1> USE DEF StripeTransfers
<1>0. PICK t \in Transfers : /\ NextTransfer(t, r[1][1])
                             /\ stamped' = [stamped EXCEPT ![t] = r[1][2]]
                             /\ kept' = [kept EXCEPT ![r[1]] = t]
                             /\ Answer(r, t)
  OBVIOUS
<1>1. t \notin made /\ r[1] \in Keys
  BY <1>0, RequestType DEF NextTransfer
<1>2. stamped'[t] = r[1][2] /\ \A u \in made : stamped'[u] = stamped[u]
  BY <1>0, <1>1 DEF TInv, TypeOK
<1>3. ASSUME NEW k \in Keys, kept'[k] \in Transfers PROVE stamped'[kept'[k]] = k[2]
  <2>1. CASE k = r[1]
    BY <1>0, <1>2, <2>1 DEF TInv, TypeOK
  <2>2. CASE k # r[1]
    <3>1. kept'[k] = kept[k] /\ kept[k] \in made
      BY <1>0, <1>3, <2>2 DEF TInv, TypeOK, Known, Own, Members
    <3> QED
      BY <1>2, <1>3, <3>1 DEF Stamped
  <2> QED
    BY <2>1, <2>2
<1>4. ASSUME NEW v \in Executors, worker'[v].pc \in {"await", "adopt"}, worker'[v].xfer \in Transfers
      PROVE  stamped'[worker'[v].xfer] = worker'[v].gen
  <2>1. /\ worker'[v].pc = worker[v].pc /\ worker'[v].gen = worker[v].gen
        /\ worker'[v].xfer = worker[v].xfer \/ (worker'[v].xfer = t /\ r[1][2] = worker[v].gen)
    BY <1>0, AnswerHand DEF Workers
  <2>2. CASE worker'[v].xfer = t /\ r[1][2] = worker[v].gen
    BY <1>2, <2>1, <2>2
  <2>3. CASE worker'[v].xfer = worker[v].xfer
    <3>1. worker[v].xfer \in made
      BY <1>4, <2>3, InHand DEF Workers, Own, Members
    <3> QED
      BY <1>2, <1>4, <2>1, <2>3, <3>1 DEF Stamped
  <2> QED
    BY <2>1, <2>2, <2>3
<1> QED
  BY <1>3, <1>4 DEF Stamped

LEMMA TakeStamped ==
  ASSUME Stamped, TInv, NEW w \in Executors, NEW p \in Partners, Take(w, p)
  PROVE  Stamped'
<1> USE DEF Take, stripe
<1>0. worker[w] \in Processes /\ w \in Workers /\ worker \in [Workers -> Processes]
  BY DEF TInv, TypeOK, Workers
<1>1. worker'[w].pc \notin {"await", "adopt"}
  <2>1. Route(p) \in {"next", "list", "create", "withhold", "cancel", "stale", "post"}
    BY DEF Route
  <2>2. worker'[w].pc \in {"next", Route(p)}
    BY <1>0 DEF At, Processes
  <2> QED
    BY <2>1, <2>2
<1>2. \A v \in Workers : v # w => worker'[v] = worker[v]
  BY <1>0
<1>3. \A v \in Executors : Matches(v)
  BY <1>1, <1>2, SameMatches DEF Matches, Workers
<1> QED
  BY <1>3, StampedStays

LEMMA PostStamped ==
  ASSUME Stamped, TInv, NEW w \in Executors, Post(w)
  PROVE  Stamped'
<1> USE DEF Post
<1>1. CASE Done(w)
  BY <1>1, DoneMatches, StampedStays
<1>2. CASE worker' = [worker EXCEPT ![w] = [@ EXCEPT !.pc = "await", !.age = "null"]]
  <2>1. w \in Workers /\ worker[w] \in Processes /\ worker[w].xfer = None
    BY InHand DEF At, Workers
  <2>2. worker' = [worker EXCEPT ![w] = [worker[w] EXCEPT !.pc = "await", !.age = "null"]]
    BY <1>2 DEF TInv, TypeOK
  <2>3. [worker[w] EXCEPT !.pc = "await", !.age = "null"].xfer \notin Transfers
    BY <2>1, TransferAssumption DEF Processes
  <2>4. \A v \in Executors : Matches(v)
    BY <2>1, <2>2, <2>3, OneMatches
  <2> QED
    BY <2>4, StampedStays
<1> QED
  BY <1>1, <1>2

\* Any other step of an executor,
LEMMA PassStamped ==
  ASSUME Stamped, TInv, NEW w \in Executors,
         \/ Begin(w) \/ Stop(w) \/ Create(w) \/ Unready(w) \/ Withhold(w) \/ Cancel(w) \/ Settle(w)
         \/ PostReturns(w) \/ PostRefused(w) \/ PostAmbiguous(w) \/ Stale(w) \/ CannotVerify(w) \/ Adopt(w) \/ Park(w)
  PROVE  Stamped'
<1> USE DEF Begin, Stop, Create, Unready, Withhold, Cancel, Settle, PostReturns, PostRefused, PostAmbiguous, Stale,
            CannotVerify, Adopt, Park, Finalize, stripe
<1>0. w \in Workers
  BY DEF Workers
<1>1. \A v \in Executors : Matches(v)
  <2>1. CASE Done(w) \/ Rest(w) \/ Go(w, "post") \/ Go(w, "list")
    BY <1>0, <2>1, DoneMatches, RestMatches, GoMatches
  <2>2. CASE Begin(w)
    BY <1>0, <2>2, OneMatches DEF Resting
  <2> QED
    BY <2>1, <2>2
<1>2. UNCHANGED <<stamped, kept>>
  OBVIOUS
<1> QED
  BY <1>1, <1>2, StampedStays

\* and of the rest of the world.
LEMMA ApartStamped ==
  ASSUME Stamped, TInv,
         \/ \E e \in events : HookCreated(e) \/ HookReversed(e) \/ LoseEvent(e)
         \/ \E p \in Partners : Sweep(p) \/ WindowPasses(p) \/ ToggleHold(p) \/ OutsideTransfer(p)
         \/ \E r \in requests : Drop(r)
         \/ \E t \in Transfers, b \in Returned : StripeReverses(t, b)
         \/ \E a \in Allocations : ReverseCommission(a)
         \/ \E k \in Keys : KeyPruned(k)
         \/ Clawback
         \/ UNCHANGED vars
  PROVE  Stamped'
<1>1. /\ UNCHANGED <<worker, stamped>>
      /\ \A k \in Keys : kept'[k] = kept[k] \/ kept'[k] \notin Transfers
  BY TransferAssumption
     DEF HookCreated, HookReversed, LoseEvent, Sweep, WindowPasses, ToggleHold, Drop, Clawback, vars,
         OutsideTransfer, StripeReverses, ReverseCommission, KeyPruned, stripe, TInv, TypeOK
<1> QED
  BY <1>1, SameMatches, StampedStays

LEMMA StepStamped ==
  ASSUME Stamped, TInv, [Next]_vars
  PROVE  Stamped'
<1>1. ASSUME NEW w \in Executors, Step(w) PROVE Stamped'
  BY <1>1, PassStamped, ListStamped, PostStamped, TakeStamped DEF Step, Reconcile
<1>2. ASSUME NEW o \in Operators, Operate(o) PROVE Stamped'
  <2>1. UNCHANGED <<stamped, kept>>
    BY <1>2 DEF Operate, RearmRead, RearmList, Rearm, ResolveRead, ResolveList, Keep, CloseReversed, Finalize, stripe
  <2> QED
    BY <1>2, <2>1, OperatorMatches, StampedStays
<1>3. CASE Running
  BY <1>1, <1>2, <1>3, PassStamped, AnswerStamped, TransferStamped, ApartStamped DEF Running, Hook
<1>4. ASSUME NEW w \in Workers, Crash(w) PROVE Stamped'
  BY <1>4, RestMatches, StampedStays DEF Crash
<1>5. CASE Failing
  BY <1>4, <1>5, PassStamped, AnswerStamped, ApartStamped DEF Failing
<1>6. CASE UNCHANGED vars
  BY <1>6, ApartStamped
<1> QED
  BY <1>3, <1>5, <1>6 DEF Next

LEMMA InitStamped == Init => Stamped
BY TransferAssumption DEF Init, Stamped, Resting, Workers

-----------------------------------------------------------------------------
(* Adoption.                                                                  *)

\* An intent is confirmed by the pass that has its transfer in hand, or by the
\* resolution of its review.
LEMMA WhoConfirms ==
  ASSUME TInv, Next, NEW p \in Partners, state'[p] = "confirmed", state[p] \notin {"confirmed", "duplicate_review"}
  PROVE  \E w \in Executors :
           /\ PostReturns(w) \/ Adopt(w)
           /\ Who(w) = p /\ generation[p] = worker[w].gen /\ recorded'[p] = worker[w].xfer
<1> DEFINE G == \E w \in Executors :
                  /\ PostReturns(w) \/ Adopt(w)
                  /\ Who(w) = p /\ generation[p] = worker[w].gen /\ recorded'[p] = worker[w].xfer
<1>0. state \in [Partners -> States] /\ recorded \in [Partners -> Transfers \cup {None}]
  BY DEF TInv, TypeOK
<1>1. ASSUME NEW w \in Executors, PostReturns(w) \/ Adopt(w) PROVE G
  BY <1>0, <1>1 DEF PostReturns, Adopt, Finalize, Ours, intents
<1>2. ASSUME NEW w \in Executors, \/ Stop(w) \/ Create(w) \/ Withhold(w) \/ Cancel(w) \/ Settle(w)
                                  \/ Post(w) \/ PostRefused(w) \/ Stale(w) \/ List(w) \/ Park(w)
                                  \/ Begin(w) \/ Unready(w) \/ PostAmbiguous(w) \/ CannotVerify(w)
                                  \/ \E q \in Partners : Take(w, q)
      PROVE  FALSE
  BY <1>0, <1>2 DEF Stop, Create, Withhold, Cancel, Settle, Post, PostRefused, Stale, List, Park, Begin, Unready,
                    PostAmbiguous, CannotVerify, Take, intents
<1>3. ASSUME NEW o \in Operators, Operate(o) PROVE FALSE
  BY <1>0, <1>3 DEF Operate, RearmRead, RearmList, Rearm, ResolveRead, ResolveList, Keep, CloseReversed, Finalize,
                    Unmoved, Ours, intents
<1>4. ASSUME UNCHANGED state PROVE FALSE
  BY <1>4
<1>5. CASE Running
  <2>1. ASSUME NEW w \in Executors, Begin(w) \/ Step(w) PROVE G
    BY <1>1, <1>2, <2>1 DEF Step, Reconcile
  <2>2. \/ UNCHANGED state
        \/ \E w \in Executors : Begin(w) \/ Step(w)
        \/ \E o \in Operators : Operate(o)
    BY <1>5 DEF Running, Hook, HookCreated, HookReversed, Sweep, WindowPasses, ToggleHold, StripeReplays,
                StripeTransfers, StripeReverses, ReverseCommission, KeyPruned, Clawback, intents
  <2> QED
    BY <1>3, <1>4, <2>1, <2>2
<1>6. CASE Failing
  <2>1. \/ UNCHANGED state
        \/ \E w \in Executors : Unready(w) \/ PostAmbiguous(w) \/ CannotVerify(w)
    BY <1>6 DEF Failing, Crash, StripeRefuses, Drop, OutsideTransfer, LoseEvent, intents
  <2> QED
    BY <1>2, <1>4, <2>1
<1> QED
  BY <1>5, <1>6 DEF Next

\* Whatever was re-armed or parked since a pass looked, and however many passes
\* there are, what a pass records was made under the key the intent is on.
THEOREM Adoption == Spec => AdoptsOwn
<1>1. TInv /\ Stamped /\ [Next]_vars =>
        [\A p \in Partners :
           state[p] \notin {"confirmed", "duplicate_review"} /\ state'[p] = "confirmed" =>
             stamped[recorded'[p]] = generation[p] /\ recorded'[p] \notin foreign]_vars
  <2> SUFFICES ASSUME TInv, Stamped, Next, NEW p \in Partners,
                      state[p] \notin {"confirmed", "duplicate_review"}, state'[p] = "confirmed"
               PROVE  stamped[recorded'[p]] = generation[p] /\ recorded'[p] \notin foreign
    OBVIOUS
  <2>1. PICK w \in Executors : /\ PostReturns(w) \/ Adopt(w)
                               /\ Who(w) = p /\ generation[p] = worker[w].gen /\ recorded'[p] = worker[w].xfer
    BY WhoConfirms
  <2>2. worker[w].pc \in {"await", "adopt"} /\ worker[w].xfer \in Transfers
    BY <2>1 DEF PostReturns, Adopt, At, TInv, WInv, Roles, Coherent, Workers
  <2>3. worker[w].xfer \in Own(p)
    BY <2>1, <2>2, InHand DEF Workers
  <2> QED
    BY <2>1, <2>2, <2>3 DEF Stamped, Own
<1>2. TInv /\ Stamped /\ [Next]_vars => TInv' /\ Stamped'
  BY StepTypes, StepStamped
<1> QED
  BY <1>1, <1>2, InitTypes, InitStamped, PTL DEF Spec, AdoptsOwn
-----------------------------------------------------------------------------
(* The review fence.                                                          *)

Created(t) == <<"created", t, "none">> \in events
Reversed(t) == \E b \in Returned : <<"reversed", t, b>> \in events

\* What an operator saw of a review is all there is, but for what is on its way.
News(o) ==
  o \in fenced /\ state[Who(o)] = "duplicate_review" =>
    /\ At(o, "keep") =>
         /\ \A t \in Members(Who(o)) \ {worker[o].xfer} : Gone(t) \/ Created(t)
         /\ Whole(worker[o].xfer) \/ Reversed(worker[o].xfer)
    /\ At(o, "close") => \A t \in Members(Who(o)) : Gone(t) \/ Created(t)

\* Only an intent that is paid has recorded a transfer.
Unrecorded == \A p \in Partners : recorded[p] # None => state[p] = "confirmed"

FInv == Unrecorded /\ \A o \in Operators : News(o)

\* What a step does not undo: a transfer that is new to the partner is reported,
\* and so is a reversal.
Tells(p) ==
  /\ \A t \in Members(p)' : t \in Members(p) \/ Created(t)'
  /\ \A t \in Members(p) : (Gone(t) => Gone(t)') /\ (Created(t) => Created(t)')
  /\ \A t \in Own(p) : (Whole(t) => Whole(t)' \/ Reversed(t)') /\ (Reversed(t) => Reversed(t)')

\* No reading becomes current by a step, unless it is the operator's own.
Fences(p) == \A o \in fenced' : Who(o) = p /\ state'[p] = "duplicate_review" =>
               o \in fenced /\ state[p] = "duplicate_review" /\ Tells(p)

LEMMA NewsStays ==
  ASSUME TInv, NEW o \in Operators, worker'[o] = worker[o], News(o), NEW p, p = Who(o),
         o \in fenced' /\ state'[p] = "duplicate_review" => o \in fenced /\ state[p] = "duplicate_review" /\ Tells(p)
  PROVE  News(o)'
<1> SUFFICES ASSUME o \in fenced', state'[p] = "duplicate_review"
             PROVE  /\ At(o, "keep") =>
                         /\ \A t \in Members(p)' \ {worker[o].xfer} : Gone(t)' \/ Created(t)'
                         /\ Whole(worker[o].xfer)' \/ Reversed(worker[o].xfer)'
                    /\ At(o, "close") => \A t \in Members(p)' : Gone(t)' \/ Created(t)'
  BY DEF News, At, Who, Members, Gone, Created, Whole, Reversed
<1>1. At(o, "keep") => worker[o].xfer \in Own(p)
  BY InHand DEF At, TInv, WInv, Roles, Coherent, Workers
<1> QED
  BY <1>1 DEF News, Tells

LEMMA SilentTells ==
  ASSUME UNCHANGED <<made, foreign, back, events>>, NEW p
  PROVE  Tells(p)
BY DEF Tells, Members, Own, Gone, Created, Whole, Reversed

LEMMA FencedStays ==
  ASSUME TInv, \A o \in Operators : News(o), \A v \in Operators : worker'[v] = worker[v],
         \A p \in Partners : Fences(p)
  PROVE  \A o \in Operators : News(o)'
<1> SUFFICES ASSUME NEW o \in Operators PROVE News(o)'
  OBVIOUS
<1>1. CASE Who(o) \in Partners
  <2>1. ASSUME NEW p \in Partners, p = Who(o) PROVE News(o)'
    BY <2>1, NewsStays DEF Fences
  <2> QED
    BY <1>1, <2>1
<1>2. CASE Who(o) \notin Partners
  <2>1. worker'[o].pc \notin {"keep", "close"}
    BY <1>2, InHand DEF Workers
  <2> QED
    BY <2>1 DEF News, At
<1> QED
  BY <1>1, <1>2

\* A pass parks an intent under a new nonce, and reports nothing.
LEMMA PassFenced ==
  ASSUME TInv, TInv', FInv, NEW w \in Executors,
         \/ Step(w) \/ Begin(w) \/ Unready(w) \/ PostAmbiguous(w) \/ CannotVerify(w) \/ Crash(w)
  PROVE  \A o \in Operators : News(o)'
<1>1. \A v \in Operators : worker'[v] = worker[v]
  <2>0. worker \in [Workers -> Processes] /\ \A v \in Operators : v \in Workers /\ v # w
    BY TransferAssumption DEF TInv, TypeOK, Workers
  <2>1. CASE \E r : worker' = [worker EXCEPT ![w] = r]
    BY <2>0, <2>1
  <2>2. CASE \E p \in Partners : Take(w, p)
    BY <2>0, <2>2 DEF Take
  <2>3. CASE Begin(w) \/ Done(w) \/ Rest(w) \/ \E l : Go(w, l) \/ \E t : GoWith(w, l, t)
    BY <2>1, <2>3 DEF Begin, Done, Rest, Go, GoWith
  <2>4. CASE Post(w)
    BY <2>0, <2>3, <2>4 DEF Post
  <2> QED
    BY <2>2, <2>3, <2>4
       DEF Step, Reconcile, Stop, Create, Unready, Withhold, Cancel, Settle, PostReturns, PostRefused, PostAmbiguous,
           Stale, List, CannotVerify, Adopt, Park, Crash
<1>2. UNCHANGED <<made, foreign, back, events>>
  BY DEF Step, Reconcile, Begin, Stop, Take, Create, Unready, Withhold, Cancel, Settle, Post, PostReturns,
         PostRefused, PostAmbiguous, Stale, List, CannotVerify, Adopt, Park, Crash, Finalize, stripe
<1>3. CASE Park(w) /\ Ours(w, {"posted", "reconcile_required"})
  <2>1. /\ fenced' = {o \in fenced : Who(o) # Who(w)}
        /\ \A p \in Partners : p # Who(w) => state'[p] = state[p]
    BY <1>3 DEF Park, Renonce, TInv, TypeOK
  <2>2. ASSUME NEW p \in Partners PROVE Fences(p)
    BY <1>2, <2>1, SilentTells DEF Fences
  <2> QED
    BY <1>1, <2>2, FencedStays DEF FInv
<1>4. CASE ~ (Park(w) /\ Ours(w, {"posted", "reconcile_required"}))
  <2>1. fenced' = fenced /\ (\/ UNCHANGED state
                            \/ \E s \in States \ {"duplicate_review"} : state' = [state EXCEPT ![Who(w)] = s])
    <3>1. CASE Park(w) \/ Take(w, Who(w))
      BY <1>4, <3>1 DEF Park, Take, intents
    <3> DEFINE Other(s) == s \in States \ {"duplicate_review"} /\ state' = [state EXCEPT ![Who(w)] = s]
    <3>2. CASE Create(w) \/ Cancel(w) \/ Post(w) \/ PostReturns(w)
      <4>1. UNCHANGED state \/ Other("pending") \/ Other("failed") \/ Other("posted") \/ Other("confirmed")
        BY <3>2 DEF Create, Cancel, Post, PostReturns, Finalize, intents, States
      <4>2. UNCHANGED fenced
        BY <3>2 DEF Create, Cancel, Post, PostReturns, Finalize, intents
      <4> QED
        BY <4>1, <4>2
    <3>3. CASE PostRefused(w) \/ Stale(w) \/ Adopt(w)
      BY <3>3 DEF PostRefused, Stale, Adopt, Finalize, intents, States
    <3>4. CASE \/ Stop(w) \/ Withhold(w) \/ Settle(w) \/ List(w) \/ Begin(w) \/ Unready(w) \/ PostAmbiguous(w)
               \/ CannotVerify(w) \/ Crash(w) \/ \E p \in Partners : Take(w, p)
      BY <3>4 DEF Stop, Withhold, Settle, List, Begin, Unready, PostAmbiguous, CannotVerify, Crash, Take, intents
    <3> QED
      BY <3>1, <3>2, <3>3, <3>4 DEF Step, Reconcile
  <2>2. \A p : state'[p] = "duplicate_review" => state[p] = "duplicate_review" \/ p \notin Partners
    BY <2>1 DEF TInv, TypeOK
  <2>3. ASSUME NEW p \in Partners PROVE Fences(p)
    BY <1>2, <2>1, <2>2, SilentTells DEF Fences
  <2> QED
    BY <1>1, <2>3, FencedStays DEF FInv
<1> QED
  BY <1>3, <1>4

\* An operator's own step leaves him with what he has just seen.
LEMMA OperatorFenced ==
  ASSUME TInv, TInv', FInv, NEW o \in Operators, Operate(o) \/ Crash(o)
  PROVE  \A v \in Operators : News(v)'
<1> USE DEF Operate, RearmRead, RearmList, Rearm, ResolveRead, ResolveList, Keep, CloseReversed, Finalize, stripe,
            intents, ledger
<1>0. worker \in [Workers -> Processes] /\ o \in Workers /\ worker[o] \in Processes
  BY DEF TInv, TypeOK, Workers
<1>1. UNCHANGED <<made, foreign, back, events>>
  BY DEF Crash
<1>2. fenced' \subseteq fenced \cup {o}
      /\ \A p \in Partners : state'[p] = "duplicate_review" => state[p] = "duplicate_review"
  <2>1. fenced' \subseteq fenced \cup {o}
    BY DEF Crash
  <2>2. \/ UNCHANGED state
        \/ \E s \in {"pending", "failed", "confirmed"} : state' = [state EXCEPT ![Who(o)] = s]
    BY DEF Crash
  <2> QED
    BY <2>1, <2>2 DEF TInv, TypeOK
<1>3. \A v \in Workers : v # o => worker'[v] = worker[v]
  BY <1>0 DEF Crash, Begins, Go, GoWith, Rest
<1>4. ASSUME NEW v \in Operators, v # o PROVE News(v)'
  <2>1. CASE Who(v) \in Partners
    <3>1. ASSUME NEW p \in Partners, p = Who(v) PROVE News(v)'
      <4>1. v \in fenced' /\ state'[p] = "duplicate_review" => v \in fenced /\ state[p] = "duplicate_review" /\ Tells(p)
        BY <1>1, <1>2, <1>4, SilentTells
      <4>2. worker'[v] = worker[v] /\ News(v)
        BY <1>3, <1>4 DEF FInv, Workers
      <4> HIDE DEF Operate, RearmRead, RearmList, Rearm, ResolveRead, ResolveList, Keep, CloseReversed, Finalize
      <4> QED
        BY <3>1, <4>1, <4>2, NewsStays
    <3> QED
      BY <2>1, <3>1
  <2>2. CASE Who(v) \notin Partners
    <3>1. worker'[v].pc \notin {"keep", "close"}
      BY <1>3, <1>4, <2>2, InHand DEF Workers
    <3> QED
      BY <3>1 DEF News, At
  <2> QED
    BY <2>1, <2>2
<1>5. News(o)'
  <2>1. CASE Rest(o)
    BY <1>0, <2>1 DEF News, Rest, Resting, At
  <2>2. CASE \E p \in Partners : RearmRead(o, p) \/ ResolveRead(o, p)
    BY <1>0, <2>2 DEF News, Begins, Resting, At
  <2>3. CASE Go(o, "rearm")
    <3>1. worker'[o].pc = "rearm"
      BY <1>0, <2>3 DEF Go, Processes
    <3> QED
      BY <3>1 DEF News, At
  <2>4. CASE ResolveList(o) /\ Go(o, "close") /\ \A t \in Members(Who(o)) : Gone(t)
    <3>1. worker'[o].pc = "close" /\ worker'[o].who = Who(o)
      BY <1>0, <2>4 DEF Go, Processes, Who
    <3>2. ASSUME NEW p, p = Who(o) PROVE \A t \in Members(p)' : Gone(t)'
      BY <1>1, <2>4, <3>2 DEF Members, Gone
    <3>3. \A t \in Members(worker[o].who)' : Gone(t)'
      BY <3>1, <3>2 DEF Members
    <3> QED
      BY <3>1, <3>3 DEF News, At, Who
  <2>5. ASSUME ResolveList(o), NEW t \in Members(Who(o)), Whole(t), \A u \in Members(Who(o)) \ {t} : Gone(u),
               GoWith(o, "keep", t)
        PROVE  News(o)'
    <3>1. worker'[o].pc = "keep" /\ worker'[o].who = Who(o) /\ worker'[o].xfer = t
      <4>1. worker'[o] = [worker[o] EXCEPT !.pc = "keep", !.xfer = t]
        BY <1>0, <2>5 DEF GoWith
      <4> QED
        BY <1>0, <4>1 DEF Processes, Who
    <3>2. ASSUME NEW p, p = Who(o) PROVE \A u \in Members(p)' \ {t} : Gone(u)'
      BY <1>1, <2>5, <3>2 DEF Members, Gone
    <3>3. (\A u \in Members(worker[o].who)' \ {t} : Gone(u)') /\ Whole(worker[o].xfer)'
      BY <1>1, <2>5, <3>1, <3>2 DEF Members, Whole
    <3> QED
      BY <3>1, <3>3 DEF News, At, Who
  <2> QED
    BY <2>1, <2>2, <2>3, <2>4, <2>5 DEF Crash
<1> QED
  BY <1>4, <1>5

\* A webhook hands over its news by a new nonce,
LEMMA HookFenced ==
  ASSUME TInv, TInv', FInv, NEW e \in events, HookCreated(e) \/ HookReversed(e)
  PROVE  \A o \in Operators : News(o)'
<1> USE DEF HookCreated, HookReversed
<1>1. /\ UNCHANGED <<made, foreign, back, worker, state>> /\ events' = events \ {e} /\ fenced' \subseteq fenced
      /\ \A p \in Partners : e[2][1] = p /\ state[p] = "duplicate_review" => \A o \in fenced' : Who(o) # p
  BY DEF Renonce
<1>2. ASSUME NEW p \in Partners PROVE Fences(p)
  <2>1. ASSUME e[2][1] # p PROVE Tells(p)
    <3>1. \A t \in Members(p) : Created(t)' = Created(t) /\ Reversed(t)' = Reversed(t)
      BY <1>1, <2>1 DEF Members, Created, Reversed
    <3> QED
      BY <1>1, <3>1 DEF Tells, Members, Own, Gone, Whole
  <2> QED
    BY <1>1, <2>1 DEF Fences
<1> QED
  BY <1>1, <1>2, FencedStays DEF FInv

\* Stripe reports what it does,
LEMMA StripeFenced ==
  ASSUME TInv, TInv', FInv,
         \/ \E r \in requests : StripeReplays(r) \/ StripeTransfers(r) \/ StripeRefuses(r)
         \/ \E p \in Partners : OutsideTransfer(p)
         \/ \E t \in Transfers, b \in Returned : StripeReverses(t, b)
  PROVE  \A o \in Operators : News(o)'
<1> USE DEF StripeReplays, StripeTransfers, StripeRefuses, OutsideTransfer, StripeReverses, intents, ledger
<1>1. \A o \in Operators : worker'[o] = worker[o]
  <2>1. ASSUME NEW r \in requests, StripeReplays(r) \/ StripeTransfers(r) \/ StripeRefuses(r)
        PROVE  \A o \in Operators : worker'[o] = worker[o]
    BY <2>1, AnswerHand
  <2> QED
    BY <2>1
<1>2. UNCHANGED <<state, fenced>> /\ events \subseteq events'
  OBVIOUS
<1>3. ASSUME NEW p \in Partners PROVE Tells(p)
  <2>1. ASSUME NEW t \in Members(p)' PROVE t \in Members(p) \/ Created(t)'
    BY <2>1 DEF Members, Created
  <2>2. ASSUME NEW t \in Members(p) PROVE (Gone(t) => Gone(t)') /\ (Created(t) => Created(t)') /\ (Reversed(t) => Reversed(t)')
    <3>1. \A u \in Transfers : back[u] = "full" => back'[u] = "full"
      BY DEF TInv, TypeOK
    <3>2. t \in Transfers
      BY DEF Members, TInv, TypeOK
    <3> QED
      BY <1>2, <3>1, <3>2 DEF Gone, Created, Reversed
  <2>3. ASSUME NEW t \in Own(p), Whole(t) PROVE Whole(t)' \/ Reversed(t)'
    <3>1. CASE UNCHANGED back
      BY <2>3, <3>1 DEF Whole
    <3>2. CASE \E u \in Transfers, b \in Returned : StripeReverses(u, b)
      <4>1. PICK u \in Transfers, b \in Returned : StripeReverses(u, b)
        BY <3>2
      <4>2. CASE u = t
        BY <2>3, <4>1, <4>2 DEF Own, Reversed
      <4>3. CASE u # t
        BY <2>3, <4>1, <4>3 DEF Whole, TInv, TypeOK, Own, Members
      <4> QED
        BY <4>2, <4>3
    <3> QED
      BY <3>1, <3>2
  <2> QED
    BY <2>1, <2>2, <2>3 DEF Tells, Own
<1>4. \A p \in Partners : Fences(p)
  BY <1>2, <1>3 DEF Fences
<1> QED
  BY <1>1, <1>4, FencedStays DEF FInv

\* and the rest is silent.
LEMMA ApartFenced ==
  ASSUME TInv, TInv', FInv,
         \/ \E p \in Partners : Sweep(p) \/ WindowPasses(p) \/ ToggleHold(p)
         \/ \E r \in requests : Drop(r)
         \/ \E a \in Allocations : ReverseCommission(a)
         \/ \E k \in Keys : KeyPruned(k)
         \/ Clawback
         \/ UNCHANGED vars
  PROVE  \A o \in Operators : News(o)'
<1>1. UNCHANGED <<worker, state, fenced, made, foreign, back, events>>
  BY DEF Sweep, WindowPasses, ToggleHold, Drop, ReverseCommission, KeyPruned, Clawback, vars, ledger, intents, stripe
<1>2. \A p \in Partners : Fences(p)
  BY <1>1, SilentTells DEF Fences
<1> QED
  BY <1>1, <1>2, FencedStays DEF FInv

LEMMA StepNews ==
  ASSUME ~ LoseEvents, TInv, TInv', FInv, [Next]_vars
  PROVE  \A o \in Operators : News(o)'
<1>1. CASE Running
  BY <1>1, PassFenced, OperatorFenced, HookFenced, StripeFenced, ApartFenced DEF Running, Hook
<1>2. CASE Failing
  BY <1>2, PassFenced, OperatorFenced, StripeFenced, ApartFenced DEF Failing, Workers, LoseEvent
<1>3. CASE UNCHANGED vars
  BY <1>3, ApartFenced
<1> QED
  BY <1>1, <1>2, <1>3 DEF Next

-----------------------------------------------------------------------------
(* Resolution.                                                                *)

\* What is confirmed stays so, with the transfer that was recorded.
LEMMA RecordedStays ==
  ASSUME IInv, IInv', Unrecorded, Decided, [Next]_vars
  PROVE  Unrecorded'
<1>1. ASSUME NEW p \in Partners, state[p] = "confirmed" PROVE state'[p] = "confirmed"
  <2>1. PICK a \in Of(p) : allocation[a] = "transferred"
    BY <1>1 DEF IInv, Shape, Shaped
  <2>2. allocation'[a] = "transferred"
    BY <2>1 DEF Decided, Payment!Next, Payment!Pay, Payment!Withhold, Payment!Close, Of
  <2>3. Shaped(p)'
    BY DEF IInv, Shape
  <2> QED
    BY <2>1, <2>2, <2>3 DEF Shaped, Of, Allocations
<1>2. \/ UNCHANGED recorded
      \/ \E p \in Partners, t \in Transfers :
           state' = [state EXCEPT ![p] = "confirmed"] /\ recorded' = [recorded EXCEPT ![p] = t]
  <2>1. ASSUME NEW w \in Workers, PostReturns(w) \/ Adopt(w) \/ Keep(w)
        PROVE  \/ UNCHANGED recorded
               \/ /\ state' = [state EXCEPT ![Who(w)] = "confirmed"]
                  /\ recorded' = [recorded EXCEPT ![Who(w)] = worker[w].xfer]
                  /\ Who(w) \in Partners /\ worker[w].xfer \in Transfers
    <3>1. Who(w) \in Partners /\ worker[w].xfer \in Transfers
      BY <2>1, InHand DEF PostReturns, Adopt, Keep, At, IInv, TInv, WInv, Roles, Coherent
    <3> QED
      BY <2>1, <3>1 DEF PostReturns, Adopt, Keep, Finalize, intents
  <2>2. ASSUME NEW w \in Executors, Step(w) \/ Begin(w) \/ Unready(w) \/ PostAmbiguous(w) \/ CannotVerify(w)
        PROVE  UNCHANGED recorded \/ PostReturns(w) \/ Adopt(w)
    BY <2>2 DEF Step, Reconcile, Begin, Stop, Take, Create, Unready, Withhold, Cancel, Settle, Post, PostRefused,
                PostAmbiguous, Stale, List, CannotVerify, Park, intents
  <2>3. ASSUME NEW o \in Operators, Operate(o) PROVE UNCHANGED recorded \/ Keep(o)
    BY <2>3 DEF Operate, RearmRead, RearmList, Rearm, ResolveRead, ResolveList, CloseReversed, intents
  <2>4. \/ UNCHANGED recorded
        \/ \E w \in Executors : Step(w) \/ Begin(w) \/ Unready(w) \/ PostAmbiguous(w) \/ CannotVerify(w)
        \/ \E o \in Operators : Operate(o)
    BY DEF Next, Running, Failing, Hook, HookCreated, HookReversed, Sweep, WindowPasses, ToggleHold, StripeReplays,
           StripeTransfers, StripeReverses, ReverseCommission, KeyPruned, Clawback, Crash, StripeRefuses, Drop,
           OutsideTransfer, LoseEvent, intents, vars
  <2> QED
    BY <2>1, <2>2, <2>3, <2>4 DEF Workers
<1>3. recorded \in [Partners -> Transfers \cup {None}] /\ state \in [Partners -> States]
  BY DEF IInv, TInv, TypeOK
<1> QED
  BY <1>1, <1>2, <1>3 DEF Unrecorded

LEMMA StepFInv ==
  ASSUME Serial, ~ LoseEvents, IInv, FInv, [Next]_vars
  PROVE  FInv'
BY StepIInv, StepNews, RecordedStays DEF FInv, IInv

LEMMA InitFInv == Init => FInv
BY DEF Init, FInv, Unrecorded, News

\* Only an operator takes an intent out of its review, and by what he saw.
LEMMA WhoResolves ==
  ASSUME IInv, Next, NEW p \in Partners, state[p] = "duplicate_review", state'[p] # "duplicate_review"
  PROVE  \E o \in Operators :
           /\ Who(o) = p /\ Unmoved(o)
           /\ \/ At(o, "keep") /\ recorded'[p] = worker[o].xfer
              \/ At(o, "close") /\ UNCHANGED recorded
<1> DEFINE G == \E o \in Operators :
                  /\ Who(o) = p /\ Unmoved(o)
                  /\ \/ At(o, "keep") /\ recorded'[p] = worker[o].xfer
                     \/ At(o, "close") /\ UNCHANGED recorded
<1>0. state \in [Partners -> States] /\ recorded \in [Partners -> Transfers \cup {None}]
  BY DEF IInv, TInv, TypeOK
<1>1. ASSUME NEW o \in Operators, Keep(o) \/ CloseReversed(o) PROVE G
  BY <1>0, <1>1 DEF Keep, CloseReversed, Finalize, Unmoved, Ours, intents
<1>2. ASSUME NEW o \in Operators, Operate(o) PROVE G
  <2>1. CASE Keep(o) \/ CloseReversed(o)
    BY <1>1, <2>1
  <2>2. CASE ~ (Keep(o) \/ CloseReversed(o))
    BY <1>0, <1>2, <2>2 DEF Operate, RearmRead, RearmList, Rearm, ResolveRead, ResolveList, Ours, intents
  <2> QED
    BY <2>1, <2>2
<1>3. ASSUME NEW w \in Executors, Step(w) PROVE FALSE
  <2>1. CASE Create(w)
    <3>1. state[Who(w)] = "none"
      BY <2>1 DEF Create, At, IInv, Passing
    <3> QED
      BY <1>0, <2>1, <3>1 DEF Create
  <2>2. CASE Stop(w) \/ Withhold(w) \/ Cancel(w) \/ Settle(w) \/ \E q \in Partners : Take(w, q)
    BY <1>0, <2>2 DEF Stop, Withhold, Cancel, Settle, Take, intents
  <2>3. CASE Post(w) \/ PostReturns(w) \/ PostRefused(w)
    BY <1>0, <2>3 DEF Post, PostReturns, PostRefused, Finalize, Ours, intents
  <2>4. CASE Stale(w) \/ List(w) \/ Adopt(w) \/ Park(w)
    BY <1>0, <2>4 DEF Stale, List, Adopt, Park, Finalize, Ours, intents
  <2> QED
    BY <1>3, <2>1, <2>2, <2>3, <2>4 DEF Step, Reconcile
<1>4. \/ UNCHANGED state
      \/ \E w \in Executors : Step(w)
      \/ \E o \in Operators : Operate(o)
  BY DEF Next, Running, Failing, Hook, HookCreated, HookReversed, Sweep, WindowPasses, ToggleHold, StripeReplays,
         StripeTransfers, StripeReverses, ReverseCommission, KeyPruned, Clawback, Crash, StripeRefuses, Drop,
         OutsideTransfer, LoseEvent, Begin, Unready, PostAmbiguous, CannotVerify, intents
<1> QED
  BY <1>2, <1>3, <1>4

\* With one pass at a time and no event lost, a review ends only by an operator
\* whose reading is still current, and of the transfers and reversals he did
\* not see, each is reported by an event that is yet to be delivered.
THEOREM Resolution == ASSUME Serial, ~ LoseEvents PROVE Spec => ResolutionIsFenced
<1>1. IInv /\ FInv /\ [Next]_vars =>
        [\A p \in Partners :
           state[p] = "duplicate_review" /\ state'[p] # "duplicate_review" =>
             /\ \E o \in Operators : Who(o) = p /\ o \in fenced
             /\ \A t \in Members(p) \ {recorded'[p]} : ~ Gone(t) => <<"created", t, "none">> \in events
             /\ recorded'[p] # None /\ ~ Whole(recorded'[p]) =>
                  \E b \in Returned : <<"reversed", recorded'[p], b>> \in events]_vars
  <2> SUFFICES ASSUME IInv, FInv, Next, NEW p \in Partners,
                      state[p] = "duplicate_review", state'[p] # "duplicate_review"
               PROVE  /\ \E o \in Operators : Who(o) = p /\ o \in fenced
                      /\ \A t \in Members(p) \ {recorded'[p]} : ~ Gone(t) => <<"created", t, "none">> \in events
                      /\ recorded'[p] # None /\ ~ Whole(recorded'[p]) =>
                           \E b \in Returned : <<"reversed", recorded'[p], b>> \in events
    OBVIOUS
  <2>1. PICK o \in Operators : /\ Who(o) = p /\ Unmoved(o)
                               /\ \/ At(o, "keep") /\ recorded'[p] = worker[o].xfer
                                  \/ At(o, "close") /\ UNCHANGED recorded
    BY WhoResolves
  <2>2. o \in fenced /\ News(o) /\ recorded[p] = None
    BY <2>1 DEF Unmoved, FInv, Unrecorded
  <2> QED
    BY <2>1, <2>2 DEF News, Created, Reversed
<1>2. IInv /\ FInv /\ [Next]_vars => IInv' /\ FInv'
  BY StepIInv, StepFInv
<1> QED
  BY <1>1, <1>2, InitIInv, InitFInv, PTL DEF Spec, ResolutionIsFenced

=============================================================================
