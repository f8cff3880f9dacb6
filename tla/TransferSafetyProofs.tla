------------------------- MODULE TransferSafetyProofs -------------------------
(***************************************************************************)
(* Proofs about the transfers that FundedTransfers makes: that a partner   *)
(* is not paid twice, nor for a share that was withheld. They suppose what *)
(* the passing runs suppose: a key that outlives the POSTs judged safe     *)
(* under it and an operator whose assertions are true (Sound), beside one  *)
(* pass at a time (Serial).                                                *)
(***************************************************************************)
EXTENDS FundedTransfersProofs

Sound == Truthful /\ Margin /\ ~ Straggle

-----------------------------------------------------------------------------
(* The inductive invariant of the transfers.                                  *)

Key(p) == <<p, generation[p]>>
Sent(p) == {r \in requests : r[1][1] = p}

\* A POST under the intent's key makes no second transfer.
Safe(p) == Own(p) = {} \/ kept[Key(p)] \in Transfers

\* Nothing can move the intent again except a resolution.
Over(p) == state[p] \in {"duplicate_review", "confirmed"} \/ (state[p] = "failed" /\ LiveOf(p) = {})

\* What is in flight carries the key of the intent as it is, and is safe.
Sending(p) ==
  /\ \A r \in Sent(p) : r[1] = Key(p)
  /\ Sent(p) # {} \/ postedAt[p] # "old" => Safe(p)

\* Nothing was sent of an intent that is new, and a refused one made nothing.
Unsent(p) ==
  /\ state[p] \in {"none", "pending"} => Own(p) = {} /\ Sent(p) = {}
  /\ state[p] = "failed" =>
       /\ \A r \in Sent(p) : kept[r[1]] # None
       /\ IF LiveOf(p) = {} THEN \A t \in Own(p) : Gone(t) ELSE Own(p) = {}

AtMostOne(p) == \A t, u \in Own(p) : t = u

\* No POST of the intent will make a transfer.
Refusal(p) == Own(p) = {} /\ \A r \in Sent(p) : kept[r[1]] # None

\* What an executor is about to post is safe; what was refused made nothing.
Posting(w) ==
  /\ At(w, "post") /\ worker[w].gen = generation[Who(w)] => Safe(Who(w))
  /\ At(w, "await") /\ worker[w].xfer = Refused => Refusal(Who(w))

\* What an operator read of an intent still holds, or the intent is over.
Unmade(p) == state[p] = "reconcile_required" /\ Own(p) = {} /\ Sent(p) = {}
AllBack(p) == Sent(p) = {} /\ \A t \in Own(p) : Gone(t)
Operating(o) ==
  /\ worker[o].pc \in {"rearmList", "rearm"} =>
       /\ worker[o].gen <= generation[Who(o)]
       /\ worker[o].gen = generation[Who(o)] => Over(Who(o)) \/ Unmade(Who(o))
  /\ worker[o].pc \in {"resolveList", "keep", "close"} => Over(Who(o))
  /\ At(o, "close") => AllBack(Who(o))

PInv(p) == Sending(p) /\ Unsent(p) /\ AtMostOne(p)
SInv ==
  /\ \A p \in Partners : PInv(p)
  /\ \A w \in Executors : Posting(w)
  /\ \A o \in Operators : Operating(o)

-----------------------------------------------------------------------------
(* What a step leaves in place.                                               *)

\* Of a partner's transfers and requests,
Frame(p) ==
  /\ Own(p)' = Own(p)
  /\ generation'[p] = generation[p]
  /\ kept[Key(p)] # None => kept'[Key(p)] = kept[Key(p)]
  /\ \A r \in Sent(p)' : \E q \in Sent(p) : q[1] = r[1]
  /\ \A t \in Own(p) : Gone(t) => Gone(t)'

\* and of the state of its intent.
Calmer(p) ==
  /\ Over(p) => Over(p)'
  /\ state[p] = "reconcile_required" => state'[p] = "reconcile_required" \/ Over(p)'

Kept(p) ==
  \/ state'[p] \notin {"none", "pending", "failed"}
  \/ state'[p] = state[p] /\ (state[p] = "failed" => LiveOf(p)' = LiveOf(p))

LEMMA SafeStays ==
  ASSUME NEW p, Frame(p), Safe(p)
  PROVE  Safe(p)'
<1>1. Key(p)' = Key(p)
  BY DEF Frame, Key
<1>2. CASE Own(p) = {}
  BY <1>2 DEF Frame, Safe
<1>3. CASE kept[Key(p)] \in Transfers
  <2>1. kept'[Key(p)] = kept[Key(p)]
    BY <1>3, TransferAssumption DEF Frame
  <2> QED
    BY <1>1, <1>3, <2>1 DEF Safe
<1> QED
  BY <1>2, <1>3 DEF Safe

\* A request of the partner bears its key,
LEMMA SentStays ==
  ASSUME NEW p, Frame(p), Sending(p), NEW r \in Sent(p)'
  PROVE  r[1] = Key(p)' /\ Sent(p) # {}
<1>1. PICK q \in Sent(p) : q[1] = r[1]
  BY DEF Frame
<1>2. q[1] = Key(p) /\ Key(p)' = Key(p)
  BY DEF Sending, Frame, Key
<1> QED
  BY <1>1, <1>2

\* whose outcome is not forgotten.
LEMMA OutcomeStays ==
  ASSUME NEW p, Frame(p), Sending(p), \A q \in Sent(p) : kept[q[1]] # None, NEW r \in Sent(p)'
  PROVE  kept'[r[1]] # None
<1>1. PICK q \in Sent(p) : q[1] = r[1]
  BY DEF Frame
<1>2. q[1] = Key(p)
  BY DEF Sending
<1> QED
  BY <1>1, <1>2 DEF Frame

LEMMA PartnerStays ==
  ASSUME NEW p, PInv(p), Frame(p), Kept(p) \/ Unsent(p)', postedAt'[p] # "old" => postedAt[p] # "old"
  PROVE  PInv(p)'
<1>0. Sending(p)
  BY DEF PInv
<1>1. Sending(p)'
  <2>0. ASSUME NEW r \in Sent(p)' PROVE r[1] = Key(p)' /\ Sent(p) # {}
    BY <1>0, SentStays
  <2>1. \A r \in Sent(p)' : r[1] = Key(p)'
    BY <2>0
  <2>2. Sent(p)' # {} => Safe(p)
    BY <2>0 DEF PInv, Sending
  <2>3. postedAt'[p] # "old" => Safe(p)
    BY DEF PInv, Sending
  <2> QED
    BY <2>1, <2>2, <2>3, SafeStays DEF Sending
<1>2. Unsent(p)'
  <2>1. CASE Unsent(p)'
    BY <2>1
  <2>2. CASE state'[p] \notin {"none", "pending", "failed"}
    BY <2>2 DEF Unsent
  <2>3. CASE state'[p] = state[p] /\ (state[p] = "failed" => LiveOf(p)' = LiveOf(p))
    <3>1. state[p] \in {"none", "pending"} => Own(p)' = {} /\ Sent(p)' = {}
      BY DEF PInv, Unsent, Frame
    <3>2. state[p] = "failed" => \A r \in Sent(p)' : kept'[r[1]] # None
      <4> SUFFICES ASSUME state[p] = "failed", NEW r \in Sent(p)' PROVE kept'[r[1]] # None
        OBVIOUS
      <4>1. \A q \in Sent(p) : kept[q[1]] # None
        BY DEF PInv, Unsent
      <4> QED
        BY <1>0, <4>1, OutcomeStays
    <3>3. state[p] = "failed" => IF LiveOf(p)' = {} THEN \A t \in Own(p)' : Gone(t)' ELSE Own(p)' = {}
      BY <2>3 DEF PInv, Unsent, Frame
    <3> QED
      BY <2>3, <3>1, <3>2, <3>3 DEF Unsent
  <2> QED
    BY <2>1, <2>2, <2>3 DEF Kept
<1>3. AtMostOne(p)'
  BY DEF PInv, AtMostOne, Frame
<1> QED
  BY <1>1, <1>2, <1>3 DEF PInv

\* A process has in hand what it had, or what it now reads is true.
Carries(w) ==
  LET p == worker'[w].who
      same == worker[w].who = p /\ worker[w].gen = worker'[w].gen
  IN /\ worker'[w].pc = "post" => Safe(p) \/ (worker[w].pc = "post" /\ same)
     /\ worker'[w].pc = "await" /\ worker'[w].xfer = Refused =>
          Refusal(p) \/ (worker[w].pc = "await" /\ worker[w].xfer = Refused /\ same)
     /\ worker'[w].pc \in {"rearmList", "rearm"} =>
          \/ Unmade(p) /\ worker'[w].gen = generation[p]
          \/ worker[w].pc \in {"rearmList", "rearm"} /\ same
     /\ worker'[w].pc \in {"resolveList", "keep", "close"} =>
          Over(p) \/ (worker[w].pc \in {"resolveList", "keep", "close"} /\ same)
     /\ worker'[w].pc = "close" => AllBack(p) \/ (worker[w].pc = "close" /\ same)

LEMMA RefusalStays ==
  ASSUME NEW p, PInv(p), Frame(p), Refusal(p)
  PROVE  Refusal(p)'
<1>0. Sending(p) /\ \A q \in Sent(p) : kept[q[1]] # None
  BY DEF PInv, Refusal
<1>1. ASSUME NEW r \in Sent(p)' PROVE kept'[r[1]] # None
  BY <1>0, OutcomeStays
<1> QED
  BY <1>1 DEF Refusal, Frame

LEMMA PostingStays ==
  ASSUME NEW w, Posting(w), Carries(w), NEW p, worker'[w].who = p, PInv(p), Frame(p)
  PROVE  Posting(w)'
<1>1. generation'[p] = generation[p]
  BY DEF Frame
<1>2. ASSUME worker'[w].pc = "post", worker'[w].gen = generation'[p] PROVE Safe(worker[w].who)'
  <2>1. Safe(p)
    BY <1>1, <1>2 DEF Carries, Posting, At, Who
  <2>2. Safe(p)'
    BY <2>1, SafeStays
  <2> QED
    BY <2>2 DEF Safe, Own, Members, Key
<1>3. ASSUME worker'[w].pc = "await", worker'[w].xfer = Refused PROVE Refusal(worker[w].who)'
  <2>1. Refusal(p)
    BY <1>3 DEF Carries, Posting, At, Who
  <2>2. Refusal(p)'
    BY <2>1, RefusalStays
  <2> QED
    BY <2>2 DEF Refusal, Own, Members, Sent
<1> QED
  BY <1>2, <1>3 DEF Posting, At, Who

LEMMA OperatingStays ==
  ASSUME NEW o, Operating(o), Carries(o), NEW p, worker'[o].who = p, PInv(p), Frame(p), Calmer(p),
         worker'[o].gen \in Nat, generation[p] \in Nat
  PROVE  Operating(o)'
<1>0. generation'[p] = generation[p]
  BY DEF Frame
<1>1. Over(p) => Over(worker[o].who)'
  BY DEF Calmer, Over, LiveOf, Live, Of
<1>2. Unmade(p) => Unmade(worker[o].who)' \/ Over(worker[o].who)'
  <2>1. Over(p)' => Over(worker[o].who)'
    BY DEF Over, LiveOf, Live, Of
  <2>2. Unmade(p) => Unmade(p)' \/ Over(p)'
    BY DEF Unmade, Frame, Calmer
  <2>3. Unmade(p)' => Unmade(worker[o].who)'
    BY DEF Unmade, Own, Members, Sent
  <2> QED
    BY <2>1, <2>2, <2>3
<1>3. AllBack(p) => AllBack(worker[o].who)'
  <2>1. AllBack(p) => AllBack(p)'
    BY DEF AllBack, Frame
  <2>2. AllBack(p)' => AllBack(worker[o].who)'
    BY DEF AllBack, Own, Members, Sent
  <2> QED
    BY <2>1, <2>2
<1>4. ASSUME worker'[o].pc \in {"rearmList", "rearm"}
      PROVE  /\ worker'[o].gen <= generation'[p]
             /\ worker'[o].gen = generation'[p] => Over(worker[o].who)' \/ Unmade(worker[o].who)'
  <2>1. /\ worker'[o].gen <= generation[p]
        /\ worker'[o].gen = generation[p] => Over(p) \/ Unmade(p)
    BY <1>4 DEF Carries, Operating, Who
  <2> QED
    BY <1>0, <1>1, <1>2, <2>1
<1>5. worker'[o].pc \in {"resolveList", "keep", "close"} => Over(worker[o].who)'
  BY <1>1 DEF Carries, Operating, Who
<1>6. worker'[o].pc = "close" => AllBack(worker[o].who)'
  BY <1>3 DEF Carries, Operating, Who, At
<1> QED
  BY <1>4, <1>5, <1>6 DEF Operating, At, Who

LEMMA PlainStep ==
  ASSUME SInv, TInv, TInv', \A w \in Workers : Carries(w),
         \A p \in Partners : /\ Frame(p) /\ Calmer(p) /\ (Kept(p) \/ Unsent(p)')
                             /\ postedAt'[p] # "old" => postedAt[p] # "old"
  PROVE  SInv'
<1>1. ASSUME NEW p \in Partners PROVE PInv(p)'
  BY PartnerStays DEF SInv
<1>2. ASSUME NEW w \in Workers, worker'[w].pc \notin {"idle", "next"}
      PROVE  worker'[w].who \in Partners
  BY <1>2 DEF TInv, WInv, Roles, Coherent
<1>3. ASSUME NEW w \in Executors PROVE Posting(w)'
  <2>1. CASE worker'[w].pc \in {"idle", "next"}
    BY <2>1 DEF Posting, At
  <2>2. CASE worker'[w].pc \notin {"idle", "next"}
    <3>1. worker'[w].who \in Partners /\ Carries(w) /\ Posting(w)
      BY <1>2, <2>2 DEF SInv, Workers
    <3> QED
      BY <3>1, PostingStays DEF SInv
  <2> QED
    BY <2>1, <2>2
<1>4. ASSUME NEW o \in Operators PROVE Operating(o)'
  <2>1. CASE worker'[o].pc \in {"idle", "next"}
    BY <2>1 DEF Operating, At
  <2>2. CASE worker'[o].pc \notin {"idle", "next"}
    <3>1. worker'[o].who \in Partners /\ Carries(o) /\ Operating(o)
      BY <1>2, <2>2 DEF SInv, Workers
    <3>2. worker'[o].gen \in Nat /\ generation[worker'[o].who] \in Nat
      BY <3>1 DEF TInv, TypeOK, Workers, Processes, Generations
    <3> QED
      BY <3>1, <3>2, OperatingStays DEF SInv
  <2> QED
    BY <2>1, <2>2
<1> QED
  BY <1>1, <1>3, <1>4 DEF SInv

LEMMA SameCarries ==
  ASSUME NEW w, worker'[w] = worker[w]
  PROVE  Carries(w)
BY DEF Carries

\* Only one process moves.
LEMMA OneCarries ==
  ASSUME TInv, NEW w \in Workers, NEW r, worker' = [worker EXCEPT ![w] = r], Carries(w)
  PROVE  \A v \in Workers : Carries(v)
<1>1. \A v \in Workers : v # w => worker'[v] = worker[v]
  BY DEF TInv, TypeOK
<1> QED
  BY <1>1, SameCarries

LEMMA RestCarries ==
  ASSUME TInv, NEW w \in Workers, Rest(w)
  PROVE  \A v \in Workers : Carries(v)
<1>1. worker'[w].pc = "idle"
  BY DEF TInv, TypeOK, Rest, Resting
<1>2. Carries(w)
  BY <1>1 DEF Carries
<1> QED
  BY <1>2, OneCarries DEF Rest

LEMMA DoneCarries ==
  ASSUME TInv, NEW w \in Executors, Done(w)
  PROVE  \A v \in Workers : Carries(v)
<1>1. PICK r \in Processes : worker' = [worker EXCEPT ![w] = r] /\ r.pc = "next"
  BY GoesOn
<1>2. worker'[w].pc = "next" /\ w \in Workers
  BY <1>1 DEF TInv, TypeOK, Workers
<1>3. Carries(w)
  BY <1>2 DEF Carries
<1> QED
  BY <1>1, <1>2, <1>3, OneCarries

\* Stripe and the keys stay as they are,
StripeStays == UNCHANGED <<generation, made, foreign, back, kept>> /\ requests' \subseteq requests

LEMMA StripeFrame ==
  ASSUME StripeStays, NEW p
  PROVE  Frame(p)
BY DEF StripeStays, Frame, Own, Members, Gone, Sent

\* and so do the intents.
IntentsStay == UNCHANGED <<state, allocation>> /\ \A p \in Partners : postedAt'[p] # "old" => postedAt[p] # "old"

LEMMA IntentsCalm ==
  ASSUME IntentsStay, NEW p
  PROVE  Calmer(p) /\ Kept(p)
<1>1. LiveOf(p)' = LiveOf(p)
  BY DEF IntentsStay, LiveOf, Live, Of
<1> QED
  BY <1>1 DEF IntentsStay, Calmer, Kept, Over

LEMMA QuietStep ==
  ASSUME SInv, TInv, TInv', StripeStays, IntentsStay, \A w \in Workers : Carries(w)
  PROVE  SInv'
BY PlainStep, StripeFrame, IntentsCalm DEF IntentsStay

\* A change of the state of one intent.
LEMMA MoveStep ==
  ASSUME SInv, TInv, TInv', StripeStays, \A w \in Workers : Carries(w), UNCHANGED postedAt,
         NEW p \in Partners, Calmer(p), Kept(p) \/ Unsent(p)',
         \A q \in Partners \ {p} : state'[q] = state[q] /\ LiveOf(q)' = LiveOf(q)
  PROVE  SInv'
<1>1. ASSUME NEW q \in Partners \ {p} PROVE Calmer(q) /\ Kept(q)
  <2>1. state'[q] = state[q] /\ LiveOf(q)' = LiveOf(q)
    OBVIOUS
  <2> QED
    BY <2>1 DEF Calmer, Kept, Over
<1> QED
  BY <1>1, PlainStep, StripeFrame

-----------------------------------------------------------------------------
(* Each action.                                                               *)

\* The executor or the operator only looks, or gives up.
LEMMA LookSafe ==
  ASSUME SInv, TInv, TInv', NEW w \in Executors,
         Begin(w) \/ Stop(w) \/ Settle(w) \/ Unready(w) \/ CannotVerify(w) \/ List(w)
  PROVE  SInv'
<1> USE DEF Begin, Stop, Settle, Unready, CannotVerify, List, ledger, intents, stripe
<1>1. StripeStays /\ IntentsStay
  BY DEF StripeStays, IntentsStay
<1>2. \A v \in Workers : Carries(v)
  <2>0. w \in Workers
    BY DEF Workers
  <2>1. CASE Rest(w)
    BY <2>0, <2>1, RestCarries
  <2>2. CASE Done(w)
    BY <2>2, DoneCarries
  <2>3. CASE Begin(w)
    <3> DEFINE r == [Resting EXCEPT !.pc = "next", !.live = Live, !.todo = {a[1] : a \in Live}]
    <3>1. worker' = [worker EXCEPT ![w] = r] /\ r.pc = "next"
      BY <2>3 DEF Resting
    <3>2. worker'[w].pc = "next"
      BY <2>0, <3>1 DEF TInv, TypeOK
    <3>3. Carries(w)
      BY <3>2 DEF Carries
    <3> QED
      BY <2>0, <3>1, <3>3, OneCarries
  <2>4. CASE Go(w, "park")
    <3>1. worker'[w].pc = "park"
      BY <2>0, <2>4 DEF TInv, TypeOK, Go, Processes
    <3>2. Carries(w)
      BY <3>1 DEF Carries
    <3> QED
      BY <2>0, <2>4, <3>2, OneCarries DEF Go
  <2>5. CASE \E t \in Members(Who(w)) : GoWith(w, "adopt", t)
    <3>1. PICK t : GoWith(w, "adopt", t)
      BY <2>5
    <3>2. worker'[w].pc = "adopt"
      <4>1. worker \in [Workers -> Processes] /\ worker[w] \in Processes
        BY <2>0 DEF TInv, TypeOK
      <4>2. worker'[w] = [worker[w] EXCEPT !.pc = "adopt", !.xfer = t]
        BY <2>0, <3>1, <4>1 DEF GoWith
      <4> QED
        BY <4>1, <4>2 DEF Processes
    <3>3. Carries(w)
      BY <3>2 DEF Carries
    <3> QED
      BY <2>0, <3>1, <3>3, OneCarries DEF GoWith
  <2> QED
    BY <2>1, <2>2, <2>3, <2>4, <2>5
<1> QED
  BY <1>1, <1>2, QuietStep

\* What a pass takes up to post is safe to post.
LEMMA TakeSafe ==
  ASSUME SInv, IInv, TInv', NEW w \in Executors, NEW p \in Partners, Take(w, p)
  PROVE  SInv'
<1> USE DEF Take, ledger, intents, stripe
<1>0. w \in Workers /\ worker \in [Workers -> Processes] /\ worker[w] \in Processes /\ TInv
  BY DEF IInv, TInv, TypeOK, Workers
<1>1. StripeStays /\ IntentsStay
  BY DEF StripeStays, IntentsStay
<1>2. CASE Route(p) = "next"
  <2>1. worker'[w].pc = "next"
    BY <1>0, <1>2 DEF At, Processes
  <2>2. Carries(w)
    BY <2>1 DEF Carries
  <2>3. \A v \in Workers : v # w => worker'[v] = worker[v]
    BY <1>0, <1>2
  <2> QED
    BY <1>0, <1>1, <2>2, <2>3, SameCarries, QuietStep
<1>3. CASE Route(p) # "next"
  <2>1. worker'[w].pc = Route(p) /\ worker'[w].who = p
    BY <1>0, <1>3 DEF Processes
  <2>2. \A v \in Workers : v # w => worker'[v] = worker[v]
    BY <1>0, <1>3
  <2>3. Route(p) \in {"list", "create", "withhold", "cancel", "stale", "post"}
    BY <1>3 DEF Route
  <2>4. ASSUME Route(p) = "post" PROVE Safe(p)
    <3>1. state[p] \in {"pending", "failed"} \/ (state[p] = "posted" /\ postedAt[p] # "old")
      BY <2>4 DEF Route, IInv, TInv, TypeOK, States
    <3>2. state[p] = "failed" => LiveOf(p) # {}
      BY DEF IInv, Passing, Visits, At, Shape, Shaped
    <3> QED
      BY <3>1, <3>2 DEF SInv, PInv, Unsent, Sending, Safe
  <2>5. Carries(w)
    BY <2>1, <2>3, <2>4 DEF Carries
  <2> QED
    BY <1>0, <1>1, <2>2, <2>5, SameCarries, QuietStep
<1> QED
  BY <1>2, <1>3

LEMMA ForsakeFrame ==
  ASSUME TypeOK, NEW w \in Workers, Forsake(w), UNCHANGED <<generation, made, foreign, back, kept>>, NEW p
  PROVE  Frame(p)
<1>1. ASSUME NEW r \in requests' PROVE \E q \in requests : q[1] = r[1]
  <2>1. CASE r \in requests
    BY <2>1
  <2>2. CASE r \notin requests
    <3>1. PICK q \in requests : r = <<q[1], None>>
      BY <2>2 DEF Forsake
    <3> QED
      BY <3>1
  <2> QED
    BY <2>1, <2>2
<1> QED
  BY <1>1 DEF Frame, Own, Members, Gone, Sent

LEMMA LostSafe ==
  ASSUME SInv, TInv, TInv', NEW w \in Workers, Crash(w) \/ (w \in Executors /\ PostAmbiguous(w))
  PROVE  SInv'
<1> USE DEF Crash, PostAmbiguous, ledger, intents
<1>1. \A v \in Workers : Carries(v)
  BY RestCarries, DoneCarries
<1>2. IntentsStay
  BY DEF IntentsStay
<1>3. \A p \in Partners : Frame(p)
  BY ForsakeFrame DEF TInv
<1> QED
  BY <1>1, <1>2, <1>3, IntentsCalm, PlainStep DEF IntentsStay

\* The rest of the world, but for Stripe's own steps.
LEMMA ApartSafe ==
  ASSUME SInv, IInv, TInv',
         \/ \E e \in events : HookCreated(e) \/ HookReversed(e) \/ LoseEvent(e)
         \/ \E p \in Partners : Sweep(p) \/ WindowPasses(p) \/ ToggleHold(p)
         \/ \E r \in requests : Drop(r)
         \/ Clawback
         \/ UNCHANGED vars
  PROVE  SInv'
<1>1. /\ UNCHANGED <<allocation, generation, state, worker, made, foreign, back, kept>>
      /\ requests' \subseteq requests
      /\ \A p \in Partners : postedAt'[p] # "old" => postedAt[p] # "old"
  BY DEF HookCreated, HookReversed, LoseEvent, Sweep, WindowPasses, ToggleHold, Drop, Clawback, vars,
         ledger, intents, stripe, IInv, TInv, TypeOK
<1>2. StripeStays /\ IntentsStay
  BY <1>1 DEF StripeStays, IntentsStay
<1> QED
  BY <1>1, <1>2, SameCarries, QuietStep DEF IInv

LEMMA OutsideSafe ==
  ASSUME SInv, TInv, TInv', NEW p \in Partners, OutsideTransfer(p)
  PROVE  SInv'
<1> USE DEF OutsideTransfer, ledger, intents
<1>0. PICK t \in Transfers : NextTransfer(t, p) /\ made' = made \cup {t} /\ foreign' = foreign \cup {t}
  OBVIOUS
<1>1. ASSUME NEW q \in Partners PROVE Frame(q)
  <2>1. Own(q)' = Own(q)
    BY <1>0 DEF NextTransfer, Own, Members
  <2> QED
    BY <2>1 DEF Frame, Sent, Gone
<1>2. IntentsStay
  BY DEF IntentsStay
<1> QED
  BY <1>1, <1>2, SameCarries, IntentsCalm, PlainStep DEF IntentsStay

LEMMA StripeReversesSafe ==
  ASSUME SInv, TInv, TInv', NEW t \in Transfers, NEW b \in Returned, StripeReverses(t, b)
  PROVE  SInv'
<1> USE DEF StripeReverses, ledger, intents
<1>1. ASSUME NEW q \in Partners PROVE Frame(q)
  <2>1. \A u \in Own(q) : Gone(u) => Gone(u)'
    BY DEF Gone, TInv, TypeOK, Own, Members
  <2> QED
    BY <2>1 DEF Frame, Sent, Own, Members
<1>2. IntentsStay
  BY DEF IntentsStay
<1> QED
  BY <1>1, <1>2, SameCarries, IntentsCalm, PlainStep DEF IntentsStay

\* A reversal of a commission, or a hold before there is an intent.
LEMMA CancelsSafe ==
  ASSUME SInv, IInv, TInv', NEW p \in Partners, NEW S, Cancels(p, S), StripeStays, UNCHANGED postedAt,
         \A v \in Workers : Carries(v)
  PROVE  SInv'
<1>1. Live' \subseteq Live /\ \A q \in Partners : state[q] # "none" => LiveOf(q)' = LiveOf(q)
  BY CancelsShapes
<1>2. ASSUME NEW q \in Partners PROVE Calmer(q) /\ Kept(q)
  <2>1. state'[q] = state[q] /\ (state[q] # "none" => LiveOf(q)' = LiveOf(q))
    BY <1>1 DEF Cancels
  <2> QED
    BY <2>1 DEF Calmer, Kept, Over
<1> QED
  BY <1>2, PlainStep, StripeFrame DEF IInv

LEMMA ReverseCommissionSafe ==
  ASSUME SInv, IInv, TInv', NEW a \in Allocations, ReverseCommission(a)
  PROVE  SInv'
<1> USE DEF ReverseCommission, intents, stripe
<1>1. a[1] \in Partners /\ a \in Of(a[1]) /\ TypeOK
  BY AllocationTypes DEF IInv, TInv
<1> DEFINE S == IF allocation[a] = "reserved" THEN {a} ELSE {}
<1>2. Cancels(a[1], S)
  BY <1>1 DEF Cancels, Put, TypeOK
<1> HIDE DEF S
<1>3. StripeStays
  BY DEF StripeStays
<1> QED
  BY <1>1, <1>2, <1>3, SameCarries, CancelsSafe

LEMMA WithholdSafe ==
  ASSUME SInv, IInv, TInv', NEW w \in Executors, Withhold(w)
  PROVE  SInv'
<1> USE DEF Withhold, intents, stripe
<1>1. Who(w) \in Partners /\ StripeStays /\ \A v \in Workers : Carries(v)
  BY InHand, DoneCarries DEF IInv, At, Workers, StripeStays
<1> DEFINE S == IF batch = "transferring" THEN {a \in Of(Who(w)) : allocation[a] = "reserved"} ELSE {}
<1>2. Cancels(Who(w), S)
  BY DEF Cancels, IInv, TInv, TypeOK, Put
<1> HIDE DEF S
<1> QED
  BY <1>1, <1>2, CancelsSafe

\* The transaction that makes an intent.
LEMMA CreateSafe ==
  ASSUME SInv, IInv, IInv', NEW w \in Executors, Create(w)
  PROVE  SInv'
<1> USE DEF Create, intents, stripe
<1> DEFINE p == Who(w)
<1>0. /\ p \in Partners /\ state[p] = "none" /\ w \in Workers /\ TInv /\ TInv' /\ TypeOK
      /\ Own(p) = {} /\ Sent(p) = {}
  BY InHand DEF IInv, TInv, Passing, At, Workers, SInv, PInv, Unsent
<1>1. StripeStays
  BY DEF StripeStays
<1>2. CASE UNCHANGED <<allocation, state, frozen>> /\ (Done(w) \/ Rest(w))
  <2>1. IntentsStay
    BY <1>2 DEF IntentsStay
  <2>2. \A v \in Workers : Carries(v)
    BY <1>0, <1>2, DoneCarries, RestCarries
  <2> QED
    BY <1>0, <1>1, <2>1, <2>2, QuietStep
<1>3. CASE /\ \A a \in Group(w) : allocation[a] = "reserved"
           /\ allocation' = Put(Group(w), "transfer_pending")
           /\ state' = [state EXCEPT ![p] = "pending"]
           /\ Go(w, "post")
  <2>1. \A q \in Partners : LiveOf(q)' = LiveOf(q)
    BY <1>3 DEF LiveOf, Live, Put, Of
  <2>2. \A q \in Partners \ {p} : state'[q] = state[q]
    BY <1>0, <1>3 DEF TypeOK
  <2>3. worker'[w].pc = "post" /\ worker'[w].who = p
    <3>1. worker'[w] = [worker[w] EXCEPT !.pc = "post"] /\ worker[w] \in Processes
      BY <1>0, <1>3 DEF Go, TypeOK
    <3> QED
      BY <3>1 DEF Processes, Who
  <2>4. Carries(w)
    BY <1>0, <2>3 DEF Carries, Safe
  <2>5. \A v \in Workers : Carries(v)
    BY <1>0, <1>3, <2>4, OneCarries DEF Go
  <2>6. ASSUME NEW q \in Partners PROVE Frame(q) /\ Calmer(q) /\ (Kept(q) \/ Unsent(q)')
    <3>1. Frame(q)
      BY <1>1, StripeFrame
    <3>2. CASE q = p
      <4>1. state[q] = "none" /\ state'[q] = "pending" /\ Own(q)' = {} /\ Sent(q)' = {}
        BY <1>0, <1>3, <3>1, <3>2 DEF Frame, TypeOK
      <4> QED
        BY <3>1, <4>1 DEF Calmer, Unsent, Over
    <3>3. CASE q # p
      <4>1. state'[q] = state[q] /\ LiveOf(q)' = LiveOf(q)
        BY <2>1, <2>2, <3>3
      <4> QED
        BY <3>1, <4>1 DEF Calmer, Kept, Over
    <3> QED
      BY <3>2, <3>3
  <2> QED
    BY <1>0, <2>5, <2>6, PlainStep
<1> QED
  BY <1>2, <1>3

\* Everything of an intent is withheld that has made no transfer, or only such
\* as came back.
LEMMA AbandonsSafe ==
  ASSUME SInv, IInv, IInv', NEW p \in Partners, Abandons(p), StripeStays, UNCHANGED postedAt,
         \A v \in Workers : Carries(v),
         \A t \in Own(p) : Gone(t), \A r \in Sent(p) : kept[r[1]] # None
  PROVE  SInv'
<1>1. \A q \in Partners \ {p} : LiveOf(q)' = LiveOf(q) /\ state'[q] = state[q]
  BY AbandonsShapes DEF Abandons, IInv, TInv, TypeOK
<1>2. state'[p] = "failed" /\ LiveOf(p)' = {}
  BY DEF Abandons, IInv, TInv, TypeOK, LiveOf, Live, Of, Put
<1>3. Frame(p) /\ Sending(p)
  BY StripeFrame DEF SInv, PInv
<1>4. Unsent(p)'
  <2>1. \A r \in Sent(p)' : kept'[r[1]] # None
    BY <1>3, OutcomeStays
  <2>2. \A t \in Own(p)' : Gone(t)'
    BY <1>3 DEF Frame
  <2> QED
    BY <1>2, <2>1, <2>2 DEF Unsent
<1>5. Calmer(p)
  BY <1>2 DEF Calmer, Over
<1> QED
  BY <1>1, <1>4, <1>5, MoveStep DEF IInv

LEMMA CancelSafe ==
  ASSUME SInv, IInv, IInv', NEW w \in Executors, Cancel(w)
  PROVE  SInv'
<1> USE DEF Cancel, intents, stripe
<1>1. /\ Who(w) \in Partners /\ StripeStays /\ \A v \in Workers : Carries(v)
      /\ ~ At(w, "idle") /\ ~ At(w, "next")
  BY InHand, DoneCarries DEF IInv, At, Workers, StripeStays
<1>2. CASE batch = "transferring" /\ state[Who(w)] \in {"pending", "failed"}
  <2>1. Abandons(Who(w))
    BY <1>2 DEF Abandons, LiveOf, Active, Open
  <2>2. LiveOf(Who(w)) # {}
    BY <1>1, <1>2, InPass DEF Active, Open, IInv, Shape, Shaped
  <2>3. Own(Who(w)) = {} /\ \A r \in Sent(Who(w)) : kept[r[1]] # None
    BY <1>1, <1>2, <2>2 DEF SInv, PInv, Unsent
  <2> QED
    BY <1>1, <2>1, <2>3, AbandonsSafe
<1>3. CASE ~ (batch = "transferring" /\ state[Who(w)] \in {"pending", "failed"})
  BY <1>1, <1>3, QuietStep DEF IInv, IntentsStay
<1> QED
  BY <1>2, <1>3

LEMMA CloseReversedSafe ==
  ASSUME SInv, IInv, IInv', NEW o \in Operators, CloseReversed(o)
  PROVE  SInv'
<1> USE DEF CloseReversed, intents, stripe
<1>1. Who(o) \in Partners /\ StripeStays /\ \A v \in Workers : Carries(v)
  BY InHand, RestCarries DEF IInv, At, Workers, StripeStays
<1>2. CASE Unmoved(o)
  <2>1. Abandons(Who(o))
    BY <1>2 DEF Abandons, LiveOf, Unmoved, Ours, Active, Open
  <2>2. AllBack(Who(o))
    BY DEF SInv, Operating
  <2> QED
    BY <1>1, <2>1, <2>2, AbandonsSafe DEF AllBack
<1>3. CASE ~ Unmoved(o)
  BY <1>1, <1>3, QuietStep DEF IInv, IntentsStay
<1> QED
  BY <1>2, <1>3

\* An intent that is paid is over.
LEMMA PaysSafe ==
  ASSUME SInv, IInv, IInv', NEW p \in Partners, Pays(p), StripeStays, UNCHANGED postedAt,
         \A v \in Workers : Carries(v)
  PROVE  SInv'
<1>1. \A q \in Partners \ {p} : LiveOf(q)' = LiveOf(q) /\ state'[q] = state[q]
  BY PaysShapes DEF Pays, IInv, TInv, TypeOK
<1>2. state'[p] = "confirmed"
  BY DEF Pays, IInv, TInv, TypeOK
<1>3. Calmer(p) /\ Kept(p)
  BY <1>2 DEF Calmer, Kept, Over
<1> QED
  BY <1>1, <1>3, MoveStep DEF IInv

LEMMA PostReturnsSafe ==
  ASSUME SInv, IInv, IInv', NEW w \in Executors, PostReturns(w)
  PROVE  SInv'
<1>0. ~ At(w, "idle") /\ ~ At(w, "next") /\ Done(w)
  BY DEF PostReturns, At
<1>1. \A v \in Workers : Carries(v)
  BY <1>0, DoneCarries DEF IInv
<1>2. CASE Ours(w, {"posted", "reconcile_required"})
  <2>1. state[Who(w)] \in Open /\ state[Who(w)] \in Active
    BY <1>2 DEF Ours, Open, Active
  <2>2. Finalize(Who(w), worker[w].xfer, Group(w), TRUE)
    BY <1>2 DEF PostReturns, Finalize
  <2>3. Group(w) = LiveOf(Who(w)) /\ Who(w) \in Partners
    BY <1>0, <2>1, InPass
  <2>4. Pays(Who(w))
    BY <2>1, <2>2, <2>3, FinalizePays
  <2>5. StripeStays /\ UNCHANGED postedAt
    BY <2>2 DEF Finalize, StripeStays, stripe
  <2> QED
    BY <1>1, <2>3, <2>4, <2>5, PaysSafe
<1>3. CASE ~ Ours(w, {"posted", "reconcile_required"})
  <2>1. StripeStays /\ IntentsStay
    BY <1>3 DEF PostReturns, Finalize, StripeStays, IntentsStay, stripe, intents, ledger
  <2> QED
    BY <1>1, <2>1, QuietStep DEF IInv
<1> QED
  BY <1>2, <1>3

LEMMA AdoptSafe ==
  ASSUME SInv, IInv, IInv', NEW w \in Executors, Adopt(w)
  PROVE  SInv'
<1>0. Who(w) \in Partners /\ \A v \in Workers : Carries(v)
  BY InHand, DoneCarries DEF IInv, At, Workers, Adopt
<1>1. CASE Ours(w, {"reconcile_required"})
  <2>1. state[Who(w)] \in Open
    BY <1>1 DEF Ours, Open
  <2>2. Finalize(Who(w), worker[w].xfer, LiveOf(Who(w)), TRUE)
    BY <1>1 DEF Adopt, Finalize, LiveOf
  <2>3. Pays(Who(w))
    BY <1>0, <2>1, <2>2, FinalizePays
  <2>4. StripeStays /\ UNCHANGED postedAt
    BY <2>2 DEF Finalize, StripeStays, stripe
  <2> QED
    BY <1>0, <2>3, <2>4, PaysSafe
<1>2. CASE ~ Ours(w, {"reconcile_required"})
  <2>1. StripeStays /\ IntentsStay
    BY <1>2 DEF Adopt, Finalize, StripeStays, IntentsStay, stripe, intents, ledger
  <2> QED
    BY <1>0, <2>1, QuietStep DEF IInv
<1> QED
  BY <1>1, <1>2

LEMMA KeepSafe ==
  ASSUME SInv, IInv, IInv', NEW o \in Operators, Keep(o)
  PROVE  SInv'
<1>0. Who(o) \in Partners /\ \A v \in Workers : Carries(v)
  BY InHand, RestCarries DEF IInv, At, Workers, Keep
<1>1. CASE Unmoved(o)
  <2>1. state[Who(o)] \in Open
    BY <1>1 DEF Unmoved, Ours, Open
  <2>2. Finalize(Who(o), worker[o].xfer, LiveOf(Who(o)), TRUE)
    BY <1>1 DEF Keep, Finalize, LiveOf
  <2>3. Pays(Who(o))
    BY <1>0, <2>1, <2>2, FinalizePays
  <2>4. StripeStays /\ UNCHANGED postedAt
    BY <2>2 DEF Finalize, StripeStays, stripe
  <2> QED
    BY <1>0, <2>3, <2>4, PaysSafe
<1>2. CASE ~ Unmoved(o)
  <2>1. StripeStays /\ IntentsStay
    BY <1>2 DEF Keep, Finalize, StripeStays, IntentsStay, stripe, intents, ledger
  <2> QED
    BY <1>0, <2>1, QuietStep DEF IInv
<1> QED
  BY <1>1, <1>2

\* A compare-and-set on the state of an intent: it is held, parked or closed,
LEMMA CompareSafe ==
  ASSUME SInv, IInv, TInv', NEW p \in Partners, NEW s \in {"reconcile_required", "duplicate_review"},
         state[p] = "posted" \/ s = "duplicate_review",
         UNCHANGED <<allocation, postedAt>>, state' = [state EXCEPT ![p] = s],
         StripeStays, \A v \in Workers : Carries(v)
  PROVE  SInv'
<1>1. state'[p] = s /\ \A q \in Partners \ {p} : LiveOf(q)' = LiveOf(q) /\ state'[q] = state[q]
  BY DEF LiveOf, Live, Of, IInv, TInv, TypeOK
<1>2. Calmer(p) /\ Kept(p)
  BY <1>1 DEF Calmer, Kept, Over
<1> QED
  BY <1>1, <1>2, MoveStep DEF IInv

\* or it failed, and made nothing.
LEMMA FailedSafe ==
  ASSUME SInv, IInv, TInv', NEW p \in Partners, state[p] = "posted", Refusal(p),
         UNCHANGED <<allocation, postedAt>>, state' = [state EXCEPT ![p] = "failed"],
         StripeStays, \A v \in Workers : Carries(v)
  PROVE  SInv'
<1>1. state'[p] = "failed" /\ \A q \in Partners \ {p} : LiveOf(q)' = LiveOf(q) /\ state'[q] = state[q]
  BY DEF LiveOf, Live, Of, IInv, TInv, TypeOK
<1>2. Refusal(p)'
  BY StripeFrame, RefusalStays DEF SInv
<1>3. Unsent(p)' /\ Calmer(p)
  BY <1>1, <1>2 DEF Refusal, Unsent, Calmer, Over
<1> QED
  BY <1>1, <1>3, MoveStep DEF IInv

LEMMA PostRefusedSafe ==
  ASSUME SInv, IInv, TInv', NEW w \in Executors, PostRefused(w)
  PROVE  SInv'
<1> USE DEF PostRefused, ledger, stripe
<1>1. Who(w) \in Partners /\ StripeStays /\ \A v \in Workers : Carries(v)
  BY InHand, DoneCarries DEF IInv, At, Workers, StripeStays
<1>2. CASE Ours(w, {"posted"})
  <2>1. state[Who(w)] = "posted" /\ Refusal(Who(w))
    BY <1>2 DEF Ours, SInv, Posting
  <2> QED
    BY <1>1, <1>2, <2>1, FailedSafe
<1>3. CASE ~ Ours(w, {"posted"})
  BY <1>1, <1>3, QuietStep DEF IInv, IntentsStay
<1> QED
  BY <1>2, <1>3

LEMMA StaleSafe ==
  ASSUME SInv, IInv, TInv', NEW w \in Executors, Stale(w)
  PROVE  SInv'
<1> USE DEF Stale, ledger, stripe
<1>0. Who(w) \in Partners /\ StripeStays /\ w \in Workers
  BY InHand DEF IInv, At, Workers, StripeStays
<1>1. \A v \in Workers : Carries(v)
  <2>1. worker'[w].pc = "list"
    BY <1>0 DEF IInv, TInv, TypeOK, Go, Processes
  <2>2. Carries(w)
    BY <2>1 DEF Carries
  <2> QED
    BY <1>0, <2>2, OneCarries DEF Go, IInv
<1>2. CASE state[Who(w)] = "posted"
  BY <1>0, <1>1, <1>2, CompareSafe
<1>3. CASE state[Who(w)] # "posted"
  BY <1>0, <1>1, <1>3, QuietStep DEF IInv, IntentsStay
<1> QED
  BY <1>2, <1>3

LEMMA ParkSafe ==
  ASSUME SInv, IInv, TInv', NEW w \in Executors, Park(w)
  PROVE  SInv'
<1> USE DEF Park, ledger, stripe
<1>0. Who(w) \in Partners /\ StripeStays /\ \A v \in Workers : Carries(v)
  BY InHand, DoneCarries DEF IInv, At, Workers, StripeStays
<1>1. CASE Ours(w, {"posted", "reconcile_required"})
  BY <1>0, <1>1, CompareSafe
<1>2. CASE ~ Ours(w, {"posted", "reconcile_required"})
  BY <1>0, <1>2, QuietStep DEF IInv, IntentsStay
<1> QED
  BY <1>1, <1>2

\* What an operator reads is as he is trusted to say.
LEMMA BeginsHand ==
  ASSUME TInv, NEW o \in Operators, NEW p \in Partners, NEW l, Begins(o, l, p)
  PROVE  /\ worker'[o].pc = l /\ worker'[o].who = p /\ worker'[o].gen = generation[p]
         /\ \A v \in Workers : v # o => worker'[v] = worker[v]
BY DEF TInv, TypeOK, Begins, Resting, Workers

LEMMA ReadSafe ==
  ASSUME Truthful, SInv, TInv, TInv', NEW o \in Operators, NEW p \in Partners, RearmRead(o, p) \/ ResolveRead(o, p)
  PROVE  SInv'
<1> USE DEF RearmRead, ResolveRead, ledger, intents, stripe
<1>1. StripeStays /\ IntentsStay
  BY DEF StripeStays, IntentsStay
<1>2. CASE RearmRead(o, p)
  <2>1. worker'[o].pc = "rearmList" /\ worker'[o].who = p /\ worker'[o].gen = generation[p]
        /\ \A v \in Workers : v # o => worker'[v] = worker[v]
    BY <1>2, BeginsHand
  <2>2. Unmade(p)
    BY <1>2 DEF Unmade, AssertsTrue, NoneToCome, Own, Sent
  <2>3. Carries(o)
    BY <2>1, <2>2 DEF Carries
  <2> QED
    BY <1>1, <2>1, <2>3, SameCarries, QuietStep
<1>3. CASE ResolveRead(o, p)
  <2>1. worker'[o].pc = "resolveList" /\ worker'[o].who = p /\ worker'[o].gen = generation[p]
        /\ \A v \in Workers : v # o => worker'[v] = worker[v]
    BY <1>3, BeginsHand
  <2>2. Over(p)
    BY <1>3 DEF Over
  <2>3. Carries(o)
    BY <2>1, <2>2 DEF Carries
  <2> QED
    BY <1>1, <2>1, <2>3, SameCarries, QuietStep
<1> QED
  BY <1>2, <1>3

LEMMA OperatorListSafe ==
  ASSUME Truthful, SInv, TInv, TInv', NEW o \in Operators, RearmList(o) \/ ResolveList(o)
  PROVE  SInv'
<1> USE DEF RearmList, ResolveList, ledger, intents, stripe
<1>0. /\ StripeStays /\ IntentsStay /\ o \in Workers
      /\ worker \in [Workers -> Processes] /\ worker[o] \in Processes
  BY DEF StripeStays, IntentsStay, Workers, TInv, TypeOK
<1>1. CASE Rest(o)
  BY <1>0, <1>1, RestCarries, QuietStep
<1>2. ASSUME NEW l, Go(o, l) \/ \E t : GoWith(o, l, t)
      PROVE  /\ worker'[o].pc = l /\ worker'[o].who = worker[o].who /\ worker'[o].gen = worker[o].gen
             /\ \A v \in Workers : v # o => worker'[v] = worker[v]
  <2>1. CASE Go(o, l)
    <3>1. worker'[o] = [worker[o] EXCEPT !.pc = l] /\ \A v \in Workers : v # o => worker'[v] = worker[v]
      BY <1>0, <2>1 DEF Go
    <3> QED
      BY <1>0, <3>1 DEF Processes
  <2>2. CASE \E t : GoWith(o, l, t)
    <3>0. PICK t : GoWith(o, l, t)
      BY <2>2
    <3>1. worker'[o] = [worker[o] EXCEPT !.pc = l, !.xfer = t]
          /\ \A v \in Workers : v # o => worker'[v] = worker[v]
      BY <1>0, <3>0 DEF GoWith
    <3> QED
      BY <1>0, <3>1 DEF Processes
  <2> QED
    BY <1>2, <2>1, <2>2
<1>3. CASE At(o, "rearmList") /\ Go(o, "rearm")
  <2>1. worker'[o].pc = "rearm" /\ worker'[o].who = worker[o].who /\ worker'[o].gen = worker[o].gen
        /\ \A v \in Workers : v # o => worker'[v] = worker[v]
    BY <1>2, <1>3
  <2>2. Carries(o)
    BY <1>3, <2>1 DEF Carries, At
  <2> QED
    BY <1>0, <2>1, <2>2, SameCarries, QuietStep
<1>4. CASE At(o, "resolveList") /\ \E t \in Members(Who(o)) : GoWith(o, "keep", t)
  <2>0. \E t : GoWith(o, "keep", t)
    BY <1>4
  <2>1. worker'[o].pc = "keep" /\ worker'[o].who = worker[o].who /\ worker'[o].gen = worker[o].gen
        /\ \A v \in Workers : v # o => worker'[v] = worker[v]
    BY <1>2, <2>0
  <2>2. Carries(o)
    BY <1>4, <2>1 DEF Carries, At
  <2> QED
    BY <1>0, <2>1, <2>2, SameCarries, QuietStep
<1>5. CASE At(o, "resolveList") /\ Go(o, "close") /\ (\A t \in Members(Who(o)) : Gone(t)) /\ NoneToCome(Who(o))
  <2>1. worker'[o].pc = "close" /\ worker'[o].who = worker[o].who /\ worker'[o].gen = worker[o].gen
        /\ \A v \in Workers : v # o => worker'[v] = worker[v]
    BY <1>2, <1>5
  <2>2. AllBack(Who(o))
    BY <1>5 DEF AllBack, Own, NoneToCome, Sent
  <2>3. Carries(o)
    BY <1>5, <2>1, <2>2 DEF Carries, At, Who
  <2> QED
    BY <1>0, <2>1, <2>3, SameCarries, QuietStep
<1> QED
  BY <1>1, <1>3, <1>4, <1>5

\* A new key is given out for an intent of which no transfer exists.
LEMMA RearmSafe ==
  ASSUME SInv, TInv, TInv', NEW o \in Operators, Rearm(o)
  PROVE  SInv'
<1> USE DEF Rearm, ledger, stripe
<1> DEFINE p == Who(o)
<1>0. p \in Partners /\ o \in Workers /\ \A v \in Workers : Carries(v)
  BY InHand, RestCarries DEF At, Workers
<1>1. CASE ~ (Ours(o, {"reconcile_required"}) /\ worker[o].gen < MaxGeneration)
  BY <1>0, <1>1, QuietStep DEF StripeStays, IntentsStay
<1>2. CASE Ours(o, {"reconcile_required"}) /\ worker[o].gen < MaxGeneration
  <2>1. Unmade(p)
    BY <1>2 DEF SInv, Operating, At, Ours, Over
  <2>2. /\ state' = [state EXCEPT ![p] = "pending"] /\ state'[p] = "pending"
        /\ generation'[p] = generation[p] + 1 /\ generation[p] \in Nat /\ generation'[p] \in Nat
        /\ \A q \in Partners \ {p} : generation'[q] = generation[q] /\ state'[q] = state[q]
                                     /\ postedAt'[q] = postedAt[q]
    BY <1>0, <1>2 DEF TInv, TypeOK, Generations
  <2>3. UNCHANGED <<made, foreign, back, kept, requests, allocation>>
    OBVIOUS
  <2>4. ASSUME NEW q \in Partners \ {p} PROVE Frame(q) /\ Calmer(q) /\ Kept(q) /\ postedAt'[q] = postedAt[q]
    <3>1. LiveOf(q)' = LiveOf(q)
      BY <2>3 DEF LiveOf, Live, Of
    <3> QED
      BY <2>2, <2>3, <3>1 DEF Frame, Calmer, Kept, Own, Members, Sent, Gone, Over
  <2>5. ASSUME NEW q \in Partners PROVE PInv(q)'
    <3>1. CASE q = p
      <4>1. Own(q)' = {} /\ Sent(q)' = {} /\ state'[q] = "pending"
        BY <2>1, <2>2, <2>3, <3>1 DEF Unmade, Own, Members, Sent
      <4> QED
        BY <4>1 DEF PInv, Sending, Unsent, AtMostOne, Safe
    <3>2. CASE q # p
      BY <2>4, <3>2, PartnerStays DEF SInv
    <3> QED
      BY <3>1, <3>2
  <2>6. worker'[o].pc = "idle" /\ \A v \in Workers : v # o => worker'[v] = worker[v]
    BY <1>0 DEF Rest, TInv, TypeOK, Resting
  <2>7. ASSUME NEW v \in Executors PROVE Posting(v)'
    <3>1. v # o /\ worker'[v] = worker[v]
      BY <2>6, TransferAssumption DEF Workers
    <3>2. CASE worker[v].pc \in {"post", "await"}
      <4> DEFINE q == worker[v].who
      <4>1. q \in Partners
        BY <3>2, InHand DEF Workers, Who
      <4>2. CASE q = p
        <5>1. Own(worker[v].who)' = {} /\ Sent(worker[v].who)' = {}
          BY <2>1, <2>3, <3>1, <4>2 DEF Unmade, Own, Members, Sent
        <5> QED
          BY <5>1 DEF Posting, Safe, Refusal, Who
      <4>3. CASE q # p
        <5>1. Frame(q) /\ PInv(q) /\ worker'[v].who = q /\ Posting(v) /\ Carries(v)
          BY <1>0, <2>4, <3>1, <4>1, <4>3 DEF SInv, Workers
        <5>2. ASSUME NEW u, u = q PROVE Posting(v)'
          BY <5>1, <5>2, PostingStays
        <5> QED
          BY <5>2
      <4> QED
        BY <4>2, <4>3
    <3>3. CASE worker[v].pc \notin {"post", "await"}
      BY <3>1, <3>3 DEF Posting, At
    <3> QED
      BY <3>2, <3>3
  <2>8. ASSUME NEW v \in Operators PROVE Operating(v)'
    <3>1. CASE v = o
      BY <2>6, <3>1 DEF Operating, At
    <3>2. CASE v # o /\ worker[v].pc = "idle"
      BY <2>6, <3>2 DEF Operating, At, Workers
    <3>3. CASE v # o /\ worker[v].pc # "idle"
      <4>1. worker'[v] = worker[v] /\ Operating(v) /\ worker[v].who \in Partners /\ worker[v].gen \in Nat
        BY <2>6, <3>3, InHand DEF SInv, Workers, Processes, Generations, Who, TInv, WInv, Roles, OperatorLabels
      <4>2. CASE worker[v].who = p
        <5>1. worker[v].pc \notin {"resolveList", "keep", "close"}
          BY <2>1, <4>1, <4>2 DEF Operating, Over, Unmade, Who
        <5>2. worker[v].gen <= generation[p]
          BY <3>3, <4>1, <4>2, <5>1 DEF Operating, Who, TInv, WInv, Roles, OperatorLabels
        <5>3. worker'[v].gen < generation'[worker'[v].who]
          BY <2>2, <4>1, <4>2, <5>2
        <5> QED
          BY <2>2, <4>1, <4>2, <5>1, <5>3 DEF Operating, At, Who
      <4>3. CASE worker[v].who # p
        <5>1. ASSUME NEW u \in Partners \ {p}, u = worker[v].who PROVE Operating(v)'
          <6>1. Frame(u) /\ Calmer(u) /\ PInv(u) /\ generation[u] \in Nat /\ Carries(v)
            BY <1>0, <2>4 DEF SInv, TInv, TypeOK, Generations, Workers
          <6> QED
            BY <4>1, <5>1, <6>1, OperatingStays
        <5> QED
          BY <4>1, <4>3, <5>1
      <4> QED
        BY <4>2, <4>3
    <3> QED
      BY <3>1, <3>2, <3>3
  <2> QED
    BY <2>5, <2>7, <2>8 DEF SInv
<1> QED
  BY <1>1, <1>2

-----------------------------------------------------------------------------
(* The POST, and what Stripe does with it.                                    *)

\* A step that changes what exists of one partner.
LEMMA OthersStay ==
  ASSUME SInv, TInv, TInv', NEW p \in Partners, PInv(p)',
         \A v \in Workers : worker'[v].who # p => Carries(v),
         \A q \in Partners \ {p} : Frame(q) /\ Calmer(q) /\ Kept(q) /\ postedAt'[q] = postedAt[q],
         \A v \in Executors : worker'[v].pc \in {"post", "await"} /\ worker'[v].who = p => Posting(v)',
         \A o \in Operators : worker'[o].pc # "idle" /\ worker'[o].who = p => Operating(o)'
  PROVE  SInv'
<1>1. ASSUME NEW q \in Partners PROVE PInv(q)'
  BY PartnerStays DEF SInv
<1>2. ASSUME NEW w \in Workers, worker'[w].pc \notin {"idle", "next"}
      PROVE  worker'[w].who \in Partners
  BY <1>2 DEF TInv, WInv, Roles, Coherent
<1>3. ASSUME NEW w \in Executors PROVE Posting(w)'
  <2>1. CASE worker'[w].pc \notin {"post", "await"}
    BY <2>1 DEF Posting, At
  <2>2. CASE worker'[w].pc \in {"post", "await"} /\ worker'[w].who # p
    <3>1. worker'[w].who \in Partners \ {p} /\ Carries(w) /\ Posting(w)
      BY <1>2, <2>2 DEF SInv, Workers
    <3> QED
      BY <3>1, PostingStays DEF SInv
  <2> QED
    BY <2>1, <2>2
<1>4. ASSUME NEW o \in Operators PROVE Operating(o)'
  <2>1. CASE worker'[o].pc \in {"idle", "next"}
    BY <2>1 DEF Operating, At
  <2>2. CASE worker'[o].pc \notin {"idle", "next"} /\ worker'[o].who # p
    <3>1. worker'[o].who \in Partners \ {p} /\ Carries(o) /\ Operating(o)
      BY <1>2, <2>2 DEF SInv, Workers
    <3>2. worker'[o].gen \in Nat /\ generation[worker'[o].who] \in Nat
      BY <3>1 DEF TInv, TypeOK, Workers, Processes, Generations
    <3> QED
      BY <3>1, <3>2, OperatingStays DEF SInv
  <2> QED
    BY <2>1, <2>2
<1> QED
  BY <1>1, <1>3, <1>4 DEF SInv

\* An operator whose intent has something on its way can do nothing with it.
LEMMA OperatorWaits ==
  ASSUME TInv, NEW o \in Operators, Operating(o), NEW p, Who(o) = p, worker'[o] = worker[o],
         generation' = generation, ~ Unmade(p), ~ AllBack(p), Over(p) => Over(p)'
  PROVE  Operating(o)'
<1>1. Over(p) => Over(worker[o].who)'
  BY DEF Over, LiveOf, Live, Of, Who
<1> QED
  BY <1>1 DEF Operating, At, Who

\* A POST under the key of an intent that nothing was sent of, or that made a
\* transfer whose key Stripe still knows.
LEMMA SendsSafe ==
  ASSUME Serial, SInv, IInv, IInv', NEW w \in Executors, Post(w), NEW p \in Partners, Who(w) = p,
         Ours(w, {"pending", "posted", "failed"}),
         state' = [state EXCEPT ![p] = "posted"],
         postedAt' = [postedAt EXCEPT ![p] = IF worker[w].age = "null" THEN "fresh" ELSE @],
         requests' = requests \cup {<<<<p, worker[w].gen>>, w>>},
         worker' = [worker EXCEPT ![w] = [@ EXCEPT !.pc = "await", !.age = "null"]]
  PROVE  SInv'
<1>0. /\ w \in Workers /\ w \notin Operators /\ TInv /\ TInv' /\ TypeOK
      /\ ~ At(w, "idle") /\ ~ At(w, "next")
      /\ worker \in [Workers -> Processes] /\ worker[w] \in Processes /\ worker[w].xfer = None
  BY TransferAssumption DEF IInv, Post, At, Workers, TInv, TypeOK, WInv, Roles, Coherent
<1>1. state[p] \in {"pending", "posted", "failed"} /\ generation[p] = worker[w].gen
  BY DEF Ours
<1>2. ~ Over(p) /\ ~ Unmade(p)
  <2>1. LiveOf(p) # {}
    BY <1>0, <1>1, InPass DEF Active, Open, IInv, Shape, Shaped
  <2> QED
    BY <1>1, <2>1 DEF Over, Unmade
<1>3. Safe(p)
  BY <1>1 DEF SInv, Posting, Post
<1>4. UNCHANGED <<generation, allocation, made, foreign, back, kept>>
  BY DEF Post, ledger
<1>5. /\ state'[p] = "posted"
      /\ \A q \in Partners \ {p} : state'[q] = state[q] /\ postedAt'[q] = postedAt[q]
  BY <1>0 DEF TypeOK
<1>6. worker'[w].pc = "await" /\ worker'[w].xfer = None /\ worker'[w].who = p
      /\ \A v \in Workers : v # w => worker'[v] = worker[v]
  <2>1. worker'[w] = [worker[w] EXCEPT !.pc = "await", !.age = "null"]
        /\ \A v \in Workers : v # w => worker'[v] = worker[v]
    BY <1>0
  <2> QED
    BY <1>0, <2>1 DEF Processes, Who
<1>7. \A v \in Workers : Carries(v)
  <2>1. Carries(w)
    BY <1>6, TransferAssumption DEF Carries
  <2> QED
    BY <1>6, <2>1, SameCarries
<1>8. ASSUME NEW q \in Partners \ {p} PROVE Frame(q) /\ Calmer(q) /\ Kept(q) /\ postedAt'[q] = postedAt[q]
  <2>1. LiveOf(q)' = LiveOf(q)
    BY <1>4 DEF LiveOf, Live, Of
  <2>2. Sent(q)' = Sent(q)
    BY DEF Sent
  <2> QED
    BY <1>4, <1>5, <2>1, <2>2 DEF Frame, Calmer, Kept, Own, Members, Gone, Over
<1>9. PInv(p)'
  <2>1. Safe(p)'
    BY <1>3, <1>4 DEF Safe, Own, Members, Key
  <2>2. \A r \in Sent(p)' : r[1] = Key(p)'
    <3>1. \A r \in Sent(p) : r[1] = Key(p)
      BY <1>0 DEF SInv, PInv, Sending
    <3> QED
      BY <1>1, <1>4, <3>1 DEF Sent, Key
  <2>3. AtMostOne(p)'
    BY <1>0, <1>4 DEF SInv, PInv, AtMostOne, Own, Members
  <2> QED
    BY <1>5, <2>1, <2>2, <2>3 DEF PInv, Sending, Unsent
<1>10. ASSUME NEW v \in Executors PROVE Posting(v)'
  <2>1. v = w
    BY DEF Serial
  <2> QED
    BY <1>6, <2>1, TransferAssumption DEF Posting, At
<1>11. ASSUME NEW o \in Operators, worker'[o].pc # "idle", worker'[o].who = p PROVE Operating(o)'
  <2>1. worker'[o] = worker[o] /\ Operating(o) /\ Who(o) = p
    BY <1>0, <1>6, <1>11 DEF SInv, Workers, Who
  <2>2. worker[o].pc \in {"rearmList", "rearm"} => worker[o].gen <= generation[p] /\ worker[o].gen # generation[p]
    BY <1>2, <2>1 DEF Operating
  <2>3. worker[o].pc \notin {"resolveList", "keep", "close"}
    BY <1>2, <2>1 DEF Operating
  <2> QED
    BY <1>4, <2>1, <2>2, <2>3 DEF Operating, At, Who
<1> QED
  BY <1>0, <1>7, <1>8, <1>9, <1>10, <1>11, OthersStay

LEMMA PostSafe ==
  ASSUME Serial, SInv, IInv, IInv', NEW w \in Executors, Post(w)
  PROVE  SInv'
<1>0. Who(w) \in Partners
  BY InHand DEF Post, IInv, At, Workers
<1>1. CASE Done(w) /\ UNCHANGED <<state, postedAt, requests>>
  <2>1. StripeStays /\ IntentsStay
    BY <1>1 DEF Post, ledger, StripeStays, IntentsStay
  <2> QED
    BY <1>1, <2>1, DoneCarries, QuietStep DEF IInv
<1>2. CASE ~ (Done(w) /\ UNCHANGED <<state, postedAt, requests>>)
  <2>1. ASSUME NEW p \in Partners, Who(w) = p PROVE SInv'
    BY <1>2, <2>1, SendsSafe DEF Post
  <2> QED
    BY <1>0, <2>1
<1> QED
  BY <1>1, <1>2

\* An answer changes only what one executor has in hand.
LEMMA AnswerHand ==
  ASSUME TInv, NEW r \in requests, NEW outcome, Answer(r, outcome)
  PROVE  /\ requests' \subseteq requests
         /\ \A o \in Operators : worker'[o] = worker[o]
         /\ \A v \in Workers :
              /\ worker'[v].pc = worker[v].pc /\ worker'[v].who = worker[v].who /\ worker'[v].gen = worker[v].gen
              /\ worker'[v].xfer = worker[v].xfer \/ (worker'[v].xfer = outcome /\ r[1][1] = worker[v].who /\ r[1][2] = worker[v].gen)
<1>1. worker \in [Workers -> Processes] /\ r[2] \in Executors \cup {None} /\ requests' \subseteq requests
  BY DEF TInv, TypeOK, Answer
<1>2. CASE r[2] = None
  BY <1>1, <1>2 DEF Answer, Workers
<1>3. CASE r[2] # None
  <2> DEFINE w == r[2]
  <2>1. w \in Workers /\ w \notin Operators
    BY <1>1, <1>3, TransferAssumption DEF Workers
  <2>2. worker' = [worker EXCEPT ![w].xfer = outcome] /\ r[1] = <<Who(w), worker[w].gen>>
    BY <1>3 DEF Answer, TInv, WInv, Waiting, Awaited
  <2>3. /\ worker'[w] = [worker[w] EXCEPT !.xfer = outcome] /\ worker[w] \in Processes
        /\ \A v \in Workers : v # w => worker'[v] = worker[v]
    BY <1>1, <2>1, <2>2
  <2>4. /\ worker'[w].pc = worker[w].pc /\ worker'[w].who = worker[w].who /\ worker'[w].gen = worker[w].gen
        /\ worker'[w].xfer = outcome /\ r[1][1] = worker[w].who /\ r[1][2] = worker[w].gen
    BY <2>2, <2>3 DEF Processes, Who
  <2> QED
    BY <1>1, <2>1, <2>3, <2>4 DEF Workers
<1> QED
  BY <1>2, <1>3

\* The request that Stripe carries out bears the key of its intent.
LEMMA CarriedOut ==
  ASSUME SInv, TInv, NEW r \in requests
  PROVE  r[1][1] \in Partners /\ r \in Sent(r[1][1]) /\ r[1] = Key(r[1][1]) /\ Safe(r[1][1])
<1>1. r[1][1] \in Partners /\ r \in Sent(r[1][1])
  BY RequestType DEF Sent
<1> QED
  BY <1>1 DEF SInv, PInv, Sending

LEMMA StripeReplaysSafe ==
  ASSUME SInv, TInv, TInv', NEW r \in requests, StripeReplays(r)
  PROVE  SInv'
<1> USE DEF StripeReplays, ledger, intents
<1>1. StripeStays /\ IntentsStay
  BY AnswerHand DEF StripeStays, IntentsStay
<1>2. ASSUME NEW p, p = r[1][1], kept[r[1]] = Refused PROVE Refusal(p)
  <2>1. p \in Partners /\ r[1] = Key(p) /\ Safe(p)
    BY <1>2, CarriedOut
  <2>2. Own(p) = {}
    BY <1>2, <2>1, TransferAssumption DEF Safe
  <2>3. \A q \in Sent(p) : q[1] = Key(p)
    BY <2>1 DEF SInv, PInv, Sending
  <2> QED
    BY <1>2, <2>1, <2>2, <2>3, TransferAssumption DEF Refusal
<1>3. ASSUME NEW v \in Workers PROVE Carries(v)
  <2>1. /\ worker'[v].pc = worker[v].pc /\ worker'[v].who = worker[v].who /\ worker'[v].gen = worker[v].gen
        /\ worker'[v].xfer = worker[v].xfer \/ (worker'[v].xfer = kept[r[1]] /\ r[1][1] = worker[v].who)
    BY AnswerHand
  <2> QED
    BY <1>2, <2>1 DEF Carries
<1> QED
  BY <1>1, <1>3, QuietStep

\* A first refusal under a key: the intent has made nothing and will not.
LEMMA StripeRefusesSafe ==
  ASSUME SInv, TInv, TInv', NEW r \in requests, StripeRefuses(r), NEW p, p = r[1][1]
  PROVE  SInv'
<1> USE DEF StripeRefuses, ledger, intents
<1>0. p \in Partners /\ r[1] = Key(p) /\ r[1] \in Keys /\ Own(p) = {} /\ PInv(p)
      /\ \A q \in Sent(p) : q[1] = Key(p)
  <2>1. p \in Partners /\ r[1] = Key(p) /\ Safe(p) /\ r[1] \in Keys
    BY CarriedOut, RequestType
  <2> QED
    BY <2>1, TransferAssumption DEF Safe, SInv, PInv, Sending
<1>1. IntentsStay /\ UNCHANGED <<generation, made, foreign, back>> /\ requests' \subseteq requests
  BY AnswerHand DEF IntentsStay
<1>2. kept'[r[1]] = Refused /\ \A k \in Keys \ {r[1]} : kept'[k] = kept[k]
  BY <1>0 DEF TInv, TypeOK
<1>3. ASSUME NEW q \in Partners PROVE Frame(q) /\ Calmer(q) /\ Kept(q)
  <2>1. Key(q) \in Keys
    BY DEF Key, Keys, TInv, TypeOK
  <2>2. kept[Key(q)] # None => kept'[Key(q)] = kept[Key(q)]
    BY <1>2, <2>1
  <2> QED
    BY <1>1, <2>2, IntentsCalm DEF Frame, Own, Members, Gone, Sent
<1>4. PInv(p)'
  BY <1>0, <1>3, PartnerStays
<1>5. ASSUME NEW v \in Workers, worker'[v].who # p PROVE Carries(v)
  <2>1. /\ worker'[v].pc = worker[v].pc /\ worker'[v].who = worker[v].who /\ worker'[v].gen = worker[v].gen
        /\ worker'[v].xfer = worker[v].xfer \/ r[1][1] = worker[v].who
    BY AnswerHand
  <2> QED
    BY <1>5, <2>1 DEF Carries
<1>6. Own(p)' = {} /\ \A q \in Sent(p)' : kept'[q[1]] # None
  BY <1>0, <1>1, <1>2, TransferAssumption DEF Own, Members, Sent
<1>7. ASSUME NEW v \in Executors, worker'[v].who = p PROVE Posting(v)'
  <2>1. Own(worker[v].who)' = {} /\ \A q \in Sent(worker[v].who)' : kept'[q[1]] # None
    BY <1>6, <1>7 DEF Own, Members, Sent
  <2> QED
    BY <2>1 DEF Posting, Safe, Refusal, Who
<1>8. ASSUME NEW o \in Operators, worker'[o].who = p PROVE Operating(o)'
  <2>1. Carries(o) /\ Operating(o) /\ worker'[o].gen \in Nat /\ generation[p] \in Nat
    BY <1>0, AnswerHand, SameCarries DEF SInv, TInv, TypeOK, Workers, Processes, Generations
  <2> QED
    BY <1>0, <1>3, <1>8, <2>1, OperatingStays
<1> QED
  BY <1>0, <1>1, <1>3, <1>4, <1>5, <1>7, <1>8, OthersStay

\* The first transfer of an intent, which is then kept under its key.
LEMMA StripeTransfersSafe ==
  ASSUME SInv, TInv, TInv', NEW r \in requests, StripeTransfers(r), NEW p, p = r[1][1]
  PROVE  SInv'
<1> USE DEF StripeTransfers, ledger, intents
<1>0. p \in Partners /\ r \in Sent(p) /\ r[1] = Key(p) /\ r[1] \in Keys /\ Own(p) = {}
      /\ \A q \in Sent(p) : q[1] = Key(p)
  <2>1. p \in Partners /\ r \in Sent(p) /\ r[1] = Key(p) /\ Safe(p) /\ r[1] \in Keys
    BY CarriedOut, RequestType
  <2> QED
    BY <2>1, TransferAssumption DEF Safe, SInv, PInv, Sending
<1>t. PICK t \in Transfers : /\ NextTransfer(t, p)
                             /\ made' = made \cup {t}
                             /\ kept' = [kept EXCEPT ![r[1]] = t]
                             /\ Answer(r, t)
  OBVIOUS
<1>1. requests' \subseteq requests /\ UNCHANGED <<state, allocation, generation, postedAt, foreign, back>>
  BY <1>t, AnswerHand
<1>2. kept'[r[1]] = t /\ \A k \in Keys \ {r[1]} : kept'[k] = kept[k]
  BY <1>0, <1>t DEF TInv, TypeOK
<1>3. Own(p)' = {t}
  BY <1>0, <1>1, <1>t DEF Own, Members, NextTransfer, TInv, Known
<1>4. ~ Refusal(p) /\ ~ Unmade(p) /\ ~ AllBack(p) /\ state[p] \notin {"none", "pending", "failed"}
  BY <1>0 DEF Refusal, Unmade, AllBack, SInv, PInv, Unsent
<1>5. ASSUME NEW q \in Partners \ {p} PROVE Frame(q) /\ Calmer(q) /\ Kept(q) /\ postedAt'[q] = postedAt[q]
  <2>1. kept'[Key(q)] = kept[Key(q)] /\ Own(q)' = Own(q)
    <3>1. Key(q) \in Keys /\ Key(q) # r[1]
      BY <1>0 DEF Key, Keys, TInv, TypeOK
    <3> QED
      BY <1>1, <1>2, <1>t, <3>1 DEF NextTransfer, Own, Members
  <2> QED
    BY <1>1, <2>1, IntentsCalm DEF IntentsStay, Frame, Gone, Sent
<1>6. Safe(p)' /\ PInv(p)'
  <2>1. Key(p)' = Key(p) /\ kept'[Key(p)] = t /\ Sent(p)' \subseteq Sent(p)
    BY <1>0, <1>1, <1>2 DEF Key, Sent
  <2>2. Safe(p)'
    BY <2>1 DEF Safe, Key
  <2>3. \A q \in Sent(p)' : q[1] = Key(p)'
    BY <1>0, <2>1
  <2> QED
    BY <1>1, <1>3, <1>4, <2>2, <2>3 DEF PInv, Sending, Unsent, AtMostOne
<1>7. ASSUME NEW v \in Workers, worker'[v].who # p PROVE Carries(v)
  <2>1. /\ worker'[v].pc = worker[v].pc /\ worker'[v].who = worker[v].who /\ worker'[v].gen = worker[v].gen
        /\ worker'[v].xfer = worker[v].xfer \/ r[1][1] = worker[v].who
    BY <1>t, AnswerHand
  <2> QED
    BY <1>7, <2>1 DEF Carries
<1>8. ASSUME NEW v \in Executors, worker'[v].who = p PROVE Posting(v)'
  <2>1. Safe(worker[v].who)'
    BY <1>6, <1>8 DEF Safe, Own, Members, Key
  <2>2. ~ (worker'[v].pc = "await" /\ worker'[v].xfer = Refused)
    <3>1. /\ worker'[v].pc = worker[v].pc /\ worker'[v].who = worker[v].who
          /\ worker'[v].xfer = worker[v].xfer \/ worker'[v].xfer = t
      BY <1>t, AnswerHand DEF Workers
    <3>2. worker[v].pc = "await" /\ worker[v].xfer = Refused => Refusal(p)
      BY <1>8, <3>1 DEF SInv, Posting, At, Who
    <3> QED
      BY <1>4, <3>1, <3>2, TransferAssumption
  <2> QED
    BY <2>1, <2>2 DEF Posting, At, Who
<1>9. ASSUME NEW o \in Operators, worker'[o].who = p PROVE Operating(o)'
  <2>1. worker'[o] = worker[o] /\ Who(o) = p /\ Operating(o)
    BY <1>9, <1>t, AnswerHand DEF SInv, Who
  <2>2. Over(p) => Over(p)'
    BY <1>1 DEF Over, LiveOf, Live, Of
  <2> QED
    BY <1>1, <1>4, <2>1, <2>2, OperatorWaits
<1> QED
  BY <1>0, <1>5, <1>6, <1>7, <1>8, <1>9, OthersStay

\* A key is forgotten when nothing is on its way under it.
LEMMA KeyPrunedSafe ==
  ASSUME Sound, SInv, TInv, TInv', NEW k \in Keys, KeyPruned(k), NEW p, p = k[1]
  PROVE  SInv'
<1> USE DEF KeyPruned, ledger, intents
<1>0. p \in Partners /\ k = <<p, k[2]>> /\ \A r \in requests : r[1] # k
  BY DEF Keys, Sound
<1>1. /\ UNCHANGED <<state, allocation, generation, postedAt, made, foreign, back, requests, worker>>
      /\ \A j \in Keys \ {k} : kept'[j] = kept[j]
  BY DEF TInv, TypeOK
<1>2. ASSUME NEW q, Key(q) # k \/ kept[Key(q)] = None, q \in Partners
      PROVE  Frame(q) /\ Calmer(q) /\ Kept(q) /\ postedAt'[q] = postedAt[q]
  <2>1. Key(q) \in Keys
    BY <1>2 DEF Key, Keys, TInv, TypeOK
  <2>2. kept[Key(q)] # None => kept'[Key(q)] = kept[Key(q)]
    BY <1>1, <1>2, <2>1
  <2>3. Calmer(q) /\ Kept(q)
    BY <1>1, IntentsCalm DEF IntentsStay
  <2> QED
    BY <1>1, <2>2, <2>3 DEF Frame, Own, Members, Gone, Sent
<1>3. \A v \in Workers : Carries(v)
  BY <1>1, SameCarries
<1>4. CASE k # Key(p)
  <2>1. \A q \in Partners : k # Key(q)
    BY <1>0, <1>4 DEF Key
  <2> QED
    BY <1>1, <1>2, <1>3, <2>1, PlainStep
<1>5. CASE k = Key(p)
  <2>1. Sent(p) = {} /\ PInv(p)
    BY <1>0, <1>5 DEF SInv, PInv, Sending, Sent
  <2>2. postedAt[p] = "old"
    BY <1>0, <1>5 DEF Key, TInv, TypeOK, Generations
  <2>3. PInv(p)'
    <3>1. /\ Sent(p)' = {} /\ Own(p)' = Own(p) /\ LiveOf(p)' = LiveOf(p)
          /\ \A t : Gone(t)' <=> Gone(t)
      BY <1>1, <2>1 DEF Sent, Own, Members, LiveOf, Live, Of, Gone
    <3>2. Sending(p)'
      BY <1>1, <2>2, <3>1 DEF Sending
    <3>3. Unsent(p)' /\ AtMostOne(p)'
      BY <1>1, <2>1, <3>1 DEF PInv, Unsent, AtMostOne
    <3> QED
      BY <3>2, <3>3 DEF PInv
  <2>4. \A q \in Partners \ {p} : Key(q) # k
    BY <1>5 DEF Key
  <2>5. ASSUME NEW v \in Executors, worker'[v].who = p PROVE Posting(v)'
    <3>1. ~ (At(v, "post") /\ worker[v].gen = generation[p])
      BY <1>1, <1>5, <2>5 DEF Sound, AboutToPost, Key, Who
    <3>2. At(v, "await") /\ worker[v].xfer = Refused => Own(p) = {}
      BY <1>1, <2>5 DEF SInv, Posting, Refusal, Who
    <3>3. Sent(worker[v].who)' = {} /\ Own(worker[v].who)' = Own(p)
      BY <1>1, <2>1, <2>5 DEF Sent, Own, Members
    <3> QED
      BY <1>1, <2>5, <3>1, <3>2, <3>3 DEF Posting, Refusal, At, Who
  <2>6. ASSUME NEW o \in Operators, worker'[o].who = p PROVE Operating(o)'
    <3>1. Operating(o) /\ Who(o) = p
      BY <1>1, <2>6 DEF SInv, Who
    <3>2. /\ Over(worker[o].who)' <=> Over(p)
          /\ Unmade(worker[o].who)' <=> Unmade(p)
          /\ AllBack(worker[o].who)' <=> AllBack(p)
      BY <1>1, <2>6 DEF Over, Unmade, AllBack, LiveOf, Live, Of, Sent, Own, Members, Gone
    <3> QED
      BY <1>1, <3>1, <3>2 DEF Operating, At, Who
  <2> QED
    BY <1>0, <1>2, <1>3, <2>3, <2>4, <2>5, <2>6, OthersStay
<1> QED
  BY <1>4, <1>5

-----------------------------------------------------------------------------
(* The theorems.                                                              *)

LEMMA InitSInv == Init => SInv
BY DEF Init, SInv, PInv, Sending, Unsent, AtMostOne, Posting, Operating, Own, Members, Sent, Safe, At,
       Resting, Workers

LEMMA StepSInv ==
  ASSUME Serial, Sound, IInv, SInv, [Next]_vars
  PROVE  SInv'
<1>0. IInv' /\ TInv /\ TInv' /\ Truthful
  BY StepIInv DEF IInv, Sound
<1>1. ASSUME NEW w \in Executors, Step(w) PROVE SInv'
  BY <1>0, <1>1, LookSafe, CreateSafe, WithholdSafe, CancelSafe, PostSafe, PostReturnsSafe, PostRefusedSafe,
     StaleSafe, AdoptSafe, ParkSafe, TakeSafe
     DEF Step, Reconcile
<1>2. ASSUME NEW o \in Operators, Operate(o) PROVE SInv'
  BY <1>0, <1>2, OperatorListSafe, RearmSafe, KeepSafe, CloseReversedSafe, ReadSafe DEF Operate
<1>3. ASSUME NEW r \in requests, StripeReplays(r) \/ StripeTransfers(r) \/ StripeRefuses(r) PROVE SInv'
  BY <1>0, <1>3, StripeReplaysSafe, StripeTransfersSafe, StripeRefusesSafe
<1>4. CASE Running
  BY <1>0, <1>1, <1>2, <1>3, <1>4, LookSafe, StripeReversesSafe, ReverseCommissionSafe, KeyPrunedSafe, ApartSafe
     DEF Running, Hook
<1>5. CASE Failing
  BY <1>0, <1>3, <1>5, LookSafe, LostSafe, OutsideSafe, ApartSafe DEF Failing, Workers
<1>6. CASE UNCHANGED vars
  BY <1>0, <1>6, ApartSafe
<1> QED
  BY <1>4, <1>5, <1>6 DEF Next

LEMMA SInvTrue ==
  ASSUME IInv, SInv
  PROVE  OneLiveTransfer /\ CanceledIsUnpaid
<1>1. OneLiveTransfer
  BY DEF SInv, PInv, AtMostOne, OneLiveTransfer, Own
<1>2. ASSUME NEW a \in Allocations, allocation[a] = "canceled", a \in frozen[a[1]]
      PROVE  \A t \in Own(a[1]) : Gone(t)
  <2>1. a[1] \in Partners /\ a \in Of(a[1]) /\ Shaped(a[1]) /\ state[a[1]] \in States
    BY AllocationTypes DEF IInv, TInv, TypeOK, Shape
  <2>2. a \notin LiveOf(a[1]) /\ allocation[a] # "transferred"
    BY <1>2 DEF LiveOf, Live
  <2>3. state[a[1]] = "failed" /\ LiveOf(a[1]) = {}
    BY <1>2, <2>1, <2>2 DEF Shaped, States, Open
  <2> QED
    BY <2>1, <2>3 DEF SInv, PInv, Unsent
<1> QED
  BY <1>1, <1>2 DEF CanceledIsUnpaid, Own

\* With one pass at a time, true assertions and keys that outlive the POSTs
\* judged safe under them, a partner never holds two transfers of one intent,
\* however often it is posted, reconciled, re-armed or resolved.
THEOREM OnePayment == ASSUME Serial, Sound PROVE Spec => []OneLiveTransfer
<1>1. IInv /\ SInv /\ [Next]_vars => IInv' /\ SInv'
  BY StepIInv, StepSInv
<1>2. IInv /\ SInv => OneLiveTransfer
  BY SInvTrue
<1> QED
  BY <1>1, <1>2, InitIInv, InitSInv, PTL DEF Spec

\* Under the same assumptions, of a share that was withheld after its amount
\* was frozen, no transfer is still with the partner.
THEOREM WithheldStays == ASSUME Serial, Sound PROVE Spec => []CanceledIsUnpaid
<1>1. IInv /\ SInv /\ [Next]_vars => IInv' /\ SInv'
  BY StepIInv, StepSInv
<1>2. IInv /\ SInv => CanceledIsUnpaid
  BY SInvTrue
<1> QED
  BY <1>1, <1>2, InitIInv, InitSInv, PTL DEF Spec
=============================================================================
