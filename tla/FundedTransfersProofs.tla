------------------------ MODULE FundedTransfersProofs ------------------------
(***************************************************************************)
(* Proofs about FundedTransfers, for any number of partners, allocations,  *)
(* operators, generations and transfers. What is proved of the types and   *)
(* of the transfers themselves holds of any number of executors; that      *)
(* every share is decided once supposes what the passing runs suppose, one *)
(* executor at a time and no resolution during its pass (Serial).          *)
(***************************************************************************)
EXTENDS FundedTransfers, TLAPS

-----------------------------------------------------------------------------
(* The inductive invariant.                                                   *)

\* One pass at a time, and none while an operator closes an intent.
Serial == ~ Overlap /\ \A v, w \in Executors : v = w

ExecutorLabels == {"idle", "next", "create", "withhold", "cancel", "stale", "list", "park", "adopt",
                   "post", "await"}
OperatorLabels == {"idle", "rearmList", "rearm", "resolveList", "keep", "close"}

\* What the fields of a process say of each other.
Coherent(r) ==
  /\ r.pc \notin {"idle", "next"} => r.who \in Partners
  /\ r.pc \in {"adopt", "keep"} => r.xfer \in Transfers
  /\ r.pc \notin {"adopt", "keep", "await"} => r.xfer = None

Roles ==
  /\ \A w \in Workers : Coherent(worker[w])
  /\ \A w \in Executors : worker[w].pc \in ExecutorLabels
  /\ \A o \in Operators : worker[o].pc \in OperatorLabels

\* A request somebody waits for is the one he waits for.
Awaited(r) ==
  r[2] # None =>
    /\ At(r[2], "await")
    /\ worker[r[2]].xfer = None
    /\ r[1] = <<Who(r[2]), worker[r[2]].gen>>
Waiting == \A r \in requests : Awaited(r)

\* The transfers made for the partner's intent.
Own(p) == Members(p) \ foreign

Carried == \A w \in Workers : worker[w].xfer \in Transfers => worker[w].xfer \in Own(Who(w))

\* Every transfer that is remembered or recorded is one of the intent's.
Known ==
  /\ foreign \subseteq made
  /\ \A k \in Keys : kept[k] \in Transfers => kept[k] \in Own(k[1])
  /\ \A p \in Partners : state[p] = "confirmed" => recorded[p] \in Own(p)

Open == {"pending", "posted", "reconcile_required", "duplicate_review"}
LiveOf(p) == Live \cap Of(p)

\* What the state of an intent says of the allocations it was made from.
Shaped(p) ==
  /\ frozen[p] \subseteq Of(p)
  /\ state[p] = "none" <=> frozen[p] = {}
  /\ \A a \in Of(p) :
       /\ allocation[a] \in {"transfer_pending", "transferred"} => a \in frozen[p]
       /\ allocation[a] = "reserved" => state[p] = "none"
       /\ allocation[a] = "transferred" <=> state[p] = "confirmed" /\ a \in frozen[p]
  /\ state[p] \in Open => LiveOf(p) = frozen[p]
  /\ state[p] = "failed" => LiveOf(p) \in {{}, frozen[p]}
Shape == \A p \in Partners : Shaped(p)

\* A pass has read what is live, and of an intent on its list all is live still.
Visits(r, p) ==
  /\ r.live \cap Of(p) # {}
  /\ state[p] \in Open \cup {"failed"} => r.live \cap Of(p) = frozen[p]
  /\ state[p] = "failed" => LiveOf(p) = frozen[p]
Passing ==
  \A w \in Executors : worker[w].pc # "idle" =>
    /\ Live \subseteq worker[w].live
    /\ worker[w].pc # "next" => Who(w) \in worker[w].todo
    /\ worker[w].pc = "create" => state[Who(w)] = "none"
    /\ \A p \in worker[w].todo : Visits(worker[w], p)

\* A commission is paid when its allocation is transferred.
Paid == \A a \in Allocations : allocation[a] = "transferred" <=> commission[a] = "paid"

\* The part that is about processes and transfers, and the whole.
WInv == worker \in [Workers -> Processes] /\ Roles /\ Waiting /\ Carried
TInv == TypeOK /\ WInv /\ Known
IInv == TInv /\ Shape /\ Passing /\ SettledIsComplete /\ Paid

-----------------------------------------------------------------------------
(* What a step does to the processes.                                         *)

LEMMA RestingType == Resting \in Processes /\ Coherent(Resting)
BY TransferAssumption DEF Resting, Processes, Labels, Ages, Generations, Coherent

\* Nobody but an executor that awaits its answer is waited on by a request.
Free(w) == \A r \in requests : r[2] # w

LEMMA FreeUnlessAwaiting ==
  ASSUME WInv, NEW w \in Workers, ~ At(w, "await") \/ worker[w].xfer # None
  PROVE  Free(w)
<1> SUFFICES ASSUME NEW r \in requests, r[2] = w PROVE FALSE
  BY DEF Free
<1>1. w # None
  BY TransferAssumption DEF Workers
<1> QED
  BY <1>1 DEF WInv, Waiting, Awaited

\* Transfers may be added, foreign ones only new ones.
StripeGrows == made \subseteq made' /\ foreign' \cap made \subseteq foreign

LEMMA OwnGrows ==
  ASSUME StripeGrows, NEW p PROVE Own(p) \subseteq Own(p)'
BY DEF StripeGrows, Own, Members

\* One process goes to a coherent record, and no request waits for it.
LEMMA Moves ==
  ASSUME TInv, NEW w \in Workers, NEW r \in Processes, Coherent(r),
         w \in Executors => r.pc \in ExecutorLabels,
         w \in Operators => r.pc \in OperatorLabels,
         r.xfer \in Transfers => r.xfer \in Own(r.who),
         worker' = [worker EXCEPT ![w] = r],
         \A q \in requests' : q[2] # None => q \in requests /\ q[2] # w,
         StripeGrows
  PROVE  WInv'
<1>1. worker \in [Workers -> Processes] /\ requests \in SUBSET (Keys \X (Executors \cup {None}))
  BY DEF TInv, TypeOK
<1>2. (worker \in [Workers -> Processes])'
  BY <1>1
<1>3. Roles'
  BY <1>1 DEF TInv, WInv, Roles
<1>4. Waiting'
  <2> SUFFICES ASSUME NEW q \in requests', q[2] # None PROVE Awaited(q)'
    BY DEF Waiting, Awaited
  <2>1. q \in requests /\ q[2] # w /\ q[2] \in Workers
    BY <1>1 DEF Workers
  <2>2. worker'[q[2]] = worker[q[2]]
    BY <1>1, <2>1
  <2> QED
    BY <2>1, <2>2 DEF TInv, WInv, Waiting, Awaited, At, Who
<1>5. Carried'
  <2> SUFFICES ASSUME NEW v \in Workers, worker'[v].xfer \in Transfers
               PROVE  (worker[v].xfer \in Own(worker[v].who))'
    BY DEF Carried, Who
  <2>1. CASE v = w
    BY <1>1, <2>1 DEF StripeGrows, Own, Members
  <2>2. CASE v # w
    BY <1>1, <2>2 DEF TInv, WInv, Carried, Who, StripeGrows, Own, Members
  <2> QED
    BY <2>1, <2>2
<1> QED
  BY <1>2, <1>3, <1>4, <1>5 DEF WInv

\* The processes stay where they are.
LEMMA Stays ==
  ASSUME TInv, worker' = worker, StripeGrows,
         \A q \in requests' : q[2] # None => q \in requests
  PROVE  WInv'
<1>1. Waiting'
  BY DEF TInv, WInv, Waiting, Awaited, At, Who
<1>2. Carried'
  BY DEF TInv, WInv, Carried, Who, StripeGrows, Own, Members
<1> QED
  BY <1>1, <1>2 DEF TInv, WInv, Roles

\* A request is answered, or ends with nobody to hear of it.
LEMMA Answered ==
  ASSUME TInv, NEW r \in requests, NEW outcome \in Transfers \cup {Refused}, Answer(r, outcome),
         outcome \in Transfers => outcome \in Own(r[1][1])', StripeGrows
  PROVE  WInv'
<1>1. worker \in [Workers -> Processes] /\ requests \in SUBSET (Keys \X (Executors \cup {None}))
  BY DEF TInv, TypeOK
<1>2. requests' \subseteq requests
  BY DEF Answer
<1>3. CASE r[2] = None
  BY <1>2, <1>3, Stays DEF Answer
<1>4. CASE r[2] # None
  <2> DEFINE w == r[2]
  <2>1. w \in Executors /\ w \in Workers
    BY <1>1, <1>4 DEF Workers
  <2>2. worker' = [worker EXCEPT ![w].xfer = outcome]
    BY <1>4 DEF Answer
  <2>3. At(w, "await") /\ r[1] = <<Who(w), worker[w].gen>>
    BY <1>4 DEF TInv, WInv, Waiting, Awaited
  <2>4. worker'[w] = [worker[w] EXCEPT !.xfer = outcome] /\ \A v \in Workers \ {w} : worker'[v] = worker[v]
    BY <1>1, <2>1, <2>2
  <2>5. worker[w] \in Processes /\ worker'[w] \in Processes
    BY <1>1, <2>1, <2>4 DEF Processes
  <2>6. worker'[w].pc = "await" /\ worker'[w].who = Who(w) /\ worker'[w].xfer = outcome
    BY <2>3, <2>4, <2>5 DEF Processes, At, Who
  <2>7. (worker \in [Workers -> Processes])'
    BY <1>1, <2>2, <2>5, <2>1 DEF Processes
  <2>8. Roles'
    <3>1. Coherent(worker'[w])
      BY <2>3, <2>1, <2>6 DEF TInv, WInv, Roles, Coherent, At, Who
    <3> QED
      BY <3>1, <2>1, <2>4, <2>6, TransferAssumption DEF TInv, WInv, Roles, ExecutorLabels, Workers
  <2>9. Waiting'
    <3> SUFFICES ASSUME NEW q \in requests', q[2] # None PROVE Awaited(q)'
      BY DEF Waiting, Awaited
    <3>1. q \in requests /\ q # r /\ q[2] \in Workers
      BY <1>1, <1>2 DEF Answer, Workers
    <3>2. q[2] # w
      <4> SUFFICES ASSUME q[2] = w PROVE FALSE
        OBVIOUS
      <4>1. q[1] = r[1]
        BY <2>3, <3>1, <1>4 DEF TInv, WInv, Waiting, Awaited
      <4> QED
        BY <4>1, <3>1, <1>1
    <3> QED
      BY <2>4, <3>1, <3>2 DEF TInv, WInv, Waiting, Awaited, At, Who
  <2>10. Carried'
    <3> SUFFICES ASSUME NEW v \in Workers, worker'[v].xfer \in Transfers
                 PROVE  (worker[v].xfer \in Own(worker[v].who))'
      BY DEF Carried, Who
    <3>1. CASE v = w
      <4>1. r[1][1] = worker'[w].who
        BY <2>3, <2>6
      <4> QED
        BY <3>1, <2>6, <4>1 DEF Own, Members
    <3>2. CASE v # w
      BY <2>4, <3>2 DEF TInv, WInv, Carried, Who, StripeGrows, Own, Members
    <3> QED
      BY <3>1, <3>2
  <2> QED
    BY <2>7, <2>8, <2>9, <2>10 DEF WInv
<1> QED
  BY <1>3, <1>4

\* The same of a step that sends and forsakes nothing.
Quiet(w) == (~ At(w, "await") \/ worker[w].xfer # None) /\ UNCHANGED <<requests, made, foreign>>

LEMMA Walks ==
  ASSUME TInv, NEW w \in Workers, NEW r \in Processes, Coherent(r), Quiet(w),
         w \in Executors => r.pc \in ExecutorLabels,
         w \in Operators => r.pc \in OperatorLabels,
         r.xfer \in Transfers => r.xfer \in Own(r.who),
         worker' = [worker EXCEPT ![w] = r]
  PROVE  WInv'
<1>1. Free(w)
  BY FreeUnlessAwaiting DEF TInv, Quiet
<1> QED
  BY <1>1, Moves DEF Quiet, Free, StripeGrows

LEMMA Rests ==
  ASSUME TInv, NEW w \in Workers, Rest(w), Quiet(w)
  PROVE  WInv'
<1>1. Resting.pc = "idle" /\ Resting.xfer \notin Transfers
  BY TransferAssumption DEF Resting
<1> QED
  BY <1>1, Walks, RestingType DEF Rest, ExecutorLabels, OperatorLabels

LEMMA GoesOn ==
  ASSUME TInv, NEW w \in Executors, Done(w)
  PROVE  \E r \in Processes :
           /\ worker' = [worker EXCEPT ![w] = r]
           /\ Coherent(r) /\ r.pc = "next" /\ r.xfer = None
           /\ r.live = worker[w].live /\ r.todo = worker[w].todo \ {Who(w)}
<1> DEFINE r == [Resting EXCEPT !.pc = "next", !.live = worker[w].live, !.todo = worker[w].todo \ {Who(w)}]
<1>1. worker[w] \in Processes
  BY DEF TInv, WInv, Workers
<1>2. r \in Processes /\ Coherent(r) /\ r.pc = "next" /\ r.xfer = None
      /\ r.live = worker[w].live /\ r.todo = worker[w].todo \ {Who(w)}
  BY <1>1, RestingType DEF Processes, Coherent, Resting, Labels
<1> QED
  BY <1>2 DEF Done

LEMMA Dones ==
  ASSUME TInv, NEW w \in Executors, Done(w), Quiet(w)
  PROVE  WInv'
<1>1. PICK r \in Processes : /\ worker' = [worker EXCEPT ![w] = r]
                             /\ Coherent(r) /\ r.pc = "next" /\ r.xfer = None
  BY GoesOn
<1>2. w \in Workers /\ w \notin Operators /\ None \notin Transfers
  BY TransferAssumption DEF Workers
<1> QED
  BY <1>1, <1>2, Walks DEF ExecutorLabels

\* The next statement, with or without a transfer in hand.
LEMMA Goes ==
  ASSUME TInv, NEW w \in Workers, NEW l \in Labels, NEW t \in Transfers \cup {None}, Quiet(w),
         worker' = [worker EXCEPT ![w] = [@ EXCEPT !.pc = l, !.xfer = t]],
         w \in Executors => l \in ExecutorLabels,
         w \in Operators => l \in OperatorLabels,
         Who(w) \in Partners,
         IF l \in {"adopt", "keep"} THEN t \in Own(Who(w)) ELSE t = None
  PROVE  WInv'
<1> DEFINE r == [worker[w] EXCEPT !.pc = l, !.xfer = t]
<1>1. worker[w] \in Processes
  BY DEF TInv, WInv
<1>2. r \in Processes /\ r.pc = l /\ r.xfer = t /\ r.who = Who(w)
  BY <1>1 DEF Processes, Who
<1>3. None \notin Transfers
  BY TransferAssumption
<1>4. Coherent(r)
  BY <1>2, <1>3 DEF Coherent, Own, Members, TInv, TypeOK
<1>5. r.xfer \in Transfers => r.xfer \in Own(r.who)
  BY <1>2, <1>3
<1> QED
  BY <1>2, <1>4, <1>5, Walks

LEMMA GoesBare ==
  ASSUME TInv, NEW w \in Workers, NEW l \in Labels, Quiet(w), Go(w, l),
         w \in Executors => l \in ExecutorLabels,
         w \in Operators => l \in OperatorLabels,
         Who(w) \in Partners, l \notin {"adopt", "keep"}, worker[w].xfer = None
  PROVE  WInv'
<1>1. worker[w] \in Processes
  BY DEF TInv, WInv
<1>2. [worker[w] EXCEPT !.pc = l] = [worker[w] EXCEPT !.pc = l, !.xfer = None]
  BY <1>1 DEF Processes
<1>3. worker' = [worker EXCEPT ![w] = [@ EXCEPT !.pc = l, !.xfer = None]]
  BY <1>2 DEF Go
<1> QED
  BY <1>3, Goes

\* What is on the books of a transfer stays true.
LEMMA KnownStays ==
  ASSUME Known, StripeGrows, foreign' \subseteq made',
         \A k \in Keys : kept'[k] \in Transfers => kept'[k] = kept[k] \/ kept'[k] \in Own(k[1])',
         \A p \in Partners : state'[p] = "confirmed" =>
           (state[p] = "confirmed" /\ recorded'[p] = recorded[p]) \/ (recorded[p] \in Own(p))'
  PROVE  Known'
BY DEF Known, StripeGrows, Own, Members

-----------------------------------------------------------------------------
(* Each action keeps the types, the processes and what is known.              *)

LEMMA InHand ==
  ASSUME TInv, NEW w \in Workers
  PROVE  /\ worker[w] \in Processes
         /\ worker[w].pc \notin {"idle", "next"} => Who(w) \in Partners
         /\ worker[w].pc \notin {"adopt", "keep", "await"} => worker[w].xfer = None
         /\ worker[w].xfer \in Transfers => worker[w].xfer \in Own(Who(w))
BY DEF TInv, WInv, Roles, Coherent, Carried, Who

LEMMA BeginTypes ==
  ASSUME TInv, NEW w \in Executors, Begin(w)
  PROVE  TInv'
<1> USE DEF Begin, ledger, intents, stripe
<1>1. WInv'
  <2> DEFINE r == [Resting EXCEPT !.pc = "next", !.live = Live, !.todo = {a[1] : a \in Live}]
  <2>1. Live \subseteq Allocations /\ {a[1] : a \in Live} \subseteq Partners
    BY DEF Live, Allocations
  <2>2. r \in Processes /\ Coherent(r) /\ r.pc = "next" /\ r.xfer = None
    BY <2>1, RestingType DEF Processes, Coherent, Resting, Labels
  <2>3. w \in Workers /\ w \notin Operators /\ None \notin Transfers
    BY TransferAssumption DEF Workers
  <2> QED
    BY <2>2, <2>3, Walks DEF Quiet, At, ExecutorLabels
<1>2. TypeOK'
  BY <1>1 DEF TInv, TypeOK, WInv
<1>3. Known'
  BY DEF TInv, Known, Own, Members
<1> QED
  BY <1>1, <1>2, <1>3 DEF TInv

LEMMA StopTypes ==
  ASSUME TInv, NEW w \in Executors, Stop(w)
  PROVE  TInv'
<1> USE DEF Stop, ledger, intents, stripe
<1>1. WInv'
  BY Rests DEF Quiet, At, Workers
<1>2. TypeOK'
  BY <1>1 DEF TInv, TypeOK, WInv
<1>3. Known'
  BY DEF TInv, Known, Own, Members
<1> QED
  BY <1>1, <1>2, <1>3 DEF TInv

LEMMA TakeTypes ==
  ASSUME TInv, NEW w \in Executors, NEW p \in Partners, Take(w, p)
  PROVE  TInv'
<1> USE DEF Take, ledger, intents, stripe
<1>0. worker[w] \in Processes /\ worker[w].xfer = None /\ worker[w].pc = "next"
      /\ w \in Workers /\ w \notin Operators /\ None \notin Transfers
  BY InHand, TransferAssumption DEF At, Workers
<1>1. WInv'
  <2>1. CASE Route(p) = "next"
    <3> DEFINE r == [worker[w] EXCEPT !.todo = @ \ {p}]
    <3>1. r \in Processes /\ Coherent(r) /\ r.pc = "next" /\ r.xfer = None
      BY <1>0 DEF Processes, Coherent
    <3>2. worker' = [worker EXCEPT ![w] = r] /\ Quiet(w)
      BY <1>0, <2>1 DEF Quiet, At
    <3> HIDE DEF r
    <3> QED
      BY <1>0, <3>1, <3>2, Walks DEF ExecutorLabels
  <2>2. CASE Route(p) # "next"
    <3> DEFINE r == [worker[w] EXCEPT !.pc = Route(p), !.who = p, !.gen = generation[p],
                                      !.age = IF Route(p) = "post" THEN postedAt[p] ELSE @]
    <3>1. Route(p) \in {"list", "create", "withhold", "cancel", "stale", "post"}
      BY <2>2 DEF Route
    <3>2. r \in Processes /\ Coherent(r) /\ r.pc = Route(p) /\ r.xfer = None
      BY <1>0, <3>1 DEF Processes, Coherent, TInv, TypeOK, Labels
    <3>3. worker' = [worker EXCEPT ![w] = r] /\ Quiet(w)
      BY <1>0, <2>2 DEF Quiet, At
    <3> HIDE DEF r
    <3> QED
      BY <1>0, <3>1, <3>2, <3>3, Walks DEF ExecutorLabels
  <2> QED
    BY <2>1, <2>2
<1>2. TypeOK'
  BY <1>1 DEF TInv, TypeOK, WInv
<1>3. Known'
  BY DEF TInv, Known, Own, Members
<1> QED
  BY <1>1, <1>2, <1>3 DEF TInv

LEMMA CreateTypes ==
  ASSUME TInv, NEW w \in Executors, Create(w)
  PROVE  TInv'
<1> USE DEF Create, ledger, intents, stripe
<1>0. w \in Workers /\ w \notin Operators /\ Who(w) \in Partners /\ worker[w].xfer = None
  BY InHand, TransferAssumption DEF At, Workers
<1>1. WInv'
  <2>1. Quiet(w)
    BY <1>0 DEF Quiet, At
  <2>2. CASE Go(w, "post")
    BY <1>0, <2>1, <2>2, GoesBare DEF Labels, ExecutorLabels
  <2>3. CASE Done(w)
    BY <2>1, <2>3, Dones
  <2>4. CASE Rest(w)
    BY <1>0, <2>1, <2>4, Rests
  <2> QED
    BY <2>2, <2>3, <2>4
<1>2. TypeOK'
  <2>1. Group(w) \in SUBSET Allocations
    BY <1>0, InHand DEF Group, Processes
  <2>2. Put(Group(w), "transfer_pending") \in
          [Allocations -> {"reserved", "transfer_pending", "transferred", "canceled"}]
    BY <2>1 DEF Put, TInv, TypeOK
  <2> QED
    BY <1>0, <1>1, <2>1, <2>2 DEF TInv, TypeOK, WInv, States
<1>3. Known'
  BY <1>0 DEF TInv, TypeOK, Known, Own, Members
<1> QED
  BY <1>1, <1>2, <1>3 DEF TInv

LEMMA UnreadyTypes ==
  ASSUME TInv, NEW w \in Executors, Unready(w)
  PROVE  TInv'
<1> USE DEF Unready, ledger, intents, stripe
<1>1. WInv'
  BY Dones DEF Quiet, At
<1>2. TypeOK'
  BY <1>1 DEF TInv, TypeOK, WInv
<1>3. Known'
  BY DEF TInv, Known, Own, Members
<1> QED
  BY <1>1, <1>2, <1>3 DEF TInv

LEMMA WithholdTypes ==
  ASSUME TInv, NEW w \in Executors, Withhold(w)
  PROVE  TInv'
<1> USE DEF Withhold, ledger, intents, stripe
<1>1. WInv'
  BY Dones DEF Quiet, At
<1>2. TypeOK'
  BY <1>1 DEF TInv, TypeOK, WInv, Put
<1>3. Known'
  BY DEF TInv, Known, Own, Members
<1> QED
  BY <1>1, <1>2, <1>3 DEF TInv

LEMMA CancelTypes ==
  ASSUME TInv, NEW w \in Executors, Cancel(w)
  PROVE  TInv'
<1> USE DEF Cancel, ledger, intents, stripe
<1>1. WInv'
  BY Dones DEF Quiet, At
<1>2. TypeOK'
  BY <1>1 DEF TInv, TypeOK, WInv, Put, States
<1>3. Known'
  BY DEF TInv, TypeOK, Known, Own, Members
<1> QED
  BY <1>1, <1>2, <1>3 DEF TInv

LEMMA SettleTypes ==
  ASSUME TInv, NEW w \in Executors, Settle(w)
  PROVE  TInv'
<1> USE DEF Settle, ledger, intents, stripe
<1>1. WInv'
  BY Rests DEF Quiet, At, Workers
<1>2. TypeOK'
  BY <1>1 DEF TInv, TypeOK, WInv
<1>3. Known'
  BY DEF TInv, Known, Own, Members
<1> QED
  BY <1>1, <1>2, <1>3 DEF TInv

LEMMA PostTypes ==
  ASSUME TInv, NEW w \in Executors, Post(w)
  PROVE  TInv'
<1> USE DEF Post, ledger, intents
<1>0. /\ worker[w] \in Processes /\ worker[w].pc = "post" /\ worker[w].xfer = None /\ Who(w) \in Partners
      /\ w \in Workers /\ w \notin Operators /\ w # None /\ None \notin Transfers
  BY InHand, TransferAssumption DEF At, Workers
<1>f. Free(w)
  BY <1>0, FreeUnlessAwaiting DEF TInv, At
<1>1. CASE Done(w) /\ UNCHANGED <<state, postedAt, requests>>
  <2>1. WInv'
    BY <1>0, <1>1, Dones DEF Quiet, At
  <2>2. TypeOK'
    BY <1>1, <2>1 DEF TInv, TypeOK, WInv
  <2>3. Known'
    BY <1>1 DEF TInv, Known, Own, Members
  <2> QED
    BY <2>1, <2>2, <2>3 DEF TInv
<1>2. CASE /\ state' = [state EXCEPT ![Who(w)] = "posted"]
           /\ postedAt' = [postedAt EXCEPT ![Who(w)] = IF worker[w].age = "null" THEN "fresh" ELSE @]
           /\ requests' = requests \cup {<<<<Who(w), worker[w].gen>>, w>>}
           /\ worker' = [worker EXCEPT ![w] = [@ EXCEPT !.pc = "await", !.age = "null"]]
  <2> DEFINE r == [worker[w] EXCEPT !.pc = "await", !.age = "null"]
  <2>1. /\ r \in Processes /\ r.pc = "await" /\ r.xfer = None
        /\ r.who = Who(w) /\ r.gen = worker[w].gen /\ Coherent(r)
    BY <1>0 DEF Processes, Labels, Ages, Coherent, Who
  <2>2. worker \in [Workers -> Processes] /\ worker' = [worker EXCEPT ![w] = r]
    BY <1>2 DEF TInv, TypeOK
  <2>3. requests \in SUBSET (Keys \X (Executors \cup {None})) /\ worker[w].gen \in Generations
    BY <1>0 DEF TInv, TypeOK, Processes
  <2>4. requests' \in SUBSET (Keys \X (Executors \cup {None}))
    BY <1>0, <1>2, <2>3 DEF Keys
  <2> HIDE DEF r
  <2>5. (worker \in [Workers -> Processes])' /\ worker'[w] = r
        /\ \A v \in Workers \ {w} : worker'[v] = worker[v]
    BY <1>0, <2>1, <2>2
  <2>6. Roles'
    BY <1>0, <2>1, <2>5 DEF TInv, WInv, Roles, ExecutorLabels, Workers
  <2>7. Waiting'
    <3> SUFFICES ASSUME NEW q \in requests', q[2] # None PROVE Awaited(q)'
      BY DEF Waiting, Awaited
    <3>1. CASE q \in requests
      <4>1. q[2] \in Workers /\ q[2] # w
        BY <1>f, <2>3, <3>1 DEF Workers, Free
      <4> QED
        BY <2>5, <3>1, <4>1 DEF TInv, WInv, Waiting, Awaited, At, Who
    <3>2. CASE q = <<<<Who(w), worker[w].gen>>, w>>
      <4>1. q[1] = <<Who(w), worker[w].gen>> /\ q[2] = w
        BY <3>2
      <4> QED
        BY <2>1, <2>5, <4>1 DEF Awaited, At, Who
    <3> QED
      BY <1>2, <3>1, <3>2
  <2>8. Carried'
    BY <1>0, <2>1, <2>5 DEF TInv, WInv, Carried, Who, Own, Members
  <2>9. WInv'
    BY <2>5, <2>6, <2>7, <2>8 DEF WInv
  <2>10. TypeOK'
    BY <1>0, <1>2, <2>4, <2>5 DEF TInv, TypeOK, States, Ages
  <2>11. Known'
    BY <1>0, <1>2 DEF TInv, TypeOK, Known, Own, Members
  <2> QED
    BY <2>9, <2>10, <2>11 DEF TInv
<1> QED
  BY <1>1, <1>2

\* A confirmation records a transfer of the intent.
LEMMA FinalizeTypes ==
  ASSUME TInv, WInv', NEW p \in Partners, NEW t \in Own(p), NEW g \in SUBSET Allocations,
         Finalize(p, t, g, TRUE) \/ UNCHANGED <<ledger, intents, held, stripe>>
  PROVE  TInv'
<1> USE DEF ledger, intents, stripe
<1>1. CASE UNCHANGED <<ledger, intents, held, stripe>>
  <2>1. TypeOK'
    BY <1>1 DEF TInv, TypeOK, WInv
  <2>2. Known'
    BY <1>1 DEF TInv, Known, Own, Members
  <2> QED
    BY <2>1, <2>2 DEF TInv
<1>2. CASE Finalize(p, t, g, TRUE)
  <2>1. t \in Transfers
    BY DEF Own, Members, TInv, TypeOK
  <2>2. TypeOK'
    BY <1>2, <2>1 DEF TInv, TypeOK, WInv, Finalize, Put, States
  <2>3. Known'
    BY <1>2 DEF TInv, TypeOK, Known, Own, Members, Finalize
  <2> QED
    BY <2>2, <2>3 DEF TInv
<1> QED
  BY <1>1, <1>2

LEMMA PostReturnsTypes ==
  ASSUME TInv, NEW w \in Executors, PostReturns(w)
  PROVE  TInv'
<1>0. worker[w].pc = "await" /\ worker[w].xfer \in Transfers /\ w \in Workers
  BY DEF PostReturns, At, Workers
<1>1. Who(w) \in Partners /\ worker[w].xfer \in Own(Who(w)) /\ worker[w].xfer # None
      /\ Group(w) \in SUBSET Allocations
  <2>1. worker[w] \in Processes /\ Who(w) \in Partners /\ worker[w].xfer \in Own(Who(w))
    BY <1>0, InHand
  <2>2. worker[w].xfer # None
    BY <1>0, TransferAssumption
  <2> QED
    BY <2>1, <2>2 DEF Group, Processes
<1>2. \/ Finalize(Who(w), worker[w].xfer, Group(w), TRUE)
      \/ UNCHANGED <<ledger, intents, held, stripe>>
  BY DEF PostReturns, Finalize
<1>3. WInv'
  BY <1>1, Dones DEF Quiet, PostReturns, Finalize, stripe
<1> QED
  BY <1>1, <1>2, <1>3, FinalizeTypes

LEMMA AdoptTypes ==
  ASSUME TInv, NEW w \in Executors, Adopt(w)
  PROVE  TInv'
<1>1. worker[w].xfer \in Transfers
  BY DEF Adopt, At, TInv, WInv, Roles, Coherent, Workers
<1>2. Who(w) \in Partners /\ worker[w].xfer \in Own(Who(w)) /\ Live \cap Of(Who(w)) \in SUBSET Allocations
  BY <1>1, InHand DEF Adopt, At, Live, Workers
<1>3. \/ Finalize(Who(w), worker[w].xfer, Live \cap Of(Who(w)), TRUE)
      \/ UNCHANGED <<ledger, intents, held, stripe>>
  BY DEF Adopt, Finalize
<1>4. WInv'
  BY Dones DEF Quiet, At, Adopt, Finalize, stripe
<1> QED
  BY <1>2, <1>3, <1>4, FinalizeTypes

LEMMA KeepTypes ==
  ASSUME TInv, NEW o \in Operators, Keep(o)
  PROVE  TInv'
<1>1. worker[o].xfer \in Transfers
  BY DEF Keep, At, TInv, WInv, Roles, Coherent, Workers
<1>2. Who(o) \in Partners /\ worker[o].xfer \in Own(Who(o)) /\ Live \cap Of(Who(o)) \in SUBSET Allocations
  BY <1>1, InHand DEF Keep, At, Live, Workers
<1>3. \/ Finalize(Who(o), worker[o].xfer, Live \cap Of(Who(o)), TRUE)
      \/ UNCHANGED <<ledger, intents, held, stripe>>
  BY DEF Keep, Finalize
<1>4. WInv'
  BY Rests DEF Quiet, At, Keep, Finalize, stripe, Workers
<1> QED
  BY <1>2, <1>3, <1>4, FinalizeTypes

LEMMA PostRefusedTypes ==
  ASSUME TInv, NEW w \in Executors, PostRefused(w)
  PROVE  TInv'
<1> USE DEF PostRefused, ledger, intents, stripe
<1>1. WInv'
  BY Dones, TransferAssumption DEF Quiet
<1>2. TypeOK'
  BY <1>1 DEF TInv, TypeOK, WInv, States
<1>3. Known'
  BY DEF TInv, TypeOK, Known, Own, Members
<1> QED
  BY <1>1, <1>2, <1>3 DEF TInv

\* A process that is gone leaves no request that waits for it.
LEMMA Forsaken ==
  ASSUME TInv, NEW w \in Workers, Forsake(w)
  PROVE  /\ requests' \in SUBSET (Keys \X (Executors \cup {None}))
         /\ \A q \in requests' : q[2] # None => q \in requests /\ q[2] # w
BY DEF TInv, TypeOK, Forsake

LEMMA PostAmbiguousTypes ==
  ASSUME TInv, NEW w \in Executors, PostAmbiguous(w)
  PROVE  TInv'
<1> USE DEF PostAmbiguous, ledger, intents
<1>0. w \in Workers /\ w \notin Operators /\ None \notin Transfers
  BY TransferAssumption DEF Workers
<1>1. WInv'
  <2>1. PICK r \in Processes : /\ worker' = [worker EXCEPT ![w] = r]
                               /\ Coherent(r) /\ r.pc = "next" /\ r.xfer = None
    BY GoesOn
  <2> QED
    BY <1>0, <2>1, Forsaken, Moves DEF ExecutorLabels, StripeGrows
<1>2. TypeOK'
  BY <1>0, <1>1, Forsaken DEF TInv, TypeOK, WInv
<1>3. Known'
  BY DEF TInv, Known, Own, Members
<1> QED
  BY <1>1, <1>2, <1>3 DEF TInv

LEMMA CrashTypes ==
  ASSUME TInv, NEW w \in Workers, Crash(w)
  PROVE  TInv'
<1> USE DEF Crash, ledger, intents
<1>1. WInv'
  <2>1. Resting \in Processes /\ Coherent(Resting) /\ Resting.pc = "idle" /\ Resting.xfer \notin Transfers
    BY RestingType, TransferAssumption DEF Resting
  <2> QED
    BY <2>1, Forsaken, Moves DEF Rest, ExecutorLabels, OperatorLabels, StripeGrows
<1>2. TypeOK'
  BY <1>1, Forsaken DEF TInv, TypeOK, WInv
<1>3. Known'
  BY DEF TInv, Known, Own, Members
<1> QED
  BY <1>1, <1>2, <1>3 DEF TInv

LEMMA StaleTypes ==
  ASSUME TInv, NEW w \in Executors, Stale(w)
  PROVE  TInv'
<1> USE DEF Stale, ledger, intents, stripe
<1>0. w \in Workers /\ w \notin Operators /\ Who(w) \in Partners /\ worker[w].xfer = None
  BY InHand, TransferAssumption DEF At, Workers
<1>1. WInv'
  BY <1>0, GoesBare DEF Quiet, At, Labels, ExecutorLabels
<1>2. TypeOK'
  BY <1>1 DEF TInv, TypeOK, WInv, States
<1>3. Known'
  BY DEF TInv, TypeOK, Known, Own, Members
<1> QED
  BY <1>1, <1>2, <1>3 DEF TInv

LEMMA ListTypes ==
  ASSUME TInv, NEW w \in Executors, List(w)
  PROVE  TInv'
<1> USE DEF List, ledger, intents, stripe
<1>0. w \in Workers /\ w \notin Operators /\ Who(w) \in Partners /\ worker[w].xfer = None
  BY InHand, TransferAssumption DEF At, Workers
<1>1. WInv'
  <2>1. Quiet(w)
    BY DEF Quiet, At
  <2>2. CASE Done(w)
    BY <2>1, <2>2, Dones
  <2>3. CASE \E t \in Members(Who(w)) : t \notin foreign /\ GoWith(w, "adopt", t)
    <3>1. PICK t \in Members(Who(w)) : t \notin foreign /\ GoWith(w, "adopt", t)
      BY <2>3
    <3>2. t \in Own(Who(w)) /\ t \in Transfers
      BY <3>1 DEF Own, Members, TInv, TypeOK
    <3> QED
      BY <1>0, <2>1, <3>1, <3>2, Goes DEF GoWith, Labels, ExecutorLabels
  <2>4. CASE Go(w, "park")
    BY <1>0, <2>1, <2>4, GoesBare DEF Labels, ExecutorLabels
  <2> QED
    BY <2>2, <2>3, <2>4
<1>2. TypeOK'
  BY <1>1 DEF TInv, TypeOK, WInv
<1>3. Known'
  BY DEF TInv, Known, Own, Members
<1> QED
  BY <1>1, <1>2, <1>3 DEF TInv

LEMMA CannotVerifyTypes ==
  ASSUME TInv, NEW w \in Executors, CannotVerify(w)
  PROVE  TInv'
<1> USE DEF CannotVerify, ledger, intents, stripe
<1>1. WInv'
  BY Dones DEF Quiet, At
<1>2. TypeOK'
  BY <1>1 DEF TInv, TypeOK, WInv
<1>3. Known'
  BY DEF TInv, Known, Own, Members
<1> QED
  BY <1>1, <1>2, <1>3 DEF TInv

LEMMA ParkTypes ==
  ASSUME TInv, NEW w \in Executors, Park(w)
  PROVE  TInv'
<1> USE DEF Park, ledger, intents, stripe
<1>1. WInv'
  BY Dones DEF Quiet, At
<1>2. TypeOK'
  BY <1>1 DEF TInv, TypeOK, WInv, States, Renonce
<1>3. Known'
  BY DEF TInv, TypeOK, Known, Own, Members
<1> QED
  BY <1>1, <1>2, <1>3 DEF TInv

\* An operator reads an intent.
LEMMA BeginsOperation ==
  ASSUME TInv, NEW o \in Operators, NEW p \in Partners, NEW l \in {"rearmList", "resolveList"},
         At(o, "idle"), Begins(o, l, p), UNCHANGED <<requests, made, foreign>>
  PROVE  WInv'
<1> DEFINE r == [Resting EXCEPT !.pc = l, !.who = p, !.gen = generation[p]]
<1>1. r \in Processes /\ Coherent(r) /\ r.pc = l /\ r.xfer = None
  BY RestingType DEF Processes, Coherent, Resting, Labels, TInv, TypeOK
<1>2. worker' = [worker EXCEPT ![o] = r] /\ Quiet(o)
  BY DEF Begins, Quiet, At
<1>3. o \in Workers /\ o \notin Executors /\ None \notin Transfers
  BY TransferAssumption DEF Workers
<1> HIDE DEF r
<1> QED
  BY <1>1, <1>2, <1>3, Walks DEF OperatorLabels

LEMMA RearmReadTypes ==
  ASSUME TInv, NEW o \in Operators, NEW p \in Partners, RearmRead(o, p)
  PROVE  TInv'
<1> USE DEF RearmRead, ledger, intents, stripe
<1>1. WInv'
  BY BeginsOperation
<1>2. TypeOK'
  BY <1>1 DEF TInv, TypeOK, WInv
<1>3. Known'
  BY DEF TInv, Known, Own, Members
<1> QED
  BY <1>1, <1>2, <1>3 DEF TInv

LEMMA ResolveReadTypes ==
  ASSUME TInv, NEW o \in Operators, NEW p \in Partners, ResolveRead(o, p)
  PROVE  TInv'
<1> USE DEF ResolveRead, ledger, intents, stripe
<1>1. WInv'
  BY BeginsOperation
<1>2. TypeOK'
  BY <1>1 DEF TInv, TypeOK, WInv
<1>3. Known'
  BY DEF TInv, Known, Own, Members
<1> QED
  BY <1>1, <1>2, <1>3 DEF TInv

LEMMA RearmListTypes ==
  ASSUME TInv, NEW o \in Operators, RearmList(o)
  PROVE  TInv'
<1> USE DEF RearmList, ledger, intents, stripe
<1>0. o \in Workers /\ o \notin Executors /\ Who(o) \in Partners /\ worker[o].xfer = None
  BY InHand, TransferAssumption DEF At, Workers
<1>1. WInv'
  <2>1. Quiet(o)
    BY DEF Quiet, At
  <2>2. CASE Rest(o)
    BY <1>0, <2>1, <2>2, Rests
  <2>3. CASE Go(o, "rearm")
    BY <1>0, <2>1, <2>3, GoesBare DEF Labels, OperatorLabels
  <2> QED
    BY <2>2, <2>3
<1>2. TypeOK'
  BY <1>1 DEF TInv, TypeOK, WInv
<1>3. Known'
  BY DEF TInv, Known, Own, Members
<1> QED
  BY <1>1, <1>2, <1>3 DEF TInv

LEMMA RearmTypes ==
  ASSUME TInv, NEW o \in Operators, Rearm(o)
  PROVE  TInv'
<1> USE DEF Rearm, ledger, intents, stripe
<1>0. o \in Workers /\ Who(o) \in Partners /\ worker[o].gen \in Nat /\ MaxGeneration \in Nat
  BY InHand, TransferAssumption DEF At, Workers, Processes, Generations
<1>1. WInv'
  BY <1>0, Rests DEF Quiet, At
<1>2. (generation \in [Partners -> Generations])'
  <2>1. generation \in [Partners -> Generations]
    BY DEF TInv, TypeOK
  <2>2. CASE Ours(o, {"reconcile_required"}) /\ worker[o].gen < MaxGeneration
    <3>1. generation[Who(o)] + 1 \in Generations
      BY <1>0, <2>2 DEF Ours, Generations
    <3> QED
      BY <2>1, <2>2, <3>1
  <2> QED
    BY <2>1, <2>2
<1>3. TypeOK'
  BY <1>1, <1>2 DEF TInv, TypeOK, WInv, States, Ages
<1>4. Known'
  BY DEF TInv, TypeOK, Known, Own, Members
<1> QED
  BY <1>1, <1>3, <1>4 DEF TInv

LEMMA ResolveListTypes ==
  ASSUME TInv, NEW o \in Operators, ResolveList(o)
  PROVE  TInv'
<1> USE DEF ResolveList, ledger, intents, stripe
<1>0. o \in Workers /\ o \notin Executors /\ Who(o) \in Partners /\ worker[o].xfer = None
  BY InHand, TransferAssumption DEF At, Workers
<1>1. WInv'
  <2>1. Quiet(o)
    BY DEF Quiet, At
  <2>2. CASE \E t \in Members(Who(o)) : t \notin foreign /\ GoWith(o, "keep", t)
    <3>1. PICK t \in Members(Who(o)) : t \notin foreign /\ GoWith(o, "keep", t)
      BY <2>2
    <3>2. t \in Own(Who(o)) /\ t \in Transfers
      BY <3>1 DEF Own, Members, TInv, TypeOK
    <3> QED
      BY <1>0, <2>1, <3>1, <3>2, Goes DEF GoWith, Labels, OperatorLabels
  <2>3. CASE Go(o, "close")
    BY <1>0, <2>1, <2>3, GoesBare DEF Labels, OperatorLabels
  <2>4. CASE Rest(o)
    BY <1>0, <2>1, <2>4, Rests
  <2> QED
    BY <2>2, <2>3, <2>4
<1>2. TypeOK'
  BY <1>1 DEF TInv, TypeOK, WInv
<1>3. Known'
  BY DEF TInv, Known, Own, Members
<1> QED
  BY <1>1, <1>2, <1>3 DEF TInv

LEMMA CloseReversedTypes ==
  ASSUME TInv, NEW o \in Operators, CloseReversed(o)
  PROVE  TInv'
<1> USE DEF CloseReversed, ledger, intents, stripe
<1>1. WInv'
  BY Rests DEF Quiet, At, Workers
<1>2. TypeOK'
  BY <1>1 DEF TInv, TypeOK, WInv, States, Put
<1>3. Known'
  BY DEF TInv, TypeOK, Known, Own, Members
<1> QED
  BY <1>1, <1>2, <1>3 DEF TInv

LEMMA HookCreatedTypes ==
  ASSUME TInv, NEW e \in events, HookCreated(e)
  PROVE  TInv'
<1> USE DEF HookCreated, ledger, intents, stripe
<1>1. WInv'
  BY Stays DEF StripeGrows
<1>2. TypeOK'
  BY <1>1 DEF TInv, TypeOK, WInv, Renonce
<1>3. Known'
  BY DEF TInv, Known, Own, Members
<1> QED
  BY <1>1, <1>2, <1>3 DEF TInv

LEMMA HookReversedTypes ==
  ASSUME TInv, NEW e \in events, HookReversed(e)
  PROVE  TInv'
<1> USE DEF HookReversed, ledger, intents, stripe
<1>1. WInv'
  BY Stays DEF StripeGrows
<1>2. TypeOK'
  BY <1>1 DEF TInv, TypeOK, WInv, Renonce, Derive, Events
<1>3. Known'
  BY DEF TInv, Known, Own, Members
<1> QED
  BY <1>1, <1>2, <1>3 DEF TInv

LEMMA SweepTypes ==
  ASSUME TInv, NEW p \in Partners, Sweep(p)
  PROVE  TInv'
<1> USE DEF Sweep, ledger, intents, stripe
<1>1. WInv'
  BY Stays DEF StripeGrows
<1>2. TypeOK'
  BY <1>1 DEF TInv, TypeOK, WInv, Derive
<1>3. Known'
  BY DEF TInv, Known, Own, Members
<1> QED
  BY <1>1, <1>2, <1>3 DEF TInv

LEMMA ClawbackTypes ==
  ASSUME TInv, Clawback
  PROVE  TInv'
<1> USE DEF Clawback, ledger, intents, stripe
<1>1. WInv'
  BY Stays DEF StripeGrows
<1>2. TypeOK'
  BY <1>1 DEF TInv, TypeOK, WInv
<1>3. Known'
  BY DEF TInv, Known, Own, Members
<1> QED
  BY <1>1, <1>2, <1>3 DEF TInv

LEMMA ReverseCommissionTypes ==
  ASSUME TInv, NEW a \in Allocations, ReverseCommission(a)
  PROVE  TInv'
<1> USE DEF ReverseCommission, ledger, intents, stripe
<1>1. WInv'
  BY Stays DEF StripeGrows
<1>2. TypeOK'
  BY <1>1 DEF TInv, TypeOK, WInv
<1>3. Known'
  BY DEF TInv, Known, Own, Members
<1> QED
  BY <1>1, <1>2, <1>3 DEF TInv

LEMMA ToggleHoldTypes ==
  ASSUME TInv, NEW p \in Partners, ToggleHold(p)
  PROVE  TInv'
<1> USE DEF ToggleHold, ledger, intents, stripe
<1>1. WInv'
  BY Stays DEF StripeGrows
<1>2. TypeOK'
  BY <1>1 DEF TInv, TypeOK, WInv
<1>3. Known'
  BY DEF TInv, Known, Own, Members
<1> QED
  BY <1>1, <1>2, <1>3 DEF TInv

LEMMA StripeReversesTypes ==
  ASSUME TInv, NEW t \in Transfers, NEW b \in Returned, StripeReverses(t, b)
  PROVE  TInv'
<1> USE DEF StripeReverses, ledger, intents, stripe
<1>1. WInv'
  BY Stays DEF StripeGrows
<1>2. TypeOK'
  BY <1>1 DEF TInv, TypeOK, WInv, Events, Returned
<1>3. Known'
  BY DEF TInv, Known, Own, Members
<1> QED
  BY <1>1, <1>2, <1>3 DEF TInv

LEMMA LoseEventTypes ==
  ASSUME TInv, NEW e \in events, LoseEvent(e)
  PROVE  TInv'
<1> USE DEF LoseEvent, ledger, intents, stripe
<1>1. WInv'
  BY Stays DEF StripeGrows
<1>2. TypeOK'
  BY <1>1 DEF TInv, TypeOK, WInv
<1>3. Known'
  BY DEF TInv, Known, Own, Members
<1> QED
  BY <1>1, <1>2, <1>3 DEF TInv

LEMMA WindowPassesTypes ==
  ASSUME TInv, NEW p \in Partners, WindowPasses(p)
  PROVE  TInv'
<1> USE DEF WindowPasses, ledger, intents, stripe
<1>1. WInv'
  BY Stays DEF StripeGrows
<1>2. TypeOK'
  BY <1>1 DEF TInv, TypeOK, WInv, Ages
<1>3. Known'
  BY DEF TInv, Known, Own, Members
<1> QED
  BY <1>1, <1>2, <1>3 DEF TInv

LEMMA DropTypes ==
  ASSUME TInv, NEW r \in requests, Drop(r)
  PROVE  TInv'
<1> USE DEF Drop, ledger, intents, stripe
<1>1. WInv'
  BY Stays DEF StripeGrows
<1>2. TypeOK'
  BY <1>1 DEF TInv, TypeOK, WInv
<1>3. Known'
  BY DEF TInv, Known, Own, Members
<1> QED
  BY <1>1, <1>2, <1>3 DEF TInv

LEMMA KeyPrunedTypes ==
  ASSUME TInv, NEW k \in Keys, KeyPruned(k)
  PROVE  TInv'
<1> USE DEF KeyPruned, ledger, intents, stripe
<1>1. WInv'
  BY Stays DEF StripeGrows
<1>2. TypeOK'
  BY <1>1 DEF TInv, TypeOK, WInv
<1>3. Known'
  BY TransferAssumption DEF TInv, TypeOK, Known, Own, Members
<1> QED
  BY <1>1, <1>2, <1>3 DEF TInv

LEMMA OutsideTransferTypes ==
  ASSUME TInv, NEW p \in Partners, OutsideTransfer(p)
  PROVE  TInv'
<1> USE DEF OutsideTransfer, ledger, intents, stripe
<1>0. PICK t \in Transfers : NextTransfer(t, p) /\ made' = made \cup {t} /\ foreign' = foreign \cup {t}
                             /\ events' = events \cup {<<"created", t, "none">>}
  BY DEF OutsideTransfer
<1>1. StripeGrows /\ foreign' \subseteq made' /\ UNCHANGED <<kept, state, recorded, worker, requests>>
  BY <1>0 DEF StripeGrows, NextTransfer, TInv, Known
<1>2. WInv'
  BY <1>1, Stays
<1>3. TypeOK'
  BY <1>0, <1>2 DEF TInv, TypeOK, WInv, Events
<1>4. Known'
  BY <1>1, KnownStays DEF TInv
<1> QED
  BY <1>2, <1>3, <1>4 DEF TInv

\* The process that is answered has an outcome in hand.
LEMMA RequestType ==
  ASSUME TInv, NEW r \in requests
  PROVE  r[1] \in Keys /\ r[1][1] \in Partners /\ r[1][2] \in Generations
BY DEF TInv, TypeOK, Keys

LEMMA StripeReplaysTypes ==
  ASSUME TInv, NEW r \in requests, StripeReplays(r)
  PROVE  TInv'
<1> USE DEF StripeReplays, ledger, intents
<1>1. WInv'
  <2>1. kept[r[1]] \in Transfers \cup {Refused}
    BY RequestType DEF TInv, TypeOK
  <2>2. kept[r[1]] \in Transfers => (kept[r[1]] \in Own(r[1][1]))'
    BY RequestType DEF TInv, Known, Own, Members
  <2> QED
    BY <2>1, <2>2, Answered DEF StripeGrows
<1>2. TypeOK'
  BY <1>1 DEF TInv, TypeOK, WInv, Answer
<1>3. Known'
  BY DEF TInv, Known, Own, Members
<1> QED
  BY <1>1, <1>2, <1>3 DEF TInv

LEMMA StripeTransfersTypes ==
  ASSUME TInv, NEW r \in requests, StripeTransfers(r)
  PROVE  TInv'
<1> USE DEF StripeTransfers, ledger, intents
<1>0. PICK t \in Transfers : /\ NextTransfer(t, r[1][1])
                             /\ made' = made \cup {t}
                             /\ stamped' = [stamped EXCEPT ![t] = r[1][2]]
                             /\ kept' = [kept EXCEPT ![r[1]] = t]
                             /\ events' = events \cup {<<"created", t, "none">>}
                             /\ Answer(r, t)
  OBVIOUS
<1>1. t \notin foreign /\ t[1] = r[1][1] /\ t \notin made
  BY <1>0 DEF NextTransfer, TInv, Known
<1>2. StripeGrows /\ foreign' \subseteq made' /\ UNCHANGED <<foreign, state, recorded>>
  BY <1>0 DEF StripeGrows, TInv, Known
<1>3. (t \in Own(r[1][1]))'
  BY <1>0, <1>1, <1>2 DEF Own, Members
<1>4. WInv'
  BY <1>0, <1>2, <1>3, Answered
<1>5. TypeOK'
  BY <1>0, <1>4, RequestType DEF TInv, TypeOK, WInv, Events, Answer
<1>6. Known'
  <2>1. \A k \in Keys : kept'[k] = kept[k] \/ (k = r[1] /\ kept'[k] = t)
    BY <1>0, RequestType DEF TInv, TypeOK
  <2>2. ASSUME NEW k \in Keys, kept'[k] \in Transfers PROVE (kept[k] \in Own(k[1]))'
    BY <1>2, <1>3, <2>1, <2>2 DEF TInv, Known, StripeGrows, Own, Members
  <2> QED
    BY <1>2, <2>2, KnownStays DEF TInv, Known, StripeGrows, Own, Members
<1> QED
  BY <1>4, <1>5, <1>6 DEF TInv

LEMMA StripeRefusesTypes ==
  ASSUME TInv, NEW r \in requests, StripeRefuses(r)
  PROVE  TInv'
<1> USE DEF StripeRefuses, ledger, intents
<1>1. WInv'
  BY Answered, TransferAssumption DEF StripeGrows
<1>2. TypeOK'
  BY <1>1 DEF TInv, TypeOK, WInv, Answer
<1>3. Known'
  BY TransferAssumption DEF TInv, TypeOK, Known, Own, Members
<1> QED
  BY <1>1, <1>2, <1>3 DEF TInv

-----------------------------------------------------------------------------
(* Types.                                                                     *)

LEMMA InitTypes == Init => TInv
<1> SUFFICES ASSUME Init PROVE TInv
  OBVIOUS
<1> USE DEF Init
<1>1. worker \in [Workers -> Processes] /\ \A w \in Workers : worker[w] = Resting
  BY RestingType
<1>2. TypeOK
  <2>1. 0 \in Generations
    BY TransferAssumption DEF Generations
  <2> QED
    BY <1>1, <2>1 DEF TypeOK, States, Ages, Returned
<1>3. Roles
  BY <1>1, RestingType DEF Roles, Workers, Resting, ExecutorLabels, OperatorLabels
<1>4. Waiting /\ Carried
  BY <1>1, TransferAssumption DEF Waiting, Carried, Resting
<1>5. Known
  BY TransferAssumption DEF Known
<1> QED
  BY <1>1, <1>2, <1>3, <1>4, <1>5 DEF TInv, WInv

LEMMA StepTypes == TInv /\ [Next]_vars => TInv'
<1> SUFFICES ASSUME TInv, [Next]_vars PROVE TInv'
  OBVIOUS
<1>1. ASSUME NEW w \in Executors, Step(w) PROVE TInv'
  BY <1>1, StopTypes, CreateTypes, WithholdTypes, CancelTypes, SettleTypes, PostTypes, PostReturnsTypes,
     PostRefusedTypes, StaleTypes, ListTypes, AdoptTypes, ParkTypes, TakeTypes
     DEF Step, Reconcile
<1>2. ASSUME NEW o \in Operators, Operate(o) PROVE TInv'
  BY <1>2, RearmListTypes, RearmTypes, ResolveListTypes, KeepTypes, CloseReversedTypes, RearmReadTypes,
     ResolveReadTypes
     DEF Operate
<1>3. CASE Running
  BY <1>1, <1>2, <1>3, BeginTypes, HookCreatedTypes, HookReversedTypes, SweepTypes, WindowPassesTypes,
     ToggleHoldTypes, StripeReplaysTypes, StripeTransfersTypes, StripeReversesTypes, ReverseCommissionTypes,
     KeyPrunedTypes, ClawbackTypes
     DEF Running, Hook
<1>4. CASE Failing
  BY <1>4, UnreadyTypes, PostAmbiguousTypes, CannotVerifyTypes, CrashTypes, StripeRefusesTypes, DropTypes,
     OutsideTransferTypes, LoseEventTypes
     DEF Failing
<1>5. CASE UNCHANGED vars
  <2> USE <1>5 DEF vars, ledger, intents, stripe
  <2>1. WInv'
    BY Stays DEF StripeGrows
  <2>2. TypeOK'
    BY DEF TInv, TypeOK
  <2>3. Known'
    BY DEF TInv, Known, Own, Members
  <2> QED
    BY <2>1, <2>2, <2>3 DEF TInv
<1> QED
  BY <1>3, <1>4, <1>5 DEF Next

\* Every variable keeps its type, for any number of executors and operators
\* and with every failure that the model knows.
THEOREM TypeCorrect == Spec => []TypeOK
<1>1. TInv => TypeOK
  BY DEF TInv
<1> QED
  BY <1>1, InitTypes, StepTypes, PTL DEF Spec

-----------------------------------------------------------------------------
(* What a step does to the shares of the batch.                               *)

LEMMA AllocationTypes ==
  ASSUME TypeOK
  PROVE  /\ \A p \in Partners : Of(p) \subseteq Allocations /\ LiveOf(p) \subseteq Of(p)
         /\ \A a \in Allocations : a[1] \in Partners /\ a \in Of(a[1])
         /\ \A p, q \in Partners : p # q => Of(p) \cap Of(q) = {}
BY DEF Allocations, Of, LiveOf

\* Nothing is decided, and an intent that changes is one whose shares are live.
Active == Open \cup {"failed"}
Calm ==
  /\ UNCHANGED <<allocation, commission, frozen>>
  /\ state' \in [Partners -> States]
  /\ \A p \in Partners : \/ state'[p] = state[p]
                         \/ state[p] \in Active /\ state'[p] \in Active /\ LiveOf(p) = frozen[p]

\* All that is live of an intent is paid,
Pays(p) ==
  /\ state[p] \in Open
  /\ state' = [state EXCEPT ![p] = "confirmed"]
  /\ allocation' = Put(LiveOf(p), "transferred")
  /\ commission' = [a \in Allocations |-> IF a \in LiveOf(p) THEN "paid" ELSE commission[a]]
  /\ UNCHANGED frozen

\* withheld,
Abandons(p) ==
  /\ state[p] \in Active
  /\ state' = [state EXCEPT ![p] = "failed"]
  /\ allocation' = Put(LiveOf(p), "canceled")
  /\ UNCHANGED <<commission, frozen>>

\* withheld before there is an intent,
Cancels(p, S) ==
  /\ S \subseteq {a \in Of(p) : allocation[a] = "reserved"}
  /\ allocation' = Put(S, "canceled")
  /\ commission' \in [Allocations -> {"approved", "reversed", "paid"}]
  /\ \A a \in Allocations : commission'[a] = "paid" <=> commission[a] = "paid"
  /\ UNCHANGED <<state, frozen>>

\* or frozen in a new intent.
Freezes(p) ==
  /\ state[p] = "none" /\ LiveOf(p) # {}
  /\ \A a \in LiveOf(p) : allocation[a] = "reserved"
  /\ state' = [state EXCEPT ![p] = "pending"]
  /\ frozen' = [frozen EXCEPT ![p] = LiveOf(p)]
  /\ allocation' = Put(LiveOf(p), "transfer_pending")
  /\ UNCHANGED commission

LEMMA CalmShapes ==
  ASSUME IInv, Calm
  PROVE  Shape' /\ Paid'
<1>1. Live' = Live /\ \A p \in Partners : LiveOf(p)' = LiveOf(p)
  BY DEF Calm, Live, LiveOf, Of
<1>2. Paid'
  BY DEF Calm, Paid, IInv
<1>3. ASSUME NEW p \in Partners PROVE Shaped(p)'
  <2>1. Shaped(p) /\ LiveOf(p)' = LiveOf(p) /\ Of(p)' = Of(p)
    BY <1>1 DEF IInv, Shape, Of
  <2>2. CASE state'[p] = state[p]
    BY <2>1, <2>2 DEF Shaped, Calm, Of
  <2>3. CASE state[p] \in Active /\ state'[p] \in Active /\ LiveOf(p) = frozen[p]
    BY <2>1, <2>3 DEF Shaped, Calm, Active, Open, Of
  <2> QED
    BY <2>2, <2>3 DEF Calm
<1> QED
  BY <1>2, <1>3 DEF Shape

LEMMA PaysShapes ==
  ASSUME IInv, NEW p \in Partners, Pays(p)
  PROVE  Shape' /\ Paid' /\ Live' \subseteq Live /\ LiveOf(p) # {}
         /\ \A q \in Partners \ {p} : LiveOf(q)' = LiveOf(q)
<1>1. TypeOK /\ Shaped(p) /\ LiveOf(p) = frozen[p] /\ LiveOf(p) # {}
  BY DEF IInv, TInv, Shape, Shaped, Pays, Open
<1>2. \A a \in Allocations : allocation'[a] = IF a \in LiveOf(p) THEN "transferred" ELSE allocation[a]
  BY DEF Pays, Put
<1>3. Live' = Live \ LiveOf(p)
  BY <1>2 DEF Live
<1>4. \A q \in Partners \ {p} : LiveOf(q)' = LiveOf(q)
  BY <1>1, <1>3, AllocationTypes DEF LiveOf, Of
<1>5. Paid'
  BY <1>2 DEF Pays, Paid, IInv
<1>6. Shaped(p)'
  <2>1. LiveOf(p)' = {} /\ state'[p] = "confirmed" /\ frozen' = frozen
    BY <1>1, <1>3 DEF LiveOf, Of, Pays, TypeOK
  <2>2. ASSUME NEW a \in Of(p)
        PROVE  IF a \in frozen[p] THEN allocation'[a] = "transferred" ELSE allocation'[a] = "canceled"
    <3>1. a \in Allocations
      BY <1>1, AllocationTypes
    <3>2. CASE a \in frozen[p]
      BY <1>1, <1>2, <3>1, <3>2
    <3>3. CASE a \notin frozen[p]
      BY <1>1, <1>2, <3>1, <3>3 DEF Shaped, LiveOf, Live, Pays, Open, TypeOK
    <3> QED
      BY <3>2, <3>3
  <2> QED
    BY <1>1, <2>1, <2>2 DEF Shaped, Open, Of
<1>7. ASSUME NEW q \in Partners \ {p} PROVE Shaped(q)'
  <2>1. Shaped(q) /\ state'[q] = state[q] /\ frozen' = frozen /\ LiveOf(q)' = LiveOf(q)
    BY <1>1, <1>4 DEF IInv, Shape, Pays, TypeOK
  <2>2. \A a \in Of(q) : allocation'[a] = allocation[a]
    BY <1>1, <1>2, AllocationTypes
  <2> QED
    BY <2>1, <2>2 DEF Shaped, Of
<1> QED
  BY <1>1, <1>3, <1>4, <1>5, <1>6, <1>7 DEF Shape

LEMMA AbandonsShapes ==
  ASSUME IInv, NEW p \in Partners, Abandons(p)
  PROVE  Shape' /\ Paid' /\ Live' \subseteq Live
         /\ \A q \in Partners \ {p} : LiveOf(q)' = LiveOf(q)
<1>1. TypeOK /\ Shaped(p)
  BY DEF IInv, TInv, Shape
<1>2. \A a \in Allocations : allocation'[a] = IF a \in LiveOf(p) THEN "canceled" ELSE allocation[a]
  BY DEF Abandons, Put
<1>3. Live' = Live \ LiveOf(p)
  BY <1>2 DEF Live
<1>4. \A q \in Partners \ {p} : LiveOf(q)' = LiveOf(q)
  BY <1>1, <1>3, AllocationTypes DEF LiveOf, Of
<1>5. Paid'
  BY <1>2 DEF Abandons, Paid, IInv, LiveOf, Live
<1>6. Shaped(p)'
  <2>1. LiveOf(p)' = {} /\ state'[p] = "failed" /\ frozen' = frozen
    BY <1>1, <1>3 DEF LiveOf, Of, Abandons, TypeOK
  <2>2. \A a \in Of(p) : allocation'[a] = "canceled"
    <3> SUFFICES ASSUME NEW a \in Of(p) PROVE allocation'[a] = "canceled"
      OBVIOUS
    <3>1. a \in Allocations
      BY <1>1, AllocationTypes
    <3>2. CASE a \in LiveOf(p)
      BY <1>2, <3>1, <3>2
    <3>3. CASE a \notin LiveOf(p)
      BY <1>1, <1>2, <3>1, <3>3 DEF Shaped, LiveOf, Live, Abandons, Active, Open, TypeOK
    <3> QED
      BY <3>2, <3>3
  <2>3. state[p] # "none"
    BY DEF Abandons, Active, Open
  <2> QED
    BY <1>1, <2>1, <2>2, <2>3 DEF Shaped, Open, Of
<1>7. ASSUME NEW q \in Partners \ {p} PROVE Shaped(q)'
  <2>1. Shaped(q) /\ state'[q] = state[q] /\ frozen' = frozen /\ LiveOf(q)' = LiveOf(q)
    BY <1>1, <1>4 DEF IInv, Shape, Abandons, TypeOK
  <2>2. \A a \in Of(q) : allocation'[a] = allocation[a]
    BY <1>1, <1>2, AllocationTypes
  <2> QED
    BY <2>1, <2>2 DEF Shaped, Of
<1> QED
  BY <1>3, <1>4, <1>5, <1>6, <1>7 DEF Shape

LEMMA CancelsShapes ==
  ASSUME IInv, NEW p \in Partners, NEW S, Cancels(p, S)
  PROVE  Shape' /\ Paid' /\ Live' = Live \ S
         /\ \A q \in Partners : state[q] # "none" => LiveOf(q)' = LiveOf(q)
<1>1. TypeOK /\ Shaped(p) /\ S \subseteq LiveOf(p) /\ LiveOf(p) \subseteq Allocations
  BY DEF IInv, TInv, Shape, Cancels, LiveOf, Live, Of
<1>2. \A a \in Allocations : allocation'[a] = IF a \in S THEN "canceled" ELSE allocation[a]
  BY DEF Cancels, Put
<1>3. Live' = Live \ S
  BY <1>2 DEF Live
<1>4. \A q \in Partners \ {p} : LiveOf(q)' = LiveOf(q)
  BY <1>1, <1>3, AllocationTypes DEF LiveOf, Of
<1>5. S # {} => state[p] = "none"
  BY <1>1 DEF Shaped, Cancels
<1>6. Paid'
  BY <1>2 DEF Cancels, Paid, IInv
<1>7. Shaped(p)'
  <2>1. CASE S = {}
    <3>1. \A a \in Of(p) : allocation'[a] = allocation[a]
      BY <1>1, <1>2, <2>1, AllocationTypes
    <3>2. LiveOf(p)' = LiveOf(p) /\ state' = state /\ frozen' = frozen
      BY <1>3, <2>1 DEF LiveOf, Cancels, Of
    <3> QED
      BY <1>1, <3>1, <3>2 DEF Shaped, Of
  <2>2. CASE S # {}
    BY <1>1, <1>2, <1>5, <2>2, AllocationTypes DEF Shaped, Cancels, Of, Open
  <2> QED
    BY <2>1, <2>2
<1>8. ASSUME NEW q \in Partners \ {p} PROVE Shaped(q)'
  <2>1. Shaped(q) /\ state' = state /\ frozen' = frozen /\ LiveOf(q)' = LiveOf(q)
    BY <1>1, <1>4 DEF IInv, Shape, Cancels
  <2>2. \A a \in Of(q) : allocation'[a] = allocation[a]
    BY <1>1, <1>2, AllocationTypes
  <2> QED
    BY <2>1, <2>2 DEF Shaped, Of
<1>9. state[p] # "none" => LiveOf(p)' = LiveOf(p)
  BY <1>3, <1>5 DEF LiveOf, Of
<1> QED
  BY <1>3, <1>4, <1>6, <1>7, <1>8, <1>9 DEF Shape

LEMMA FreezesShapes ==
  ASSUME IInv, NEW p \in Partners, Freezes(p)
  PROVE  Shape' /\ Paid' /\ Live' = Live
<1>1. TypeOK /\ Shaped(p) /\ LiveOf(p) \subseteq Allocations /\ LiveOf(p) \subseteq Of(p)
  BY DEF IInv, TInv, Shape, LiveOf, Live, Of
<1>2. \A a \in Allocations : allocation'[a] = IF a \in LiveOf(p) THEN "transfer_pending" ELSE allocation[a]
  BY DEF Freezes, Put
<1>3. Live' = Live
  BY <1>2 DEF Live, LiveOf
<1>4. Paid'
  BY <1>2 DEF Freezes, Paid, IInv
<1>5. Shaped(p)'
  <2>1. LiveOf(p)' = LiveOf(p) /\ state'[p] = "pending" /\ frozen'[p] = LiveOf(p)
    BY <1>1, <1>3 DEF LiveOf, Of, Freezes, TypeOK
  <2>2. ASSUME NEW a \in Of(p)
        PROVE  IF a \in LiveOf(p) THEN allocation'[a] = "transfer_pending" ELSE allocation'[a] = "canceled"
    <3>1. a \in Allocations
      BY <1>1, AllocationTypes
    <3>2. CASE a \in LiveOf(p)
      BY <1>2, <3>1, <3>2
    <3>3. CASE a \notin LiveOf(p)
      BY <1>1, <1>2, <3>1, <3>3 DEF Shaped, LiveOf, Live, Freezes, TypeOK
    <3> QED
      BY <3>2, <3>3
  <2>3. LiveOf(p) # {}
    BY DEF Freezes
  <2> QED
    BY <1>1, <2>1, <2>2, <2>3 DEF Shaped, Open, Of
<1>6. ASSUME NEW q \in Partners \ {p} PROVE Shaped(q)'
  <2>1. Shaped(q) /\ state'[q] = state[q] /\ frozen'[q] = frozen[q] /\ LiveOf(q)' = LiveOf(q)
    BY <1>1, <1>3 DEF IInv, Shape, Freezes, TypeOK, LiveOf, Of
  <2>2. \A a \in Of(q) : allocation'[a] = allocation[a]
    BY <1>1, <1>2, AllocationTypes
  <2> QED
    BY <2>1, <2>2 DEF Shaped, Of
<1> QED
  BY <1>3, <1>4, <1>5, <1>6 DEF Shape

-----------------------------------------------------------------------------
(* The batch, and what the step is to PartnerPayment.                         *)

Closed == batch \in {"settled", "settled_with_residual"}
Decided == [Payment!Next]_<<{a \in Allocations : allocation[a] = "transferred"},
                            {a \in Allocations : allocation[a] = "canceled"}, Closed>>

\* What happens to a batch short of its close.
BatchStays ==
  \/ UNCHANGED <<batch, residual>>
  \/ ~ Closed /\ batch' \in {"transferring", "funding_disputed"}

LEMMA CloseNeedsNothingLive ==
  ASSUME IInv, NEW p \in Partners, LiveOf(p) # {}
  PROVE  ~ Closed
BY DEF IInv, SettledIsComplete, LiveOf, Closed

LEMMA DueIsLive ==
  ASSUME TypeOK, NEW p \in Partners
  PROVE  Payment!Due(p) = LiveOf(p) /\ Payment!Shares(p) = Of(p)
<1>1. Of(p) = {p} \X Lines
  BY DEF Of, Allocations
<1> QED
  BY <1>1 DEF Payment!Due, Payment!Shares, LiveOf, Live, Allocations, TypeOK

LEMMA CalmBatch ==
  ASSUME IInv, Calm, BatchStays
  PROVE  SettledIsComplete' /\ Decided
<1>1. SettledIsComplete'
  BY DEF IInv, SettledIsComplete, Calm, BatchStays, Closed, Live
<1> QED
  BY <1>1 DEF Decided, Calm, BatchStays, Closed

LEMMA PaysBatch ==
  ASSUME IInv, NEW p \in Partners, Pays(p), UNCHANGED <<batch, residual>>
  PROVE  SettledIsComplete' /\ Decided
<1>1. LiveOf(p) # {} /\ ~ Closed /\ TypeOK
  BY PaysShapes, CloseNeedsNothingLive DEF IInv, TInv
<1>2. SettledIsComplete'
  BY <1>1 DEF SettledIsComplete, Closed
<1>3. \A a \in Allocations : allocation'[a] = IF a \in LiveOf(p) THEN "transferred" ELSE allocation[a]
  BY DEF Pays, Put
<1>4. LiveOf(p) \subseteq Allocations /\ \A a \in LiveOf(p) : allocation[a] # "canceled"
  BY DEF LiveOf, Live
<1>5. Payment!Pay(p)
  <2>1. Payment!Shares(p) \cap {a \in Allocations : allocation[a] = "transferred"} = {}
    BY <1>1, DueIsLive DEF IInv, Shape, Shaped, Pays, Open
  <2>2. {a \in Allocations : allocation'[a] = "transferred"} =
          {a \in Allocations : allocation[a] = "transferred"} \cup LiveOf(p)
    BY <1>3, <1>4
  <2>3. {a \in Allocations : allocation'[a] = "canceled"} = {a \in Allocations : allocation[a] = "canceled"}
    BY <1>3, <1>4
  <2> QED
    BY <1>1, <2>1, <2>2, <2>3, DueIsLive DEF Payment!Pay, Closed
<1> QED
  BY <1>2, <1>5 DEF Decided, Payment!Next

\* Shares that are live are withheld while the batch is open.
LEMMA WithheldBatch ==
  ASSUME IInv, NEW p \in Partners, NEW S \in SUBSET LiveOf(p), allocation' = Put(S, "canceled"),
         UNCHANGED <<batch, residual>>
  PROVE  SettledIsComplete' /\ Decided
<1>1. \A a \in Allocations : allocation'[a] = IF a \in S THEN "canceled" ELSE allocation[a]
  BY DEF Put
<1>2. CASE S = {}
  <2>1. \A a \in Allocations : allocation'[a] = allocation[a]
    BY <1>1, <1>2
  <2> QED
    BY <2>1 DEF IInv, SettledIsComplete, Live, Decided, Closed
<1>3. CASE S # {}
  <2>1. ~ Closed /\ TypeOK
    BY <1>3, CloseNeedsNothingLive DEF IInv, TInv
  <2>2. SettledIsComplete'
    BY <2>1 DEF SettledIsComplete, Closed
  <2>3. S \subseteq Allocations /\ \A a \in S : allocation[a] # "transferred"
    BY DEF LiveOf, Live
  <2>4. Payment!Withhold(p)
    <3>1. {a \in Allocations : allocation'[a] = "canceled"} =
            {a \in Allocations : allocation[a] = "canceled"} \cup S
      BY <1>1, <2>3
    <3>2. {a \in Allocations : allocation'[a] = "transferred"} =
            {a \in Allocations : allocation[a] = "transferred"}
      BY <1>1, <2>3
    <3>3. S \in SUBSET Payment!Due(p)
      BY <2>1, DueIsLive
    <3> QED
      BY <1>3, <2>1, <3>1, <3>2, <3>3 DEF Payment!Withhold, Closed
  <2> QED
    BY <2>2, <2>4 DEF Decided, Payment!Next
<1> QED
  BY <1>2, <1>3

LEMMA FreezesBatch ==
  ASSUME IInv, NEW p \in Partners, Freezes(p), UNCHANGED <<batch, residual>>
  PROVE  SettledIsComplete' /\ Decided
<1>1. ~ Closed
  BY CloseNeedsNothingLive DEF Freezes
<1>2. \A a \in Allocations : allocation'[a] = IF a \in LiveOf(p) THEN "transfer_pending" ELSE allocation[a]
  BY DEF Freezes, Put
<1>3. \A a \in LiveOf(p) : allocation[a] \notin {"transferred", "canceled"}
  BY DEF LiveOf, Live
<1> QED
  BY <1>1, <1>2, <1>3 DEF SettledIsComplete, Decided, Closed

LEMMA SettleBatch ==
  ASSUME IInv, NEW w \in Executors, Settle(w)
  PROVE  SettledIsComplete' /\ Decided
<1>1. CASE batch = "transferring" /\ Live = {}
  <2>1. SettledIsComplete'
    BY <1>1 DEF Settle, SettledIsComplete, Live
  <2>2. Payment!Close
    <3>1. ~ Closed /\ Closed' /\ allocation' = allocation
      BY <1>1 DEF Settle, Closed
    <3>2. \A p \in Partners : Payment!Due(p) = {}
      BY <1>1, DueIsLive DEF LiveOf, IInv, TInv
    <3> QED
      BY <3>1, <3>2 DEF Payment!Close, Closed
  <2> QED
    BY <2>1, <2>2 DEF Decided, Payment!Next
<1>2. CASE ~ (batch = "transferring" /\ Live = {})
  BY <1>2 DEF Settle, IInv, SettledIsComplete, Live, Decided, Closed
<1> QED
  BY <1>1, <1>2

-----------------------------------------------------------------------------
(* The pass.                                                                  *)

\* What the visit of a partner relies on is not disturbed.
Steady(p) ==
  /\ frozen'[p] = frozen[p]
  /\ state[p] = "none" => state'[p] = "none"
  /\ state'[p] \in Active => state[p] \in Active
  /\ state'[p] = "failed" => /\ LiveOf(p)' = LiveOf(p)
                             /\ state[p] = "failed" \/ LiveOf(p) = frozen[p]

\* The pass goes on over what it read, or ends.
Remains(v) ==
  worker'[v].pc # "idle" =>
    /\ worker[v].pc # "idle"
    /\ worker'[v].live = worker[v].live
    /\ worker'[v].todo \subseteq worker[v].todo
    /\ worker'[v].pc # "next" => worker'[v].who \in worker'[v].todo
    /\ worker'[v].pc = "create" => state[worker'[v].who] = "none"
    /\ \A p \in worker'[v].todo : Steady(p)

LEMMA PassingStays ==
  ASSUME IInv, Live' \subseteq Live, \A v \in Executors : Remains(v)
  PROVE  Passing'
<1> SUFFICES ASSUME NEW v \in Executors, worker'[v].pc # "idle"
             PROVE  (/\ Live \subseteq worker[v].live
                     /\ worker[v].pc # "next" => Who(v) \in worker[v].todo
                     /\ worker[v].pc = "create" => state[Who(v)] = "none"
                     /\ \A p \in worker[v].todo : Visits(worker[v], p))'
  BY DEF Passing
<1>1. Remains(v)
  OBVIOUS
<1>2. /\ Live \subseteq worker[v].live
      /\ \A p \in worker[v].todo : Visits(worker[v], p)
  BY <1>1 DEF Remains, IInv, Passing
<1>3. Live' \subseteq worker'[v].live
  BY <1>1, <1>2 DEF Remains
<1>4. worker'[v].pc # "next" => worker'[v].who \in worker'[v].todo
  BY <1>1 DEF Remains
<1>5. worker'[v].pc = "create" => state'[worker'[v].who] = "none"
  BY <1>1 DEF Remains, Steady
<1>6. ASSUME NEW p \in worker'[v].todo PROVE Visits(worker[v], p)'
  <2>1. Visits(worker[v], p) /\ Steady(p) /\ worker'[v].live = worker[v].live
    BY <1>1, <1>2 DEF Remains
  <2> QED
    BY <2>1 DEF Visits, Steady, Active, Open, Of
<1> QED
  BY <1>3, <1>4, <1>5, <1>6 DEF Who

\* How a process may move.
LEMMA RestRemains ==
  ASSUME TInv, NEW w \in Executors, Rest(w)
  PROVE  Remains(w)
BY DEF TInv, TypeOK, Rest, Remains, Resting, Workers

LEMMA DoneRemains ==
  ASSUME TInv, NEW w \in Executors, Done(w), ~ At(w, "idle"),
         \A p \in worker[w].todo \ {Who(w)} : Steady(p)
  PROVE  Remains(w)
<1>1. PICK r \in Processes : /\ worker' = [worker EXCEPT ![w] = r]
                             /\ r.pc = "next"
                             /\ r.live = worker[w].live /\ r.todo = worker[w].todo \ {Who(w)}
  BY GoesOn
<1>2. worker'[w] = r
  BY <1>1 DEF TInv, TypeOK, Workers
<1> QED
  BY <1>1, <1>2 DEF Remains, At

LEMMA GoRemains ==
  ASSUME IInv, NEW w \in Executors, ~ At(w, "idle"), ~ At(w, "next"),
         NEW l \in Labels \ {"create"}, NEW t, Go(w, l) \/ GoWith(w, l, t),
         \A p \in worker[w].todo : Steady(p)
  PROVE  Remains(w)
<1>1. /\ worker'[w].pc = l /\ worker'[w].live = worker[w].live
      /\ worker'[w].todo = worker[w].todo /\ worker'[w].who = Who(w)
  <2>1. worker \in [Workers -> Processes] /\ worker[w] \in Processes /\ w \in Workers
    BY DEF IInv, TInv, TypeOK, Workers
  <2>2. CASE Go(w, l)
    <3>1. worker'[w] = [worker[w] EXCEPT !.pc = l]
      BY <2>1, <2>2 DEF Go
    <3> QED
      BY <2>1, <3>1 DEF Processes, Who
  <2>3. CASE GoWith(w, l, t)
    <3>1. worker'[w] = [worker[w] EXCEPT !.pc = l, !.xfer = t]
      BY <2>1, <2>3 DEF GoWith
    <3> QED
      BY <2>1, <3>1 DEF Processes, Who
  <2> QED
    BY <2>2, <2>3
<1> QED
  BY <1>1 DEF Remains, At, IInv, Passing

LEMMA StayRemains ==
  ASSUME IInv, NEW w \in Executors,
         worker'[w].pc = worker[w].pc, worker'[w].live = worker[w].live,
         worker'[w].todo = worker[w].todo, worker'[w].who = worker[w].who,
         \A p \in Partners : Steady(p)
  PROVE  Remains(w)
<1>1. worker[w].todo \subseteq Partners
  BY DEF IInv, TInv, TypeOK, Processes, Workers
<1> QED
  BY <1>1 DEF Remains, IInv, Passing, Who

\* What does not change hands is not disturbed.
LEMMA CalmSteady ==
  ASSUME Calm, NEW p \in Partners
  PROVE  Steady(p)
<1>1. LiveOf(p)' = LiveOf(p)
  BY DEF Calm, Live, LiveOf, Of
<1> QED
  BY <1>1 DEF Calm, Steady, Active, Open

LEMMA PaysSteady ==
  ASSUME IInv, NEW p \in Partners, Pays(p), NEW q \in Partners
  PROVE  Steady(q)
<1>1. q # p => LiveOf(q)' = LiveOf(q)
  BY PaysShapes
<1> QED
  BY <1>1 DEF Pays, Steady, Active, Open, IInv, TInv, TypeOK

LEMMA AbandonsSteady ==
  ASSUME IInv, NEW p \in Partners, Abandons(p), NEW q \in Partners \ {p}
  PROVE  Steady(q)
<1>1. LiveOf(q)' = LiveOf(q)
  BY AbandonsShapes
<1> QED
  BY <1>1 DEF Abandons, Steady, Active, Open, IInv, TInv, TypeOK

LEMMA CancelsSteady ==
  ASSUME IInv, NEW p \in Partners, NEW S, Cancels(p, S), NEW q \in Partners
  PROVE  Steady(q)
<1>1. state[q] # "none" => LiveOf(q)' = LiveOf(q)
  BY CancelsShapes
<1> QED
  BY <1>1 DEF Cancels, Steady, Active, Open

LEMMA FreezesSteady ==
  ASSUME IInv, NEW p \in Partners, Freezes(p), NEW q \in Partners \ {p}
  PROVE  Steady(q)
<1>1. LiveOf(q)' = LiveOf(q)
  BY FreezesShapes DEF LiveOf, Of
<1> QED
  BY <1>1 DEF Freezes, Steady, Active, Open, IInv, TInv, TypeOK

-----------------------------------------------------------------------------
(* Each action, one pass at a time.                                           *)

\* What is to be shown of a step.
Good == Shape' /\ Passing' /\ SettledIsComplete' /\ Paid' /\ Decided

LEMMA CalmGood ==
  ASSUME IInv, Calm, BatchStays, \A v \in Executors : Remains(v)
  PROVE  Good
<1>1. Live' \subseteq Live
  BY DEF Calm, Live
<1> QED
  BY <1>1, CalmShapes, CalmBatch, PassingStays DEF Good

LEMMA PaysGood ==
  ASSUME IInv, NEW p \in Partners, Pays(p), UNCHANGED <<batch, residual>>, \A v \in Executors : Remains(v)
  PROVE  Good
BY PaysShapes, PaysBatch, PassingStays DEF Good

LEMMA AbandonsGood ==
  ASSUME IInv, NEW p \in Partners, Abandons(p), UNCHANGED <<batch, residual>>,
         \A v \in Executors : Remains(v)
  PROVE  Good
BY AbandonsShapes, WithheldBatch, PassingStays DEF Good, Abandons

LEMMA CancelsGood ==
  ASSUME IInv, NEW p \in Partners, NEW S, Cancels(p, S), UNCHANGED <<batch, residual>>,
         \A v \in Executors : Remains(v)
  PROVE  Good
<1>1. S \in SUBSET LiveOf(p)
  BY DEF Cancels, LiveOf, Live, Of
<1>2. Live' \subseteq Live
  BY CancelsShapes
<1> QED
  BY <1>1, <1>2, CancelsShapes, WithheldBatch, PassingStays DEF Good, Cancels

LEMMA FreezesGood ==
  ASSUME IInv, NEW p \in Partners, Freezes(p), UNCHANGED <<batch, residual>>,
         \A v \in Executors : Remains(v)
  PROVE  Good
BY FreezesShapes, FreezesBatch, PassingStays DEF Good

\* A step that changes no intent and no share, of the only executor,
LEMMA Unmoving ==
  ASSUME IInv, UNCHANGED <<allocation, commission, frozen, state>>
  PROVE  Calm /\ \A p \in Partners : Steady(p)
<1>1. Calm
  BY DEF IInv, TInv, TypeOK, Calm
<1> QED
  BY <1>1, CalmSteady

\* and of anything else.
LEMMA ElsewhereGood ==
  ASSUME IInv, Calm, BatchStays, \A v \in Executors : worker'[v] = worker[v]
  PROVE  Good
<1>1. \A p \in Partners : Steady(p)
  BY CalmSteady
<1>2. \A v \in Executors : Remains(v)
  BY <1>1, StayRemains
<1> QED
  BY <1>2, CalmGood

LEMMA BeginGood ==
  ASSUME Serial, IInv, NEW w \in Executors, Begin(w)
  PROVE  Good
<1> USE DEF Begin, intents
<1>1. Calm /\ BatchStays
  BY Unmoving DEF BatchStays, Closed
<1>2. Live' = Live
  BY DEF Live
<1>3. worker'[w].pc = "next" /\ worker'[w].live = Live /\ worker'[w].todo = {a[1] : a \in Live}
  BY DEF IInv, TInv, TypeOK, Workers, Resting
<1>4. ASSUME NEW p \in worker'[w].todo PROVE Visits(worker[w], p)'
  <2>1. PICK a \in Live : a[1] = p
    BY <1>3
  <2>2. p \in Partners /\ a \in LiveOf(p)
    BY <2>1 DEF Live, LiveOf, Of, Allocations
  <2>3. Shaped(p) /\ LiveOf(p)' = LiveOf(p)
    BY <1>2, <2>2 DEF IInv, Shape, LiveOf, Of
  <2> QED
    BY <1>3, <2>2, <2>3 DEF Visits, Shaped, LiveOf, Of
<1>5. Passing'
  BY <1>2, <1>3, <1>4 DEF Serial, Passing
<1> QED
  BY <1>1, <1>5, CalmShapes, CalmBatch DEF Good

LEMMA StopGood ==
  ASSUME Serial, IInv, NEW w \in Executors, Stop(w)
  PROVE  Good
BY Unmoving, RestRemains, CalmGood DEF Stop, ledger, intents, BatchStays, Serial, IInv

LEMMA TakeGood ==
  ASSUME Serial, IInv, NEW w \in Executors, NEW p \in Partners, Take(w, p)
  PROVE  Good
<1> USE DEF Take, ledger, intents
<1>1. Calm /\ BatchStays /\ \A q \in Partners : Steady(q)
  BY Unmoving DEF BatchStays
<1>2. worker \in [Workers -> Processes] /\ worker[w] \in Processes /\ w \in Workers
  BY DEF IInv, TInv, TypeOK, Workers
<1>3. Remains(w)
  <2>1. \A q \in worker[w].todo : Steady(q)
    BY <1>1, <1>2 DEF Processes
  <2>2. CASE Route(p) = "next"
    <3>1. worker'[w] = [worker[w] EXCEPT !.todo = @ \ {p}]
      BY <1>2, <2>2
    <3> QED
      BY <1>2, <2>1, <3>1 DEF Processes, Remains, At
  <2>3. CASE Route(p) # "next"
    <3>1. /\ worker'[w].pc = Route(p) /\ worker'[w].who = p
          /\ worker'[w].live = worker[w].live /\ worker'[w].todo = worker[w].todo
      BY <1>2, <2>3 DEF Processes
    <3>2. Route(p) = "create" => state[p] = "none"
      BY DEF Route
    <3> QED
      BY <2>1, <3>1, <3>2 DEF Remains, At
  <2> QED
    BY <2>2, <2>3
<1> QED
  BY <1>1, <1>3, CalmGood DEF Serial

LEMMA CreateGood ==
  ASSUME Serial, IInv, NEW w \in Executors, Create(w)
  PROVE  Good
<1> USE DEF Create, intents
<1> DEFINE p == Who(w)
           g == Group(w)
<1>1. /\ p \in Partners /\ p \in worker[w].todo /\ state[p] = "none"
      /\ Live \subseteq worker[w].live /\ Visits(worker[w], p)
      /\ worker[w].todo \subseteq Partners /\ worker[w].live \subseteq Allocations
      /\ ~ At(w, "idle") /\ ~ At(w, "next")
  BY InHand DEF IInv, Passing, At, Processes, Workers
<1>2. CASE Done(w) /\ UNCHANGED <<allocation, state, frozen>>
  <2>1. Calm /\ BatchStays /\ \A q \in Partners : Steady(q)
    BY <1>2, Unmoving DEF BatchStays
  <2> QED
    BY <1>1, <1>2, <2>1, DoneRemains, CalmGood DEF Serial, IInv
<1>3. CASE Rest(w) /\ UNCHANGED <<allocation, state, frozen>>
  <2>1. Calm /\ BatchStays
    BY <1>3, Unmoving DEF BatchStays
  <2> QED
    BY <1>3, <2>1, RestRemains, CalmGood DEF Serial, IInv
<1>4. CASE /\ \A a \in g : allocation[a] = "reserved"
           /\ allocation' = Put(g, "transfer_pending")
           /\ state' = [state EXCEPT ![p] = "pending"]
           /\ frozen' = [frozen EXCEPT ![p] = g]
           /\ Go(w, "post")
  <2>1. g # {} /\ g \subseteq Of(p) /\ LiveOf(p) \subseteq g
    BY <1>1 DEF Visits, Group, LiveOf
  <2>2. g \subseteq LiveOf(p)
    BY <1>1, <1>4 DEF LiveOf, Live, Group
  <2>3. Freezes(p) /\ g = LiveOf(p)
    BY <1>1, <1>4, <2>1, <2>2 DEF Freezes
  <2>4. /\ worker'[w].pc = "post" /\ worker'[w].live = worker[w].live
        /\ worker'[w].todo = worker[w].todo /\ worker'[w].who = p
    <3>1. worker \in [Workers -> Processes] /\ worker[w] \in Processes /\ w \in Workers
      BY DEF IInv, TInv, TypeOK, Workers
    <3>2. worker'[w] = [worker[w] EXCEPT !.pc = "post"]
      BY <1>4, <3>1 DEF Go
    <3> QED
      BY <3>1, <3>2 DEF Processes, Who
  <2>5. Live' = Live /\ LiveOf(p)' = LiveOf(p) /\ frozen'[p] = LiveOf(p) /\ state'[p] = "pending"
    <3>1. Live' = Live
      BY <1>1, <2>3, FreezesShapes
    <3>2. frozen'[p] = LiveOf(p) /\ state'[p] = "pending"
      BY <1>1, <1>4, <2>3 DEF IInv, TInv, TypeOK
    <3>3. LiveOf(p)' = LiveOf(p)
      <4>1. worker'[w].who = worker[w].who
        BY <2>4 DEF Who
      <4> QED
        BY <3>1, <4>1 DEF LiveOf, Of, Who
    <3> QED
      BY <3>1, <3>2, <3>3
  <2>6. ASSUME NEW q \in worker'[w].todo PROVE Visits(worker[w], q)'
    <3>1. CASE q = p
      BY <2>1, <2>3, <2>4, <2>5, <3>1 DEF Visits, Group, Of
    <3>2. CASE q # p
      <4>1. Steady(q) /\ Visits(worker[w], q)
        BY <1>1, <2>3, <2>4, <3>2, FreezesSteady DEF IInv, Passing, At
      <4> QED
        BY <2>4, <4>1 DEF Visits, Steady, Active, Open, Of
    <3> QED
      BY <3>1, <3>2
  <2>7. Passing'
    BY <1>1, <2>4, <2>5, <2>6 DEF Serial, Passing, Who
  <2> QED
    BY <1>1, <2>3, <2>7, FreezesShapes, FreezesBatch DEF Good
<1> QED
  BY <1>2, <1>3, <1>4

LEMMA WithholdGood ==
  ASSUME Serial, IInv, NEW w \in Executors, Withhold(w)
  PROVE  Good
<1> USE DEF Withhold, intents
<1>1. /\ Who(w) \in Partners /\ worker[w].todo \subseteq Partners /\ ~ At(w, "idle")
  BY InHand DEF IInv, At, Processes, Workers
<1>2. CASE batch = "transferring"
  <2> DEFINE S == {a \in Of(Who(w)) : allocation[a] = "reserved"}
  <2>1. Cancels(Who(w), S)
    BY <1>2 DEF Cancels, IInv, TInv, TypeOK
  <2>2. \A q \in Partners : Steady(q)
    BY <1>1, <2>1, CancelsSteady
  <2> QED
    BY <1>1, <2>1, <2>2, DoneRemains, CancelsGood DEF Serial, IInv
<1>3. CASE batch # "transferring"
  <2>1. Calm /\ BatchStays /\ \A q \in Partners : Steady(q)
    BY <1>3, Unmoving DEF BatchStays
  <2> QED
    BY <1>1, <2>1, DoneRemains, CalmGood DEF Serial, IInv
<1> QED
  BY <1>2, <1>3

LEMMA CancelGood ==
  ASSUME Serial, IInv, NEW w \in Executors, Cancel(w)
  PROVE  Good
<1> USE DEF Cancel, intents
<1>1. /\ Who(w) \in Partners /\ worker[w].todo \subseteq Partners /\ ~ At(w, "idle")
  BY InHand DEF IInv, At, Processes, Workers
<1>2. CASE batch = "transferring" /\ state[Who(w)] \in {"pending", "failed"}
  <2>1. Abandons(Who(w))
    BY <1>2 DEF Abandons, LiveOf, Active, Open
  <2>2. \A q \in Partners \ {Who(w)} : Steady(q)
    BY <1>1, <2>1, AbandonsSteady
  <2> QED
    BY <1>1, <2>1, <2>2, DoneRemains, AbandonsGood DEF Serial, IInv
<1>3. CASE ~ (batch = "transferring" /\ state[Who(w)] \in {"pending", "failed"})
  <2>1. Calm /\ BatchStays /\ \A q \in Partners : Steady(q)
    BY <1>3, Unmoving DEF BatchStays
  <2> QED
    BY <1>1, <2>1, DoneRemains, CalmGood DEF Serial, IInv
<1> QED
  BY <1>2, <1>3

LEMMA SettleGood ==
  ASSUME Serial, IInv, NEW w \in Executors, Settle(w)
  PROVE  Good
<1>1. Calm /\ Live' = Live
  BY Unmoving DEF Settle, intents, Live
<1>2. Remains(w)
  BY RestRemains DEF Settle, IInv
<1> QED
  BY <1>1, <1>2, SettleBatch, CalmShapes, PassingStays DEF Good, Serial

LEMMA UnreadyGood ==
  ASSUME Serial, IInv, NEW w \in Executors, Unready(w) \/ CannotVerify(w) \/ PostAmbiguous(w)
  PROVE  Good
<1> USE DEF Unready, CannotVerify, PostAmbiguous, ledger, intents
<1>1. Calm /\ BatchStays /\ \A q \in Partners : Steady(q)
  BY Unmoving DEF BatchStays
<1>2. worker[w].todo \subseteq Partners /\ ~ At(w, "idle") /\ Done(w)
  BY DEF IInv, TInv, TypeOK, At, Processes, Workers
<1> QED
  BY <1>1, <1>2, DoneRemains, CalmGood DEF Serial, IInv

\* An intent that the pass has in hand, unless it is paid or parked.
LEMMA InPass ==
  ASSUME IInv, NEW w \in Executors, ~ At(w, "idle"), ~ At(w, "next")
  PROVE  /\ Who(w) \in Partners /\ worker[w].todo \subseteq Partners /\ Who(w) \in worker[w].todo
         /\ state[Who(w)] \in Active => LiveOf(Who(w)) = frozen[Who(w)] /\ Group(w) = frozen[Who(w)]
BY DEF IInv, TInv, TypeOK, Passing, At, Processes, Workers, Visits, Active, Shape, Shaped, Group, Open

LEMMA PostGood ==
  ASSUME Serial, IInv, NEW w \in Executors, Post(w)
  PROVE  Good
<1> USE DEF Post, ledger
<1>1. ~ At(w, "idle") /\ ~ At(w, "next")
  BY DEF At
<1>2. CASE Done(w) /\ UNCHANGED <<state, postedAt, requests>>
  <2>1. Calm /\ BatchStays /\ \A q \in Partners : Steady(q)
    BY <1>2, Unmoving DEF BatchStays
  <2> QED
    BY <1>1, <1>2, <2>1, InPass, DoneRemains, CalmGood DEF Serial, IInv
<1>3. CASE /\ Ours(w, {"pending", "posted", "failed"})
           /\ state' = [state EXCEPT ![Who(w)] = "posted"]
           /\ worker' = [worker EXCEPT ![w] = [@ EXCEPT !.pc = "await", !.age = "null"]]
  <2>1. state[Who(w)] \in Active
    BY <1>3 DEF Ours, Active, Open
  <2>2. Calm
    BY <1>1, <1>3, <2>1, InPass DEF Calm, IInv, TInv, TypeOK, States, Active, Open
  <2>3. \A q \in Partners : Steady(q)
    BY <2>2, CalmSteady
  <2>4. /\ worker'[w].pc = "await" /\ worker'[w].live = worker[w].live
        /\ worker'[w].todo = worker[w].todo /\ worker'[w].who = Who(w)
    <3>1. worker \in [Workers -> Processes] /\ worker[w] \in Processes /\ w \in Workers
      BY DEF IInv, TInv, TypeOK, Workers
    <3>2. worker'[w] = [worker[w] EXCEPT !.pc = "await", !.age = "null"]
      BY <1>3, <3>1
    <3> QED
      BY <3>1, <3>2 DEF Processes, Who
  <2>5. Remains(w)
    BY <1>1, <2>3, <2>4, InPass DEF Remains, At
  <2> QED
    BY <2>2, <2>5, CalmGood DEF Serial, BatchStays
<1> QED
  BY <1>2, <1>3

\* A confirmation pays what is live of an intent, or comes too late.
LEMMA FinalizePays ==
  ASSUME IInv, NEW p \in Partners, NEW t, NEW g, Finalize(p, t, g, TRUE),
         g = LiveOf(p), state[p] \in Open
  PROVE  Pays(p) /\ UNCHANGED <<batch, residual>>
BY DEF Finalize, Pays

LEMMA PostReturnsGood ==
  ASSUME Serial, IInv, NEW w \in Executors, PostReturns(w)
  PROVE  Good
<1>1. ~ At(w, "idle") /\ ~ At(w, "next") /\ Done(w)
  BY DEF PostReturns, At
<1>2. CASE Ours(w, {"posted", "reconcile_required"})
  <2>1. state[Who(w)] \in Open /\ state[Who(w)] \in Active
    BY <1>2 DEF Ours, Open, Active
  <2>2. Finalize(Who(w), worker[w].xfer, Group(w), TRUE)
    BY <1>2 DEF PostReturns, Finalize
  <2>3. Group(w) = LiveOf(Who(w)) /\ Who(w) \in Partners /\ worker[w].todo \subseteq Partners
    BY <1>1, <2>1, InPass
  <2>4. Pays(Who(w)) /\ UNCHANGED <<batch, residual>>
    BY <2>1, <2>2, <2>3, FinalizePays
  <2>5. \A q \in worker[w].todo : Steady(q)
    BY <2>3, <2>4, PaysSteady
  <2> QED
    BY <1>1, <2>3, <2>4, <2>5, DoneRemains, PaysGood DEF Serial, IInv
<1>3. CASE ~ Ours(w, {"posted", "reconcile_required"})
  <2>1. Calm /\ BatchStays /\ \A q \in Partners : Steady(q)
    BY <1>3, Unmoving DEF BatchStays, PostReturns, Finalize, ledger, intents
  <2> QED
    BY <1>1, <2>1, InPass, DoneRemains, CalmGood DEF Serial, IInv
<1> QED
  BY <1>2, <1>3

LEMMA AdoptGood ==
  ASSUME Serial, IInv, NEW w \in Executors, Adopt(w)
  PROVE  Good
<1>1. ~ At(w, "idle") /\ ~ At(w, "next") /\ Done(w)
  BY DEF Adopt, At
<1>2. CASE Ours(w, {"reconcile_required"})
  <2>1. state[Who(w)] \in Open
    BY <1>2 DEF Ours, Open
  <2>2. Finalize(Who(w), worker[w].xfer, LiveOf(Who(w)), TRUE)
    BY <1>2 DEF Adopt, Finalize, LiveOf
  <2>3. Who(w) \in Partners /\ worker[w].todo \subseteq Partners
    BY <1>1, InPass
  <2>4. Pays(Who(w)) /\ UNCHANGED <<batch, residual>>
    BY <2>1, <2>2, <2>3, FinalizePays
  <2>5. \A q \in worker[w].todo : Steady(q)
    BY <2>3, <2>4, PaysSteady
  <2> QED
    BY <1>1, <2>3, <2>4, <2>5, DoneRemains, PaysGood DEF Serial, IInv
<1>3. CASE ~ Ours(w, {"reconcile_required"})
  <2>1. Calm /\ BatchStays /\ \A q \in Partners : Steady(q)
    BY <1>3, Unmoving DEF BatchStays, Adopt, Finalize, ledger, intents
  <2> QED
    BY <1>1, <2>1, InPass, DoneRemains, CalmGood DEF Serial, IInv
<1> QED
  BY <1>2, <1>3

\* A compare-and-set of the state of the intent in hand.
LEMMA StateMoves ==
  ASSUME IInv, NEW p \in Partners, NEW s \in Active, state[p] \in Active, LiveOf(p) = frozen[p],
         state' = [state EXCEPT ![p] = s], UNCHANGED <<allocation, commission, frozen>>
  PROVE  Calm
BY DEF Calm, IInv, TInv, TypeOK, Active, Open, States

LEMMA PostRefusedGood ==
  ASSUME Serial, IInv, NEW w \in Executors, PostRefused(w)
  PROVE  Good
<1> USE DEF PostRefused, ledger
<1>1. ~ At(w, "idle") /\ ~ At(w, "next") /\ Done(w)
  BY DEF At
<1>2. Calm
  <2>1. CASE Ours(w, {"posted"})
    <3>1. state[Who(w)] \in Active /\ "failed" \in Active
      BY <2>1 DEF Ours, Active, Open
    <3> QED
      BY <1>1, <2>1, <3>1, InPass, StateMoves
  <2>2. CASE ~ Ours(w, {"posted"})
    BY <2>2, Unmoving
  <2> QED
    BY <2>1, <2>2
<1>3. \A q \in worker[w].todo : Steady(q)
  BY <1>1, <1>2, CalmSteady, InPass
<1> QED
  BY <1>1, <1>2, <1>3, DoneRemains, CalmGood DEF Serial, IInv, BatchStays

LEMMA StaleGood ==
  ASSUME Serial, IInv, NEW w \in Executors, Stale(w)
  PROVE  Good
<1> USE DEF Stale, ledger
<1>1. ~ At(w, "idle") /\ ~ At(w, "next") /\ Go(w, "list")
  BY DEF At
<1>2. Calm
  <2>1. CASE state[Who(w)] = "posted"
    <3>1. state[Who(w)] \in Active /\ "reconcile_required" \in Active
      BY <2>1 DEF Active, Open
    <3> QED
      BY <1>1, <2>1, <3>1, InPass, StateMoves
  <2>2. CASE state[Who(w)] # "posted"
    BY <2>2, Unmoving
  <2> QED
    BY <2>1, <2>2
<1>3. \A q \in worker[w].todo : Steady(q)
  BY <1>1, <1>2, CalmSteady, InPass
<1>4. Remains(w)
  BY <1>1, <1>3, GoRemains DEF Labels
<1> QED
  BY <1>2, <1>4, CalmGood DEF Serial, IInv, BatchStays

LEMMA ListGood ==
  ASSUME Serial, IInv, NEW w \in Executors, List(w)
  PROVE  Good
<1> USE DEF List, ledger, intents
<1>1. ~ At(w, "idle") /\ ~ At(w, "next")
  BY DEF At
<1>2. Calm /\ BatchStays /\ \A q \in Partners : Steady(q)
  BY Unmoving DEF BatchStays
<1>3. \A q \in worker[w].todo : Steady(q)
  BY <1>1, <1>2, InPass
<1>4. Remains(w)
  <2>1. CASE Done(w)
    BY <1>1, <1>3, <2>1, DoneRemains DEF IInv
  <2>2. CASE Go(w, "park")
    BY <1>1, <1>3, <2>2, GoRemains DEF Labels
  <2>3. CASE \E t \in Members(Who(w)) : GoWith(w, "adopt", t)
    BY <1>1, <1>3, <2>3, GoRemains DEF Labels
  <2> QED
    BY <2>1, <2>2, <2>3
<1> QED
  BY <1>2, <1>4, CalmGood DEF Serial

LEMMA ParkGood ==
  ASSUME Serial, IInv, NEW w \in Executors, Park(w)
  PROVE  Good
<1> USE DEF Park, ledger
<1>1. ~ At(w, "idle") /\ ~ At(w, "next") /\ Done(w)
  BY DEF At
<1>2. Calm
  <2>1. CASE Ours(w, {"posted", "reconcile_required"})
    <3>1. state[Who(w)] \in Active /\ "duplicate_review" \in Active
      BY <2>1 DEF Ours, Active, Open
    <3> QED
      BY <1>1, <2>1, <3>1, InPass, StateMoves
  <2>2. CASE ~ Ours(w, {"posted", "reconcile_required"})
    BY <2>2, Unmoving
  <2> QED
    BY <2>1, <2>2
<1>3. \A q \in worker[w].todo : Steady(q)
  BY <1>1, <1>2, CalmSteady, InPass
<1> QED
  BY <1>1, <1>2, <1>3, DoneRemains, CalmGood DEF Serial, IInv, BatchStays

\* An operator's step leaves the executor where it is.
LEMMA OperatorApart ==
  ASSUME TInv, NEW o \in Operators, NEW r, worker' = [worker EXCEPT ![o] = r]
  PROVE  \A v \in Executors : worker'[v] = worker[v]
BY TransferAssumption DEF TInv, TypeOK, Workers

LEMMA OperatorCalmGood ==
  ASSUME IInv, NEW o \in Operators,
         RearmList(o) \/ ResolveList(o) \/ \E p \in Partners : RearmRead(o, p) \/ ResolveRead(o, p)
  PROVE  Good
<1> USE DEF RearmList, ResolveList, RearmRead, ResolveRead, ledger, intents
<1>1. Calm /\ BatchStays
  BY Unmoving DEF BatchStays
<1>2. \A v \in Executors : worker'[v] = worker[v]
  BY OperatorApart DEF Go, GoWith, Rest, Begins, IInv
<1> QED
  BY <1>1, <1>2, ElsewhereGood

LEMMA RearmGood ==
  ASSUME IInv, NEW o \in Operators, Rearm(o)
  PROVE  Good
<1> USE DEF Rearm, ledger
<1>1. Who(o) \in Partners
  BY InHand DEF IInv, At, Workers
<1>2. Calm
  <2>1. CASE Ours(o, {"reconcile_required"}) /\ worker[o].gen < MaxGeneration
    <3>1. state[Who(o)] \in Active /\ "pending" \in Active /\ LiveOf(Who(o)) = frozen[Who(o)]
      BY <1>1, <2>1 DEF Ours, Active, Open, IInv, Shape, Shaped
    <3> QED
      BY <1>1, <2>1, <3>1, StateMoves
  <2>2. CASE ~ (Ours(o, {"reconcile_required"}) /\ worker[o].gen < MaxGeneration)
    BY <2>2, Unmoving
  <2> QED
    BY <2>1, <2>2
<1>3. \A v \in Executors : worker'[v] = worker[v]
  BY OperatorApart DEF Rest, IInv
<1> QED
  BY <1>2, <1>3, ElsewhereGood DEF BatchStays

LEMMA KeepGood ==
  ASSUME IInv, NEW o \in Operators, Keep(o)
  PROVE  Good
<1>1. Who(o) \in Partners
  BY InHand DEF IInv, At, Workers, Keep
<1>2. \A v \in Executors : worker'[v] = worker[v]
  BY OperatorApart DEF Rest, IInv, Keep
<1>3. CASE Unmoved(o)
  <2>1. state[Who(o)] \in Open
    BY <1>3 DEF Unmoved, Ours, Open
  <2>2. Finalize(Who(o), worker[o].xfer, LiveOf(Who(o)), TRUE)
    BY <1>3 DEF Keep, Finalize, LiveOf
  <2>3. Pays(Who(o)) /\ UNCHANGED <<batch, residual>>
    BY <1>1, <2>1, <2>2, FinalizePays
  <2>4. \A v \in Executors : Remains(v)
    BY <1>1, <1>2, <2>3, PaysSteady, StayRemains
  <2> QED
    BY <1>1, <2>3, <2>4, PaysGood
<1>4. CASE ~ Unmoved(o)
  BY <1>2, <1>4, Unmoving, ElsewhereGood DEF BatchStays, Keep, Finalize, ledger, intents
<1> QED
  BY <1>3, <1>4

LEMMA CloseReversedGood ==
  ASSUME Serial, IInv, NEW o \in Operators, CloseReversed(o)
  PROVE  Good
<1> USE DEF CloseReversed
<1>1. Who(o) \in Partners
  BY InHand DEF IInv, At, Workers
<1>2. \A v \in Executors : worker'[v] = worker[v]
  BY OperatorApart DEF Rest, IInv
<1>3. CASE Unmoved(o)
  <2>1. Abandons(Who(o))
    BY <1>3 DEF Abandons, LiveOf, Unmoved, Ours, Active, Open
  <2>2. \A v \in Executors : Remains(v)
    BY <1>2 DEF Serial, BetweenPasses, At, Remains
  <2> QED
    BY <1>1, <2>1, <2>2, AbandonsGood
<1>4. CASE ~ Unmoved(o)
  BY <1>2, <1>4, Unmoving, ElsewhereGood DEF BatchStays
<1> QED
  BY <1>3, <1>4

LEMMA CrashGood ==
  ASSUME Serial, IInv, NEW w \in Workers, Crash(w)
  PROVE  Good
<1> USE DEF Crash, ledger, intents
<1>1. Calm /\ BatchStays
  BY Unmoving DEF BatchStays
<1>2. CASE w \in Executors
  BY <1>1, <1>2, RestRemains, CalmGood DEF Serial, IInv
<1>3. CASE w \in Operators
  BY <1>1, <1>3, OperatorApart, ElsewhereGood DEF Rest, IInv
<1> QED
  BY <1>2, <1>3 DEF Workers

\* An answer gives a process its outcome and nothing else.
LEMMA AnswerGood ==
  ASSUME IInv, NEW r \in requests, NEW outcome, Answer(r, outcome),
         UNCHANGED <<ledger, intents>>
  PROVE  Good
<1>1. Calm /\ BatchStays /\ \A p \in Partners : Steady(p)
  BY Unmoving DEF BatchStays, ledger, intents
<1>2. ASSUME NEW v \in Executors
      PROVE  /\ worker'[v].pc = worker[v].pc /\ worker'[v].live = worker[v].live
             /\ worker'[v].todo = worker[v].todo /\ worker'[v].who = worker[v].who
  <2>1. worker \in [Workers -> Processes] /\ worker[v] \in Processes /\ v \in Workers
    BY DEF IInv, TInv, TypeOK, Workers
  <2>2. worker'[v] = worker[v] \/ worker'[v] = [worker[v] EXCEPT !.xfer = outcome]
    BY <2>1 DEF Answer
  <2> QED
    BY <2>1, <2>2 DEF Processes
<1>3. \A v \in Executors : Remains(v)
  BY <1>1, <1>2, StayRemains
<1> QED
  BY <1>1, <1>3, CalmGood

LEMMA ReverseCommissionGood ==
  ASSUME IInv, NEW a \in Allocations, ReverseCommission(a)
  PROVE  Good
<1> USE DEF ReverseCommission, intents
<1>1. a[1] \in Partners /\ a \in Of(a[1]) /\ TypeOK
  BY AllocationTypes DEF IInv, TInv
<1> DEFINE S == IF allocation[a] = "reserved" THEN {a} ELSE {}
<1>2. Cancels(a[1], S)
  BY <1>1 DEF Cancels, Put, TypeOK
<1>3. \A q \in Partners : Steady(q)
  BY <1>1, <1>2, CancelsSteady
<1>4. \A v \in Executors : Remains(v)
  BY <1>3, StayRemains
<1> QED
  BY <1>1, <1>2, <1>4, CancelsGood

\* The rest of the world changes no intent's state and no share.
Apart ==
  \/ \E e \in events : HookCreated(e) \/ HookReversed(e) \/ LoseEvent(e)
  \/ \E p \in Partners : Sweep(p) \/ WindowPasses(p) \/ ToggleHold(p) \/ OutsideTransfer(p)
  \/ \E t \in Transfers, b \in Returned : StripeReverses(t, b)
  \/ \E k \in Keys : KeyPruned(k)
  \/ \E r \in requests : Drop(r)
  \/ Clawback

LEMMA ApartGood ==
  ASSUME IInv, Apart
  PROVE  Good
<1>1. UNCHANGED <<allocation, commission, frozen, state, worker>> /\ BatchStays
  BY DEF Apart, HookCreated, HookReversed, LoseEvent, Sweep, WindowPasses, ToggleHold, OutsideTransfer,
         StripeReverses, KeyPruned, Drop, Clawback, ledger, intents, BatchStays, Closed
<1> QED
  BY <1>1, Unmoving, ElsewhereGood

-----------------------------------------------------------------------------
(* The theorems.                                                              *)

LEMMA InitIInv == Init => IInv
<1> SUFFICES ASSUME Init PROVE IInv
  OBVIOUS
<1>1. TInv /\ TypeOK
  BY InitTypes DEF TInv
<1>2. Shape
  BY AllocationTypes, <1>1 DEF Init, Shape, Shaped, Of, Open
<1>3. Passing
  BY DEF Init, Passing, Workers, Resting
<1>4. SettledIsComplete /\ Paid
  BY DEF Init, SettledIsComplete, Paid
<1> QED
  BY <1>1, <1>2, <1>3, <1>4 DEF IInv

LEMMA StepGood ==
  ASSUME Serial, IInv, Next
  PROVE  Good
<1>1. ASSUME NEW w \in Executors, Step(w) PROVE Good
  BY <1>1, StopGood, CreateGood, WithholdGood, CancelGood, SettleGood, PostGood, PostReturnsGood,
     PostRefusedGood, StaleGood, ListGood, AdoptGood, ParkGood, TakeGood
     DEF Step, Reconcile
<1>2. ASSUME NEW o \in Operators, Operate(o) PROVE Good
  BY <1>2, OperatorCalmGood, RearmGood, KeepGood, CloseReversedGood DEF Operate
<1>3. ASSUME NEW r \in requests, StripeReplays(r) \/ StripeTransfers(r) \/ StripeRefuses(r) PROVE Good
  BY <1>3, AnswerGood DEF StripeReplays, StripeTransfers, StripeRefuses
<1>4. CASE Running
  BY <1>1, <1>2, <1>3, <1>4, BeginGood, ReverseCommissionGood, ApartGood DEF Running, Hook, Apart
<1>5. CASE Failing
  BY <1>3, <1>5, UnreadyGood, CrashGood, ApartGood DEF Failing, Apart
<1> QED
  BY <1>4, <1>5 DEF Next

LEMMA StepIInv ==
  ASSUME Serial, IInv, [Next]_vars
  PROVE  IInv' /\ Decided
<1>1. TInv'
  BY StepTypes DEF IInv
<1>2. CASE Next
  BY <1>1, <1>2, StepGood DEF Good, IInv
<1>3. CASE UNCHANGED vars
  <2>1. Good
    BY <1>3, Unmoving, ElsewhereGood DEF vars, ledger, intents, BatchStays
  <2> QED
    BY <1>1, <2>1 DEF Good, IInv
<1> QED
  BY <1>2, <1>3

LEMMA IInvTrue ==
  ASSUME IInv
  PROVE  LedgerIsTrue /\ SettledIsComplete
<1>1. ASSUME NEW p \in Partners, state[p] = "confirmed"
      PROVE  /\ recorded[p] \in Members(p) \ foreign
             /\ {a \in Of(p) : allocation[a] = "transferred"} = frozen[p]
  BY <1>1 DEF IInv, TInv, Known, Own, Shape, Shaped
<1>2. ASSUME NEW a \in Allocations
      PROVE  /\ allocation[a] = "transferred" <=> commission[a] = "paid"
             /\ allocation[a] = "transferred" => state[a[1]] = "confirmed"
  BY AllocationTypes DEF IInv, TInv, Paid, Shape, Shaped
<1> QED
  BY <1>1, <1>2 DEF LedgerIsTrue, IInv

\* With one pass at a time, what the books call paid was paid: by a transfer of
\* the intent, which exists, of exactly the frozen allocations.
THEOREM Ledger == ASSUME Serial PROVE Spec => []LedgerIsTrue
<1>1. IInv /\ [Next]_vars => IInv'
  BY StepIInv
<1>2. IInv => LedgerIsTrue
  BY IInvTrue
<1> QED
  BY <1>1, <1>2, InitIInv, PTL DEF Spec

\* With one pass at a time, a batch closes with every share decided, and its
\* residual is what was withheld.
THEOREM Settlement == ASSUME Serial PROVE Spec => []SettledIsComplete
<1>1. IInv /\ [Next]_vars => IInv'
  BY StepIInv
<1>2. IInv => SettledIsComplete
  BY IInvTrue
<1> QED
  BY <1>1, <1>2, InitIInv, PTL DEF Spec

\* With one pass at a time, every share is paid or withheld once and for good,
\* and each partner in one piece: FundedTransfers implements PartnerPayment.
THEOREM Refinement == ASSUME Serial PROVE Spec => ImplementsPayment
<1>1. IInv /\ [Next]_vars => IInv'
  BY StepIInv
<1>2. IInv /\ [Next]_vars => Decided
  BY StepIInv
<1>3. Init => Payment!Init
  BY DEF Init, Payment!Init, Allocations
<1> QED
  BY <1>1, <1>2, <1>3, InitIInv, PTL DEF Spec, ImplementsPayment, Payment!Spec, Decided, Closed
=============================================================================
