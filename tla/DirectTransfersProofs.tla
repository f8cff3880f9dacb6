------------------------- MODULE DirectTransfersProofs -------------------------
(***************************************************************************)
(* Proofs about the direct Connect rail, for any number of commissions,    *)
(* payouts, executors, key generations and transfers.                      *)
(*                                                                         *)
(* DirectTypes supposes nothing. DirectBooks supposes that no stale        *)
(* transfer.updated arrives (StaleUpdates), DirectReversals also that an   *)
(* operator who says that no POST is to come is right (Truthful),          *)
(* DirectReleases that, that Stripe refuses nothing unseen (DoorRefusals)  *)
(* and that no operator re-arms a payout another is about to release       *)
(* (NoRearmUnderRelease).                                                  *)
(* DirectPaysOnce lets Stripe refuse unseen, stale updates arrive and      *)
(* refunds reach any payout. Beside Truthful and NoRearmUnderRelease it    *)
(* supposes two claims of the code and of its docs, which the runs door    *)
(* and undecided refute: a definite error proves that no transfer exists   *)
(* (DefiniteIsDefinite), and no refund frees a part of a line whose        *)
(* transfer came back, while it may still be paid (NoPartOfUndecided).     *)
(*                                                                         *)
(* The argument has two parts. BaseInv says what each process may believe  *)
(* of what it has in hand; under it every action is Fine: it does to each  *)
(* variable no more than Goes says. Each of the properties then has an     *)
(* invariant of its own, on top of those before it, and Goes is all that   *)
(* the proof of its step needs to know of the actions.                     *)
(***************************************************************************)
EXTENDS DirectTransfers, TLAPS, FiniteSetTheorems

-----------------------------------------------------------------------------
(* What one process does.                                                     *)

Typed == worker' \in [Workers -> Processes]

\* A process is where it was, though it may have lost its lease or its review.
Like(v) ==
  /\ worker'[v].pc = worker[v].pc /\ worker'[v].who = worker[v].who /\ worker'[v].gen = worker[v].gen
  /\ worker'[v].xfer = worker[v].xfer /\ (worker'[v].cur => worker[v].cur)
Others(w) == \A v \in Workers : v # w => Like(v)

\* Processes, under names that stay folded.
Hands == Transfers \cup {None, Refused}
Rows == Payouts \cup {None}

LEMMA Records ==
  /\ Processes = [pc : Labels, who : Rows, gen : Generations, xfer : Hands, cur : BOOLEAN]
  /\ TypeOK => worker \in [Workers -> Processes]
BY DEF Processes, Rows, Hands, TypeOK

\* The ways a process moves on.
LEMMA Went ==
  ASSUME TypeOK, NEW w \in Workers, NEW l \in Labels, Go(w, l)
  PROVE  /\ Typed /\ Others(w) /\ worker'[w].pc = l
         /\ worker'[w].who = worker[w].who /\ worker'[w].gen = worker[w].gen
         /\ worker'[w].xfer = worker[w].xfer /\ worker'[w].cur = worker[w].cur
<1> HIDE DEF Labels
<1> QED BY Records DEF Go, Typed, Others, Like

LEMMA WentWith ==
  ASSUME TypeOK, NEW w \in Workers, NEW l \in Labels, NEW t \in Hands, GoWith(w, l, t)
  PROVE  /\ Typed /\ Others(w) /\ worker'[w].pc = l /\ worker'[w].xfer = t
         /\ worker'[w].who = worker[w].who /\ worker'[w].gen = worker[w].gen
         /\ worker'[w].cur = worker[w].cur
<1> PICK f : f = worker
  OBVIOUS
<1> HIDE DEF Labels, Hands, Rows
<1> DEFINE k == [f[w] EXCEPT !.pc = l, !.xfer = t]
<1>1. f[w] \in [pc : Labels, who : Rows, gen : Generations, xfer : Hands, cur : BOOLEAN]
  BY Records
<1>2. /\ k \in [pc : Labels, who : Rows, gen : Generations, xfer : Hands, cur : BOOLEAN]
      /\ k.pc = l /\ k.xfer = t /\ k.who = f[w].who /\ k.gen = f[w].gen /\ k.cur = f[w].cur
  BY <1>1
<1>3. worker' = [f EXCEPT ![w] = k]
  BY DEF GoWith
<1> HIDE DEF k
<1>4. f \in [Workers -> Processes] /\ k \in Processes
  BY <1>2, Records
<1> HIDE DEF Processes
<1> QED BY <1>2, <1>3, <1>4 DEF Typed, Others, Like

LEMMA Rested ==
  ASSUME TypeOK, NEW w \in Workers, Rest(w)
  PROVE  /\ Typed /\ Others(w) /\ worker'[w] = Resting
         /\ worker'[w].pc = "idle" /\ worker'[w].who = None /\ worker'[w].gen = 0 /\ worker'[w].xfer = None
<1>1. Resting \in Processes /\ Resting.pc = "idle" /\ Resting.who = None /\ Resting.gen = 0 /\ Resting.xfer = None
  BY DirectAssumption DEF Resting, Processes, Labels, Generations
<1> HIDE DEF Resting, Processes
<1> QED BY <1>1 DEF TypeOK, Rest, Typed, Others, Like

LEMMA ReadRow ==
  ASSUME TypeOK, NEW w \in Workers, NEW p \in Payouts, NEW l \in Labels, Reads(w, p, l)
  PROVE  /\ Typed /\ Others(w) /\ worker'[w].pc = l /\ worker'[w].who = p
         /\ worker'[w].gen = generation[p] /\ worker'[w].xfer = None
<1> DEFINE k == [pc |-> l, who |-> p, gen |-> generation[p], xfer |-> None, cur |-> TRUE]
<1>1. k \in Processes /\ k.pc = l /\ k.who = p /\ k.gen = generation[p] /\ k.xfer = None
  BY DEF Processes, TypeOK
<1>2. worker' = [worker EXCEPT ![w] = k]
  BY DEF Reads
<1> HIDE DEF k, Processes
<1> QED BY <1>1, <1>2 DEF TypeOK, Typed, Others, Like

\* Outdating changes nothing but whether a lease is current.
LEMMA OutdateIs ==
  ASSUME NEW S \in SUBSET Workers, NEW p, NEW W \in [Workers -> Processes]
  PROVE  /\ Outdate(S, p, W) \in [Workers -> Processes]
         /\ \A v \in Workers : LET x == Outdate(S, p, W)[v] IN
              /\ x.pc = W[v].pc /\ x.who = W[v].who /\ x.gen = W[v].gen /\ x.xfer = W[v].xfer
              /\ x.cur => W[v].cur
              /\ v \in S /\ W[v].who = p => ~ x.cur
<1> HIDE DEF Labels
<1>1. ASSUME NEW k \in Processes
      PROVE  LET x == [k EXCEPT !.cur = FALSE] IN
             /\ x \in Processes /\ x.pc = k.pc /\ x.who = k.who /\ x.gen = k.gen /\ x.xfer = k.xfer /\ ~ x.cur
  BY DEF Processes
<1> HIDE DEF Processes
<1> QED BY <1>1 DEF Outdate

LEMMA PostedBy ==
  ASSUME TypeOK, NEW w \in Executors, NEW g \in Generations, Posts(w, g), Who(w) \in Payouts
  PROVE  /\ Typed /\ Others(w) /\ worker'[w].pc = "await" /\ worker'[w].who = Who(w)
         /\ worker'[w].gen = g /\ worker'[w].xfer = worker[w].xfer
<1> PICK f : f = worker
  OBVIOUS
<1> HIDE DEF Labels, Hands, Rows
<1> DEFINE k == [f[w] EXCEPT !.pc = "await", !.gen = g]
           W == [f EXCEPT ![w] = k]
<1>0. w \in Workers /\ Executors \in SUBSET Workers /\ "await" \in Labels
  BY DEF Workers, Labels
<1>1. f[w] \in [pc : Labels, who : Rows, gen : Generations, xfer : Hands, cur : BOOLEAN]
  BY <1>0, Records
<1>2. /\ k \in [pc : Labels, who : Rows, gen : Generations, xfer : Hands, cur : BOOLEAN]
      /\ k.pc = "await" /\ k.gen = g /\ k.xfer = f[w].xfer /\ k.who = f[w].who
  BY <1>0, <1>1
<1>3. worker' = Outdate(Executors, Who(w), W)
  BY DEF Posts
<1>4. f \in [Workers -> Processes] /\ k \in Processes
  BY <1>2, Records
<1> HIDE DEF k, Processes
<1>5. W \in [Workers -> Processes] /\ W[w] = k /\ \A v \in Workers : v # w => W[v] = f[v]
  BY <1>0, <1>4
<1> HIDE DEF W
<1>6. /\ worker' \in [Workers -> Processes]
      /\ \A v \in Workers : 
              /\ worker'[v].pc = W[v].pc /\ worker'[v].who = W[v].who /\ worker'[v].gen = W[v].gen
              /\ worker'[v].xfer = W[v].xfer /\ (worker'[v].cur => W[v].cur)
  BY <1>0, <1>3, <1>5, OutdateIs
<1> QED BY <1>0, <1>2, <1>5, <1>6 DEF Typed, Others, Like, Who

-----------------------------------------------------------------------------
(* The invariant about the processes, and about what each may believe.        *)

\* The payout's own transfers.
Own(p) == Group(p) \ foreign
Key(p) == <<p, generation[p]>>

ExecutorLabels == {"idle", "check", "cancel", "stamp", "retry", "stale", "list", "park", "await",
                   "retrieve", "record", "recordBack"}
OperatorLabels == {"idle", "rearmList", "rearm", "disposeList", "dispose", "resolveList", "keep", "close"}
Unplanned == {"none", "manual"}
Over == {"duplicate_review", "confirmed", "canceled"}

\* Whoever is at work has a payout on this rail in hand, and the transfer he
\* holds is one of its own.
Doing(w) ==
  /\ ~ At(w, "idle") =>
       Who(w) \in Payouts /\ state[Who(w)] \notin Unplanned /\ worker[w].gen =< generation[Who(w)]
  /\ worker[w].pc \in {"check", "cancel", "stamp", "retry"} => worker[w].xfer = None
  /\ worker[w].pc \in {"retrieve", "record", "recordBack", "keep"} => worker[w].xfer \in Transfers
  /\ worker[w].xfer \in Transfers => worker[w].xfer \in made \ foreign /\ worker[w].xfer[1] = Who(w)
  /\ At(w, "recordBack") => ~ Whole(worker[w].xfer)
  /\ worker[w].pc \in {"resolveList", "keep", "close"} => state[Who(w)] \in Over
  /\ w \in Executors => worker[w].pc \in ExecutorLabels
  /\ w \in Operators => worker[w].pc \in OperatorLabels

\* Who waits for a request has no answer yet.
Waits(r) == At(r[2], "await") /\ Who(r[2]) = r[1][1] /\ worker[r[2]].gen = r[1][2] /\ worker[r[2]].xfer = None
Waited == \A r \in requests : r[2] # None => Waits(r)

\* What Stripe replays is a transfer it made for the key's payout.
KeptTrue == \A k \in Keys : kept[k] \in Transfers => kept[k] \in made \ foreign /\ kept[k][1] = k[1]

EventsTrue == \A e \in events : e[1] \in made /\ (e[2] = "full" => Gone(e[1]))

\* Only what is confirmed records a transfer, and it failed only if money came back.
RecordedTrue ==
  \A p \in Payouts :
    /\ recorded[p] # None => state[p] \in {"confirmed", "canceled"} /\ recorded[p] \in made /\ recorded[p][1] = p
    /\ state[p] = "confirmed" => recorded[p] # None /\ payout[p] \in {"paid", "failed"}
    /\ state[p] = "confirmed" /\ payout[p] = "failed" => ~ Whole(recorded[p])

BaseInv ==
  /\ TypeOK /\ Waited /\ KeptTrue /\ EventsTrue /\ RecordedTrue
  /\ \A w \in Workers : Doing(w)

-----------------------------------------------------------------------------
(* What a step may do: to the ledger and to one row,                          *)

Still == UNCHANGED <<ledger, state, payout, recorded, frozen, netted>>

Alone(p) ==
  \A q \in Payouts : q # p => state'[q] = state[q] /\ payout'[q] = payout[q] /\ recorded'[q] = recorded[q]

Opens(p) ==
  /\ Alone(p) /\ Freezes(p)
  /\ UNCHANGED <<worth, refunded, payout, recorded>>
  /\ \/ state'[p] = "intent" /\ UNCHANGED status
     \/ /\ state'[p] = "manual"
        /\ status' = [c \in Lines |-> IF c \in Unclaimed THEN "paid" ELSE status[c]]

Ways == {<<"intent", "posted">>, <<"posted", "reconcile_required">>, <<"reconcile_required", "intent">>,
         <<"posted", "duplicate_review">>, <<"reconcile_required", "duplicate_review">>}
Advances(p) ==
  /\ Alone(p) /\ UNCHANGED <<ledger, recorded, frozen, netted>>
  /\ <<state[p], state'[p]>> \in Ways

\* Why a payout may be given up.
Cause(p) ==
  \/ state[p] = "intent"
  \/ /\ state[p] = "posted"
     /\ \E w \in Executors : At(w, "await") /\ worker[w].xfer = Refused /\ Who(w) = p /\ worker[w].gen = generation[p]
  \/ \E o \in Operators : worker[o].pc \in {"dispose", "close"} /\ Who(o) = p

Abandons(p) ==
  /\ Alone(p) /\ ReleaseClaims(p)
  /\ UNCHANGED <<status, worth, refunded, generation, postedAt, frozen, netted, recorded, stripe>>
  /\ state[p] \in Open \cup {"duplicate_review"} \/ (state[p] = "confirmed" /\ payout[p] # "paid")
  /\ state'[p] = "canceled" /\ Cause(p)

\* Who records a transfer as a payment.
Payer(w, p) ==
  /\ Who(w) = p
  /\ \/ At(w, "record") /\ Ours(w, {"posted", "reconcile_required"})
     \/ At(w, "keep") /\ state[p] = "duplicate_review" /\ worker[w].cur

PaysOf(p) ==
  /\ Alone(p) /\ UNCHANGED <<worth, refunded, claim, clawback, generation, postedAt, frozen, netted, stripe>>
  /\ status' = [c \in Lines |-> IF claim[c] = p /\ status[c] = "approved" THEN "paid" ELSE status[c]]
  /\ state[p] \in {"posted", "reconcile_required", "duplicate_review"}
  /\ state'[p] = "confirmed" /\ payout'[p] = "paid"
  /\ recorded'[p] \in made \ foreign /\ recorded'[p][1] = p
  /\ \E w \in Workers : Payer(w, p) /\ recorded'[p] = worker[w].xfer

FallsBack(p) ==
  /\ Alone(p) /\ UNCHANGED <<ledger, frozen, netted>>
  /\ state[p] \in {"posted", "reconcile_required"}
  /\ state'[p] = "confirmed" /\ payout'[p] = "failed"
  /\ recorded'[p] \in made /\ recorded'[p][1] = p /\ ~ Whole(recorded'[p])

Hears(p) ==
  /\ Alone(p) /\ UNCHANGED <<ledger, state, recorded, frozen, netted>>
  /\ recorded[p] # None
  /\ \/ payout'[p] = "failed" /\ Gone(recorded[p])
     \/ payout'[p] = "paid" /\ (StaleUpdates \/ Whole(recorded[p]))

LedgerGoes ==
  \/ Still
  \/ \E p \in Payouts : Opens(p) \/ Advances(p) \/ Abandons(p) \/ PaysOf(p) \/ FallsBack(p) \/ Hears(p)
  \/ \E c \in Lines : Approve(c) \/ \E n \in 1..Worth : Refund(c, n)

\* to the key and the age of a row,
Rearmed(p) ==
  /\ state[p] = "reconcile_required" /\ state'[p] = "intent" /\ generation'[p] = generation[p] + 1
  /\ \E o \in Operators : At(o, "rearm") /\ Who(o) = p /\ worker[o].gen = generation[p]
  /\ UNCHANGED stripe

EpochsGo ==
  \A p \in Payouts :
    /\ generation'[p] # generation[p] => Rearmed(p)
    /\ state[p] = "reconcile_required" /\ state'[p] = "intent" => Rearmed(p)
    /\ postedAt[p] = "old" /\ postedAt'[p] # "old" => state[p] = "intent" \/ Rearmed(p)

\* to the transfers, and to what became of them,
Makes(t) ==
  /\ \E r \in requests : kept[r[1]] = None /\ kept'[r[1]] = t /\ t[1] = r[1][1] /\ stamped'[t] = r[1][2]
  /\ \A s \in made' : s \in made \/ s = t

TransfersGo ==
  /\ made \subseteq made'
  /\ \A t \in made : t \in foreign' <=> t \in foreign
  /\ \A t \in made \ foreign : stamped'[t] = stamped[t]
  /\ \A t \in made' : t \in made \/ t \in foreign' \/ Makes(t)
  /\ foreign' # foreign => Cardinality(foreign) < MaxForeign

BackGoes ==
  \A t \in Transfers :
    back'[t] # back[t] => ~ Gone(t) /\ back'[t] # "none" /\ <<t, back'[t]>> \in events'

\* A reversal that goes by is heard.
Heard(t) ==
  /\ recorded[t[1]] = t => payout'[t[1]] = "failed"
  /\ recorded[t[1]] # t /\ BeforeFinalize(t[1], t, "full") => state'[t[1]] = "confirmed"
  /\ recorded[t[1]] # t /\ state[t[1]] = "duplicate_review" =>
       \A o \in Operators : Who(o) = t[1] => ~ worker'[o].cur

EventsGo ==
  /\ \A e \in events' : e \in events \/ (e[1] \in made /\ (e[2] = "full" => back'[e[1]] = "full"))
  /\ \A t \in Transfers : <<t, "full">> \in events => <<t, "full">> \in events' \/ Heard(t)

\* to what Stripe replays,
Pruned(k) ==
  /\ kept'[k] = None
  /\ postedAt[k[1]] = "old" \/ k[2] # generation[k[1]]
  /\ \A r \in requests : r[1] # k
  /\ \A w \in Executors : ~ (At(w, "retry") /\ Who(w) = k[1])
  /\ UNCHANGED <<intents, made, foreign, requests, worker>>

Answers(k) ==
  /\ kept[k] = None /\ \E r \in requests : r[1] = k
  /\ \/ kept'[k] = Refused /\ made' = made
     \/ kept'[k] \in made' \ foreign' /\ kept'[k][1] = k[1]

KeptGoes == \A k \in Keys : kept'[k] # kept[k] => Pruned(k) \/ Answers(k)

\* to the requests,
Sends(r) ==
  LET p == r[1][1] IN
    /\ p \in Payouts /\ r[1] = Key(p) /\ generation'[p] = generation[p] /\ state'[p] = "posted"
    /\ \/ state[p] = "intent"
       \/ state[p] = "posted" /\ \E w \in Executors : At(w, "retry") /\ Who(w) = p

RequestsGo == \A r \in requests' : Sends(r) \/ \E q \in requests : q[1] = r[1]

\* and to the processes.
Answered(v) ==
  /\ At(v, "await") /\ worker'[v].pc = "await"
  /\ worker'[v].who = worker[v].who /\ worker'[v].gen = worker[v].gen
  /\ worker'[v].xfer = Refused => kept'[<<Who(v), worker[v].gen>>] = Refused \/ DoorRefusals

Passes(v, l, m) ==
  /\ At(v, l) /\ worker'[v].pc = m
  /\ worker'[v].who = worker[v].who /\ worker'[v].gen = worker[v].gen /\ worker'[v].xfer = worker[v].xfer

Noted == {"retry", "await", "record", "rearmList", "rearm", "disposeList", "dispose", "keep", "close"}
Looks(v, p) ==
  /\ UNCHANGED <<ledger, intents, stripe>>
  /\ worker'[v].who = p
  /\ \/ worker'[v].pc = "retry" /\ postedAt[p] # "old"
     \/ worker'[v].pc \in {"record", "keep"} /\ Whole(worker'[v].xfer)
     \/ /\ worker'[v].pc = "rearmList" /\ state[p] = "reconcile_required"
        /\ worker'[v].gen = generation[p] /\ Asserts(p)
     \/ Passes(v, "rearmList", "rearm") /\ Group(p) = {}
     \/ worker'[v].pc = "disposeList" /\ state[p] \in {"reconcile_required", "confirmed"} /\ Asserts(p)
     \/ Passes(v, "disposeList", "dispose") /\ \A t \in Group(p) : Gone(t)
     \/ worker'[v].pc = "close" /\ Asserts(p) /\ \A t \in Group(p) : Gone(t)

WorkersGo ==
  \A v \in Workers :
    \/ Like(v) \/ Answered(v) \/ worker'[v].pc \notin Noted
    \/ \E p \in Payouts : Looks(v, p)
    \/ /\ worker'[v].pc = "await" /\ worker'[v].xfer # Refused
       /\ worker'[v].who \in Payouts /\ state'[worker'[v].who] = "posted"

Goes ==
  /\ LedgerGoes /\ EpochsGo /\ TransfersGo /\ BackGoes /\ EventsGo /\ KeptGoes /\ RequestsGo /\ WorkersGo
Fine == TypeOK' /\ Goes /\ Waited' /\ \A w \in Workers : Doing(w)'

-----------------------------------------------------------------------------
(* What every step that goes so keeps.                                        *)

\* The ways of a state.
Edges ==
  Ways \cup {<<"none", "intent">>, <<"none", "manual">>}
  \cup {<<s, "confirmed">> : s \in {"posted", "reconcile_required", "duplicate_review"}}
  \cup {<<s, "canceled">> : s \in {"intent", "posted", "reconcile_required", "duplicate_review", "confirmed"}}

LEMMA StatesGo ==
  ASSUME LedgerGoes, NEW p \in Payouts
  PROVE  state'[p] = state[p] \/ <<state[p], state'[p]>> \in Edges
<1>1. CASE Still
  BY <1>1 DEF Still
<1>2. CASE \E c \in Lines : Approve(c) \/ \E n \in 1..Worth : Refund(c, n)
  BY <1>2 DEF Approve, Refund, intents
<1>3. ASSUME NEW q \in Payouts, Opens(q) \/ Advances(q) \/ Abandons(q) \/ PaysOf(q) \/ FallsBack(q) \/ Hears(q)
      PROVE  state'[p] = state[p] \/ <<state[p], state'[p]>> \in Edges
  <2>1. CASE p # q
    BY <1>3, <2>1 DEF Opens, Advances, Abandons, PaysOf, FallsBack, Hears, Alone
  <2>2. CASE p = q
    <3>1. CASE Opens(q)
      BY <2>2, <3>1 DEF Opens, Freezes, Edges
    <3>2. CASE Advances(q)
      BY <2>2, <3>2 DEF Advances, Edges
    <3>3. CASE Abandons(q)
      BY <2>2, <3>3 DEF Abandons, Open, Edges
    <3>4. CASE PaysOf(q) \/ FallsBack(q)
      BY <2>2, <3>4 DEF PaysOf, FallsBack, Edges
    <3>5. CASE Hears(q)
      BY <2>2, <3>5 DEF Hears
    <3> QED BY <1>3, <3>1, <3>2, <3>3, <3>4, <3>5
  <2> QED BY <2>1, <2>2
<1> QED BY <1>1, <1>2, <1>3 DEF LedgerGoes

\* A payout that is on the rail stays on it, and one that left it does not return.
LEMMA StatesKept ==
  ASSUME LedgerGoes, NEW p \in Payouts
  PROVE  /\ state[p] \notin Unplanned => state'[p] \notin Unplanned
         /\ state[p] \in Over => state'[p] \in Over
BY StatesGo DEF Edges, Ways, Unplanned, Over

LEMMA DoingKept ==
  ASSUME BaseInv, LedgerGoes, EpochsGo, TransfersGo, BackGoes, NEW v \in Workers, Like(v)
  PROVE  Doing(v)'
<1>1. Doing(v) /\ made \subseteq Transfers /\ worker[v].who \in Payouts \cup {None}
  BY Records DEF BaseInv, TypeOK, Processes
<1>2. ~ At(v, "idle") => Who(v) \in Payouts /\ state'[Who(v)] \notin Unplanned /\ worker[v].gen =< generation'[Who(v)]
  <2>1. ASSUME NEW p \in Payouts, worker[v].gen =< generation[p] PROVE worker[v].gen =< generation'[p]
    <3>1. worker[v].gen \in Int /\ generation[p] \in Int
      BY <1>1, Records DEF BaseInv, TypeOK, Processes, Generations
    <3>2. generation'[p] = generation[p] \/ generation'[p] = generation[p] + 1
      BY DEF EpochsGo, Rearmed
    <3> QED BY <2>1, <3>1, <3>2
  <2> QED BY <1>1, <2>1, StatesKept DEF Doing
<1>3. \A t \in Transfers : t \in made \ foreign => t \in made' \ foreign'
  BY DEF TransfersGo
<1>4. \A t \in Transfers : ~ Whole(t) => ~ Whole(t)'
  BY DEF BackGoes, Whole
<1>5. worker[v].pc \in {"resolveList", "keep", "close"} => state'[Who(v)] \in Over
  BY <1>1, StatesKept DEF Doing, At
<1>6. /\ worker'[v].pc = worker[v].pc /\ worker'[v].who = worker[v].who /\ worker'[v].gen = worker[v].gen
      /\ worker'[v].xfer = worker[v].xfer
  BY DEF Like
<1>7. At(v, "recordBack") => worker[v].xfer \in Transfers
  BY <1>1 DEF Doing, At
<1> QED BY <1>1, <1>2, <1>3, <1>4, <1>5, <1>6, <1>7 DEF Doing, At, Who

\* A request is waited for by whom it was.
LEMMA WaitedKept ==
  ASSUME BaseInv, requests' \subseteq requests, \A r \in requests' : r[2] # None => Like(r[2])
  PROVE  Waited'
BY DEF BaseInv, Waited, Waits, Like, At, Who

\* A step that changes nothing but where one process is.
LEMMA QuietFine ==
  ASSUME BaseInv, UNCHANGED <<ledger, intents, stripe>>, NEW w \in Workers, Typed, Others(w),
         ~ (At(w, "await") /\ worker[w].xfer = None), Doing(w)',
         worker'[w].pc \notin Noted \/ \E p \in Payouts : Looks(w, p)
  PROVE  Fine
<1> USE DEF ledger, intents, stripe
<1>1. TypeOK'
  BY DEF BaseInv, TypeOK, Typed
<1>2. LedgerGoes
  BY DEF LedgerGoes, Still
<1>3. EpochsGo
  BY DEF EpochsGo
<1>4. TransfersGo /\ BackGoes /\ KeptGoes /\ RequestsGo
  BY DEF TransfersGo, BackGoes, KeptGoes, RequestsGo
<1>5. EventsGo
  BY DEF EventsGo
<1>6. WorkersGo
  BY DEF WorkersGo, Others
<1>7. \A v \in Workers : Doing(v)'
  BY <1>2, <1>3, <1>4, DoingKept DEF Others
<1>8. Waited'
  <2>1. \A r \in requests : r[2] # None => r[2] \in Workers /\ r[2] # w
    BY DEF BaseInv, TypeOK, Waited, Waits, Workers
  <2> QED BY <2>1, WaitedKept DEF Others
<1> QED BY <1>1, <1>2, <1>3, <1>4, <1>5, <1>6, <1>7, <1>8 DEF Fine, Goes

\* A step that changes the ledger and a row, and ends what one process does.
LEMMA RowsFine ==
  ASSUME BaseInv, LedgerGoes, UNCHANGED <<generation, postedAt, stripe>>, TypeOK',
         \A p \in Payouts : ~ (state[p] = "reconcile_required" /\ state'[p] = "intent"),
         \A v \in Workers :
           \/ Like(v)
           \/ ~ (At(v, "await") /\ worker[v].xfer = None) /\ worker'[v].pc \notin Noted /\ Doing(v)'
  PROVE  Fine
<1> USE DEF stripe
<1>3. EpochsGo
  BY DEF EpochsGo
<1>4. TransfersGo /\ BackGoes /\ KeptGoes /\ RequestsGo
  BY DEF TransfersGo, BackGoes, KeptGoes, RequestsGo
<1>5. EventsGo
  BY DEF EventsGo
<1>6. WorkersGo
  BY DEF WorkersGo
<1>7. \A v \in Workers : Doing(v)'
  BY <1>3, <1>4, DoingKept
<1>8. Waited'
  <2>1. \A r \in requests : r[2] # None => r[2] \in Workers /\ At(r[2], "await") /\ worker[r[2]].xfer = None
    BY DEF BaseInv, TypeOK, Waited, Waits, Workers
  <2> QED BY <2>1, WaitedKept
<1> QED BY <1>3, <1>4, <1>5, <1>6, <1>7, <1>8 DEF Fine, Goes

\* A process that has come to rest.
LEMMA DoneResting ==
  ASSUME NEW w \in Workers, worker'[w].pc = "idle", worker'[w].xfer = None
  PROVE  Doing(w)'
BY DirectAssumption DEF Doing, At, ExecutorLabels, OperatorLabels, Workers

-----------------------------------------------------------------------------
(* Every action is one of these: first those that move one process only.      *)

\* Everything a process may be told apart by.
LEMMA Base ==
  ASSUME BaseInv
  PROVE  /\ TypeOK /\ worker \in [Workers -> Processes]
         /\ \A w \in Workers : /\ Doing(w) /\ worker[w].pc \in Labels /\ worker[w].gen \in Generations
                               /\ worker[w].who \in Payouts \cup {None} /\ worker[w].xfer \in Hands
         /\ \A w \in Executors : worker[w].pc \in ExecutorLabels
         /\ \A w \in Operators : worker[w].pc \in OperatorLabels
<1>1. TypeOK /\ worker \in [Workers -> Processes] /\ \A w \in Workers : Doing(w)
  BY Records DEF BaseInv
<1>2. Executors \subseteq Workers /\ Operators \subseteq Workers
  BY DEF Workers
<1> QED BY <1>1, <1>2 DEF Processes, Hands, Doing

\* A process that reads the row of a payout that is on the rail.
LEMMA ReadDoing ==
  ASSUME BaseInv, UNCHANGED <<ledger, intents, stripe>>, NEW w \in Workers, NEW p \in Payouts, NEW l \in Labels,
         Reads(w, p, l), state[p] \notin Unplanned, l \notin {"retrieve", "record", "recordBack", "keep", "close"},
         l = "resolveList" => state[p] \in Over,
         w \in Executors => l \in ExecutorLabels, w \in Operators => l \in OperatorLabels
  PROVE  Doing(w)'
<1>1. /\ worker'[w].pc = l /\ worker'[w].who = p /\ worker'[w].gen = generation[p] /\ worker'[w].xfer = None
  BY Base, ReadRow
<1>2. None \notin Transfers /\ state' = state /\ generation' = generation /\ generation[p] \in Int
  BY DirectAssumption DEF intents, BaseInv, TypeOK, Generations
<1> QED BY <1>1, <1>2 DEF Doing, At, Who

\* A process that goes on with the payout it has in hand.
LEMMA GoDoing ==
  ASSUME BaseInv, UNCHANGED <<ledger, intents, stripe>>, NEW w \in Workers, NEW l \in Labels, Go(w, l), ~ At(w, "idle"),
         l \in {"check", "cancel", "stamp", "retry"} => worker[w].xfer = None,
         l \in {"retrieve", "record", "recordBack", "keep"} => worker[w].xfer \in Transfers,
         l = "recordBack" => ~ Whole(worker[w].xfer),
         l \in {"resolveList", "keep", "close"} => state[Who(w)] \in Over,
         w \in Executors => l \in ExecutorLabels, w \in Operators => l \in OperatorLabels
  PROVE  Doing(w)'
<1>1. /\ worker'[w].pc = l /\ worker'[w].who = worker[w].who /\ worker'[w].gen = worker[w].gen
      /\ worker'[w].xfer = worker[w].xfer
  BY Base, Went
<1>2. /\ state' = state /\ generation' = generation /\ made' = made /\ foreign' = foreign /\ back' = back
  BY DEF intents, stripe
<1> QED BY <1>1, <1>2, Base DEF Doing, At, Who, Whole

LEMMA TakeFine == ASSUME BaseInv, NEW w \in Executors, NEW p \in Payouts, Take(w, p) PROVE Fine
<1>1. w \in Workers /\ w \notin Operators
  BY DirectAssumption DEF Workers
<1>2. PICK l : l = (CASE state[p] = "intent" -> "check"
                      [] state[p] = "reconcile_required" -> "list"
                      [] state[p] = "posted" /\ postedAt[p] = "old" -> "stale"
                      [] OTHER -> "retry")
  OBVIOUS
<1>3. Reads(w, p, l) /\ UNCHANGED <<ledger, intents, stripe>> /\ At(w, "idle") /\ state[p] \in Open
  BY <1>2 DEF Take
<1>4. l \in {"check", "list", "stale", "retry"} /\ (l = "retry" => postedAt[p] # "old")
  BY <1>2, <1>3 DEF Open
<1>5. l \in Labels /\ l \in ExecutorLabels /\ state[p] \notin Unplanned
  BY <1>3, <1>4 DEF Labels, ExecutorLabels, Open, Unplanned
<1>6. /\ Typed /\ Others(w) /\ worker'[w].pc = l /\ worker'[w].who = p
  BY <1>1, <1>3, <1>5, Base, ReadRow
<1>7. Doing(w)'
  BY <1>1, <1>3, <1>4, <1>5, ReadDoing
<1>8. worker'[w].pc \notin Noted \/ Looks(w, p)
  BY <1>3, <1>4, <1>6 DEF Noted, Looks
<1> QED BY <1>1, <1>3, <1>6, <1>7, <1>8, QuietFine DEF At

LEMMA PreflightFine == ASSUME BaseInv, NEW w \in Executors, Preflight(w) PROVE Fine
<1>1. w \in Workers /\ w \notin Operators
  BY DirectAssumption DEF Workers
<1>2. PICK l \in {"cancel", "stamp"} : Go(w, l)
  BY DEF Preflight
<1>3. At(w, "check") /\ UNCHANGED <<ledger, intents, stripe>> /\ l \in Labels /\ l \in ExecutorLabels
  BY DEF Preflight, Labels, ExecutorLabels
<1>4. Typed /\ Others(w) /\ worker'[w].pc = l
  BY <1>1, <1>2, <1>3, Base, Went
<1>5. worker[w].xfer = None
  BY <1>1, <1>3, Base DEF Doing, At
<1>6. Doing(w)'
  BY <1>1, <1>2, <1>3, <1>5, GoDoing DEF At
<1> QED BY <1>1, <1>3, <1>4, <1>6, QuietFine DEF At, Noted

LEMMA PostReturnsFine == ASSUME BaseInv, NEW w \in Executors, PostReturns(w) PROVE Fine
<1>1. w \in Workers /\ w \notin Operators /\ None \notin Transfers
  BY DirectAssumption DEF Workers
<1>2. PICK l : l = "retrieve"
  OBVIOUS
<1>3. /\ At(w, "await") /\ UNCHANGED <<ledger, intents, stripe>> /\ l \in Labels /\ l \in ExecutorLabels
      /\ Go(w, l) /\ worker[w].xfer \in Transfers
  BY <1>2 DEF PostReturns, Labels, ExecutorLabels
<1>4. Typed /\ Others(w) /\ worker'[w].pc = l
  BY <1>1, <1>2, <1>3, Base, Went
<1>6. Doing(w)'
  BY <1>1, <1>2, <1>3, GoDoing DEF At
<1> QED BY <1>1, <1>2, <1>3, <1>4, <1>6, QuietFine DEF At, Noted

LEMMA RetrieveFine == ASSUME BaseInv, NEW w \in Executors, Retrieve(w) PROVE Fine
<1>1. w \in Workers /\ w \notin Operators
  BY DirectAssumption DEF Workers
<1>2. PICK l : l = IF Whole(worker[w].xfer) THEN "record" ELSE "recordBack"
  OBVIOUS
<1>3. /\ At(w, "retrieve") /\ UNCHANGED <<ledger, intents, stripe>> /\ l \in Labels /\ l \in ExecutorLabels
      /\ Go(w, l) /\ worker[w].xfer \in Transfers /\ Who(w) \in Payouts
  BY <1>1, <1>2, Base DEF Retrieve, Labels, ExecutorLabels, Doing, At
<1>4. /\ Typed /\ Others(w) /\ worker'[w].pc = l /\ worker'[w].xfer = worker[w].xfer
      /\ worker'[w].who = worker[w].who
  BY <1>1, <1>2, <1>3, Base, Went
<1>6. Doing(w)'
  BY <1>1, <1>2, <1>3, GoDoing DEF At
<1>7. worker'[w].pc \notin Noted \/ Looks(w, Who(w))
  BY <1>2, <1>3, <1>4 DEF Noted, Looks, Who
<1> QED BY <1>1, <1>2, <1>3, <1>4, <1>6, <1>7, QuietFine DEF At

LEMMA ListNothingFine == ASSUME BaseInv, NEW w \in Executors, ListNothing(w) PROVE Fine
<1>1. w \in Workers /\ w \notin Operators /\ Executors \in SUBSET Workers
  BY DirectAssumption DEF Workers
<1>2. PICK W : W = IF Ours(w, {"reconcile_required"}) THEN Outdate(Executors, Who(w), worker) ELSE worker
  OBVIOUS
<1>3. At(w, "list") /\ UNCHANGED <<ledger, intents, stripe>> /\ worker' = [W EXCEPT ![w] = Resting]
  BY <1>2 DEF ListNothing
<1>4. /\ W \in [Workers -> Processes]
      /\ \A v \in Workers : /\ W[v].pc = worker[v].pc /\ W[v].who = worker[v].who /\ W[v].gen = worker[v].gen
                            /\ W[v].xfer = worker[v].xfer /\ (W[v].cur => worker[v].cur)
  <2>1. CASE Ours(w, {"reconcile_required"})
    <3>1. PICK V : V = worker
      OBVIOUS
    <3>2. V \in [Workers -> Processes]
      BY <3>1, Base
    <3>3. W = Outdate(Executors, Who(w), V)
      BY <1>2, <2>1, <3>1
    <3> QED BY <1>1, <3>1, <3>2, <3>3, OutdateIs
  <2>2. CASE ~ Ours(w, {"reconcile_required"})
    BY <1>2, <2>2, Base
  <2> QED BY <2>1, <2>2
<1>5. Resting \in Processes /\ Resting.pc = "idle" /\ Resting.xfer = None
  BY DirectAssumption DEF Resting, Processes, Labels, Generations
<1> HIDE DEF Resting
<1>6. Typed /\ Others(w) /\ worker'[w] = Resting
  BY <1>1, <1>3, <1>4, <1>5 DEF Typed, Others, Like
<1>7. Doing(w)'
  BY <1>1, <1>5, <1>6, DoneResting
<1> QED BY <1>1, <1>3, <1>5, <1>6, <1>7, QuietFine DEF At, Noted

LEMMA ListFoundFine == ASSUME BaseInv, NEW w \in Executors, ListFound(w) PROVE Fine
<1>1. w \in Workers /\ w \notin Operators /\ None \notin Transfers
  BY DirectAssumption DEF Workers
<1>2. /\ At(w, "list") /\ UNCHANGED <<ledger, intents, stripe>>
      /\ worker[w].pc = "list" /\ Who(w) \in Payouts
  BY <1>1, Base DEF ListFound, At, Doing
<1>3. CASE Go(w, "park")
  <2>1. PICK l : l = "park"
    OBVIOUS
  <2>2. Go(w, l) /\ l \in Labels /\ l \in ExecutorLabels
    BY <1>3, <2>1 DEF Labels, ExecutorLabels
  <2>3. Typed /\ Others(w) /\ worker'[w].pc = l
    BY <1>1, <2>1, <2>2, Base, Went
  <2>4. Doing(w)'
    BY <1>1, <1>2, <2>1, <2>2, GoDoing DEF At
  <2> QED BY <1>1, <1>2, <2>1, <2>3, <2>4, QuietFine DEF At, Noted
<1>4. ASSUME NEW t \in Group(Who(w)), t \notin foreign, GoWith(w, "retrieve", t) PROVE Fine
  <2>1. PICK l : l = "retrieve"
    OBVIOUS
  <2>2. GoWith(w, l, t) /\ l \in Labels /\ l \in ExecutorLabels
    BY <1>4, <2>1 DEF Labels, ExecutorLabels
  <2>3. t \in Transfers /\ t \in Hands /\ t \in made /\ t[1] = Who(w)
    BY DEF Group, BaseInv, TypeOK, Hands
  <2>4. /\ Typed /\ Others(w) /\ worker'[w].pc = l /\ worker'[w].xfer = t
        /\ worker'[w].who = worker[w].who /\ worker'[w].gen = worker[w].gen
    BY <1>1, <2>1, <2>2, <2>3, Base, WentWith
  <2>5. state' = state /\ generation' = generation /\ made' = made /\ foreign' = foreign /\ back' = back
    BY <1>2 DEF intents, stripe
  <2>6. Doing(w)'
    BY <1>1, <1>2, <1>4, <2>1, <2>2, <2>3, <2>4, <2>5, Base DEF Doing, At, Who
  <2> QED BY <1>1, <1>2, <2>1, <2>4, <2>6, QuietFine DEF At, Noted
<1> QED BY <1>3, <1>4 DEF ListFound

\* An operator reads a row,
LEMMA OperatorReads ==
  ASSUME BaseInv, NEW o \in Operators, NEW p \in Payouts, NEW l \in {"rearmList", "disposeList", "resolveList"},
         Reads(o, p, l), At(o, "idle"), UNCHANGED <<ledger, intents, stripe>>,
         l = "rearmList" => state[p] = "reconcile_required" /\ Asserts(p),
         l = "disposeList" => state[p] \in {"reconcile_required", "confirmed"} /\ Asserts(p),
         l = "resolveList" => state[p] = "duplicate_review"
  PROVE  Fine
<1>1. o \in Workers /\ o \notin Executors /\ l \in Labels /\ l \in OperatorLabels
  BY DirectAssumption DEF Workers, Labels, OperatorLabels
<1>2. state[p] \notin Unplanned /\ (l = "resolveList" => state[p] \in Over)
  BY DEF Unplanned, Over
<1>3. /\ Typed /\ Others(o) /\ worker'[o].pc = l /\ worker'[o].who = p /\ worker'[o].gen = generation[p]
  BY <1>1, Base, ReadRow
<1>4. Doing(o)'
  BY <1>1, <1>2, ReadDoing
<1>5. worker'[o].pc \notin Noted \/ Looks(o, p)
  BY <1>3 DEF Noted, Looks
<1> QED BY <1>1, <1>3, <1>4, <1>5, QuietFine DEF At

LEMMA OperatorReadsFine ==
  ASSUME BaseInv, NEW o \in Operators, NEW p \in Payouts,
         RearmRead(o, p) \/ DisposeRead(o, p) \/ ResolveRead(o, p)
  PROVE  Fine
<1>1. ASSUME RearmRead(o, p) PROVE Fine
  <2>1. PICK l \in {"rearmList", "disposeList", "resolveList"} : l = "rearmList"
    OBVIOUS
  <2> QED BY <1>1, <2>1, OperatorReads DEF RearmRead
<1>2. ASSUME DisposeRead(o, p) PROVE Fine
  <2>1. PICK l \in {"rearmList", "disposeList", "resolveList"} : l = "disposeList"
    OBVIOUS
  <2> QED BY <1>2, <2>1, OperatorReads DEF DisposeRead
<1>3. ASSUME ResolveRead(o, p) PROVE Fine
  <2>1. PICK l \in {"rearmList", "disposeList", "resolveList"} : l = "resolveList"
    OBVIOUS
  <2> QED BY <1>3, <2>1, OperatorReads DEF ResolveRead
<1> QED BY <1>1, <1>2, <1>3

\* or goes on once Stripe has listed the group,
LEMMA OperatorGoes ==
  ASSUME BaseInv, NEW o \in Operators, NEW l \in {"rearm", "dispose", "close"}, Go(o, l),
         UNCHANGED <<ledger, intents, stripe>>,
         l = "rearm" => At(o, "rearmList") /\ Group(Who(o)) = {},
         l = "dispose" => At(o, "disposeList") /\ \A t \in Group(Who(o)) : Gone(t),
         l = "close" => At(o, "resolveList") /\ Asserts(Who(o)) /\ \A t \in Group(Who(o)) : Gone(t)
  PROVE  Fine
<1>1. o \in Workers /\ o \notin Executors /\ l \in Labels /\ l \in OperatorLabels
  BY DirectAssumption DEF Workers, Labels, OperatorLabels
<1>2. ~ At(o, "idle") /\ ~ At(o, "await") /\ Who(o) \in Payouts /\ (l = "close" => state[Who(o)] \in Over)
  BY <1>1, Base DEF At, Doing
<1>3. /\ Typed /\ Others(o) /\ worker'[o].pc = l /\ worker'[o].who = worker[o].who
      /\ worker'[o].gen = worker[o].gen /\ worker'[o].xfer = worker[o].xfer
  BY <1>1, Base, Went
<1>4. Doing(o)'
  BY <1>1, <1>2, GoDoing
<1>5. Looks(o, Who(o))
  BY <1>3 DEF Looks, Passes, Who
<1> QED BY <1>1, <1>2, <1>3, <1>4, <1>5, QuietFine

\* or rests.
LEMMA RestFine ==
  ASSUME BaseInv, NEW w \in Workers, Rest(w), UNCHANGED <<ledger, intents, stripe>>,
         ~ (At(w, "await") /\ worker[w].xfer = None)
  PROVE  Fine
<1>1. Typed /\ Others(w) /\ worker'[w].pc = "idle" /\ worker'[w].xfer = None
  BY Base, Rested
<1>2. Doing(w)'
  BY <1>1, DoneResting
<1> QED BY <1>1, <1>2, QuietFine DEF Noted

LEMMA RearmListFine == ASSUME BaseInv, NEW o \in Operators, RearmList(o) PROVE Fine
<1>1. o \in Workers /\ At(o, "rearmList") /\ ~ At(o, "await") /\ UNCHANGED <<ledger, intents, stripe>>
  BY DEF Workers, RearmList, At
<1>2. CASE Group(Who(o)) = {}
  <2>1. PICK l \in {"rearm", "dispose", "close"} : l = "rearm"
    OBVIOUS
  <2> QED BY <1>1, <1>2, <2>1, OperatorGoes DEF RearmList
<1>3. CASE Group(Who(o)) # {}
  BY <1>1, <1>3, RestFine DEF RearmList
<1> QED BY <1>2, <1>3

LEMMA DisposeListFine == ASSUME BaseInv, NEW o \in Operators, DisposeList(o) PROVE Fine
<1>1. o \in Workers /\ At(o, "disposeList") /\ ~ At(o, "await") /\ UNCHANGED <<ledger, intents, stripe>>
  BY DEF Workers, DisposeList, At
<1>2. CASE \A t \in Group(Who(o)) : Gone(t)
  <2>1. PICK l \in {"rearm", "dispose", "close"} : l = "dispose"
    OBVIOUS
  <2> QED BY <1>1, <1>2, <2>1, OperatorGoes DEF DisposeList
<1>3. CASE ~ \A t \in Group(Who(o)) : Gone(t)
  BY <1>1, <1>3, RestFine DEF DisposeList
<1> QED BY <1>2, <1>3

LEMMA ResolveListFine == ASSUME BaseInv, NEW o \in Operators, ResolveList(o) PROVE Fine
<1>1. /\ o \in Workers /\ o \notin Executors /\ At(o, "resolveList") /\ ~ At(o, "await")
      /\ UNCHANGED <<ledger, intents, stripe>> /\ worker[o].pc = "resolveList"
  BY DirectAssumption DEF Workers, ResolveList, At
<1>2. CASE Go(o, "close") /\ Asserts(Who(o)) /\ \A t \in Group(Who(o)) : Gone(t)
  <2>1. PICK l \in {"rearm", "dispose", "close"} : l = "close"
    OBVIOUS
  <2> QED BY <1>1, <1>2, <2>1, OperatorGoes
<1>3. CASE Rest(o)
  BY <1>1, <1>3, RestFine
<1>4. ASSUME NEW t \in Group(Who(o)) \ foreign, Whole(t), GoWith(o, "keep", t) PROVE Fine
  <2>1. PICK l : l = "keep"
    OBVIOUS
  <2>2. GoWith(o, l, t) /\ l \in Labels /\ l \in OperatorLabels
    BY <1>4, <2>1 DEF Labels, OperatorLabels
  <2>3. t \in Transfers /\ t \in Hands /\ t \in made \ foreign /\ t[1] = Who(o) /\ None \notin Transfers
    BY DirectAssumption DEF Group, BaseInv, TypeOK, Hands
  <2>4. /\ Typed /\ Others(o) /\ worker'[o].pc = l /\ worker'[o].xfer = t
        /\ worker'[o].who = worker[o].who /\ worker'[o].gen = worker[o].gen
    BY <1>1, <2>1, <2>2, <2>3, Base, WentWith
  <2>5. state' = state /\ generation' = generation /\ made' = made /\ foreign' = foreign /\ back' = back
    BY <1>1 DEF intents, stripe
  <2>6. Who(o) \in Payouts /\ state[Who(o)] \in Over
    BY <1>1, Base DEF Doing, At
  <2>7. Doing(o)'
    BY <1>1, <2>1, <2>2, <2>3, <2>4, <2>5, <2>6, Base DEF Doing, At, Who
  <2>8. Looks(o, Who(o))
    BY <1>1, <1>4, <2>1, <2>4 DEF Looks, Who
  <2> QED BY <1>1, <2>4, <2>6, <2>7, <2>8, QuietFine
<1> QED BY <1>2, <1>3, <1>4 DEF ResolveList

LEMMA CannotVerifyFine == ASSUME BaseInv, NEW w \in Workers, CannotVerify(w) PROVE Fine
BY RestFine DEF CannotVerify, At

-----------------------------------------------------------------------------
(* Then those that change the ledger or a row.                                *)

\* What is left when a process ends with the step that changes them.
LEMMA LastFine ==
  ASSUME BaseInv, LedgerGoes, UNCHANGED <<generation, postedAt, stripe>>,
         \A p \in Payouts : ~ (state[p] = "reconcile_required" /\ state'[p] = "intent"),
         status' \in [Lines -> {"accrued", "approved", "reversed", "paid"}],
         worth' \in SUBSET Units /\ refunded' \in SUBSET Units,
         claim' \in [Lines -> Payouts \cup {None}], clawback' \in [Units -> Payouts \cup {None, Owed}],
         state' \in [Payouts -> States], payout' \in [Payouts -> {"pending", "paid", "failed"}],
         frozen' \in [Payouts -> SUBSET Units], netted' \in [Payouts -> SUBSET Units],
         recorded' \in [Payouts -> Transfers \cup {None}],
         \/ UNCHANGED worker
         \/ \E w \in Workers : Rest(w) /\ ~ (At(w, "await") /\ worker[w].xfer = None)
  PROVE  Fine
<1>1. Typed /\ \A v \in Workers :
           \/ Like(v)
           \/ ~ (At(v, "await") /\ worker[v].xfer = None) /\ worker'[v].pc \notin Noted /\ Doing(v)'
  <2>1. CASE UNCHANGED worker
    BY <2>1, Base DEF Typed, Like
  <2>2. ASSUME NEW w \in Workers, Rest(w), ~ (At(w, "await") /\ worker[w].xfer = None)
        PROVE  Typed /\ \A v \in Workers :
           \/ Like(v)
           \/ ~ (At(v, "await") /\ worker[v].xfer = None) /\ worker'[v].pc \notin Noted /\ Doing(v)'
    <3>1. Typed /\ Others(w) /\ worker'[w].pc = "idle" /\ worker'[w].xfer = None
      BY <2>2, Base, Rested
    <3>2. Doing(w)'
      BY <3>1, DoneResting
    <3> QED BY <2>2, <3>1, <3>2 DEF Others, Noted
  <2> QED BY <2>1, <2>2
<1>2. TypeOK'
  BY <1>1 DEF BaseInv, TypeOK, Typed, stripe
<1> QED BY <1>1, <1>2, RowsFine

\* A payout is given up.
LEMMA AbandonFine ==
  ASSUME BaseInv, NEW w \in Workers, NEW p \in Payouts, Abandon(p, TRUE), Rest(w), Cause(p),
         state[p] \in Open \cup {"duplicate_review"} \/ (state[p] = "confirmed" /\ payout[p] # "paid"),
         UNCHANGED <<status, worth, refunded, generation, postedAt, frozen, netted, recorded, stripe>>,
         ~ (At(w, "await") /\ worker[w].xfer = None)
  PROVE  Fine
<1>1. /\ state' = [state EXCEPT ![p] = "canceled"] /\ payout' = [payout EXCEPT ![p] = "failed"]
      /\ ReleaseClaims(p)
  BY DEF Abandon
<1>2. TypeOK
  BY Base
<1>3. /\ state' \in [Payouts -> States] /\ payout' \in [Payouts -> {"pending", "paid", "failed"}]
      /\ claim' \in [Lines -> Payouts \cup {None}] /\ clawback' \in [Units -> Payouts \cup {None, Owed}]
  BY <1>1, <1>2 DEF TypeOK, States, ReleaseClaims
<1>4. /\ state'[p] = "canceled" /\ payout'[p] = "failed"
      /\ \A q \in Payouts : q # p => state'[q] = state[q] /\ payout'[q] = payout[q]
  BY <1>1, <1>2 DEF TypeOK
<1>5. Abandons(p)
  BY <1>1, <1>4 DEF Abandons, Alone
<1>6. LedgerGoes /\ \A q \in Payouts : ~ (state[q] = "reconcile_required" /\ state'[q] = "intent")
  BY <1>4, <1>5 DEF LedgerGoes
<1> QED BY <1>2, <1>3, <1>6, LastFine DEF TypeOK

LEMMA CancelIntentFine == ASSUME BaseInv, NEW w \in Executors, CancelIntent(w) PROVE Fine
<1>1. w \in Workers /\ At(w, "cancel") /\ ~ At(w, "await") /\ Rest(w) /\ Who(w) \in Payouts
  BY Base DEF Workers, CancelIntent, At, Doing
<1>2. UNCHANGED <<status, worth, refunded, generation, postedAt, frozen, netted, recorded, stripe>>
  BY DEF CancelIntent
<1>3. CASE state[Who(w)] = "intent"
  <2>1. Abandon(Who(w), TRUE)
    BY <1>3 DEF CancelIntent, Abandon
  <2>2. Cause(Who(w)) /\ state[Who(w)] \in Open \cup {"duplicate_review"}
    BY <1>3 DEF Cause, Open
  <2> QED BY <1>1, <1>2, <2>1, <2>2, AbandonFine
<1>4. CASE state[Who(w)] # "intent"
  BY <1>1, <1>2, <1>4, RestFine DEF CancelIntent, Abandon, ledger, intents
<1> QED BY <1>3, <1>4

LEMMA FailIntentFine == ASSUME BaseInv, NEW w \in Executors, FailIntent(w) PROVE Fine
<1>1. /\ w \in Workers /\ At(w, "await") /\ worker[w].xfer = Refused /\ Rest(w) /\ Who(w) \in Payouts
      /\ worker[w].xfer # None
  BY Base, DirectAssumption DEF Workers, FailIntent, At, Doing
<1>2. UNCHANGED <<status, worth, refunded, generation, postedAt, frozen, netted, recorded, stripe>>
  BY DEF FailIntent
<1>3. CASE Ours(w, {"posted", "intent"})
  <2>1. Abandon(Who(w), TRUE)
    BY <1>3 DEF FailIntent, Abandon
  <2>2. Cause(Who(w)) /\ state[Who(w)] \in Open \cup {"duplicate_review"}
    BY <1>1, <1>3 DEF Cause, Ours, Open
  <2> QED BY <1>1, <1>2, <2>1, <2>2, AbandonFine
<1>4. CASE ~ Ours(w, {"posted", "intent"})
  BY <1>1, <1>2, <1>4, RestFine DEF FailIntent, Abandon, ledger, intents
<1> QED BY <1>3, <1>4

LEMMA DisposeFine == ASSUME BaseInv, NEW o \in Operators, Dispose(o) PROVE Fine
<1>1. /\ o \in Workers /\ At(o, "dispose") /\ worker[o].pc = "dispose" /\ ~ At(o, "await") /\ Rest(o)
      /\ Who(o) \in Payouts
  BY Base DEF Workers, Dispose, At, Doing
<1>2. UNCHANGED <<status, worth, refunded, generation, postedAt, frozen, netted, recorded, stripe>>
  BY DEF Dispose
<1>3. CASE state[Who(o)] \in {"reconcile_required", "confirmed"} /\ payout[Who(o)] # "paid"
  <2>1. Abandon(Who(o), TRUE)
    BY <1>3 DEF Dispose, Abandon
  <2>2. /\ Cause(Who(o))
        /\ state[Who(o)] \in Open \cup {"duplicate_review"} \/ (state[Who(o)] = "confirmed" /\ payout[Who(o)] # "paid")
    BY <1>1, <1>3 DEF Cause, Open
  <2> QED BY <1>1, <1>2, <2>1, <2>2, AbandonFine
<1>4. CASE ~ (state[Who(o)] \in {"reconcile_required", "confirmed"} /\ payout[Who(o)] # "paid")
  BY <1>1, <1>2, <1>4, RestFine DEF Dispose, Abandon, ledger, intents
<1> QED BY <1>3, <1>4

LEMMA CloseReversedFine == ASSUME BaseInv, NEW o \in Operators, CloseReversed(o) PROVE Fine
<1>1. /\ o \in Workers /\ At(o, "close") /\ worker[o].pc = "close" /\ ~ At(o, "await") /\ Rest(o)
      /\ Who(o) \in Payouts
  BY Base DEF Workers, CloseReversed, At, Doing
<1>2. UNCHANGED <<status, worth, refunded, generation, postedAt, frozen, netted, recorded, stripe>>
  BY DEF CloseReversed
<1>3. CASE state[Who(o)] = "duplicate_review" /\ worker[o].cur
  <2>1. Abandon(Who(o), TRUE)
    BY <1>3 DEF CloseReversed, Abandon
  <2>2. Cause(Who(o)) /\ state[Who(o)] \in Open \cup {"duplicate_review"}
    BY <1>1, <1>3 DEF Cause
  <2> QED BY <1>1, <1>2, <2>1, <2>2, AbandonFine
<1>4. CASE ~ (state[Who(o)] = "duplicate_review" /\ worker[o].cur)
  BY <1>1, <1>2, <1>4, RestFine DEF CloseReversed, Abandon, ledger, intents
<1> QED BY <1>3, <1>4

\* A transfer is recorded as the payment.
LEMMA PaysFine ==
  ASSUME BaseInv, NEW w \in Workers, NEW p \in Payouts, Pays(p, worker[w].xfer), Rest(w), Payer(w, p),
         state[p] \in {"posted", "reconcile_required", "duplicate_review"},
         UNCHANGED <<worth, refunded, claim, clawback, generation, postedAt, frozen, netted, stripe>>
  PROVE  Fine
<1> PICK t : t = worker[w].xfer
  OBVIOUS
<1>1. /\ state' = [state EXCEPT ![p] = "confirmed"] /\ payout' = [payout EXCEPT ![p] = "paid"]
      /\ recorded' = [recorded EXCEPT ![p] = t]
      /\ status' = [c \in Lines |-> IF claim[c] = p /\ status[c] = "approved" THEN "paid" ELSE status[c]]
  BY DEF Pays
<1>2. TypeOK /\ t \in made \ foreign /\ t[1] = p /\ t \in Transfers /\ ~ At(w, "await")
  BY Base DEF Payer, Doing, At
<1>3. /\ state' \in [Payouts -> States] /\ payout' \in [Payouts -> {"pending", "paid", "failed"}]
      /\ recorded' \in [Payouts -> Transfers \cup {None}]
      /\ status' \in [Lines -> {"accrued", "approved", "reversed", "paid"}]
  BY <1>1, <1>2 DEF TypeOK, States
<1>4. /\ state'[p] = "confirmed" /\ payout'[p] = "paid" /\ recorded'[p] = t
      /\ \A q \in Payouts : q # p => state'[q] = state[q] /\ payout'[q] = payout[q] /\ recorded'[q] = recorded[q]
  BY <1>1, <1>2 DEF TypeOK
<1>5. PaysOf(p)
  BY <1>1, <1>2, <1>4 DEF PaysOf, Alone
<1>6. LedgerGoes /\ \A q \in Payouts : ~ (state[q] = "reconcile_required" /\ state'[q] = "intent")
  BY <1>4, <1>5 DEF LedgerGoes
<1> QED BY <1>2, <1>3, <1>6, LastFine DEF TypeOK

LEMMA RecordFine == ASSUME BaseInv, NEW w \in Executors, Record(w) PROVE Fine
<1>1. w \in Workers /\ At(w, "record") /\ ~ At(w, "await") /\ Rest(w) /\ Who(w) \in Payouts
  BY Base DEF Workers, Record, At, Doing
<1>2. UNCHANGED <<worth, refunded, claim, clawback, generation, postedAt, frozen, netted, stripe>>
  BY DEF Record
<1>3. CASE Ours(w, {"posted", "reconcile_required"})
  <2>1. Pays(Who(w), worker[w].xfer)
    BY <1>3 DEF Record
  <2>2. Payer(w, Who(w)) /\ state[Who(w)] \in {"posted", "reconcile_required", "duplicate_review"}
    BY <1>1, <1>3 DEF Payer, Ours
  <2> QED BY <1>1, <1>2, <2>1, <2>2, PaysFine
<1>4. CASE ~ Ours(w, {"posted", "reconcile_required"})
  BY <1>1, <1>2, <1>4, RestFine DEF Record, ledger, intents
<1> QED BY <1>3, <1>4

LEMMA KeepFine == ASSUME BaseInv, NEW o \in Operators, Keep(o) PROVE Fine
<1>1. o \in Workers /\ At(o, "keep") /\ ~ At(o, "await") /\ Rest(o) /\ Who(o) \in Payouts
  BY Base DEF Workers, Keep, At, Doing
<1>2. UNCHANGED <<worth, refunded, claim, clawback, generation, postedAt, frozen, netted, stripe>>
  BY DEF Keep
<1>3. CASE state[Who(o)] = "duplicate_review" /\ worker[o].cur
  <2>1. Pays(Who(o), worker[o].xfer)
    BY <1>3 DEF Keep
  <2>2. Payer(o, Who(o)) /\ state[Who(o)] \in {"posted", "reconcile_required", "duplicate_review"}
    BY <1>1, <1>3 DEF Payer
  <2> QED BY <1>1, <1>2, <2>1, <2>2, PaysFine
<1>4. CASE ~ (state[Who(o)] = "duplicate_review" /\ worker[o].cur)
  BY <1>1, <1>2, <1>4, RestFine DEF Keep, ledger, intents
<1> QED BY <1>3, <1>4

LEMMA RecordBackFine == ASSUME BaseInv, NEW w \in Executors, RecordBack(w) PROVE Fine
<1>1. w \in Workers /\ At(w, "recordBack") /\ ~ At(w, "await") /\ Rest(w) /\ Who(w) \in Payouts
  BY Base DEF Workers, RecordBack, At, Doing
<1>2. UNCHANGED <<ledger, generation, postedAt, frozen, netted, stripe>>
  BY DEF RecordBack
<1>3. CASE Ours(w, {"posted", "reconcile_required"})
  <2> PICK p, t : p = Who(w) /\ t = worker[w].xfer
    OBVIOUS
  <2>1. /\ state' = [state EXCEPT ![p] = "confirmed"] /\ payout' = [payout EXCEPT ![p] = "failed"]
        /\ recorded' = [recorded EXCEPT ![p] = t]
    BY <1>3 DEF RecordBack, Fails
  <2>2. /\ TypeOK /\ t \in made /\ t[1] = p /\ t \in Transfers /\ ~ Whole(t) /\ p \in Payouts
        /\ state[p] \in {"posted", "reconcile_required"}
    BY <1>1, <1>3, Base DEF Doing, At, Ours
  <2>3. /\ state' \in [Payouts -> States] /\ payout' \in [Payouts -> {"pending", "paid", "failed"}]
        /\ recorded' \in [Payouts -> Transfers \cup {None}]
    BY <2>1, <2>2 DEF TypeOK, States
  <2>4. /\ state'[p] = "confirmed" /\ payout'[p] = "failed" /\ recorded'[p] = t
        /\ \A q \in Payouts : q # p => state'[q] = state[q] /\ payout'[q] = payout[q] /\ recorded'[q] = recorded[q]
    BY <2>1, <2>2 DEF TypeOK
  <2>5. FallsBack(p)
    BY <1>2, <2>2, <2>4 DEF FallsBack, Alone
  <2>6. LedgerGoes /\ \A q \in Payouts : ~ (state[q] = "reconcile_required" /\ state'[q] = "intent")
    BY <2>2, <2>4, <2>5 DEF LedgerGoes
  <2> QED BY <1>1, <1>2, <2>2, <2>3, <2>6, LastFine DEF TypeOK, ledger
<1>4. CASE ~ Ours(w, {"posted", "reconcile_required"})
  BY <1>1, <1>2, <1>4, RestFine DEF RecordBack, intents
<1> QED BY <1>3, <1>4

LEMMA ParkFine == ASSUME BaseInv, NEW w \in Executors, Park(w) PROVE Fine
<1>1. w \in Workers /\ At(w, "park") /\ ~ At(w, "await") /\ Rest(w) /\ Who(w) \in Payouts
  BY Base DEF Workers, Park, At, Doing
<1>2. UNCHANGED <<ledger, generation, postedAt, frozen, netted, recorded, stripe>>
  BY DEF Park
<1>3. CASE Ours(w, {"posted", "reconcile_required"})
  <2> PICK p : p = Who(w)
    OBVIOUS
  <2>1. state' = [state EXCEPT ![p] = "duplicate_review"] /\ payout' = [payout EXCEPT ![p] = "failed"]
    BY <1>3 DEF Park
  <2>2. TypeOK /\ p \in Payouts /\ state[p] \in {"posted", "reconcile_required"}
    BY <1>1, <1>3, Base DEF Ours
  <2>3. state' \in [Payouts -> States] /\ payout' \in [Payouts -> {"pending", "paid", "failed"}]
    BY <2>1, <2>2 DEF TypeOK, States
  <2>4. /\ state'[p] = "duplicate_review"
        /\ \A q \in Payouts : q # p => state'[q] = state[q] /\ payout'[q] = payout[q]
    BY <2>1, <2>2 DEF TypeOK
  <2>5. Advances(p)
    BY <1>2, <2>2, <2>4 DEF Advances, Alone, Ways
  <2>6. LedgerGoes /\ \A q \in Payouts : ~ (state[q] = "reconcile_required" /\ state'[q] = "intent")
    BY <2>2, <2>4, <2>5 DEF LedgerGoes
  <2> QED BY <1>1, <1>2, <2>2, <2>3, <2>6, LastFine DEF TypeOK, ledger
<1>4. CASE ~ Ours(w, {"posted", "reconcile_required"})
  BY <1>1, <1>2, <1>4, RestFine DEF Park, intents
<1> QED BY <1>3, <1>4

LEMMA ExpireFine == ASSUME BaseInv, NEW w \in Executors, Expire(w) PROVE Fine
<1>1. /\ w \in Workers /\ w \notin Operators /\ At(w, "stale") /\ ~ At(w, "await") /\ Who(w) \in Payouts
      /\ ~ At(w, "idle")
  BY Base, DirectAssumption DEF Workers, Expire, At, Doing
<1>2. UNCHANGED <<ledger, payout, generation, postedAt, frozen, netted, recorded, stripe>>
  BY DEF Expire
<1>3. CASE Ours(w, {"posted"})
  <2> PICK p, l : p = Who(w) /\ l = "list"
    OBVIOUS
  <2>1. state' = [state EXCEPT ![p] = "reconcile_required"] /\ Go(w, l)
    BY <1>3 DEF Expire
  <2>2. /\ TypeOK /\ p \in Payouts /\ state[p] = "posted" /\ l \in Labels /\ l \in ExecutorLabels
    BY <1>1, <1>3, Base DEF Ours, Labels, ExecutorLabels
  <2>3. state' \in [Payouts -> States]
    BY <2>1, <2>2 DEF TypeOK, States, Open
  <2>4. /\ state'[p] = "reconcile_required"
        /\ \A q \in Payouts : q # p => state'[q] = state[q]
    BY <2>1, <2>2 DEF TypeOK
  <2>5. Advances(p)
    BY <1>2, <2>2, <2>4 DEF Advances, Alone, Ways
  <2>6. LedgerGoes /\ \A q \in Payouts : ~ (state[q] = "reconcile_required" /\ state'[q] = "intent")
    BY <2>2, <2>4, <2>5 DEF LedgerGoes
  <2>7. /\ Typed /\ Others(w) /\ worker'[w].pc = l /\ worker'[w].who = worker[w].who
        /\ worker'[w].gen = worker[w].gen /\ worker'[w].xfer = worker[w].xfer
    BY <1>1, <2>1, <2>2, Went
  <2>8. Doing(w)'
    BY <1>1, <1>2, <2>2, <2>4, <2>7, Base DEF Doing, At, Who, Unplanned, stripe
  <2>9. TypeOK'
    BY <1>2, <2>2, <2>3, <2>7 DEF TypeOK, Typed, stripe, ledger
  <2>10. worker'[w].pc \notin Noted
    BY <2>7 DEF Noted
  <2> QED BY <1>1, <1>2, <2>6, <2>7, <2>8, <2>9, <2>10, RowsFine DEF Others
<1>4. CASE ~ Ours(w, {"posted"})
  BY <1>1, <1>2, <1>4, RestFine DEF Expire, intents
<1> QED BY <1>3, <1>4

\* The planner freezes what it claims.
LEMMA FreezesTypes ==
  ASSUME TypeOK, NEW p \in Payouts, Freezes(p)
  PROVE  /\ claim' \in [Lines -> Payouts \cup {None}] /\ clawback' \in [Units -> Payouts \cup {None, Owed}]
         /\ frozen' \in [Payouts -> SUBSET Units] /\ netted' \in [Payouts -> SUBSET Units]
<1>1. UnitsOf(Unclaimed) \in SUBSET Units /\ Outstanding \in SUBSET Units
  BY DEF TypeOK, UnitsOf, Outstanding
<1> QED BY <1>1 DEF TypeOK, Freezes

LEMMA PlanFine == ASSUME BaseInv, NEW p \in Payouts, Plan(p) PROVE Fine
<1>1. /\ TypeOK /\ Freezes(p) /\ state' = [state EXCEPT ![p] = "intent"] /\ state[p] = "none"
      /\ UNCHANGED <<status, worth, refunded, payout, generation, postedAt, recorded, stripe, worker>>
  BY Base DEF Plan, Freezes
<1>2. state' \in [Payouts -> States] /\ state'[p] = "intent" /\ \A q \in Payouts : q # p => state'[q] = state[q]
  BY <1>1 DEF TypeOK, States, Open
<1>3. Opens(p)
  BY <1>1, <1>2 DEF Opens, Alone
<1>4. LedgerGoes /\ \A q \in Payouts : ~ (state[q] = "reconcile_required" /\ state'[q] = "intent")
  BY <1>1, <1>2, <1>3 DEF LedgerGoes
<1>5. /\ claim' \in [Lines -> Payouts \cup {None}] /\ clawback' \in [Units -> Payouts \cup {None, Owed}]
      /\ frozen' \in [Payouts -> SUBSET Units] /\ netted' \in [Payouts -> SUBSET Units]
  BY <1>1, FreezesTypes
<1> QED BY <1>1, <1>2, <1>4, <1>5, LastFine DEF TypeOK

LEMMA PlanManualFine == ASSUME BaseInv, NEW p \in Payouts, PlanManual(p) PROVE Fine
<1>1. /\ TypeOK /\ Freezes(p) /\ state' = [state EXCEPT ![p] = "manual"] /\ state[p] = "none"
      /\ status' = [c \in Lines |-> IF c \in Unclaimed THEN "paid" ELSE status[c]]
      /\ UNCHANGED <<worth, refunded, payout, generation, postedAt, recorded, stripe, worker>>
  BY Base DEF PlanManual, Freezes
<1>2. /\ state' \in [Payouts -> States] /\ state'[p] = "manual" /\ \A q \in Payouts : q # p => state'[q] = state[q]
      /\ status' \in [Lines -> {"accrued", "approved", "reversed", "paid"}]
  BY <1>1 DEF TypeOK, States
<1>3. Opens(p)
  BY <1>1, <1>2 DEF Opens, Alone
<1>4. LedgerGoes /\ \A q \in Payouts : ~ (state[q] = "reconcile_required" /\ state'[q] = "intent")
  BY <1>1, <1>2, <1>3 DEF LedgerGoes
<1>5. /\ claim' \in [Lines -> Payouts \cup {None}] /\ clawback' \in [Units -> Payouts \cup {None, Owed}]
      /\ frozen' \in [Payouts -> SUBSET Units] /\ netted' \in [Payouts -> SUBSET Units]
  BY <1>1, FreezesTypes
<1> QED BY <1>1, <1>2, <1>4, <1>5, LastFine DEF TypeOK

LEMMA ApproveFine == ASSUME BaseInv, NEW c \in Lines, Approve(c) PROVE Fine
<1>1. /\ TypeOK /\ UNCHANGED <<worth, refunded, claim, clawback, intents, stripe, worker>> /\ LedgerGoes
  BY Base DEF Approve, LedgerGoes
<1>2. status' \in [Lines -> {"accrued", "approved", "reversed", "paid"}]
  BY <1>1 DEF TypeOK, Approve
<1> QED BY <1>1, <1>2, LastFine DEF TypeOK, intents

LEMMA RefundFine == ASSUME BaseInv, NEW c \in Lines, NEW n \in 1..Worth, Refund(c, n) PROVE Fine
<1>1. /\ TypeOK /\ UNCHANGED <<intents, stripe, worker>> /\ LedgerGoes
  BY Base DEF Refund, LedgerGoes
<1> PICK cut, owed : /\ cut = Share(c, n) \cap worth /\ owed = {u \in cut : clawback[u] = None}
  OBVIOUS
<1>2. /\ refunded' = refunded \cup Share(c, n)
      /\ \/ /\ clawback' = [u \in Units |-> IF u \in owed THEN Owed ELSE clawback[u]]
            /\ UNCHANGED <<status, worth, claim>>
         \/ /\ worth' = worth \ cut /\ claim' = [claim EXCEPT ![c] = None]
            /\ status' = [status EXCEPT ![c] = "reversed"] \/ status' = status
            /\ UNCHANGED clawback
         \/ UNCHANGED <<status, worth, claim, clawback>>
  BY DEF Refund
<1>3. Share(c, n) \in SUBSET Units
  BY DirectAssumption DEF Share, Units
<1>4. /\ status' \in [Lines -> {"accrued", "approved", "reversed", "paid"}]
      /\ worth' \in SUBSET Units /\ refunded' \in SUBSET Units
      /\ claim' \in [Lines -> Payouts \cup {None}] /\ clawback' \in [Units -> Payouts \cup {None, Owed}]
  BY <1>1, <1>2, <1>3 DEF TypeOK
<1> QED BY <1>1, <1>4, LastFine DEF TypeOK, intents

-----------------------------------------------------------------------------
(* Those that send a request, or give one up.                                 *)

\* A POST under the key of the row.
LEMMA PostFine ==
  ASSUME BaseInv, NEW w \in Executors, NEW p \in Payouts, NEW g \in Generations, Posts(w, g),
         p = Who(w), g = generation[p], worker[w].xfer = None, ~ At(w, "await"),
         LedgerGoes, UNCHANGED <<ledger, payout, generation, frozen, netted, recorded>>,
         state' \in [Payouts -> States], postedAt' \in [Payouts -> Ages],
         state'[p] = "posted", state[p] = "intent" \/ (state[p] = "posted" /\ At(w, "retry")),
         \A q \in Payouts : postedAt'[q] # postedAt[q] => state[q] = "intent",
         \A q \in Payouts : ~ (state[q] = "reconcile_required" /\ state'[q] = "intent")
  PROVE  Fine
<1>1. w \in Workers /\ w \notin Operators /\ TypeOK
  BY Base, DirectAssumption DEF Workers
<1>2. /\ Typed /\ Others(w) /\ worker'[w].pc = "await" /\ worker'[w].who = p
      /\ worker'[w].gen = g /\ worker'[w].xfer = None
  BY <1>1, PostedBy
<1>3. /\ requests' = requests \cup {<<<<p, g>>, w>>}
      /\ UNCHANGED <<made, stamped, foreign, back, kept, events>>
  BY DEF Posts
<1>4. TypeOK'
  <2>1. <<<<p, g>>, w>> \in Keys \X (Executors \cup {None})
    BY DEF Keys
  <2> QED BY <1>1, <1>2, <1>3, <2>1 DEF TypeOK, Typed, ledger
<1>5. EpochsGo /\ TransfersGo /\ BackGoes /\ KeptGoes
  BY <1>3 DEF EpochsGo, TransfersGo, BackGoes, KeptGoes
<1>6. EventsGo
  BY <1>3 DEF EventsGo
<1>7. RequestsGo
  <2> SUFFICES ASSUME NEW r \in requests', r \notin requests PROVE Sends(r)
    BY DEF RequestsGo
  <2>1. r = <<<<p, g>>, w>> /\ r[1] = <<p, g>> /\ r[1][1] = p
    BY <1>3
  <2> QED BY <2>1 DEF Sends, Key
<1>8. WorkersGo
  <2>1. Refused # None
    BY DirectAssumption
  <2> QED BY <1>2, <2>1 DEF WorkersGo, Others
<1>9. \A v \in Workers : Doing(v)'
  <2>1. \A v \in Workers : v # w => Doing(v)'
    BY <1>2, <1>5, DoingKept DEF Others
  <2>2. Doing(w)'
    <3>1. g \in Int /\ None \notin Transfers
      BY DirectAssumption DEF Generations
    <3> QED BY <1>1, <1>2, <3>1 DEF Doing, At, Who, Unplanned, ExecutorLabels
  <2> QED BY <2>1, <2>2
<1>10. Waited'
  <2> SUFFICES ASSUME NEW r \in requests', r[2] # None PROVE Waits(r)'
    BY DEF Waited
  <2>1. CASE r \in requests
    <3>1. Waits(r) /\ r[2] \in Workers /\ r[2] # w
      BY <2>1, <1>1 DEF BaseInv, Waited, Waits, TypeOK, Workers
    <3> QED BY <1>2, <3>1 DEF Others, Like, Waits, At, Who
  <2>2. CASE r \notin requests
    <3>1. r = <<<<p, g>>, w>> /\ r[1] = <<p, g>> /\ r[2] = w /\ r[1][1] = p /\ r[1][2] = g
      BY <1>3, <2>2
    <3> QED BY <1>2, <3>1 DEF Waits, At, Who
  <2> QED BY <2>1, <2>2
<1> QED BY <1>4, <1>5, <1>6, <1>7, <1>8, <1>9, <1>10 DEF Fine, Goes

LEMMA FirstPostFine == ASSUME BaseInv, NEW w \in Executors, FirstPost(w) PROVE Fine
<1>1. /\ w \in Workers /\ At(w, "stamp") /\ ~ At(w, "await") /\ Who(w) \in Payouts /\ worker[w].xfer = None
  BY Base DEF Workers, FirstPost, At, Doing
<1>2. UNCHANGED <<ledger, payout, generation, frozen, netted, recorded>>
  BY DEF FirstPost
<1>3. CASE Ours(w, {"intent"})
  <2> PICK p, g : p = Who(w) /\ g = worker[w].gen
    OBVIOUS
  <2>1. /\ state' = [state EXCEPT ![p] = "posted"] /\ postedAt' = [postedAt EXCEPT ![p] = "fresh"]
        /\ Posts(w, g)
    BY <1>3 DEF FirstPost
  <2>2. TypeOK /\ p \in Payouts /\ g \in Generations /\ g = generation[p] /\ state[p] = "intent"
    BY <1>1, <1>3, Base DEF Ours
  <2>3. state' \in [Payouts -> States] /\ postedAt' \in [Payouts -> Ages]
    BY <2>1, <2>2 DEF TypeOK, States, Open, Ages
  <2>4. /\ state'[p] = "posted"
        /\ \A q \in Payouts : q # p => state'[q] = state[q] /\ postedAt'[q] = postedAt[q]
    BY <2>1, <2>2 DEF TypeOK
  <2>5. Advances(p)
    BY <1>2, <2>2, <2>4 DEF Advances, Alone, Ways
  <2>6. LedgerGoes /\ \A q \in Payouts : ~ (state[q] = "reconcile_required" /\ state'[q] = "intent")
    BY <2>2, <2>4, <2>5 DEF LedgerGoes
  <2> QED BY <1>1, <1>2, <2>1, <2>2, <2>3, <2>4, <2>6, PostFine
<1>4. CASE ~ Ours(w, {"intent"})
  BY <1>1, <1>2, <1>4, RestFine DEF FirstPost, intents
<1> QED BY <1>3, <1>4

LEMMA RetryPostFine == ASSUME BaseInv, NEW w \in Executors, RetryPost(w) PROVE Fine
<1>1. /\ w \in Workers /\ At(w, "retry") /\ ~ At(w, "await") /\ Who(w) \in Payouts /\ worker[w].xfer = None
      /\ UNCHANGED <<ledger, intents>> /\ TypeOK
  BY Base DEF Workers, RetryPost, At, Doing
<1>2. CASE state[Who(w)] = "posted" /\ Posts(w, generation[Who(w)])
  <2>1. generation[Who(w)] \in Generations /\ LedgerGoes
    BY <1>1 DEF TypeOK, LedgerGoes, Still, intents
  <2> QED BY <1>1, <1>2, <2>1, PostFine DEF intents, TypeOK
<1>3. CASE Rest(w) /\ UNCHANGED stripe
  BY <1>1, <1>3, RestFine
<1> QED BY <1>2, <1>3 DEF RetryPost

\* Nobody waits for the request any more.
LEMMA ForsakeFine ==
  ASSUME BaseInv, NEW w \in Workers, Forsake(w), Rest(w),
         UNCHANGED <<ledger, intents, made, stamped, foreign, back, kept, events>>
  PROVE  Fine
<1>1. TypeOK /\ Typed /\ Others(w) /\ worker'[w].pc = "idle" /\ worker'[w].xfer = None
  BY Base, Rested
<1>2. requests' = {r \in requests : r[2] # w} \cup {<<r[1], None>> : r \in {q \in requests : q[2] = w}}
  BY DEF Forsake
<1>3. TypeOK'
  <2>1. \A r \in requests : r[1] \in Keys
    BY <1>1 DEF TypeOK
  <2>2. \A r \in requests : <<r[1], None>> \in Keys \X (Executors \cup {None})
    BY <2>1
  <2>3. requests' \subseteq Keys \X (Executors \cup {None})
    BY <1>1, <1>2, <2>2 DEF TypeOK
  <2> QED BY <1>1, <2>3 DEF TypeOK, Typed, ledger, intents
<1>4. LedgerGoes
  BY DEF LedgerGoes, Still, intents
<1>5. EpochsGo /\ TransfersGo /\ BackGoes /\ KeptGoes
  BY DEF EpochsGo, TransfersGo, BackGoes, KeptGoes, intents
<1>6. EventsGo
  BY DEF EventsGo
<1>7. RequestsGo
  BY <1>2 DEF RequestsGo
<1>8. WorkersGo
  BY <1>1 DEF WorkersGo, Others, Noted
<1>9. \A v \in Workers : Doing(v)'
  BY <1>1, <1>4, <1>5, DoingKept, DoneResting DEF Others
<1>10. Waited'
  <2> SUFFICES ASSUME NEW r \in requests', r[2] # None PROVE Waits(r)'
    BY DEF Waited
  <2>1. r \in requests /\ r[2] # w
    BY <1>2
  <2>2. Waits(r) /\ r[2] \in Workers
    BY <1>1, <2>1 DEF BaseInv, Waited, TypeOK, Workers
  <2> QED BY <1>1, <2>1, <2>2 DEF Others, Like, Waits, At, Who
<1> QED BY <1>3, <1>4, <1>5, <1>6, <1>7, <1>8, <1>9, <1>10 DEF Fine, Goes

LEMMA RearmFine == ASSUME BaseInv, NEW o \in Operators, Rearm(o) PROVE Fine
<1>1. o \in Workers /\ At(o, "rearm") /\ ~ At(o, "await") /\ Rest(o) /\ Who(o) \in Payouts
  BY Base DEF Workers, Rearm, At, Doing
<1>2. UNCHANGED <<ledger, frozen, netted, recorded, stripe>> /\ worker[o].gen < MaxGeneration
  BY DEF Rearm
<1>3. CASE Ours(o, {"reconcile_required"})
  <2> PICK p : p = Who(o)
    OBVIOUS
  <2>1. /\ state' = [state EXCEPT ![p] = "intent"] /\ payout' = [payout EXCEPT ![p] = "pending"]
        /\ generation' = [generation EXCEPT ![p] = @ + 1] /\ postedAt' = [postedAt EXCEPT ![p] = "null"]
    BY <1>3 DEF Rearm
  <2>2. /\ TypeOK /\ p \in Payouts /\ state[p] = "reconcile_required" /\ worker[o].gen = generation[p]
    BY <1>1, <1>3, Base DEF Ours
  <2>3. generation[p] + 1 \in Generations
    BY <1>2, <2>2, DirectAssumption DEF TypeOK, Generations
  <2>4. /\ state' \in [Payouts -> States] /\ payout' \in [Payouts -> {"pending", "paid", "failed"}]
        /\ generation' \in [Payouts -> Generations] /\ postedAt' \in [Payouts -> Ages]
    BY <2>1, <2>2, <2>3 DEF TypeOK, States, Open, Ages
  <2>5. /\ state'[p] = "intent" /\ generation'[p] = generation[p] + 1
        /\ \A q \in Payouts : q # p => /\ state'[q] = state[q] /\ payout'[q] = payout[q]
                                       /\ generation'[q] = generation[q] /\ postedAt'[q] = postedAt[q]
    BY <2>1, <2>2 DEF TypeOK
  <2>6. LedgerGoes
    <3>1. Advances(p)
      BY <1>2, <2>2, <2>5 DEF Advances, Alone, Ways
    <3> QED BY <2>2, <3>1 DEF LedgerGoes
  <2>7. Typed /\ Others(o) /\ worker'[o].pc = "idle" /\ worker'[o].xfer = None
    BY <1>1, <2>2, Rested
  <2>8. TypeOK'
    BY <1>2, <2>2, <2>4, <2>7 DEF TypeOK, Typed, stripe, ledger
  <2>9. EpochsGo
    <3>1. Rearmed(p)
      BY <1>1, <1>2, <2>2, <2>5 DEF Rearmed
    <3> QED BY <2>5, <3>1 DEF EpochsGo
  <2>10. TransfersGo /\ BackGoes /\ KeptGoes /\ RequestsGo
    BY <1>2 DEF TransfersGo, BackGoes, KeptGoes, RequestsGo, stripe
  <2>11. EventsGo
    BY <1>2 DEF EventsGo, stripe
  <2>12. WorkersGo
    BY <2>7 DEF WorkersGo, Others, Noted
  <2>13. \A v \in Workers : Doing(v)'
    BY <2>6, <2>7, <2>9, <2>10, DoingKept, DoneResting DEF Others
  <2>14. Waited'
    <3>1. \A r \in requests : r[2] # None => r[2] \in Workers /\ r[2] # o
      BY <1>1, <2>2 DEF BaseInv, TypeOK, Waited, Waits, Workers
    <3> QED BY <1>2, <2>7, <3>1, WaitedKept DEF Others, stripe
  <2> QED BY <2>6, <2>8, <2>9, <2>10, <2>11, <2>12, <2>13, <2>14 DEF Fine, Goes
<1>4. CASE ~ Ours(o, {"reconcile_required"})
  BY <1>1, <1>2, <1>4, RestFine DEF Rearm, intents
<1> QED BY <1>3, <1>4

LEMMA PostAmbiguousFine == ASSUME BaseInv, NEW w \in Executors, PostAmbiguous(w) PROVE Fine
BY ForsakeFine DEF PostAmbiguous, Workers

LEMMA CrashFine == ASSUME BaseInv, NEW w \in Workers, Crash(w) PROVE Fine
BY ForsakeFine DEF Crash

-----------------------------------------------------------------------------
(* Those of Stripe and of time, which move no process of their own.           *)

LEMMA NobodyFine ==
  ASSUME BaseInv, TypeOK', LedgerGoes, EpochsGo, TransfersGo, BackGoes, EventsGo, KeptGoes,
         requests' \subseteq requests, \A v \in Workers : Like(v)
  PROVE  Fine
<1>1. RequestsGo /\ WorkersGo
  BY DEF RequestsGo, WorkersGo
<1>2. \A v \in Workers : Doing(v)'
  BY DoingKept
<1>3. Waited'
  <2>1. \A r \in requests : r[2] # None => r[2] \in Workers
    BY DEF BaseInv, TypeOK, Workers
  <2> QED BY <2>1, WaitedKept
<1> QED BY <1>1, <1>2, <1>3 DEF Fine, Goes

LEMMA Makeable ==
  ASSUME NEW p, Unmade(p) # {}
  PROVE  NextTransfer(p) \in Transfers /\ NextTransfer(p) \notin made /\ NextTransfer(p)[1] = p
BY DEF NextTransfer, Unmade

LEMMA OutsideTransferFine == ASSUME BaseInv, NEW p \in Payouts, OutsideTransfer(p) PROVE Fine
<1> PICK t : t = NextTransfer(p)
  OBVIOUS
<1>1. /\ made' = made \cup {t} /\ foreign' = foreign \cup {t} /\ t \in Transfers /\ t \notin made
      /\ UNCHANGED <<ledger, intents, stamped, back, kept, requests, events, worker>>
  BY Makeable DEF OutsideTransfer
<1>2. TypeOK /\ TypeOK'
  BY <1>1 DEF BaseInv, TypeOK, ledger, intents
<1>3. LedgerGoes /\ EpochsGo /\ BackGoes /\ KeptGoes
  BY <1>1 DEF LedgerGoes, Still, EpochsGo, BackGoes, KeptGoes, intents
<1>4. TransfersGo
  BY <1>1, <1>2 DEF TransfersGo, TypeOK, OutsideTransfer
<1>5. EventsGo
  BY <1>1 DEF EventsGo
<1> QED BY <1>1, <1>2, <1>3, <1>4, <1>5, NobodyFine DEF Like

LEMMA DropFine == ASSUME BaseInv, NEW r \in requests, Drop(r) PROVE Fine
<1>1. /\ UNCHANGED <<ledger, intents, made, stamped, foreign, back, kept, events, worker>>
      /\ requests' = requests \ {r}
  BY DEF Drop
<1>2. TypeOK'
  BY <1>1 DEF BaseInv, TypeOK, ledger, intents
<1>3. LedgerGoes /\ EpochsGo /\ TransfersGo /\ BackGoes /\ KeptGoes
  BY <1>1 DEF LedgerGoes, Still, EpochsGo, TransfersGo, BackGoes, KeptGoes, intents
<1>4. EventsGo
  BY <1>1 DEF EventsGo
<1> QED BY <1>1, <1>2, <1>3, <1>4, NobodyFine DEF Like

LEMMA EditFine == ASSUME BaseInv, NEW t \in made, Edit(t) PROVE Fine
<1>1. /\ UNCHANGED <<ledger, intents, made, stamped, foreign, back, kept, requests, worker>>
      /\ events' = events \cup {<<t, "none">>}
  BY DEF Edit
<1>2. TypeOK /\ TypeOK'
  <2>1. <<t, "none">> \in Transfers \X Returned
    BY DEF BaseInv, TypeOK, Returned
  <2> QED BY <1>1, <2>1 DEF BaseInv, TypeOK, ledger, intents
<1>3. LedgerGoes /\ EpochsGo /\ TransfersGo /\ BackGoes /\ KeptGoes
  BY <1>1 DEF LedgerGoes, Still, EpochsGo, TransfersGo, BackGoes, KeptGoes, intents
<1>4. EventsGo
  BY <1>1 DEF EventsGo
<1> QED BY <1>1, <1>2, <1>3, <1>4, NobodyFine DEF Like

LEMMA StripeReversesFine ==
  ASSUME BaseInv, NEW t \in made, NEW b \in Returned, StripeReverses(t, b) PROVE Fine
<1>1. /\ UNCHANGED <<ledger, intents, made, stamped, foreign, kept, requests, worker>>
      /\ events' = events \cup {<<t, b>>} /\ back' = [back EXCEPT ![t] = b] /\ b # "none" /\ ~ Gone(t)
  BY DEF StripeReverses
<1>2. TypeOK /\ TypeOK' /\ t \in Transfers
  <2>1. <<t, b>> \in Transfers \X Returned
    BY DEF BaseInv, TypeOK
  <2> QED BY <1>1, <2>1 DEF BaseInv, TypeOK, ledger, intents
<1>3. LedgerGoes /\ EpochsGo /\ TransfersGo /\ KeptGoes
  BY <1>1 DEF LedgerGoes, Still, EpochsGo, TransfersGo, KeptGoes, intents
<1>4. back'[t] = b /\ \A s \in Transfers : s # t => back'[s] = back[s]
  BY <1>1, <1>2 DEF TypeOK
<1>5. EventsGo
  BY <1>1, <1>4 DEF EventsGo
<1>6. BackGoes
  BY <1>1, <1>4 DEF BackGoes
<1> QED BY <1>1, <1>2, <1>3, <1>5, <1>6, NobodyFine DEF Like

LEMMA WindowPassesFine == ASSUME BaseInv, NEW p \in Payouts, WindowPasses(p) PROVE Fine
<1>1. /\ UNCHANGED <<ledger, state, payout, generation, frozen, netted, recorded, stripe, worker>>
      /\ postedAt[p] = "fresh" /\ postedAt' = [postedAt EXCEPT ![p] = "old"]
  BY DEF WindowPasses
<1>2. TypeOK /\ TypeOK'
  BY <1>1 DEF BaseInv, TypeOK, ledger, stripe, Ages
<1>3. LedgerGoes /\ TransfersGo /\ BackGoes /\ KeptGoes
  BY <1>1 DEF LedgerGoes, Still, TransfersGo, BackGoes, KeptGoes, stripe
<1>4. EventsGo
  BY <1>1 DEF EventsGo, stripe
<1>5. EpochsGo
  <2>1. \A q \in Payouts : postedAt'[q] = postedAt[q] \/ postedAt'[q] = "old"
    BY <1>1, <1>2 DEF TypeOK
  <2> QED BY <1>1, <2>1 DEF EpochsGo
<1> QED BY <1>1, <1>2, <1>3, <1>4, <1>5, NobodyFine DEF Like, stripe

LEMMA KeyPrunedFine == ASSUME BaseInv, NEW k \in Keys, KeyPruned(k) PROVE Fine
<1>1. /\ UNCHANGED <<ledger, intents, made, stamped, foreign, back, requests, events, worker>>
      /\ kept' = [kept EXCEPT ![k] = None]
  BY DEF KeyPruned
<1>2. TypeOK /\ TypeOK'
  BY <1>1 DEF BaseInv, TypeOK, ledger, intents
<1>3. LedgerGoes /\ EpochsGo /\ TransfersGo /\ BackGoes
  BY <1>1 DEF LedgerGoes, Still, EpochsGo, TransfersGo, BackGoes, intents
<1>4. EventsGo
  BY <1>1 DEF EventsGo
<1>5. KeptGoes
  <2>1. kept'[k] = None /\ \A l \in Keys : l # k => kept'[l] = kept[l]
    BY <1>1, <1>2 DEF TypeOK
  <2>2. kept'[k] = None => Pruned(k)
    BY <1>1 DEF KeyPruned, Pruned
  <2> QED BY <2>1, <2>2 DEF KeptGoes
<1> QED BY <1>1, <1>2, <1>3, <1>4, <1>5, NobodyFine DEF Like

\* An answer reaches the process that waits for it, and nobody else.
LEMMA AnswerFine ==
  ASSUME BaseInv, NEW r \in requests, NEW x \in Hands, x # None, Answer(r, x),
         UNCHANGED <<ledger, intents, back, events>>,
         made' \in SUBSET Transfers, foreign' \in SUBSET made', stamped' \in [Transfers -> Generations],
         kept' \in [Keys -> Transfers \cup {None, Refused}], TransfersGo, KeptGoes,
         x \in Transfers => x \in made' \ foreign' /\ x[1] = r[1][1],
         x = Refused => kept'[r[1]] = Refused \/ DoorRefusals
  PROVE  Fine
<1>1. requests' = requests \ {r} /\ TypeOK
  BY DEF Answer, BaseInv
<1>2. LedgerGoes /\ EpochsGo /\ BackGoes
  BY DEF LedgerGoes, Still, EpochsGo, BackGoes, intents
<1>3. EventsGo
  <2>1. \A e \in events : e \in events' BY DEF EventsGo
  <2> QED BY <2>1 DEF EventsGo
<1>4. CASE r[2] = None
  <2>1. UNCHANGED worker
    BY <1>4 DEF Answer
  <2>2. TypeOK'
    BY <1>1, <2>1 DEF TypeOK, ledger, intents
  <2> QED BY <1>1, <1>2, <1>3, <2>1, <2>2, NobodyFine DEF Like
<1>5. CASE r[2] # None
  <2> PICK v, f : v = r[2] /\ f = worker
    OBVIOUS
  <2> DEFINE k == [f[v] EXCEPT !.xfer = x]
  <2> HIDE DEF Labels, Hands, Rows
  <2>1. v \in Executors /\ v \in Workers /\ Waits(r) /\ v \notin Operators
    BY <1>1, <1>5, DirectAssumption DEF TypeOK, Workers, BaseInv, Waited
  <2>2. f[v] \in [pc : Labels, who : Rows, gen : Generations, xfer : Hands, cur : BOOLEAN]
    BY <1>1, <2>1, Records
  <2>3. /\ k \in [pc : Labels, who : Rows, gen : Generations, xfer : Hands, cur : BOOLEAN]
        /\ k.pc = f[v].pc /\ k.xfer = x /\ k.who = f[v].who /\ k.gen = f[v].gen /\ k.cur = f[v].cur
    BY <2>2
  <2>4. worker' = [f EXCEPT ![v] = k]
    BY <1>5 DEF Answer
  <2> HIDE DEF k
  <2>5. f \in [Workers -> Processes] /\ k \in Processes
    BY <1>1, <2>3, Records
  <2> HIDE DEF Processes
  <2>6. /\ Typed /\ Others(v) /\ worker'[v].pc = worker[v].pc /\ worker'[v].xfer = x
        /\ worker'[v].who = worker[v].who /\ worker'[v].gen = worker[v].gen
    BY <2>1, <2>3, <2>4, <2>5 DEF Typed, Others, Like
  <2>7. worker[v].pc = "await" /\ Who(v) = r[1][1] /\ worker[v].gen = r[1][2]
    BY <2>1 DEF Waits, At
  <2>8. r[1] \in Keys /\ r[1] = <<r[1][1], r[1][2]>> /\ \A s \in requests : s[1] = <<s[1][1], s[1][2]>> /\ s = <<s[1], s[2]>>
    BY <1>1 DEF TypeOK, Keys
  <2>9. TypeOK'
    BY <1>1, <2>6 DEF TypeOK, Typed, ledger, intents
  <2>10. WorkersGo
    <3>1. Answered(v)
      BY <2>6, <2>7, <2>8 DEF Answered, At, Who
    <3> QED BY <2>6, <3>1 DEF WorkersGo, Others
  <2>11. \A w \in Workers : Doing(w)'
    <3>1. Doing(v) /\ state' = state /\ generation' = generation
      BY <2>1 DEF BaseInv, intents
    <3>2. Doing(v)'
      BY <2>1, <2>6, <2>7, <3>1 DEF Doing, At, Who, Hands, ExecutorLabels
    <3> QED BY <1>2, <2>6, <3>2, DoingKept DEF Others
  <2>12. Waited'
    <3> SUFFICES ASSUME NEW s \in requests', s[2] # None PROVE Waits(s)'
      BY DEF Waited
    <3>1. s \in requests /\ s # r /\ s[2] \in Workers /\ Waits(s)
      BY <1>1 DEF BaseInv, Waited, TypeOK, Workers
    <3>2. s[2] # v
      BY <2>1, <2>8, <3>1 DEF Waits
    <3> QED BY <2>6, <3>1, <3>2 DEF Others, Like, Waits, At, Who
  <2>13. RequestsGo
    BY <1>1 DEF RequestsGo
  <2> QED BY <1>2, <1>3, <2>9, <2>10, <2>11, <2>12, <2>13 DEF Fine, Goes
<1> QED BY <1>4, <1>5

LEMMA StripeReplaysFine == ASSUME BaseInv, NEW r \in requests, StripeReplays(r) PROVE Fine
<1>1. /\ kept[r[1]] # None /\ Answer(r, kept[r[1]]) /\ TypeOK /\ r[1] \in Keys /\ KeptTrue
      /\ UNCHANGED <<ledger, intents, made, stamped, foreign, back, kept, events>>
  BY DEF StripeReplays, BaseInv, TypeOK
<1>2. PICK x : x = kept[r[1]]
  OBVIOUS
<1>3. x \in Hands /\ x # None /\ Answer(r, x) /\ (x \in Transfers => x \in made' \ foreign' /\ x[1] = r[1][1])
  BY <1>1, <1>2 DEF TypeOK, Hands, KeptTrue
<1>4. TransfersGo /\ KeptGoes /\ UNCHANGED <<ledger, intents, back, events>>
  BY <1>1 DEF TransfersGo, KeptGoes
<1>5. /\ made' \in SUBSET Transfers /\ foreign' \in SUBSET made' /\ stamped' \in [Transfers -> Generations]
      /\ kept' \in [Keys -> Transfers \cup {None, Refused}]
  BY <1>1 DEF TypeOK
<1>6. x = Refused => kept'[r[1]] = Refused \/ DoorRefusals
  BY <1>1, <1>2
<1> QED BY <1>3, <1>4, <1>5, <1>6, AnswerFine

LEMMA StripeTransfersFine == ASSUME BaseInv, NEW r \in requests, StripeTransfers(r) PROVE Fine
<1>1. TypeOK /\ r[1] \in Keys /\ r[1][1] \in Payouts /\ r[1][2] \in Generations
  BY DEF BaseInv, TypeOK, Keys
<1>2. PICK t : t = NextTransfer(r[1][1])
  OBVIOUS
<1>3. /\ kept[r[1]] = None /\ made' = made \cup {t} /\ stamped' = [stamped EXCEPT ![t] = r[1][2]]
      /\ kept' = [kept EXCEPT ![r[1]] = t] /\ Answer(r, t)
      /\ UNCHANGED <<ledger, intents, foreign, back, events>>
      /\ t \in Transfers /\ t \notin made /\ t[1] = r[1][1]
  BY <1>2, Makeable DEF StripeTransfers
<1>4. /\ made' \in SUBSET Transfers /\ foreign' \in SUBSET made' /\ stamped' \in [Transfers -> Generations]
      /\ kept' \in [Keys -> Transfers \cup {None, Refused}] /\ t \in Hands /\ t # None
      /\ t \in made' \ foreign' /\ t # Refused
  BY <1>1, <1>3, DirectAssumption DEF TypeOK, Hands
<1>5. /\ kept'[r[1]] = t /\ stamped'[t] = r[1][2]
      /\ \A k \in Keys : k # r[1] => kept'[k] = kept[k]
      /\ \A s \in Transfers : s # t => stamped'[s] = stamped[s]
  BY <1>1, <1>3 DEF TypeOK
<1>6. TransfersGo
  <2>1. Makes(t)
    BY <1>3, <1>5 DEF Makes
  <2> QED BY <1>1, <1>3, <1>5, <2>1 DEF TransfersGo, TypeOK
<1>7. KeptGoes
  <2>1. Answers(r[1])
    BY <1>3, <1>4, <1>5 DEF Answers
  <2> QED BY <1>5, <2>1 DEF KeptGoes
<1> QED BY <1>3, <1>4, <1>6, <1>7, AnswerFine

LEMMA StripeRefusesFine == ASSUME BaseInv, NEW r \in requests, StripeRefuses(r) PROVE Fine
<1>1. TypeOK /\ r[1] \in Keys /\ Refused \in Hands /\ Refused # None /\ Refused \notin Transfers
  BY DirectAssumption DEF BaseInv, TypeOK, Hands
<1>2. /\ \/ kept[r[1]] = None /\ kept' = [kept EXCEPT ![r[1]] = Refused]
         \/ DoorRefusals /\ UNCHANGED kept
      /\ Answer(r, Refused)
      /\ UNCHANGED <<ledger, intents, made, stamped, foreign, back, events>>
  BY DEF StripeRefuses
<1>3. /\ made' \in SUBSET Transfers /\ foreign' \in SUBSET made' /\ stamped' \in [Transfers -> Generations]
      /\ kept' \in [Keys -> Transfers \cup {None, Refused}]
  BY <1>1, <1>2 DEF TypeOK
<1>4. kept'[r[1]] = Refused \/ DoorRefusals
  BY <1>1, <1>2 DEF TypeOK
<1>5. TransfersGo
  BY <1>2 DEF TransfersGo
<1>6. KeptGoes
  <2>1. CASE UNCHANGED kept
    BY <2>1 DEF KeptGoes
  <2>2. CASE kept[r[1]] = None /\ kept' = [kept EXCEPT ![r[1]] = Refused]
    <3>1. kept'[r[1]] = Refused /\ \A k \in Keys : k # r[1] => kept'[k] = kept[k]
      BY <1>1, <2>2 DEF TypeOK
    <3>2. Answers(r[1])
      BY <1>2, <2>2, <3>1 DEF Answers
    <3> QED BY <3>1, <3>2 DEF KeptGoes
  <2> QED BY <1>2, <2>1, <2>2
<1> QED BY <1>1, <1>2, <1>3, <1>4, <1>5, <1>6, AnswerFine

LEMMA HookFine == ASSUME BaseInv, NEW e \in events, Hook(e) PROVE Fine
<1> PICK t, b, p : t = e[1] /\ b = e[2] /\ p = t[1]
  OBVIOUS
<1>1. TypeOK /\ worker \in [Workers -> Processes]
  BY Base
<1>2. t \in Transfers /\ t \in made /\ p \in Payouts /\ b \in Returned /\ (b = "full" => Gone(t)) /\ e = <<t, b>>
  BY <1>1 DEF TypeOK, BaseInv, EventsTrue, Transfers
<1>3. UNCHANGED <<ledger, generation, postedAt, frozen, netted, made, stamped, foreign, back, kept, requests>>
  BY DEF Hook
<1>4. /\ worker' \in [Workers -> Processes] /\ \A v \in Workers : Like(v)
      /\ recorded[p] # t /\ b # "none" /\ state[p] = "duplicate_review" =>
           \A o \in Operators : Who(o) = p => ~ worker'[o].cur
  <2>1. CASE recorded[p] # t /\ b # "none" /\ state[p] = "duplicate_review"
    <3> PICK V : V = worker
      OBVIOUS
    <3>1. worker' = Outdate(Operators, p, V) /\ V \in [Workers -> Processes] /\ Operators \in SUBSET Workers
      BY <1>1, <2>1 DEF Hook, Workers
    <3> QED BY <3>1, OutdateIs DEF Like, Who
  <2>2. CASE ~ (recorded[p] # t /\ b # "none" /\ state[p] = "duplicate_review")
    BY <1>1, <2>2 DEF Hook, Like
  <2> QED BY <2>1, <2>2
<1>5. /\ state' \in [Payouts -> States] /\ payout' \in [Payouts -> {"pending", "paid", "failed"}]
      /\ recorded' \in [Payouts -> Transfers \cup {None}] /\ LedgerGoes
      /\ recorded[p] = t /\ b = "full" => payout'[p] = "failed"
      /\ recorded[p] # t /\ BeforeFinalize(p, t, b) => state'[p] = "confirmed"
  <2>1. CASE recorded[p] = t
    <3>1. HookRecorded(p, b) /\ UNCHANGED <<state, recorded>>
      BY <2>1 DEF Hook
    <3>2. \A q \in Payouts : q # p => payout'[q] = payout[q]
      BY <1>1, <3>1 DEF HookRecorded, TypeOK
    <3>3. recorded[p] # None /\ Alone(p)
      BY <1>2, <2>1, <3>1, <3>2, DirectAssumption DEF Alone
    <3>4. CASE b = "part"
      <4>1. payout' = payout
        BY <1>1, <3>1, <3>4 DEF HookRecorded, TypeOK
      <4> QED BY <1>1, <1>3, <2>1, <3>1, <3>4, <4>1 DEF LedgerGoes, Still, TypeOK
    <3>5. CASE b # "part"
      <4>1. payout' = [payout EXCEPT ![p] = IF b = "full" THEN "failed" ELSE "paid"]
        BY <1>2, <3>1, <3>5 DEF HookRecorded, Returned
      <4>2. /\ payout' \in [Payouts -> {"pending", "paid", "failed"}]
            /\ payout'[p] = IF b = "full" THEN "failed" ELSE "paid"
        BY <1>1, <1>2, <4>1 DEF TypeOK
      <4>3. b = "none" => StaleUpdates \/ Whole(t)
        BY DEF Hook
      <4>4. Hears(p)
        BY <1>2, <1>3, <2>1, <3>1, <3>3, <3>5, <4>2, <4>3 DEF Hears, Returned
      <4> QED BY <1>1, <1>2, <2>1, <3>1, <4>2, <4>4 DEF LedgerGoes, TypeOK
    <3> QED BY <3>4, <3>5
  <2>2. CASE recorded[p] # t /\ BeforeFinalize(p, t, b)
    <3>1. Fails(p, t)
      BY <2>2 DEF Hook
    <3>2. /\ state' = [state EXCEPT ![p] = "confirmed"] /\ payout' = [payout EXCEPT ![p] = "failed"]
          /\ recorded' = [recorded EXCEPT ![p] = t]
      BY <3>1 DEF Fails
    <3>3. /\ state'[p] = "confirmed" /\ payout'[p] = "failed" /\ recorded'[p] = t /\ Alone(p)
          /\ state' \in [Payouts -> States] /\ payout' \in [Payouts -> {"pending", "paid", "failed"}]
          /\ recorded' \in [Payouts -> Transfers \cup {None}]
      BY <1>1, <1>2, <3>2 DEF TypeOK, Alone, States
    <3>4. b = "full" /\ state[p] \in {"posted", "reconcile_required"} /\ ~ Whole(t)
      BY <1>2, <2>2 DEF BeforeFinalize, Whole, Gone
    <3>5. FallsBack(p)
      <4>1. ~ Whole(recorded'[p])
        BY <3>3, <3>4
      <4> QED BY <1>2, <1>3, <3>3, <3>4, <4>1 DEF FallsBack
    <3> QED BY <1>2, <2>2, <3>3, <3>5 DEF LedgerGoes
  <2>3. CASE recorded[p] # t /\ ~ BeforeFinalize(p, t, b)
    <3>1. UNCHANGED <<state, payout, recorded>>
      BY <2>3 DEF Hook
    <3> QED BY <1>1, <1>3, <2>3, <3>1 DEF LedgerGoes, Still, TypeOK
  <2> QED BY <2>1, <2>2, <2>3
<1>6. events' \in {events, events \ {e}}
  BY DEF Hook
<1>7. TypeOK'
  BY <1>1, <1>3, <1>4, <1>5, <1>6 DEF TypeOK, ledger
<1>8. EpochsGo
  <2>1. \A q \in Payouts : ~ (state[q] = "reconcile_required" /\ state'[q] = "intent")
    BY <1>3 DEF Hook, HookRecorded, Fails, TypeOK, BaseInv
  <2> QED BY <1>3, <2>1 DEF EpochsGo
<1>9. TransfersGo /\ BackGoes /\ KeptGoes
  BY <1>3 DEF TransfersGo, BackGoes, KeptGoes
<1>10. EventsGo
  <2>1. \A s \in Transfers : <<s, "full">> \in events /\ <<s, "full">> \notin events' => s = t /\ b = "full"
    BY <1>2, <1>6
  <2>2. b = "full" => Heard(t)
    BY <1>4, <1>5 DEF Heard
  <2> QED BY <1>6, <2>1, <2>2 DEF EventsGo
<1> QED BY <1>3, <1>4, <1>5, <1>7, <1>8, <1>9, <1>10, NobodyFine

-----------------------------------------------------------------------------
(* So every step is fine, and keeps what it relied on.                        *)

LEMMA NextFine == ASSUME BaseInv, Next PROVE Fine
<1>1. CASE \E w \in Executors : Execute(w)
  BY <1>1, TakeFine, PreflightFine, CancelIntentFine, FirstPostFine, RetryPostFine, ExpireFine, FailIntentFine,
     PostAmbiguousFine, PostReturnsFine, RetrieveFine, RecordFine, RecordBackFine, ListNothingFine, ListFoundFine,
     ParkFine DEF Execute
<1>2. CASE \E o \in Operators : Operate(o)
  BY <1>2, OperatorReadsFine, RearmListFine, RearmFine, DisposeListFine, DisposeFine, ResolveListFine, KeepFine,
     CloseReversedFine DEF Operate
<1>3. CASE \E w \in Workers : CannotVerify(w) \/ Crash(w)
  BY <1>3, CannotVerifyFine, CrashFine
<1>4. CASE Business
  BY <1>4, PlanFine, PlanManualFine, OutsideTransferFine, ApproveFine, RefundFine DEF Business
<1>5. CASE Outside
  BY <1>5, StripeReplaysFine, StripeTransfersFine, StripeRefusesFine, DropFine, EditFine, StripeReversesFine,
     HookFine, WindowPassesFine, KeyPrunedFine DEF Outside
<1> QED BY <1>1, <1>2, <1>3, <1>4, <1>5 DEF Next

LEMMA StepFine == ASSUME BaseInv, [Next]_vars PROVE Fine
<1>1. CASE UNCHANGED vars
  <2>1. UNCHANGED <<ledger, intents, stripe, worker>>
    BY <1>1 DEF vars
  <2>2. TypeOK'
    BY <2>1 DEF BaseInv, TypeOK, ledger, intents, stripe
  <2>3. LedgerGoes /\ EpochsGo /\ TransfersGo /\ BackGoes /\ KeptGoes
    BY <2>1 DEF LedgerGoes, Still, EpochsGo, TransfersGo, BackGoes, KeptGoes, ledger, intents, stripe
  <2>4. EventsGo
    BY <2>1 DEF EventsGo, stripe
  <2> QED BY <2>1, <2>2, <2>3, <2>4, NobodyFine DEF Like, stripe
<1> QED BY <1>1, NextFine

\* What was reversed stays so; what is the payout's own, or recorded, stays so.
LEMMA Lasting ==
  ASSUME BaseInv, Fine
  PROVE  /\ \A t \in Transfers : (~ Whole(t) => ~ Whole(t)') /\ (Gone(t) => Gone(t)')
         /\ \A t \in made \ foreign : t \in made' \ foreign'
         /\ made \in SUBSET Transfers /\ made \subseteq made'
BY DEF Fine, Goes, TransfersGo, BackGoes, Whole, Gone, BaseInv, TypeOK

\* A row changes only as one of the steps of LedgerGoes changes it.
LEMMA RowGoes ==
  ASSUME LedgerGoes, NEW p \in Payouts
  PROVE  \/ state'[p] = state[p] /\ payout'[p] = payout[p] /\ recorded'[p] = recorded[p]
         \/ Opens(p) \/ Advances(p) \/ Abandons(p) \/ PaysOf(p) \/ FallsBack(p) \/ Hears(p)
<1>1. CASE Still
  BY <1>1 DEF Still
<1>2. CASE \E c \in Lines : Approve(c) \/ \E n \in 1..Worth : Refund(c, n)
  BY <1>2 DEF Approve, Refund, intents
<1>3. ASSUME NEW q \in Payouts, q # p,
             Opens(q) \/ Advances(q) \/ Abandons(q) \/ PaysOf(q) \/ FallsBack(q) \/ Hears(q)
      PROVE  state'[p] = state[p] /\ payout'[p] = payout[p] /\ recorded'[p] = recorded[p]
  <2>1. Alone(q)
    BY <1>3 DEF Opens, Advances, Abandons, PaysOf, FallsBack, Hears
  <2> QED BY <1>3, <2>1 DEF Alone
<1> QED BY <1>1, <1>2, <1>3 DEF LedgerGoes

LEMMA RecordedTrueKept == ASSUME BaseInv, Fine PROVE RecordedTrue'
<1> SUFFICES ASSUME NEW p \in Payouts
    PROVE /\ recorded'[p] # None => state'[p] \in {"confirmed", "canceled"} /\ recorded'[p] \in made' /\ recorded'[p][1] = p
          /\ state'[p] = "confirmed" => recorded'[p] # None /\ payout'[p] \in {"paid", "failed"}
          /\ state'[p] = "confirmed" /\ payout'[p] = "failed" => back'[recorded'[p]] # "none"
  BY DEF RecordedTrue, Whole
<1>1. /\ recorded[p] # None => state[p] \in {"confirmed", "canceled"} /\ recorded[p] \in made /\ recorded[p][1] = p
      /\ state[p] = "confirmed" => recorded[p] # None /\ payout[p] \in {"paid", "failed"}
      /\ state[p] = "confirmed" /\ payout[p] = "failed" => ~ Whole(recorded[p])
      /\ None \notin Transfers
  BY DirectAssumption DEF BaseInv, RecordedTrue
<1>2. CASE state'[p] = state[p] /\ payout'[p] = payout[p] /\ recorded'[p] = recorded[p]
  BY <1>1, <1>2, Lasting DEF Whole
<1>3. CASE ~ (state'[p] = state[p] /\ payout'[p] = payout[p] /\ recorded'[p] = recorded[p])
  <2>1. Opens(p) \/ Advances(p) \/ Abandons(p) \/ PaysOf(p) \/ FallsBack(p) \/ Hears(p)
    BY <1>3, RowGoes DEF Fine, Goes
  <2>2. CASE Opens(p)
    BY <1>1, <2>2 DEF Opens, Freezes
  <2>3. CASE Advances(p)
    BY <1>1, <2>3 DEF Advances, Ways
  <2>4. CASE Abandons(p)
    BY <1>1, <2>4, Lasting DEF Abandons
  <2>5. CASE PaysOf(p)
    BY <1>1, <2>5, Lasting DEF PaysOf
  <2>6. CASE FallsBack(p)
    BY <1>1, <2>6, Lasting DEF FallsBack, Whole
  <2>7. CASE Hears(p)
    <3>1. Gone(recorded[p]) => ~ Whole(recorded[p])
      BY DEF Gone, Whole
    <3> QED BY <1>1, <2>7, <3>1, Lasting DEF Hears, Whole
  <2> QED BY <2>1, <2>2, <2>3, <2>4, <2>5, <2>6, <2>7
<1> QED BY <1>2, <1>3

LEMMA BaseKept == ASSUME BaseInv, [Next]_vars PROVE BaseInv'
<1>1. Fine
  BY StepFine
<1>2. TypeOK' /\ Waited' /\ \A w \in Workers : Doing(w)'
  BY <1>1 DEF Fine
<1>3. KeptTrue'
  <2> SUFFICES ASSUME NEW k \in Keys, kept'[k] \in Transfers
               PROVE  kept'[k] \in made' \ foreign' /\ kept'[k][1] = k[1]
    BY DEF KeptTrue
  <2>1. CASE kept'[k] = kept[k]
    BY <1>1, <2>1, Lasting DEF BaseInv, KeptTrue
  <2>2. CASE kept'[k] # kept[k]
    BY <1>1, <2>2, DirectAssumption DEF Fine, Goes, KeptGoes, Pruned, Answers
  <2> QED BY <2>1, <2>2
<1>4. EventsTrue'
  <2> SUFFICES ASSUME NEW e \in events' PROVE e[1] \in made' /\ (e[2] = "full" => back'[e[1]] = "full")
    BY DEF EventsTrue, Gone
  <2>1. CASE e \in events
    BY <1>1, <2>1, Lasting DEF BaseInv, EventsTrue, Gone
  <2>2. CASE e \notin events
    BY <1>1, <2>2, Lasting DEF Fine, Goes, EventsGo
  <2> QED BY <2>1, <2>2
<1>5. RecordedTrue'
  BY <1>1, RecordedTrueKept
<1> QED BY <1>2, <1>3, <1>4, <1>5 DEF BaseInv

LEMMA BaseInit == Init => BaseInv
<1> SUFFICES ASSUME Init PROVE BaseInv
  OBVIOUS
<1> USE DirectAssumption
<1>1. Resting \in Processes /\ Resting.pc = "idle" /\ Resting.xfer = None
  BY DEF Resting, Processes, Labels, Generations
<1>2. TypeOK
  <2> HIDE DEF Resting, Processes
  <2> QED BY <1>1 DEF Init, TypeOK, States, Open, Ages, Generations, Returned
<1>3. Waited /\ EventsTrue
  BY DEF Init, Waited, EventsTrue
<1>4. KeptTrue
  BY DEF Init, KeptTrue
<1>5. RecordedTrue
  BY DEF Init, RecordedTrue
<1>6. ASSUME NEW w \in Workers PROVE Doing(w)
  BY <1>1 DEF Init, Doing, At, ExecutorLabels, OperatorLabels, Workers
<1> QED BY <1>2, <1>3, <1>4, <1>5, <1>6 DEF BaseInv

LEMMA Always == Spec => []BaseInv
<1>1. BaseInv /\ [Next]_vars => BaseInv'
  BY BaseKept
<1> QED BY <1>1, BaseInit, PTL DEF Spec

\* The rail's variables keep the shapes of TypeOK, whatever Stripe, the
\* operators, refunds and other users of the transfer groups do.
THEOREM DirectTypes == Spec => []TypeOK
<1>1. BaseInv => TypeOK
  BY DEF BaseInv
<1> QED BY <1>1, Always, PTL

-----------------------------------------------------------------------------
(* The books.                                                                 *)

\* What is claimed is payable or paid, and by a payout that was planned.
Planned ==
  /\ \A c \in Lines : claim[c] # None => status[c] \in {"approved", "paid"} /\ state[claim[c]] # "none"
  /\ \A u \in Units : clawback[u] \in Payouts => state[clawback[u]] # "none"

\* What a payout that paid claims is paid, unless a stale transfer.updated may
\* have made it say so.
HasPaid(p) == (state[p] = "confirmed" /\ payout[p] = "paid") \/ state[p] = "manual"
PaidUp == ~ StaleUpdates => \A p \in Payouts : HasPaid(p) => \A c \in Claimed(p) : status[c] = "paid"

Balanced(p) ==
  /\ ~ StaleUpdates /\ Lives(p) => UnitsOf(Claimed(p)) = frozen[p] /\ Applied(p) = netted[p]
  /\ state[p] = "canceled" => Applied(p) = {} /\ \A c \in Claimed(p) : status[c] = "paid"

BooksInv == Planned /\ PaidUp /\ \A p \in Payouts : Balanced(p)

\* Steps that leave the ledger alone.
LEMMA LedgerAlone ==
  ASSUME BooksInv, UNCHANGED <<status, worth, claim, clawback, frozen, netted>>,
         TypeOK,
         \A p \in Payouts : state[p] # "none" => state'[p] # "none",
         ~ StaleUpdates => \A p \in Payouts : (HasPaid(p)' => HasPaid(p)) /\ (Lives(p)' => Lives(p)),
         \A p \in Payouts : state'[p] = "canceled" => state[p] = "canceled"
  PROVE  BooksInv'
<1>1. Planned'
  BY DEF BooksInv, Planned, TypeOK
<1>2. PaidUp'
  <2>1. \A p \in Payouts : Claimed(p)' = Claimed(p)
    BY DEF Claimed
  <2> QED BY <2>1 DEF BooksInv, PaidUp
<1>3. ASSUME NEW p \in Payouts PROVE Balanced(p)'
  <2>1. Claimed(p)' = Claimed(p) /\ Applied(p)' = Applied(p) /\ UnitsOf(Claimed(p))' = UnitsOf(Claimed(p))
    BY DEF Claimed, Applied, UnitsOf
  <2> QED BY <2>1 DEF BooksInv, Balanced
<1> QED BY <1>1, <1>2, <1>3 DEF BooksInv

LEMMA RowsBooks ==
  ASSUME BaseInv, BooksInv, NEW q \in Payouts, Advances(q) \/ FallsBack(q) \/ Hears(q)
  PROVE  BooksInv'
<1>1. TypeOK /\ UNCHANGED <<status, worth, claim, clawback, frozen, netted>> /\ Alone(q)
  BY DEF BaseInv, Advances, FallsBack, Hears, ledger
<1>2. /\ state[q] # "none" => state'[q] # "none"
      /\ ~ StaleUpdates => (HasPaid(q)' => HasPaid(q)) /\ (Lives(q)' => Lives(q))
      /\ state'[q] = "canceled" => state[q] = "canceled"
  <2>1. CASE Advances(q)
    BY <2>1 DEF Advances, Ways, HasPaid, Lives, Open
  <2>2. CASE FallsBack(q)
    BY <2>2 DEF FallsBack, HasPaid, Lives, Open
  <2>3. CASE Hears(q)
    <3>1. /\ recorded[q] # None /\ state'[q] = state[q]
          /\ payout'[q] = "failed" \/ (payout'[q] = "paid" /\ (StaleUpdates \/ Whole(recorded[q])))
      BY <2>3 DEF Hears
    <3>2. state[q] \in {"confirmed", "canceled"} /\ (state[q] = "confirmed" /\ Whole(recorded[q]) => payout[q] = "paid")
      BY <3>1 DEF BaseInv, RecordedTrue
    <3> QED BY <3>1, <3>2 DEF HasPaid, Lives, Open
  <2> QED BY <2>1, <2>2, <2>3
<1>3. \A p \in Payouts : p # q => state'[p] = state[p] /\ (HasPaid(p)' => HasPaid(p)) /\ (Lives(p)' => Lives(p))
  BY <1>1 DEF Alone, HasPaid, Lives
<1> QED BY <1>1, <1>2, <1>3, LedgerAlone

LEMMA OpensBooks == ASSUME BaseInv, BooksInv, NEW q \in Payouts, Opens(q) PROVE BooksInv'
<1>1. /\ TypeOK /\ None \notin Payouts /\ Owed \notin Payouts
      /\ Planned /\ PaidUp /\ \A p \in Payouts : Balanced(p)
  BY DirectAssumption DEF BaseInv, BooksInv
<1>2. /\ Alone(q) /\ UNCHANGED <<worth, payout>> /\ state[q] = "none"
      /\ frozen' = [frozen EXCEPT ![q] = UnitsOf(Unclaimed)] /\ netted' = [netted EXCEPT ![q] = Outstanding]
      /\ claim' = [c \in Lines |-> IF c \in Unclaimed THEN q ELSE claim[c]]
      /\ clawback' = [u \in Units |-> IF u \in Outstanding THEN q ELSE clawback[u]]
      /\ state'[q] \in {"intent", "manual"}
      /\ \A c \in Lines : c \notin Unclaimed => status'[c] = status[c]
      /\ \A c \in Unclaimed : status'[c] \in {"approved", "paid"} /\ (state'[q] = "manual" => status'[c] = "paid")
  BY DEF Opens, Freezes, Unclaimed
<1>3. /\ frozen'[q] = UnitsOf(Unclaimed) /\ netted'[q] = Outstanding
      /\ \A p \in Payouts : p # q => /\ frozen'[p] = frozen[p] /\ netted'[p] = netted[p]
                                     /\ state'[p] = state[p] /\ payout'[p] = payout[p]
  BY <1>1, <1>2 DEF TypeOK, Alone
<1>4. Claimed(q) = {} /\ Applied(q) = {}
  BY <1>1, <1>2 DEF Planned, Claimed, Applied
<1>5. Claimed(q)' = Unclaimed /\ Applied(q)' = Outstanding
  BY <1>2, <1>4 DEF Claimed, Applied, Unclaimed, Outstanding
<1>6. \A p \in Payouts : p # q => Claimed(p)' = Claimed(p) /\ Applied(p)' = Applied(p)
  BY <1>1, <1>2 DEF Claimed, Applied, Unclaimed, Outstanding
<1>7. \A S : UnitsOf(S)' = UnitsOf(S)
  BY <1>2 DEF UnitsOf
<1>8. Planned'
  BY <1>1, <1>2, <1>3 DEF Planned, TypeOK, Unclaimed, Outstanding
<1>9. PaidUp'
  <2> SUFFICES ASSUME ~ StaleUpdates, NEW p \in Payouts, HasPaid(p)', NEW c \in Claimed(p)' PROVE status'[c] = "paid"
    BY DEF PaidUp
  <2>1. CASE p = q
    BY <1>2, <1>5, <2>1 DEF HasPaid
  <2>2. CASE p # q
    <3>1. HasPaid(p) /\ c \in Claimed(p) /\ c \notin Unclaimed
      BY <1>1, <1>3, <1>6, <2>2 DEF HasPaid, Claimed, Unclaimed
    <3> QED BY <1>1, <1>2, <3>1 DEF PaidUp, Claimed
  <2> QED BY <2>1, <2>2
<1>10. ASSUME NEW p \in Payouts PROVE Balanced(p)'
  <2>1. CASE p = q
    <3>1. UnitsOf(Claimed(p))' = UnitsOf(Unclaimed)
      BY <1>2, <1>5, <2>1 DEF UnitsOf
    <3> QED BY <1>2, <1>3, <1>5, <2>1, <3>1 DEF Balanced
  <2>2. CASE p # q
    <3>1. UnitsOf(Claimed(p))' = UnitsOf(Claimed(p)) /\ (Lives(p)' => Lives(p))
      BY <1>2, <1>3, <1>6, <2>2 DEF UnitsOf, Lives
    <3>2. \A c \in Claimed(p) : c \in Lines /\ c \notin Unclaimed
      BY <1>1 DEF Claimed, Unclaimed
    <3> QED BY <1>1, <1>2, <1>3, <1>6, <2>2, <3>1, <3>2 DEF Balanced
  <2> QED BY <2>1, <2>2
<1> QED BY <1>8, <1>9, <1>10 DEF BooksInv

LEMMA AbandonsBooks == ASSUME BaseInv, BooksInv, NEW q \in Payouts, Abandons(q) PROVE BooksInv'
<1>1. /\ TypeOK /\ None \notin Payouts /\ Owed \notin Payouts
      /\ Planned /\ PaidUp /\ \A p \in Payouts : Balanced(p)
  BY DirectAssumption DEF BaseInv, BooksInv
<1>2. /\ Alone(q) /\ UNCHANGED <<status, worth, frozen, netted>> /\ state'[q] = "canceled"
      /\ claim' = [c \in Lines |-> IF claim[c] = q /\ status[c] # "paid" THEN None ELSE claim[c]]
      /\ clawback' = [u \in Units |-> IF clawback[u] = q THEN Owed ELSE clawback[u]]
  BY DEF Abandons, ReleaseClaims
<1>3. \A p \in Payouts : p # q => state'[p] = state[p] /\ payout'[p] = payout[p]
  BY <1>2 DEF Alone
<1>4. /\ \A c \in Claimed(q)' : c \in Claimed(q) /\ status[c] = "paid"
      /\ Applied(q)' = {}
  BY <1>1, <1>2 DEF Claimed, Applied
<1>5. \A p \in Payouts : p # q => Claimed(p)' = Claimed(p) /\ Applied(p)' = Applied(p)
  BY <1>1, <1>2 DEF Claimed, Applied
<1>6. Planned'
  BY <1>1, <1>2, <1>3 DEF Planned, TypeOK
<1>7. PaidUp'
  <2>1. \A p \in Payouts : HasPaid(p)' => p # q /\ HasPaid(p)
    BY <1>2, <1>3 DEF HasPaid
  <2> QED BY <1>1, <1>2, <1>5, <2>1 DEF PaidUp
<1>8. ASSUME NEW p \in Payouts PROVE Balanced(p)'
  <2>1. CASE p = q
    <3>1. ~ Lives(p)'
      BY <1>2, <2>1 DEF Lives, Open
    <3> QED BY <1>2, <1>4, <2>1, <3>1 DEF Balanced
  <2>2. CASE p # q
    <3>1. UnitsOf(Claimed(p))' = UnitsOf(Claimed(p)) /\ (Lives(p)' => Lives(p))
      BY <1>2, <1>3, <1>5, <2>2 DEF UnitsOf, Lives
    <3> QED BY <1>1, <1>2, <1>3, <1>5, <2>2, <3>1 DEF Balanced
  <2> QED BY <2>1, <2>2
<1> QED BY <1>6, <1>7, <1>8 DEF BooksInv

LEMMA PaysBooks == ASSUME BaseInv, BooksInv, NEW q \in Payouts, PaysOf(q) PROVE BooksInv'
<1>1. /\ TypeOK /\ None \notin Payouts
      /\ Planned /\ PaidUp /\ \A p \in Payouts : Balanced(p)
  BY DirectAssumption DEF BaseInv, BooksInv
<1>2. /\ Alone(q) /\ UNCHANGED <<worth, claim, clawback, frozen, netted>>
      /\ status' = [c \in Lines |-> IF claim[c] = q /\ status[c] = "approved" THEN "paid" ELSE status[c]]
      /\ state[q] \in {"posted", "reconcile_required", "duplicate_review"} /\ state'[q] = "confirmed"
  BY DEF PaysOf
<1>3. \A p \in Payouts : p # q => state'[p] = state[p] /\ payout'[p] = payout[p]
  BY <1>2 DEF Alone
<1>4. \A p \in Payouts : /\ Claimed(p)' = Claimed(p) /\ Applied(p)' = Applied(p)
                         /\ UnitsOf(Claimed(p))' = UnitsOf(Claimed(p))
  BY <1>2 DEF Claimed, Applied, UnitsOf
<1>5. \A c \in Lines : status[c] = "paid" \/ claim[c] = q => status'[c] = "paid"
  BY <1>1, <1>2 DEF Planned
<1>6. Planned'
  BY <1>1, <1>2, <1>3 DEF Planned, TypeOK
<1>7. PaidUp'
  <2> SUFFICES ASSUME ~ StaleUpdates, NEW p \in Payouts, HasPaid(p)', NEW c \in Claimed(p) PROVE status'[c] = "paid"
    BY <1>4 DEF PaidUp
  <2>1. p # q => HasPaid(p)
    BY <1>3 DEF HasPaid
  <2> QED BY <1>1, <1>5, <2>1 DEF PaidUp, Claimed
<1>8. ASSUME NEW p \in Payouts PROVE Balanced(p)'
  <2>1. Lives(p)' => Lives(p)
    BY <1>2, <1>3 DEF Lives, Open
  <2>2. state'[p] = "canceled" => state[p] = "canceled" /\ \A c \in Claimed(p) : c \in Lines
    BY <1>2, <1>3 DEF Claimed
  <2> QED BY <1>1, <1>2, <1>4, <1>5, <2>1, <2>2 DEF Balanced
<1> QED BY <1>6, <1>7, <1>8 DEF BooksInv

LEMMA ApproveBooks == ASSUME BaseInv, BooksInv, NEW c \in Lines, Approve(c) PROVE BooksInv'
<1>1. TypeOK /\ Planned /\ PaidUp /\ \A p \in Payouts : Balanced(p)
  BY DEF BaseInv, BooksInv
<1>2. /\ UNCHANGED <<worth, claim, clawback, state, payout, frozen, netted>>
      /\ status[c] = "accrued" /\ status' = [status EXCEPT ![c] = "approved"]
  BY DEF Approve, intents
<1>3. \A d \in Lines : status[d] = "paid" => status'[d] = "paid"
  BY <1>1, <1>2 DEF TypeOK
<1>4. Planned'
  BY <1>1, <1>2 DEF Planned, TypeOK
<1>5. \A p \in Payouts : /\ Claimed(p)' = Claimed(p) /\ Applied(p)' = Applied(p)
                         /\ UnitsOf(Claimed(p))' = UnitsOf(Claimed(p))
  BY <1>2 DEF Claimed, Applied, UnitsOf
<1>6. PaidUp'
  BY <1>1, <1>2, <1>3, <1>5 DEF PaidUp, HasPaid, Claimed
<1>7. \A p \in Payouts : Balanced(p)'
  BY <1>1, <1>2, <1>3, <1>5 DEF Balanced, Lives, Claimed
<1> QED BY <1>4, <1>6, <1>7 DEF BooksInv

LEMMA RefundBooks ==
  ASSUME BaseInv, BooksInv, NEW c \in Lines, NEW n \in 1..Worth, Refund(c, n) PROVE BooksInv'
<1>1. /\ TypeOK /\ None \notin Payouts /\ Owed \notin Payouts
      /\ Planned /\ PaidUp /\ \A p \in Payouts : Balanced(p)
  BY DirectAssumption DEF BaseInv, BooksInv
<1>2. UNCHANGED <<state, payout, frozen, netted>>
  BY DEF Refund, intents
<1> DEFINE cut == Share(c, n) \cap worth
<1>3. CASE UNCHANGED <<status, worth, claim>> /\ \A u \in Units : clawback'[u] = clawback[u] \/ (clawback[u] = None /\ clawback'[u] = Owed)
  <2>1. Planned'
    BY <1>1, <1>2, <1>3 DEF Planned
  <2>2. \A p \in Payouts : /\ Claimed(p)' = Claimed(p) /\ Applied(p)' = Applied(p)
                           /\ UnitsOf(Claimed(p))' = UnitsOf(Claimed(p))
    BY <1>1, <1>3 DEF Claimed, Applied, UnitsOf
  <2>3. PaidUp'
    BY <1>1, <1>2, <1>3, <2>2 DEF PaidUp, HasPaid
  <2>4. \A p \in Payouts : Balanced(p)'
    BY <1>1, <1>2, <1>3, <2>2 DEF Balanced, Lives
  <2> QED BY <2>1, <2>3, <2>4 DEF BooksInv
<1>4. CASE /\ status[c] # "paid" /\ ~ HeldInTransfer(c) /\ UNCHANGED clawback
           /\ worth' = worth \ cut /\ claim' = [claim EXCEPT ![c] = None]
           /\ status' = status \/ status' = [status EXCEPT ![c] = "reversed"]
  <2>1. \A d \in Lines : d # c => status'[d] = status[d] /\ claim'[d] = claim[d]
    BY <1>1, <1>4 DEF TypeOK
  <2>2. claim'[c] = None
    BY <1>1, <1>4 DEF TypeOK
  <2>3. Planned'
    BY <1>1, <1>2, <1>4, <2>1, <2>2 DEF Planned
  <2>4. \A p \in Payouts : Claimed(p)' = Claimed(p) \ {c} /\ Applied(p)' = Applied(p)
    BY <1>1, <1>4, <2>1, <2>2 DEF Claimed, Applied
  <2>5. PaidUp'
    BY <1>1, <1>2, <2>1, <2>4 DEF PaidUp, HasPaid, Claimed
  <2>6. ASSUME NEW p \in Payouts, ~ StaleUpdates, Lives(p) PROVE c \notin Claimed(p)
    <3> SUFFICES ASSUME claim[c] = p PROVE FALSE
      BY DEF Claimed
    <3>1. state[p] = "confirmed"
      BY <1>1, <1>4, <2>6 DEF HeldInTransfer, Lives, Open
    <3>2. HasPaid(p)
      BY <2>6, <3>1 DEF HasPaid, Lives, Open
    <3> QED BY <1>1, <1>4, <2>6, <3>2 DEF PaidUp, Claimed
  <2>7. \A u \in cut : u[1] = c
    BY DEF Share
  <2>8. ASSUME NEW p \in Payouts PROVE Balanced(p)'
    <3>1. CASE ~ StaleUpdates /\ Lives(p)
      <4>1. Claimed(p)' = Claimed(p) /\ c \notin Claimed(p)
        BY <2>4, <2>6, <3>1
      <4>2. UnitsOf(Claimed(p))' = UnitsOf(Claimed(p))
        BY <1>4, <2>7, <4>1 DEF UnitsOf
      <4> QED BY <1>1, <1>2, <2>1, <2>4, <3>1, <4>1, <4>2 DEF Balanced, Claimed
    <3>2. CASE ~ (~ StaleUpdates /\ Lives(p))
      BY <1>1, <1>2, <2>1, <2>4, <3>2 DEF Balanced, Lives, Claimed
    <3> QED BY <3>1, <3>2
  <2> QED BY <2>3, <2>5, <2>8 DEF BooksInv
<1> QED BY <1>1, <1>3, <1>4 DEF Refund, TypeOK

LEMMA BooksKept == ASSUME BaseInv, BooksInv, [Next]_vars PROVE BooksInv'
<1>1. LedgerGoes
  BY StepFine DEF Fine, Goes
<1>2. CASE Still
  BY <1>2, LedgerAlone DEF Still, ledger, BaseInv, HasPaid, Lives
<1> QED BY <1>1, <1>2, OpensBooks, AbandonsBooks, PaysBooks, RowsBooks, ApproveBooks, RefundBooks DEF LedgerGoes

LEMMA BooksInit == Init => BooksInv
BY DirectAssumption DEF Init, BooksInv, Planned, PaidUp, HasPaid, Balanced, Claimed, Applied, UnitsOf, Lives, Open

LEMMA BooksAlways == Spec => []BooksInv
<1>1. BaseInv /\ BooksInv /\ [Next]_vars => BooksInv'
  BY BooksKept
<1> QED BY <1>1, BooksInit, Always, PTL DEF Spec

\* Invariant N of the netting design (payouts.ts, clawback-netting.ts): what a
\* living payout claims and deducts is what its frozen amount was computed from,
\* and an abandoned one keeps neither.
THEOREM DirectBooks == ASSUME ~ StaleUpdates PROVE Spec => []BooksBalance
<1>1. BooksInv => BooksBalance
  BY DEF BooksInv, BooksBalance, Balanced
<1> QED BY <1>1, BooksAlways, PTL

-----------------------------------------------------------------------------
(* The keys: what is under way, and what exists, is of the row's generation.  *)

Past == {"none", "intent", "manual"}
KeyedRequests == \A r \in requests : r[1] = Key(r[1][1]) /\ state[r[1][1]] \notin Past
KeyedTransfers == \A t \in made \ foreign : stamped[t] = generation[t[1]] /\ state[t[1]] \notin Past

\* Who may still give out the next key knows that nothing is under way.
Rearming(w) ==
  worker[w].pc \in {"rearmList", "rearm"} /\ worker[w].gen = generation[Who(w)] =>
    /\ state[Who(w)] \notin Past \cup {"posted"} /\ NoneToCome(Who(w))
    /\ At(w, "rearm") => Own(Who(w)) = {}

KeysInv == KeyedRequests /\ KeyedTransfers /\ \A w \in Workers : Rearming(w)

LEMMA GenerationGoes ==
  ASSUME BaseInv, Fine, NEW p \in Payouts
  PROVE  /\ generation[p] \in Int /\ generation'[p] \in Int
         /\ generation'[p] = generation[p] \/ (generation'[p] = generation[p] + 1 /\ Rearmed(p))
BY DEF BaseInv, Fine, Goes, TypeOK, Generations, EpochsGo, Rearmed

LEMMA RearmedIs ==
  ASSUME KeysInv, NEW p \in Payouts, Rearmed(p)
  PROVE  NoneToCome(p) /\ Own(p) = {} /\ UNCHANGED stripe
BY DEF Rearmed, KeysInv, Rearming, At, Workers

\* A payout that was posted returns to intent only under its next key.
LEMMA PastGoes ==
  ASSUME Fine, NEW p \in Payouts, state[p] \notin Past, ~ Rearmed(p)
  PROVE  state'[p] \notin Past /\ (state[p] # "posted" => state'[p] # "posted")
<1>1. state'[p] = state[p] \/ <<state[p], state'[p]>> \in Edges
  BY StatesGo DEF Fine, Goes
<1>2. ~ (state[p] = "reconcile_required" /\ state'[p] = "intent")
  BY DEF Fine, Goes, EpochsGo
<1> QED BY <1>1, <1>2 DEF Edges, Ways, Past

\* No request is made for a payout that has none under way and waits for none.
LEMMA NoneComes ==
  ASSUME BaseInv, Fine, NEW p \in Payouts, NoneToCome(p), state[p] \notin {"intent", "posted"}
  PROVE  NoneToCome(p)' /\ Own(p)' \subseteq Own(p)
<1>1. NoneToCome(p)'
  BY DEF NoneToCome, Fine, Goes, RequestsGo, Sends
<1>2. ASSUME NEW t \in Own(p)' PROVE t \in Own(p)
  <2>1. t \in made' /\ t \notin foreign' /\ t[1] = p
    BY DEF Own, Group
  <2>2. ~ Makes(t)
    BY <2>1 DEF Makes, NoneToCome
  <2> QED BY <2>1, <2>2 DEF Fine, Goes, TransfersGo, Own, Group
<1> QED BY <1>1, <1>2

LEMMA KeysKept == ASSUME BaseInv, KeysInv, Truthful, [Next]_vars PROVE KeysInv'
<1>1. Fine /\ TypeOK /\ TypeOK'
  BY StepFine DEF Fine, BaseInv
<1>2. KeyedRequests'
  <2> SUFFICES ASSUME NEW r \in requests'
               PROVE  r[1] = <<r[1][1], generation'[r[1][1]]>> /\ state'[r[1][1]] \notin Past
    BY DEF KeyedRequests, Key
  <2>1. CASE Sends(r)
    BY <2>1 DEF Sends, Key, Past
  <2>2. ASSUME NEW q \in requests, q[1] = r[1]
        PROVE  r[1] = <<r[1][1], generation'[r[1][1]]>> /\ state'[r[1][1]] \notin Past
    <3> PICK p : p = r[1][1]
      OBVIOUS
    <3>1. p \in Payouts /\ r[1] = Key(p) /\ state[p] \notin Past
      BY <1>1, <2>2 DEF TypeOK, Keys, KeysInv, KeyedRequests
    <3>2. ~ Rearmed(p)
      BY <2>2, <3>1, RearmedIs DEF NoneToCome
    <3> QED BY <1>1, <3>1, <3>2, GenerationGoes, PastGoes DEF Key
  <2> QED BY <1>1, <2>1, <2>2 DEF Fine, Goes, RequestsGo
<1>3. KeyedTransfers'
  <2> SUFFICES ASSUME NEW t \in made', t \notin foreign'
               PROVE  stamped'[t] = generation'[t[1]] /\ state'[t[1]] \notin Past
    BY DEF KeyedTransfers
  <2> PICK p : p = t[1]
    OBVIOUS
  <2>0. p \in Payouts
    BY <1>1 DEF TypeOK, Transfers
  <2>1. CASE t \in made
    <3>1. t \notin foreign /\ stamped'[t] = stamped[t]
      BY <1>1, <2>1 DEF Fine, Goes, TransfersGo
    <3>2. ~ Rearmed(p)
      BY <2>0, <2>1, <3>1, RearmedIs DEF Own, Group
    <3>3. stamped[t] = generation[p] /\ state[p] \notin Past
      BY <2>1, <3>1 DEF KeysInv, KeyedTransfers
    <3> QED BY <1>1, <2>0, <3>1, <3>2, <3>3, GenerationGoes, PastGoes
  <2>2. CASE t \notin made
    <3>1. PICK r \in requests : p = r[1][1] /\ stamped'[t] = r[1][2]
      BY <1>1, <2>2 DEF Fine, Goes, TransfersGo, Makes
    <3>2. r[1][2] = generation[p] /\ state[p] \notin Past
      BY <3>1 DEF KeysInv, KeyedRequests, Key
    <3>3. ~ Rearmed(p)
      BY <2>0, <3>1, RearmedIs DEF NoneToCome
    <3> QED BY <1>1, <2>0, <3>1, <3>2, <3>3, GenerationGoes, PastGoes
  <2> QED BY <2>1, <2>2
<1>4. ASSUME NEW w \in Workers PROVE Rearming(w)'
  <2> PICK p : p = worker'[w].who
    OBVIOUS
  <2> SUFFICES ASSUME worker'[w].pc \in {"rearmList", "rearm"}, worker'[w].gen = generation'[p]
               PROVE  /\ state'[p] \notin Past \cup {"posted"} /\ NoneToCome(p)'
                      /\ worker'[w].pc = "rearm" => Own(p)' = {}
    BY DEF Rearming, At, Who, NoneToCome, Own, Group
  <2>1. CASE Like(w)
    <3>1. /\ worker[w].pc = worker'[w].pc /\ worker[w].who = p /\ worker[w].gen = worker'[w].gen
          /\ worker[w].gen \in Int
      BY <1>1, <2>1, Base DEF Like, Generations
    <3>2. p \in Payouts /\ worker[w].gen =< generation[p]
      BY <3>1, Base DEF Doing, At, Who
    <3>3. generation'[p] = generation[p] /\ worker[w].gen = generation[p] /\ ~ Rearmed(p)
      BY <1>1, <3>1, <3>2, GenerationGoes DEF Rearmed
    <3>4. state[p] \notin Past \cup {"posted"} /\ NoneToCome(p) /\ (worker[w].pc = "rearm" => Own(p) = {})
      BY <3>1, <3>3 DEF KeysInv, Rearming, At, Who
    <3>5. state'[p] \notin Past \cup {"posted"}
      BY <1>1, <3>2, <3>3, <3>4, PastGoes
    <3>6. NoneToCome(p)' /\ Own(p)' \subseteq Own(p)
      BY <1>1, <3>2, <3>4, NoneComes DEF Past
    <3> QED BY <3>1, <3>4, <3>5, <3>6
  <2>2. ASSUME NEW q \in Payouts, Looks(w, q)
        PROVE  /\ state'[p] \notin Past \cup {"posted"} /\ NoneToCome(p)'
               /\ worker'[w].pc = "rearm" => Own(p)' = {}
    <3>1. /\ UNCHANGED <<state, generation, requests, made, foreign>> /\ q = p
          /\ \/ worker'[w].pc = "rearmList" /\ state[p] = "reconcile_required" /\ Asserts(p)
             \/ Passes(w, "rearmList", "rearm") /\ Group(p) = {}
      BY <2>2 DEF Looks, Passes, intents, stripe
    <3>2. NoneToCome(p)' = NoneToCome(p) /\ Own(p)' = Own(p)
      BY <3>1 DEF NoneToCome, Own, Group
    <3>3. CASE worker'[w].pc = "rearmList" /\ state[p] = "reconcile_required" /\ Asserts(p)
      BY <3>1, <3>2, <3>3 DEF Asserts, Past
    <3>4. CASE Passes(w, "rearmList", "rearm") /\ Group(p) = {}
      BY <3>1, <3>2, <3>4 DEF Passes, KeysInv, Rearming, At, Who, Own
    <3> QED BY <3>1, <3>3, <3>4
  <2>3. worker'[w].pc \in Noted /\ worker'[w].pc # "await"
    BY DEF Noted
  <2> QED BY <1>1, <2>1, <2>2, <2>3 DEF Fine, Goes, WorkersGo, Answered
<1> QED BY <1>2, <1>3, <1>4 DEF KeysInv

LEMMA KeysInit == Init => KeysInv
<1>1. ASSUME Init, NEW w \in Workers PROVE worker[w].pc = "idle"
  BY <1>1 DEF Init, Resting
<1> QED BY <1>1 DEF Init, KeysInv, KeyedRequests, KeyedTransfers, Rearming, At

LEMMA KeysAlways == ASSUME Truthful PROVE Spec => []KeysInv
<1>1. BaseInv /\ KeysInv /\ [Next]_vars => KeysInv'
  BY KeysKept
<1> QED BY <1>1, KeysInit, Always, PTL DEF Spec

-----------------------------------------------------------------------------
(* Reversals: whoever is about to record a transfer that came back will not   *)
(* be the last to write, for its event is still to be delivered.              *)

Pending(t) == <<t, "full">> \in events
RecordKnown(w) ==
  At(w, "record") /\ Ours(w, {"posted", "reconcile_required"}) /\ Gone(worker[w].xfer) => Pending(worker[w].xfer)
KeepKnown(w) ==
  At(w, "keep") /\ state[Who(w)] = "duplicate_review" /\ worker[w].cur /\ Gone(worker[w].xfer)
    => Pending(worker[w].xfer)
KnownInv == ReversalIsKnown /\ \A w \in Workers : RecordKnown(w) /\ KeepKnown(w)

LEMMA PendingGoes ==
  ASSUME Fine, NEW t \in Transfers, Gone(t) => Pending(t), back'[t] = "full"
  PROVE  <<t, "full">> \in events' \/ Heard(t)
BY DEF Fine, Goes, BackGoes, EventsGo, Gone, Pending

LEMMA ReversalKept ==
  ASSUME BaseInv, KnownInv, Fine, ~ StaleUpdates, NEW p \in Payouts,
         state'[p] = "confirmed", payout'[p] = "paid", back'[recorded'[p]] = "full"
  PROVE  <<recorded'[p], "full">> \in events'
<1>1. /\ recorded[p] # None => recorded[p] \in Transfers /\ recorded[p][1] = p
      /\ state[p] = "confirmed" => recorded[p] # None
  BY DEF BaseInv, TypeOK, RecordedTrue, Transfers
<1>2. CASE state'[p] = state[p] /\ payout'[p] = payout[p] /\ recorded'[p] = recorded[p]
  <2> PICK t : t = recorded[p]
    OBVIOUS
  <2>1. t \in Transfers /\ t[1] = p /\ (Gone(t) => Pending(t))
    BY <1>1, <1>2 DEF KnownInv, ReversalIsKnown, Pending
  <2> QED BY <1>2, <2>1, PendingGoes DEF Heard
<1>3. CASE PaysOf(p)
  <2>1. PICK w \in Workers : Payer(w, p) /\ recorded'[p] = worker[w].xfer
    BY <1>3 DEF PaysOf
  <2>2. events' = events /\ back' = back
    BY <1>3 DEF PaysOf, stripe
  <2> QED BY <2>1, <2>2 DEF KnownInv, RecordKnown, KeepKnown, Payer, Gone, Pending
<1>4. CASE Hears(p)
  <2>1. recorded'[p] = recorded[p] /\ recorded[p] \in Transfers /\ Whole(recorded[p])
    BY <1>1, <1>4 DEF Hears
  <2> QED BY <2>1 DEF Fine, Goes, BackGoes, Whole
<1>5. ~ Opens(p) /\ ~ Advances(p) /\ ~ Abandons(p) /\ ~ FallsBack(p)
  BY DEF Opens, Advances, Ways, Abandons, FallsBack
<1> QED BY <1>2, <1>3, <1>4, <1>5, RowGoes DEF Fine, Goes

LEMMA RecordKnownKept ==
  ASSUME BaseInv, KeysInv, KnownInv, Fine, NEW w \in Workers, NEW p, p = worker'[w].who, NEW t, t = worker'[w].xfer,
         worker'[w].pc = "record", state'[p] \in {"posted", "reconcile_required"}, generation'[p] = worker'[w].gen,
         back'[t] = "full"
  PROVE  <<t, "full">> \in events'
<1>1. CASE Like(w)
  <2>1. /\ worker[w].pc = "record" /\ worker[w].who = p /\ worker[w].gen = worker'[w].gen /\ worker[w].xfer = t
        /\ worker[w].gen \in Int
    BY <1>1, Base DEF Like, Generations
  <2>2. /\ p \in Payouts /\ worker[w].gen =< generation[p] /\ t \in Transfers /\ t \in made \ foreign /\ t[1] = p
    BY <2>1, Base DEF Doing, At, Who
  <2>3. generation[p] = worker[w].gen
    BY <2>1, <2>2, GenerationGoes
  <2>4. stamped[t] = generation[p] /\ state[p] \notin Past
    BY <2>2 DEF KeysInv, KeyedTransfers
  <2>5. state[p] \in {"posted", "reconcile_required"}
    <3>1. state'[p] = state[p] \/ <<state[p], state'[p]>> \in Edges
      BY <2>2, StatesGo DEF Fine, Goes
    <3> QED BY <2>4, <3>1 DEF Edges, Ways, Past
  <2>6. recorded[p] = None /\ recorded[p] # t
    BY <2>2, <2>5, DirectAssumption DEF BaseInv, RecordedTrue
  <2>7. Gone(t) => Pending(t)
    BY <2>1, <2>3, <2>5 DEF KnownInv, RecordKnown, Ours, At, Who
  <2>8. ~ Heard(t)
    BY <2>2, <2>4, <2>5, <2>6 DEF Heard, BeforeFinalize
  <2> QED BY <2>2, <2>7, <2>8, PendingGoes
<1>2. ASSUME NEW q \in Payouts, Looks(w, q) PROVE FALSE
  <2>1. Whole(t) /\ UNCHANGED stripe
    BY <1>2 DEF Looks, Passes
  <2> QED BY <2>1 DEF Whole, stripe
<1>3. worker'[w].pc \in Noted /\ worker'[w].pc # "await"
  BY DEF Noted
<1> QED BY <1>1, <1>2, <1>3 DEF Fine, Goes, WorkersGo, Answered

LEMMA KeepKnownKept ==
  ASSUME BaseInv, KnownInv, Fine, NEW w \in Workers, NEW p, p = worker'[w].who, NEW t, t = worker'[w].xfer,
         worker'[w].pc = "keep", state'[p] = "duplicate_review", worker'[w].cur, back'[t] = "full"
  PROVE  <<t, "full">> \in events'
<1>1. CASE Like(w)
  <2>1. worker[w].pc = "keep" /\ worker[w].who = p /\ worker[w].cur /\ worker[w].xfer = t
    BY <1>1 DEF Like
  <2>2. /\ p \in Payouts /\ state[p] \in Over /\ t \in Transfers /\ t[1] = p /\ w \in Operators
    BY <2>1, Base DEF Doing, At, Who, Workers, ExecutorLabels
  <2>3. state[p] = "duplicate_review"
    <3>1. state'[p] = state[p] \/ <<state[p], state'[p]>> \in Edges
      BY <2>2, StatesGo DEF Fine, Goes
    <3> QED BY <2>2, <3>1 DEF Edges, Ways, Over
  <2>4. recorded[p] = None /\ recorded[p] # t
    BY <2>2, <2>3, DirectAssumption DEF BaseInv, RecordedTrue
  <2>5. Gone(t) => Pending(t)
    BY <2>1, <2>3 DEF KnownInv, KeepKnown, At, Who
  <2>6. ~ Heard(t)
    BY <2>1, <2>2, <2>3, <2>4 DEF Heard, Who
  <2> QED BY <2>2, <2>5, <2>6, PendingGoes
<1>2. ASSUME NEW q \in Payouts, Looks(w, q) PROVE FALSE
  <2>1. Whole(t) /\ UNCHANGED stripe
    BY <1>2 DEF Looks, Passes
  <2> QED BY <2>1 DEF Whole, stripe
<1>3. worker'[w].pc \in Noted /\ worker'[w].pc # "await"
  BY DEF Noted
<1> QED BY <1>1, <1>2, <1>3 DEF Fine, Goes, WorkersGo, Answered

LEMMA KnownKept == ASSUME BaseInv, KeysInv, KnownInv, ~ StaleUpdates, [Next]_vars PROVE KnownInv'
<1>1. Fine
  BY StepFine
<1>2. ReversalIsKnown'
  BY <1>1, ReversalKept DEF ReversalIsKnown, Gone
<1>3. ASSUME NEW w \in Workers PROVE RecordKnown(w)'
  <2> PICK p, t : p = worker'[w].who /\ t = worker'[w].xfer
    OBVIOUS
  <2> QED BY <1>1, RecordKnownKept DEF RecordKnown, At, Ours, Who, Gone, Pending
<1>4. ASSUME NEW w \in Workers PROVE KeepKnown(w)'
  <2> PICK p, t : p = worker'[w].who /\ t = worker'[w].xfer
    OBVIOUS
  <2> QED BY <1>1, KeepKnownKept DEF KeepKnown, At, Who, Gone, Pending
<1> QED BY <1>2, <1>3, <1>4 DEF KnownInv

LEMMA KnownInit == Init => KnownInv
<1>1. ASSUME Init, NEW w \in Workers PROVE worker[w].pc = "idle"
  BY <1>1 DEF Init, Resting
<1> QED BY <1>1 DEF Init, KnownInv, ReversalIsKnown, RecordKnown, KeepKnown, At

\* A payout that says paid although its transfer was reversed in full is about
\* to hear of it (payout-transfers.ts, stripe-webhook.ts): the response, the
\* event and the review may come in any order.
THEOREM DirectReversals == ASSUME Truthful, ~ StaleUpdates PROVE Spec => []ReversalIsKnown
<1>1. BaseInv /\ KeysInv /\ KnownInv /\ [Next]_vars => KnownInv'
  BY KnownKept
<1>2. KnownInv => ReversalIsKnown
  BY DEF KnownInv
<1> QED BY <1>1, <1>2, KnownInit, Always, KeysAlways, PTL DEF Spec

-----------------------------------------------------------------------------
(* Releases. Stripe answers a key from what it kept, so at most one transfer  *)
(* is ever made for a payout; it forgets a key only when nobody can use it.   *)

\* Nobody will post for this payout again, except under its next key.
Expired(p) ==
  /\ postedAt[p] = "old" /\ NoneToCome(p) /\ state[p] \notin {"none", "intent"}
  /\ \A w \in Executors : ~ (At(w, "retry") /\ Who(w) = p)

OneOwn(p) ==
  /\ \A s, t \in Own(p) : s = t
  /\ kept[Key(p)] = Refused => Own(p) = {}
  /\ kept[Key(p)] = None => Own(p) = {} \/ Expired(p)
  /\ \A g \in Generations : g > generation[p] => kept[<<p, g>>] = None

\* Who is told that his key was refused is told the truth, where Stripe refuses
\* nothing unseen.
Refusal(p) == Own(p) = {} /\ (kept[Key(p)] = Refused \/ Expired(p))
Awaiting(w) ==
  At(w, "await") /\ worker[w].gen = generation[Who(w)] =>
    state[Who(w)] # "intent" /\ (~ DoorRefusals /\ worker[w].xfer = Refused => Refusal(Who(w)))

\* An operator who is about to release has seen that nothing is left.
Releasing(o) ==
  /\ worker[o].pc \in {"disposeList", "dispose"} => NoneToCome(Who(o)) /\ state[Who(o)] \notin Past \cup {"posted"}
  /\ At(o, "close") => NoneToCome(Who(o))
  /\ worker[o].pc \in {"dispose", "close"} => \A t \in Own(Who(o)) : Gone(t)

ReleaseInv ==
  /\ \A p \in Payouts : OneOwn(p)
  /\ \A w \in Workers : Awaiting(w) /\ Releasing(w)

\* Recovery requests are applied one after the other: none re-arms a payout while
\* another is about to release it.
NoRearmUnderRelease ==
  \A o \in Operators :
    worker[o].pc \in {"disposeList", "dispose"} => generation'[Who(o)] = generation[Who(o)]

LEMMA ExpiredKept ==
  ASSUME BaseInv, Fine, NEW p \in Payouts, Expired(p), ~ Rearmed(p)
  PROVE  Expired(p)'
<1>1. postedAt'[p] = "old"
  BY DEF Fine, Goes, EpochsGo, Expired
<1>2. NoneToCome(p)'
  BY DEF Fine, Goes, RequestsGo, Sends, NoneToCome, Expired
<1>3. state'[p] \notin {"none", "intent"}
  <2>1. state'[p] = state[p] \/ <<state[p], state'[p]>> \in Edges
    BY StatesGo DEF Fine, Goes
  <2>2. ~ (state[p] = "reconcile_required" /\ state'[p] = "intent")
    BY DEF Fine, Goes, EpochsGo
  <2> QED BY <2>1, <2>2 DEF Edges, Ways, Expired
<1>4. ASSUME NEW w \in Executors, worker'[w].pc = "retry", worker'[w].who = p PROVE FALSE
  <2>1. w \in Workers /\ worker'[w].pc \in Noted /\ worker'[w].pc # "await"
    BY <1>4 DEF Workers, Noted
  <2>2. ~ Like(w)
    BY <1>4 DEF Like, Expired, At, Who
  <2>3. ASSUME NEW q \in Payouts, Looks(w, q) PROVE FALSE
    BY <1>4, <2>3 DEF Looks, Passes, Expired
  <2> QED BY <2>1, <2>2, <2>3 DEF Fine, Goes, WorkersGo, Answered
<1> QED BY <1>1, <1>2, <1>3, <1>4 DEF Expired, At, Who

\* What changes for the payout's key while it is the same.
LEMMA KeyGoes ==
  ASSUME BaseInv, KeysInv, Fine, NEW p \in Payouts, ~ Rearmed(p)
  PROVE  /\ generation'[p] = generation[p] /\ Key(p) \in Keys /\ Key(p)' = Key(p)
         /\ \A t \in Own(p)' : t \in Own(p) \/ (kept[Key(p)] = None /\ kept'[Key(p)] = t /\ ~ NoneToCome(p))
         /\ \/ kept'[Key(p)] = kept[Key(p)]
            \/ kept'[Key(p)] = None /\ (state[p] \notin {"none", "intent"} => Expired(p))
            \/ kept[Key(p)] = None /\ ~ NoneToCome(p) /\ kept'[Key(p)] = Refused /\ Own(p)' \subseteq Own(p)
            \/ kept[Key(p)] = None /\ ~ NoneToCome(p) /\ kept'[Key(p)] \in Transfers
<1> PICK k : k = Key(p)
  OBVIOUS
<1>1. /\ generation'[p] = generation[p] /\ k \in Keys /\ k[1] = p /\ k[2] = generation[p] /\ TypeOK /\ TypeOK'
      /\ Key(p)' = Key(p)
  BY GenerationGoes DEF BaseInv, Fine, TypeOK, Key, Keys
<1>2. \A r \in requests : r[1][1] = p => r[1] = k
  BY DEF KeysInv, KeyedRequests
<1>3. ASSUME NEW t \in Own(p)', t \notin Own(p)
      PROVE  kept[k] = None /\ kept'[k] = t /\ ~ NoneToCome(p)
  <2>1. t \in made' /\ t \notin foreign' /\ t[1] = p
    BY <1>3 DEF Own, Group
  <2>2. t \notin made
    BY <1>3, <2>1 DEF Own, Group, Fine, Goes, TransfersGo
  <2>3. Makes(t)
    BY <2>1, <2>2 DEF Fine, Goes, TransfersGo
  <2> QED BY <1>2, <2>1, <2>3 DEF Makes, NoneToCome
<1>4. CASE kept'[k] # kept[k] /\ Pruned(k)
  <2>1. NoneToCome(p)
    BY <1>2, <1>4 DEF NoneToCome, Pruned
  <2> QED BY <1>1, <1>3, <1>4, <2>1 DEF Pruned, Expired
<1>5. CASE kept'[k] # kept[k] /\ Answers(k)
  <2>1. kept[k] = None /\ ~ NoneToCome(p)
    BY <1>1, <1>5 DEF Answers, NoneToCome
  <2>2. CASE kept'[k] = Refused /\ made' = made
    <3>1. Own(p)' \subseteq Own(p)
      BY <2>2 DEF Own, Group, Fine, Goes, TransfersGo
    <3> QED BY <1>1, <1>3, <2>1, <2>2, <3>1
  <2>3. CASE kept'[k] \in made' \ foreign'
    BY <1>1, <1>3, <2>1, <2>3 DEF TypeOK
  <2> QED BY <1>5, <2>2, <2>3 DEF Answers
<1> QED BY <1>1, <1>3, <1>4, <1>5 DEF Fine, Goes, KeptGoes

LEMMA OneOwnKept ==
  ASSUME BaseInv, KeysInv, ReleaseInv, Fine, NEW p \in Payouts
  PROVE  OneOwn(p)'
<1>0. OneOwn(p) /\ TypeOK
  BY DEF ReleaseInv, BaseInv
<1>1. ASSUME NEW g \in Generations, g > generation'[p] PROVE kept'[<<p, g>>] = None
  <2>1. g > generation[p] /\ g # generation[p] /\ <<p, g>> \in Keys
    BY <1>1, GenerationGoes DEF Generations, Keys
  <2>2. kept[<<p, g>>] = None
    BY <1>0, <2>1 DEF OneOwn
  <2>3. ~ Answers(<<p, g>>)
    BY <2>1 DEF Answers, KeysInv, KeyedRequests, Key
  <2> QED BY <2>1, <2>2, <2>3 DEF Fine, Goes, KeptGoes, Pruned
<1>2. CASE Rearmed(p)
  <2>1. Own(p)' = {}
    BY <1>2, RearmedIs DEF Own, Group, stripe
  <2> QED BY <1>1, <2>1 DEF OneOwn, Key
<1>3. CASE ~ Rearmed(p)
  <2> PICK k : k = Key(p)
    OBVIOUS
  <2>1. /\ generation'[p] = generation[p] /\ k \in Keys /\ Key(p)' = k
        /\ \A t \in Own(p)' : t \in Own(p) \/ (kept[k] = None /\ kept'[k] = t /\ ~ NoneToCome(p))
        /\ \/ kept'[k] = kept[k]
           \/ kept'[k] = None /\ (state[p] \notin {"none", "intent"} => Expired(p))
           \/ kept[k] = None /\ ~ NoneToCome(p) /\ kept'[k] = Refused /\ Own(p)' \subseteq Own(p)
           \/ kept[k] = None /\ ~ NoneToCome(p) /\ kept'[k] \in Transfers
    BY <1>3, KeyGoes
  <2>2. /\ \A s, t \in Own(p) : s = t
        /\ kept[k] = Refused => Own(p) = {}
        /\ kept[k] = None => Own(p) = {} \/ Expired(p)
    BY <1>0 DEF OneOwn
  <2>3. Expired(p) => NoneToCome(p) /\ Expired(p)'
    BY <1>3, ExpiredKept DEF Expired
  <2>4. Own(p)' \subseteq Transfers /\ None \notin Transfers /\ Refused \notin Transfers /\ Refused # None
    BY DirectAssumption DEF Own, Group, Fine, TypeOK
  <2>5. \A s, t \in Own(p)' : s = t
    BY <2>1, <2>2, <2>3
  <2>6. kept'[k] = Refused => Own(p)' = {}
    BY <2>1, <2>2, <2>3, <2>4
  <2>7. kept'[k] = None => Own(p)' = {} \/ Expired(p)'
    <3>1. Own(p) # {} => state[p] \notin {"none", "intent"}
      BY DEF KeysInv, KeyedTransfers, Own, Group, Past
    <3> QED BY <2>1, <2>2, <2>3, <2>4, <3>1
  <2>8. Key(p)' = <<p, generation'[p]>>
    BY DEF Key
  <2>9. (kept[Key(p)])' = kept'[k]
    BY <2>1, <2>8 DEF Key
  <2> QED BY <1>1, <2>5, <2>6, <2>7, <2>9 DEF OneOwn
<1> QED BY <1>2, <1>3

LEMMA AwaitingKept ==
  ASSUME BaseInv, KeysInv, ReleaseInv, Fine, NEW w \in Workers
  PROVE  Awaiting(w)'
<1> PICK p : p = worker'[w].who
  OBVIOUS
<1> SUFFICES ASSUME worker'[w].pc = "await", worker'[w].gen = generation'[p]
             PROVE  state'[p] # "intent" /\ (~ DoorRefusals /\ worker'[w].xfer = Refused => Refusal(p)')
  BY DEF Awaiting, At, Who, Refusal, Own, Group, Key, Expired, NoneToCome
<1>0. TypeOK /\ worker[w].gen \in Int /\ Refused # None
  BY Base, DirectAssumption DEF Generations
\* Who goes on waiting for the current key waited for it before.
<1>1. ASSUME worker[w].pc = "await", worker[w].who = p, worker[w].gen = worker'[w].gen
      PROVE  /\ p \in Payouts /\ ~ Rearmed(p) /\ generation'[p] = generation[p] /\ worker[w].gen = generation[p]
             /\ state[p] \notin {"none", "intent"} /\ state'[p] # "intent"
             /\ ~ DoorRefusals /\ worker[w].xfer = Refused => Refusal(p)
  <2>1. p \in Payouts /\ worker[w].gen =< generation[p] /\ state[p] \notin Unplanned
    BY <1>1, Base DEF Doing, At, Who
  <2>2. generation'[p] = generation[p] /\ worker[w].gen = generation[p] /\ ~ Rearmed(p)
    BY <1>0, <1>1, <2>1, GenerationGoes DEF Rearmed
  <2>3. state[p] # "intent" /\ (~ DoorRefusals /\ worker[w].xfer = Refused => Refusal(p))
    BY <1>1, <2>2 DEF ReleaseInv, Awaiting, At, Who
  <2>4. state'[p] # "intent"
    <3>1. state'[p] = state[p] \/ <<state[p], state'[p]>> \in Edges
      BY <2>1, StatesGo DEF Fine, Goes
    <3>2. ~ (state[p] = "reconcile_required" /\ state'[p] = "intent")
      BY <2>1, <2>2 DEF Fine, Goes, EpochsGo
    <3> QED BY <2>1, <2>3, <3>1, <3>2 DEF Edges, Ways, Unplanned
  <2> QED BY <2>1, <2>2, <2>3, <2>4 DEF Unplanned
<1>2. CASE Like(w)
  <2>1. /\ p \in Payouts /\ ~ Rearmed(p) /\ state[p] \notin {"none", "intent"} /\ state'[p] # "intent"
        /\ ~ DoorRefusals /\ worker'[w].xfer = Refused => Refusal(p)
    BY <1>1, <1>2 DEF Like
  <2>2. ASSUME Refusal(p) PROVE Refusal(p)'
    <3> PICK k : k = Key(p)
      OBVIOUS
    <3>1. /\ generation'[p] = generation[p] /\ k \in Keys /\ Key(p)' = k
          /\ \A t \in Own(p)' : t \in Own(p) \/ (kept[k] = None /\ kept'[k] = t /\ ~ NoneToCome(p))
          /\ \/ kept'[k] = kept[k]
             \/ kept'[k] = None /\ (state[p] \notin {"none", "intent"} => Expired(p))
             \/ kept[k] = None /\ ~ NoneToCome(p) /\ kept'[k] = Refused /\ Own(p)' \subseteq Own(p)
             \/ kept[k] = None /\ ~ NoneToCome(p) /\ kept'[k] \in Transfers
      BY <2>1, KeyGoes
    <3>2. Own(p) = {} /\ (kept[k] = Refused \/ Expired(p))
      BY <2>2 DEF Refusal
    <3>3. Expired(p) => NoneToCome(p) /\ Expired(p)'
      BY <2>1, ExpiredKept DEF Expired
    <3>4. Own(p)' = {} /\ (kept'[k] = Refused \/ Expired(p)')
      BY <1>0, <2>1, <3>1, <3>2, <3>3
    <3>5. (kept[Key(p)])' = kept'[k]
      BY <3>1 DEF Key
    <3> QED BY <3>4, <3>5 DEF Refusal
  <2> QED BY <2>1, <2>2
<1>3. CASE Answered(w)
  <2>1. worker[w].pc = "await" /\ worker[w].who = p /\ worker[w].gen = worker'[w].gen
    BY <1>3 DEF Answered, At
  <2>2. p \in Payouts /\ state'[p] # "intent" /\ generation'[p] = worker[w].gen
    BY <1>1, <2>1
  <2>3. ASSUME ~ DoorRefusals, worker'[w].xfer = Refused PROVE Refusal(p)'
    <3>1. kept'[<<p, generation'[p]>>] = Refused
      BY <1>3, <2>1, <2>2, <2>3 DEF Answered, Who
    <3>2. (kept[Key(p)])' = Refused
      BY <3>1 DEF Key
    <3>3. OneOwn(p)'
      BY <2>2, OneOwnKept
    <3> QED BY <3>2, <3>3 DEF OneOwn, Refusal
  <2> QED BY <2>2, <2>3
<1>4. ASSUME worker'[w].xfer # Refused, worker'[w].who \in Payouts, state'[worker'[w].who] = "posted"
      PROVE  state'[p] # "intent" /\ worker'[w].xfer # Refused
  BY <1>4
<1>5. worker'[w].pc \in Noted /\ ~ \E q \in Payouts : Looks(w, q)
  BY DEF Noted, Looks, Passes
<1> QED BY <1>2, <1>3, <1>4, <1>5 DEF Fine, Goes, WorkersGo

LEMMA ReleasingKept ==
  ASSUME BaseInv, KeysInv, ReleaseInv, Fine, Truthful, [NoRearmUnderRelease]_vars, NEW o \in Workers
  PROVE  Releasing(o)'
<1> PICK p : p = worker'[o].who
  OBVIOUS
<1> SUFFICES ASSUME worker'[o].pc \in {"disposeList", "dispose", "close"}
             PROVE  /\ NoneToCome(p)'
                    /\ worker'[o].pc # "close" => state'[p] \notin Past \cup {"posted"}
                    /\ worker'[o].pc # "disposeList" => \A t \in Own(p)' : Gone(t)'
  BY DEF Releasing, At, Who, NoneToCome, Own, Group, Gone
<1>1. CASE Like(o)
  <2>1. worker[o].pc = worker'[o].pc /\ worker[o].who = p
    BY <1>1 DEF Like
  <2>2. p \in Payouts /\ o \in Operators /\ (worker[o].pc = "close" => state[p] \in Over)
    BY <2>1, Base DEF Doing, At, Who, Workers, ExecutorLabels
  <2>3. /\ NoneToCome(p) /\ state[p] \notin Past \cup {"posted"}
        /\ worker'[o].pc # "disposeList" => \A t \in Own(p) : Gone(t)
    BY <2>1, <2>2 DEF ReleaseInv, Releasing, At, Who, Over, Past
  <2>4. NoneToCome(p)' /\ Own(p)' \subseteq Own(p)
    BY <2>2, <2>3, NoneComes DEF Past
  <2>5. ~ Rearmed(p)
    <3>1. CASE worker[o].pc = "close"
      BY <2>2, <3>1 DEF Rearmed, Over
    <3>2. CASE worker[o].pc # "close"
      <4>1. generation'[p] = generation[p]
        BY <2>1, <2>2, <3>2 DEF NoRearmUnderRelease, Who, vars, intents
      <4> QED BY <2>2, <4>1, GenerationGoes DEF Rearmed
    <3> QED BY <3>1, <3>2
  <2>6. state'[p] \notin Past \cup {"posted"}
    BY <2>2, <2>3, <2>5, PastGoes
  <2>7. \A t \in Own(p) : Gone(t) => Gone(t)'
    BY Lasting DEF Own, Group
  <2> QED BY <2>3, <2>4, <2>6, <2>7
<1>2. ASSUME NEW q \in Payouts, Looks(o, q)
      PROVE  /\ NoneToCome(p)'
             /\ worker'[o].pc # "close" => state'[p] \notin Past \cup {"posted"}
             /\ worker'[o].pc # "disposeList" => \A t \in Own(p)' : Gone(t)'
  <2>1. /\ UNCHANGED <<state, requests, made, foreign, back>> /\ q = p
        /\ \/ worker'[o].pc = "disposeList" /\ state[p] \in {"reconcile_required", "confirmed"} /\ Asserts(p)
           \/ Passes(o, "disposeList", "dispose") /\ \A t \in Group(p) : Gone(t)
           \/ worker'[o].pc = "close" /\ Asserts(p) /\ \A t \in Group(p) : Gone(t)
    BY <1>2 DEF Looks, Passes, intents, stripe
  <2>2. NoneToCome(p)' = NoneToCome(p) /\ Own(p)' = Own(p) /\ \A t \in Own(p) : t \in Group(p) /\ Gone(t)' = Gone(t)
    BY <2>1 DEF NoneToCome, Own, Group, Gone
  <2>3. CASE worker'[o].pc = "disposeList" /\ state[p] \in {"reconcile_required", "confirmed"} /\ Asserts(p)
    BY <2>1, <2>2, <2>3 DEF Asserts, Past
  <2>4. CASE Passes(o, "disposeList", "dispose") /\ \A t \in Group(p) : Gone(t)
    <3>1. NoneToCome(p) /\ state[p] \notin Past \cup {"posted"}
      BY <2>4 DEF Passes, ReleaseInv, Releasing, At, Who
    <3> QED BY <2>1, <2>2, <2>4, <3>1
  <2>5. CASE worker'[o].pc = "close" /\ Asserts(p) /\ \A t \in Group(p) : Gone(t)
    BY <2>1, <2>2, <2>5 DEF Asserts
  <2> QED BY <2>1, <2>3, <2>4, <2>5
<1>3. worker'[o].pc \in Noted /\ worker'[o].pc # "await"
  BY DEF Noted
<1> QED BY <1>1, <1>2, <1>3 DEF Fine, Goes, WorkersGo, Answered

LEMMA ReleaseKept ==
  ASSUME BaseInv, KeysInv, ReleaseInv, Truthful, [NoRearmUnderRelease]_vars, [Next]_vars
  PROVE  ReleaseInv'
BY StepFine, OneOwnKept, AwaitingKept, ReleasingKept DEF ReleaseInv

LEMMA ReleaseInit == Init => ReleaseInv
<1>1. ASSUME Init, NEW w \in Workers PROVE worker[w].pc = "idle"
  BY <1>1 DEF Init, Resting
<1>2. ASSUME Init, NEW p \in Payouts PROVE OneOwn(p)
  <2>1. Own(p) = {} /\ \A g \in Generations : <<p, g>> \in Keys
    BY <1>2 DEF Init, Own, Group, Keys
  <2>2. Refused # None /\ 0 \in Generations /\ Key(p) \in Keys
    BY <1>2, <2>1, DirectAssumption DEF Generations, Key, Init
  <2> QED BY <1>2, <2>1, <2>2 DEF Init, OneOwn
<1> QED BY <1>1, <1>2 DEF ReleaseInv, Awaiting, Releasing, At

LEMMA ReleaseAlways ==
  ASSUME Truthful
  PROVE  Spec /\ [][NoRearmUnderRelease]_vars => []ReleaseInv
<1>1. BaseInv /\ KeysInv /\ ReleaseInv /\ [Next]_vars /\ [NoRearmUnderRelease]_vars => ReleaseInv'
  BY ReleaseKept
<1> QED BY <1>1, ReleaseInit, Always, KeysAlways, PTL DEF Spec

\* What payout-transfers.ts:507-513 supposes of the errors it calls definite, on
\* which a posted intent is failed: no transfer of the payout exists, or can come,
\* that the partner would hold. Run door refutes it: a key that is revoked between
\* a POST and its retry refuses the retry, whatever became of the POST.
DefiniteIsDefinite ==
  \A p \in Payouts :
    state[p] = "posted" /\ state'[p] = "canceled" =>
      /\ \A t \in Own(p) : Gone(t)
      /\ \A r \in requests : r[1][1] = p => kept[r[1]] = Refused

\* What a step that abandons a payout leaves behind.
LEMMA Released ==
  ASSUME BaseInv, KeysInv, ReleaseInv, DoorRefusals => [DefiniteIsDefinite]_vars, NEW p \in Payouts, Abandons(p)
  PROVE  /\ \A t \in Own(p) : Gone(t)
         /\ \A r \in requests : r[1][1] = p => kept[r[1]] = Refused
<1>1. \A r \in requests : r[1][1] = p => r[1] = Key(p) /\ state[p] \notin Past
  BY DEF KeysInv, KeyedRequests
<1>2. \A t \in Own(p) : state[p] \notin Past
  BY DEF KeysInv, KeyedTransfers, Own, Group
<1>3. CASE state[p] = "intent"
  BY <1>1, <1>2, <1>3 DEF Past
<1>4. ASSUME NEW w \in Executors, At(w, "await"), worker[w].xfer = Refused, Who(w) = p, worker[w].gen = generation[p],
             state[p] = "posted"
      PROVE  (\A t \in Own(p) : Gone(t)) /\ \A r \in requests : r[1][1] = p => kept[r[1]] = Refused
  <2>1. CASE DoorRefusals
    <3>1. state'[p] = "canceled"
      BY DEF Abandons
    <3> QED BY <1>4, <2>1, <3>1 DEF DefiniteIsDefinite, vars, intents
  <2>2. CASE ~ DoorRefusals
    <3>1. Refusal(p)
      BY <1>4, <2>2 DEF ReleaseInv, Awaiting, Workers
    <3> QED BY <1>1, <3>1 DEF Refusal, Expired, NoneToCome
  <2> QED BY <2>1, <2>2
<1>5. ASSUME NEW o \in Operators, worker[o].pc \in {"dispose", "close"}, Who(o) = p
      PROVE  NoneToCome(p) /\ \A t \in Own(p) : Gone(t)
  BY <1>5 DEF ReleaseInv, Releasing, At, Workers
<1> QED BY <1>3, <1>4, <1>5 DEF Abandons, Cause, NoneToCome

\* Commissions go back into the payable pool (cancelIntent, failIntent,
\* disposeIntent, resolveDuplicate of payout-transfers.ts) only when every
\* transfer of the payout is reversed in full and a POST that is still to
\* arrive would find its key refused.
THEOREM DirectReleases ==
  ASSUME Truthful, ~ DoorRefusals
  PROVE  Spec /\ [][NoRearmUnderRelease]_vars => ReleaseIsSafe
<1>1. ASSUME BaseInv, KeysInv, ReleaseInv, [Next]_vars, NEW p \in Payouts, state[p] # "canceled", state'[p] = "canceled"
      PROVE  /\ \A t \in Group(p) \ foreign : Gone(t)
             /\ \A r \in requests : r[1][1] = p => kept[r[1]] = Refused
  <2>1. LedgerGoes
    BY <1>1, StepFine DEF Fine, Goes
  <2>2. Abandons(p)
    BY <1>1, <2>1, RowGoes DEF Opens, Advances, Ways, PaysOf, FallsBack, Hears
  <2> QED BY <1>1, <2>2, Released DEF Own
<1>2. BaseInv /\ KeysInv /\ ReleaseInv /\ [Next]_vars =>
        \A p \in Payouts : state[p] # "canceled" /\ state'[p] = "canceled" =>
          /\ \A t \in Group(p) \ foreign : Gone(t)
          /\ \A r \in requests : r[1][1] = p => kept[r[1]] = Refused
  BY <1>1
<1> QED BY <1>2, Always, KeysAlways, ReleaseAlways, PTL DEF Spec, ReleaseIsSafe

-----------------------------------------------------------------------------
(* Payments. A payout either still claims what it froze, or can never hold    *)
(* the partner's money again; so what a later payout freezes is not paid.     *)

Held(p) == \A u \in frozen[p] \cap worth : claim[u[1]] = p
Dead(p) ==
  /\ state[p] \in {"confirmed", "canceled"}
  /\ \A t \in Own(p) : Gone(t)
  /\ \A r \in requests : r[1][1] = p => kept[r[1]] # None

PaysInv ==
  /\ \A p \in Payouts : Held(p) \/ Dead(p)
  /\ \A p, q \in Payouts : p # q => frozen[p] \cap frozen[q] = {} \/ Dead(p) \/ Dead(q)

\* The commissions of a payout whose transfer came back wait for an operator, says
\* docs/direct-connect-payouts.md:193-200; a refund makes no part of such a line
\* payable while the partner may still be paid for it, because he holds what did
\* not come back or because it was somebody else's transfer that did. Run
\* undecided refutes the sentence of the docs.
NoPartOfUndecided ==
  \A c \in Lines :
    claim[c] # None /\ (Parted(c) \/ recorded[claim[c]] \in foreign) /\ claim'[c] = None /\ worth' # worth =>
      UnitsOf({c})' = {}

LEMMA DeadKept == ASSUME BaseInv, Fine, NEW p \in Payouts, Dead(p) PROVE Dead(p)'
<1>1. state'[p] \in {"confirmed", "canceled"}
  <2>1. state'[p] = state[p] \/ <<state[p], state'[p]>> \in Edges
    BY StatesGo DEF Fine, Goes
  <2> QED BY <2>1 DEF Edges, Ways, Dead
<1>2. ASSUME NEW t \in Own(p)' PROVE Gone(t)'
  <2>1. t \in made' /\ t \notin foreign' /\ t[1] = p
    BY <1>2 DEF Own, Group
  <2>2. ~ Makes(t)
    BY <2>1 DEF Makes, Dead
  <2>3. t \in Own(p) /\ t \in Transfers
    BY <2>1, <2>2 DEF Fine, Goes, TransfersGo, Own, Group, TypeOK
  <2> QED BY <2>3, Lasting DEF Dead
<1>3. ASSUME NEW r \in requests', r[1][1] = p PROVE kept'[r[1]] # None
  <2>1. ~ Sends(r)
    BY <1>1, <1>3 DEF Sends
  <2>2. PICK q \in requests : q[1] = r[1]
    BY <2>1 DEF Fine, Goes, RequestsGo
  <2>3. kept[r[1]] # None /\ r[1] \in Keys
    BY <1>3, <2>2 DEF Dead, BaseInv, TypeOK
  <2> QED BY <2>2, <2>3 DEF Fine, Goes, KeptGoes, Pruned, Answers
<1> QED BY <1>1, <1>2, <1>3 DEF Dead

\* A refund takes a line from a payout only once nothing more can be paid for it.
LEMMA RefundDead ==
  ASSUME BaseInv, BooksInv, KeysInv, ReleaseInv,
         NEW c \in Lines, NEW n \in 1..Worth, Refund(c, n), claim'[c] # claim[c], ~ Parted(c),
         NEW p \in Payouts, claim[c] = p, recorded[p] \notin foreign
  PROVE  Dead(p)
<1>1. status[c] # "paid" /\ ~ HeldInTransfer(c) /\ p # None
  BY DirectAssumption DEF Refund
<1>2. c \in Claimed(p) /\ state[p] \in {"confirmed", "canceled"}
  BY <1>1 DEF Claimed, HeldInTransfer
<1>3. state[p] = "confirmed"
  BY <1>1, <1>2 DEF BooksInv, Balanced
<1>4. recorded[p] \in Own(p)
  BY <1>1, <1>3 DEF BaseInv, RecordedTrue, Own, Group
<1>5. \A t \in Own(p) : Gone(t)
  BY <1>1 DEF Parted, Own
<1>6. kept[Key(p)] # None \/ NoneToCome(p)
  BY <1>4 DEF ReleaseInv, OneOwn, Expired
<1>7. \A r \in requests : r[1][1] = p => kept[r[1]] # None
  BY <1>6 DEF KeysInv, KeyedRequests, NoneToCome
<1> QED BY <1>3, <1>5, <1>7 DEF Dead

LEMMA HeldGoes ==
  ASSUME BaseInv, BooksInv, KeysInv, ReleaseInv, [DefiniteIsDefinite]_vars, [NoPartOfUndecided]_vars, Fine,
         NEW p \in Payouts, Held(p)
  PROVE  Held(p)' \/ Dead(p)'
<1>1. TypeOK /\ frozen[p] \subseteq Units /\ \A u \in Units : u[1] \in Lines /\ u[2] \in 1..Worth /\ u = <<u[1], u[2]>>
  BY DEF BaseInv, TypeOK, Units
<1>2. CASE frozen'[p] = frozen[p] /\ UNCHANGED <<worth, claim>>
  BY <1>2 DEF Held
<1>3. ASSUME NEW q \in Payouts, Opens(q) PROVE Held(p)'
  <2>1. /\ worth' = worth /\ frozen' = [frozen EXCEPT ![q] = UnitsOf(Unclaimed)]
        /\ claim' = [c \in Lines |-> IF c \in Unclaimed THEN q ELSE claim[c]]
    BY <1>3 DEF Opens, Freezes
  <2>2. CASE p = q
    BY <1>1, <2>1, <2>2 DEF TypeOK, Held, UnitsOf, Unclaimed
  <2>3. CASE p # q
    <3>1. frozen'[p] = frozen[p] /\ p # None
      BY <1>1, <2>1, <2>3, DirectAssumption DEF TypeOK
    <3> QED BY <1>1, <2>1, <3>1 DEF Held, Unclaimed
  <2> QED BY <2>2, <2>3
<1>4. ASSUME NEW q \in Payouts, Abandons(q) PROVE Held(p)' \/ Dead(p)'
  <2>1. CASE p = q
    <3>1. /\ \A t \in Own(p) : Gone(t)
          /\ \A r \in requests : r[1][1] = p => kept[r[1]] = Refused
      BY <1>4, <2>1, Released
    <3>2. state'[p] = "canceled" /\ UNCHANGED stripe
      BY <1>4, <2>1 DEF Abandons
    <3>3. Refused # None
      BY DirectAssumption
    <3> QED BY <3>1, <3>2, <3>3 DEF Dead, Own, Group, Gone, stripe
  <2>2. CASE p # q
    <3>1. /\ UNCHANGED <<worth, frozen>>
          /\ claim' = [c \in Lines |-> IF claim[c] = q /\ status[c] # "paid" THEN None ELSE claim[c]]
      BY <1>4 DEF Abandons, ReleaseClaims
    <3> QED BY <1>1, <2>2, <3>1 DEF Held
  <2> QED BY <2>1, <2>2
<1>5. ASSUME NEW c \in Lines, NEW n \in 1..Worth, Refund(c, n) PROVE Held(p)' \/ Dead(p)'
  <2>1. /\ frozen' = frozen /\ worth' \subseteq worth
        /\ \A d \in Lines : d # c => claim'[d] = claim[d]
    BY <1>1, <1>5 DEF Refund, intents, TypeOK
  <2>2. CASE claim'[c] = claim[c]
    BY <1>1, <2>1, <2>2 DEF Held
  <2>3. CASE claim'[c] # claim[c] /\ claim[c] # p
    BY <1>1, <2>1, <2>3 DEF Held
  <2>4. CASE claim'[c] # claim[c] /\ claim[c] = p /\ ~ (Parted(c) \/ recorded[p] \in foreign)
    <3>1. Dead(p)
      BY <1>5, <2>4, RefundDead
    <3> QED BY <3>1, DeadKept
  <2>5. CASE claim'[c] # claim[c] /\ claim[c] = p /\ (Parted(c) \/ recorded[p] \in foreign)
    <3>1. claim'[c] = None /\ worth' # worth
      BY <1>1, <1>5, <2>5 DEF Refund, TypeOK
    <3>2. UnitsOf({c})' = {}
      BY <2>5, <3>1, DirectAssumption DEF NoPartOfUndecided, vars, ledger
    <3>3. \A u \in frozen[p] \cap worth' : u[1] # c
      BY <3>2 DEF UnitsOf
    <3> QED BY <1>1, <2>1, <3>3 DEF Held
  <2> QED BY <2>2, <2>3, <2>4, <2>5
<1>6. ASSUME NEW q \in Payouts, Advances(q) \/ PaysOf(q) \/ FallsBack(q) \/ Hears(q)
      PROVE  frozen'[p] = frozen[p] /\ UNCHANGED <<worth, claim>>
  BY <1>6 DEF Advances, PaysOf, FallsBack, Hears, ledger
<1>7. ASSUME NEW c \in Lines, Approve(c) PROVE frozen'[p] = frozen[p] /\ UNCHANGED <<worth, claim>>
  BY <1>7 DEF Approve, intents
<1> QED BY <1>2, <1>3, <1>4, <1>5, <1>6, <1>7 DEF Fine, Goes, LedgerGoes, Still, ledger

\* Two payouts that both may pay never froze the same unit.
LEMMA PairGoes ==
  ASSUME BaseInv, PaysInv, Fine, NEW p \in Payouts, NEW q \in Payouts, p # q
  PROVE  frozen'[p] \cap frozen'[q] = {} \/ Dead(p)' \/ Dead(q)'
<1>1. /\ TypeOK /\ None \notin Payouts /\ \A x \in Payouts : frozen[x] \subseteq Units
      /\ \A u \in Units : u[1] \in Lines
      /\ \A x \in Payouts : Dead(x) => Dead(x)'
  BY DeadKept, DirectAssumption DEF BaseInv, TypeOK, Units
<1>2. CASE frozen' = frozen
  BY <1>1, <1>2 DEF PaysInv
<1>3. ASSUME NEW x \in Payouts, Opens(x), NEW y \in Payouts, y # x, ~ Dead(y)
      PROVE  frozen'[x] \cap frozen'[y] = {}
  <2>1. frozen'[x] = UnitsOf(Unclaimed) /\ frozen'[y] = frozen[y]
    BY <1>1, <1>3 DEF Opens, Freezes, TypeOK
  <2>2. Held(y)
    BY <1>3 DEF PaysInv
  <2> QED BY <1>1, <2>1, <2>2 DEF Held, UnitsOf, Unclaimed
<1>4. ASSUME NEW x \in Payouts, Opens(x)
      PROVE  frozen'[p] \cap frozen'[q] = {} \/ Dead(p)' \/ Dead(q)'
  <2>1. CASE p = x
    BY <1>1, <1>3, <1>4, <2>1
  <2>2. CASE q = x
    BY <1>1, <1>3, <1>4, <2>2
  <2>3. CASE p # x /\ q # x
    <3>1. frozen'[p] = frozen[p] /\ frozen'[q] = frozen[q]
      BY <1>1, <1>4, <2>3 DEF Opens, Freezes, TypeOK
    <3> QED BY <1>1, <3>1 DEF PaysInv
  <2> QED BY <2>1, <2>2, <2>3
<1>5. frozen' = frozen \/ \E x \in Payouts : Opens(x)
  BY DEF Fine, Goes, LedgerGoes, Still, Advances, Abandons, PaysOf, FallsBack, Hears, Approve, Refund, intents
<1> QED BY <1>2, <1>4, <1>5

LEMMA PaysAlways ==
  ASSUME Truthful
  PROVE  Spec /\ [][NoRearmUnderRelease]_vars /\ [][DefiniteIsDefinite]_vars /\ [][NoPartOfUndecided]_vars
           => []PaysInv
<1>1. Init => PaysInv
  BY DEF Init, PaysInv, Held
<1>2. ASSUME BaseInv, BooksInv, KeysInv, ReleaseInv, PaysInv, [Next]_vars,
             [DefiniteIsDefinite]_vars, [NoPartOfUndecided]_vars
      PROVE  PaysInv'
  <2>1. Fine
    BY <1>2, StepFine
  <2>2. \A p \in Payouts : Held(p)' \/ Dead(p)'
    BY <1>2, <2>1, HeldGoes, DeadKept DEF PaysInv
  <2>3. \A p, q \in Payouts : p # q => frozen'[p] \cap frozen'[q] = {} \/ Dead(p)' \/ Dead(q)'
    BY <1>2, <2>1, PairGoes
  <2> QED BY <2>2, <2>3 DEF PaysInv
<1>3. /\ BaseInv /\ BooksInv /\ KeysInv /\ ReleaseInv /\ PaysInv /\ [Next]_vars
      /\ [DefiniteIsDefinite]_vars /\ [NoPartOfUndecided]_vars
      => PaysInv'
  BY <1>2
<1> QED BY <1>1, <1>3, Always, BooksAlways, KeysAlways, ReleaseAlways, PTL DEF Spec

\* The partner is never paid twice for one commission, or for one half of it,
\* on the direct rail (payouts.ts, payout-transfers.ts): not by a timeout and a
\* retry, by a re-arm under another key, by a reversal, a late or stale event, a
\* refund or a re-plan. It is so unless an operator asserts what is not so, one
\* re-arms what another is releasing, or one of two claims fails that the code and
\* its docs make: that a definite error proves that no transfer exists, and that
\* what came back waits for an operator.
THEOREM DirectPaysOnce ==
  ASSUME Truthful
  PROVE  Spec /\ [][NoRearmUnderRelease]_vars /\ [][DefiniteIsDefinite]_vars /\ [][NoPartOfUndecided]_vars
           => []PaidOnce
<1>1. ASSUME BaseInv, KeysInv, ReleaseInv, PaysInv PROVE PaidOnce
  <2> SUFFICES ASSUME NEW s \in Payments, NEW t \in Payments, s # t PROVE frozen[s[1]] \cap frozen[t[1]] = {}
    BY DEF PaidOnce
  <2>1. \A x \in Payments : \/ x \in Own(x[1]) /\ ~ Gone(x) /\ x[1] \in Payouts /\ state[x[1]] # "manual"
                            \/ x = <<x[1], 0>> /\ x[1] \in Payouts /\ state[x[1]] = "manual"
    BY <1>1 DEF Payments, BaseInv, TypeOK, Transfers, Own, Group, KeysInv, KeyedTransfers, Past
  <2>2. \A x \in Payments : ~ Dead(x[1]) /\ x[1] \in Payouts
    BY <2>1 DEF Dead
  <2>3. s[1] # t[1]
    BY <1>1, <2>1 DEF ReleaseInv, OneOwn
  <2> QED BY <1>1, <2>2, <2>3 DEF PaysInv
<1>2. BaseInv /\ KeysInv /\ ReleaseInv /\ PaysInv => PaidOnce
  BY <1>1
<1> QED BY <1>2, Always, KeysAlways, ReleaseAlways, PaysAlways, PTL
=============================================================================
