------------------------------ MODULE PayPalProofs ------------------------------
(***************************************************************************)
(* Proofs about the PayPal rail, for any number of payouts, batches and    *)
(* passes: whatever is re-sent, released, retried, linked or confirmed by  *)
(* hand, a payout is in one payment that stands, and what the database     *)
(* says of it is so.                                                       *)
(*                                                                         *)
(* They suppose that an admin who releases a held batch has checked that   *)
(* PayPal has none (AdminChecks): nothing in the code makes sure of it.    *)
(*                                                                         *)
(* The invariant says when a batch is clean (PayPal has none of it, and    *)
(* gets none), what each pass may still believe of the batch in its hand,  *)
(* and that a batch PayPal could make again is not sent any more. Goes     *)
(* says what a step may do to each variable, and is all that the other     *)
(* passes and the payouts need to know of it; Fine adds what the pass that *)
(* steps needs, and is proved of every action.                             *)
(***************************************************************************)
EXTENDS PayPalPayouts, TLAPS, FiniteSetTheorems

-----------------------------------------------------------------------------
(* The invariant.                                                             *)

\* PayPal has no batch for b, and gets none that was sent.
Copied(b) == \E k \in Copies : Exists(<<b, k>>)
Clean(b) == ~ Copied(b) /\ \A q \in posts : q[1] # b

\* What a batch holds is frozen with it, and what it stamped is of it.
Frozen ==
  /\ \A b \in PayoutBatches : payoutState[b] = "none" <=> contents[b] = {}
  /\ \A p \in Payouts : stampedBy[p] # None => p \in contents[stampedBy[p]]
  /\ \A r \in Remotes, p \in Payouts : item[r][p] # "absent" => p \in contents[r[1]]

\* Of one sender_batch_id PayPal makes one batch: one that it could make again
\* is not sent any more.
OneCopy == \A b \in PayoutBatches : \A j, k \in Copies : Exists(<<b, j>>) /\ Exists(<<b, k>>) => j = k
Expired ==
  \A b \in PayoutBatches : age[b] = "gone" =>
    /\ Copied(b) /\ \A q \in posts : q[1] # b
    /\ \A w \in Passes : Job(w) = b => pass[w].pc \notin {"lease", "ready"}

\* What the state of a batch says of PayPal.
StateTrue ==
  /\ \A b \in PayoutBatches :
       /\ payoutState[b] \in {"none", "file", "intent", "failed", "released"} => Clean(b)
       /\ payoutState[b] \in Syncable => linked[b] # None
       /\ linked[b] # None => linked[b][1] = b /\ Exists(linked[b])
       /\ payoutState[b] \in {"completed", "denied"} => Stamped(b) = {}
       /\ payoutState[b] \in Open /\ ~ Copied(b) =>
            \A p \in contents[b] : stampedBy[p] = b /\ ~ paid[p]
  /\ \A q \in posts : payoutState[q[1]] \in Open \/ Copied(q[1])

\* A payout the brand confirmed is in no batch that PayPal has.
HandPaid ==
  \A p \in byHand :
    paid[p] /\ (stampedBy[p] # None => payoutState[stampedBy[p]] \in {"failed", "released", "file"})

\* What a pass holds.
Sees(saw, now) ==
  /\ saw = "denied" => now = "denied"
  /\ saw = "returned" => now = "returned"
  /\ saw = "success" => now \in {"success", "returned"}

PassTrue(w) ==
  /\ pass[w].pc \notin {"idle", "confirm"} => Job(w) # None
  /\ pass[w].pc \in {"lease", "ready", "await"} => payoutState[Job(w)] # "none"
  /\ PassAt(w, "ready") /\ Leased(w, {"intent", "posted"}) => payoutState[Job(w)] = pass[w].prior
  /\ pass[w].pc \in {"lease", "ready"} => pass[w].hand = None
  /\ pass[w].pc \in {"ready", "await"} => pass[w].prior \in {"intent", "posted"}
  /\ PassAt(w, "await") =>
       /\ pass[w].hand \in Remotes => pass[w].hand[1] = Job(w) /\ Exists(pass[w].hand)
       /\ pass[w].prior = "intent" /\ Leased(w, {"posted"}) =>
            /\ \A q \in posts : q[1] = Job(w) => q[2] = w
            /\ pass[w].hand \notin Remotes => ~ Copied(Job(w))
  /\ PassAt(w, "free") => payoutState[Job(w)] \in {"failed", "released"}
  /\ pass[w].pc \in {"read", "list", "apply"} =>
       /\ pass[w].hand \in Remotes /\ pass[w].hand[1] = Job(w) /\ Exists(pass[w].hand)
       /\ linked[Job(w)] # None
  /\ pass[w].pc \in {"list", "apply"} => \A p \in Payouts : Sees(pass[w].saw[p], item[pass[w].hand][p])
  /\ PassAt(w, "confirm") =>
       /\ pass[w].hand \in Payouts
       /\ Job(w) # None => payoutState[Job(w)] \notin Open \cup {"none"}
  /\ PassAt(w, "unclaim") =>
       /\ pass[w].hand \in Payouts /\ \E k \in Copies : item[<<Job(w), k>>][pass[w].hand] = "returned"

\* Who waits for a request has no answer yet.
Waited ==
  \A q \in posts : q[2] # None => PassAt(q[2], "await") /\ Job(q[2]) = q[1] /\ pass[q[2]].hand = None

PayPalInv ==
  /\ PayPalTypeOK /\ Frozen /\ OneCopy /\ Expired /\ StateTrue /\ HandPaid
  /\ \A w \in Passes : PassTrue(w)
  /\ Waited /\ ReleasedIsUnpaid /\ PaidIsTrue

-----------------------------------------------------------------------------
(* What one pass does.                                                        *)

Labels == {"idle", "lease", "ready", "await", "free", "synclease", "read", "list", "apply", "confirm", "unclaim"}
Hands == Remotes \cup Payouts \cup {Refused, StaleToken, None}

\* The others are where they were.
Alone(w) == \A v \in Passes : v # w => pass'[v] = pass[v]
Typed == pass' \in [Passes -> PassRecords]

\* PassRecords, under names that stay folded.
LEMMA Records ==
  /\ PassRecords = [pc : Labels, job : PayoutBatches \cup {None}, prior : {"intent", "posted", None},
                    hand : Hands, ours : SUBSET (Payouts \X BOOLEAN), saw : [Payouts -> Statuses]]
  /\ PayPalTypeOK => pass \in [Passes -> PassRecords]
BY DEF PassRecords, Labels, Hands, PayPalTypeOK

\* The three ways a pass moves on.
LEMMA Went ==
  ASSUME PayPalTypeOK, NEW w \in Passes, NEW l \in Labels, PassGo(w, l)
  PROVE  /\ Typed /\ Alone(w) /\ pass'[w].pc = l
         /\ pass'[w].job = pass[w].job /\ pass'[w].prior = pass[w].prior /\ pass'[w].hand = pass[w].hand
         /\ pass'[w].ours = pass[w].ours /\ pass'[w].saw = pass[w].saw
<1> HIDE DEF Labels
<1> QED BY Records DEF PassGo, Typed, Alone

LEMMA Began ==
  ASSUME PayPalTypeOK, NEW w \in Passes, NEW l \in Labels, NEW b \in PayoutBatches \cup {None}, NEW h \in Hands,
         PassBegin(w, l, b, h)
  PROVE  /\ Typed /\ Alone(w) /\ pass'[w].pc = l /\ pass'[w].job = b /\ pass'[w].hand = h
         /\ pass'[w].prior = pass[w].prior
<1> PICK f, B, P, O, S : /\ f = pass /\ B = PayoutBatches \cup {None} /\ P = {"intent", "posted", None}
                         /\ O = SUBSET (Payouts \X BOOLEAN) /\ S = [Payouts -> Statuses]
  OBVIOUS
<1> HIDE DEF Labels, Hands
<1>1. PassRecords = [pc : Labels, job : B, prior : P, hand : Hands, ours : O, saw : S]
  BY Records
<1>2. f \in [Passes -> [pc : Labels, job : B, prior : P, hand : Hands, ours : O, saw : S]] /\ b \in B
  BY <1>1, Records
<1> DEFINE T == [pc : Labels, job : B, prior : P, hand : Hands, ours : O, saw : S]
           k == [f[w] EXCEPT !.pc = l, !.job = b, !.hand = h]
<1>3. f[w] \in T
  BY <1>2
<1>4. k \in T /\ k.pc = l /\ k.job = b /\ k.hand = h /\ k.prior = f[w].prior
  BY <1>2, <1>3
<1>5. pass' = [f EXCEPT ![w] = k]
  BY DEF PassBegin
<1> HIDE DEF k, T
<1>6. f \in [Passes -> T] /\ PassRecords = T
  BY <1>1, <1>2 DEF T
<1> QED BY <1>4, <1>5, <1>6 DEF Typed, Alone

LEMMA WentIdle ==
  ASSUME PayPalTypeOK, NEW w \in Passes, PassDone(w)
  PROVE  Typed /\ Alone(w) /\ pass'[w] = Idle /\ pass'[w].pc = "idle" /\ pass'[w].job = None
<1>1. Idle \in PassRecords /\ Idle.pc = "idle" /\ Idle.job = None
  BY DEF Idle, PassRecords, Statuses
<1> HIDE DEF Idle, PassRecords
<1> QED BY <1>1 DEF PayPalTypeOK, PassDone, Typed, Alone

-----------------------------------------------------------------------------
(* What a step may do, w being the pass that takes it, or None.               *)

Left == {"failed", "released"}

RowsGo ==
  \A b \in PayoutBatches : payoutState'[b] # payoutState[b] =>
    \/ payoutState[b] = "none" /\ payoutState'[b] \in {"intent", "file"}
    \/ payoutState[b] \in Open /\ payoutState'[b] \in {"posted", "reconcile_required"}
    \/ payoutState[b] \in Open /\ payoutState'[b] \in {"intent"} \cup Left /\ Clean(b)
    \/ payoutState[b] \in Open /\ payoutState'[b] = "submitted" /\ linked'[b] # None
    \/ payoutState[b] \in Syncable /\ payoutState'[b] \in {"completed", "denied"} /\ Stamped(b) = {}

LinksGo ==
  \A b \in PayoutBatches : linked'[b] # linked[b] =>
    linked'[b] \in Remotes /\ linked'[b][1] = b /\ Exists(linked'[b])

\* A lease is taken by the pass at work, and who moves a batch holds it or
\* takes it away.
LeasesGo(w) ==
  \A b \in PayoutBatches :
    /\ leaseAt'[b] \in {leaseAt[b], w, None}
    /\ payoutState'[b] # payoutState[b] =>
         payoutState[b] = "none" \/ leaseAt'[b] = None \/ (leaseAt[b] = w /\ w # None)

ContentsGo ==
  \A b \in PayoutBatches :
    /\ contents'[b] # contents[b] =>
         /\ payoutState[b] = "none" /\ payoutState'[b] # "none" /\ contents'[b] # {}
         /\ \A p \in contents'[b] : stampedBy'[p] = b /\ stampedBy[p] = None /\ ~ paid[p] /\ ~ paid'[p]
    /\ payoutState[b] = "none" /\ payoutState'[b] # "none" => contents'[b] # contents[b]

StampsGo ==
  \A p \in Payouts : stampedBy'[p] # stampedBy[p] =>
    \/ /\ stampedBy[p] = None /\ ~ paid[p] /\ stampedBy'[p] \in PayoutBatches
       /\ p \in contents'[stampedBy'[p]] /\ contents'[stampedBy'[p]] # contents[stampedBy'[p]]
    \/ /\ stampedBy'[p] = None /\ ~ paid[p] /\ ~ paid'[p]
       /\ payoutState[stampedBy[p]] \in Left \cup {"denied", "file"}
    \/ /\ stampedBy'[p] = None /\ ~ paid'[p]
       /\ \E k \in Copies : item[<<stampedBy[p], k>>][p] \in GivenBack

PaidGoes ==
  /\ byHand \subseteq byHand'
  /\ \A p \in byHand' \ byHand : paid'[p] /\ ~ paid[p]
  /\ \A p \in Payouts : paid'[p] # paid[p] =>
       \/ /\ ~ paid'[p] /\ stampedBy'[p] = None /\ stampedBy[p] # None
          /\ \E k \in Copies : item[<<stampedBy[p], k>>][p] \in GivenBack
       \/ /\ paid'[p] /\ stampedBy'[p] = stampedBy[p] /\ stampedBy[p] # None /\ linked[stampedBy[p]] # None
          /\ item[linked[stampedBy[p]]][p] \in {"success", "returned"} /\ p \notin byHand'
       \/ /\ paid'[p] /\ stampedBy'[p] = stampedBy[p] /\ p \in byHand'
          /\ stampedBy[p] # None => payoutState[stampedBy[p]] \in Left \cup {"file"}

\* PayPal makes a batch of a request that was sent, or moves an item on.
Made(w, r) ==
  /\ ~ Copied(r[1]) /\ \E q \in posts : q[1] = r[1] /\ q[2] = w
  /\ \A s \in Remotes : s # r => item'[s] = item[s]
  /\ \A p \in Payouts : item'[r][p] = IF p \in contents[r[1]] THEN "processing" ELSE "absent"
ItemsGo(w) ==
  \/ \E r \in Remotes : Made(w, r)
  \/ \A r \in Remotes, p \in Payouts : item'[r][p] # item[r][p] =>
       /\ item[r][p] \notin GivenBack \cup {"absent"} /\ item'[r][p] # "absent"
       /\ item[r][p] = "success" => item'[r][p] = "returned"

\* A request is one a pass that holds the lease has just armed, or one that
\* nobody waits for any more.
PostsGo(w) ==
  \A q \in posts' \ posts :
    \/ /\ w # None /\ q = <<Job(w), w>> /\ leaseAt[Job(w)] = w
       /\ payoutState[Job(w)] \in Open /\ payoutState'[Job(w)] = "posted"
       /\ PassAt(w, "ready") /\ pass'[w].pc = "await" /\ pass'[w].job = Job(w)
    \/ q[2] = None /\ w # None /\ <<q[1], w>> \in posts

\* (What is said of ages, in a step that ages b.)
AgesGo ==
  \A b \in PayoutBatches : age'[b] = "gone" /\ age[b] # "gone" =>
    /\ Copied(b) /\ \A q \in posts : q[1] # b
    /\ \A v \in Passes : Job(v) = b => pass[v].pc \notin {"lease", "ready"}
    /\ posts' = posts /\ pass' = pass

Goes(w) ==
  /\ RowsGo /\ LinksGo /\ LeasesGo(w) /\ ContentsGo /\ StampsGo /\ PaidGoes /\ ItemsGo(w) /\ PostsGo(w) /\ AgesGo

-----------------------------------------------------------------------------
(* What every such step keeps.                                                *)

\* What PayPal has once it has for good, and what it says last.
LEMMA ItemsKept ==
  ASSUME PayPalTypeOK, NEW w, ItemsGo(w)
  PROVE  /\ \A r \in Remotes, p \in Payouts :
              /\ item[r][p] # "absent" => item'[r][p] # "absent"
              /\ \A s \in Statuses : Sees(s, item[r][p]) => Sees(s, item'[r][p])
              /\ item[r][p] \in GivenBack => item'[r][p] = item[r][p]
         /\ \A r \in Remotes : Exists(r) => Exists(r)'
         /\ \A b \in PayoutBatches : Copied(b) => Copied(b)'
<1>1. \A r \in Remotes, p \in Payouts :
              /\ item[r][p] # "absent" => item'[r][p] # "absent"
              /\ \A s \in Statuses : Sees(s, item[r][p]) => Sees(s, item'[r][p])
              /\ item[r][p] \in GivenBack => item'[r][p] = item[r][p]
  <2> SUFFICES ASSUME NEW r \in Remotes, NEW p \in Payouts, item[r][p] # item'[r][p]
               PROVE  /\ item[r][p] # "absent" => item'[r][p] # "absent"
                      /\ \A s \in Statuses : Sees(s, item[r][p]) => Sees(s, item'[r][p])
                      /\ item[r][p] \in GivenBack => item'[r][p] = item[r][p]
    OBVIOUS
  <2>1. CASE \E x \in Remotes : Made(w, x)
    <3>1. Made(w, r) /\ r[1] \in PayoutBatches /\ r = <<r[1], r[2]>> /\ r[2] \in Copies
      BY <2>1 DEF Made, Remotes
    <3>2. ~ Exists(r)
      BY <3>1 DEF Made, Copied
    <3> QED BY <3>2 DEF Exists, Sees, GivenBack
  <2>2. CASE ~ \E x \in Remotes : Made(w, x)
    BY <2>2 DEF ItemsGo, Sees, GivenBack, Statuses
  <2> QED BY <2>1, <2>2
<1>2. \A r \in Remotes : Exists(r) => Exists(r)'
  BY <1>1 DEF Exists
<1>3. \A b \in PayoutBatches : Copied(b) => Copied(b)'
  BY <1>2 DEF Copied, Remotes
<1> QED BY <1>1, <1>2, <1>3

\* A batch comes to be at PayPal only through a request.
LEMMA CopiedBy ==
  ASSUME PayPalTypeOK, NEW w, ItemsGo(w), NEW r \in Remotes, Exists(r)', ~ Exists(r)
  PROVE  Made(w, r)
BY DEF ItemsGo, Made, Exists, GivenBack

\* What is clean stays so while nothing of it may be posted.
LEMMA CleanKept ==
  ASSUME PayPalTypeOK, NEW w, Goes(w), NEW b \in PayoutBatches, Clean(b),
         payoutState'[b] # "posted"
  PROVE  Clean(b)'
<1>1. ~ Copied(b)'
  <2> SUFFICES ASSUME NEW k \in Copies, Exists(<<b, k>>)' PROVE FALSE
    BY DEF Copied
  <2>1. <<b, k>> \in Remotes /\ ~ Exists(<<b, k>>)
    BY DEF Clean, Copied, Remotes
  <2>2. Made(w, <<b, k>>)
    BY <2>1, CopiedBy DEF Goes
  <2> QED BY <2>2 DEF Made, Clean
<1>2. ASSUME NEW q \in posts' PROVE q[1] # b
  <2>1. CASE q \in posts
    BY <2>1 DEF Clean
  <2>2. CASE q = <<Job(w), w>> /\ payoutState'[Job(w)] = "posted"
    <3>1. q[1] = Job(w)
      BY <2>2
    <3> QED BY <2>2, <3>1
  <2>3. CASE <<q[1], w>> \in posts
    BY <2>3 DEF Clean
  <2> QED BY <2>1, <2>2, <2>3 DEF Goes, PostsGo
<1> QED BY <1>1, <1>2 DEF Clean

\* What a batch holds stays what it stamped.
LEMMA FrozenKept ==
  ASSUME PayPalTypeOK, PayPalTypeOK', Frozen, NEW w, Goes(w)
  PROVE  Frozen'
<1>1. ASSUME NEW b \in PayoutBatches PROVE (payoutState[b] = "none" <=> contents[b] = {})'
  BY DEF Frozen, Goes, RowsGo, ContentsGo, Open, Left
<1>2. ASSUME NEW p \in Payouts, stampedBy'[p] # None PROVE p \in contents'[stampedBy'[p]]
  <2>1. CASE stampedBy'[p] = stampedBy[p]
    <3>1. p \in contents[stampedBy[p]] /\ stampedBy[p] \in PayoutBatches
      BY <1>2, <2>1 DEF Frozen, PayPalTypeOK
    <3> QED BY <2>1, <3>1 DEF Frozen, Goes, ContentsGo
  <2>2. CASE stampedBy'[p] # stampedBy[p]
    BY <1>2, <2>2 DEF Goes, StampsGo
  <2> QED BY <2>1, <2>2
<1>3. ASSUME NEW r \in Remotes, NEW p \in Payouts, item'[r][p] # "absent" PROVE p \in contents'[r[1]]
  <2>1. r[1] \in PayoutBatches
    BY DEF Remotes
  <2>2. p \in contents[r[1]]
    <3>1. CASE item[r][p] # "absent"
      BY <3>1 DEF Frozen
    <3>2. CASE item[r][p] = "absent"
      <4>1. PICK s \in Remotes : Made(w, s)
        BY <1>3, <3>2 DEF Goes, ItemsGo
      <4> QED BY <1>3, <3>2, <4>1 DEF Made
    <3> QED BY <3>1, <3>2
  <2> QED BY <2>1, <2>2 DEF Frozen, Goes, ContentsGo
<1> QED BY <1>1, <1>2, <1>3 DEF Frozen

\* PayPal makes a second batch of none.
LEMMA OneCopyKept ==
  ASSUME PayPalTypeOK, OneCopy, NEW w, Goes(w)
  PROVE  OneCopy'
<1> SUFFICES ASSUME NEW b \in PayoutBatches, NEW j \in Copies, NEW k \in Copies,
                    Exists(<<b, j>>)', Exists(<<b, k>>)'
             PROVE  j = k
  BY DEF OneCopy
<1>1. <<b, j>> \in Remotes /\ <<b, k>> \in Remotes
  BY DEF Remotes
<1>2. CASE Exists(<<b, j>>) /\ Exists(<<b, k>>)
  BY <1>2 DEF OneCopy
<1>3. ASSUME NEW i \in Copies, NEW l \in Copies, Exists(<<b, i>>)', Exists(<<b, l>>)', ~ Exists(<<b, i>>)
      PROVE  i = l
  <2>1. <<b, i>> \in Remotes /\ <<b, l>> \in Remotes
    BY DEF Remotes
  <2>2. Made(w, <<b, i>>)
    BY <1>3, <2>1, CopiedBy DEF Goes
  <2>3. <<b, l>> # <<b, i>> => Exists(<<b, l>>)
    BY <1>3, <2>1, <2>2 DEF Made, Exists
  <2>4. ~ Exists(<<b, l>>)
    BY <2>2 DEF Made, Copied
  <2> QED BY <2>3, <2>4
<1> QED BY <1>2, <1>3

\* What left its batch is not paid by it.
LEMMA ReleasedKept ==
  ASSUME PayPalInv, PayPalTypeOK', NEW w, Goes(w)
  PROVE  ReleasedIsUnpaid'
<1> USE DEF PayPalInv
<1> SUFFICES ASSUME NEW b \in PayoutBatches, NEW p \in contents'[b], stampedBy'[p] # b,
                    NEW k \in Copies, Paying(<<b, k>>, p)'
             PROVE  FALSE
  BY DEF ReleasedIsUnpaid
<1>0. p \in Payouts /\ <<b, k>> \in Remotes
  BY DEF PayPalTypeOK, Remotes
<1>1. p \in contents[b]
  BY DEF Goes, ContentsGo
<1>2. item'[<<b, k>>][p] \notin GivenBack \cup {"absent"}
  BY DEF Paying
<1>3. Exists(<<b, k>>)'
  BY <1>0, <1>2 DEF Exists
<1>4. CASE stampedBy[p] # b
  <2>1. item[<<b, k>>][p] \in GivenBack \cup {"absent"}
    BY <1>0, <1>1, <1>4 DEF ReleasedIsUnpaid, Paying
  <2>2. PICK r \in Remotes : Made(w, r)
    BY <1>0, <1>2, <2>1 DEF Goes, ItemsGo
  <2>3. r = <<b, k>>
    BY <1>0, <1>2, <2>1, <2>2 DEF Made
  <2>4. ~ Copied(b) /\ \E q \in posts : q[1] = b
    BY <2>2, <2>3 DEF Made
  <2>5. payoutState[b] \in Open
    BY <2>4 DEF StateTrue
  <2> QED BY <1>1, <1>4, <2>4, <2>5 DEF StateTrue
<1>5. CASE stampedBy[p] = b
  <2>1. CASE ~ paid[p] /\ payoutState[b] \in Left \cup {"denied", "file"}
    <3>1. p \in Stamped(b)
      BY <1>0, <1>5, <2>1 DEF Stamped
    <3>2. Clean(b) /\ payoutState[b] \notin Open
      BY <2>1, <3>1 DEF StateTrue, Left, Open
    <3>3. Clean(b)'
      BY <3>2, CleanKept DEF Goes, RowsGo, Open
    <3> QED BY <1>3, <3>3 DEF Clean, Copied
  <2>2. CASE \E j \in Copies : item[<<b, j>>][p] \in GivenBack
    <3>1. PICK j \in Copies : item[<<b, j>>][p] \in GivenBack
      BY <2>2
    <3>2. <<b, j>> \in Remotes
      BY DEF Remotes
    <3>3. item'[<<b, j>>][p] \in GivenBack
      BY <1>0, <3>1, <3>2, ItemsKept DEF Goes
    <3>4. Exists(<<b, j>>)'
      BY <1>0, <3>3 DEF Exists, GivenBack
    <3>5. j = k
      BY <1>3, <3>4, OneCopyKept DEF OneCopy
    <3> QED BY <1>2, <3>3, <3>5
  <2>3. b # None
    BY PayPalAssumption
  <2> QED BY <1>0, <1>5, <2>1, <2>2, <2>3 DEF Goes, StampsGo
<1> QED BY <1>4, <1>5

\* A payout the brand paid stays out of every batch PayPal has.
LEMMA HandPaidKept ==
  ASSUME PayPalInv, PayPalTypeOK', NEW w, Goes(w)
  PROVE  HandPaid'
<1> USE DEF PayPalInv
<1> SUFFICES ASSUME NEW p \in byHand'
             PROVE  /\ paid'[p]
                    /\ stampedBy'[p] # None => payoutState'[stampedBy'[p]] \in {"failed", "released", "file"}
  BY DEF HandPaid
<1>0. p \in Payouts
  BY DEF PayPalTypeOK
<1>1. stampedBy[p] # None => stampedBy[p] \in PayoutBatches
  BY <1>0 DEF PayPalTypeOK
<1>2. stampedBy[p] # None /\ payoutState[stampedBy[p]] \in {"failed", "released", "file"} =>
         ~ \E k \in Copies : item[<<stampedBy[p], k>>][p] \in GivenBack
  BY <1>0, <1>1 DEF StateTrue, Clean, Copied, Exists, GivenBack
<1>3. \A b \in PayoutBatches : payoutState[b] \in {"failed", "released", "file"} => payoutState'[b] = payoutState[b]
  BY DEF Goes, RowsGo, Open, Syncable
<1>4. CASE p \in byHand
  <2>1. paid[p] /\ (stampedBy[p] # None => payoutState[stampedBy[p]] \in {"failed", "released", "file"})
    BY <1>4 DEF HandPaid
  <2>2. p \in byHand'
    OBVIOUS
  <2>3. stampedBy'[p] = stampedBy[p]
    BY <1>0, <1>2, <2>1 DEF Goes, StampsGo, PayPalTypeOK
  <2>4. paid'[p]
    BY <1>0, <1>2, <2>1, <2>2, <2>3 DEF Goes, PaidGoes, PayPalTypeOK
  <2> QED BY <1>1, <1>3, <2>1, <2>3, <2>4
<1>5. CASE p \notin byHand
  <2>1. paid'[p] /\ ~ paid[p]
    BY <1>5 DEF Goes, PaidGoes
  <2>2. /\ stampedBy'[p] = stampedBy[p]
        /\ stampedBy[p] # None => payoutState[stampedBy[p]] \in Left \cup {"file"}
    BY <1>0, <2>1, <1>5 DEF Goes, PaidGoes, StampsGo
  <2> QED BY <1>1, <1>3, <2>1, <2>2 DEF Left
<1> QED BY <1>4, <1>5

\* What reads as paid was paid, in the batch that stamped it.
LEMMA PaidKept ==
  ASSUME PayPalInv, PayPalTypeOK', NEW w, Goes(w)
  PROVE  PaidIsTrue'
<1> USE DEF PayPalInv
<1> SUFFICES ASSUME NEW p \in Payouts, paid'[p], p \notin byHand'
             PROVE  /\ stampedBy'[p] # None /\ linked'[stampedBy'[p]] # None
                    /\ item'[linked'[stampedBy'[p]]][p] \in {"success", "returned"}
  BY DEF PaidIsTrue
<1> PICK b : b = stampedBy[p]
  OBVIOUS
<1>1. /\ stampedBy'[p] = b /\ b # None /\ linked[b] # None
      /\ item[linked[b]][p] \in {"success", "returned"}
  <2>1. CASE paid[p]
    <3>1. p \notin byHand
      BY DEF Goes, PaidGoes
    <3>2. /\ b # None /\ linked[b] # None
          /\ item[linked[b]][p] \in {"success", "returned"}
      BY <2>1, <3>1 DEF PaidIsTrue
    <3>3. stampedBy'[p] = b
      BY <2>1, <3>2 DEF Goes, StampsGo
    <3> QED BY <3>2, <3>3
  <2>2. CASE ~ paid[p]
    BY <2>2 DEF Goes, PaidGoes, StampsGo
  <2> QED BY <2>1, <2>2
<1>2. b \in PayoutBatches /\ linked[b] \in Remotes /\ Exists(linked[b]) /\ linked[b][1] = b
  BY <1>1 DEF PayPalTypeOK, StateTrue
<1>3. linked'[b] = linked[b]
  <2> SUFFICES ASSUME linked'[b] # linked[b] PROVE FALSE
    OBVIOUS
  <2>1. linked'[b] \in Remotes /\ linked'[b][1] = b /\ Exists(linked'[b])
    BY <1>2 DEF Goes, LinksGo
  <2>2. PICK j \in Copies, k \in Copies : linked[b] = <<b, j>> /\ linked'[b] = <<b, k>>
    BY <1>2, <2>1 DEF Remotes
  <2> QED BY <1>2, <2>1, <2>2 DEF OneCopy
<1>4. item'[linked[b]][p] \in {"success", "returned"}
  BY <1>1, <1>2, ItemsKept DEF Goes, Sees, Statuses
<1> QED BY <1>1, <1>3, <1>4

\* The state of a batch stays true of PayPal.
LEMMA StateKept ==
  ASSUME PayPalInv, PayPalTypeOK', NEW w, Goes(w)
  PROVE  StateTrue'
<1> USE DEF PayPalInv
<1>1. ASSUME NEW b \in PayoutBatches, payoutState'[b] \in {"none", "file", "intent", "failed", "released"}
      PROVE  Clean(b)'
  <2>1. Clean(b)
    BY <1>1 DEF Goes, RowsGo, StateTrue, Left, Syncable
  <2> QED BY <1>1, <2>1, CleanKept
<1>2. ASSUME NEW b \in PayoutBatches
      PROVE  /\ payoutState'[b] \in Syncable => linked'[b] # None
             /\ linked'[b] # None => linked'[b][1] = b /\ \E p \in Payouts : item'[linked'[b]][p] # "absent"
  <2>1. linked'[b] # None => linked'[b][1] = b /\ linked'[b] \in Remotes /\ Exists(linked'[b])
    BY DEF Goes, LinksGo, StateTrue, PayPalTypeOK
  <2> PICK r : r = linked'[b]
    OBVIOUS
  <2>2. r # None => Exists(r)'
    BY <2>1, ItemsKept DEF Goes
  <2>3. None \notin Remotes
    BY PayPalAssumption
  <2>4. payoutState'[b] \in Syncable => linked'[b] # None
    BY <2>3 DEF Goes, LinksGo, RowsGo, StateTrue, Syncable, Open, Left
  <2> QED BY <2>1, <2>2, <2>4 DEF Exists
<1>3. ASSUME NEW b \in PayoutBatches, payoutState'[b] \in {"completed", "denied"}
      PROVE  Stamped(b)' = {}
  <2>1. Stamped(b) = {} /\ payoutState[b] # "none"
    BY <1>3 DEF Goes, RowsGo, StateTrue, Left, Open, Syncable
  <2>2. contents'[b] = contents[b] /\ b # None
    BY <2>1, PayPalAssumption DEF Goes, ContentsGo
  <2> SUFFICES ASSUME NEW p \in Payouts, stampedBy'[p] = b, ~ paid'[p] PROVE FALSE
    BY DEF Stamped
  <2>3. stampedBy[p] = b
    BY <2>2 DEF Goes, StampsGo
  <2>4. ~ paid[p]
    BY <2>2, <2>3 DEF Goes, PaidGoes, PayPalTypeOK
  <2> QED BY <2>1, <2>3, <2>4 DEF Stamped
<1>4. ASSUME NEW b \in PayoutBatches, payoutState'[b] \in Open, ~ Copied(b)', NEW p \in contents'[b]
      PROVE  stampedBy'[p] = b /\ ~ paid'[p]
  <2>0. p \in Payouts /\ b # None
    BY PayPalAssumption DEF PayPalTypeOK
  <2>1. ~ Copied(b)
    BY <1>4, ItemsKept DEF Goes
  <2>2. CASE contents'[b] # contents[b]
    BY <2>2 DEF Goes, ContentsGo
  <2>3. CASE contents'[b] = contents[b]
    <3>1. payoutState[b] \in Open
      BY <1>4, <2>3 DEF Goes, RowsGo, ContentsGo, Open, Syncable
    <3>2. stampedBy[p] = b /\ ~ paid[p]
      BY <2>1, <2>3, <3>1 DEF StateTrue
    <3>3. ~ \E k \in Copies : item[<<b, k>>][p] \in GivenBack
      BY <2>0, <2>1 DEF Copied, Exists, GivenBack
    <3>4. stampedBy'[p] = b
      BY <2>0, <3>1, <3>2, <3>3 DEF Goes, StampsGo, Open, Left
    <3>5. linked[b] = None
      <4> SUFFICES ASSUME linked[b] # None PROVE FALSE
        OBVIOUS
      <4>1. linked[b] \in Remotes /\ linked[b][1] = b /\ Exists(linked[b])
        BY DEF StateTrue, PayPalTypeOK
      <4>2. PICK k \in Copies : linked[b] = <<b, k>>
        BY <4>1 DEF Remotes
      <4> QED BY <2>1, <4>1, <4>2 DEF Copied
    <3>6. ~ paid'[p]
      BY <2>0, <3>1, <3>2, <3>3, <3>4, <3>5 DEF Goes, PaidGoes, Open, Left, PayPalTypeOK
    <3> QED BY <3>4, <3>6
  <2> QED BY <2>2, <2>3
<1>5. ASSUME NEW q \in posts' PROVE payoutState'[q[1]] \in Open \/ Copied(q[1])'
  <2>0. q[1] \in PayoutBatches
    BY DEF PayPalTypeOK
  <2>1. CASE Copied(q[1])
    BY <2>0, <2>1, ItemsKept DEF Goes
  <2>2. CASE ~ Copied(q[1]) /\ payoutState'[q[1]] \notin Open
    <3>1. ~ \E r \in posts : r[1] = q[1]
      <4> SUFFICES ASSUME NEW r \in posts, r[1] = q[1] PROVE FALSE
        OBVIOUS
      <4>1. payoutState[q[1]] \in Open
        BY <2>2 DEF StateTrue
      <4>2. ~ Clean(q[1])
        BY DEF Clean
      <4>3. payoutState'[q[1]] \in {"completed", "denied"} /\ payoutState[q[1]] \in Syncable
        BY <2>0, <2>2, <4>1, <4>2 DEF Goes, RowsGo, Open
      <4>4. linked[q[1]] # None /\ linked[q[1]] \in Remotes
        BY <2>0, <4>3 DEF StateTrue, PayPalTypeOK
      <4> QED BY <2>0, <2>2, <4>4 DEF StateTrue, Copied, Remotes
    <3>2. q \notin posts
      BY <3>1
    <3>3. q = <<Job(w), w>> => q[1] = Job(w)
      OBVIOUS
    <3>4. <<q[1], w>> \notin posts
      BY <3>1
    <3> QED BY <2>2, <3>2, <3>3, <3>4 DEF Goes, PostsGo, Open
  <2> QED BY <2>1, <2>2
<1> QED BY <1>1, <1>2, <1>3, <1>4, <1>5 DEF StateTrue, Exists

\* What a pass at work comes to: at most it takes a young batch, and it arms
\* one it was ready to send.
Works(w) ==
  IF w = None THEN UNCHANGED pass
  ELSE /\ w \in Passes /\ Alone(w)
       /\ pass'[w].pc \in {"lease", "ready"} =>
            \/ PassAt(w, "lease") /\ pass'[w].job = Job(w)
            \/ age[pass'[w].job] # "gone" /\ age' = age

\* An expired batch is not sent any more.
LEMMA ExpiredKept ==
  ASSUME PayPalInv, NEW w, Goes(w), Works(w)
  PROVE  Expired'
<1> USE DEF PayPalInv
<1> SUFFICES ASSUME NEW b \in PayoutBatches, age'[b] = "gone"
             PROVE  /\ Copied(b)' /\ \A q \in posts' : q[1] # b
                    /\ \A v \in Passes : pass'[v].job = b => pass'[v].pc \notin {"lease", "ready"}
  BY DEF Expired, Job
<1>1. CASE age[b] # "gone"
  BY <1>1, ItemsKept DEF Goes, AgesGo, Job
<1>2. CASE age[b] = "gone"
  <2>1. /\ Copied(b) /\ \A q \in posts : q[1] # b
        /\ \A v \in Passes : Job(v) = b => pass[v].pc \notin {"lease", "ready"}
    BY <1>2 DEF Expired
  <2>2. ASSUME NEW v \in Passes, pass'[v].job = b PROVE pass'[v].pc \notin {"lease", "ready"}
    BY <1>2, <2>1, <2>2 DEF Works, Alone, Job, PassAt
  <2>3. ASSUME NEW q \in posts' PROVE q[1] # b
    <3>1. CASE q \in posts
      BY <2>1, <3>1
    <3>2. CASE q = <<Job(w), w>> /\ PassAt(w, "ready") /\ w \in Passes
      <4>1. q[1] = Job(w)
        BY <3>2
      <4> QED BY <2>1, <3>2, <4>1 DEF PassAt
    <3>3. CASE <<q[1], w>> \in posts
      BY <2>1, <3>3
    <3> QED BY <3>1, <3>2, <3>3 DEF Goes, PostsGo, Works
  <2> QED BY <2>1, <2>2, <2>3, ItemsKept DEF Goes
<1> QED BY <1>1, <1>2

\* What another pass holds stays true.
LEMMA OthersKept ==
  ASSUME PayPalInv, PayPalTypeOK', NEW w, Goes(w), NEW v \in Passes, v # w, pass'[v] = pass[v]
  PROVE  PassTrue(v)'
<1> USE DEF PayPalInv
<1> PICK b : b = Job(v)
  OBVIOUS
<1>0. PassTrue(v) /\ (b # None => b \in PayoutBatches) /\ b = pass'[v].job
  BY DEF PayPalTypeOK, PassRecords, Job
<1>1. b # None /\ leaseAt'[b] = v => leaseAt[b] = v
  BY <1>0, PayPalAssumption DEF Goes, LeasesGo
<1>2. b # None /\ leaseAt'[b] = v /\ payoutState'[b] # payoutState[b] => payoutState[b] = "none"
  BY <1>0, <1>1, PayPalAssumption DEF Goes, LeasesGo
<1>3. b # None /\ payoutState[b] # "none" => payoutState'[b] # "none"
  BY <1>0 DEF Goes, RowsGo, Left
<1>4. \A r \in Remotes : Exists(r) => Exists(r)'
  BY ItemsKept DEF Goes
<1>5. PassAt(v, "ready") /\ Leased(v, {"intent", "posted"})' => payoutState'[b] = pass[v].prior
  <2> SUFFICES ASSUME PassAt(v, "ready"), payoutState'[b] \in {"intent", "posted"}, leaseAt'[b] = v
               PROVE  payoutState'[b] = pass[v].prior
    BY <1>0 DEF Leased, Job
  <2>1. b # None /\ payoutState[b] # "none"
    BY <1>0 DEF PassTrue, PassAt
  <2> QED BY <1>0, <1>1, <1>2, <2>1 DEF PassTrue, Leased
<1>6. PassAt(v, "await") /\ pass[v].prior = "intent" /\ Leased(v, {"posted"})' =>
            /\ \A q \in posts' : q[1] = b => q[2] = v
            /\ pass[v].hand \notin Remotes => ~ Copied(b)'
  <2> SUFFICES ASSUME PassAt(v, "await"), pass[v].prior = "intent", payoutState'[b] = "posted", leaseAt'[b] = v
               PROVE  /\ \A q \in posts' : q[1] = b => q[2] = v
                      /\ pass[v].hand \notin Remotes => ~ Copied(b)'
    BY <1>0 DEF Leased, Job
  <2>1. b # None /\ payoutState[b] = "posted" /\ leaseAt[b] = v
    BY <1>0, <1>1, <1>2 DEF PassTrue, PassAt
  <2>2. /\ \A q \in posts : q[1] = b => q[2] = v
        /\ pass[v].hand \notin Remotes => ~ Copied(b)
    BY <1>0, <2>1 DEF PassTrue, Leased
  <2>3. ASSUME NEW q \in posts', q[1] = b PROVE q[2] = v
    <3>1. CASE q \in posts
      BY <2>2, <2>3, <3>1
    <3>2. CASE q = <<Job(w), w>> /\ leaseAt[Job(w)] = w
      BY <2>1, <2>3, <3>2
    <3>3. CASE <<q[1], w>> \in posts
      BY <2>2, <2>3, <3>3
    <3> QED BY <3>1, <3>2, <3>3 DEF Goes, PostsGo
  <2>4. ASSUME pass[v].hand \notin Remotes PROVE ~ Copied(b)'
    <3> SUFFICES ASSUME NEW k \in Copies, Exists(<<b, k>>)' PROVE FALSE
      BY DEF Copied
    <3>1. <<b, k>> \in Remotes /\ ~ Exists(<<b, k>>)
      BY <1>0, <2>1, <2>2, <2>4 DEF Copied, Remotes
    <3>2. Made(w, <<b, k>>)
      BY <3>1, CopiedBy DEF Goes
    <3> QED BY <2>2, <3>2 DEF Made
  <2> QED BY <2>3, <2>4
<1>7. PassAt(v, "free") => payoutState'[b] \in {"failed", "released"}
  BY <1>0 DEF PassTrue, PassAt, Goes, RowsGo, Open, Syncable
<1>8. pass[v].pc \in {"list", "apply"} =>
        \A p \in Payouts : Sees(pass[v].saw[p], item'[pass[v].hand][p])
  <2> SUFFICES ASSUME pass[v].pc \in {"list", "apply"}, NEW p \in Payouts
               PROVE  Sees(pass[v].saw[p], item'[pass[v].hand][p])
    OBVIOUS
  <2>1. Sees(pass[v].saw[p], item[pass[v].hand][p]) /\ pass[v].hand \in Remotes
    BY <1>0 DEF PassTrue
  <2>2. pass[v].saw[p] \in Statuses
    BY DEF PayPalTypeOK, PassRecords
  <2> QED BY <2>1, <2>2, ItemsKept DEF Goes
<1>9. PassAt(v, "confirm") /\ b # None => payoutState'[b] \notin Open \cup {"none"}
  BY <1>0 DEF PassTrue, PassAt, Goes, RowsGo, Open, Syncable
<1>10. PassAt(v, "unclaim") => \E k \in Copies : item'[<<b, k>>][pass[v].hand] = "returned"
  <2> SUFFICES ASSUME PassAt(v, "unclaim")
               PROVE  \E k \in Copies : item'[<<b, k>>][pass[v].hand] = "returned"
    OBVIOUS
  <2>1. b # None /\ pass[v].hand \in Payouts
    BY <1>0 DEF PassTrue, PassAt
  <2>2. PICK k \in Copies : item[<<b, k>>][pass[v].hand] = "returned"
    BY <1>0 DEF PassTrue
  <2>3. <<b, k>> \in Remotes
    BY <1>0, <2>1 DEF Remotes
  <2> QED BY <2>1, <2>2, <2>3, ItemsKept DEF Goes, GivenBack
<1>11. b # None /\ linked[b] # None => linked'[b] # None
  BY <1>0, PayPalAssumption DEF Goes, LinksGo
<1> QED BY <1>0, <1>3, <1>4, <1>5, <1>6, <1>7, <1>8, <1>9, <1>10, <1>11 DEF PassTrue, PassAt, Job

-----------------------------------------------------------------------------
(* What each step does of all this.                                           *)

States == Open \cup Ended \cup {"none", "file", "completed"}

\* What is left alone goes nowhere.
LEMMA Same ==
  ASSUME NEW w
  PROVE  /\ payoutState' = payoutState => RowsGo
         /\ linked' = linked => LinksGo
         /\ payoutState' = payoutState /\ leaseAt' = leaseAt => LeasesGo(w)
         /\ contents' = contents /\ (\A b \in PayoutBatches : payoutState[b] = "none" => payoutState'[b] = "none") => ContentsGo
         /\ stampedBy' = stampedBy => StampsGo
         /\ paid' = paid /\ byHand' = byHand => PaidGoes
         /\ item' = item => ItemsGo(w)
         /\ posts' \subseteq posts => PostsGo(w)
         /\ age' = age => AgesGo
<1>1. /\ payoutState' = payoutState => RowsGo
      /\ linked' = linked => LinksGo
      /\ payoutState' = payoutState /\ leaseAt' = leaseAt => LeasesGo(w)
  BY DEF RowsGo, LinksGo, LeasesGo
<1>2. contents' = contents /\ (\A b \in PayoutBatches : payoutState[b] = "none" => payoutState'[b] = "none") => ContentsGo
  BY DEF ContentsGo
<1>3. /\ stampedBy' = stampedBy => StampsGo
      /\ paid' = paid /\ byHand' = byHand => PaidGoes
  BY DEF StampsGo, PaidGoes
<1>4. /\ item' = item => ItemsGo(w)
      /\ posts' \subseteq posts => PostsGo(w)
      /\ age' = age => AgesGo
  BY DEF ItemsGo, PostsGo, AgesGo
<1> QED BY <1>1, <1>2, <1>3, <1>4

\* A pass that is back holds nothing, and one that waits for no answer is
\* waited for by none.
LEMMA IdleTrue == ASSUME NEW w \in Passes, pass'[w].pc = "idle" PROVE PassTrue(w)'
BY DEF PassTrue, PassAt

LEMMA NobodyWaits ==
  ASSUME PayPalInv, NEW w \in Passes, ~ PassAt(w, "await") \/ pass[w].hand # None
  PROVE  \A q \in posts : q[2] # w
BY PayPalAssumption DEF PayPalInv, Waited

LEMMA WaitedKept ==
  ASSUME PayPalInv, PayPalTypeOK', NEW w \in Passes, Alone(w), \A q \in posts' : q[2] # w,
         \A q \in posts' : q[2] # None => q \in posts
  PROVE  Waited'
<1> SUFFICES ASSUME NEW q \in posts', q[2] # None
             PROVE  pass'[q[2]].pc = "await" /\ pass'[q[2]].job = q[1] /\ pass'[q[2]].hand = None
  BY DEF Waited, PassAt, Job
<1>1. q \in posts /\ q[2] \in Passes /\ q[2] # w
  BY DEF PayPalTypeOK
<1>2. pass'[q[2]] = pass[q[2]]
  BY <1>1 DEF Alone
<1> QED BY <1>1, <1>2 DEF PayPalInv, Waited, PassAt, Job

\* Where a leased batch goes.
LEMMA Moved ==
  ASSUME PayPalTypeOK, NEW w \in Passes, Job(w) \in PayoutBatches, NEW from, NEW to \in States, NEW l \in Labels,
         NEW drops \in BOOLEAN, NEW keeps \in BOOLEAN, Moves(w, from, to, l, drops, keeps)
  PROVE  /\ payoutState' \in [PayoutBatches -> States] /\ leaseAt' \in [PayoutBatches -> Passes \cup {None}]
         /\ sealed' \in [PayoutBatches -> BOOLEAN]
         /\ Typed /\ Alone(w) /\ LeasesGo(w)
         /\ \A b \in PayoutBatches : payoutState'[b] # payoutState[b] =>
              b = Job(w) /\ Leased(w, from) /\ payoutState'[b] = to
         /\ pass'[w].pc # "idle" => pass'[w].pc = l /\ pass'[w].job = Job(w) /\ payoutState'[Job(w)] = to
<1> PICK b : b = Job(w)
  OBVIOUS
<1>1. /\ payoutState \in [PayoutBatches -> States] /\ leaseAt \in [PayoutBatches -> Passes \cup {None}]
      /\ sealed \in [PayoutBatches -> BOOLEAN] /\ w # None
  BY PayPalAssumption DEF PayPalTypeOK, States
<1>2. CASE Leased(w, from)
  <2>1. /\ payoutState' = [payoutState EXCEPT ![b] = to]
        /\ leaseAt' = [leaseAt EXCEPT ![b] = IF drops THEN None ELSE @]
        /\ sealed' = [sealed EXCEPT ![b] = keeps /\ @]
        /\ IF l = "idle" THEN PassDone(w) ELSE PassGo(w, l)
        /\ leaseAt[b] = w
    BY <1>2 DEF Moves, Leased
  <2>2. Typed /\ Alone(w) /\ (pass'[w].pc # "idle" => pass'[w].pc = l /\ pass'[w].job = b)
    BY <2>1, Went, WentIdle DEF Job
  <2>3. LeasesGo(w)
    BY <1>1, <2>1 DEF LeasesGo
  <2>4. sealed' \in [PayoutBatches -> BOOLEAN]
    <3>1. (keeps /\ sealed[b]) \in BOOLEAN
      BY <1>1
    <3> QED BY <1>1, <2>1, <3>1
  <2> QED BY <1>1, <1>2, <2>1, <2>2, <2>3, <2>4
<1>3. CASE ~ Leased(w, from)
  <2>1. PassDone(w) /\ UNCHANGED <<payoutState, leaseAt, sealed>>
    BY <1>3 DEF Moves
  <2>2. Typed /\ Alone(w) /\ pass'[w].pc = "idle"
    BY <2>1, WentIdle
  <2> QED BY <1>1, <2>1, <2>2, Same
<1> QED BY <1>2, <1>3

\* All that is asked of a step.
Fine(w) == PayPalTypeOK' /\ Goes(w) /\ Works(w) /\ (w # None => PassTrue(w)') /\ Waited'

\* Such a step keeps the whole invariant.
LEMMA FineKeeps == ASSUME PayPalInv, NEW w, Fine(w) PROVE PayPalInv'
<1>1. \A v \in Passes : PassTrue(v)'
  <2> SUFFICES ASSUME NEW v \in Passes PROVE PassTrue(v)'
    OBVIOUS
  <2>1. CASE v = w
    BY <2>1, PayPalAssumption DEF Fine
  <2>2. CASE v # w
    <3>1. pass'[v] = pass[v]
      BY <2>2 DEF Fine, Works, Alone
    <3> QED BY <2>2, <3>1, OthersKept DEF Fine
  <2> QED BY <2>1, <2>2
<1>2. PayPalTypeOK' /\ Frozen' /\ OneCopy' /\ Expired' /\ StateTrue' /\ HandPaid' /\ Waited'
      /\ ReleasedIsUnpaid' /\ PaidIsTrue'
  BY FrozenKept, OneCopyKept, ExpiredKept, StateKept, HandPaidKept, ReleasedKept, PaidKept DEF Fine, PayPalInv
<1> QED BY <1>1, <1>2 DEF PayPalInv

\* A step of a pass that only moves its batch on.
LEMMA MovesFine ==
  ASSUME PayPalInv, NEW w \in Passes, Job(w) \in PayoutBatches, NEW from \in SUBSET States, "none" \notin from,
         NEW to \in States, NEW l \in {"idle", "free"}, NEW drops \in BOOLEAN, NEW keeps \in BOOLEAN,
         Moves(w, from, to, l, drops, keeps),
         UNCHANGED <<age, contents, payouts, paypal>>, LinksGo, linked' \in [PayoutBatches -> Remotes \cup {None}],
         l = "free" => to \in {"failed", "released"},
         ~ PassAt(w, "await") \/ pass[w].hand # None,
         RowsGo
  PROVE  Fine(w)
<1> USE DEF PayPalInv
<1>0. l \in Labels /\ PayPalTypeOK
  BY DEF Labels
<1>1. /\ payoutState' \in [PayoutBatches -> States] /\ leaseAt' \in [PayoutBatches -> Passes \cup {None}]
      /\ sealed' \in [PayoutBatches -> BOOLEAN]
      /\ Typed /\ Alone(w) /\ LeasesGo(w)
      /\ \A b \in PayoutBatches : payoutState'[b] # payoutState[b] => payoutState[b] \in from
      /\ pass'[w].pc # "idle" => pass'[w].pc = "free" /\ pass'[w].job = Job(w) /\ payoutState'[Job(w)] = to
                                 /\ to \in {"failed", "released"}
  <2>1. /\ payoutState' \in [PayoutBatches -> States] /\ leaseAt' \in [PayoutBatches -> Passes \cup {None}]
        /\ sealed' \in [PayoutBatches -> BOOLEAN]
        /\ Typed /\ Alone(w) /\ LeasesGo(w)
        /\ \A b \in PayoutBatches : payoutState'[b] # payoutState[b] =>
             b = Job(w) /\ Leased(w, from) /\ payoutState'[b] = to
        /\ pass'[w].pc # "idle" => pass'[w].pc = l /\ pass'[w].job = Job(w) /\ payoutState'[Job(w)] = to
    <3> HIDE DEF PayPalInv
    <3> QED BY <1>0, Moved
  <2> QED BY <2>1 DEF Leased
<1>2. PayPalTypeOK'
  BY <1>1 DEF PayPalTypeOK, Typed, States, payouts, paypal
<1>3. Goes(w)
  <2>1. ContentsGo /\ StampsGo /\ PaidGoes /\ ItemsGo(w) /\ PostsGo(w) /\ AgesGo
    BY <1>1, Same DEF payouts, paypal
  <2> QED BY <1>1, <2>1 DEF Goes
<1>4. Works(w)
  BY <1>1, PayPalAssumption DEF Works
<1>5. PassTrue(w)'
  <2>1. CASE pass'[w].pc = "idle"
    BY <2>1, IdleTrue
  <2>2. CASE pass'[w].pc = "free" /\ pass'[w].job = Job(w) /\ payoutState'[Job(w)] \in {"failed", "released"}
    <3>1. pass'[w].job # None
      BY <2>2, PayPalAssumption
    <3> QED BY <2>2, <3>1 DEF PassTrue, PassAt, Job, Leased
  <2> QED BY <1>1, <2>1, <2>2
<1>6. Waited'
  BY <1>1, <1>2, NobodyWaits, WaitedKept DEF paypal
<1> QED BY <1>2, <1>3, <1>4, <1>5, <1>6 DEF Fine

\* A step that only the pass itself remembers.
LEMMA PassOnly ==
  ASSUME PayPalInv, NEW w \in Passes, Typed, Alone(w), UNCHANGED <<rows, payouts, paypal>>,
         ~ PassAt(w, "await"), Works(w), PassTrue(w)'
  PROVE  Fine(w)
<1>1. PayPalTypeOK'
  BY DEF PayPalInv, PayPalTypeOK, Typed, rows, payouts, paypal
<1>2. Goes(w)
  <2>1. RowsGo /\ LinksGo /\ LeasesGo(w) /\ ContentsGo
    BY Same DEF rows
  <2>2. StampsGo /\ PaidGoes /\ ItemsGo(w) /\ PostsGo(w) /\ AgesGo
    BY Same DEF rows, payouts, paypal
  <2> QED BY <2>1, <2>2 DEF Goes
<1>3. Waited'
  BY <1>1, NobodyWaits, WaitedKept DEF paypal
<1> QED BY <1>1, <1>2, <1>3 DEF Fine

\* A pass that gives up.
LEMMA DoneFine ==
  ASSUME PayPalInv, NEW w \in Passes, PassDone(w), UNCHANGED <<rows, payouts, paypal>>, ~ PassAt(w, "await")
  PROVE  Fine(w)
<1>1. Typed /\ Alone(w) /\ pass'[w].pc = "idle"
  BY WentIdle DEF PayPalInv
<1>2. Works(w)
  BY <1>1, PayPalAssumption DEF Works
<1> QED BY <1>1, <1>2, IdleTrue, PassOnly

\* The batch of a pass at work.
LEMMA JobIs ==
  ASSUME PayPalInv, NEW w \in Passes, pass[w].pc \notin {"idle", "confirm"}
  PROVE  Job(w) \in PayoutBatches
BY DEF PayPalInv, PassTrue, PayPalTypeOK, PassRecords, Job

\* Of a batch that was never posted before PayPal has nothing, unless it says
\* so now.
LEMMA NeverSent ==
  ASSUME PayPalInv, NEW w \in Passes, pass[w].prior = "intent", Leased(w, {"intent", "posted"}),
         PassAt(w, "ready") \/ (PassAt(w, "await") /\ pass[w].hand \in {Refused, StaleToken})
  PROVE  Clean(Job(w))
<1> USE DEF PayPalInv
<1>1. Job(w) \in PayoutBatches
  BY JobIs DEF PassAt
<1>2. CASE payoutState[Job(w)] = "intent"
  BY <1>1, <1>2 DEF StateTrue
<1>3. CASE payoutState[Job(w)] = "posted" /\ PassAt(w, "await")
  <2>1. Leased(w, {"posted"}) /\ pass[w].hand \notin Remotes /\ pass[w].hand # None
    BY <1>3, PayPalAssumption DEF Leased, PassAt
  <2>2. ~ Copied(Job(w)) /\ \A q \in posts : q[1] = Job(w) => q[2] = w
    BY <1>3, <2>1 DEF PassTrue
  <2> QED BY <2>1, <2>2, NobodyWaits DEF Clean
<1>4. CASE PassAt(w, "ready")
  <2>1. payoutState[Job(w)] = "intent"
    BY <1>4 DEF PassTrue
  <2> QED BY <1>1, <2>1 DEF StateTrue
<1> QED BY <1>2, <1>3, <1>4 DEF Leased

\* failBatch, of a batch that was never posted before.
LEMMA FailsFine ==
  ASSUME PayPalInv, NEW w \in Passes, pass[w].prior = "intent", Fails(w, {"intent", "posted"}),
         UNCHANGED <<age, contents, linked, payouts, paypal>>,
         PassAt(w, "ready") \/ (PassAt(w, "await") /\ pass[w].hand \in {Refused, StaleToken})
  PROVE  Fine(w)
<1> USE DEF PayPalInv
<1>1. Job(w) \in PayoutBatches
  BY JobIs DEF PassAt
<1>2. Moves(w, {"intent", "posted"}, "failed", "free", TRUE, FALSE)
  BY DEF Fails
<1>3. RowsGo
  <2>1. \A b \in PayoutBatches : payoutState'[b] # payoutState[b] =>
          b = Job(w) /\ Leased(w, {"intent", "posted"}) /\ payoutState'[b] = "failed"
    BY <1>1, <1>2, Moved DEF States, Ended, Labels
  <2> QED BY <2>1, NeverSent DEF RowsGo, Leased, Open, Left
<1>4. ~ PassAt(w, "await") \/ pass[w].hand # None
  BY PayPalAssumption DEF PassAt
<1>5. LinksGo /\ linked' \in [PayoutBatches -> Remotes \cup {None}]
  BY DEF LinksGo, PayPalTypeOK
<1>6. "failed" \in States /\ {"intent", "posted"} \in SUBSET States /\ "none" \notin {"intent", "posted"}
  BY DEF States, Ended, Open
<1> HIDE DEF PayPalInv
<1> QED BY <1>1, <1>2, <1>3, <1>4, <1>5, <1>6, MovesFine

\* holdForReconcile, of one that was.
LEMMA HoldsFine ==
  ASSUME PayPalInv, NEW w \in Passes, Holds(w, {"posted"}, TRUE),
         UNCHANGED <<age, contents, linked, payouts, paypal>>,
         PassAt(w, "ready") \/ (PassAt(w, "await") /\ pass[w].hand \in {Refused, StaleToken})
  PROVE  Fine(w)
<1> USE DEF PayPalInv
<1>1. Job(w) \in PayoutBatches
  BY JobIs DEF PassAt
<1>2. Moves(w, {"posted"}, "reconcile_required", "idle", TRUE, TRUE)
  BY DEF Holds
<1>3. RowsGo
  <2>1. \A b \in PayoutBatches : payoutState'[b] # payoutState[b] =>
          b = Job(w) /\ Leased(w, {"posted"}) /\ payoutState'[b] = "reconcile_required"
    BY <1>1, <1>2, Moved DEF States, Open, Labels
  <2> QED BY <2>1 DEF RowsGo, Leased, Open
<1>4. ~ PassAt(w, "await") \/ pass[w].hand # None
  BY PayPalAssumption DEF PassAt
<1>5. LinksGo /\ linked' \in [PayoutBatches -> Remotes \cup {None}]
  BY DEF LinksGo, PayPalTypeOK
<1>6. "reconcile_required" \in States /\ {"posted"} \in SUBSET States /\ "none" \notin {"posted"}
  BY DEF States, Ended, Open
<1> HIDE DEF PayPalInv
<1> QED BY <1>1, <1>2, <1>3, <1>4, <1>5, <1>6, MovesFine

\* postBatch, step by step. An old batch is held; a young one may be sent.
LEMMA TakeBatchFine == ASSUME PayPalInv, NEW w \in Passes, NEW b \in PayoutBatches, TakeBatch(w, b) PROVE Fine(w)
<1> USE DEF PayPalInv
<1>1. CASE payoutState[b] = "posted" /\ age[b] \in {"held", "gone"}
  <2>1. /\ payoutState' = [payoutState EXCEPT ![b] = "reconcile_required"]
        /\ leaseAt' = [leaseAt EXCEPT ![b] = None] /\ sealed' = [sealed EXCEPT ![b] = FALSE]
        /\ UNCHANGED <<age, contents, linked, payouts, paypal, pass>>
    BY <1>1 DEF TakeBatch
  <2>2. PayPalTypeOK'
    BY <2>1 DEF PayPalTypeOK, payouts, paypal, Open
  <2>3. Goes(w)
    <3>1. RowsGo /\ LeasesGo(w)
      BY <1>1, <2>1 DEF RowsGo, LeasesGo, PayPalTypeOK, Open
    <3>2. LinksGo /\ ContentsGo
      BY <1>1, <2>1, Same DEF PayPalTypeOK
    <3>3. StampsGo /\ PaidGoes /\ ItemsGo(w) /\ PostsGo(w) /\ AgesGo
      BY <2>1, Same DEF payouts, paypal
    <3> QED BY <3>1, <3>2, <3>3 DEF Goes
  <2>4. Works(w) /\ pass'[w].pc = "idle" /\ Waited'
    BY <2>1, PayPalAssumption DEF Works, Alone, TakeBatch, PassAt, Waited, Job, paypal
  <2> QED BY <2>2, <2>3, <2>4, IdleTrue DEF Fine
<1>2. CASE ~ (payoutState[b] = "posted" /\ age[b] \in {"held", "gone"})
  <2>1. /\ PassBegin(w, "lease", b, None) /\ UNCHANGED <<rows, payouts, paypal>>
        /\ PassAt(w, "idle") /\ payoutState[b] \in {"intent", "posted"}
    BY <1>2 DEF TakeBatch, rows
  <2>2. Typed /\ Alone(w) /\ pass'[w].pc = "lease" /\ pass'[w].job = b /\ pass'[w].hand = None
    BY <2>1, Began DEF Labels, Hands
  <2>3. age[b] # "gone"
    BY <1>2, <2>1 DEF StateTrue, Expired, Clean
  <2>4. Works(w)
    BY <2>1, <2>2, <2>3, PayPalAssumption DEF Works, rows
  <2>5. PassTrue(w)'
    BY <2>1, <2>2, PayPalAssumption DEF PassTrue, PassAt, Job, rows
  <2>6. ~ PassAt(w, "await")
    BY <2>1 DEF PassAt
  <2> HIDE DEF PayPalInv
  <2> QED BY <2>1, <2>2, <2>4, <2>5, <2>6, PassOnly
<1> QED BY <1>1, <1>2

\* The pass remembers the state it leased the batch in.
LEMMA LeaseFine == ASSUME PayPalInv, NEW w \in Passes, Lease(w) PROVE Fine(w)
<1> USE DEF PayPalInv
<1>1. PassAt(w, "lease") /\ Job(w) \in PayoutBatches
  BY JobIs DEF Lease, PassAt
<1> PICK b \in PayoutBatches : b = Job(w)
  BY <1>1
<1>2. CASE payoutState[b] \in {"intent", "posted"}
  <2> PICK s \in {"intent", "posted"} : s = payoutState[b]
    BY <1>2
  <2>1. /\ leaseAt' = [leaseAt EXCEPT ![b] = w]
        /\ pass' = [pass EXCEPT ![w].pc = "ready", ![w].prior = s]
        /\ UNCHANGED <<payoutState, sealed, age, contents, linked, payouts, paypal>>
    BY <1>2 DEF Lease
  <2>2. /\ Typed /\ Alone(w) /\ pass'[w].pc = "ready" /\ pass'[w].prior = s
        /\ pass'[w].job = b /\ pass'[w].hand = pass[w].hand
    <3> PICK f, B, H, O, S : /\ f = pass /\ B = PayoutBatches \cup {None} /\ H = Hands
                             /\ O = SUBSET (Payouts \X BOOLEAN) /\ S = [Payouts -> Statuses]
      OBVIOUS
    <3> DEFINE T == [pc : Labels, job : B, prior : {"intent", "posted", None}, hand : H, ours : O, saw : S]
    <3>1. f \in [Passes -> T] /\ PassRecords = T
      BY Records
    <3>2. f[w] \in T /\ f[w].job = b
      BY <3>1 DEF Job
    <3> DEFINE k == [f[w] EXCEPT !.pc = "ready", !.prior = s]
    <3>3. k \in T /\ k.pc = "ready" /\ k.prior = s /\ k.job = b /\ k.hand = f[w].hand
      BY <3>2 DEF Labels
    <3>4. pass' = [f EXCEPT ![w] = k]
      BY <2>1
    <3> HIDE DEF k, T
    <3> QED BY <3>1, <3>3, <3>4 DEF Typed, Alone
  <2>3. PayPalTypeOK'
    BY <2>1, <2>2 DEF PayPalTypeOK, Typed, payouts, paypal
  <2>4. Goes(w)
    <3>1. RowsGo /\ LinksGo /\ ContentsGo
      BY <2>1, Same
    <3>2. StampsGo /\ PaidGoes /\ ItemsGo(w) /\ PostsGo(w) /\ AgesGo
      BY <2>1, Same DEF payouts, paypal
    <3>3. LeasesGo(w)
      BY <2>1 DEF LeasesGo, PayPalTypeOK
    <3> QED BY <3>1, <3>2, <3>3 DEF Goes
  <2>5. Works(w)
    BY <1>1, <2>2, PayPalAssumption DEF Works
  <2>6. PassTrue(w)'
    <3>1. pass'[w].hand = None /\ b # None /\ payoutState'[b] = s
      BY <1>1, <2>1, <2>2, PayPalAssumption DEF PassTrue, PassAt
    <3> QED BY <2>2, <3>1 DEF PassTrue, PassAt, Job
  <2>7. Waited'
    BY <1>1, <2>1, <2>2, <2>3, NobodyWaits, WaitedKept DEF paypal, PassAt
  <2> QED BY <2>3, <2>4, <2>5, <2>6, <2>7 DEF Fine
<1>3. CASE payoutState[b] \notin {"intent", "posted"}
  <2>1. PassDone(w) /\ UNCHANGED <<rows, payouts, paypal>> /\ ~ PassAt(w, "await")
    BY <1>1, <1>3 DEF Lease, rows, PassAt
  <2> HIDE DEF PayPalInv
  <2> QED BY <2>1, DoneFine
<1> QED BY <1>2, <1>3

LEMMA UnsendableFine == ASSUME PayPalInv, NEW w \in Passes, Unsendable(w) PROVE Fine(w)
<1>1. CASE pass[w].prior = "intent"
  BY <1>1, FailsFine DEF Unsendable
<1>2. CASE pass[w].prior # "intent"
  <2>1. PassDone(w) /\ UNCHANGED <<rows, payouts, paypal>> /\ ~ PassAt(w, "await")
    BY <1>2 DEF Unsendable, rows, PassAt
  <2> QED BY <2>1, DoneFine
<1> QED BY <1>1, <1>2

LEMMA UnreadableFine == ASSUME PayPalInv, NEW w \in Passes, Unreadable(w) PROVE Fine(w)
BY FailsFine, HoldsFine DEF Unreadable

LEMMA RefusedPostFine == ASSUME PayPalInv, NEW w \in Passes, RefusedPost(w) PROVE Fine(w)
BY FailsFine, HoldsFine DEF RefusedPost

\* The request goes out under the lease: the only one that may, of a batch
\* that was never posted.
LEMMA ArmFine == ASSUME PayPalInv, NEW w \in Passes, Arm(w) PROVE Fine(w)
<1> USE DEF PayPalInv
<1>1. PassAt(w, "ready") /\ Job(w) \in PayoutBatches
  BY JobIs DEF Arm, PassAt
<1> PICK b \in PayoutBatches : b = Job(w)
  BY <1>1
<1>2. CASE Leased(w, {pass[w].prior})
  <2>1. /\ payoutState' = [payoutState EXCEPT ![b] = "posted"]
        /\ age' = [age EXCEPT ![b] = IF @ = "null" THEN "fresh" ELSE @]
        /\ posts' = posts \cup {<<b, w>>}
        /\ PassGo(w, "await")
        /\ UNCHANGED <<leaseAt, sealed, contents, linked, payouts, item>>
    BY <1>2 DEF Arm
  <2>2. /\ Typed /\ Alone(w) /\ pass'[w].pc = "await" /\ pass'[w].prior = pass[w].prior
        /\ pass'[w].job = b /\ pass'[w].hand = pass[w].hand
    BY <2>1, Went DEF Labels, Job
  <2>3. /\ payoutState[b] \in {"intent", "posted"} /\ payoutState[b] = pass[w].prior /\ leaseAt[b] = w
        /\ pass[w].hand = None /\ w # None /\ b # None
    BY <1>1, <1>2, PayPalAssumption DEF PassTrue, PassAt, Leased
  <2>4. PayPalTypeOK'
    <3>1. payoutState' \in [PayoutBatches -> States] /\ age' \in [PayoutBatches -> {"null", "fresh", "held", "gone"}]
      BY <2>1 DEF PayPalTypeOK, States, Open
    <3>2. posts' \in SUBSET (PayoutBatches \X (Passes \cup {None}))
      BY <2>1 DEF PayPalTypeOK
    <3> QED BY <2>1, <2>2, <3>1, <3>2 DEF PayPalTypeOK, Typed, payouts, States
  <2>5. Goes(w)
    <3>1. RowsGo /\ LeasesGo(w) /\ AgesGo
      BY <2>1, <2>3 DEF RowsGo, LeasesGo, AgesGo, PayPalTypeOK, Open
    <3>2. LinksGo /\ ContentsGo
      BY <2>1, <2>3, Same DEF PayPalTypeOK
    <3>3. StampsGo /\ PaidGoes /\ ItemsGo(w)
      BY <2>1, Same DEF payouts
    <3>4. PostsGo(w)
      <4> SUFFICES ASSUME NEW q \in posts' \ posts PROVE q = <<b, w>>
        BY <1>1, <2>1, <2>2, <2>3 DEF PostsGo, PayPalTypeOK, Open
      <4> QED BY <2>1
    <3> QED BY <3>1, <3>2, <3>3, <3>4 DEF Goes
  <2>6. Works(w)
    BY <2>2, <2>3 DEF Works
  <2>7. PassTrue(w)'
    <3>1. payoutState'[b] = "posted"
      BY <2>1 DEF PayPalTypeOK
    <3>2. pass[w].hand \notin Remotes
      BY <2>3, PayPalAssumption
    <3>3. pass[w].prior = "intent" => Clean(b)
      BY <2>3 DEF StateTrue
    <3>4. pass[w].prior = "intent" => \A q \in posts' : q[1] = b => q[2] = w
      BY <2>1, <3>3 DEF Clean
    <3>5. pass[w].prior = "intent" => ~ Copied(b)'
      BY <2>1, <3>3 DEF Clean, Copied, Exists
    <3> QED BY <2>2, <2>3, <3>1, <3>2, <3>4, <3>5 DEF PassTrue, PassAt, Job
  <2>8. Waited'
    <3> SUFFICES ASSUME NEW q \in posts', q[2] # None
                 PROVE  pass'[q[2]].pc = "await" /\ pass'[q[2]].job = q[1] /\ pass'[q[2]].hand = None
      BY DEF Waited, PassAt, Job
    <3>1. CASE q = <<b, w>>
      <4>1. q[1] = b /\ q[2] = w
        BY <3>1
      <4> QED BY <4>1, <2>2, <2>3
    <3>2. CASE q \in posts
      <4>1. q[2] # w /\ q[2] \in Passes
        BY <1>1, <3>2, NobodyWaits DEF PassAt, PayPalTypeOK
      <4>2. pass'[q[2]] = pass[q[2]]
        BY <4>1, <2>2 DEF Alone
      <4> QED BY <3>2, <4>2 DEF Waited, PassAt, Job
    <3> QED BY <2>1, <3>1, <3>2
  <2> QED BY <2>4, <2>5, <2>6, <2>7, <2>8 DEF Fine
<1>3. CASE ~ Leased(w, {pass[w].prior})
  <2>1. PassDone(w) /\ UNCHANGED <<rows, payouts, paypal>> /\ ~ PassAt(w, "await")
    BY <1>1, <1>3 DEF Arm, rows, paypal, PassAt
  <2> HIDE DEF PayPalInv
  <2> QED BY <2>1, DoneFine
<1> QED BY <1>2, <1>3

\* A pass that stops, whatever it waited for.
LEMMA HangUpFine ==
  ASSUME PayPalInv, NEW w \in Passes, HangUp(w), PassDone(w), UNCHANGED <<rows, payouts, item>>
  PROVE  Fine(w)
<1> USE DEF PayPalInv
<1>1. Typed /\ Alone(w) /\ pass'[w].pc = "idle"
  BY WentIdle
<1>2. w # None
  BY PayPalAssumption
<1>3. \A q \in posts' : q[2] # w /\ (q[2] # None => q \in posts)
  <2> SUFFICES ASSUME NEW q \in posts' PROVE q[2] # w /\ (q[2] # None => q \in posts)
    OBVIOUS
  <2>1. CASE q \in {x \in posts : x[2] # w}
    BY <2>1
  <2>2. CASE q \in {<<x[1], None>> : x \in {x \in posts : x[2] = w}}
    <3>1. q[2] = None
      BY <2>2
    <3> QED BY <1>2, <3>1
  <2> QED BY <2>1, <2>2 DEF HangUp
<1>4. \A q \in posts' \ posts : q[2] = None /\ <<q[1], w>> \in posts
  <2> SUFFICES ASSUME NEW q \in posts', q \notin posts PROVE q[2] = None /\ <<q[1], w>> \in posts
    OBVIOUS
  <2>1. PICK x \in posts : x[2] = w /\ q = <<x[1], None>>
    BY DEF HangUp
  <2>2. x = <<q[1], w>>
    BY <2>1 DEF PayPalTypeOK
  <2> QED BY <2>1, <2>2
<1>5. posts' \in SUBSET (PayoutBatches \X (Passes \cup {None}))
  <2> SUFFICES ASSUME NEW q \in posts' PROVE q \in PayoutBatches \X (Passes \cup {None})
    OBVIOUS
  <2>1. CASE q \in posts
    BY <2>1 DEF PayPalTypeOK
  <2>2. CASE \E x \in posts : q = <<x[1], None>>
    BY <2>2 DEF PayPalTypeOK
  <2> QED BY <2>1, <2>2 DEF HangUp
<1>6. PayPalTypeOK'
  BY <1>1, <1>5 DEF PayPalTypeOK, Typed, rows, payouts
<1>7. Goes(w)
  <2>1. RowsGo /\ LinksGo /\ LeasesGo(w) /\ ContentsGo /\ AgesGo
    BY Same DEF rows
  <2>2. StampsGo /\ PaidGoes /\ ItemsGo(w)
    BY Same DEF payouts
  <2>3. PostsGo(w)
    BY <1>2, <1>4 DEF PostsGo
  <2> QED BY <2>1, <2>2, <2>3 DEF Goes
<1>8. Works(w)
  BY <1>1, <1>2 DEF Works
<1>9. PassTrue(w)' /\ Waited'
  BY <1>1, <1>3, <1>6, IdleTrue, WaitedKept
<1> QED BY <1>6, <1>7, <1>8, <1>9 DEF Fine

LEMMA AmbiguousFine == ASSUME PayPalInv, NEW w \in Passes, Ambiguous(w) PROVE Fine(w)
BY HangUpFine DEF Ambiguous

LEMMA PassDiesFine == ASSUME PayPalInv, NEW w \in Passes, PassDies(w) PROVE Fine(w)
BY HangUpFine DEF PassDies

\* A batch that PayPal made, or has.
LEMMA SubmittedFine == ASSUME PayPalInv, NEW w \in Passes, Submitted(w) PROVE Fine(w)
<1> USE DEF PayPalInv
<1>1. PassAt(w, "await") /\ Job(w) \in PayoutBatches
  BY JobIs DEF Submitted, PassAt
<1> PICK b \in PayoutBatches : b = Job(w)
  BY <1>1
<1> PICK r : r = pass[w].hand
  OBVIOUS
<1>2. r \in Remotes /\ r[1] = b /\ Exists(r) /\ r # None
  BY <1>1, PayPalAssumption DEF Submitted, PassTrue
<1>3. /\ Moves(w, {"posted", "reconcile_required"}, "submitted", "idle", TRUE, FALSE)
      /\ linked' = IF Leased(w, {"posted", "reconcile_required"}) THEN [linked EXCEPT ![b] = r] ELSE linked
      /\ UNCHANGED <<age, contents, payouts, paypal>>
  BY DEF Submitted, Submits
<1>4. LinksGo /\ linked' \in [PayoutBatches -> Remotes \cup {None}]
  BY <1>2, <1>3 DEF LinksGo, PayPalTypeOK
<1>5. RowsGo
  <2>1. \A c \in PayoutBatches : payoutState'[c] # payoutState[c] =>
          c = Job(w) /\ Leased(w, {"posted", "reconcile_required"}) /\ payoutState'[c] = "submitted"
    BY <1>1, <1>3, Moved DEF States, Open, Labels
  <2> SUFFICES ASSUME NEW c \in PayoutBatches, payoutState'[c] # payoutState[c]
               PROVE  payoutState[c] \in Open /\ payoutState'[c] = "submitted" /\ linked'[c] # None
    BY DEF RowsGo
  <2> QED BY <1>2, <1>3, <2>1 DEF Leased, Open, PayPalTypeOK
<1>6. /\ "submitted" \in States /\ {"posted", "reconcile_required"} \in SUBSET States
      /\ "none" \notin {"posted", "reconcile_required"}
  BY DEF States, Ended, Open
<1>7. pass[w].hand # None
  BY <1>2
<1> HIDE DEF PayPalInv
<1> QED BY <1>1, <1>3, <1>4, <1>5, <1>6, <1>7, MovesFine

\* A stale token takes a batch back to where it was: to intent only if
\* nothing else was ever sent.
LEMMA UnauthorizedFine == ASSUME PayPalInv, NEW w \in Passes, Unauthorized(w) PROVE Fine(w)
<1> USE DEF PayPalInv
<1>1. PassAt(w, "await") /\ Job(w) \in PayoutBatches /\ pass[w].hand = StaleToken
  BY JobIs DEF Unauthorized, PassAt
<1> PICK s \in {"intent", "posted"} : s = pass[w].prior
  BY <1>1 DEF PassTrue, PassAt
<1>2. /\ Moves(w, {"posted"}, s, "idle", FALSE, TRUE)
      /\ UNCHANGED <<age, contents, linked, payouts, paypal>>
  BY DEF Unauthorized
<1>3. s \in States /\ {"posted"} \in SUBSET States /\ "none" \notin {"posted"} /\ "idle" \in Labels
  BY DEF States, Ended, Open, Labels
<1>4. RowsGo
  <2>1. \A b \in PayoutBatches : payoutState'[b] # payoutState[b] =>
          b = Job(w) /\ Leased(w, {"posted"}) /\ payoutState'[b] = s
    <3>1. PayPalTypeOK /\ FALSE \in BOOLEAN /\ TRUE \in BOOLEAN
      OBVIOUS
    <3>2. PICK F, d, k : F = {"posted"} /\ d = FALSE /\ k = TRUE
      OBVIOUS
    <3>3. Moves(w, F, s, "idle", d, k) /\ d \in BOOLEAN /\ k \in BOOLEAN
      BY <1>2, <3>2
    <3> HIDE DEF PayPalInv
    <3>4. \A b \in PayoutBatches : payoutState'[b] # payoutState[b] =>
            b = Job(w) /\ Leased(w, F) /\ payoutState'[b] = s
      BY <1>1, <1>3, <3>1, <3>3, Moved
    <3> QED BY <3>2, <3>4
  <2> SUFFICES ASSUME NEW b \in PayoutBatches, payoutState'[b] # payoutState[b]
               PROVE  payoutState[b] \in Open /\ payoutState'[b] = "intent" /\ Clean(b)
    BY DEF RowsGo
  <2>2. payoutState[b] = "posted" /\ s = "intent"
    BY <2>1 DEF Leased
  <2>3. Leased(w, {"intent", "posted"})
    BY <2>1 DEF Leased
  <2> QED BY <1>1, <2>1, <2>2, <2>3, NeverSent DEF Open
<1>5. LinksGo /\ linked' \in [PayoutBatches -> Remotes \cup {None}]
  BY <1>2 DEF LinksGo, PayPalTypeOK
<1>6. pass[w].hand # None
  BY <1>1, PayPalAssumption
<1> HIDE DEF PayPalInv
<1> QED BY <1>1, <1>2, <1>3, <1>4, <1>5, <1>6, MovesFine

\* The stamps of a batch that is over, or of a file, come off.
LEMMA Unstamps ==
  ASSUME PayPalInv, NEW w, NEW b \in PayoutBatches, Unstamp(b), payoutState[b] \in Ended \cup {"file"}
  PROVE  Goes(w) /\ stampedBy' \in [Payouts -> PayoutBatches \cup {None}]
<1>1. RowsGo /\ LinksGo /\ LeasesGo(w) /\ ContentsGo /\ AgesGo
  BY Same DEF Unstamp, rows
<1>2. PaidGoes /\ ItemsGo(w) /\ PostsGo(w)
  BY Same DEF Unstamp, paypal
<1>3. StampsGo /\ stampedBy' \in [Payouts -> PayoutBatches \cup {None}]
  BY DEF StampsGo, Unstamp, Stamped, Ended, Left, PayPalInv, PayPalTypeOK
<1> QED BY <1>1, <1>2, <1>3 DEF Goes

\* (And the pass that took them off is done.)
LEMMA ReleaseAllPendingFine == ASSUME PayPalInv, NEW w \in Passes, ReleaseAllPending(w) PROVE Fine(w)
<1> USE DEF PayPalInv
<1>1. PassAt(w, "free") /\ Job(w) \in PayoutBatches /\ Unstamp(Job(w))
  BY JobIs DEF ReleaseAllPending, PassAt
<1>2. payoutState[Job(w)] \in Ended \cup {"file"}
  BY <1>1 DEF PassTrue, Ended
<1>3. Goes(w) /\ stampedBy' \in [Payouts -> PayoutBatches \cup {None}]
  BY <1>1, <1>2, Unstamps
<1>4. Typed /\ Alone(w) /\ pass'[w].pc = "idle"
  BY WentIdle DEF ReleaseAllPending
<1>5. PayPalTypeOK'
  BY <1>1, <1>3, <1>4 DEF Unstamp, PayPalTypeOK, Typed, rows, paypal
<1>6. Works(w)
  BY <1>4, PayPalAssumption DEF Works
<1>7. Waited'
  BY <1>1, <1>4, <1>5, NobodyWaits, WaitedKept DEF Unstamp, paypal, PassAt
<1> QED BY <1>3, <1>4, <1>5, <1>6, <1>7, IdleTrue DEF Fine

\* syncBatch begins at the batch it is linked to,
LEMMA SyncFine == ASSUME PayPalInv, NEW w \in Passes, NEW b \in PayoutBatches, Sync(w, b) PROVE Fine(w)
<1> USE DEF PayPalInv
<1> PICK r : r = linked[b]
  OBVIOUS
<1>1. /\ PassAt(w, "idle") /\ payoutState[b] \in Syncable
      /\ leaseAt' = [leaseAt EXCEPT ![b] = w] /\ PassBegin(w, "read", b, r)
      /\ UNCHANGED <<payoutState, sealed, age, contents, linked, payouts, paypal>>
  BY DEF Sync
<1>2. r \in Remotes /\ r # None /\ r[1] = b /\ Exists(r) /\ w # None /\ b # None
  BY <1>1, PayPalAssumption DEF StateTrue, PayPalTypeOK
<1>3. Typed /\ Alone(w) /\ pass'[w].pc = "read" /\ pass'[w].job = b /\ pass'[w].hand = r
  BY <1>1, <1>2, Began DEF Labels, Hands
<1>4. PayPalTypeOK'
  BY <1>1, <1>3 DEF PayPalTypeOK, Typed, payouts, paypal
<1>5. Goes(w)
  <2>1. RowsGo /\ LinksGo /\ ContentsGo
    BY <1>1, Same
  <2>2. StampsGo /\ PaidGoes /\ ItemsGo(w) /\ PostsGo(w) /\ AgesGo
    BY <1>1, Same DEF payouts, paypal
  <2>3. LeasesGo(w)
    BY <1>1 DEF LeasesGo, PayPalTypeOK
  <2> QED BY <2>1, <2>2, <2>3 DEF Goes
<1>6. Works(w)
  BY <1>2, <1>3 DEF Works
<1>7. PassTrue(w)'
  BY <1>1, <1>2, <1>3 DEF PassTrue, PassAt, Job, Exists, paypal
<1>8. Waited'
  BY <1>1, <1>3, <1>4, NobodyWaits, WaitedKept DEF paypal, PassAt
<1> QED BY <1>4, <1>5, <1>6, <1>7, <1>8 DEF Fine

\* which it may not read,
LEMMA SyncFailsFine == ASSUME PayPalInv, NEW w \in Passes, SyncFails(w) PROVE Fine(w)
<1> USE DEF PayPalInv
<1>1. PassAt(w, "read") /\ Job(w) \in PayoutBatches
  BY JobIs DEF SyncFails, PassAt
<1> PICK s \in States : s = payoutState[Job(w)]
  BY <1>1 DEF PayPalTypeOK, States
<1>p. PICK F, d : F = Syncable /\ d = TRUE
  OBVIOUS
<1>2. /\ Moves(w, F, s, "idle", d, d) /\ d \in BOOLEAN
      /\ UNCHANGED <<age, contents, linked, payouts, paypal>>
  BY <1>p DEF SyncFails
<1>3. PayPalTypeOK /\ "idle" \in Labels /\ F \in SUBSET States /\ "none" \notin F
  BY <1>p DEF Labels, Syncable, States, Open
<1>4. LinksGo /\ linked' \in [PayoutBatches -> Remotes \cup {None}] /\ ~ PassAt(w, "await")
  BY <1>1, <1>2 DEF LinksGo, PayPalTypeOK, PassAt
<1> HIDE DEF PayPalInv
<1>5. RowsGo
  <2>1. \A b \in PayoutBatches : payoutState'[b] # payoutState[b] =>
          b = Job(w) /\ Leased(w, F) /\ payoutState'[b] = s
    BY <1>1, <1>2, <1>3, Moved
  <2> QED BY <2>1 DEF RowsGo
<1> QED BY <1>1, <1>2, <1>3, <1>4, <1>5, MovesFine

\* and ends where nothing of it is left to settle.
LEMMA FinishSyncFine == ASSUME PayPalInv, NEW w \in Passes, FinishSync(w) PROVE Fine(w)
<1> USE DEF PayPalInv
<1>1. PassAt(w, "apply") /\ Job(w) \in PayoutBatches
  BY JobIs DEF FinishSync, PassAt
<1> DEFINE next == IF Stamped(Job(w)) # {} THEN payoutState[Job(w)]
                   ELSE IF Denied(w) THEN "denied" ELSE "completed"
<1> PICK s : s = next
  OBVIOUS
<1>2. /\ s \in States
      /\ s # payoutState[Job(w)] => s \in {"completed", "denied"} /\ Stamped(Job(w)) = {}
  BY <1>1 DEF PayPalTypeOK, States, Ended
<1>p. PICK F, d : F = Syncable /\ d = TRUE
  OBVIOUS
<1>3. /\ Moves(w, F, s, "idle", d, d) /\ d \in BOOLEAN
      /\ UNCHANGED <<age, contents, linked, payouts, paypal>>
  BY <1>p DEF FinishSync
<1>4. PayPalTypeOK /\ "idle" \in Labels /\ F \in SUBSET States /\ "none" \notin F
  BY <1>p DEF Labels, Syncable, States, Open
<1>5. LinksGo /\ linked' \in [PayoutBatches -> Remotes \cup {None}] /\ ~ PassAt(w, "await")
  BY <1>1, <1>3 DEF LinksGo, PayPalTypeOK, PassAt
<1> HIDE DEF PayPalInv, next
<1>6. RowsGo
  <2>1. \A b \in PayoutBatches : payoutState'[b] # payoutState[b] =>
          b = Job(w) /\ Leased(w, F) /\ payoutState'[b] = s
    BY <1>1, <1>2, <1>3, <1>4, Moved
  <2> QED BY <1>p, <1>2, <2>1 DEF RowsGo, Leased
<1> QED BY <1>1, <1>2, <1>3, <1>4, <1>5, <1>6, MovesFine

\* What a pass at its sync reads: the items, then the payouts.
LEMMA ReadItemsFine == ASSUME PayPalInv, NEW w \in Passes, ReadItems(w) PROVE Fine(w)
<1> USE DEF PayPalInv
<1>1. PassAt(w, "read") /\ Job(w) \in PayoutBatches
  BY JobIs DEF ReadItems, PassAt
<1> PICK r : r = pass[w].hand
  OBVIOUS
<1>2. r \in Remotes /\ r[1] = Job(w) /\ Exists(r) /\ linked[Job(w)] # None
  BY <1>1 DEF PassTrue, PassAt
<1> PICK i \in [Payouts -> Statuses] : i = item[r]
  BY <1>2 DEF PayPalTypeOK
<1>3. pass' = [pass EXCEPT ![w].pc = "list", ![w].saw = i] /\ UNCHANGED <<rows, payouts, paypal>>
  BY DEF ReadItems
<1>4. /\ Typed /\ Alone(w) /\ pass'[w].pc = "list" /\ pass'[w].saw = i
      /\ pass'[w].job = pass[w].job /\ pass'[w].hand = r
  <2> PICK f, B, H, O, S : /\ f = pass /\ B = PayoutBatches \cup {None} /\ H = Hands
                           /\ O = SUBSET (Payouts \X BOOLEAN) /\ S = [Payouts -> Statuses]
    OBVIOUS
  <2> DEFINE T == [pc : Labels, job : B, prior : {"intent", "posted", None}, hand : H, ours : O, saw : S]
  <2>1. f \in [Passes -> T] /\ PassRecords = T /\ i \in S
    BY Records
  <2>2. f[w] \in T
    BY <2>1
  <2> DEFINE k == [f[w] EXCEPT !.pc = "list", !.saw = i]
  <2>3. k \in T /\ k.pc = "list" /\ k.saw = i /\ k.job = f[w].job /\ k.hand = f[w].hand
    BY <2>1, <2>2 DEF Labels
  <2>4. pass' = [f EXCEPT ![w] = k]
    BY <1>3
  <2> HIDE DEF k, T
  <2> QED BY <2>1, <2>3, <2>4 DEF Typed, Alone
<1>5. Works(w)
  BY <1>4, PayPalAssumption DEF Works
<1>6. PassTrue(w)'
  <2>1. Exists(r)' /\ linked' = linked /\ item'[r] = i /\ \A p \in Payouts : Sees(i[p], item'[r][p])
    BY <1>2, <1>3 DEF Exists, Sees, rows, paypal
  <2>2. Job(w) # None
    BY <1>1, PayPalAssumption
  <2> QED BY <1>2, <1>4, <2>1, <2>2 DEF PassTrue, PassAt, Job
<1>7. ~ PassAt(w, "await")
  BY <1>1 DEF PassAt
<1> HIDE DEF PayPalInv
<1> QED BY <1>3, <1>4, <1>5, <1>6, <1>7, PassOnly

\* The pass still has what it saw of the batch, whatever it leaves of its work.
Reads(w, o) ==
  /\ Typed /\ Alone(w) /\ pass'[w].pc = "apply" /\ pass'[w].saw = pass[w].saw
  /\ pass'[w].job = pass[w].job /\ pass'[w].hand = pass[w].hand

LEMMA Reading ==
  ASSUME PayPalInv, NEW w \in Passes, NEW o \in SUBSET (Payouts \X BOOLEAN),
         \/ pass' = [pass EXCEPT ![w].pc = "apply", ![w].ours = o]
         \/ PassAt(w, "apply") /\ pass' = [pass EXCEPT ![w].ours = o]
  PROVE  Reads(w, o)
<1> PICK f, B, H, O, S : /\ f = pass /\ B = PayoutBatches \cup {None} /\ H = Hands
                         /\ O = SUBSET (Payouts \X BOOLEAN) /\ S = [Payouts -> Statuses]
  OBVIOUS
<1> DEFINE T == [pc : Labels, job : B, prior : {"intent", "posted", None}, hand : H, ours : O, saw : S]
<1>1. f \in [Passes -> T] /\ PassRecords = T /\ o \in O
  BY Records DEF PayPalInv
<1>2. f[w] \in T
  BY <1>1
<1>3. CASE pass' = [f EXCEPT ![w].pc = "apply", ![w].ours = o]
  <2> DEFINE k == [f[w] EXCEPT !.pc = "apply", !.ours = o]
  <2>1. k \in T /\ k.pc = "apply" /\ k.saw = f[w].saw /\ k.job = f[w].job /\ k.hand = f[w].hand
    BY <1>1, <1>2 DEF Labels
  <2>2. pass' = [f EXCEPT ![w] = k]
    BY <1>3
  <2> HIDE DEF k, T
  <2> QED BY <1>1, <2>1, <2>2 DEF Typed, Alone, Reads
<1>4. CASE PassAt(w, "apply") /\ pass' = [f EXCEPT ![w].ours = o]
  <2> DEFINE k == [f[w] EXCEPT !.ours = o]
  <2>1. k \in T /\ k.pc = "apply" /\ k.saw = f[w].saw /\ k.job = f[w].job /\ k.hand = f[w].hand
    BY <1>1, <1>2, <1>4 DEF Labels, PassAt
  <2>2. pass' = [f EXCEPT ![w] = k]
    BY <1>4
  <2> HIDE DEF k, T
  <2> QED BY <1>1, <2>1, <2>2 DEF Typed, Alone, Reads
<1> QED BY <1>3, <1>4

\* (What such a pass holds is true if nothing of it was undone.)
LEMMA ReadingTrue ==
  ASSUME PayPalInv, NEW w \in Passes, NEW o, Reads(w, o), pass[w].pc \in {"list", "apply"},
         linked' = linked, item' = item
  PROVE  PassTrue(w)' /\ Works(w)
<1>1. /\ pass[w].hand \in Remotes /\ pass[w].hand[1] = Job(w) /\ Exists(pass[w].hand)
      /\ linked[Job(w)] # None /\ Job(w) # None
      /\ \A p \in Payouts : Sees(pass[w].saw[p], item[pass[w].hand][p])
  BY DEF PayPalInv, PassTrue
<1> QED BY <1>1, PayPalAssumption DEF PassTrue, PassAt, Job, Reads, Exists, Works

\* (The payouts it lists are read, not yet judged.)
LEMMA ListPayoutsFine == ASSUME PayPalInv, NEW w \in Passes, ListPayouts(w) PROVE Fine(w)
<1> PICK o : o = {<<p, paid[p]>> : p \in {x \in Payouts : stampedBy[x] = Job(w)}}
  OBVIOUS
<1>1. /\ PassAt(w, "list") /\ pass' = [pass EXCEPT ![w].pc = "apply", ![w].ours = o]
      /\ UNCHANGED <<rows, payouts, paypal>>
  BY DEF ListPayouts
<1>2. o \in SUBSET (Payouts \X BOOLEAN)
  BY DEF PayPalInv, PayPalTypeOK
<1>3. Reads(w, o)
  BY <1>1, <1>2, Reading
<1>4. PassTrue(w)' /\ Works(w)
  BY <1>1, <1>3, ReadingTrue DEF PassAt, rows, paypal
<1>5. Typed /\ Alone(w) /\ ~ PassAt(w, "await")
  BY <1>1, <1>3 DEF Reads, PassAt
<1> QED BY <1>1, <1>4, <1>5, PassOnly

\* confirmOne and releaseOne, of what PayPal has said.
LEMMA SettlesGo ==
  ASSUME PayPalInv, NEW w \in Passes, NEW b \in PayoutBatches, b = Job(w), NEW p \in Payouts, NEW was, NEW s,
         Settles(w, p, was, s), byHand' = byHand,
         s \in GivenBack => \E k \in Copies : item[<<b, k>>][p] \in GivenBack,
         s = "success" => linked[b] # None /\ item[linked[b]][p] \in {"success", "returned"}
  PROVE  /\ StampsGo /\ PaidGoes
         /\ stampedBy' \in [Payouts -> PayoutBatches \cup {None}] /\ paid' \in [Payouts -> BOOLEAN]
<1>0. /\ stampedBy \in [Payouts -> PayoutBatches \cup {None}] /\ paid \in [Payouts -> BOOLEAN] /\ b # None
      /\ \A x \in byHand : paid[x]
  BY PayPalAssumption DEF PayPalInv, PayPalTypeOK, HandPaid
<1>1. CASE UNCHANGED <<stampedBy, paid>>
  BY <1>0, <1>1, Same
<1>2. CASE s = "success" /\ stampedBy[p] = b /\ paid' = [paid EXCEPT ![p] = TRUE] /\ UNCHANGED stampedBy
  <2>1. StampsGo
    BY <1>2, Same
  <2>2. PaidGoes
    BY <1>0, <1>2 DEF PaidGoes
  <2> QED BY <1>0, <1>2, <2>1, <2>2
<1>3. CASE /\ s \in GivenBack /\ stampedBy[p] = b
           /\ stampedBy' = [stampedBy EXCEPT ![p] = None] /\ paid' = [paid EXCEPT ![p] = FALSE]
  <2>1. StampsGo
    BY <1>0, <1>3 DEF StampsGo
  <2>2. PaidGoes
    BY <1>0, <1>3 DEF PaidGoes
  <2> QED BY <1>0, <1>3, <2>1, <2>2
<1> QED BY <1>1, <1>2, <1>3 DEF Settles

\* One payout is settled by what PayPal said of it in this very batch.
LEMMA ApplyFine ==
  ASSUME PayPalInv, NEW w \in Passes, NEW p \in Payouts, NEW was \in BOOLEAN, Apply(w, p, was) PROVE Fine(w)
<1>1. PassAt(w, "apply") /\ Job(w) \in PayoutBatches
  BY JobIs DEF Apply, PassAt
<1> PICK b \in PayoutBatches : b = Job(w)
  BY <1>1
<1> PICK o : o = pass[w].ours \ {<<p, was>>}
  OBVIOUS
<1> PICK s : s = pass[w].saw[p]
  OBVIOUS
<1>2. /\ Settles(w, p, was, s) /\ pass' = [pass EXCEPT ![w].ours = o]
      /\ UNCHANGED <<rows, byHand, paypal>>
  BY DEF Apply
<1>3. pass[w] \in PassRecords /\ o \in SUBSET (Payouts \X BOOLEAN)
  BY DEF PayPalInv, PayPalTypeOK, PassRecords
<1>4. Reads(w, o)
  BY <1>1, <1>2, <1>3, Reading
<1>5. PassTrue(w)' /\ Works(w)
  BY <1>1, <1>2, <1>4, ReadingTrue DEF PassAt, rows, paypal
<1> PICK r : r = pass[w].hand
  OBVIOUS
<1>6. r \in Remotes /\ r[1] = b /\ Exists(r) /\ linked[b] # None /\ Sees(s, item[r][p])
  BY <1>1 DEF PayPalInv, PassTrue, PassAt
<1>7. r = linked[b]
  <2>1. linked[b] \in Remotes /\ linked[b][1] = b /\ Exists(linked[b])
    BY <1>6 DEF PayPalInv, PayPalTypeOK, StateTrue
  <2>2. PICK j \in Copies, k \in Copies : r = <<b, j>> /\ linked[b] = <<b, k>>
    BY <1>6, <2>1 DEF Remotes
  <2> QED BY <1>6, <2>1, <2>2 DEF PayPalInv, OneCopy
<1>8. /\ s \in GivenBack => \E k \in Copies : item[<<b, k>>][p] \in GivenBack
      /\ s = "success" => item[linked[b]][p] \in {"success", "returned"}
  <2>1. PICK k \in Copies : r = <<b, k>>
    BY <1>6 DEF Remotes
  <2> QED BY <1>6, <1>7, <2>1 DEF Sees, GivenBack
<1>9. /\ StampsGo /\ PaidGoes
      /\ stampedBy' \in [Payouts -> PayoutBatches \cup {None}] /\ paid' \in [Payouts -> BOOLEAN]
  BY <1>2, <1>6, <1>8, SettlesGo
<1>10. PayPalTypeOK'
  BY <1>2, <1>4, <1>9 DEF PayPalInv, PayPalTypeOK, Typed, Reads, rows, paypal
<1>11. Goes(w)
  <2>1. RowsGo /\ LinksGo /\ LeasesGo(w) /\ ContentsGo /\ AgesGo /\ ItemsGo(w) /\ PostsGo(w)
    BY <1>2, Same DEF rows, paypal
  <2> QED BY <1>9, <2>1 DEF Goes
<1>12. Waited'
  BY <1>1, <1>2, <1>4, <1>10, NobodyWaits, WaitedKept DEF paypal, PassAt, Reads
<1> QED BY <1>5, <1>10, <1>11, <1>12 DEF Fine

\* One is released once PayPal has given the money back.
LEMMA ReleaseCanceledFine == ASSUME PayPalInv, NEW w \in Passes, ReleaseCanceled(w) PROVE Fine(w)
<1>1. PassAt(w, "unclaim") /\ Job(w) \in PayoutBatches
  BY JobIs DEF ReleaseCanceled, PassAt
<1> PICK b \in PayoutBatches : b = Job(w)
  BY <1>1
<1> PICK p : p = pass[w].hand
  OBVIOUS
<1>2. p \in Payouts /\ \E k \in Copies : item[<<b, k>>][p] \in GivenBack
  BY <1>1 DEF PayPalInv, PassTrue, GivenBack
<1>3. Settles(w, p, FALSE, "returned") /\ PassDone(w) /\ UNCHANGED <<rows, byHand, paypal>>
  BY DEF ReleaseCanceled
<1>4. Typed /\ Alone(w) /\ pass'[w].pc = "idle" /\ w # None
  BY <1>3, WentIdle, PayPalAssumption DEF PayPalInv
<1>5. PICK was, s : Settles(w, p, was, s) /\ s = "returned"
  BY <1>3
<1>6. /\ StampsGo /\ PaidGoes
      /\ stampedBy' \in [Payouts -> PayoutBatches \cup {None}] /\ paid' \in [Payouts -> BOOLEAN]
  BY <1>2, <1>3, <1>5, SettlesGo
<1>7. PayPalTypeOK'
  BY <1>3, <1>4, <1>6 DEF PayPalInv, PayPalTypeOK, Typed, rows, paypal
<1>8. Goes(w)
  <2>1. RowsGo /\ LinksGo /\ LeasesGo(w) /\ ContentsGo /\ AgesGo /\ ItemsGo(w) /\ PostsGo(w)
    BY <1>3, Same DEF rows, paypal
  <2> QED BY <1>6, <2>1 DEF Goes
<1>9. Works(w) /\ PassTrue(w)'
  BY <1>4, IdleTrue DEF Works
<1>10. Waited'
  BY <1>1, <1>3, <1>4, <1>7, NobodyWaits, WaitedKept DEF paypal, PassAt
<1> QED BY <1>7, <1>8, <1>9, <1>10 DEF Fine

\* A payout is confirmed by hand if no batch may still pay it.
LEMMA ConfirmReadFine == ASSUME PayPalInv, NEW w \in Passes, NEW p \in Payouts, ConfirmRead(w, p) PROVE Fine(w)
<1> PICK b : b = stampedBy[p]
  OBVIOUS
<1>1. /\ PassAt(w, "idle") /\ PassBegin(w, "confirm", b, p) /\ UNCHANGED <<rows, payouts, paypal>>
      /\ b \in PayoutBatches \cup {None}
  BY DEF ConfirmRead, PayPalInv, PayPalTypeOK
<1>2. Typed /\ Alone(w) /\ pass'[w].pc = "confirm" /\ pass'[w].job = b /\ pass'[w].hand = p
  BY <1>1, Began DEF Labels, Hands, PayPalInv
<1>3. b # None => payoutState[b] \notin Open \cup {"none"}
  BY <1>1 DEF ConfirmRead, PayPalInv, Frozen
<1>4. PassTrue(w)'
  BY <1>1, <1>2, <1>3 DEF PassTrue, PassAt, Job, rows
<1>5. Works(w) /\ ~ PassAt(w, "await")
  BY <1>1, <1>2, PayPalAssumption DEF Works, PassAt
<1> QED BY <1>1, <1>2, <1>4, <1>5, PassOnly

\* (Read again as it is written: the batch it was read in is over, and
\* has released it, failed or been a file all along.)
LEMMA ConfirmFine == ASSUME PayPalInv, NEW w \in Passes, Confirm(w) PROVE Fine(w)
<1> USE DEF PayPalInv
<1> PICK p : p = pass[w].hand
  OBVIOUS
<1> PICK b : b = stampedBy[p]
  OBVIOUS
<1>1. /\ PassAt(w, "confirm") /\ PassDone(w) /\ UNCHANGED <<rows, stampedBy, paypal>>
      /\ p \in Payouts /\ b \in PayoutBatches \cup {None}
  BY DEF Confirm, Confirmed, PassTrue, PayPalTypeOK
<1>2. \/ /\ ~ paid[p] /\ b \in {None, Job(w)} \cup {c \in PayoutBatches : payoutState[c] = "file"}
         /\ paid' = [paid EXCEPT ![p] = TRUE] /\ byHand' = byHand \cup {p}
      \/ UNCHANGED <<paid, byHand>>
  BY DEF Confirm, Confirmed
<1>3. Typed /\ Alone(w) /\ pass'[w].pc = "idle" /\ w # None
  BY <1>1, WentIdle, PayPalAssumption
<1>4. PaidGoes
  <2>1. CASE UNCHANGED <<paid, byHand>>
    BY <2>1, Same
  <2>2. CASE /\ ~ paid[p] /\ b \in {None, Job(w)} \cup {c \in PayoutBatches : payoutState[c] = "file"}
             /\ paid' = [paid EXCEPT ![p] = TRUE] /\ byHand' = byHand \cup {p}
    <3>1. b # None => payoutState[b] \in Left \cup {"file"}
      <4> SUFFICES ASSUME b # None, payoutState[b] # "file" PROVE payoutState[b] \in Left
        OBVIOUS
      <4>1. b = Job(w) /\ b \in PayoutBatches
        BY <1>1, <2>2
      <4>2. payoutState[b] \notin Open \cup {"none"}
        BY <1>1, <4>1 DEF PassTrue
      <4>3. p \in Stamped(b)
        BY <1>1, <2>2 DEF Stamped
      <4>4. payoutState[b] \notin {"completed", "denied"}
        BY <4>1, <4>3 DEF StateTrue
      <4> QED BY <4>1, <4>2, <4>4 DEF PayPalTypeOK, Ended, Left
    <3>2. paid \in [Payouts -> BOOLEAN] /\ stampedBy' = stampedBy
      BY <1>1 DEF PayPalTypeOK
    <3>3. paid'[p] /\ ~ paid[p] /\ p \in byHand' /\ byHand \subseteq byHand'
      BY <1>1, <2>2, <3>2
    <3>4. \A x \in byHand' \ byHand : x = p
      BY <2>2
    <3>5. \A x \in Payouts : paid'[x] # paid[x] => x = p
      BY <2>2, <3>2
    <3> HIDE DEF PayPalInv
    <3> QED BY <3>1, <3>2, <3>3, <3>4, <3>5 DEF PaidGoes
  <2> QED BY <1>2, <2>1, <2>2
<1>5. PayPalTypeOK'
  BY <1>1, <1>2, <1>3 DEF PayPalTypeOK, Typed, rows, paypal
<1>6. Goes(w)
  <2>1. RowsGo /\ LinksGo /\ LeasesGo(w) /\ ContentsGo /\ AgesGo /\ StampsGo /\ ItemsGo(w) /\ PostsGo(w)
    BY <1>1, Same DEF rows, paypal
  <2> QED BY <1>4, <2>1 DEF Goes
<1>7. Works(w) /\ PassTrue(w)'
  BY <1>3, IdleTrue DEF Works
<1>8. Waited'
  BY <1>1, <1>3, <1>5, NobodyWaits, WaitedKept DEF paypal, PassAt
<1> QED BY <1>5, <1>6, <1>7, <1>8 DEF Fine

\* PayPal cancels what nobody claimed.
LEMMA CancelUnclaimedFine ==
  ASSUME PayPalInv, NEW w \in Passes, NEW p \in Payouts, CancelUnclaimed(w, p) PROVE Fine(w)
<1> USE DEF PayPalInv
<1> PICK b : b = stampedBy[p]
  OBVIOUS
<1> PICK r : r = linked[b]
  OBVIOUS
<1>1. /\ PassAt(w, "idle") /\ b # None /\ r # None /\ item[r][p] = "unclaimed"
      /\ item' = [item EXCEPT ![r][p] = "returned"]
      /\ PassBegin(w, "unclaim", b, p)
      /\ UNCHANGED <<rows, payouts, posts>>
  BY DEF CancelUnclaimed
<1>2. b \in PayoutBatches /\ r \in Remotes /\ r[1] = b
  BY <1>1 DEF PayPalTypeOK, StateTrue
<1>3. Typed /\ Alone(w) /\ pass'[w].pc = "unclaim" /\ pass'[w].job = b /\ pass'[w].hand = p
  BY <1>1, <1>2, Began DEF Labels, Hands
<1>4. /\ item' \in [Remotes -> [Payouts -> Statuses]] /\ item'[r][p] = "returned"
      /\ \A s \in Remotes, x \in Payouts : item'[s][x] # item[s][x] => s = r /\ x = p
  BY <1>1, <1>2 DEF PayPalTypeOK, Statuses
<1>5. PayPalTypeOK'
  BY <1>1, <1>3, <1>4 DEF PayPalTypeOK, Typed, rows, payouts
<1>6. Goes(w)
  <2>1. RowsGo /\ LinksGo /\ LeasesGo(w) /\ ContentsGo /\ AgesGo
    BY <1>1, Same DEF rows
  <2>2. StampsGo /\ PaidGoes /\ PostsGo(w)
    BY <1>1, Same DEF payouts
  <2>3. ItemsGo(w)
    BY <1>1, <1>4 DEF ItemsGo, GivenBack
  <2> QED BY <2>1, <2>2, <2>3 DEF Goes
<1>7. Works(w)
  BY <1>3, PayPalAssumption DEF Works
<1>8. PassTrue(w)'
  <2>1. PICK k \in Copies : r = <<b, k>>
    BY <1>2 DEF Remotes
  <2>2. item'[<<b, k>>][p] = "returned"
    BY <1>4, <2>1
  <2> QED BY <1>1, <1>3, <2>2 DEF PassTrue, PassAt, Job
<1>9. Waited'
  BY <1>1, <1>3, <1>5, NobodyWaits, WaitedKept DEF PassAt
<1> QED BY <1>5, <1>6, <1>7, <1>8, <1>9 DEF Fine

\* An admin releases what was never sent, or what PayPal does not have,
LEMMA AdminReleaseFine ==
  ASSUME PayPalInv, AdminChecks, NEW w \in Passes, NEW b \in PayoutBatches, AdminRelease(w, b) PROVE Fine(w)
<1> USE DEF PayPalInv
<1>1. /\ PassAt(w, "idle") /\ payoutState[b] \in {"reconcile_required", "intent"}
      /\ payoutState' = [payoutState EXCEPT ![b] = "released"]
      /\ leaseAt' = [leaseAt EXCEPT ![b] = None] /\ sealed' = [sealed EXCEPT ![b] = FALSE]
      /\ PassBegin(w, "free", b, None)
      /\ UNCHANGED <<age, contents, linked, payouts, paypal>>
  BY DEF AdminRelease
<1>2. Clean(b)
  BY DEF AdminRelease, StateTrue, Clean, Copied
<1>3. Typed /\ Alone(w) /\ pass'[w].pc = "free" /\ pass'[w].job = b
  BY <1>1, Began DEF Labels, Hands
<1>4. PayPalTypeOK'
  BY <1>1, <1>3 DEF PayPalTypeOK, Typed, payouts, paypal, Ended
<1>5. Goes(w)
  <2>1. RowsGo /\ LeasesGo(w)
    BY <1>1, <1>2 DEF RowsGo, LeasesGo, PayPalTypeOK, Open, Left
  <2>2. LinksGo /\ ContentsGo
    BY <1>1, Same DEF PayPalTypeOK
  <2>3. StampsGo /\ PaidGoes /\ ItemsGo(w) /\ PostsGo(w) /\ AgesGo
    BY <1>1, Same DEF payouts, paypal
  <2> QED BY <2>1, <2>2, <2>3 DEF Goes
<1>6. Works(w)
  BY <1>3, PayPalAssumption DEF Works
<1>7. PassTrue(w)'
  BY <1>1, <1>3, PayPalAssumption DEF PassTrue, PassAt, Job, PayPalTypeOK
<1>8. Waited'
  BY <1>1, <1>3, <1>4, NobodyWaits, WaitedKept DEF paypal, PassAt
<1> QED BY <1>4, <1>5, <1>6, <1>7, <1>8 DEF Fine

\* or sends it again while it is young,
LEMMA AdminRetryFine ==
  ASSUME PayPalInv, NEW w \in Passes, NEW b \in PayoutBatches, AdminRetry(w, b) PROVE Fine(w)
<1> USE DEF PayPalInv
<1>1. /\ PassAt(w, "idle") /\ payoutState[b] = "reconcile_required" /\ age[b] = "fresh"
      /\ payoutState' = [payoutState EXCEPT ![b] = "posted"]
      /\ leaseAt' = [leaseAt EXCEPT ![b] = None]
      /\ PassBegin(w, "lease", b, None)
      /\ UNCHANGED <<sealed, age, contents, linked, payouts, paypal>>
  BY DEF AdminRetry
<1>2. Typed /\ Alone(w) /\ pass'[w].pc = "lease" /\ pass'[w].job = b /\ pass'[w].hand = None
  BY <1>1, Began DEF Labels, Hands
<1>3. PayPalTypeOK'
  BY <1>1, <1>2 DEF PayPalTypeOK, Typed, payouts, paypal, Open
<1>4. Goes(w)
  <2>1. RowsGo /\ LeasesGo(w)
    BY <1>1 DEF RowsGo, LeasesGo, PayPalTypeOK, Open
  <2>2. LinksGo /\ ContentsGo
    BY <1>1, Same DEF PayPalTypeOK
  <2>3. StampsGo /\ PaidGoes /\ ItemsGo(w) /\ PostsGo(w) /\ AgesGo
    BY <1>1, Same DEF payouts, paypal
  <2> QED BY <2>1, <2>2, <2>3 DEF Goes
<1>5. Works(w)
  BY <1>1, <1>2, PayPalAssumption DEF Works
<1>6. PassTrue(w)'
  BY <1>1, <1>2, PayPalAssumption DEF PassTrue, PassAt, Job, PayPalTypeOK
<1>7. Waited'
  BY <1>1, <1>2, <1>3, NobodyWaits, WaitedKept DEF paypal, PassAt
<1> QED BY <1>3, <1>4, <1>5, <1>6, <1>7 DEF Fine

\* The steps no pass takes.
LEMMA NobodyFine ==
  ASSUME PayPalInv, PayPalTypeOK', Goes(None), pass' = pass, posts' = posts PROVE Fine(None)
BY DEF Fine, Works, PayPalInv, Waited, PassAt, Job

\* A run, or a file, takes free payouts.
LEMMA FreezeFine ==
  ASSUME PayPalInv, NEW b \in PayoutBatches, NEW s \in SUBSET Payouts, SendRun(b, s) \/ Export(b, s)
  PROVE  Fine(None)
<1> USE DEF PayPalInv
<1>1. /\ payoutState[b] = "none" /\ s # {} /\ s \subseteq Free
      /\ stampedBy' = [p \in Payouts |-> IF p \in s THEN b ELSE stampedBy[p]]
      /\ contents' = [contents EXCEPT ![b] = s]
      /\ UNCHANGED <<leaseAt, age, linked, paid, byHand, paypal, pass>>
  BY DEF SendRun, Export, Freeze
<1>2. PICK to \in {"intent", "file"} : payoutState' = [payoutState EXCEPT ![b] = to]
  BY DEF SendRun, Export
<1>3. sealed' \in [PayoutBatches -> BOOLEAN]
  BY DEF SendRun, Export, PayPalTypeOK
<1>4. PayPalTypeOK'
  BY <1>1, <1>2, <1>3 DEF PayPalTypeOK, paypal, Open
<1>5. Goes(None)
  <2>1. RowsGo /\ LeasesGo(None)
    BY <1>1, <1>2 DEF RowsGo, LeasesGo, PayPalTypeOK
  <2>2. contents[b] = {}
    BY <1>1 DEF Frozen
  <2>3. ContentsGo
    BY <1>1, <1>2, <2>2 DEF ContentsGo, PayPalTypeOK, Free
  <2>4. StampsGo
    BY <1>1, <2>2, PayPalAssumption DEF StampsGo, PayPalTypeOK, Free
  <2>5. LinksGo /\ PaidGoes /\ AgesGo /\ ItemsGo(None) /\ PostsGo(None)
    BY <1>1, Same DEF paypal
  <2> QED BY <2>1, <2>3, <2>4, <2>5 DEF Goes
<1> QED BY <1>1, <1>4, <1>5, NobodyFine DEF paypal

\* A discarded file, and what a crash left of a release.
LEMMA UnstampFine ==
  ASSUME PayPalInv, NEW b \in PayoutBatches, Discard(b) \/ Repair(b) PROVE Fine(None)
<1>1. Unstamp(b) /\ payoutState[b] \in Ended \cup {"file"} /\ pass' = pass
  BY DEF Discard, Repair
<1>2. Goes(None) /\ stampedBy' \in [Payouts -> PayoutBatches \cup {None}]
  BY <1>1, Unstamps
<1>3. PayPalTypeOK'
  BY <1>1, <1>2 DEF Unstamp, PayPalInv, PayPalTypeOK, rows, paypal
<1> QED BY <1>1, <1>2, <1>3, NobodyFine DEF Unstamp, paypal

\* The batch an admin found.
LEMMA AdminLinkFine ==
  ASSUME PayPalInv, NEW b \in PayoutBatches, NEW r \in Remotes, AdminLink(b, r) PROVE Fine(None)
<1> USE DEF PayPalInv
<1>1. /\ payoutState[b] = "reconcile_required" /\ r[1] = b /\ Exists(r) /\ r # None
      /\ payoutState' = [payoutState EXCEPT ![b] = "submitted"]
      /\ leaseAt' = [leaseAt EXCEPT ![b] = None] /\ sealed' = [sealed EXCEPT ![b] = FALSE]
      /\ linked' = [linked EXCEPT ![b] = r]
      /\ UNCHANGED <<age, contents, payouts, paypal, pass>>
  BY PayPalAssumption DEF AdminLink
<1>2. PayPalTypeOK'
  BY <1>1 DEF PayPalTypeOK, payouts, paypal, Open
<1>3. Goes(None)
  <2>1. RowsGo /\ LeasesGo(None) /\ LinksGo
    BY <1>1 DEF RowsGo, LeasesGo, LinksGo, PayPalTypeOK, Open
  <2>2. ContentsGo
    BY <1>1, Same DEF PayPalTypeOK
  <2>3. StampsGo /\ PaidGoes /\ ItemsGo(None) /\ PostsGo(None) /\ AgesGo
    BY <1>1, Same DEF payouts, paypal
  <2> QED BY <2>1, <2>2, <2>3 DEF Goes
<1> QED BY <1>1, <1>2, <1>3, NobodyFine DEF paypal

\* Nothing but items.
LEMMA ItemsFine ==
  ASSUME PayPalInv, item' \in [Remotes -> [Payouts -> Statuses]], ItemsGo(None),
         UNCHANGED <<rows, payouts, posts, pass>>
  PROVE  Fine(None)
<1>1. PayPalTypeOK'
  BY DEF PayPalInv, PayPalTypeOK, rows, payouts
<1>2. RowsGo /\ LinksGo /\ LeasesGo(None) /\ ContentsGo /\ AgesGo
  BY Same DEF rows
<1>3. StampsGo /\ PaidGoes /\ PostsGo(None)
  BY Same DEF payouts
<1> QED BY <1>1, <1>2, <1>3, NobodyFine DEF Goes

\* PayPal moves one item, or denies a batch whole.
LEMMA ItemMovesFine ==
  ASSUME PayPalInv, NEW r \in Remotes, NEW p \in Payouts, NEW s \in Statuses, ItemMoves(r, p, s) PROVE Fine(None)
<1>1. item' = [item EXCEPT ![r][p] = s] /\ UNCHANGED <<rows, payouts, posts, pass>>
  BY DEF ItemMoves
<1>2. /\ item' \in [Remotes -> [Payouts -> Statuses]] /\ item'[r][p] = s
      /\ \A x \in Remotes, y \in Payouts : item'[x][y] # item[x][y] => x = r /\ y = p
  BY <1>1 DEF PayPalInv, PayPalTypeOK
<1>3. ItemsGo(None)
  BY <1>2 DEF ItemsGo, ItemMoves, GivenBack
<1> QED BY <1>1, <1>2, <1>3, ItemsFine

LEMMA DenyAllFine == ASSUME PayPalInv, NEW r \in Remotes, DenyAll(r) PROVE Fine(None)
<1>1. /\ item' = [item EXCEPT ![r] = [p \in Payouts |-> IF item[r][p] = "absent" THEN "absent" ELSE "denied"]]
      /\ UNCHANGED <<rows, payouts, posts, pass>> /\ \A p \in contents[r[1]] : item[r][p] = "processing"
  BY DEF DenyAll
<1>2. item' \in [Remotes -> [Payouts -> Statuses]]
  BY <1>1 DEF PayPalInv, PayPalTypeOK, Statuses
<1>3. \A p \in Payouts : item[r][p] # "absent" => item[r][p] = "processing"
  BY <1>1 DEF PayPalInv, Frozen
<1>4. ItemsGo(None)
  <2> SUFFICES ASSUME NEW x \in Remotes, NEW p \in Payouts, item'[x][p] # item[x][p]
               PROVE  item[x][p] = "processing" /\ item'[x][p] = "denied"
    BY DEF ItemsGo, GivenBack
  <2> QED BY <1>1, <1>3 DEF PayPalInv, PayPalTypeOK
<1> QED BY <1>1, <1>2, <1>4, ItemsFine

\* A batch grows old.
LEMMA DaysPassFine == ASSUME PayPalInv, NEW b \in PayoutBatches, DaysPass(b) PROVE Fine(None)
<1>1. UNCHANGED <<payoutState, leaseAt, sealed, contents, linked, payouts, paypal, pass>>
  BY DEF DaysPass
<1>2. PayPalTypeOK'
  BY <1>1 DEF DaysPass, PayPalInv, PayPalTypeOK, payouts, paypal
<1>3. AgesGo
  BY <1>1 DEF AgesGo, DaysPass, Copied, PayPalInv, PayPalTypeOK, paypal
<1>4. RowsGo /\ LinksGo /\ LeasesGo(None) /\ ContentsGo
  BY <1>1, Same
<1>5. StampsGo /\ PaidGoes /\ ItemsGo(None) /\ PostsGo(None)
  BY <1>1, Same DEF payouts, paypal
<1> QED BY <1>1, <1>2, <1>3, <1>4, <1>5, NobodyFine DEF Goes, paypal

\* PayPal answers, and the pass that waits has its answer.
LEMMA Told ==
  ASSUME PayPalInv, NEW q \in posts, q[2] # None, NEW a \in Hands, Tell(q[2], a)
  PROVE  /\ q[2] \in Passes /\ PassAt(q[2], "await") /\ Job(q[2]) = q[1] /\ pass[q[2]].hand = None
         /\ Typed /\ Alone(q[2]) /\ pass'[q[2]].pc = "await" /\ pass'[q[2]].job = q[1] /\ pass'[q[2]].hand = a
         /\ pass'[q[2]].prior = pass[q[2]].prior
<1> PICK w \in Passes : w = q[2]
  BY DEF PayPalInv, PayPalTypeOK
<1>1. PassAt(w, "await") /\ Job(w) = q[1] /\ pass[w].hand = None
  BY DEF PayPalInv, Waited
<1> PICK f, B, P, O, S : /\ f = pass /\ B = PayoutBatches \cup {None} /\ P = {"intent", "posted", None}
                         /\ O = SUBSET (Payouts \X BOOLEAN) /\ S = [Payouts -> Statuses]
  OBVIOUS
<1> DEFINE T == [pc : Labels, job : B, prior : P, hand : Hands, ours : O, saw : S]
           k == [f[w] EXCEPT !.hand = a]
<1> HIDE DEF Labels, Hands
<1>2. f \in [Passes -> T] /\ PassRecords = T
  BY Records DEF PayPalInv
<1>3. k \in T /\ k.pc = f[w].pc /\ k.job = f[w].job /\ k.hand = a /\ k.prior = f[w].prior
  <2>1. f[w] \in T
    BY <1>2
  <2> QED BY <2>1
<1>4. pass' = [f EXCEPT ![w] = k]
  BY DEF Tell
<1> HIDE DEF k, T
<1> QED BY <1>1, <1>2, <1>3, <1>4 DEF Typed, Alone, PassAt, Job

\* An answer is one of the batch that was asked for, or that nothing was made.
LEMMA AnswerFine ==
  ASSUME PayPalInv, NEW q \in posts, NEW a \in Hands, Tell(q[2], a), a # None, posts' = posts \ {q},
         UNCHANGED <<rows, payouts>>, item' \in [Remotes -> [Payouts -> Statuses]], ItemsGo(q[2]),
         a \in Remotes => a[1] = q[1] /\ Exists(a)',
         a \notin Remotes => item' = item
  PROVE  Fine(q[2])
<1> USE DEF PayPalInv
<1> PICK w \in Passes \cup {None} : w = q[2]
  BY DEF PayPalTypeOK
<1>1. /\ w # None => /\ PassAt(w, "await") /\ Job(w) = q[1] /\ pass[w].hand = None
                     /\ Alone(w) /\ pass'[w].pc = "await" /\ pass'[w].job = q[1] /\ pass'[w].hand = a
                     /\ pass'[w].prior = pass[w].prior
      /\ w = None => pass' = pass
      /\ pass' \in [Passes -> PassRecords]
  BY Told DEF Tell, Typed, PayPalTypeOK
<1>2. PayPalTypeOK'
  BY <1>1 DEF PayPalTypeOK, rows, payouts
<1>3. Goes(w)
  <2>1. RowsGo /\ LinksGo /\ LeasesGo(w) /\ ContentsGo /\ AgesGo
    BY Same DEF rows
  <2>2. StampsGo /\ PaidGoes /\ PostsGo(w)
    BY Same DEF payouts
  <2> QED BY <2>1, <2>2 DEF Goes
<1>4. Works(w)
  BY <1>1 DEF Works
<1>5. ASSUME w # None PROVE PassTrue(w)'
  <2> PICK b : b = q[1]
    OBVIOUS
  <2>1. /\ b # None /\ payoutState[b] # "none" /\ pass[w].prior \in {"intent", "posted"}
        /\ payoutState' = payoutState /\ leaseAt' = leaseAt
    BY <1>1, <1>5 DEF PassTrue, PassAt, rows
  <2>2. ASSUME pass[w].prior = "intent", payoutState[b] = "posted", leaseAt[b] = w
        PROVE  /\ \A x \in posts' : x[1] = b => x[2] = w
               /\ a \notin Remotes => ~ Copied(b)'
    <3>1. /\ \A x \in posts : x[1] = b => x[2] = w
          /\ ~ Copied(b)
      BY <1>1, <1>5, <2>2, PayPalAssumption DEF PassTrue, PassAt, Leased
    <3> QED BY <3>1 DEF Copied, Exists
  <2> HIDE DEF PayPalInv
  <2>3. Leased(w, {"posted"})' => payoutState[b] = "posted" /\ leaseAt[b] = w
    BY <1>1, <1>5, <2>1 DEF Leased, Job
  <2>4. pass'[w].pc = "await" /\ pass'[w].job = b /\ pass'[w].hand = a /\ pass'[w].prior = pass[w].prior
    BY <1>1, <1>5
  <2>5. a \in Remotes => a[1] = b /\ Exists(a)'
    OBVIOUS
  <2> QED BY <2>1, <2>2, <2>3, <2>4, <2>5 DEF PassTrue, PassAt, Job
<1>6. Waited'
  <2> SUFFICES ASSUME NEW x \in posts', x[2] # None
               PROVE  pass'[x[2]].pc = "await" /\ pass'[x[2]].job = x[1] /\ pass'[x[2]].hand = None
    BY DEF Waited, PassAt, Job
  <2>1. x \in posts /\ x # q /\ x[2] \in Passes /\ x = <<x[1], x[2]>> /\ q = <<q[1], q[2]>>
    BY DEF PayPalTypeOK
  <2>2. PassAt(x[2], "await") /\ Job(x[2]) = x[1] /\ pass[x[2]].hand = None
    BY <2>1 DEF Waited
  <2>3. x[2] # w
    BY <1>1, <2>1, <2>2
  <2>4. pass'[x[2]] = pass[x[2]]
    BY <1>1, <2>1, <2>3 DEF Alone
  <2> QED BY <2>2, <2>4 DEF PassAt, Job
<1> QED BY <1>2, <1>3, <1>4, <1>5, <1>6 DEF Fine

\* PayPal refuses,
LEMMA RefuseFine ==
  ASSUME PayPalInv, NEW q \in posts, NEW a \in {Refused, StaleToken}, Refuse(q, a) PROVE Fine(q[2])
<1>1. a \in Hands /\ a # None /\ a \notin Remotes
  BY PayPalAssumption DEF Hands
<1>2. Tell(q[2], a) /\ posts' = posts \ {q} /\ UNCHANGED <<rows, payouts>> /\ item' = item
  BY DEF Refuse
<1>3. item' \in [Remotes -> [Payouts -> Statuses]] /\ ItemsGo(q[2])
  BY <1>2, Same DEF PayPalInv, PayPalTypeOK
<1> QED BY <1>1, <1>2, <1>3, AnswerFine

\* or makes the batch it was sent, unless it has it.
LEMMA DeliverFine == ASSUME PayPalInv, NEW q \in posts, Deliver(q) PROVE Fine(q[2])
<1> USE DEF PayPalInv
<1> PICK b \in PayoutBatches : b = q[1]
  BY DEF PayPalTypeOK
<1> DEFINE made == {k \in Copies : Exists(<<b, k>>)}
<1>1. age[b] # "gone"
  BY DEF Expired
<1>2. posts' = posts \ {q} /\ UNCHANGED <<rows, payouts>>
  BY DEF Deliver
<1>3. CASE made # {}
  <2>1. Tell(q[2], <<b, CHOOSE k \in made : TRUE>>) /\ item' = item
    BY <1>1, <1>3 DEF Deliver
  <2>2. PICK k \in made : Tell(q[2], <<b, k>>)
    BY <1>3, <2>1
  <2> PICK a : a = <<b, k>>
    OBVIOUS
  <2>3. a \in Remotes /\ a \in Hands /\ a # None /\ a[1] = b /\ Exists(a)
    BY PayPalAssumption DEF Remotes, Hands
  <2>4. Exists(a)' /\ item' \in [Remotes -> [Payouts -> Statuses]] /\ ItemsGo(q[2]) /\ Tell(q[2], a)
    BY <2>1, <2>2, <2>3, Same DEF Exists, PayPalTypeOK
  <2> HIDE DEF PayPalInv
  <2> QED BY <1>2, <2>3, <2>4, AnswerFine
<1>4. CASE made = {}
  <2>1. PICK k \in Copies :
          /\ item' = [item EXCEPT ![<<b, k>>] =
                        [p \in Payouts |-> IF p \in contents[b] THEN "processing" ELSE "absent"]]
          /\ Tell(q[2], <<b, k>>)
    BY <1>4 DEF Deliver
  <2> PICK a : a = <<b, k>>
    OBVIOUS
  <2>2. a \in Remotes /\ a \in Hands /\ a # None /\ a[1] = b /\ Tell(q[2], a)
    BY <2>1, PayPalAssumption DEF Remotes, Hands
  <2>3. /\ item' \in [Remotes -> [Payouts -> Statuses]]
        /\ \A s \in Remotes : s # a => item'[s] = item[s]
        /\ \A p \in Payouts : item'[a][p] = IF p \in contents[a[1]] THEN "processing" ELSE "absent"
    BY <2>1, <2>2 DEF PayPalTypeOK, Statuses
  <2>4. ItemsGo(q[2])
    <3>1. ~ Copied(a[1])
      BY <1>4, <2>2 DEF Copied
    <3> QED BY <2>2, <2>3, <3>1 DEF ItemsGo, Made
  <2>5. Exists(a)'
    <3>1. payoutState[b] # "none"
      <4>1. CASE Copied(b)
        BY <1>4, <4>1 DEF Copied
      <4>2. CASE payoutState[b] \in Open
        BY <4>2 DEF Open
      <4> QED BY <4>1, <4>2 DEF StateTrue
    <3>2. contents[b] # {} /\ contents[b] \subseteq Payouts
      BY <3>1 DEF Frozen, PayPalTypeOK
    <3>3. PICK p \in contents[b] : p \in Payouts
      BY <3>2
    <3>4. item'[a][p] = "processing"
      BY <2>2, <2>3, <3>3
    <3> QED BY <3>3, <3>4 DEF Exists
  <2> HIDE DEF PayPalInv
  <2> QED BY <1>2, <2>2, <2>3, <2>4, <2>5, AnswerFine
<1> QED BY <1>3, <1>4

-----------------------------------------------------------------------------

\* The invariant is inductive.
LEMMA PayPalStart == ASSUME PayPalInit PROVE PayPalInv
<1> USE DEF PayPalInit
<1>1. PayPalTypeOK
  <2>1. Idle \in PassRecords
    BY DEF Idle, PassRecords, Statuses
  <2> QED BY <2>1 DEF PayPalTypeOK, Statuses
<1>2. \A r \in Remotes : ~ Exists(r)
  BY DEF Exists
<1>3. \A b \in PayoutBatches : Clean(b)
  BY <1>2 DEF Clean, Copied, Remotes
<1>4. Frozen /\ OneCopy /\ Expired /\ HandPaid /\ Waited /\ PaidIsTrue
  BY <1>2 DEF Frozen, OneCopy, Expired, HandPaid, Waited, PaidIsTrue, Remotes
<1>5. StateTrue
  BY <1>3 DEF StateTrue, Syncable, Open
<1>6. \A w \in Passes : PassTrue(w)
  BY DEF PassTrue, PassAt, Idle
<1>7. ReleasedIsUnpaid
  BY DEF ReleasedIsUnpaid
<1> QED BY <1>1, <1>4, <1>5, <1>6, <1>7 DEF PayPalInv

LEMMA PayPalHolds == ASSUME AdminChecks PROVE PayPalSpec => []PayPalInv
<1>1. PayPalInv /\ [PayPalNext]_paypalVars => PayPalInv'
  <2> SUFFICES ASSUME PayPalInv, [PayPalNext]_paypalVars PROVE PayPalInv'
    OBVIOUS
  <2>1. ASSUME NEW w \in Passes, PostStep(w) \/ PassDies(w) PROVE Fine(w)
    BY <2>1, TakeBatchFine, LeaseFine, UnsendableFine, UnreadableFine, ArmFine, AmbiguousFine, SubmittedFine,
       UnauthorizedFine, RefusedPostFine, ReleaseAllPendingFine, PassDiesFine DEF PostStep
  <2>2. ASSUME NEW w \in Passes, SyncStep(w) PROVE Fine(w)
    BY <2>2, SyncFine, SyncFailsFine, ReadItemsFine, ListPayoutsFine, FinishSyncFine, ApplyFine DEF SyncStep
  <2>3. ASSUME NEW w \in Passes, AdminStep(w) PROVE Fine(w)
    BY <2>3, ConfirmReadFine, CancelUnclaimedFine, ConfirmFine, ReleaseCanceledFine, AdminReleaseFine,
       AdminRetryFine DEF AdminStep
  <2>4. ASSUME PayPalStep PROVE \E w : Fine(w)
    <3>1. ASSUME NEW q \in posts, Deliver(q) PROVE Fine(q[2])
      BY <3>1, DeliverFine
    <3>2. ASSUME NEW q \in posts, NEW a \in {Refused, StaleToken}, Refuse(q, a) PROVE Fine(q[2])
      BY <3>2, RefuseFine
    <3>3. ASSUME NEW r \in Remotes, DenyAll(r) PROVE Fine(None)
      BY <3>3, DenyAllFine
    <3>4. ASSUME NEW r \in Remotes, NEW p \in Payouts, NEW s \in Statuses, ItemMoves(r, p, s) PROVE Fine(None)
      BY <3>4, ItemMovesFine
    <3> QED BY <2>4, <3>1, <3>2, <3>3, <3>4 DEF PayPalStep
  <2>5. ASSUME NEW b \in PayoutBatches, NEW s \in SUBSET Payouts, SendRun(b, s) \/ Export(b, s) PROVE Fine(None)
    BY <2>5, FreezeFine
  <2>6. ASSUME NEW b \in PayoutBatches, Discard(b) \/ Repair(b) PROVE Fine(None)
    BY <2>6, UnstampFine
  <2>7. ASSUME NEW b \in PayoutBatches, DaysPass(b) PROVE Fine(None)
    BY <2>7, DaysPassFine
  <2>8. ASSUME NEW b \in PayoutBatches, NEW r \in Remotes, AdminLink(b, r) PROVE Fine(None)
    BY <2>8, AdminLinkFine
  <2>9. ASSUME UNCHANGED paypalVars PROVE Fine(None)
    <3>1. UNCHANGED <<rows, payouts, paypal, pass>>
      BY <2>9 DEF paypalVars
    <3>2. PayPalTypeOK'
      BY <3>1 DEF PayPalInv, PayPalTypeOK, rows, payouts, paypal
    <3>3. RowsGo /\ LinksGo /\ LeasesGo(None) /\ ContentsGo /\ AgesGo
      BY <3>1, Same DEF rows
    <3>4. StampsGo /\ PaidGoes /\ ItemsGo(None) /\ PostsGo(None)
      BY <3>1, Same DEF payouts, paypal
    <3> QED BY <3>1, <3>2, <3>3, <3>4, NobodyFine DEF Goes, paypal
  <2>10. CASE PayPalNext
    <3>1. \E w : Fine(w)
      BY <2>1, <2>2, <2>3, <2>4, <2>5, <2>6, <2>7, <2>8, <2>10 DEF PayPalNext
    <3> QED BY <3>1, FineKeeps
  <2> QED BY <2>9, <2>10, FineKeeps
<1> QED BY <1>1, PayPalStart, PTL DEF PayPalSpec

\* The types of the rail.
THEOREM PayPalTypes == ASSUME AdminChecks PROVE PayPalSpec => []PayPalTypeOK
<1>1. PayPalInv => PayPalTypeOK
  BY DEF PayPalInv
<1> QED BY <1>1, PayPalHolds, PTL

\* Whatever was re-sent, released, linked or confirmed, a payout is never in
\* two payments of PayPal that stand, nor in one beside the brand's own.
THEOREM PaysOnce == ASSUME AdminChecks PROVE PayPalSpec => []PayPalPaysOnce
<1>1. PayPalInv => PayPalPaysOnce
  <2> SUFFICES ASSUME PayPalInv, NEW p \in Payouts
               PROVE  /\ Cardinality({r \in Remotes : Paying(r, p)}) =< 1
                      /\ p \in byHand => \A r \in Remotes : ~ Paying(r, p)
    BY DEF PayPalPaysOnce
  <2>1. ASSUME NEW r \in Remotes, Paying(r, p)
        PROVE  r[1] \in PayoutBatches /\ stampedBy[p] = r[1] /\ Exists(r) /\ \E k \in Copies : r = <<r[1], k>>
    BY <2>1 DEF PayPalInv, Frozen, ReleasedIsUnpaid, Paying, Exists, Remotes
  <2>2. \A r, s \in Remotes : Paying(r, p) /\ Paying(s, p) => r = s
    BY <2>1 DEF PayPalInv, OneCopy
  <2>3. \/ {r \in Remotes : Paying(r, p)} = {}
        \/ \E s \in Remotes : {r \in Remotes : Paying(r, p)} = {s}
    BY <2>2
  <2>4. Cardinality({r \in Remotes : Paying(r, p)}) =< 1
    <3>1. CASE {r \in Remotes : Paying(r, p)} = {}
      BY <3>1, FS_EmptySet
    <3>2. CASE \E s \in Remotes : {r \in Remotes : Paying(r, p)} = {s}
      <4>1. PICK s : {r \in Remotes : Paying(r, p)} = {s}
        BY <3>2
      <4>2. Cardinality({s}) = 1
        BY FS_Singleton
      <4> QED BY <4>1, <4>2
    <3> QED BY <2>3, <3>1, <3>2
  <2>5. ASSUME p \in byHand, NEW r \in Remotes, Paying(r, p) PROVE FALSE
    <3>1. r[1] \in PayoutBatches /\ stampedBy[p] = r[1] /\ Exists(r) /\ \E k \in Copies : r = <<r[1], k>>
      BY <2>5, <2>1
    <3>2. Copied(r[1]) /\ r[1] # None
      BY <3>1, PayPalAssumption DEF Copied
    <3> QED BY <2>5, <3>1, <3>2 DEF PayPalInv, HandPaid, StateTrue, Clean
  <2> QED BY <2>4, <2>5
<1> QED BY <1>1, PayPalHolds, PTL

\* Nothing is released on an unknown outcome: what left its batch is in no
\* payment of that batch.
THEOREM Released == ASSUME AdminChecks PROVE PayPalSpec => []ReleasedIsUnpaid
<1>1. PayPalInv => ReleasedIsUnpaid
  BY DEF PayPalInv
<1> QED BY <1>1, PayPalHolds, PTL

\* A payout reads as paid because PayPal paid it in the batch it is stamped
\* with, or because the brand paid it.
THEOREM PaidTrue == ASSUME AdminChecks PROVE PayPalSpec => []PaidIsTrue
<1>1. PayPalInv => PaidIsTrue
  BY DEF PayPalInv
<1> QED BY <1>1, PayPalHolds, PTL
=============================================================================
