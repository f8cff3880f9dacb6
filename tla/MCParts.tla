-------------------------------- MODULE MCParts --------------------------------
(* Six instances side by side: a funded batch whose operator may be wrong,    *)
(* the batches of a collection that succeed each other, PayPal payouts, the   *)
(* webhook inbox, the recovery queue and the usage report. A behaviour is one *)
(* of the six, part says which: the states of this run are the sum of theirs. *)
EXTENDS FundedTransfers, PayPalPayouts, EventInbox, RecoveryRequests, UsageReports

CONSTANTS
  Batches, Commissions, Slots, Collectors, Hooks, Floor,
  b1, b2, m1, m2, s1, s2

VARIABLES
  status, stamp, principal, attempted, share, claim, timedOut, quiet,
  intent, amount, indexed, frozenKey, creates, notices, collector,
  part

Collection == INSTANCE FundingCollection
  WITH allocation <- share, commission <- claim, requests <- creates, events <- notices, worker <- collector,
       LoseEvents <- {}

atCollection == <<status, stamp, principal, attempted, share, claim, timedOut, quiet,
                  intent, amount, indexed, frozenKey, creates, notices, collector>>
partVars == <<vars, atCollection, paypalVars, inboxVars, requestVars, usageVars, part>>

PartInit ==
  /\ Init /\ Collection!Init /\ PayPalInit /\ InboxInit /\ RequestInit /\ UsageInit
  /\ part \in {"transfers", "collection", "paypal", "inbox", "requests", "usage"}
  /\ part # "transfers" => \A a \in Allocations : allocation[a] = "reserved"
  /\ part # "usage" => enclosed

PartNext ==
  /\ UNCHANGED part
  /\ \/ part = "transfers" /\ Next /\ UNCHANGED <<atCollection, paypalVars, inboxVars, requestVars, usageVars>>
     \/ part = "collection" /\ Collection!Next /\ UNCHANGED <<vars, paypalVars, inboxVars, requestVars, usageVars>>
     \/ part = "paypal" /\ PayPalNext /\ UNCHANGED <<vars, atCollection, inboxVars, requestVars, usageVars>>
     \/ part = "inbox" /\ InboxNext /\ UNCHANGED <<vars, atCollection, paypalVars, requestVars, usageVars>>
     \/ part = "requests" /\ RequestNext /\ UNCHANGED <<vars, atCollection, paypalVars, inboxVars, usageVars>>
     \/ part = "usage" /\ UsageNext /\ UNCHANGED <<vars, atCollection, paypalVars, inboxVars, requestVars>>

PartSpec == PartInit /\ [][PartNext]_partVars

-----------------------------------------------------------------------------

\* The funded batch: no compliance hold, dispute or partial reversal, which run
\* transfers has. The collection: no reversal and no returned charge, which run
\* collection has; of its two batches the first times out or goes quiet, and so
\* makes room for the second.
Undisturbed ==
  /\ held = {} /\ batch # "funding_disputed" /\ \A t \in made : back[t] # "part"
  /\ part = "collection" =>
       /\ \A c \in Commissions : claim[c] = "approved"
       /\ status[b1] = "absent" => status[b2] = "absent"
       /\ ~ timedOut[b2] /\ ~ quiet[b2]
       /\ \A p \in Collection!PaymentIntents : intent[p] # "refunded"

\* PayPal: what one batch does, with two passes and one payout or one pass and
\* two payouts; and a payout that moves on to a second batch, while the second
\* pass may have been left behind on the first.
OnePayout == \A b \in PayoutBatches : contents[b] \subseteq {m1}
NoFile == \A b \in PayoutBatches : payoutState[b] # "file"
OneBatch ==
  /\ payoutState[2] = "none" /\ contents[1] # {m2}
  /\ (pass[s2] = Idle \/ (OnePayout /\ NoFile))
LeftBehind ==
  /\ pass[s1].job # 1 /\ \A q \in posts : q[2] # None
  /\ pass[s2].job # 2 /\ pass[s2].pc \in {"idle", "confirm", "unclaim", "apply", "free"}
NextBatch ==
  /\ OnePayout /\ NoFile /\ \A b \in PayoutBatches : age[b] \in {"null", "fresh"}
  /\ payoutState[2] # "none" => LeftBehind

\* Usage: one conversion over all reports and both ways of calling, or two over
\* the first two reports, called as in production.
FewConversions == visible # Conversions \/ (books.mark <= 1 /\ books.old = {} /\ enclosed /\ ~ alerted)

PartSlices ==
  /\ Undisturbed
  /\ part = "paypal" => OneBatch \/ NextBatch
  /\ part = "usage" => FewConversions

\* The property of the collection, by name.
ChargedOnce == part = "collection" => Collection!ChargedOnce
=============================================================================
