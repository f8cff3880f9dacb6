---------------------------- MODULE PartnerPayment ----------------------------
(***************************************************************************)
(* What the payment of a funded batch promises (docs/payout-funding.md     *)
(* sections 6 and 7), without intents, keys, retries or operators: each    *)
(* share of the batch is paid or withheld, once and for good; what a       *)
(* partner gets, it gets in one payment; a batch closes when nothing of it *)
(* is due.                                                                 *)
(***************************************************************************)
CONSTANTS Partners, Lines

VARIABLES paid, withheld, closed

Shares(p) == {p} \X Lines
Due(p) == Shares(p) \ (paid \cup withheld)

\* Some commissions were reversed while the brand was being debited.
Init ==
  /\ paid = {}
  /\ withheld \in SUBSET (Partners \X Lines)
  /\ closed = FALSE

\* One payment, of all that is due to the partner.
Pay(p) ==
  /\ ~ closed
  /\ Due(p) # {} /\ Shares(p) \cap paid = {}
  /\ paid' = paid \cup Due(p)
  /\ UNCHANGED <<withheld, closed>>

\* A reversal, a compliance hold, or payments that all came back.
Withhold(p) ==
  /\ ~ closed
  /\ \E S \in SUBSET Due(p) : S # {} /\ withheld' = withheld \cup S
  /\ UNCHANGED <<paid, closed>>

Close ==
  /\ ~ closed
  /\ \A p \in Partners : Due(p) = {}
  /\ closed' = TRUE
  /\ UNCHANGED <<paid, withheld>>

Next == Close \/ \E p \in Partners : Pay(p) \/ Withhold(p)

Spec == Init /\ [][Next]_<<paid, withheld, closed>>
=============================================================================
