------------------------- MODULE MCFundingCollection -------------------------
(* Instances of FundingCollection for TLC.                                    *)
EXTENDS FundingCollection, TLC

\* Nothing in the specification orders batches or commissions.
BatchSymmetry == Permutations(Batches)
CommissionSymmetry == Permutations(Commissions)

\* One commission with any two of the workers at a time and a second
\* PaymentIntent, and no charge that is given back,
Deep ==
  /\ \E w \in Workers : worker[w] = Resting
  /\ \E c \in Commissions : \A b \in Batches : allocation[b][c] = "none"
  /\ \A p \in PaymentIntents : intent[p] # "refunded"

\* or two commissions without a second PaymentIntent, the expired key that it
\* takes, an operator, or the quiet hour that only an operator looks at.
Shrinking ==
  /\ \A p \in PaymentIntents :
       intent[p] # "absent" => p[2] = 1 /\ frozenKey[p[1]] # None
  /\ \A w \in Operators : worker[w] = Resting
  /\ \A b \in Batches : ~ quiet[b]

Slices == Deep \/ Shrinking
=============================================================================
