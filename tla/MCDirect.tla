------------------------------- MODULE MCDirect -------------------------------
EXTENDS DirectTransfers

CONSTANTS c1, c2, w1, w2, o1

OneLine == refunded = {} /\ status[c2] = "accrued"
FullOnly == \A t \in made : back[t] # "part"
NoEdits == \A t \in made : <<t, "none">> \notin events

SliceA == /\ OneLine /\ FullOnly /\ NoEdits
          /\ state[2] = "none" /\ state[1] # "manual" /\ foreign = {}
SliceB == /\ OneLine /\ FullOnly /\ NoEdits
          /\ worker[w2] = Resting /\ foreign = {}
          /\ state[2] # "none" => worker[o1] = Resting /\ postedAt[2] # "old"
SliceC == /\ \A p \in Payouts : postedAt[p] # "old" /\ generation[p] = 0
          /\ worker[w2] = Resting /\ worker[o1] = Resting /\ foreign = {}
          /\ \A u \in refunded : u[1] = c1
          /\ \A r \in requests : r[2] # None
SliceD == /\ OneLine /\ NoEdits
          /\ \A r \in requests : r[2] # None
          /\ state[2] = "none" /\ worker[w2] = Resting /\ state[1] # "manual"
Slices == SliceA \/ SliceB \/ SliceC \/ SliceD
=============================================================================
