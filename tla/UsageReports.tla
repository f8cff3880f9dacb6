------------------------------ MODULE UsageReports ------------------------------
(***************************************************************************)
(* The usage report of one tenant (apps/api/src/usage-billing.ts and       *)
(* usage-ledger.ts): what each conversion is worth now is compared with    *)
(* what the ledger says was billed for it, the difference is written to    *)
(* the ledger and sent to a Stripe meter, and what the meter cannot take,  *)
(* a credit or a fraction of a cent, is carried to the next report.        *)
(*                                                                         *)
(* The scheduler and the admin's trigger call it inside a transaction of   *)
(* the tenant, and then its own transactions are savepoints: nothing is    *)
(* kept until the caller commits. A direct call, as in the tests, commits  *)
(* each of them. enclosed says which.                                      *)
(* Left out: what a conversion is worth under which fee rule, the opening  *)
(* of the ledger, shadow comparisons, a wiped mark.                        *)
(***************************************************************************)
EXTENDS Integers, FiniteSets, Functions, NoValue

CONSTANTS
  Conversions,  \* conversions and bonuses
  Reporters,    \* the scheduler, the admin's trigger, replicas of them
  MaxBasis,     \* bound: what a conversion is worth, in its currency
  Rates,        \* USD for a unit; 0 where no rate is published
  Cent,         \* the meter takes whole cents, of so many units
  MaxReports,   \* bound: how often the mark moves
  Enclosures,   \* how it is called: inside a transaction, directly, or either
  Contracts,    \* may the tenant be on a contract, billed out of band, for a while?
  AnswerLost    \* may a caller's transaction fail after Stripe took the event?

VARIABLES
  basis,      \* what each conversion is worth now
  visible,    \* conversions whose transaction has committed
  books,      \* UsageLedger, and the Config rows: carry, mark, pending report
  meter,      \* what Stripe took under each identifier
  reporter,   \* the run of each process
  enclosed,   \* is a run inside a transaction of its caller?
  alerted     \* was a report given up, for a human to reconcile?

usageVars == <<basis, visible, books, meter, reporter, enclosed, alerted>>

Amounts == [Conversions -> Int]
Nothing == [c \in Conversions |-> 0]
Marks == 0..MaxReports
Reports == [amount : Nat, carry : Int, ident : Marks, old : SUBSET Conversions,
            billed : Amounts, usd : Amounts]
Away == [at |-> "idle", report |-> None]

ASSUME UsageAssumption ==
  /\ None \notin Reports
  /\ MaxBasis \in Nat /\ Rates \subseteq Nat /\ Cent \in Nat \ {0} /\ MaxReports \in Nat
  /\ Enclosures \subseteq BOOLEAN /\ {Contracts, AnswerLost} \subseteq BOOLEAN
  /\ IsFiniteSet(Conversions)

UsageTypeOK ==
  /\ basis \in [Conversions -> 0..MaxBasis] /\ visible \subseteq Conversions
  /\ books \in [billed : Amounts, usd : Amounts, rows : SUBSET Conversions, old : SUBSET Conversions,
                carry : Int, mark : Marks, pending : Reports \cup {None}]
  /\ meter \in [Marks -> Nat]
  /\ reporter \in [Reporters -> [at : {"idle", "send", "sent"}, report : Reports \cup {None}]]
  /\ {enclosed, alerted} \subseteq BOOLEAN

UsageInit ==
  /\ basis = Nothing /\ visible = {}
  /\ books = [billed |-> Nothing, usd |-> Nothing, rows |-> {}, old |-> {},
              carry |-> 0, mark |-> 0, pending |-> None]
  /\ meter = [m \in Marks |-> 0]
  /\ reporter = [r \in Reporters |-> Away]
  /\ enclosed \in Enclosures /\ alerted = FALSE

RunAt(r, l) == reporter[r].at = l
Move(r, l, m) == reporter' = [reporter EXCEPT ![r] = [at |-> l, report |-> m]]
Leave(r) == reporter' = [reporter EXCEPT ![r] = Away]

-----------------------------------------------------------------------------

\* ledgerDeltas: a conversion that was never billed counts only if it is new.
Delta(c) ==
  IF c \in visible /\ (c \in books.rows \/ c \notin books.old) THEN basis[c] - books.billed[c] ELSE 0

\* Mutant: a credit at the rate of the day.
UsdToday(c, rate) == Delta(c) * rate[c]

\* priceDeltas: new basis at today's rate, a credit at the rate it was billed at.
Usd(c, rate) ==
  IF Delta(c) >= 0 THEN Delta(c) * rate[c] ELSE (books.usd[c] * Delta(c)) \div books.billed[c]

\* The ledger rows of a report,
Inserted(b, m) ==
  [b EXCEPT !.billed = [c \in Conversions |-> b.billed[c] + m.billed[c]],
            !.usd = [c \in Conversions |-> b.usd[c] + m.usd[c]],
            !.rows = b.rows \cup {c \in Conversions : m.billed[c] # 0}]

\* and finishReport: its carry, the mark, the outbox cleared.
Finished(b, m) == [b EXCEPT !.carry = m.carry, !.mark = m.ident + 1, !.old = m.old, !.pending = None]

\* Mutant: what a report carries forward is not frozen with it.
FrozenAmount(m) == [m EXCEPT !.billed = Nothing, !.usd = Nothing, !.carry = None]

\* The frozen report, whose rows are in the ledger.
Frozen(m) == [m EXCEPT !.billed = Nothing, !.usd = Nothing]

\* What the meter gets of a net amount: whole cents, and nothing of a credit.
Rounded(net) == IF net > 0 THEN Cent * ((2 * net + Cent) \div (2 * Cent)) ELSE 0

\* The report of now. The conversions a day older than it (old) are among those
\* that can be seen: no transaction is open that long.
ReportNow(rate, old) ==
  LET usd == [c \in Conversions |-> Usd(c, rate)]
      net == SumFunction(usd) + books.carry
  IN  [amount |-> Rounded(net), carry |-> net - Rounded(net), ident |-> books.mark, old |-> old,
       billed |-> [c \in Conversions |-> Delta(c)], usd |-> usd]

-----------------------------------------------------------------------------

\* Mutant: the scheduler and the admin's trigger do not wait for each other.
UnlockedAlways == TRUE

\* The advisory lock of the tenant, which a run holds from before it reads until
\* its caller's transaction ends; outside of one there is no lock, and no second
\* run. (Under it, what a run reads is read at one point.)
Unlocked == \A r \in Reporters : RunAt(r, "idle")

\* Nothing for the meter: all of it in one transaction. Otherwise the rows and
\* the frozen report are written, and Stripe is called.
Read(r) ==
  /\ Unlocked /\ books.mark < MaxReports /\ books.pending = None
  /\ \E rate \in [Conversions -> Rates], old \in SUBSET visible :
       LET m == ReportNow(rate, old) IN
       /\ books.old \subseteq old
       /\ IF m.amount <= 0
          THEN books' = Finished(Inserted(books, m), m) /\ UNCHANGED reporter
          ELSE IF enclosed
               THEN Move(r, "send", m) /\ UNCHANGED books
               ELSE Move(r, "send", Frozen(m)) /\ books' = [Inserted(books, m) EXCEPT !.pending = Frozen(m)]
  /\ UNCHANGED <<basis, visible, meter, enclosed, alerted>>

\* A frozen report is sent again, word for word.
Resend(r) ==
  /\ Unlocked /\ books.pending # None
  /\ Move(r, "send", books.pending)
  /\ UNCHANGED <<basis, visible, books, meter, enclosed, alerted>>

\* After 30 days it is given up, and a human is told.
Abandon ==
  /\ Unlocked /\ books.pending # None
  /\ books' = Finished(books, books.pending) /\ alerted' = TRUE
  /\ UNCHANGED <<basis, visible, meter, reporter, enclosed>>

\* meterEvents.create: Stripe takes the first event of an identifier.
Send(r) ==
  /\ RunAt(r, "send")
  /\ LET m == reporter[r].report IN
     meter' = IF meter[m.ident] = 0 THEN [meter EXCEPT ![m.ident] = m.amount] ELSE meter
  /\ reporter' = [reporter EXCEPT ![r].at = "sent"]
  /\ UNCHANGED <<basis, visible, books, enclosed, alerted>>

\* finishReport, and the caller's commit, which is what keeps the rows.
Finish(r) ==
  /\ RunAt(r, "sent")
  /\ books' = Finished(Inserted(books, reporter[r].report), reporter[r].report)
  /\ Leave(r)
  /\ UNCHANGED <<basis, visible, meter, enclosed, alerted>>

\* A refusal, an answer that is lost, a process that dies: the run is over, and
\* with it the transaction it was called in. (One that has no rates, or nothing
\* left to do, changed nothing.)
Fail(r) ==
  /\ ~ RunAt(r, "idle") /\ (RunAt(r, "sent") /\ enclosed => AnswerLost)
  /\ Leave(r)
  /\ UNCHANGED <<basis, visible, books, meter, enclosed, alerted>>

\* A tenant on a contract is not metered: without the lock, the mark moves and a
\* frozen report is dropped.
Contract ==
  /\ Contracts /\ books.mark < MaxReports /\ (enclosed \/ Unlocked)
  /\ \E old \in SUBSET visible :
       books.old \subseteq old /\ books' = [books EXCEPT !.mark = @ + 1, !.old = old, !.pending = None]
  /\ alerted' = (alerted \/ books.pending # None)
  /\ UNCHANGED <<basis, visible, meter, reporter, enclosed>>

\* A conversion is attributed, refunded, reversed or credited again, at any time.
Revise(c) ==
  /\ \E v \in 0..MaxBasis : v # basis[c] /\ basis' = [basis EXCEPT ![c] = v]
  /\ visible' = visible \cup {c}
  /\ UNCHANGED <<books, meter, reporter, enclosed, alerted>>

UsageNext ==
  \/ \E r \in Reporters :
       Read(r) \/ Resend(r) \/ Send(r) \/ Finish(r) \/ Fail(r)
  \/ Abandon \/ Contract
  \/ \E c \in Conversions : Revise(c)

UsageSpec == UsageInit /\ [][UsageNext]_usageVars

-----------------------------------------------------------------------------

\* Exactly once: between two reports, what the ledger says was billed is what
\* Stripe metered for the periods that are over and what is carried, through
\* refunds, credits, rounding, changing rates, runs that die and reports that
\* are sent again. (A report that was given up is reconciled by hand.)
MeterIsTrue ==
  (\A r \in Reporters : RunAt(r, "idle")) /\ books.pending = None /\ ~ alerted =>
    SumFunction(books.usd) = SumFunctionOnSet(meter, 0..(books.mark - 1)) + books.carry

\* A conversion that is refunded in full costs nothing, whatever the rates it
\* was billed at in parts were: usage-ledger.ts, "nets to exactly zero".
RefundsNetOut == \A c \in Conversions : books.billed[c] = 0 => books.usd[c] = 0
=============================================================================
