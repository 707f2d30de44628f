------------------------------ MODULE CostHistory ------------------------------
(***************************************************************************)
(* The monthly cost snapshots (cost_snapshot_service and its repository):  *)
(* a row per provider and a row for all, written by the daily job, by the  *)
(* start of the application and by a forecast that finds no history.       *)
(* Nothing keeps two of them from running at once, and the unique          *)
(* constraint on (month, provider) does not cover the row for all, whose   *)
(* provider is NULL.                                                       *)
(*                                                                         *)
(* A row is looked up, then inserted or updated.  An insert waits for an   *)
(* uncommitted one with the same key and fails when that is committed; an  *)
(* update waits for the row and writes the cost only when it differs from  *)
(* what was looked up.  The row for all holds a sum and what it is made    *)
(* of.  Numbers of licences and currencies are left out.                   *)
(***************************************************************************)
EXTENDS Naturals, Sequences, FiniteSets, Functions

CONSTANTS
    CostProviders,  \* the providers that may be configured
    HrisProviders,  \* those without licences: hibob, personio
    MaxCost,        \* bound: cost of a provider's licences, and of its packages
    MaxMonths,      \* bound: months
    Creations,      \* slots for creations of a snapshot
    MaxCreations,   \* bound: creations that are begun
    MaxSpending     \* bound: changes of providers and costs

ASSUME CostAssumptions ==
    /\ IsFiniteSet(CostProviders) /\ HrisProviders \subseteq CostProviders
    /\ MaxCost \in Nat /\ MaxMonths \in Nat \ {0}
    /\ MaxCreations \in Nat /\ MaxSpending \in Nat

Months == 1 .. MaxMonths
NoCostRow == MaxCost + 1

VARIABLES
    month,          \* the current month
    spending,       \* [CostProviders -> licences, packages; or Unconfigured, Deleted]
    costRow,        \* [Months -> [CostProviders -> a cost or NoCostRow]]
    totalRows,      \* [Months -> the rows for all providers]
    creation,       \* [Creations -> the creation in the slot]
    created,        \* number of creations
    spent,          \* number of changes of spending
    apart,          \* history: months of first creations at once with no provider in common
    mixed           \* history: months of creations at once that computed different costs

costVars == <<month, spending, costRow, totalRows, creation, created, spent, apart, mixed>>

-----------------------------------------------------------------------------
\* A provider that is configured again after its deletion is another one.
Unconfigured == [licences |-> 0, packages |-> NoCostRow]
Deleted == [licences |-> NoCostRow, packages |-> NoCostRow]
CostPairs == [licences: 0 .. MaxCost, packages: 0 .. MaxCost]
Spending == CostPairs \cup {Unconfigured, Deleted}
Configured == {p \in CostProviders : spending[p] \in CostPairs}

\* Packages count only when no licence has a cost.
ProviderCost(s) == IF s.licences > 0 THEN s.licences ELSE s.packages

\* plan: what is left to write; current: what is being written; costs: what was computed;
\* seen: what a look-up found; wrote: rows that are not committed.
IdleCreation ==
    [step |-> "idle", month |-> 1, plan |-> {}, current |-> {}, costs |-> <<>>,
     seen |-> <<>>, wrote |-> <<>>, inserts |-> {}]

Busy(q) == creation[q].step # "idle"
Writers(q, m, p) ==
    {r \in Creations \ {q} : creation[r].month = m /\ p \in DOMAIN creation[r].wrote}

\* Mutant: no unique constraint that an insert would wait for.
NoInserter(q, m, p) == {}

Inserters(q, m, p) == {r \in Writers(q, m, p) : p \in creation[r].inserts}

CostInit ==
    /\ month = 1
    /\ spending = [p \in CostProviders |-> Unconfigured]
    /\ costRow = [m \in Months |-> [p \in CostProviders |-> NoCostRow]]
    /\ totalRows = [m \in Months |-> <<>>]
    /\ creation = [q \in Creations |-> IdleCreation]
    /\ created = 0 /\ spent = 0
    /\ apart = {} /\ mixed = {}

-----------------------------------------------------------------------------
\* Configuring a provider, a sync, a change of prices or packages.
Spend(p, s) ==
    /\ spent < MaxSpending
    /\ spending[p] \notin {s, Deleted}
    /\ spending' = [spending EXCEPT ![p] = s]
    /\ spent' = spent + 1
    /\ UNCHANGED <<month, costRow, totalRows, creation, created, apart, mixed>>

\* The provider's rows go with it; rows inserted and not committed hold the delete up.
DeleteProvider(p) ==
    /\ spent < MaxSpending
    /\ p \in Configured
    /\ \A q \in Creations : p \notin DOMAIN creation[q].wrote
    /\ spending' = [spending EXCEPT ![p] = Deleted]
    /\ costRow' = [m \in Months |-> [costRow[m] EXCEPT ![p] = NoCostRow]]
    /\ spent' = spent + 1
    /\ UNCHANGED <<month, totalRows, creation, created, apart, mixed>>

NextMonth ==
    /\ month < MaxMonths
    /\ month' = month + 1
    /\ UNCHANGED <<spending, costRow, totalRows, creation, created, spent, apart, mixed>>

Counted == Configured \ HrisProviders

(* The daily job, or one that first asks whether the month has its row:    *)
(* nothing happens when it has one, an error when it has two.              *)
BeginCreation(q, ensure) ==
    /\ ~Busy(q)
    /\ created < MaxCreations
    /\ ensure => totalRows[month] = <<>>
    /\ created' = created + 1
    /\ creation' = [creation EXCEPT ![q] =
            [IdleCreation EXCEPT !.step = "rows", !.month = month,
                !.plan = Counted,
                !.costs = [p \in Counted |-> ProviderCost(spending[p])]]]
    /\ LET others == {r \in Creations : Busy(r) /\ creation[r].month = month}
       IN  /\ mixed' = IF \A r \in others : creation[r].costs = creation'[q].costs
                       THEN mixed ELSE mixed \cup {month}
           /\ apart' = IF \E r \in others : DOMAIN creation[r].costs \cap Counted = {}
                       THEN apart \cup {month} ELSE apart
    /\ UNCHANGED <<month, spending, costRow, totalRows, spent>>

\* The providers come in no order that the query asks for.
LookUp(q) ==
    LET c == creation[q]
    IN  /\ c.step = "rows" /\ c.current = {}
        /\ \E p \in c.plan :
              creation' = [creation EXCEPT ![q] =
                  [c EXCEPT !.current = {p}, !.seen = <<costRow[c.month][p]>>]]
        /\ UNCHANGED <<month, spending, costRow, totalRows, created, spent, apart, mixed>>

\* Mutant: a row that exists is left as it is.
OnlyNew(found, cost) == found = NoCostRow

\* The row is inserted, or its cost has changed.
Written(found, cost) == found = NoCostRow \/ found # cost

\* The insert of a new row, or the update of the one that was found.
InsertOrUpdate(q) ==
    \E p \in creation[q].current :
    LET c == creation[q]
        cost == c.costs[p]
        known == Head(c.seen) # NoCostRow
    IN  /\ c.step = "rows"
        /\ p \in Configured
        /\ IF known THEN costRow[c.month][p] # NoCostRow
           ELSE costRow[c.month][p] = NoCostRow /\ Inserters(q, c.month, p) = {}
        /\ known /\ Written(Head(c.seen), cost) => Writers(q, c.month, p) = {}
        /\ creation' = [creation EXCEPT ![q] =
                [c EXCEPT !.plan = @ \ {p}, !.current = {}, !.seen = <<>>,
                    !.wrote = IF ~Written(Head(c.seen), cost) THEN @
                              ELSE [x \in DOMAIN c.wrote \cup {p} |->
                                        IF x = p THEN cost ELSE c.wrote[x]],
                    !.inserts = IF known THEN @ ELSE @ \cup {p}]]
        /\ UNCHANGED <<month, spending, costRow, totalRows, created, spent, apart, mixed>>

Total(c) == [cost |-> SumFunction(c.costs), parts |-> c.costs]

\* Each column is written when it differs from what was looked up.
Updated(row, seen, new) ==
    [cost |-> IF new.cost = seen.cost THEN row.cost ELSE new.cost,
     parts |-> IF new.parts = seen.parts THEN row.parts ELSE new.parts]

\* More than one row for all is an error.
LookUpTotal(q) ==
    LET c == creation[q]
    IN  /\ c.step = "rows" /\ c.plan = {}
        /\ Len(totalRows[c.month]) <= 1
        /\ creation' = [creation EXCEPT ![q] =
               [c EXCEPT !.step = "total", !.seen = totalRows[c.month]]]
        /\ UNCHANGED <<month, spending, costRow, totalRows, created, spent, apart, mixed>>

\* The row for all, and the commit.  An uncommitted row for all is held no longer than this.
CommitCreation(q) ==
    LET c == creation[q]
        m == c.month
        rows == totalRows[m]
    IN  /\ c.step = "total"
        /\ costRow' = [costRow EXCEPT ![m] =
                [p \in CostProviders |->
                    IF p \in DOMAIN c.wrote THEN c.wrote[p] ELSE costRow[m][p]]]
        /\ totalRows' = [totalRows EXCEPT ![m] =
                IF c.seen = <<>> THEN Append(rows, Total(c))
                ELSE <<Updated(Head(rows), Head(c.seen), Total(c))>> \o Tail(rows)]
        /\ creation' = [creation EXCEPT ![q] = IdleCreation]
        /\ UNCHANGED <<month, spending, created, spent, apart, mixed>>

\* A key that was taken, a provider or a row that is gone, two rows for all, a deadlock, a
\* restart of the application: all is rolled back.
AbortCreation(q) ==
    /\ Busy(q)
    /\ creation' = [creation EXCEPT ![q] = IdleCreation]
    /\ UNCHANGED <<month, spending, costRow, totalRows, created, spent, apart, mixed>>

CostNext ==
    \/ \E p \in CostProviders :
        \/ \E s \in CostPairs : Spend(p, s)
        \/ DeleteProvider(p)
    \/ NextMonth
    \/ \E q \in Creations :
        \/ \E ensure \in BOOLEAN : BeginCreation(q, ensure)
        \/ LookUp(q) \/ InsertOrUpdate(q) \/ LookUpTotal(q) \/ CommitCreation(q)
        \/ AbortCreation(q)

CostSpec == CostInit /\ [][CostNext]_costVars

-----------------------------------------------------------------------------
Summands == UNION {[S -> 0 .. MaxCost] : S \in SUBSET CostProviders}

\* Type correctness of the rows and the creations.
CostTypeOK ==
    /\ month \in Months
    /\ spending \in [CostProviders -> Spending]
    /\ costRow \in [Months -> [CostProviders -> 0 .. NoCostRow]]
    /\ \A m \in Months : totalRows[m] \in Seq([cost: Nat, parts: Summands])
    /\ \A q \in Creations :
        /\ creation[q].step \in {"idle", "rows", "total"}
        /\ creation[q].month \in Months
        /\ creation[q].inserts \subseteq DOMAIN creation[q].wrote
    /\ apart \subseteq Months /\ mixed \subseteq Months

\* A month has one row for all providers at most, for two of them make every later look-up
\* of the month fail, although only the rows of the providers are unique: two creations
\* that find nothing meet at the first provider they have in common.
OneTotalPerMonth == \A m \in Months \ apart : Len(totalRows[m]) <= 1

\* The row for all is the sum of the rows of the providers and of those rows, if any, that
\* went with a provider deleted since it was written (a snapshot's row is deleted with its
\* provider, the row for all is not corrected).  It holds however often the month was
\* created, also by creations at once, as long as these computed the same costs.  Of a month where
\* creations at once computed different costs, or had no provider in common, it says
\* nothing: there a row may stay as the one has written it and the row for all as the other.
TotalAddsUp ==
    \A m \in Months \ (mixed \cup apart) :
        totalRows[m] # <<>> =>
            LET total == Head(totalRows[m])
                counted == DOMAIN total.parts
            IN  /\ total.cost = SumFunction(total.parts)
                /\ counted \subseteq CostProviders \ HrisProviders
                /\ \A p \in CostProviders :
                      costRow[m][p] # NoCostRow => p \in counted /\ total.parts[p] = costRow[m][p]
                /\ \A p \in counted : costRow[m][p] = NoCostRow => spending[p] = Deleted
==============================================================================
