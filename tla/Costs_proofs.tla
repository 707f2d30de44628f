---------------------------- MODULE Costs_proofs ------------------------------
(***************************************************************************)
(* Proofs about the components that count money: the monthly snapshots     *)
(* (CostHistory), the prices and the costs of licences (Pricing), the      *)
(* figures on the pages (Figures) and the forecasts (Forecasts).           *)
(***************************************************************************)
EXTENDS CostHistory, Pricing, Figures, Forecasts, Sums_proofs

-----------------------------------------------------------------------------
(***************************************************************************)
(* Proof about CostHistory, for any providers, months and creations: a     *)
(* month has at most one row for all providers.                            *)
(***************************************************************************)

-----------------------------------------------------------------------------
(* The inductive invariant *)

Fields == {"step", "month", "plan", "current", "costs", "seen", "wrote", "inserts"}

\* What a creation has inserted it has written; it writes what it has planned.
CreationGood(c) ==
    /\ DOMAIN c = Fields
    /\ c.step \in {"idle", "rows", "total"}
    /\ c.month \in Months
    /\ c.inserts \subseteq DOMAIN c.wrote
    /\ c.current \subseteq c.plan /\ c.plan \subseteq CostProviders
    /\ c.step = "total" => c.plan = {}

Shapes ==
    /\ DOMAIN creation = Creations
    /\ DOMAIN totalRows = Months
    /\ DOMAIN costRow = Months /\ \A m \in Months : DOMAIN costRow[m] = CostProviders
    /\ month \in Months
    /\ \A q \in Creations : CreationGood(creation[q])

\* As long as a month has no row for all providers it has none of a provider, and a
\* creation has inserted whatever it has dealt with.
Untouched ==
    \A m \in Months \ apart :
        totalRows[m] = <<>> => \A p \in CostProviders : costRow[m][p] = NoCostRow

AllInserted(c) ==
    /\ DOMAIN c.costs \subseteq CostProviders
    /\ \A p \in DOMAIN c.costs : p \in c.plan \/ p \in c.inserts
    /\ c.current # {} => c.seen = <<NoCostRow>>

FirstInserts ==
    \A q \in Creations :
        (Busy(q) /\ creation[q].month \notin apart /\ totalRows[creation[q].month] = <<>>)
            => AllInserted(creation[q])

\* A creation that has found the row for all was not the first; one that has not is.
TotalSeen ==
    \A q \in Creations :
        creation[q].step = "total" /\ creation[q].month \notin apart
            => (creation[q].seen = <<>> <=> totalRows[creation[q].month] = <<>>)

Together(q, r) == q # r /\ Busy(q) /\ Busy(r) /\ creation[q].month = creation[r].month

\* Two creations at once have a provider in common; the unique constraint lets only one of
\* them insert its row.
Meet ==
    \A q, r \in Creations :
        (Together(q, r) /\ creation[q].month \notin apart)
            => DOMAIN creation[q].costs \cap DOMAIN creation[r].costs # {}

InsertedOnce ==
    \A q, r \in Creations : Together(q, r) => creation[q].inserts \cap creation[r].inserts = {}

AtMostOne(rows) == rows = <<>> \/ \E v : rows = <<v>>

CostInv ==
    /\ Shapes /\ Untouched /\ FirstInserts /\ TotalSeen /\ Meet /\ InsertedOnce
    /\ \A m \in Months \ apart : AtMostOne(totalRows[m])

-----------------------------------------------------------------------------
(* Steps *)

LEMMA InitHolds == CostInit => CostInv
<1> SUFFICES ASSUME CostInit
             PROVE  CostInv
    OBVIOUS
<1>1. 1 \in Months
    BY CostAssumptions DEF Months
<1>2. CreationGood(IdleCreation) /\ IdleCreation.step = "idle"
    BY <1>1 DEF CreationGood, IdleCreation, Fields
<1>3. \A q \in Creations : creation[q] = IdleCreation /\ ~Busy(q)
    BY <1>2 DEF CostInit, Busy
<1>4. Shapes
    BY <1>1, <1>2 DEF CostInit, Shapes
<1>5. FirstInserts /\ TotalSeen /\ Meet /\ InsertedOnce
    BY <1>2, <1>3 DEF FirstInserts, TotalSeen, Meet, InsertedOnce, Together
<1>6. Untouched /\ \A m \in Months \ apart : AtMostOne(totalRows[m])
    BY DEF CostInit, Untouched, AtMostOne
<1> QED BY <1>4, <1>5, <1>6 DEF CostInv

\* A step that leaves the creations and the totals alone, and adds no row of a provider.
LEMMA RowsOnly ==
    ASSUME CostInv, UNCHANGED <<totalRows, creation, apart>>, month' \in Months,
           DOMAIN costRow' = Months,
           \A m \in Months : DOMAIN costRow'[m] = CostProviders,
           \A m \in Months, p \in CostProviders :
               costRow[m][p] = NoCostRow => costRow'[m][p] = NoCostRow
    PROVE  CostInv'
<1>1. Shapes'
    BY DEF CostInv, Shapes
<1>2. Untouched'
    BY DEF CostInv, Untouched
<1>3. FirstInserts' /\ TotalSeen' /\ Meet' /\ InsertedOnce'
    BY DEF CostInv, FirstInserts, TotalSeen, Meet, InsertedOnce, Together, Busy
<1> QED BY <1>1, <1>2, <1>3 DEF CostInv

\* One creation moves on, nothing is committed.
LEMMA CreationMoves ==
    ASSUME CostInv, NEW q \in Creations, NEW new, creation' = [creation EXCEPT ![q] = new],
           UNCHANGED <<month, totalRows, costRow, apart>>,
           CreationGood(new), new.step # "idle", Busy(q),
           new.month = creation[q].month, new.costs = creation[q].costs,
           (new.month \notin apart /\ totalRows[new.month] = <<>>) => AllInserted(new),
           new.step = "total" => new.seen = totalRows[new.month],
           \A p \in new.inserts \ creation[q].inserts :
               \A r \in Creations \ {q} : p \in creation[r].inserts => creation[r].month # new.month
    PROVE  CostInv'
<1>1. /\ creation'[q] = new /\ \A r \in Creations \ {q} : creation'[r] = creation[r]
      /\ DOMAIN creation' = Creations
    BY DEF CostInv, Shapes
<1>2. Busy(q)' /\ \A r \in Creations : Busy(r)' <=> Busy(r)
    BY <1>1 DEF Busy
<1>3. Shapes' /\ Untouched'
    BY <1>1 DEF CostInv, Shapes, Untouched
<1>4. FirstInserts' /\ TotalSeen'
    BY <1>1, <1>2 DEF CostInv, FirstInserts, TotalSeen
<1>5. \A r, t \in Creations : Together(r, t)' <=> Together(r, t)
    BY <1>1, <1>2 DEF Together
<1>6. Meet'
    BY <1>1, <1>5 DEF CostInv, Meet
<1>7. InsertedOnce'
    BY <1>1, <1>5 DEF CostInv, InsertedOnce, Together
<1> QED BY <1>3, <1>4, <1>6, <1>7 DEF CostInv

LEMMA LookUpKeeps ==
    ASSUME CostInv, NEW q \in Creations, LookUp(q)
    PROVE  CostInv'
<1> DEFINE c == creation[q]
<1>1. PICK p \in c.plan :
        creation' = [creation EXCEPT ![q] =
            [c EXCEPT !.current = {p}, !.seen = <<costRow[c.month][p]>>]]
    BY DEF LookUp
<1> DEFINE new == [c EXCEPT !.current = {p}, !.seen = <<costRow[c.month][p]>>]
<1>2. CreationGood(c) /\ c.step = "rows" /\ c.month \in Months
    BY DEF LookUp, CostInv, Shapes, CreationGood
<1>3. /\ DOMAIN new = Fields /\ new.step = "rows" /\ new.month = c.month /\ new.plan = c.plan
      /\ new.current = {p} /\ new.costs = c.costs /\ new.seen = <<costRow[c.month][p]>>
      /\ new.wrote = c.wrote /\ new.inserts = c.inserts
    BY <1>2 DEF CreationGood, Fields
<1> HIDE DEF new
<1>4. CreationGood(new)
    BY <1>2, <1>3 DEF CreationGood
<1>5. (new.month \notin apart /\ totalRows[new.month] = <<>>) => AllInserted(new)
    <2> SUFFICES ASSUME c.month \notin apart, totalRows[c.month] = <<>>
                 PROVE  AllInserted(new)
        BY <1>3
    <2>1. AllInserted(c)
        BY <1>2 DEF CostInv, FirstInserts, Busy
    <2>2. p \in CostProviders => costRow[c.month][p] = NoCostRow
        BY <1>2 DEF CostInv, Untouched
    <2>3. p \in CostProviders
        BY <1>2 DEF CreationGood
    <2> QED BY <1>3, <2>1, <2>2, <2>3 DEF AllInserted
<1>6. Busy(q) /\ UNCHANGED <<month, totalRows, costRow, apart>>
    BY <1>2 DEF Busy, LookUp
<1>7. creation' = [creation EXCEPT ![q] = new]
    BY <1>1 DEF new
<1> QED BY <1>3, <1>4, <1>5, <1>6, <1>7, CreationMoves

LEMMA InsertOrUpdateKeeps ==
    ASSUME CostInv, NEW q \in Creations, InsertOrUpdate(q)
    PROVE  CostInv'
<1> DEFINE c == creation[q]
<1>1. PICK p \in c.current :
        LET cost == c.costs[p]
            known == Head(c.seen) # NoCostRow
        IN  /\ c.step = "rows"
            /\ ~known => Inserters(q, c.month, p) = {}
            /\ creation' = [creation EXCEPT ![q] =
                    [c EXCEPT !.plan = @ \ {p}, !.current = {}, !.seen = <<>>,
                        !.wrote = IF ~Written(Head(c.seen), cost) THEN @
                                  ELSE [x \in DOMAIN c.wrote \cup {p} |->
                                            IF x = p THEN cost ELSE c.wrote[x]],
                        !.inserts = IF known THEN @ ELSE @ \cup {p}]]
            /\ UNCHANGED <<month, totalRows, costRow, apart>>
    BY DEF InsertOrUpdate
<1> DEFINE known == Head(c.seen) # NoCostRow
           same == ~Written(Head(c.seen), c.costs[p])
           wrote == IF same THEN c.wrote
                    ELSE [x \in DOMAIN c.wrote \cup {p} |-> IF x = p THEN c.costs[p] ELSE c.wrote[x]]
           inserts == IF known THEN c.inserts ELSE c.inserts \cup {p}
           new == [c EXCEPT !.plan = c.plan \ {p}, !.current = {}, !.seen = <<>>,
                            !.wrote = wrote, !.inserts = inserts]
<1>2. CreationGood(c) /\ c.step = "rows" /\ Busy(q)
    BY <1>1 DEF CostInv, Shapes, Busy
<1>3. creation' = [creation EXCEPT ![q] = new]
    BY <1>1
<1>4. inserts \subseteq DOMAIN wrote
    <2>1. ~known => ~same
        BY DEF Written
    <2> QED BY <1>2, <2>1 DEF CreationGood
<1> HIDE DEF wrote, inserts
<1>5. /\ DOMAIN new = Fields /\ new.step = "rows" /\ new.month = c.month
      /\ new.plan = c.plan \ {p} /\ new.current = {} /\ new.costs = c.costs
      /\ new.wrote = wrote /\ new.inserts = inserts
    BY <1>2 DEF CreationGood, Fields
<1> HIDE DEF new
<1>6. CreationGood(new)
    BY <1>2, <1>4, <1>5 DEF CreationGood
<1>7. (new.month \notin apart /\ totalRows[new.month] = <<>>) => AllInserted(new)
    <2> SUFFICES ASSUME c.month \notin apart, totalRows[c.month] = <<>>
                 PROVE  AllInserted(new)
        BY <1>5
    <2>1. AllInserted(c)
        BY <1>2 DEF CostInv, FirstInserts
    <2>2. ~known
        <3>1. c.seen = <<NoCostRow>>
            BY <1>1, <2>1 DEF AllInserted
        <3> QED BY <3>1
    <2>3. inserts = c.inserts \cup {p}
        BY <2>2 DEF inserts
    <2> QED BY <1>5, <2>1, <2>3 DEF AllInserted
<1>8. \A x \in new.inserts \ c.inserts :
         \A r \in Creations \ {q} : x \in creation[r].inserts => creation[r].month # new.month
    <2> SUFFICES ASSUME NEW x \in inserts \ c.inserts, NEW r \in Creations \ {q},
                        x \in creation[r].inserts, creation[r].month = c.month
                 PROVE  FALSE
        BY <1>5
    <2>1. x = p /\ ~known
        BY DEF inserts
    <2>2. x \in DOMAIN creation[r].wrote
        BY DEF CostInv, Shapes, CreationGood
    <2>3. Inserters(q, c.month, p) = {}
        BY <1>1, <2>1
    <2> QED BY <2>1, <2>2, <2>3 DEF Inserters, Writers
<1> QED BY <1>1, <1>2, <1>3, <1>5, <1>6, <1>7, <1>8, CreationMoves

LEMMA LookUpTotalKeeps ==
    ASSUME CostInv, NEW q \in Creations, LookUpTotal(q)
    PROVE  CostInv'
<1> DEFINE c == creation[q]
           new == [c EXCEPT !.step = "total", !.seen = totalRows[c.month]]
<1>1. /\ CreationGood(c) /\ c.step = "rows" /\ c.plan = {} /\ Busy(q)
      /\ creation' = [creation EXCEPT ![q] = new]
      /\ UNCHANGED <<month, totalRows, costRow, apart>>
    BY DEF LookUpTotal, CostInv, Shapes, Busy
<1>2. /\ DOMAIN new = Fields /\ new.step = "total" /\ new.month = c.month /\ new.plan = c.plan
      /\ new.current = c.current /\ new.costs = c.costs /\ new.seen = totalRows[c.month]
      /\ new.wrote = c.wrote /\ new.inserts = c.inserts
    BY <1>1 DEF CreationGood, Fields
<1> HIDE DEF new
<1>3. CreationGood(new) /\ c.current = {}
    BY <1>1, <1>2 DEF CreationGood
<1>4. (new.month \notin apart /\ totalRows[new.month] = <<>>) => AllInserted(new)
    <2> SUFFICES ASSUME c.month \notin apart, totalRows[c.month] = <<>>
                 PROVE  AllInserted(new)
        BY <1>2
    <2>1. AllInserted(c)
        BY <1>1 DEF CostInv, FirstInserts
    <2> QED BY <1>2, <1>3, <2>1 DEF AllInserted
<1> QED BY <1>1, <1>2, <1>3, <1>4, CreationMoves

\* The end of a creation, whatever becomes of the rows.
LEMMA CreationEnds ==
    ASSUME CostInv, NEW q \in Creations, creation' = [creation EXCEPT ![q] = IdleCreation],
           UNCHANGED <<month, apart>>,
           DOMAIN totalRows' = Months, DOMAIN costRow' = Months,
           \A m \in Months : DOMAIN costRow'[m] = CostProviders,
           \A m \in Months \ apart :
               totalRows'[m] = <<>> => totalRows[m] = <<>> /\ costRow'[m] = costRow[m],
           \A r \in Creations \ {q} :
               (creation[r].step = "total" /\ creation[r].month \notin apart)
                   => (totalRows'[creation[r].month] = <<>> <=> totalRows[creation[r].month] = <<>>),
           \A m \in Months \ apart : AtMostOne(totalRows'[m])
    PROVE  CostInv'
<1>1. /\ creation'[q] = IdleCreation /\ \A r \in Creations \ {q} : creation'[r] = creation[r]
      /\ DOMAIN creation' = Creations
    BY DEF CostInv, Shapes
<1>2. CreationGood(IdleCreation) /\ IdleCreation.step = "idle"
    BY CostAssumptions DEF CreationGood, IdleCreation, Fields, Months
<1>3. ~Busy(q)' /\ \A r \in Creations \ {q} : Busy(r)' <=> Busy(r)
    BY <1>1, <1>2 DEF Busy
<1>4. Shapes'
    BY <1>1, <1>2 DEF CostInv, Shapes
<1>5. Untouched'
    BY DEF CostInv, Untouched
<1>6. FirstInserts'
    <2> SUFFICES ASSUME NEW r \in Creations, Busy(r)', creation'[r].month \notin apart',
                        totalRows'[creation'[r].month] = <<>>
                 PROVE  AllInserted(creation'[r])
        BY DEF FirstInserts
    <2>1. r # q /\ creation'[r] = creation[r] /\ Busy(r)
        BY <1>1, <1>3
    <2>2. totalRows[creation[r].month] = <<>>
        BY <2>1 DEF CostInv, Shapes, CreationGood
    <2> QED BY <2>1, <2>2 DEF CostInv, FirstInserts
<1>7. TotalSeen'
    BY <1>1, <1>2 DEF CostInv, TotalSeen
<1>8. \A r, t \in Creations :
         Together(r, t)' => Together(r, t) /\ creation'[r] = creation[r] /\ creation'[t] = creation[t]
    BY <1>1, <1>3 DEF Together
<1>9. Meet' /\ InsertedOnce'
    BY <1>8 DEF CostInv, Meet, InsertedOnce
<1> QED BY <1>4, <1>5, <1>6, <1>7, <1>9 DEF CostInv

LEMMA AbortCreationKeeps ==
    ASSUME CostInv, NEW q \in Creations, AbortCreation(q)
    PROVE  CostInv'
<1>1. creation' = [creation EXCEPT ![q] = IdleCreation]
      /\ UNCHANGED <<month, costRow, totalRows, apart>>
    BY DEF AbortCreation
<1> QED BY <1>1, CreationEnds DEF CostInv, Shapes

LEMMA CommitCreationKeeps ==
    ASSUME CostInv, NEW q \in Creations, CommitCreation(q)
    PROVE  CostInv'
<1> DEFINE c == creation[q]
           m == c.month
           rows == totalRows[m]
           after == IF c.seen = <<>> THEN Append(rows, Total(c))
                    ELSE <<Updated(Head(rows), Head(c.seen), Total(c))>> \o Tail(rows)
<1>1. /\ c.step = "total" /\ Busy(q) /\ CreationGood(c) /\ m \in Months
      /\ creation' = [creation EXCEPT ![q] = IdleCreation]
      /\ UNCHANGED <<month, apart>>
    BY DEF CommitCreation, CostInv, Shapes, CreationGood, Busy
<1>2. totalRows' = [totalRows EXCEPT ![m] = after]
    BY DEF CommitCreation
<1>3. /\ DOMAIN costRow' = Months /\ \A x \in Months : DOMAIN costRow'[x] = CostProviders
      /\ \A x \in Months \ {m} : costRow'[x] = costRow[x]
    BY DEF CommitCreation, CostInv, Shapes
<1>4. /\ totalRows'[m] = after /\ \A x \in Months \ {m} : totalRows'[x] = totalRows[x]
      /\ DOMAIN totalRows' = Months
    BY <1>1, <1>2 DEF CostInv, Shapes
<1>5. m \notin apart => AtMostOne(after) /\ after # <<>>
    <2> SUFFICES ASSUME m \notin apart
                 PROVE  AtMostOne(after) /\ after # <<>>
        OBVIOUS
    <2>1. c.seen = <<>> <=> rows = <<>>
        BY <1>1 DEF CostInv, TotalSeen
    <2>2. CASE rows = <<>>
        <3>1. after = <<Total(c)>>
            BY <2>1, <2>2
        <3> QED BY <3>1 DEF AtMostOne
    <2>3. CASE rows # <<>>
        <3>1. PICK v : rows = <<v>>
            BY <1>1, <2>3 DEF CostInv, AtMostOne
        <3>2. PICK new : new = Updated(Head(rows), Head(c.seen), Total(c))
            OBVIOUS
        <3>3. after = <<new>> \o Tail(rows) /\ Tail(rows) = <<>>
            BY <2>1, <2>3, <3>1, <3>2
        <3>4. after = <<new>>
            <4> HIDE DEF after, rows
            <4>1. after = <<new>> \o <<>>
                BY <3>3
            <4> QED BY <4>1
        <3> QED BY <3>4 DEF AtMostOne
    <2> QED BY <2>2, <2>3
<1> HIDE DEF after
<1>7. \A x \in Months \ apart :
         totalRows'[x] = <<>> => totalRows[x] = <<>> /\ costRow'[x] = costRow[x]
    BY <1>3, <1>4, <1>5
<1>8. \A x \in Months \ apart : AtMostOne(totalRows'[x])
    BY <1>4, <1>5 DEF CostInv
<1>9. ASSUME NEW r \in Creations \ {q}, creation[r].step = "total", creation[r].month \notin apart
      PROVE  totalRows'[creation[r].month] = <<>> <=> totalRows[creation[r].month] = <<>>
    <2>1. CreationGood(creation[r]) /\ creation[r].month \in Months
        BY DEF CostInv, Shapes, CreationGood
    <2>2. CASE creation[r].month # m
        BY <1>4, <2>1, <2>2
    <2>3. CASE creation[r].month = m /\ rows # <<>>
        BY <1>4, <1>5, <1>9, <2>3
    <2>4. CASE creation[r].month = m /\ rows = <<>>
        <3>1. Together(q, r)
            BY <1>1, <1>9, <2>4 DEF Together, Busy
        <3>2. PICK p \in DOMAIN c.costs : p \in DOMAIN creation[r].costs
            BY <1>9, <2>4, <3>1 DEF CostInv, Meet
        <3>3. p \in c.inserts
            BY <1>1, <1>9, <2>4, <3>2 DEF CostInv, FirstInserts, AllInserted, CreationGood
        <3>4. p \in creation[r].inserts
            BY <1>9, <2>1, <2>4, <3>1, <3>2
               DEF CostInv, FirstInserts, AllInserted, CreationGood, Together
        <3> QED BY <3>1, <3>3, <3>4 DEF CostInv, InsertedOnce
    <2> QED BY <2>2, <2>3, <2>4
<1> QED BY <1>1, <1>3, <1>4, <1>7, <1>8, <1>9, CreationEnds

LEMMA BeginCreationKeeps ==
    ASSUME CostInv, NEW q \in Creations, NEW ensure \in BOOLEAN, BeginCreation(q, ensure)
    PROVE  CostInv'
<1> DEFINE costs == [p \in Counted |-> ProviderCost(spending[p])]
           new == [IdleCreation EXCEPT !.step = "rows", !.month = month, !.plan = Counted,
                                       !.costs = costs]
           others == {r \in Creations : Busy(r) /\ creation[r].month = month}
<1>1. /\ creation' = [creation EXCEPT ![q] = new] /\ ~Busy(q) /\ month \in Months
      /\ UNCHANGED <<month, costRow, totalRows>>
      /\ apart' = IF \E r \in others : DOMAIN creation[r].costs \cap Counted = {}
                  THEN apart \cup {month} ELSE apart
    BY DEF BeginCreation, CostInv, Shapes
<1>2. DOMAIN costs = Counted /\ Counted \subseteq CostProviders
    BY DEF Counted, Configured
<1> HIDE DEF costs
<1>3. /\ DOMAIN new = Fields /\ new.step = "rows" /\ new.month = month /\ new.plan = Counted
      /\ new.current = {} /\ new.costs = costs /\ new.inserts = {}
    BY DEF IdleCreation, Fields
<1> HIDE DEF new
<1>4. /\ creation'[q] = new /\ \A r \in Creations \ {q} : creation'[r] = creation[r]
      /\ DOMAIN creation' = Creations
    BY <1>1 DEF CostInv, Shapes
<1>5. Busy(q)' /\ \A r \in Creations \ {q} : Busy(r)' <=> Busy(r)
    BY <1>3, <1>4 DEF Busy
<1>6. CreationGood(new) /\ AllInserted(new)
    BY <1>1, <1>2, <1>3 DEF CreationGood, AllInserted
<1>7. apart \subseteq apart'
    BY <1>1
<1>8. Shapes' /\ Untouched' /\ FirstInserts'
    <2>1. Shapes'
        BY <1>1, <1>4, <1>6 DEF CostInv, Shapes
    <2>2. Untouched'
        BY <1>1 DEF CostInv, Untouched
    <2>3. FirstInserts'
        BY <1>1, <1>4, <1>5, <1>6 DEF CostInv, FirstInserts
    <2> QED BY <2>1, <2>2, <2>3
<1>9. TotalSeen'
    BY <1>1, <1>3, <1>4, <1>7 DEF CostInv, TotalSeen
<1>10. ASSUME NEW r \in Creations \ {q}, Busy(r), creation[r].month = month, month \notin apart'
       PROVE  DOMAIN creation[r].costs \cap Counted # {}
    BY <1>1, <1>10
<1>11. Meet'
    <2> SUFFICES ASSUME NEW r \in Creations, NEW t \in Creations, Together(r, t)',
                        creation'[r].month \notin apart'
                 PROVE  DOMAIN creation'[r].costs \cap DOMAIN creation'[t].costs # {}
        BY DEF Meet
    <2>1. CASE r # q /\ t # q
        BY <1>4, <1>5, <1>7, <2>1 DEF CostInv, Meet, Together
    <2>2. CASE r = q
        <3>1. t # q /\ Busy(t) /\ creation[t].month = month /\ month \notin apart'
            BY <1>3, <1>4, <1>5, <2>2 DEF Together
        <3> QED BY <1>2, <1>3, <1>4, <1>10, <2>2, <3>1
    <2>3. CASE t = q
        <3>1. r # q /\ Busy(r) /\ creation[r].month = month /\ month \notin apart'
            BY <1>3, <1>4, <1>5, <2>3 DEF Together
        <3> QED BY <1>2, <1>3, <1>4, <1>10, <2>3, <3>1
    <2> QED BY <2>1, <2>2, <2>3
<1>12. InsertedOnce'
    <2> SUFFICES ASSUME NEW r \in Creations, NEW t \in Creations, Together(r, t)'
                 PROVE  creation'[r].inserts \cap creation'[t].inserts = {}
        BY DEF InsertedOnce
    <2>1. CASE r # q /\ t # q
        BY <1>4, <1>5, <2>1 DEF CostInv, InsertedOnce, Together
    <2>2. CASE r = q \/ t = q
        BY <1>3, <1>4, <2>2
    <2> QED BY <2>1, <2>2
<1>13. \A m \in Months \ apart' : AtMostOne(totalRows'[m])
    BY <1>1, <1>7 DEF CostInv
<1> QED BY <1>8, <1>9, <1>11, <1>12, <1>13 DEF CostInv

LEMMA CostStep == CostInv /\ [CostNext]_costVars => CostInv'
<1> SUFFICES ASSUME CostInv, [CostNext]_costVars
             PROVE  CostInv'
    OBVIOUS
<1>1. CASE UNCHANGED costVars
    BY <1>1, RowsOnly DEF costVars, CostInv, Shapes
<1>2. ASSUME NEW p \in CostProviders, NEW s, Spend(p, s)
      PROVE  CostInv'
    BY <1>2, RowsOnly DEF Spend, CostInv, Shapes
<1>3. ASSUME NEW p \in CostProviders, DeleteProvider(p)
      PROVE  CostInv'
    <2>1. costRow' = [m \in Months |-> [costRow[m] EXCEPT ![p] = NoCostRow]]
          /\ UNCHANGED <<month, totalRows, creation, apart>>
        BY <1>3 DEF DeleteProvider
    <2>2. /\ DOMAIN costRow' = Months /\ \A m \in Months : DOMAIN costRow'[m] = CostProviders
          /\ \A m \in Months, x \in CostProviders :
                costRow[m][x] = NoCostRow => costRow'[m][x] = NoCostRow
        BY <2>1 DEF CostInv, Shapes
    <2>3. month' \in Months
        BY <2>1 DEF CostInv, Shapes
    <2> QED BY <2>1, <2>2, <2>3, RowsOnly
<1>4. CASE NextMonth
    <2>1. month' \in Months /\ UNCHANGED <<costRow, totalRows, creation, apart>>
        BY <1>4, CostAssumptions DEF NextMonth, CostInv, Shapes, Months
    <2> QED BY <2>1, RowsOnly DEF CostInv, Shapes
<1>5. CASE CostNext
    BY <1>2, <1>3, <1>4, <1>5, BeginCreationKeeps, LookUpKeeps, InsertOrUpdateKeeps, LookUpTotalKeeps,
       CommitCreationKeeps, AbortCreationKeeps DEF CostNext
<1> QED BY <1>1, <1>5

LEMMA CostInvariant == CostSpec => []CostInv
<1> QED BY InitHolds, CostStep, PTL DEF CostSpec

-----------------------------------------------------------------------------
(* create_monthly_snapshot, by the job, at the start and on demand, leaves *)
(* a month with one row for all providers at most, although it looks       *)
(* before it inserts and the unique constraint does not cover that row.    *)
THEOREM MonthsHaveOneTotal == CostSpec => []OneTotalPerMonth
<1>1. CostInv => OneTotalPerMonth
    <2> SUFFICES ASSUME CostInv, NEW m \in Months \ apart
                 PROVE  Len(totalRows[m]) <= 1
        BY DEF OneTotalPerMonth
    <2>1. CASE totalRows[m] = <<>>
        BY <2>1
    <2>2. ASSUME NEW v, totalRows[m] = <<v>>
          PROVE  Len(totalRows[m]) <= 1
        BY <2>2
    <2> QED BY <2>1, <2>2 DEF CostInv, AtMostOne
<1> QED BY <1>1, CostInvariant, PTL

-----------------------------------------------------------------------------
(* The sums: what a creation will have written when it commits.            *)

\* A creation has a cost for what it plans and writes.
SumsPlanned(c) ==
    /\ c.costs \in [DOMAIN c.costs -> 0 .. MaxCost]
    /\ DOMAIN c.costs \subseteq CostProviders \ HrisProviders
    /\ c.plan \subseteq DOMAIN c.costs /\ DOMAIN c.wrote \subseteq DOMAIN c.costs
    /\ \A p \in DOMAIN c.wrote : c.wrote[p] = c.costs[p]

\* A row is as it was found, or already as it is to be, or it went with its provider; what the
\* creation has not written, and will not, has its cost already.  So with the row for all.
SumsFound(c, rows, totals) ==
    /\ \A p \in CostProviders : rows[p] # NoCostRow => p \in DOMAIN c.costs
    /\ \A p \in DOMAIN c.costs :
          p \in c.plan \/ p \in DOMAIN c.wrote \/ rows[p] = c.costs[p] \/ spending[p] = Deleted
    /\ c.step = "rows" =>
          \A p \in c.current :
              c.seen = <<rows[p]>> \/ rows[p] = c.costs[p] \/ spending[p] = Deleted
    /\ c.step = "total" => c.seen = totals \/ totals = <<Total(c)>>

Undisturbed(m) == m \in Months \ (mixed \cup apart)

SumsOf(c) ==
    c.step # "idle" =>
        /\ SumsPlanned(c)
        /\ Undisturbed(c.month) => SumsFound(c, costRow[c.month], totalRows[c.month])

\* Only configured providers have rows.
RowsCounted ==
    /\ \A m \in Months, p \in CostProviders : costRow[m][p] # NoCostRow => p \in Counted
    /\ \A q \in Creations : DOMAIN creation[q].wrote \subseteq Counted

\* Creations at once have computed the same.
Alike ==
    \A q, r \in Creations :
        Together(q, r) /\ creation[q].month \notin mixed => creation[q].costs = creation[r].costs

RowFunctions ==
    \A m \in Months : costRow[m] = [p \in CostProviders |-> costRow[m][p]]

SumsInv ==
    /\ RowFunctions
    /\ spending \in [CostProviders -> Spending]
    /\ mixed \subseteq Months /\ apart \subseteq Months
    /\ RowsCounted /\ Alike
    /\ \A q \in Creations : SumsOf(creation[q])
    /\ TotalAddsUp

\* What the row for all promises of a month.
TotalFits(total, rows) ==
    /\ total.cost = SumFunction(total.parts)
    /\ DOMAIN total.parts \subseteq CostProviders \ HrisProviders
    /\ \A p \in CostProviders :
          rows[p] # NoCostRow => p \in DOMAIN total.parts /\ total.parts[p] = rows[p]
    /\ \A p \in DOMAIN total.parts : rows[p] = NoCostRow => spending[p] = Deleted

LEMMA TotalsFit ==
    TotalAddsUp <=>
        \A m \in Months \ (mixed \cup apart) :
            totalRows[m] # <<>> => TotalFits(Head(totalRows[m]), costRow[m])
<1> QED BY DEF TotalAddsUp, TotalFits

LEMMA SumsInit == CostInit => SumsInv
<1> SUFFICES ASSUME CostInit
             PROVE  SumsInv
    OBVIOUS
<1>1. spending \in [CostProviders -> Spending]
    BY DEF CostInit, Spending
<1>2. \A q \in Creations : creation[q].step = "idle" /\ DOMAIN creation[q].wrote = {}
    BY DEF CostInit, IdleCreation
<1>3. \A m \in Months, p \in CostProviders : costRow[m][p] = NoCostRow
    BY DEF CostInit
<1>4. RowsCounted /\ Alike
    BY <1>2, <1>3 DEF RowsCounted, Alike, Together, Busy
<1>5. \A m \in Months : totalRows[m] = <<>>
    BY DEF CostInit
<1>6. RowFunctions
    BY DEF CostInit, RowFunctions
<1>7. (\A q \in Creations : SumsOf(creation[q])) /\ TotalAddsUp
    BY <1>2, <1>5 DEF SumsOf, TotalAddsUp
<1> QED BY <1>1, <1>4, <1>6, <1>7 DEF CostInit, SumsInv

\* Providers and their costs change; rows go only with their provider.
LEMMA SpendingSums ==
    ASSUME CostInv, SumsInv, UNCHANGED <<totalRows, creation, apart, mixed>>,
           spending' \in [CostProviders -> Spending],
           \A p \in CostProviders : spending[p] = Deleted => spending'[p] = Deleted,
           \A m \in Months, p \in CostProviders :
               \/ costRow'[m][p] = costRow[m][p]
               \/ costRow'[m][p] = NoCostRow /\ spending'[p] = Deleted,
           RowsCounted', RowFunctions'
    PROVE  SumsInv'
<1>1. Alike'
    BY DEF SumsInv, Alike, Together, Busy
<1>2. ASSUME NEW q \in Creations
      PROVE  SumsOf(creation[q])'
    <2> DEFINE c == creation[q]
    <2>1. c.month \in Months /\ SumsOf(c) /\ c.current \subseteq c.plan
        BY DEF CostInv, Shapes, CreationGood, SumsInv
    <2>2. SumsPlanned(c) => c.plan \subseteq CostProviders /\ DOMAIN c.costs \subseteq CostProviders
        BY DEF SumsPlanned
    <2> HIDE DEF c
    <2>3. ASSUME c.step # "idle", Undisturbed(c.month)
          PROVE  SumsFound(c, costRow[c.month], totalRows[c.month])'
        <3>1. SumsFound(c, costRow[c.month], totalRows[c.month]) /\ SumsPlanned(c)
            BY <2>1, <2>3 DEF SumsOf
        <3>2. c' = c /\ Total(c)' = Total(c) /\ totalRows' = totalRows
            BY DEF c, Total
        <3>3. \A p \in CostProviders : costRow'[c.month][p] # NoCostRow => p \in DOMAIN c.costs
            BY <2>1, <3>1 DEF SumsFound
        <3>4. \A p \in DOMAIN c.costs : p \in c.plan \/ p \in DOMAIN c.wrote
                  \/ costRow'[c.month][p] = c.costs[p] \/ spending'[p] = Deleted
            BY <2>1, <2>2, <3>1 DEF SumsFound
        <3>5. c.step = "rows" => \A p \in c.current :
                  c.seen = <<costRow'[c.month][p]>> \/ costRow'[c.month][p] = c.costs[p]
                      \/ spending'[p] = Deleted
            <4>1. \A p \in c.current : p \in CostProviders
                BY <2>1, <2>2, <3>1
            <4> QED BY <2>1, <3>1, <4>1 DEF SumsFound
        <3>6. c.step = "total" => c.seen = totalRows[c.month] \/ totalRows[c.month] = <<Total(c)>>
            BY <3>1 DEF SumsFound
        <3> QED BY <3>2, <3>3, <3>4, <3>5, <3>6 DEF SumsFound
    <2>4. Undisturbed(c.month)' = Undisturbed(c.month) /\ c' = c /\ SumsPlanned(c)' = SumsPlanned(c)
        BY DEF Undisturbed, c, SumsPlanned
    <2>5. c.step # "idle" => SumsPlanned(c)
        BY <2>1 DEF SumsOf
    <2>6. SumsOf(c)'
        BY <2>3, <2>4, <2>5 DEF SumsOf
    <2> QED BY <2>6 DEF c
<1>3. TotalAddsUp'
    <2> SUFFICES ASSUME NEW m \in Months \ (mixed \cup apart), totalRows[m] # <<>>
                 PROVE  TotalFits(Head(totalRows[m]), costRow[m])'
        BY DEF TotalAddsUp, TotalFits
    <2>1. TotalFits(Head(totalRows[m]), costRow[m])
        BY TotalsFit DEF SumsInv
    <2> QED BY <2>1 DEF TotalFits
<1> QED BY <1>1, <1>2, <1>3 DEF SumsInv

\* A creation moves on, nothing is committed.
LEMMA CreationSums ==
    ASSUME CostInv, SumsInv, NEW q \in Creations, NEW new,
           creation' = [creation EXCEPT ![q] = new],
           UNCHANGED <<totalRows, costRow, spending, apart, mixed>>,
           \/ Busy(q) /\ new.month = creation[q].month /\ new.costs = creation[q].costs
           \/ new.step = "idle",
           SumsOf(new), DOMAIN new.wrote \subseteq Counted
    PROVE  SumsInv'
<1>1. /\ creation'[q] = new /\ \A r \in Creations \ {q} : creation'[r] = creation[r]
    BY DEF CostInv, Shapes
<1>2. \A r, t \in Creations :
         Together(r, t)' => /\ Together(r, t) /\ creation'[r].month = creation[r].month
                            /\ creation'[r].costs = creation[r].costs
                            /\ creation'[t].costs = creation[t].costs
    BY <1>1 DEF Together, Busy
<1>3. Alike'
    BY <1>2 DEF SumsInv, Alike
<1>4. Counted' = Counted
    BY DEF Counted, Configured
<1>5. RowsCounted'
    BY <1>1, <1>4 DEF SumsInv, RowsCounted
<1>6. \A r \in Creations : SumsOf(creation[r])'
    <2>1. \A d : SumsOf(d) => SumsOf(d)'
        BY DEF SumsOf, SumsPlanned, SumsFound, Undisturbed, Total
    <2> QED BY <1>1, <2>1 DEF SumsInv
<1>7. TotalAddsUp'
    BY DEF SumsInv, TotalAddsUp
<1>8. RowFunctions'
    BY DEF SumsInv, RowFunctions
<1> QED BY <1>3, <1>5, <1>6, <1>7, <1>8 DEF SumsInv

LEMMA LookUpSums ==
    ASSUME CostInv, SumsInv, NEW q \in Creations, LookUp(q)
    PROVE  SumsInv'
<1> DEFINE c == creation[q]
<1>1. PICK p \in c.plan :
        creation' = [creation EXCEPT ![q] =
            [c EXCEPT !.current = {p}, !.seen = <<costRow[c.month][p]>>]]
    BY DEF LookUp
<1> DEFINE new == [c EXCEPT !.current = {p}, !.seen = <<costRow[c.month][p]>>]
<1>2. CreationGood(c) /\ c.step = "rows" /\ c.month \in Months
      /\ UNCHANGED <<totalRows, costRow, spending, apart, mixed>>
    BY DEF LookUp, CostInv, Shapes, CreationGood
<1>3. /\ new.step = "rows" /\ new.month = c.month /\ new.plan = c.plan
      /\ new.current = {p} /\ new.costs = c.costs /\ new.seen = <<costRow[c.month][p]>>
      /\ new.wrote = c.wrote
    BY <1>2 DEF CreationGood, Fields
<1>4. creation' = [creation EXCEPT ![q] = new]
    BY <1>1
<1> HIDE DEF new
<1>5. SumsOf(c) /\ DOMAIN c.wrote \subseteq Counted
    BY DEF SumsInv, RowsCounted
<1>6. SumsPlanned(new)
    BY <1>2, <1>3, <1>5 DEF SumsOf, SumsPlanned
<1>7. Undisturbed(new.month) => SumsFound(new, costRow[new.month], totalRows[new.month])
    BY <1>2, <1>3, <1>5 DEF SumsOf, SumsFound
<1>8. SumsOf(new)
    BY <1>6, <1>7 DEF SumsOf
<1>9. Busy(q)
    BY <1>2 DEF Busy
<1> QED BY <1>2, <1>3, <1>4, <1>5, <1>8, <1>9, CreationSums

LEMMA InsertOrUpdateSums ==
    ASSUME CostInv, SumsInv, NEW q \in Creations, InsertOrUpdate(q)
    PROVE  SumsInv'
<1> DEFINE c == creation[q]
<1>1. PICK p \in c.current :
        LET cost == c.costs[p]
            known == Head(c.seen) # NoCostRow
        IN  /\ c.step = "rows" /\ p \in Configured
            /\ known => costRow[c.month][p] # NoCostRow
            /\ creation' = [creation EXCEPT ![q] =
                    [c EXCEPT !.plan = @ \ {p}, !.current = {}, !.seen = <<>>,
                        !.wrote = IF ~Written(Head(c.seen), cost) THEN @
                                  ELSE [x \in DOMAIN c.wrote \cup {p} |->
                                            IF x = p THEN cost ELSE c.wrote[x]],
                        !.inserts = IF known THEN @ ELSE @ \cup {p}]]
            /\ UNCHANGED <<month, spending, costRow, totalRows, created, spent, apart, mixed>>
    BY DEF InsertOrUpdate
<1> DEFINE known == Head(c.seen) # NoCostRow
           same == ~Written(Head(c.seen), c.costs[p])
           wrote == IF same THEN c.wrote
                    ELSE [x \in DOMAIN c.wrote \cup {p} |-> IF x = p THEN c.costs[p] ELSE c.wrote[x]]
           inserts == IF known THEN c.inserts ELSE c.inserts \cup {p}
           new == [c EXCEPT !.plan = c.plan \ {p}, !.current = {}, !.seen = <<>>,
                            !.wrote = wrote, !.inserts = inserts]
<1>2. CreationGood(c) /\ c.step = "rows" /\ Busy(q) /\ c.month \in Months /\ p \in c.plan
      /\ UNCHANGED <<totalRows, costRow, spending, apart, mixed>>
    BY <1>1 DEF CostInv, Shapes, Busy, CreationGood
<1>3. creation' = [creation EXCEPT ![q] = new]
    BY <1>1
<1>4. SumsOf(c) /\ DOMAIN c.wrote \subseteq Counted
    BY DEF SumsInv, RowsCounted
<1>5. SumsPlanned(c) /\ p \in DOMAIN c.costs
    BY <1>2, <1>4 DEF SumsOf, SumsPlanned
<1>6. /\ DOMAIN wrote \subseteq DOMAIN c.wrote \cup {p}
      /\ DOMAIN c.wrote \subseteq DOMAIN wrote
      /\ \A x \in DOMAIN wrote : wrote[x] = c.costs[x]
      /\ p \in DOMAIN wrote \/ same
    BY <1>5 DEF SumsPlanned
<1> HIDE DEF wrote, inserts, same, known
<1>7. /\ new.step = "rows" /\ new.month = c.month
      /\ new.plan = c.plan \ {p} /\ new.current = {} /\ new.costs = c.costs
      /\ new.wrote = wrote
    BY <1>2 DEF CreationGood, Fields
<1> HIDE DEF new
<1>8. SumsPlanned(new)
    BY <1>5, <1>6, <1>7 DEF SumsPlanned
<1>9. ASSUME Undisturbed(c.month)
      PROVE  SumsFound(new, costRow[c.month], totalRows[c.month])
    <2>1. SumsFound(c, costRow[c.month], totalRows[c.month])
        BY <1>2, <1>4, <1>9 DEF SumsOf
    <2>2. c.seen = <<costRow[c.month][p]>> \/ costRow[c.month][p] = c.costs[p] \/ spending[p] = Deleted
        BY <1>1, <1>2, <2>1 DEF SumsFound
    <2>3. same => costRow[c.month][p] = c.costs[p] \/ spending[p] = Deleted
        BY <2>2 DEF same, Written
    <2>4. \A x \in DOMAIN new.costs :
             x \in new.plan \/ x \in DOMAIN new.wrote \/ costRow[c.month][x] = new.costs[x]
                 \/ spending[x] = Deleted
        BY <1>6, <1>7, <2>1, <2>3 DEF SumsFound
    <2> QED BY <1>7, <2>1, <2>4 DEF SumsFound
<1>10. SumsOf(new)
    BY <1>7, <1>8, <1>9 DEF SumsOf
<1>11. DOMAIN new.wrote \subseteq Counted
    <2>1. p \in Counted
        BY <1>1, <1>5 DEF SumsPlanned, Counted
    <2> QED BY <1>4, <1>6, <1>7, <2>1
<1> QED BY <1>2, <1>3, <1>7, <1>10, <1>11, CreationSums

LEMMA LookUpTotalSums ==
    ASSUME CostInv, SumsInv, NEW q \in Creations, LookUpTotal(q)
    PROVE  SumsInv'
<1> DEFINE c == creation[q]
           new == [c EXCEPT !.step = "total", !.seen = totalRows[c.month]]
<1>1. /\ CreationGood(c) /\ c.step = "rows" /\ c.plan = {} /\ Busy(q)
      /\ creation' = [creation EXCEPT ![q] = new]
      /\ UNCHANGED <<totalRows, costRow, spending, apart, mixed>>
    BY DEF LookUpTotal, CostInv, Shapes, Busy
<1>2. /\ new.step = "total" /\ new.month = c.month /\ new.plan = c.plan
      /\ new.costs = c.costs /\ new.seen = totalRows[c.month] /\ new.wrote = c.wrote
    BY <1>1 DEF CreationGood, Fields
<1> HIDE DEF new
<1>3. SumsOf(c) /\ DOMAIN c.wrote \subseteq Counted
    BY DEF SumsInv, RowsCounted
<1>4. SumsPlanned(new)
    BY <1>1, <1>2, <1>3 DEF SumsOf, SumsPlanned
<1>5. Undisturbed(new.month) => SumsFound(new, costRow[new.month], totalRows[new.month])
    BY <1>1, <1>2, <1>3 DEF SumsOf, SumsFound
<1>6. SumsOf(new)
    BY <1>4, <1>5 DEF SumsOf
<1> QED BY <1>1, <1>2, <1>3, <1>6, CreationSums

LEMMA AbortSums ==
    ASSUME CostInv, SumsInv, NEW q \in Creations, AbortCreation(q)
    PROVE  SumsInv'
<1>1. /\ creation' = [creation EXCEPT ![q] = IdleCreation]
      /\ UNCHANGED <<totalRows, costRow, spending, apart, mixed>>
    BY DEF AbortCreation
<1>2. IdleCreation.step = "idle" /\ DOMAIN IdleCreation.wrote = {}
    BY DEF IdleCreation
<1>3. SumsOf(IdleCreation)
    BY <1>2 DEF SumsOf
<1> QED BY <1>1, <1>2, <1>3, CreationSums

LEMMA BeginSums ==
    ASSUME CostInv, SumsInv, NEW q \in Creations, NEW ensure \in BOOLEAN, BeginCreation(q, ensure)
    PROVE  SumsInv'
<1> DEFINE costs == [p \in Counted |-> ProviderCost(spending[p])]
           new == [IdleCreation EXCEPT !.step = "rows", !.month = month, !.plan = Counted,
                                       !.costs = costs]
           others == {r \in Creations : Busy(r) /\ creation[r].month = month}
<1>1. /\ creation' = [creation EXCEPT ![q] = new] /\ ~Busy(q) /\ month \in Months
      /\ UNCHANGED <<costRow, totalRows, spending>>
      /\ mixed' = IF \A r \in others : creation[r].costs = creation'[q].costs
                  THEN mixed ELSE mixed \cup {month}
      /\ apart \subseteq apart' /\ apart' \subseteq apart \cup {month}
    BY DEF BeginCreation, CostInv, Shapes
<1>2. /\ costs \in [Counted -> 0 .. MaxCost] /\ DOMAIN costs = Counted
      /\ Counted \subseteq CostProviders \ HrisProviders
    <2>1. Counted \subseteq CostProviders \ HrisProviders
        BY DEF Counted, Configured
    <2>2. ASSUME NEW p \in Counted
          PROVE  ProviderCost(spending[p]) \in 0 .. MaxCost
        <3>1. spending[p] \in [licences: 0 .. MaxCost, packages: 0 .. MaxCost]
            BY DEF Counted, Configured, CostPairs
        <3> QED BY <3>1 DEF ProviderCost
    <2> QED BY <2>1, <2>2
<1> HIDE DEF costs
<1>3. /\ new.step = "rows" /\ new.month = month /\ new.plan = Counted
      /\ new.current = {} /\ new.costs = costs /\ DOMAIN new.wrote = {}
    BY DEF IdleCreation
<1> HIDE DEF new
<1>4. /\ creation'[q] = new /\ \A r \in Creations \ {q} : creation'[r] = creation[r]
    BY <1>1 DEF CostInv, Shapes
<1>5. \A r \in Creations \ {q} : Busy(r)' <=> Busy(r)
    BY <1>4 DEF Busy
<1>6. mixed \subseteq mixed' /\ mixed' \subseteq Months /\ apart' \subseteq Months
    BY <1>1 DEF SumsInv
<1>7. SumsPlanned(new)
    BY <1>2, <1>3 DEF SumsPlanned
<1>8. SumsFound(new, costRow[month], totalRows[month])
    <2>1. \A p \in CostProviders : costRow[month][p] # NoCostRow => p \in Counted
        BY <1>1 DEF SumsInv, RowsCounted
    <2> QED BY <1>2, <1>3, <2>1 DEF SumsFound
<1>9. \A r \in Creations : SumsOf(creation[r])'
    <2> SUFFICES ASSUME NEW r \in Creations
                 PROVE  SumsOf(creation[r])'
        OBVIOUS
    <2>1. SumsOf(new)
        BY <1>3, <1>7, <1>8 DEF SumsOf
    <2>2. \A d : SumsOf(d) => SumsOf(d)'
        BY <1>1, <1>6 DEF SumsOf, SumsPlanned, SumsFound, Undisturbed, Total
    <2> QED BY <1>4, <2>1, <2>2 DEF SumsInv
<1>10. Alike'
    <2> SUFFICES ASSUME NEW r \in Creations, NEW t \in Creations, Together(r, t)',
                        creation'[r].month \notin mixed'
                 PROVE  creation'[r].costs = creation'[t].costs
        BY DEF Alike
    <2>1. CASE r # q /\ t # q
        <3>1. /\ Together(r, t) /\ creation'[r] = creation[r] /\ creation'[t] = creation[t]
              /\ creation[r].month \notin mixed
            BY <1>4, <1>5, <1>6, <2>1 DEF Together
        <3> QED BY <3>1 DEF SumsInv, Alike
    <2>2. ASSUME NEW x \in others, month \notin mixed'
          PROVE  creation[x].costs = creation'[q].costs
        BY <1>1, <2>2
    <2>3. CASE r = q
        <3>1. t \in others /\ t # q /\ creation'[r].month = month
            BY <1>3, <1>4, <1>5, <2>3 DEF Together
        <3>2. creation[t].costs = creation'[q].costs
            BY <2>2, <3>1
        <3> QED BY <1>4, <2>3, <3>1, <3>2
    <2>4. CASE t = q
        <3>1. r \in others /\ r # q /\ month \notin mixed'
            BY <1>3, <1>4, <1>5, <2>4 DEF Together
        <3>2. creation[r].costs = creation'[q].costs
            BY <2>2, <3>1
        <3> QED BY <1>4, <2>4, <3>1, <3>2
    <2> QED BY <2>1, <2>3, <2>4
<1>11. RowsCounted'
    <2>1. Counted' = Counted
        BY <1>1 DEF Counted, Configured
    <2> QED BY <1>1, <1>3, <1>4, <2>1 DEF SumsInv, RowsCounted
<1>12. TotalAddsUp'
    BY <1>1, <1>6 DEF SumsInv, TotalAddsUp
<1>13. RowFunctions'
    BY <1>1 DEF SumsInv, RowFunctions
<1> QED BY <1>1, <1>6, <1>9, <1>10, <1>11, <1>12, <1>13 DEF SumsInv

LEMMA CommitSums ==
    ASSUME CostInv, SumsInv, NEW q \in Creations, CommitCreation(q)
    PROVE  SumsInv'
<1> DEFINE c == creation[q]
           m == c.month
           rows == totalRows[m]
           after == IF c.seen = <<>> THEN Append(rows, Total(c))
                    ELSE <<Updated(Head(rows), Head(c.seen), Total(c))>> \o Tail(rows)
           merged == [p \in CostProviders |-> IF p \in DOMAIN c.wrote THEN c.wrote[p] ELSE costRow[m][p]]
<1>1. /\ c.step = "total" /\ Busy(q) /\ CreationGood(c) /\ m \in Months
      /\ creation' = [creation EXCEPT ![q] = IdleCreation]
      /\ UNCHANGED <<spending, apart, mixed>>
    BY DEF CommitCreation, CostInv, Shapes, CreationGood, Busy
<1>2. totalRows' = [totalRows EXCEPT ![m] = after] /\ costRow' = [costRow EXCEPT ![m] = merged]
    BY DEF CommitCreation
<1>3. /\ costRow'[m] = merged /\ \A x \in Months \ {m} : costRow'[x] = costRow[x]
      /\ totalRows'[m] = after /\ \A x \in Months \ {m} : totalRows'[x] = totalRows[x]
    BY <1>1, <1>2 DEF CostInv, Shapes
<1>4. /\ creation'[q] = IdleCreation /\ \A r \in Creations \ {q} : creation'[r] = creation[r]
    BY <1>1 DEF CostInv, Shapes
<1>5. IdleCreation.step = "idle" /\ DOMAIN IdleCreation.wrote = {}
    BY DEF IdleCreation
<1>6. SumsPlanned(c) /\ DOMAIN c.wrote \subseteq Counted
    BY <1>1 DEF SumsInv, SumsOf, RowsCounted
<1>7. RowsCounted'
    <2>1. Counted' = Counted
        BY <1>1 DEF Counted, Configured
    <2>2. \A p \in CostProviders : merged[p] # NoCostRow => p \in Counted
        BY <1>1, <1>6 DEF SumsInv, RowsCounted
    <2> HIDE DEF merged
    <2>3. \A x \in Months, p \in CostProviders : costRow'[x][p] # NoCostRow => p \in Counted
        BY <1>3, <2>2 DEF SumsInv, RowsCounted
    <2>4. \A r \in Creations : DOMAIN creation'[r].wrote \subseteq Counted
        BY <1>4, <1>5 DEF SumsInv, RowsCounted
    <2> QED BY <2>1, <2>3, <2>4 DEF RowsCounted
<1>8. ~Busy(q)' /\ \A r \in Creations \ {q} : Busy(r)' <=> Busy(r)
    BY <1>4, <1>5 DEF Busy
<1>14. Alike'
    <2>1. \A r, t \in Creations :
             Together(r, t)' => /\ Together(r, t)
                                /\ creation'[r] = creation[r] /\ creation'[t] = creation[t]
        BY <1>4, <1>8 DEF Together
    <2> QED BY <1>1, <2>1 DEF SumsInv, Alike
\* What is committed in a month of which something is promised.
<1>15. ASSUME Undisturbed(m)
       PROVE  /\ SumsFound(c, costRow[m], rows)
              /\ after = <<Total(c)>>
    <2>1. SumsFound(c, costRow[m], rows)
        BY <1>1, <1>15 DEF SumsInv, SumsOf
    <2>2. m \notin apart /\ (c.seen = rows \/ rows = <<Total(c)>>)
        BY <1>1, <1>15, <2>1 DEF Undisturbed, SumsFound
    <2>3. c.seen = <<>> <=> rows = <<>>
        BY <1>1, <2>2 DEF CostInv, TotalSeen
    <2>4. CASE rows = <<>>
        BY <2>1, <2>3, <2>4
    <2>5. CASE rows # <<>>
        <3>1. PICK v : rows = <<v>>
            BY <1>1, <2>2, <2>5 DEF CostInv, AtMostOne
        <3>2. PICK total : total = Total(c)
            OBVIOUS
        <3>3. total = [cost |-> total.cost, parts |-> total.parts]
            BY <3>2 DEF Total
        <3>4. Head(rows) = v /\ Tail(rows) = <<>>
            BY <3>1
        <3>5. Updated(Head(rows), Head(c.seen), total) = total
            <4>1. CASE c.seen = rows
                BY <3>3, <4>1 DEF Updated
            <4>2. CASE rows = <<total>>
                <5>1. Head(rows) = total
                    BY <4>2
                <5> QED BY <3>3, <5>1 DEF Updated
            <4> QED BY <2>2, <3>2, <4>1, <4>2
        <3>6. after = <<total>> \o <<>>
            BY <2>3, <2>5, <3>2, <3>4, <3>5
        <3>7. after = <<total>>
            BY <3>6
        <3> QED BY <2>1, <3>2, <3>7
    <2> QED BY <2>4, <2>5
<1>16. /\ DOMAIN c.costs \subseteq CostProviders \ HrisProviders
       /\ \A p \in DOMAIN c.wrote : p \in DOMAIN c.costs /\ merged[p] = c.costs[p]
       /\ \A p \in CostProviders \ DOMAIN c.wrote : merged[p] = costRow[m][p]
       /\ \A p \in DOMAIN c.costs : c.costs[p] # NoCostRow
    <2>1. \A p \in DOMAIN c.costs : c.costs[p] # NoCostRow
        BY <1>6, CostAssumptions DEF SumsPlanned, NoCostRow
    <2> QED BY <1>6, <2>1 DEF SumsPlanned
<1>9. \A r \in Creations : SumsOf(creation[r])'
    <2> SUFFICES ASSUME NEW r \in Creations
                 PROVE  SumsOf(creation[r])'
        OBVIOUS
    <2>1. CASE r = q
        BY <1>4, <1>5, <2>1 DEF SumsOf
    <2>2. CASE r # q /\ creation[r].step = "idle"
        BY <1>4, <2>2 DEF SumsOf
    <2>3. CASE r # q /\ creation[r].step # "idle"
        <3> DEFINE d == creation[r]
        <3>1. SumsOf(d) /\ d.month \in Months /\ creation'[r] = d /\ d.current \subseteq d.plan
            BY <1>4, <2>3 DEF SumsInv, CostInv, Shapes, CreationGood
        <3>2. ASSUME d.month # m
              PROVE  costRow'[d.month] = costRow[d.month] /\ totalRows'[d.month] = totalRows[d.month]
            BY <1>3, <3>1, <3>2
        <3>3. SumsPlanned(d)
            BY <2>3, <3>1 DEF SumsOf
        <3>4. ASSUME d.month = m, Undisturbed(m)
              PROVE  SumsFound(d, merged, after)
            <4>1. d.costs = c.costs
                <5>1. Together(r, q) /\ d.month \notin mixed
                    BY <1>1, <2>3, <3>4 DEF Together, Busy, Undisturbed
                <5> QED BY <5>1 DEF SumsInv, Alike
            <4>2. SumsFound(d, costRow[m], rows)
                BY <2>3, <3>1, <3>4 DEF SumsOf
            <4>3. after = <<Total(d)>>
                BY <1>15, <3>4, <4>1 DEF Total
            <4>4. \A p \in CostProviders : merged[p] = costRow[m][p] \/ merged[p] = d.costs[p]
                BY <1>16, <4>1
            <4>5. \A p \in CostProviders : merged[p] # NoCostRow => p \in DOMAIN d.costs
                <5> SUFFICES ASSUME NEW p \in CostProviders, merged[p] # NoCostRow
                             PROVE  p \in DOMAIN d.costs
                    OBVIOUS
                <5> HIDE DEF merged
                <5>1. CASE p \in DOMAIN c.wrote
                    BY <1>16, <4>1, <5>1
                <5>2. CASE p \notin DOMAIN c.wrote
                    BY <1>16, <4>2, <5>2 DEF SumsFound
                <5> QED BY <5>1, <5>2
            <4>6. \A p \in DOMAIN d.costs : p \in CostProviders
                BY <3>3 DEF SumsPlanned
            <4> HIDE DEF merged, d, after, rows
            <4>7. \A p \in DOMAIN d.costs : p \in d.plan \/ p \in DOMAIN d.wrote
                      \/ merged[p] = d.costs[p] \/ spending[p] = Deleted
                BY <4>2, <4>4, <4>6 DEF SumsFound
            <4>8. d.step = "rows" => \A p \in d.current :
                      d.seen = <<merged[p]>> \/ merged[p] = d.costs[p] \/ spending[p] = Deleted
                <5>1. \A p \in d.current : p \in CostProviders
                    BY <3>1, <3>3, <4>6 DEF SumsPlanned
                <5> QED BY <4>2, <4>4, <5>1 DEF SumsFound
            <4> QED BY <4>3, <4>5, <4>7, <4>8 DEF SumsFound
        <3>5. Undisturbed(d.month)' = Undisturbed(d.month)
            BY <1>1, <1>4, <2>3 DEF Undisturbed
        <3>6. ASSUME Undisturbed(d.month)
              PROVE  SumsFound(d, costRow'[d.month], totalRows'[d.month])
            <4> HIDE DEF merged, after
            <4>1. CASE d.month = m
                BY <1>3, <3>4, <3>6, <4>1
            <4>2. CASE d.month # m
                BY <2>3, <3>1, <3>2, <3>6, <4>2 DEF SumsOf
            <4> QED BY <4>1, <4>2
        <3>7. SumsFound(creation[r], costRow[creation[r].month], totalRows[creation[r].month])'
                  = SumsFound(d, costRow'[d.month], totalRows'[d.month])
            BY <1>1, <3>1 DEF SumsFound, Total
        <3>8. SumsPlanned(creation[r])' = SumsPlanned(d)
            BY <3>1 DEF SumsPlanned
        <3> HIDE DEF d
        <3> QED BY <3>3, <3>5, <3>6, <3>7, <3>8 DEF SumsOf, d
    <2> QED BY <2>1, <2>2, <2>3
<1>10. ASSUME Undisturbed(m)
       PROVE  TotalFits(Head(after), merged)
    <2>1. SumsFound(c, costRow[m], rows) /\ c.plan = {}
        BY <1>1, <1>10, <1>15 DEF CreationGood
    <2>2. PICK total : total = Total(c)
        OBVIOUS
    <2>3. total.cost = SumFunction(total.parts) /\ total.parts = c.costs
        BY <2>2 DEF Total
    <2>4. after = <<total>>
        BY <1>10, <1>15, <2>2
    <2> HIDE DEF merged, after
    <2>5. Head(after) = total
        BY <2>4
    <2>6. ASSUME NEW p \in CostProviders, merged[p] # NoCostRow
          PROVE  p \in DOMAIN c.costs /\ c.costs[p] = merged[p]
        <3>1. CASE p \in DOMAIN c.wrote
            BY <1>16, <3>1
        <3>2. CASE p \notin DOMAIN c.wrote
            <4>1. p \in DOMAIN c.costs /\ merged[p] = costRow[m][p]
                BY <1>16, <2>1, <2>6, <3>2 DEF SumsFound
            <4>2. p \in Counted
                BY <1>1, <2>6, <4>1 DEF SumsInv, RowsCounted
            <4>3. spending[p] # Deleted
                <5>1. spending[p] \in CostPairs
                    BY <4>2 DEF Counted, Configured
                <5>2. Deleted \notin CostPairs
                    BY CostAssumptions DEF Deleted, CostPairs, NoCostRow
                <5> QED BY <5>1, <5>2
            <4> QED BY <2>1, <3>2, <4>1, <4>3 DEF SumsFound
        <3> QED BY <3>1, <3>2
    <2>7. ASSUME NEW p \in DOMAIN c.costs, merged[p] = NoCostRow
          PROVE  spending[p] = Deleted
        <3>1. p \in CostProviders \ DOMAIN c.wrote
            BY <1>16, <2>7
        <3> QED BY <1>16, <2>1, <2>7, <3>1 DEF SumsFound
    <2> QED BY <1>16, <2>3, <2>5, <2>6, <2>7 DEF TotalFits
<1>11. TotalAddsUp'
    <2> SUFFICES ASSUME NEW x \in Months \ (mixed \cup apart), totalRows'[x] # <<>>
                 PROVE  TotalFits(Head(totalRows'[x]), costRow'[x])
        BY <1>1 DEF TotalAddsUp, TotalFits
    <2>1. CASE x = m
        <3> HIDE DEF merged, after
        <3>1. Undisturbed(m)
            BY <2>1 DEF Undisturbed
        <3> QED BY <1>3, <1>10, <2>1, <3>1
    <2>2. CASE x # m
        <3>1. costRow'[x] = costRow[x] /\ totalRows'[x] = totalRows[x]
            BY <1>3, <2>2
        <3> QED BY <3>1, TotalsFit DEF SumsInv
    <2> QED BY <2>1, <2>2
<1>12. RowFunctions'
    <2>1. merged = [p \in CostProviders |-> merged[p]]
        OBVIOUS
    <2> HIDE DEF merged
    <2>2. ASSUME NEW x \in Months
          PROVE  costRow'[x] = [p \in CostProviders |-> costRow'[x][p]]
        BY <1>3, <2>1 DEF SumsInv, RowFunctions
    <2> QED BY <2>2 DEF RowFunctions
<1>13. spending' \in [CostProviders -> Spending] /\ mixed' \subseteq Months /\ apart' \subseteq Months
    BY <1>1 DEF SumsInv
<1> QED BY <1>7, <1>9, <1>11, <1>12, <1>13, <1>14 DEF SumsInv

LEMMA SumsStep == CostInv /\ SumsInv /\ [CostNext]_costVars => SumsInv'
<1> SUFFICES ASSUME CostInv, SumsInv, [CostNext]_costVars
             PROVE  SumsInv'
    OBVIOUS
<1>1. ASSUME UNCHANGED <<spending, costRow, totalRows, creation, apart, mixed>>
      PROVE  SumsInv'
    <2>1. RowsCounted'
        BY <1>1 DEF SumsInv, RowsCounted, Counted, Configured
    <2>2. RowFunctions'
        BY <1>1 DEF SumsInv, RowFunctions
    <2>3. spending' \in [CostProviders -> Spending]
        BY <1>1 DEF SumsInv
    <2> QED BY <1>1, <2>1, <2>2, <2>3, SpendingSums
<1>2. ASSUME NEW p \in CostProviders, NEW s \in CostPairs, Spend(p, s)
      PROVE  SumsInv'
    <2>1. spending' = [spending EXCEPT ![p] = s] /\ spending[p] # Deleted
          /\ UNCHANGED <<costRow, totalRows, creation, apart, mixed>>
        BY <1>2 DEF Spend
    <2>2. spending' \in [CostProviders -> Spending] /\ Counted \subseteq Counted'
        BY <1>2, <2>1 DEF SumsInv, Counted, Configured, Spending
    <2>3. RowsCounted'
        BY <2>1, <2>2 DEF SumsInv, RowsCounted
    <2>4. RowFunctions'
        BY <2>1 DEF SumsInv, RowFunctions
    <2>5. \A x \in CostProviders : spending[x] = Deleted => spending'[x] = Deleted
        BY <2>1 DEF SumsInv
    <2> QED BY <2>1, <2>2, <2>3, <2>4, <2>5, SpendingSums
<1>3. ASSUME NEW p \in CostProviders, DeleteProvider(p)
      PROVE  SumsInv'
    <2>1. /\ spending' = [spending EXCEPT ![p] = Deleted]
          /\ costRow' = [m \in Months |-> [costRow[m] EXCEPT ![p] = NoCostRow]]
          /\ \A q \in Creations : p \notin DOMAIN creation[q].wrote
          /\ UNCHANGED <<totalRows, creation, apart, mixed>>
        BY <1>3 DEF DeleteProvider
    <2>2. spending' \in [CostProviders -> Spending] /\ Counted \ {p} \subseteq Counted'
        BY <1>3, <2>1 DEF SumsInv, Counted, Configured, Spending
    <2>3. /\ \A m \in Months : costRow'[m][p] = NoCostRow
          /\ \A m \in Months, x \in CostProviders \ {p} : costRow'[m][x] = costRow[m][x]
        BY <1>3, <2>1 DEF CostInv, Shapes
    <2>4. RowsCounted'
        BY <2>1, <2>2, <2>3 DEF SumsInv, RowsCounted
    <2>5. spending'[p] = Deleted
          /\ \A x \in CostProviders : spending[x] = Deleted => spending'[x] = Deleted
        BY <1>3, <2>1 DEF SumsInv
    <2>6. \A m \in Months, x \in CostProviders :
              costRow'[m][x] = costRow[m][x] \/ (costRow'[m][x] = NoCostRow /\ spending'[x] = Deleted)
        BY <2>3, <2>5
    <2>7. RowFunctions'
        <3> SUFFICES ASSUME NEW m \in Months
                     PROVE  costRow'[m] = [x \in CostProviders |-> costRow'[m][x]]
            BY DEF RowFunctions
        <3>1. costRow'[m] = [costRow[m] EXCEPT ![p] = NoCostRow] /\ DOMAIN costRow[m] = CostProviders
            BY <2>1 DEF CostInv, Shapes
        <3>2. costRow'[m] = [x \in CostProviders |-> IF x = p THEN NoCostRow ELSE costRow[m][x]]
            BY <3>1
        <3> QED BY <3>2
    <2> QED BY <2>1, <2>2, <2>4, <2>5, <2>6, <2>7, SpendingSums
<1>4. CASE CostNext
    <2>1. NextMonth => UNCHANGED <<spending, costRow, totalRows, creation, apart, mixed>>
        BY DEF NextMonth
    <2> QED BY <1>1, <1>2, <1>3, <1>4, <2>1, BeginSums, LookUpSums, InsertOrUpdateSums,
               LookUpTotalSums, CommitSums, AbortSums DEF CostNext
<1> QED BY <1>1, <1>4 DEF costVars

(* The row for all of a month is the sum of the rows of its providers and  *)
(* of those that went with a provider deleted since, for any providers and *)
(* costs and any number of creations (create_monthly_snapshot by the job,  *)
(* at the start, on demand), at once too if they computed the same costs.  *)
THEOREM TotalsAddUp == CostSpec => []TotalAddsUp
<1>1. SumsInv => TotalAddsUp
    BY DEF SumsInv
<1> QED BY <1>1, CostInvariant, SumsInit, SumsStep, PTL DEF CostSpec

-----------------------------------------------------------------------------
(* The types of the rows.                                                  *)

TotalRow == [cost: Nat, parts: Summands]

CostRowsTyped ==
    /\ \A m \in Months : totalRows[m] \in Seq(TotalRow)
    /\ \A m \in Months, p \in CostProviders : costRow[m][p] \in 0 .. NoCostRow
    /\ costRow = [m \in Months |-> costRow[m]]

\* A row for all that was found is not taken away.
SeenStays ==
    \A q \in Creations :
        creation[q].step = "total" /\ creation[q].seen # <<>> => totalRows[creation[q].month] # <<>>

CostTyped == CostRowsTyped /\ SeenStays

LEMMA CostsBound == MaxCost \in Nat /\ NoCostRow \in 0 .. NoCostRow /\ 0 .. MaxCost \subseteq 0 .. NoCostRow
<1> QED BY CostAssumptions DEF NoCostRow

LEMMA CostTypedInit == CostInit => CostTyped
<1> SUFFICES ASSUME CostInit
             PROVE  CostTyped
    OBVIOUS
<1>1. CostRowsTyped
    BY CostsBound DEF CostInit, CostRowsTyped
<1>2. \A q \in Creations : creation[q].step = "idle"
    BY DEF CostInit, IdleCreation
<1> QED BY <1>1, <1>2 DEF CostTyped, SeenStays

\* One creation moves on, nothing is committed.
LEMMA CreationTyped ==
    ASSUME CostInv, CostTyped, NEW q \in Creations, NEW new,
           creation' = [creation EXCEPT ![q] = new], UNCHANGED <<totalRows, costRow>>,
           new.step = "total" => new.seen = totalRows[new.month]
    PROVE  CostTyped'
<1>1. creation'[q] = new /\ \A r \in Creations \ {q} : creation'[r] = creation[r]
    BY DEF CostInv, Shapes
<1>2. SeenStays'
    BY <1>1 DEF CostTyped, SeenStays
<1>3. CostRowsTyped'
    BY DEF CostTyped, CostRowsTyped
<1> QED BY <1>2, <1>3 DEF CostTyped

LEMMA CreationStepsTyped ==
    ASSUME CostInv, CostTyped, NEW q \in Creations, NEW ensure \in BOOLEAN,
           BeginCreation(q, ensure) \/ LookUp(q) \/ InsertOrUpdate(q) \/ LookUpTotal(q)
               \/ AbortCreation(q)
    PROVE  CostTyped'
<1> DEFINE c == creation[q]
<1>1. CreationGood(c)
    BY DEF CostInv, Shapes
<1>2. CASE BeginCreation(q, ensure)
    <2> DEFINE new == [IdleCreation EXCEPT !.step = "rows", !.month = month, !.plan = Counted,
                           !.costs = [p \in Counted |-> ProviderCost(spending[p])]]
    <2>1. new.step = "rows"
        BY DEF IdleCreation
    <2>2. creation' = [creation EXCEPT ![q] = new] /\ UNCHANGED <<totalRows, costRow>>
        BY <1>2 DEF BeginCreation
    <2> HIDE DEF new
    <2> QED BY <2>1, <2>2, CreationTyped
<1>3. CASE LookUp(q)
    <2>1. PICK p : creation' = [creation EXCEPT ![q] =
                       [c EXCEPT !.current = {p}, !.seen = <<costRow[c.month][p]>>]]
        BY <1>3 DEF LookUp
    <2> DEFINE new == [c EXCEPT !.current = {p}, !.seen = <<costRow[c.month][p]>>]
    <2>2. new.step = "rows" /\ UNCHANGED <<totalRows, costRow>>
        BY <1>1, <1>3 DEF LookUp, CreationGood, Fields
    <2>3. creation' = [creation EXCEPT ![q] = new]
        BY <2>1
    <2> HIDE DEF new
    <2> QED BY <2>2, <2>3, CreationTyped
<1>4. CASE InsertOrUpdate(q)
    <2>1. PICK p : LET known == Head(c.seen) # NoCostRow
                       cost == c.costs[p]
                   IN creation' = [creation EXCEPT ![q] =
                       [c EXCEPT !.plan = @ \ {p}, !.current = {}, !.seen = <<>>,
                           !.wrote = IF ~Written(Head(c.seen), cost) THEN @
                                     ELSE [x \in DOMAIN c.wrote \cup {p} |->
                                               IF x = p THEN cost ELSE c.wrote[x]],
                           !.inserts = IF known THEN @ ELSE @ \cup {p}]]
        BY <1>4 DEF InsertOrUpdate
    <2>2. c.step = "rows" /\ UNCHANGED <<totalRows, costRow>>
        BY <1>4 DEF InsertOrUpdate
    <2>3. PICK plan, wrote, inserts : creation' = [creation EXCEPT ![q] =
                       [c EXCEPT !.plan = plan, !.current = {}, !.seen = <<>>,
                           !.wrote = wrote, !.inserts = inserts]]
        BY <2>1
    <2> DEFINE new == [c EXCEPT !.plan = plan, !.current = {}, !.seen = <<>>,
                           !.wrote = wrote, !.inserts = inserts]
    <2>4. new.step = "rows"
        BY <1>1, <2>2 DEF CreationGood, Fields
    <2>5. creation' = [creation EXCEPT ![q] = new]
        BY <2>3
    <2> HIDE DEF new
    <2> QED BY <2>2, <2>4, <2>5, CreationTyped
<1>5. CASE LookUpTotal(q)
    <2> DEFINE new == [c EXCEPT !.step = "total", !.seen = totalRows[c.month]]
    <2>1. new.step = "total" /\ new.month = c.month /\ new.seen = totalRows[c.month]
        BY <1>1 DEF CreationGood, Fields
    <2>2. creation' = [creation EXCEPT ![q] = new] /\ UNCHANGED <<totalRows, costRow>>
        BY <1>5 DEF LookUpTotal
    <2> HIDE DEF new
    <2> QED BY <2>1, <2>2, CreationTyped
<1>6. CASE AbortCreation(q)
    <2>1. IdleCreation.step = "idle"
        BY DEF IdleCreation
    <2> QED BY <1>6, <2>1, CreationTyped DEF AbortCreation
<1> QED BY <1>2, <1>3, <1>4, <1>5, <1>6

LEMMA TotalsTyped ==
    ASSUME NEW c, SumsPlanned(c)
    PROVE  Total(c) \in TotalRow
<1>1. IsFiniteSet(DOMAIN c.costs)
    BY CostAssumptions, FS_Subset DEF SumsPlanned
<1>2. \A p \in DOMAIN c.costs : c.costs[p] \in 0 .. MaxCost
    BY DEF SumsPlanned
<1>3. \A p \in DOMAIN c.costs : c.costs[p] \in Nat /\ c.costs[p] \in Int
    BY <1>2, CostsBound
<1>4. SumFunctionOnSet(c.costs, DOMAIN c.costs) \in Nat
    BY <1>1, <1>3, SumTyped
<1>5. c.costs \in Summands
    <2>1. c.costs \in [DOMAIN c.costs -> 0 .. MaxCost] /\ DOMAIN c.costs \in SUBSET CostProviders
        BY DEF SumsPlanned
    <2> QED BY <2>1 DEF Summands
<1> QED BY <1>4, <1>5 DEF Total, SumFunction, TotalRow

LEMMA CommitTyped ==
    ASSUME CostInv, SumsInv, CostTyped, NEW q \in Creations, CommitCreation(q)
    PROVE  CostTyped'
<1> DEFINE c == creation[q]
           m == c.month
           rows == totalRows[m]
<1>1. /\ c.step = "total" /\ m \in Months /\ SumsPlanned(c)
      /\ DOMAIN costRow = Months /\ DOMAIN totalRows = Months /\ DOMAIN creation = Creations
    BY DEF CommitCreation, CostInv, Shapes, CreationGood, SumsInv, SumsOf
<1>2. PICK total \in TotalRow : total = Total(c)
    BY <1>1, TotalsTyped
<1>3. PICK row : row = Updated(Head(rows), Head(c.seen), total)
    OBVIOUS
<1>4. rows \in Seq(TotalRow) /\ (c.seen # <<>> => rows # <<>>)
    BY <1>1 DEF CostTyped, CostRowsTyped, SeenStays
<1>13. totalRows' = [totalRows EXCEPT ![m] =
          IF c.seen = <<>> THEN Append(rows, total) ELSE <<row>> \o Tail(rows)]
    BY <1>2, <1>3 DEF CommitCreation
<1>14. c.seen # <<>> => row \in TotalRow
    <2> HIDE DEF rows, c
    <2>1. c.seen # <<>> => Head(rows) \in TotalRow
        BY <1>4
    <2> QED BY <1>3, <2>1 DEF Updated, TotalRow
<1>5. PICK new \in Seq(TotalRow) :
          new # <<>> /\ new = IF c.seen = <<>> THEN Append(rows, total) ELSE <<row>> \o Tail(rows)
    <2> HIDE DEF rows, c
    <2>1. Append(rows, total) \in Seq(TotalRow) /\ Append(rows, total) # <<>>
        BY <1>4
    <2>2. c.seen # <<>> => Tail(rows) \in Seq(TotalRow)
        BY <1>4
    <2>3. ASSUME c.seen # <<>>
          PROVE  <<row>> \o Tail(rows) \in Seq(TotalRow) /\ <<row>> \o Tail(rows) # <<>>
        <3>1. <<row>> \in Seq(TotalRow) /\ Len(<<row>>) = 1
            BY <1>14, <2>3
        <3> QED BY <2>2, <2>3, <3>1
    <2> QED BY <2>1, <2>3
<1>6. totalRows' = [totalRows EXCEPT ![m] = new]
    BY <1>5, <1>13
<1>7. \A n \in Months : totalRows'[n] \in Seq(TotalRow) /\ (totalRows[n] # <<>> => totalRows'[n] # <<>>)
    BY <1>1, <1>5, <1>6 DEF CostTyped, CostRowsTyped
<1>8. costRow' = [costRow EXCEPT ![m] =
          [p \in CostProviders |-> IF p \in DOMAIN c.wrote THEN c.wrote[p] ELSE costRow[m][p]]]
    BY DEF CommitCreation
<1>9. \A p \in DOMAIN c.wrote : c.wrote[p] \in 0 .. NoCostRow
    <2>1. \A p \in DOMAIN c.wrote : c.wrote[p] = c.costs[p] /\ c.costs[p] \in 0 .. MaxCost
        BY <1>1 DEF SumsPlanned
    <2> QED BY <2>1, CostsBound
<1>10. ASSUME NEW n \in Months, NEW p \in CostProviders
       PROVE  costRow'[n][p] \in 0 .. NoCostRow
    <2>1. costRow[n][p] \in 0 .. NoCostRow
        BY DEF CostTyped, CostRowsTyped
    <2>2. CASE n = m
        <3>1. costRow'[n][p] = IF p \in DOMAIN c.wrote THEN c.wrote[p] ELSE costRow[n][p]
            BY <1>1, <1>8, <2>2
        <3> QED BY <1>9, <2>1, <3>1
    <2>3. CASE n # m
        <3>1. costRow'[n] = costRow[n]
            BY <1>8, <2>3
        <3> QED BY <2>1, <3>1
    <2> QED BY <2>2, <2>3
<1>11. CostRowsTyped'
    <2>1. costRow' = [n \in Months |-> costRow'[n]]
        BY <1>8 DEF CostTyped, CostRowsTyped
    <2> QED BY <1>7, <1>10, <2>1 DEF CostRowsTyped
<1>12. SeenStays'
    <2>1. /\ creation'[q].step = "idle"
          /\ \A r \in Creations \ {q} : creation'[r] = creation[r] /\ creation[r].month \in Months
        BY <1>1 DEF CommitCreation, IdleCreation, CostInv, Shapes, CreationGood
    <2> QED BY <1>7, <2>1 DEF CostTyped, SeenStays
<1> QED BY <1>11, <1>12 DEF CostTyped

LEMMA DeleteProviderTyped ==
    ASSUME CostInv, CostTyped, NEW d \in CostProviders, DeleteProvider(d)
    PROVE  CostTyped'
<1>1. costRow' = [m \in Months |-> [costRow[m] EXCEPT ![d] = NoCostRow]]
    BY DEF DeleteProvider
<1>2. ASSUME NEW m \in Months, NEW p \in CostProviders
      PROVE  costRow'[m][p] \in 0 .. NoCostRow
    <2>1. costRow[m][p] \in 0 .. NoCostRow /\ DOMAIN costRow[m] = CostProviders
        BY DEF CostTyped, CostRowsTyped, CostInv, Shapes
    <2>2. costRow'[m][p] = IF p = d THEN NoCostRow ELSE costRow[m][p]
        BY <1>1, <2>1
    <2> QED BY <2>1, <2>2, CostsBound
<1>3. UNCHANGED <<totalRows, creation>>
    BY DEF DeleteProvider
<1>4. costRow' = [m \in Months |-> costRow'[m]]
    BY <1>1
<1> QED BY <1>2, <1>3, <1>4 DEF CostTyped, CostRowsTyped, SeenStays

LEMMA CostTypedStep == CostInv /\ SumsInv /\ CostTyped /\ [CostNext]_costVars => CostTyped'
<1> SUFFICES ASSUME CostInv, SumsInv, CostTyped, [CostNext]_costVars
             PROVE  CostTyped'
    OBVIOUS
<1>1. ASSUME UNCHANGED <<totalRows, costRow, creation>>
      PROVE  CostTyped'
    BY <1>1 DEF CostTyped, CostRowsTyped, SeenStays
<1>2. CASE UNCHANGED costVars
    BY <1>1, <1>2 DEF costVars
<1>3. ASSUME NEW p \in CostProviders, NEW s, Spend(p, s)
      PROVE  CostTyped'
    BY <1>1, <1>3 DEF Spend
<1>4. CASE NextMonth
    BY <1>1, <1>4 DEF NextMonth
<1>5. CASE CostNext
    BY <1>3, <1>4, <1>5, DeleteProviderTyped, CreationStepsTyped, CommitTyped DEF CostNext
<1> QED BY <1>2, <1>5

LEMMA CostsInvariant == CostSpec => [](CostInv /\ SumsInv /\ CostTyped)
<1>1. CostInit => CostInv /\ SumsInv /\ CostTyped
    BY InitHolds, SumsInit, CostTypedInit
<1>2. CostInv /\ SumsInv /\ CostTyped /\ [CostNext]_costVars => (CostInv /\ SumsInv /\ CostTyped)'
    BY CostStep, SumsStep, CostTypedStep
<1> QED BY <1>1, <1>2, PTL DEF CostSpec

\* The months, the rows and the creations of snapshots are always well formed; the sum in a
\* row for all is a natural number whatever the providers cost.
THEOREM CostTypes == CostSpec => []CostTypeOK
<1>1. CostInv /\ SumsInv /\ CostTyped => CostTypeOK
    <2> SUFFICES ASSUME CostInv, SumsInv, CostTyped
                 PROVE  CostTypeOK
        OBVIOUS
    <2>1. month \in Months /\ spending \in [CostProviders -> Spending]
          /\ apart \subseteq Months /\ mixed \subseteq Months
        BY DEF CostInv, Shapes, SumsInv
    <2>2. \A q \in Creations : CreationGood(creation[q])
        BY DEF CostInv, Shapes
    <2>3. costRow \in [Months -> [CostProviders -> 0 .. NoCostRow]]
        <3>1. \A m \in Months : costRow[m] \in [CostProviders -> 0 .. NoCostRow]
            BY DEF CostTyped, CostRowsTyped, SumsInv, RowFunctions
        <3>2. costRow = [m \in Months |-> costRow[m]]
            BY DEF CostTyped, CostRowsTyped
        <3> QED BY <3>1, <3>2
    <2> QED BY <2>1, <2>2, <2>3 DEF CostTyped, CostRowsTyped, CostTypeOK, CreationGood, TotalRow
<1> QED BY <1>1, CostsInvariant, PTL

-----------------------------------------------------------------------------
(***************************************************************************)
(* Proofs about Pricing: the costs of the licences follow the prices of    *)
(* their provider, for every number of licences, requests and prices.      *)
(***************************************************************************)

RowFields == {"kind", "active", "cost"}
RequestFields == {"op", "step", "read", "asked", "locks", "wrote"}
SyncFields == {"on", "read", "done", "at", "wrote"}

\* A licence row, as far as it matters which price its cost comes from.
RowShape(row) == DOMAIN row = RowFields /\ row.kind \in Kinds

\* The config that a request will have written.
Asked(q) ==
    IF q.op = "prices"
    THEN [q.read EXCEPT !.stored = TRUE, !.package = q.asked.package, !.types = q.asked.types]
    ELSE [q.read EXCEPT !.stored = TRUE, !.parts = q.asked]

SamePrices(c, d) == c.package = d.package /\ c.types = d.types /\ c.seats = d.seats

\* A config that was never stored has no package.
ConfigGood(c) == c \in PriceConfig /\ (~c.stored => c.package = 0)

RequestShape(q) ==
    /\ DOMAIN q = RequestFields
    /\ q.read \in PriceConfig
    /\ q.op \in {"none", "prices", "parts", "retype"}
    /\ q.op = "prices" => q.asked \in AskedPrices /\ q.step \in {"begun", "spread", "stored"}
    /\ q.op = "parts" => q.step \in {"begun", "stored", "summed"}
    /\ q.op = "parts" /\ q.step # "summed" => q.asked \in AskedParts
    /\ q.op = "retype" => q.step = "begun" /\ q.asked.kind \in Kinds /\ RowShape(q.asked.loaded)
    /\ q.op = "none" => q.step = "idle"
    /\ q.locks <=> q.step \in {"stored", "summed"}
    /\ q.step = "summed" =>
          q.read.stored /\ \A l \in DOMAIN q.asked : q.asked[l].from \notin {"type", "package"}

\* What is written holds the package's cost, and every active row is written that no
\* synchronisation has committed since.
Spreading(q, rows, over) ==
    /\ \A l \in DOMAIN q.wrote :
          /\ l \in Licences /\ rows[l].kind \in Kinds /\ rows[l].active
          /\ q.op = "prices" /\ RowShape(q.wrote[l]) /\ q.wrote[l].active
          /\ q.wrote[l].cost = PackageCost(Asked(q))
    /\ q.op = "prices" /\ q.step \in {"spread", "stored"} /\ Spread(Asked(q)) =>
          \A l \in Licences \ over :
             rows[l].kind \in Kinds /\ rows[l].active => l \in DOMAIN q.wrote

RequestGood(q, rows, c, gone, over) ==
    /\ RequestShape(q)
    /\ Spreading(q, rows, over)
    /\ q.op = "retype" => q.asked.licence \in Licences /\ rows[q.asked.licence].kind \in Kinds
    /\ q.step = "summed" => \A l \in DOMAIN q.asked : l \in Licences /\ rows[l].kind \in Kinds
    /\ q.locks /\ ~gone => SamePrices(q.read, c)

\* The cost of a row comes from these prices.
TypeCurrent(row, c) ==
    row.cost.from = "type" /\ c.types[row.kind] > 0 => row.cost.price = c.types[row.kind]
PackageCurrent(row, c) ==
    row.active /\ row.cost.from = "package" /\ Spread(c) => row.cost = PackageCost(c)

SyncGood(s, rows, c, stale) ==
    /\ DOMAIN s = SyncFields
    /\ s.on => s.read = c
    /\ ~s.on => DOMAIN s.at = {} /\ DOMAIN s.wrote = {}
    /\ \A l \in DOMAIN s.at :
          /\ l \in Licences
          /\ s.at[l].kind \in Kinds => rows[l].kind \in Kinds
    /\ \A l \in DOMAIN s.wrote :
          /\ l \in Licences /\ RowShape(s.wrote[l])
          /\ l \notin stale => TypeCurrent(s.wrote[l], c) /\ PackageCurrent(s.wrote[l], c)

RowsGood(rows) ==
    /\ DOMAIN rows = Licences
    /\ \A l \in Licences : rows[l] = Missing \/ RowShape(rows[l])

AllCurrent(rows, c, gone, stale, over) ==
    ~gone => \A l \in Licences \ stale :
                rows[l].kind \in Kinds =>
                    TypeCurrent(rows[l], c) /\ (l \notin over => PackageCurrent(rows[l], c))

\* The provider's row is written by one transaction at a time.
OneWriter(s, reqs) ==
    \A r \in PriceRequests : reqs[r].locks => ~s.on /\ \A t \in PriceRequests \ {r} : ~reqs[t].locks

\* What a request has written no synchronisation writes.
RowsApart(s, reqs) == \A r \in PriceRequests : DOMAIN reqs[r].wrote \cap DOMAIN s.wrote = {}

PricingInv ==
    /\ ConfigGood(prices)
    /\ RowsGood(priceRow)
    /\ DOMAIN priceReq = PriceRequests
    /\ \A r \in PriceRequests : RequestGood(priceReq[r], priceRow, prices, lost, crossed)
    /\ OneWriter(sync, priceReq) /\ RowsApart(sync, priceReq)
    /\ SyncGood(sync, priceRow, prices, raced)
    /\ AllCurrent(priceRow, prices, lost, raced, crossed)

-----------------------------------------------------------------------------
LEMMA KnownRows == \A k \in Kinds : k # {}
<1> QED BY PricingAssumptions

\* The rows there are.
LEMMA PresentRows ==
    ASSUME RowsGood(priceRow)
    PROVE  \A l \in Licences : l \in Present <=> priceRow[l].kind \in Kinds
<1>1. Missing.kind = {}
    BY DEF Missing
<1> QED BY <1>1, KnownRows DEF RowsGood, RowShape, Present

LEMMA AskedPricesTyped ==
    ASSUME NEW q, RequestShape(q), q.op = "prices"
    PROVE  Asked(q) \in PriceConfig /\ Asked(q).stored
<1>1. q.asked \in [package: Prices, types: [Kinds -> Prices]] /\ q.read \in PriceConfig
    BY PricingAssumptions DEF RequestShape
<1>2. Asked(q) = [q.read EXCEPT !.stored = TRUE, !.package = q.asked.package, !.types = q.asked.types]
    BY DEF Asked
<1> QED BY <1>1, <1>2 DEF PriceConfig

LEMMA AskedPartsTyped ==
    ASSUME NEW q, RequestShape(q), q.op = "parts", q.step # "summed"
    PROVE  Asked(q) \in PriceConfig /\ Asked(q).stored /\ SamePrices(Asked(q), q.read)
<1>1. q.asked \in [Parts -> Prices] /\ q.read \in PriceConfig
    BY PricingAssumptions DEF RequestShape
<1>2. Asked(q) = [q.read EXCEPT !.stored = TRUE, !.parts = q.asked]
    BY DEF Asked
<1> QED BY <1>1, <1>2 DEF PriceConfig, SamePrices

LEMMA AskedIsAsked == \A r : AskedConfig(r) = Asked(priceReq[r])
<1> QED BY DEF AskedConfig, Asked

LEMMA EmptyConfigTyped == EmptyConfig \in PriceConfig /\ EmptyConfig.package = 0
<1>1. 0 \in Prices /\ 0 \in Seats
    BY PricingAssumptions DEF Prices, Seats
<1> QED BY <1>1 DEF EmptyConfig, PriceConfig

LEMMA IdlePricesGood ==
    ASSUME NEW rows, NEW c, NEW gone, NEW over
    PROVE  RequestGood(IdlePrices, rows, c, gone, over) /\ ~IdlePrices.locks
           /\ DOMAIN IdlePrices.wrote = {}
<1>1. /\ DOMAIN IdlePrices = RequestFields /\ IdlePrices.op = "none" /\ IdlePrices.step = "idle"
      /\ IdlePrices.read \in PriceConfig /\ ~IdlePrices.locks /\ DOMAIN IdlePrices.wrote = {}
    BY EmptyConfigTyped DEF IdlePrices, RequestFields
<1> QED BY <1>1 DEF RequestGood, RequestShape, Spreading

\* A cost comes from a type only with its price.
LEMMA TypeCosts ==
    ASSUME NEW price, NEW from
    PROVE  /\ CostOf(from, price).from \in {from, "none"}
           /\ CostOf(from, price).from = "type" => CostOf(from, price).price = price
<1>1. NoCost.from = "none"
    BY DEF NoCost
<1> QED BY <1>1 DEF CostOf

LEMMA SyncCosts ==
    ASSUME NEW c, NEW a, NEW row, row.kind = a.kind, row.cost = SyncCost(c, a)
    PROVE  TypeCurrent(row, c) /\ PackageCurrent(row, c)
<1>1. PackageCost(c).from = "package"
    BY DEF PackageCost
<1>2. CASE Spread(c)
    BY <1>1, <1>2 DEF SyncCost, TypeCurrent, PackageCurrent
<1>3. CASE ~Spread(c) /\ c.types[a.kind] > 0
    <2>1. row.cost = CostOf("type", c.types[a.kind])
        BY <1>3 DEF SyncCost
    <2> QED BY <1>3, <2>1, TypeCosts DEF TypeCurrent, PackageCurrent
<1>4. CASE ~Spread(c) /\ ~(c.types[a.kind] > 0)
    BY <1>4 DEF TypeCurrent, PackageCurrent
<1> QED BY <1>2, <1>3, <1>4

\* The columns of a patched row.
LEMMA PatchedRow ==
    ASSUME NEW row, NEW loaded, NEW new
    PROVE  /\ DOMAIN Patched(row, loaded, new) = RowFields
           /\ Patched(row, loaded, new).kind = IF loaded.kind = new.kind THEN row.kind ELSE new.kind
           /\ Patched(row, loaded, new).active = IF loaded.active = new.active THEN row.active ELSE new.active
           /\ Patched(row, loaded, new).cost = IF loaded.cost = new.cost THEN row.cost ELSE new.cost
<1> QED BY DEF Patched, RowFields

LEMMA Recosted ==
    ASSUME NEW row, RowShape(row), NEW x
    PROVE  /\ RowShape([row EXCEPT !.cost = x])
           /\ [row EXCEPT !.cost = x].cost = x
           /\ [row EXCEPT !.cost = x].kind = row.kind
           /\ [row EXCEPT !.cost = x].active = row.active
<1> QED BY DEF RowShape, RowFields

LEMMA PricingInitHolds == PricingInit => PricingInv
<1> SUFFICES ASSUME PricingInit
             PROVE  PricingInv
    OBVIOUS
<1>1. ConfigGood(prices)
    BY EmptyConfigTyped DEF PricingInit, ConfigGood
<1>2. RowsGood(priceRow)
    BY DEF PricingInit, RowsGood
<1>3. /\ DOMAIN priceReq = PriceRequests
      /\ \A r \in PriceRequests : priceReq[r] = IdlePrices
    BY DEF PricingInit
<1>4. OneWriter(sync, priceReq) /\ RowsApart(sync, priceReq)
    BY <1>3, IdlePricesGood DEF OneWriter, RowsApart
<1>5. SyncGood(sync, priceRow, prices, raced)
    BY DEF PricingInit, IdleSync, SyncGood, SyncFields
<1>6. AllCurrent(priceRow, prices, lost, raced, crossed)
    <2>1. Missing.kind = {}
        BY DEF Missing
    <2> QED BY <2>1, KnownRows DEF PricingInit, AllCurrent
<1>7. \A r \in PriceRequests : RequestGood(priceReq[r], priceRow, prices, lost, crossed)
    BY <1>3, IdlePricesGood
<1> QED BY <1>1, <1>2, <1>3, <1>4, <1>5, <1>6, <1>7 DEF PricingInv

-----------------------------------------------------------------------------
(* What the steps have in common. *)

\* A request moves on, nothing is committed.
LEMMA RequestMoves ==
    ASSUME PricingInv, NEW r \in PriceRequests,
           UNCHANGED <<prices, priceRow, sync, raced, crossed>>,
           DOMAIN priceReq' = PriceRequests,
           \A s \in PriceRequests \ {r} : priceReq'[s] = priceReq[s],
           RequestGood(priceReq'[r], priceRow, prices, lost', crossed),
           lost => lost',
           priceReq'[r].locks =>
               ~sync.on /\ \A s \in PriceRequests \ {r} : ~priceReq[s].locks,
           DOMAIN priceReq'[r].wrote \cap DOMAIN sync.wrote = {}
    PROVE  PricingInv'
<1>1. \A s \in PriceRequests : RequestGood(priceReq'[s], priceRow, prices, lost', crossed)
    BY DEF PricingInv, RequestGood
<1>2. OneWriter(sync, priceReq') /\ RowsApart(sync, priceReq')
    BY DEF PricingInv, OneWriter, RowsApart
<1>3. AllCurrent(priceRow, prices, lost', raced, crossed)
    BY DEF PricingInv, AllCurrent
<1> QED BY <1>1, <1>2, <1>3 DEF PricingInv

\* A transaction commits that is no synchronisation, or one is given up.
LEMMA Committed ==
    ASSUME PricingInv,
           UNCHANGED <<sync, lost, crossed>>, raced \subseteq raced',
           DOMAIN priceReq' = PriceRequests,
           \A s \in PriceRequests : priceReq'[s] \in {priceReq[s], IdlePrices},
           RowsGood(priceRow'),
           \A l \in Licences :
              /\ priceRow[l].kind \in Kinds => priceRow'[l].kind \in Kinds
              /\ priceRow'[l].kind \in Kinds =>
                    priceRow[l].kind \in Kinds /\ (priceRow'[l].active <=> priceRow[l].active),
           ConfigGood(prices'),
           prices' = prices \/ (~sync.on /\ \A s \in PriceRequests : ~priceReq'[s].locks),
           AllCurrent(priceRow', prices', lost, raced', crossed)
    PROVE  PricingInv'
<1>1. ASSUME NEW s \in PriceRequests
      PROVE  RequestGood(priceReq'[s], priceRow', prices', lost, crossed)
    <2>1. CASE priceReq'[s] = IdlePrices
        BY <2>1, IdlePricesGood
    <2>2. CASE priceReq'[s] = priceReq[s]
        <3>1. RequestGood(priceReq[s], priceRow, prices, lost, crossed)
            BY DEF PricingInv
        <3>2. Spreading(priceReq[s], priceRow', crossed)
            BY <3>1 DEF RequestGood, Spreading
        <3>3. priceReq[s].locks /\ ~lost => SamePrices(priceReq[s].read, prices')
            BY <2>2, <3>1 DEF RequestGood
        <3> QED BY <2>2, <3>1, <3>2, <3>3 DEF RequestGood
    <2> QED BY <2>1, <2>2
<1>2. OneWriter(sync, priceReq') /\ RowsApart(sync, priceReq')
    BY IdlePricesGood DEF PricingInv, OneWriter, RowsApart
<1>3. SyncGood(sync, priceRow', prices', raced')
    <2>1. SyncGood(sync, priceRow, prices, raced)
        BY DEF PricingInv
    <2>2. CASE prices' = prices
        BY <2>1, <2>2 DEF SyncGood
    <2>3. CASE ~sync.on
        BY <2>1, <2>3 DEF SyncGood
    <2> QED BY <2>2, <2>3
<1> QED BY <1>1, <1>2, <1>3 DEF PricingInv

\* The synchronisation moves on.
LEMMA SyncMoves ==
    ASSUME PricingInv, UNCHANGED <<prices, priceRow, priceReq, lost, crossed>>,
           raced \subseteq raced', SyncGood(sync', priceRow, prices, raced'),
           sync'.on => \A r \in PriceRequests : ~priceReq[r].locks,
           RowsApart(sync', priceReq)
    PROVE  PricingInv'
<1>1. OneWriter(sync', priceReq)
    BY DEF PricingInv, OneWriter
<1>2. AllCurrent(priceRow, prices, lost, raced', crossed)
    BY DEF PricingInv, AllCurrent
<1> QED BY <1>1, <1>2 DEF PricingInv

-----------------------------------------------------------------------------
(* Requests for prices. *)

LEMMA BegunGood ==
    ASSUME PricingInv, NEW r \in PriceRequests, NEW op \in {"prices", "parts", "retype"}, NEW asked,
           op = "prices" => asked \in AskedPrices,
           op = "parts" => asked \in AskedParts,
           op = "retype" => asked.kind \in Kinds /\ RowShape(asked.loaded)
                            /\ asked.licence \in Licences /\ priceRow[asked.licence].kind \in Kinds,
           priceReq' = [priceReq EXCEPT ![r] = PriceRequest(op, asked)],
           UNCHANGED <<prices, priceRow, sync, lost, raced, crossed>>
    PROVE  PricingInv'
<1> DEFINE q == PriceRequest(op, asked)
<1>1. /\ DOMAIN q = RequestFields /\ q.op = op /\ q.step = "begun" /\ q.read = prices
      /\ q.asked = asked /\ ~q.locks /\ DOMAIN q.wrote = {}
    BY DEF PriceRequest, RequestFields
<1>2. /\ DOMAIN priceReq' = PriceRequests /\ priceReq'[r] = q
      /\ \A s \in PriceRequests \ {r} : priceReq'[s] = priceReq[s]
    BY DEF PricingInv
<1> HIDE DEF q
<1>3. RequestShape(q)
    BY <1>1 DEF RequestShape, PricingInv, ConfigGood
<1>4. Spreading(q, priceRow, crossed)
    BY <1>1 DEF Spreading
<1>5. RequestGood(q, priceRow, prices, lost', crossed)
    BY <1>1, <1>3, <1>4 DEF RequestGood
<1>6. DOMAIN priceReq'[r].wrote \cap DOMAIN sync.wrote = {}
    BY <1>1, <1>2
<1> QED BY <1>1, <1>2, <1>5, <1>6, RequestMoves

LEMMA BeginPricesKeeps ==
    ASSUME PricingInv, NEW r \in PriceRequests, NEW asked \in AskedPrices, BeginPrices(r, asked)
    PROVE  PricingInv'
<1> QED BY BegunGood DEF BeginPrices

LEMMA BeginPartsKeeps ==
    ASSUME PricingInv, NEW r \in PriceRequests, NEW asked \in AskedParts, BeginParts(r, asked)
    PROVE  PricingInv'
<1> QED BY BegunGood DEF BeginParts

LEMMA BeginRetypeKeeps ==
    ASSUME PricingInv, NEW r \in PriceRequests, NEW l \in Licences, NEW k \in Kinds,
           BeginRetype(r, l, k)
    PROVE  PricingInv'
<1> DEFINE asked == [licence |-> l, kind |-> k, loaded |-> priceRow[l]]
<1>1. l \in Present /\ priceReq' = [priceReq EXCEPT ![r] = PriceRequest("retype", asked)]
      /\ UNCHANGED <<prices, priceRow, sync, lost, raced, crossed>>
    BY DEF BeginRetype
<1>2. RowShape(priceRow[l]) /\ priceRow[l].kind \in Kinds
    BY <1>1, PresentRows DEF PricingInv, RowsGood, Present, RowShape
<1>3. asked.licence = l /\ asked.kind = k /\ asked.loaded = priceRow[l]
    OBVIOUS
<1> HIDE DEF asked
<1> QED BY <1>1, <1>2, <1>3, BegunGood

LEMMA PackagePricesKeeps ==
    ASSUME PricingInv, NEW r \in PriceRequests, PackagePrices(r)
    PROVE  PricingInv'
<1> DEFINE q == priceReq[r]
           c == Asked(q)
           reached == IF Spread(c) THEN PackageReaches ELSE {}
           wrote == [l \in reached |-> [priceRow[l] EXCEPT !.cost = PackageCost(c)]]
<1>1. /\ q.op = "prices" /\ q.step = "begun"
      /\ priceReq' = [priceReq EXCEPT ![r].step = "spread", ![r].wrote = wrote]
      /\ UNCHANGED <<prices, priceRow, sync, lost, raced, crossed>>
    BY AskedIsAsked DEF PackagePrices
<1>2. RequestGood(q, priceRow, prices, lost, crossed) /\ DOMAIN q = RequestFields
    BY DEF PricingInv, RequestGood, RequestShape
<1>3. \A l \in reached : /\ l \in Licences /\ priceRow[l].kind \in Kinds /\ priceRow[l].active
                          /\ RowShape(priceRow[l]) /\ RowFree(r, l)
    BY PresentRows, AskedIsAsked DEF PackagePrices, PricingInv, PackageReaches, Present, RowsGood
<1>4. /\ DOMAIN wrote = reached
      /\ \A l \in reached : RowShape(wrote[l]) /\ wrote[l].cost = PackageCost(c) /\ wrote[l].active
    BY <1>3, Recosted
<1>5. Spread(c) => \A l \in Licences : priceRow[l].kind \in Kinds /\ priceRow[l].active => l \in reached
    BY PresentRows DEF PricingInv, PackageReaches
<1> HIDE DEF wrote, reached, c
<1>6. /\ DOMAIN priceReq' = PriceRequests /\ DOMAIN priceReq'[r] = RequestFields
      /\ \A s \in PriceRequests \ {r} : priceReq'[s] = priceReq[s]
      /\ priceReq'[r].op = q.op /\ priceReq'[r].step = "spread" /\ priceReq'[r].read = q.read
      /\ priceReq'[r].asked = q.asked /\ priceReq'[r].wrote = wrote
      /\ priceReq'[r].locks = q.locks
    BY <1>1, <1>2 DEF PricingInv, RequestFields
<1>7. Asked(priceReq'[r]) = c
    BY <1>6 DEF Asked, c
<1>8. RequestShape(priceReq'[r])
    BY <1>1, <1>2, <1>6 DEF RequestGood, RequestShape
<1>9. Spreading(priceReq'[r], priceRow, crossed)
    BY <1>1, <1>3, <1>4, <1>5, <1>6, <1>7 DEF Spreading
<1>10. ~q.locks
    BY <1>1, <1>2 DEF RequestGood, RequestShape
<1>11. RequestGood(priceReq'[r], priceRow, prices, lost', crossed)
    BY <1>1, <1>6, <1>8, <1>9, <1>10 DEF RequestGood
<1>12. DOMAIN priceReq'[r].wrote \cap DOMAIN sync.wrote = {}
    BY <1>3, <1>4, <1>6 DEF RowFree
<1> QED BY <1>1, <1>6, <1>10, <1>11, <1>12, RequestMoves

LEMMA StorePricesKeeps ==
    ASSUME PricingInv, NEW r \in PriceRequests, StorePrices(r)
    PROVE  PricingInv'
<1> DEFINE q == priceReq[r]
<1>1. /\ \/ q.op = "prices" /\ q.step = "spread"
         \/ q.op = "parts" /\ q.step = "begun"
      /\ ProviderFree(r)
      /\ lost' = (lost \/ prices # q.read)
      /\ priceReq' = [priceReq EXCEPT ![r].step = "stored", ![r].locks = TRUE]
      /\ UNCHANGED <<prices, priceRow, sync, raced, crossed>>
    BY DEF StorePrices
<1>2. RequestGood(q, priceRow, prices, lost, crossed) /\ DOMAIN q = RequestFields
    BY DEF PricingInv, RequestGood, RequestShape
<1>3. /\ DOMAIN priceReq' = PriceRequests /\ DOMAIN priceReq'[r] = RequestFields
      /\ \A s \in PriceRequests \ {r} : priceReq'[s] = priceReq[s]
      /\ priceReq'[r].op = q.op /\ priceReq'[r].step = "stored" /\ priceReq'[r].read = q.read
      /\ priceReq'[r].asked = q.asked /\ priceReq'[r].wrote = q.wrote
      /\ priceReq'[r].locks
    BY <1>1, <1>2 DEF PricingInv, RequestFields
<1>4. Asked(priceReq'[r]) = Asked(q)
    BY <1>3 DEF Asked
<1>5. RequestShape(priceReq'[r])
    BY <1>1, <1>2, <1>3 DEF RequestGood, RequestShape
<1>6. Spreading(priceReq'[r], priceRow, crossed)
    BY <1>1, <1>2, <1>3, <1>4 DEF RequestGood, Spreading
<1>7. ~lost' => SamePrices(q.read, prices)
    BY <1>1 DEF SamePrices
<1>8. RequestGood(priceReq'[r], priceRow, prices, lost', crossed)
    BY <1>1, <1>3, <1>5, <1>6, <1>7 DEF RequestGood
<1>9. ~sync.on /\ \A s \in PriceRequests \ {r} : ~priceReq[s].locks
    BY <1>1 DEF ProviderFree
<1>10. DOMAIN priceReq'[r].wrote \cap DOMAIN sync.wrote = {}
    BY <1>3 DEF PricingInv, RowsApart
<1> QED BY <1>1, <1>3, <1>8, <1>9, <1>10, RequestMoves

LEMMA ReadPartsKeeps ==
    ASSUME PricingInv, NEW r \in PriceRequests, ReadParts(r)
    PROVE  PricingInv'
<1> DEFINE q == priceReq[r]
           c == Asked(q)
           sums == [l \in Present |-> PartsCost(c, priceRow[l].kind)]
<1>1. /\ q.op = "parts" /\ q.step = "stored"
      /\ priceReq' = [priceReq EXCEPT ![r].step = "summed", ![r].asked = sums, ![r].read = c]
      /\ UNCHANGED <<prices, priceRow, sync, lost, raced, crossed>>
    BY AskedIsAsked DEF ReadParts
<1>2. RequestGood(q, priceRow, prices, lost, crossed) /\ RequestShape(q) /\ DOMAIN q = RequestFields
    BY DEF PricingInv, RequestGood, RequestShape
<1>3. c \in PriceConfig /\ c.stored /\ SamePrices(c, q.read)
    BY <1>1, <1>2, AskedPartsTyped
<1>4. \A l \in DOMAIN sums : sums[l].from \notin {"type", "package"}
    BY TypeCosts DEF PartsCost
<1>13. \A l \in DOMAIN sums : l \in Licences /\ priceRow[l].kind \in Kinds
    BY PresentRows DEF PricingInv, Present
<1> HIDE DEF sums, c
<1>5. /\ DOMAIN priceReq' = PriceRequests /\ DOMAIN priceReq'[r] = RequestFields
      /\ \A s \in PriceRequests \ {r} : priceReq'[s] = priceReq[s]
      /\ priceReq'[r].op = q.op /\ priceReq'[r].step = "summed" /\ priceReq'[r].read = c
      /\ priceReq'[r].asked = sums /\ priceReq'[r].wrote = q.wrote
      /\ priceReq'[r].locks = q.locks
    BY <1>1, <1>2 DEF PricingInv, RequestFields
<1>6. RequestShape(priceReq'[r])
    BY <1>1, <1>2, <1>3, <1>4, <1>5 DEF RequestShape
<1>7. Spreading(priceReq'[r], priceRow, crossed)
    BY <1>1, <1>2, <1>5 DEF RequestGood, Spreading
<1>8. q.locks /\ (~lost => SamePrices(q.read, prices))
    BY <1>1, <1>2 DEF RequestGood, RequestShape
<1>9. ~lost => SamePrices(c, prices)
    BY <1>3, <1>8 DEF SamePrices
<1>10. RequestGood(priceReq'[r], priceRow, prices, lost', crossed)
    BY <1>1, <1>5, <1>6, <1>7, <1>9, <1>13 DEF RequestGood
<1>11. ~sync.on /\ \A s \in PriceRequests \ {r} : ~priceReq[s].locks
    BY <1>8 DEF PricingInv, OneWriter
<1>12. DOMAIN priceReq'[r].wrote \cap DOMAIN sync.wrote = {}
    BY <1>5 DEF PricingInv, RowsApart
<1> QED BY <1>1, <1>5, <1>10, <1>11, <1>12, RequestMoves

-----------------------------------------------------------------------------
(* Commits. *)

LEMMA CommitPricesKeeps ==
    ASSUME PricingInv, NEW r \in PriceRequests, CommitPrices(r)
    PROVE  PricingInv'
<1> DEFINE q == priceReq[r]
           c == Asked(q)
           mine == Over(priceRow, q.wrote)
           typed == TypedRows(r)
<1>1. /\ q.op = "prices" /\ q.step = "stored"
      /\ priceRow' = [l \in Licences |->
                IF l \in typed THEN [mine[l] EXCEPT !.cost = CostOf("type", c.types[mine[l].kind])]
                ELSE mine[l]]
      /\ prices' = c
      /\ priceReq' = [priceReq EXCEPT ![r] = IdlePrices]
      /\ UNCHANGED <<sync, lost, raced, crossed>>
    BY AskedIsAsked DEF CommitPrices
<1>2. RequestGood(q, priceRow, prices, lost, crossed) /\ RequestShape(q) /\ q.locks
    BY <1>1 DEF PricingInv, RequestGood, RequestShape
<1>3. c \in PriceConfig /\ c.stored
    BY <1>1, <1>2, AskedPricesTyped
<1>4. ASSUME NEW l \in Licences
      PROVE  /\ l \in DOMAIN q.wrote => mine[l] = q.wrote[l] /\ priceRow[l].kind \in Kinds
                                        /\ RowShape(q.wrote[l]) /\ q.wrote[l].cost = PackageCost(c)
                                        /\ priceRow[l].active /\ q.wrote[l].active
             /\ l \notin DOMAIN q.wrote => mine[l] = priceRow[l]
    BY <1>2 DEF Over, RequestGood, Spreading
<1>5. \A l \in Licences : mine[l] = Missing \/ RowShape(mine[l])
    BY <1>4 DEF PricingInv, RowsGood
<1>6. \A l \in typed : l \in Licences /\ priceRow[l].kind \in Kinds /\ c.types[mine[l].kind] > 0
    BY AskedIsAsked, PresentRows DEF TypedRows, PricingInv, Present
<1>7. \A l \in Licences : priceRow[l].kind \in Kinds =>
          mine[l].kind \in Kinds /\ RowShape(mine[l])
    <2>1. Missing.kind = {}
        BY DEF Missing
    <2> QED BY <1>4, <2>1, KnownRows DEF PricingInv, RowsGood, RowShape
<1>8. \A l \in Licences \ typed : priceRow[l].kind \in Kinds => ~(c.types[mine[l].kind] > 0)
    BY AskedIsAsked, PresentRows DEF TypedRows, PricingInv
<1> HIDE DEF mine, typed, c
<1>9. ASSUME NEW l \in Licences, l \in typed
      PROVE  /\ RowShape(priceRow'[l]) /\ priceRow'[l].kind = mine[l].kind
             /\ priceRow'[l].active = mine[l].active
             /\ priceRow'[l].cost = CostOf("type", c.types[mine[l].kind])
    <2>1. priceRow'[l] = [mine[l] EXCEPT !.cost = CostOf("type", c.types[mine[l].kind])]
        BY <1>1, <1>9
    <2>2. RowShape(mine[l])
        BY <1>6, <1>7, <1>9
    <2> QED BY <2>1, <2>2, Recosted
<1>10. \A l \in Licences \ typed : priceRow'[l] = mine[l]
    BY <1>1
<1>11. RowsGood(priceRow')
    <2>1. DOMAIN priceRow' = Licences
        BY <1>1
    <2> QED BY <2>1, <1>5, <1>9, <1>10 DEF RowsGood
<1>12. ASSUME NEW l \in Licences
       PROVE  /\ priceRow[l].kind \in Kinds => priceRow'[l].kind \in Kinds
              /\ priceRow'[l].kind \in Kinds =>
                    priceRow[l].kind \in Kinds /\ (priceRow'[l].active <=> priceRow[l].active)
    BY <1>4, <1>6, <1>7, <1>9, <1>10
<1>13. AllCurrent(priceRow', c, lost, raced, crossed)
    <2> SUFFICES ASSUME NEW l \in Licences, priceRow'[l].kind \in Kinds
                 PROVE  /\ TypeCurrent(priceRow'[l], c)
                        /\ l \notin crossed => PackageCurrent(priceRow'[l], c)
        BY DEF AllCurrent
    <2>1. CASE l \in typed
        <3>1. priceRow'[l].cost.from \in {"type", "none"}
              /\ (priceRow'[l].cost.from = "type" => priceRow'[l].cost.price = c.types[priceRow'[l].kind])
            BY <1>9, <2>1, TypeCosts
        <3> QED BY <3>1 DEF TypeCurrent, PackageCurrent
    <2>2. CASE l \notin typed
        <3>1. priceRow'[l] = mine[l] /\ TypeCurrent(mine[l], c)
            BY <1>8, <1>10, <1>12, <2>2 DEF TypeCurrent
        <3>2. l \in DOMAIN q.wrote => PackageCurrent(mine[l], c)
            BY <1>4 DEF PackageCurrent
        <3>3. Spread(c) /\ l \notin crossed /\ mine[l].active => l \in DOMAIN q.wrote
            BY <1>1, <1>2, <1>12, <3>1 DEF RequestGood, Spreading, c
        <3> QED BY <3>1, <3>2, <3>3 DEF PackageCurrent
    <2> QED BY <2>1, <2>2
<1>14. /\ DOMAIN priceReq' = PriceRequests /\ priceReq'[r] = IdlePrices
       /\ \A s \in PriceRequests \ {r} : priceReq'[s] = priceReq[s]
    BY <1>1 DEF PricingInv
<1>15. ~sync.on /\ \A s \in PriceRequests : ~priceReq'[s].locks
    BY <1>2, <1>14, IdlePricesGood DEF PricingInv, OneWriter
<1>16. ConfigGood(prices')
    BY <1>1, <1>3 DEF ConfigGood
<1> QED BY <1>1, <1>11, <1>12, <1>13, <1>14, <1>15, <1>16, Committed

LEMMA CommitPartsKeeps ==
    ASSUME PricingInv, NEW r \in PriceRequests, CommitParts(r)
    PROVE  PricingInv'
<1> DEFINE q == priceReq[r]
<1>1. /\ q.step = "summed"
      /\ priceRow' = [l \in Licences |->
                IF l \in DOMAIN q.asked THEN [priceRow[l] EXCEPT !.cost = q.asked[l]] ELSE priceRow[l]]
      /\ prices' = q.read
      /\ priceReq' = [priceReq EXCEPT ![r] = IdlePrices]
      /\ UNCHANGED <<sync, lost, raced, crossed>>
    BY DEF CommitParts
<1>2. RequestGood(q, priceRow, prices, lost, crossed) /\ RequestShape(q) /\ q.locks
    BY <1>1 DEF PricingInv, RequestGood, RequestShape
<1>3. /\ q.read \in PriceConfig /\ q.read.stored
      /\ \A l \in DOMAIN q.asked : q.asked[l].from \notin {"type", "package"}
      /\ ~lost => SamePrices(q.read, prices)
    BY <1>1, <1>2 DEF RequestShape, RequestGood
<1>4. \A l \in DOMAIN q.asked : RowShape(priceRow[l])
    <2>1. Missing.kind = {}
        BY DEF Missing
    <2> QED BY <1>1, <1>2, <2>1, KnownRows DEF RequestGood, PricingInv, RowsGood
<1>5. ASSUME NEW l \in Licences
      PROVE  \/ priceRow'[l] = priceRow[l]
             \/ /\ RowShape(priceRow'[l])
                /\ priceRow'[l].kind = priceRow[l].kind /\ priceRow'[l].active = priceRow[l].active
                /\ priceRow'[l].cost.from \notin {"type", "package"}
    <2>1. CASE l \in DOMAIN q.asked
        <3>1. priceRow'[l] = [priceRow[l] EXCEPT !.cost = q.asked[l]]
            BY <1>1, <2>1
        <3> QED BY <1>3, <1>4, <2>1, <3>1, Recosted
    <2>2. CASE l \notin DOMAIN q.asked
        BY <1>1, <2>2
    <2> QED BY <2>1, <2>2
<1>6. RowsGood(priceRow')
    <2>1. DOMAIN priceRow' = Licences
        BY <1>1
    <2> QED BY <1>5, <2>1 DEF RowsGood, PricingInv
<1>7. \A l \in Licences : priceRow'[l].kind = priceRow[l].kind /\ priceRow'[l].active = priceRow[l].active
    BY <1>5
<1>8. AllCurrent(priceRow', q.read, lost, raced, crossed)
    <2> SUFFICES ASSUME ~lost, NEW l \in Licences \ raced, priceRow'[l].kind \in Kinds
                 PROVE  /\ TypeCurrent(priceRow'[l], q.read)
                        /\ l \notin crossed => PackageCurrent(priceRow'[l], q.read)
        BY DEF AllCurrent
    <2>1. CASE priceRow'[l].cost.from \notin {"type", "package"}
        BY <2>1 DEF TypeCurrent, PackageCurrent
    <2>2. CASE priceRow'[l] = priceRow[l]
        <3>1. TypeCurrent(priceRow[l], prices) /\ (l \notin crossed => PackageCurrent(priceRow[l], prices))
            BY <2>2 DEF PricingInv, AllCurrent
        <3> QED BY <1>3, <2>2, <3>1 DEF SamePrices, TypeCurrent, PackageCurrent, Spread, PackageCost
    <2> QED BY <1>5, <2>1, <2>2
<1>9. /\ DOMAIN priceReq' = PriceRequests /\ priceReq'[r] = IdlePrices
      /\ \A s \in PriceRequests \ {r} : priceReq'[s] = priceReq[s]
    BY <1>1 DEF PricingInv
<1>10. ~sync.on /\ \A s \in PriceRequests : ~priceReq'[s].locks
    BY <1>2, <1>9, IdlePricesGood DEF PricingInv, OneWriter
<1>11. ConfigGood(prices')
    BY <1>1, <1>3 DEF ConfigGood
<1> QED BY <1>1, <1>6, <1>7, <1>8, <1>9, <1>10, <1>11, Committed

LEMMA CommitRetypeKeeps ==
    ASSUME PricingInv, NEW r \in PriceRequests, CommitRetype(r)
    PROVE  PricingInv'
<1> DEFINE c == priceReq[r].read
           q == priceReq[r].asked
           l == q.licence
           new == [q.loaded EXCEPT !.kind = q.kind, !.cost = RetypeCost(c, q.kind)]
           row == Patched(priceRow[l], q.loaded, new)
<1>1. /\ priceReq[r].op = "retype"
      /\ priceRow' = [priceRow EXCEPT ![l] = row]
      /\ raced' = IF priceRow[l] # q.loaded \/ prices # c THEN raced \cup {l} ELSE raced
      /\ priceReq' = [priceReq EXCEPT ![r] = IdlePrices]
      /\ UNCHANGED <<prices, sync, lost, crossed>>
    BY DEF CommitRetype
<1>2. /\ l \in Licences /\ priceRow[l].kind \in Kinds /\ q.kind \in Kinds /\ RowShape(q.loaded)
    BY <1>1 DEF PricingInv, RequestGood, RequestShape
<1>3. new.kind = q.kind /\ new.active = q.loaded.active /\ new.cost = RetypeCost(c, q.kind)
    BY <1>2 DEF RowShape, RowFields
<1> HIDE DEF new
<1>4. /\ DOMAIN row = RowFields /\ row.active = priceRow[l].active
      /\ row.kind = IF q.loaded.kind = q.kind THEN priceRow[l].kind ELSE q.kind
      /\ row.cost = IF q.loaded.cost = new.cost THEN priceRow[l].cost ELSE new.cost
    BY <1>3, PatchedRow
<1> HIDE DEF row
<1>5. RowShape(row)
    BY <1>2, <1>4 DEF RowShape
<1>6. /\ DOMAIN priceRow' = Licences /\ priceRow'[l] = row
      /\ \A x \in Licences \ {l} : priceRow'[x] = priceRow[x]
    BY <1>1, <1>2 DEF PricingInv, RowsGood
<1>7. RowsGood(priceRow')
    BY <1>5, <1>6 DEF PricingInv, RowsGood
<1>8. ASSUME priceRow[l] = q.loaded, prices = c
      PROVE  TypeCurrent(row, prices) /\ PackageCurrent(row, prices)
    <2>1. row.kind = q.kind /\ row.cost = CostOf("type", prices.types[q.kind])
        BY <1>3, <1>4, <1>8 DEF RetypeCost
    <2> QED BY <2>1, TypeCosts DEF TypeCurrent, PackageCurrent
<1>9. AllCurrent(priceRow', prices, lost, raced', crossed)
    <2> SUFFICES ASSUME ~lost, NEW x \in Licences \ raced', priceRow'[x].kind \in Kinds
                 PROVE  /\ TypeCurrent(priceRow'[x], prices)
                        /\ x \notin crossed => PackageCurrent(priceRow'[x], prices)
        BY DEF AllCurrent
    <2>1. CASE x = l
        BY <1>1, <1>6, <1>8, <2>1
    <2>2. CASE x # l
        BY <1>1, <1>6, <2>2 DEF PricingInv, AllCurrent
    <2> QED BY <2>1, <2>2
<1>10. /\ DOMAIN priceReq' = PriceRequests /\ priceReq'[r] = IdlePrices
       /\ \A s \in PriceRequests \ {r} : priceReq'[s] = priceReq[s]
    BY <1>1 DEF PricingInv
<1>11. \A x \in Licences :
           /\ priceRow[x].kind \in Kinds => priceRow'[x].kind \in Kinds
           /\ priceRow'[x].kind \in Kinds =>
                 priceRow[x].kind \in Kinds /\ (priceRow'[x].active <=> priceRow[x].active)
    BY <1>2, <1>4, <1>5, <1>6 DEF RowShape
<1>12. ConfigGood(prices') /\ prices' = prices /\ raced \subseteq raced'
    BY <1>1 DEF PricingInv
<1> QED BY <1>1, <1>7, <1>9, <1>10, <1>11, <1>12, Committed

LEMMA ReplaceConfigKeeps == ASSUME PricingInv, ReplaceConfig PROVE PricingInv'
<1>1. /\ \A r \in PriceRequests : ~priceReq[r].locks
      /\ ~sync.on /\ prices' = EmptyConfig
      /\ UNCHANGED <<priceRow, priceReq, sync, lost, raced, crossed>>
    BY DEF ReplaceConfig
<1>2. /\ \A k \in Kinds : ~(EmptyConfig.types[k] > 0)
      /\ ~Spread(EmptyConfig)
    BY DEF EmptyConfig, Spread
<1>3. AllCurrent(priceRow, EmptyConfig, lost, raced, crossed)
    BY <1>2 DEF AllCurrent, TypeCurrent, PackageCurrent
<1>4. ConfigGood(EmptyConfig)
    BY EmptyConfigTyped DEF ConfigGood
<1> QED BY <1>1, <1>3, <1>4, Committed DEF PricingInv

LEMMA AbortPricesKeeps ==
    ASSUME PricingInv, NEW r \in PriceRequests, AbortPrices(r)
    PROVE  PricingInv'
<1>1. /\ priceReq' = [priceReq EXCEPT ![r] = IdlePrices]
      /\ UNCHANGED <<prices, priceRow, sync, lost, raced, crossed>>
    BY DEF AbortPrices
<1>2. /\ DOMAIN priceReq' = PriceRequests /\ priceReq'[r] = IdlePrices
      /\ \A s \in PriceRequests \ {r} : priceReq'[s] = priceReq[s]
    BY <1>1 DEF PricingInv
<1> QED BY <1>1, <1>2, Committed DEF PricingInv

-----------------------------------------------------------------------------
(* The synchronisation. *)

LEMMA BeginSyncKeeps == ASSUME PricingInv, BeginSync PROVE PricingInv'
<1>1. /\ \A r \in PriceRequests : ~priceReq[r].locks
      /\ sync' = [IdleSync EXCEPT !.on = TRUE, !.read = prices]
      /\ UNCHANGED <<prices, priceRow, priceReq, lost, raced, crossed>>
    BY DEF BeginSync
<1>2. /\ DOMAIN sync' = SyncFields /\ sync'.on /\ sync'.read = prices
      /\ DOMAIN sync'.at = {} /\ DOMAIN sync'.wrote = {}
    BY <1>1 DEF IdleSync, SyncFields
<1>3. SyncGood(sync', priceRow, prices, raced') /\ RowsApart(sync', priceReq)
    BY <1>2 DEF SyncGood, RowsApart
<1> QED BY <1>1, <1>3, SyncMoves

LEMMA AbortSyncKeeps == ASSUME PricingInv, AbortSync PROVE PricingInv'
<1>1. sync' = IdleSync /\ UNCHANGED <<prices, priceRow, priceReq, lost, raced, crossed>>
    BY DEF AbortSync
<1>2. /\ DOMAIN sync' = SyncFields /\ ~sync'.on /\ DOMAIN sync'.at = {} /\ DOMAIN sync'.wrote = {}
    BY <1>1 DEF IdleSync, SyncFields
<1>3. SyncGood(sync', priceRow, prices, raced') /\ RowsApart(sync', priceReq)
    BY <1>2 DEF SyncGood, RowsApart
<1> QED BY <1>1, <1>2, <1>3, SyncMoves

LEMMA LoadLicenceKeeps ==
    ASSUME PricingInv, NEW l \in Licences, LoadLicence(l)
    PROVE  PricingInv'
<1> DEFINE at == [x \in {l} |-> priceRow[x]]
<1>1. /\ sync.on /\ sync' = [sync EXCEPT !.at = at]
      /\ UNCHANGED <<prices, priceRow, priceReq, lost, raced, crossed>>
    BY DEF LoadLicence
<1>2. DOMAIN at = {l} /\ at[l] = priceRow[l]
    OBVIOUS
<1> HIDE DEF at
<1>3. /\ DOMAIN sync' = SyncFields /\ sync'.on /\ sync'.read = sync.read
      /\ sync'.at = at /\ sync'.wrote = sync.wrote
    BY <1>1 DEF PricingInv, SyncGood, SyncFields
<1>4. SyncGood(sync', priceRow, prices, raced')
    BY <1>1, <1>2, <1>3 DEF PricingInv, SyncGood
<1>5. RowsApart(sync', priceReq)
    BY <1>3 DEF PricingInv, RowsApart
<1> QED BY <1>1, <1>4, <1>5, SyncMoves DEF PricingInv, OneWriter

LEMMA WriteLicenceKeeps ==
    ASSUME PricingInv, NEW l \in Licences, NEW a \in Answers, WriteLicence(l, a)
    PROVE  PricingInv'
<1> DEFINE new == [kind |-> a.kind, active |-> a.active, cost |-> SyncCost(sync.read, a)]
           row == Patched(priceRow[l], sync.at[l], new)
           wrote == [x \in DOMAIN sync.wrote \cup {l} |-> IF x = l THEN row ELSE sync.wrote[x]]
<1>1. /\ l \in DOMAIN sync.at /\ RowWriters(l) = {}
      /\ sync' = [sync EXCEPT !.at = <<>>, !.done = @ \cup {l}, !.wrote = wrote]
      /\ raced' = IF priceRow[l] # sync.at[l] THEN raced \cup {l} ELSE raced
      /\ UNCHANGED <<prices, priceRow, priceReq, lost, crossed>>
    BY DEF WriteLicence
<1>2. SyncGood(sync, priceRow, prices, raced) /\ sync.on /\ sync.read = prices
    BY <1>1 DEF PricingInv, SyncGood
<1>3. a.kind \in Kinds
    BY PricingAssumptions
<1>4. new.kind = a.kind /\ new.active = a.active /\ new.cost = SyncCost(prices, a)
    BY <1>2
<1> HIDE DEF new
<1>5. /\ DOMAIN row = RowFields
      /\ row.kind = IF sync.at[l].kind = a.kind THEN priceRow[l].kind ELSE a.kind
      /\ row.cost = IF sync.at[l].cost = new.cost THEN priceRow[l].cost ELSE new.cost
    BY <1>4, PatchedRow
<1> HIDE DEF row
<1>6. RowShape(row)
    BY <1>1, <1>2, <1>3, <1>5 DEF SyncGood, RowShape
<1>7. priceRow[l] = sync.at[l] => TypeCurrent(row, prices) /\ PackageCurrent(row, prices)
    BY <1>4, <1>5, SyncCosts
<1>8. /\ DOMAIN wrote = DOMAIN sync.wrote \cup {l} /\ wrote[l] = row
      /\ \A x \in DOMAIN sync.wrote \ {l} : wrote[x] = sync.wrote[x]
    OBVIOUS
<1> HIDE DEF wrote
<1>9. /\ DOMAIN sync' = SyncFields /\ sync'.on /\ sync'.read = sync.read
      /\ DOMAIN sync'.at = {} /\ sync'.wrote = wrote
    BY <1>1, <1>2 DEF SyncGood, SyncFields
<1>10. ASSUME NEW x \in DOMAIN wrote
       PROVE  /\ x \in Licences /\ RowShape(wrote[x])
              /\ x \notin raced' => TypeCurrent(wrote[x], prices) /\ PackageCurrent(wrote[x], prices)
    <2>1. CASE x = l
        BY <1>1, <1>6, <1>7, <1>8, <2>1
    <2>2. CASE x # l
        BY <1>1, <1>2, <1>8, <2>2 DEF SyncGood
    <2> QED BY <2>1, <2>2
<1>11. SyncGood(sync', priceRow, prices, raced')
    BY <1>2, <1>9, <1>10 DEF SyncGood
<1>12. RowsApart(sync', priceReq)
    <2>1. \A r \in PriceRequests : l \notin DOMAIN priceReq[r].wrote
        BY <1>1 DEF RowWriters
    <2> QED BY <1>8, <1>9, <2>1 DEF PricingInv, RowsApart
<1> QED BY <1>1, <1>2, <1>11, <1>12, SyncMoves DEF PricingInv, OneWriter

LEMMA CommitSyncKeeps ==
    ASSUME PricingInv, reported \in Seats, CommitSync
    PROVE  PricingInv'
<1> DEFINE rows == Over(priceRow, sync.wrote)
           c == WithSeats(sync.read)
<1>1. /\ sync.on /\ priceRow' = rows /\ prices' = c
      /\ crossed' = crossed \cup
             IF \E r \in PriceRequests : priceReq[r].step = "spread" THEN DOMAIN sync.wrote ELSE {}
      /\ sync' = IdleSync
      /\ UNCHANGED <<priceReq, lost, raced>>
    BY DEF CommitSync
<1>2. SyncGood(sync, priceRow, prices, raced) /\ sync.read = prices /\ ConfigGood(prices)
    BY <1>1 DEF PricingInv, SyncGood
<1>3. /\ ConfigGood(c) /\ c.types = prices.types
      /\ c = prices \/ (~Spread(c))
    <2>1. CASE prices.stored \/ reported = 0
        BY <1>2, <2>1 DEF WithSeats
    <2>2. CASE ~prices.stored /\ reported # 0
        <3>1. c = [prices EXCEPT !.stored = TRUE, !.seats = reported]
            BY <1>2, <2>2 DEF WithSeats
        <3>2. prices.package = 0 /\ prices \in PriceConfig
            BY <1>2, <2>2 DEF ConfigGood
        <3>3. c \in PriceConfig /\ c.stored /\ c.package = 0 /\ c.types = prices.types
            BY <2>2, <3>1, <3>2 DEF PriceConfig
        <3> QED BY <3>3 DEF ConfigGood, Spread
    <2> QED BY <2>1, <2>2
<1>4. ASSUME NEW l \in Licences
      PROVE  /\ l \in DOMAIN sync.wrote => rows[l] = sync.wrote[l] /\ RowShape(rows[l])
             /\ l \notin DOMAIN sync.wrote => rows[l] = priceRow[l]
    BY <1>2 DEF Over, SyncGood
<1>5. DOMAIN rows = Licences
    BY DEF Over
<1> HIDE DEF rows, c
<1>6. RowsGood(rows)
    BY <1>4, <1>5 DEF PricingInv, RowsGood
<1>7. \A l \in Licences : priceRow[l].kind \in Kinds => rows[l].kind \in Kinds
    BY <1>4 DEF RowShape
<1>8. \A l \in DOMAIN sync.wrote : l \in crossed' \/ \A r \in PriceRequests : priceReq[r].step # "spread"
    BY <1>1
<1>9. ASSUME NEW r \in PriceRequests
      PROVE  RequestGood(priceReq[r], rows, c, lost, crossed') /\ ~priceReq[r].locks
    <2>1. RequestGood(priceReq[r], priceRow, prices, lost, crossed)
          /\ DOMAIN priceReq[r].wrote \cap DOMAIN sync.wrote = {}
        BY DEF PricingInv, RowsApart
    <2>2. ~priceReq[r].locks
        BY <1>1 DEF PricingInv, OneWriter
    <2>3. priceReq[r].op = "prices" => priceReq[r].step # "stored"
        BY <2>1, <2>2 DEF RequestGood, RequestShape
    <2>4. Spreading(priceReq[r], rows, crossed')
        <3>1. \A l \in DOMAIN priceReq[r].wrote : l \in Licences /\ rows[l] = priceRow[l]
            BY <1>4, <2>1 DEF RequestGood, Spreading
        <3>2. ASSUME priceReq[r].op = "prices", priceReq[r].step = "spread",
                     Spread(Asked(priceReq[r])), NEW l \in Licences \ crossed',
                     rows[l].kind \in Kinds, rows[l].active
              PROVE  l \in DOMAIN priceReq[r].wrote
            <4>1. l \notin DOMAIN sync.wrote /\ l \notin crossed
                BY <1>1, <1>8, <3>2
            <4> QED BY <1>4, <2>1, <3>2, <4>1 DEF RequestGood, Spreading
        <3> QED BY <2>1, <2>3, <3>1, <3>2 DEF RequestGood, Spreading
    <2> QED BY <1>7, <2>1, <2>2, <2>4 DEF RequestGood
<1>10. AllCurrent(rows, c, lost, raced, crossed')
    <2> SUFFICES ASSUME ~lost, NEW l \in Licences \ raced, rows[l].kind \in Kinds
                 PROVE  TypeCurrent(rows[l], c) /\ (l \notin crossed' => PackageCurrent(rows[l], c))
        BY DEF AllCurrent
    <2>1. TypeCurrent(rows[l], prices) /\ (l \notin crossed' => PackageCurrent(rows[l], prices))
        <3>1. CASE l \in DOMAIN sync.wrote
            BY <1>2, <1>4, <3>1 DEF SyncGood
        <3>2. CASE l \notin DOMAIN sync.wrote
            BY <1>1, <1>4, <3>2 DEF PricingInv, AllCurrent
        <3> QED BY <3>1, <3>2
    <2> QED BY <1>3, <2>1 DEF TypeCurrent, PackageCurrent
<1>11. SyncGood(sync', rows, c, raced) /\ RowsApart(sync', priceReq) /\ OneWriter(sync', priceReq)
    <2>1. /\ DOMAIN IdleSync = SyncFields /\ ~IdleSync.on /\ DOMAIN IdleSync.at = {}
          /\ DOMAIN IdleSync.wrote = {}
        BY DEF IdleSync, SyncFields
    <2> QED BY <1>1, <1>9, <2>1 DEF SyncGood, RowsApart, OneWriter
<1> QED BY <1>1, <1>3, <1>6, <1>9, <1>10, <1>11 DEF PricingInv

LEMMA PricingStep == reported \in Seats /\ PricingInv /\ [PricingNext]_pricingVars => PricingInv'
<1> SUFFICES ASSUME reported \in Seats, PricingInv, [PricingNext]_pricingVars
             PROVE  PricingInv'
    OBVIOUS
<1>1. CASE UNCHANGED pricingVars
    BY <1>1 DEF pricingVars, PricingInv
<1>2. ASSUME NEW n \in Seats, Resize(n)
      PROVE  PricingInv'
    BY <1>2 DEF Resize, PricingInv
<1>3. CASE PricingNext
    BY <1>2, <1>3, BeginPricesKeeps, PackagePricesKeeps, StorePricesKeeps, CommitPricesKeeps,
       BeginPartsKeeps, ReadPartsKeeps, CommitPartsKeeps, BeginRetypeKeeps, CommitRetypeKeeps,
       AbortPricesKeeps, ReplaceConfigKeeps, BeginSyncKeeps, CommitSyncKeeps, AbortSyncKeeps,
       LoadLicenceKeeps, WriteLicenceKeeps DEF PricingNext
<1> QED BY <1>1, <1>3

LEMMA ReportedSeats == PricingSpec => [](reported \in Seats)
<1>1. PricingInit => reported \in Seats
    BY PricingAssumptions DEF PricingInit, Seats
<1>2. reported \in Seats /\ [PricingNext]_pricingVars => (reported \in Seats)'
    BY DEF PricingNext, pricingVars, Resize, BeginPrices, PackagePrices, StorePrices, CommitPrices,
       BeginParts, ReadParts, CommitParts, BeginRetype, CommitRetype, AbortPrices, ReplaceConfig,
       BeginSync, CommitSync, AbortSync, LoadLicence, WriteLicence
<1> QED BY <1>1, <1>2, PTL DEF PricingSpec

LEMMA PricingInvariant == PricingSpec => []PricingInv
<1> QED BY PricingInitHolds, PricingStep, ReportedSeats, PTL DEF PricingSpec

(* The cost of a licence that comes from the price of its type or from the *)
(* package is the one that the provider's prices give it now, however      *)
(* update_license_pricing, update_individual_license_pricing, changes of   *)
(* type and synchronisations overlap, for any number of licences, requests *)
(* and prices; but for licences and configs written from what had changed. *)
THEOREM CostsFollowPrices == PricingSpec => []PricesCurrent
<1>1. PricingInv => PricesCurrent
    <2> SUFFICES ASSUME PricingInv
                 PROVE  PricesCurrent
        OBVIOUS
    <2>1. ASSUME NEW l \in Present, ~lost, l \notin raced
          PROVE  TypeCurrent(priceRow[l], prices)
                 /\ (l \notin crossed => PackageCurrent(priceRow[l], prices))
        BY <2>1, PresentRows DEF PricingInv, AllCurrent, Present
    <2>2. TypePriceCurrent
        BY <2>1 DEF TypePriceCurrent, TypeCurrent
    <2>3. PackagePriceCurrent
        BY <2>1 DEF PackagePriceCurrent, PackageCurrent
    <2> QED BY <2>2, <2>3 DEF PricesCurrent
<1> QED BY <1>1, PricingInvariant, PTL

-----------------------------------------------------------------------------
(* The types of the rows, of what is written and of what is computed.      *)

PriceRequestTyped(q) ==
    /\ \A l \in DOMAIN q.wrote : q.wrote[l] \in Licence
    /\ q.op = "retype" => q.asked.loaded \in Licence
    /\ q.step = "summed" => \A l \in DOMAIN q.asked : q.asked[l] \in Cost

PriceSyncTyped(s) ==
    /\ s.read \in PriceConfig
    /\ s.done \subseteq Licences
    /\ \A l \in DOMAIN s.at : s.at[l] \in Licence \cup {Missing}
    /\ \A l \in DOMAIN s.wrote : s.wrote[l] \in Licence

PriceTyped ==
    /\ reported \in Seats
    /\ priceRow \in [Licences -> Licence \cup {Missing}]
    /\ \A r \in PriceRequests : PriceRequestTyped(priceReq[r])
    /\ PriceSyncTyped(sync)
    /\ lost \in BOOLEAN /\ raced \subseteq Licences /\ crossed \subseteq Licences

LEMMA PricesAreNumbers == \A p \in Prices : p \in Nat
<1> QED BY PricingAssumptions DEF Prices

LEMMA PriceCostsTyped ==
    /\ NoCost \in Cost
    /\ \A from \in {"type", "parts", "provider"}, price \in Nat : CostOf(from, price) \in Cost
    /\ \A c \in PriceConfig : PackageCost(c) \in Cost
<1>1. NoCost \in Cost
    BY DEF NoCost, Cost
<1>2. ASSUME NEW from \in {"type", "parts", "provider"}, NEW price \in Nat
      PROVE  CostOf(from, price) \in Cost
    <2>1. [from |-> from, price |-> price] \in Cost
        BY <1>2 DEF Cost
    <2> QED BY <1>1, <2>1 DEF CostOf
<1>3. ASSUME NEW c \in PriceConfig
      PROVE  PackageCost(c) \in Cost
    <2>1. c.package \in Prices /\ c.seats \in Seats
        BY DEF PriceConfig
    <2> QED BY <2>1 DEF PackageCost, Cost
<1> QED BY <1>1, <1>2, <1>3

LEMMA TypeCostsTyped ==
    ASSUME NEW c \in PriceConfig, NEW k \in Kinds
    PROVE  CostOf("type", c.types[k]) \in Cost
<1>1. c.types[k] \in Prices
    BY DEF PriceConfig
<1> QED BY <1>1, PricesAreNumbers, PriceCostsTyped

LEMMA SyncCostsTyped ==
    ASSUME NEW c \in PriceConfig, NEW a \in Answers
    PROVE  SyncCost(c, a) \in Cost
<1>1. a.kind \in Kinds /\ a.own \in Prices
    BY PricingAssumptions
<1>2. CostOf("provider", a.own) \in Cost
    BY <1>1, PricesAreNumbers, PriceCostsTyped
<1>3. CostOf("type", c.types[a.kind]) \in Cost
    BY <1>1, TypeCostsTyped
<1> QED BY <1>2, <1>3, PriceCostsTyped DEF SyncCost

\* The sum over the parts of a type.
LEMMA PartsCostsTyped ==
    ASSUME NEW c \in PriceConfig, NEW k \in Kinds
    PROVE  PartsCost(c, k) \in Cost
<1>1. k \subseteq Parts /\ IsFiniteSet(k)
    BY PricingAssumptions, FS_Subset
<1>2. \A p \in k : c.parts[p] \in Prices
    BY <1>1 DEF PriceConfig
<1>3. \A p \in k : c.parts[p] \in Nat /\ c.parts[p] \in Int
    BY <1>2, PricesAreNumbers
<1>4. SumFunctionOnSet(c.parts, k) \in Nat
    BY <1>1, <1>3, SumTyped
<1> QED BY <1>4, PriceCostsTyped DEF PartsCost

LEMMA RecostedTyped ==
    ASSUME NEW row \in Licence, NEW x \in Cost
    PROVE  [row EXCEPT !.cost = x] \in Licence
<1> QED BY DEF Licence

LEMMA LicenceFields ==
    ASSUME NEW row \in Licence \cup {Missing}
    PROVE  row.active \in BOOLEAN /\ row.cost \in Cost /\ (row \in Licence <=> row.kind \in Kinds)
<1>1. Missing.kind = {} /\ Missing.active \in BOOLEAN /\ Missing.cost \in Cost
    BY PriceCostsTyped DEF Missing
<1>2. \A x \in Licence : x.active \in BOOLEAN /\ x.cost \in Cost /\ x.kind \in Kinds
    BY DEF Licence
<1> QED BY <1>1, <1>2, KnownRows

\* A patch of a row that is there, or that the loaded one was not, is a licence.
LEMMA PatchedTyped ==
    ASSUME NEW row \in Licence \cup {Missing}, NEW loaded \in Licence \cup {Missing},
           NEW new \in Licence, loaded.kind \in Kinds => row.kind \in Kinds
    PROVE  Patched(row, loaded, new) \in Licence
<1> DEFINE kind == IF loaded.kind = new.kind THEN row.kind ELSE new.kind
           active == IF loaded.active = new.active THEN row.active ELSE new.active
           cost == IF loaded.cost = new.cost THEN row.cost ELSE new.cost
<1>1. new.kind \in Kinds /\ new.active \in BOOLEAN /\ new.cost \in Cost
    BY DEF Licence
<1>2. row.active \in BOOLEAN /\ row.cost \in Cost
    BY LicenceFields
<1>3. kind \in Kinds /\ active \in BOOLEAN /\ cost \in Cost
    BY <1>1, <1>2
<1>4. Patched(row, loaded, new) = [kind |-> kind, active |-> active, cost |-> cost]
    BY DEF Patched
<1> HIDE DEF kind, active, cost
<1> QED BY <1>3, <1>4 DEF Licence

LEMMA PriceTypedInit == PricingInit => PriceTyped
<1> SUFFICES ASSUME PricingInit
             PROVE  PriceTyped
    OBVIOUS
<1>1. reported \in Seats
    BY PricingAssumptions DEF PricingInit, Seats
<1>2. PriceRequestTyped(IdlePrices)
    BY DEF IdlePrices, PriceRequestTyped
<1>3. PriceSyncTyped(IdleSync)
    BY EmptyConfigTyped DEF IdleSync, PriceSyncTyped
<1>4. priceRow \in [Licences -> Licence \cup {Missing}]
    BY DEF PricingInit
<1>5. sync = IdleSync /\ \A r \in PriceRequests : priceReq[r] = IdlePrices
    BY DEF PricingInit
<1>6. lost \in BOOLEAN /\ raced \subseteq Licences /\ crossed \subseteq Licences
    BY DEF PricingInit
<1> QED BY <1>1, <1>2, <1>3, <1>4, <1>5, <1>6 DEF PriceTyped

-----------------------------------------------------------------------------
(* Steps that keep the types. *)

\* A request moves on, nothing is committed.
LEMMA RequestMovesTyped ==
    ASSUME PriceTyped, NEW r \in PriceRequests,
           UNCHANGED <<reported, priceRow, sync, raced, crossed>>,
           \A s \in PriceRequests \ {r} : priceReq'[s] = priceReq[s],
           PriceRequestTyped(priceReq'[r]), lost' \in BOOLEAN
    PROVE  PriceTyped'
<1>1. \A s \in PriceRequests : PriceRequestTyped(priceReq'[s])
    BY DEF PriceTyped
<1> QED BY <1>1 DEF PriceTyped

\* A transaction commits that is no synchronisation, or one is given up.
LEMMA CommittedTyped ==
    ASSUME PriceTyped, UNCHANGED <<reported, sync, lost, crossed>>,
           \A s \in PriceRequests : priceReq'[s] \in {priceReq[s], IdlePrices},
           priceRow' \in [Licences -> Licence \cup {Missing}], raced' \subseteq Licences
    PROVE  PriceTyped'
<1>1. PriceRequestTyped(IdlePrices)
    BY DEF IdlePrices, PriceRequestTyped
<1>2. \A s \in PriceRequests : PriceRequestTyped(priceReq'[s])
    BY <1>1 DEF PriceTyped
<1> QED BY <1>2 DEF PriceTyped

\* A request begins.
LEMMA BegunTyped ==
    ASSUME PricingInv, PriceTyped, NEW r \in PriceRequests, NEW op, NEW asked,
           op = "retype" => asked.loaded \in Licence,
           priceReq' = [priceReq EXCEPT ![r] = PriceRequest(op, asked)],
           UNCHANGED <<reported, priceRow, sync, lost, raced, crossed>>
    PROVE  PriceTyped'
<1> DEFINE q == PriceRequest(op, asked)
<1>1. q.op = op /\ q.asked = asked /\ q.step = "begun" /\ DOMAIN q.wrote = {}
    BY DEF PriceRequest
<1>2. priceReq'[r] = q /\ \A s \in PriceRequests \ {r} : priceReq'[s] = priceReq[s]
    BY DEF PricingInv
<1> HIDE DEF q
<1>3. PriceRequestTyped(priceReq'[r])
    BY <1>1, <1>2 DEF PriceRequestTyped
<1>4. lost' \in BOOLEAN
    BY DEF PriceTyped
<1> QED BY <1>2, <1>3, <1>4, RequestMovesTyped

LEMMA BeginPriceTyped ==
    ASSUME PricingInv, PriceTyped, NEW r \in PriceRequests,
           \/ \E asked \in AskedPrices : BeginPrices(r, asked)
           \/ \E asked \in AskedParts : BeginParts(r, asked)
           \/ \E l \in Licences, k \in Kinds : BeginRetype(r, l, k)
    PROVE  PriceTyped'
<1>1. ASSUME NEW asked, BeginPrices(r, asked)
      PROVE  PriceTyped'
    BY <1>1, BegunTyped DEF BeginPrices
<1>2. ASSUME NEW asked, BeginParts(r, asked)
      PROVE  PriceTyped'
    BY <1>2, BegunTyped DEF BeginParts
<1>3. ASSUME NEW l \in Licences, NEW k \in Kinds, BeginRetype(r, l, k)
      PROVE  PriceTyped'
    <2> DEFINE asked == [licence |-> l, kind |-> k, loaded |-> priceRow[l]]
    <2>1. priceRow[l] \in Licence
        BY <1>3 DEF BeginRetype, Present, PriceTyped
    <2>2. asked.loaded \in Licence
        BY <2>1
    <2>3. /\ priceReq' = [priceReq EXCEPT ![r] = PriceRequest("retype", asked)]
          /\ UNCHANGED <<reported, priceRow, sync, lost, raced, crossed>>
        BY <1>3 DEF BeginRetype
    <2> HIDE DEF asked
    <2> QED BY <2>2, <2>3, BegunTyped
<1> QED BY <1>1, <1>2, <1>3

LEMMA PackagePricesTyped ==
    ASSUME PricingInv, PriceTyped, NEW r \in PriceRequests, PackagePrices(r)
    PROVE  PriceTyped'
<1> DEFINE q == priceReq[r]
           c == Asked(q)
           reached == IF Spread(c) THEN PackageReaches ELSE {}
           wrote == [l \in reached |-> [priceRow[l] EXCEPT !.cost = PackageCost(c)]]
<1>1. /\ q.op = "prices" /\ q.step = "begun"
      /\ priceReq' = [priceReq EXCEPT ![r].step = "spread", ![r].wrote = wrote]
      /\ UNCHANGED <<reported, priceRow, sync, lost, raced, crossed>>
    BY AskedIsAsked DEF PackagePrices
<1>2. RequestShape(q) /\ DOMAIN q = RequestFields
    BY DEF PricingInv, RequestGood, RequestShape
<1>3. PackageCost(c) \in Cost
    BY <1>1, <1>2, AskedPricesTyped, PriceCostsTyped
<1>4. \A l \in reached : priceRow[l] \in Licence
    BY DEF PackageReaches, Present, PriceTyped
<1>5. DOMAIN wrote = reached /\ \A l \in reached : wrote[l] \in Licence
    BY <1>3, <1>4, RecostedTyped
<1> HIDE DEF wrote, reached, c
<1>6. /\ \A s \in PriceRequests \ {r} : priceReq'[s] = priceReq[s]
      /\ priceReq'[r].op = q.op /\ priceReq'[r].step = "spread" /\ priceReq'[r].wrote = wrote
    BY <1>1, <1>2 DEF PricingInv, RequestFields
<1>7. PriceRequestTyped(priceReq'[r])
    BY <1>1, <1>5, <1>6 DEF PriceRequestTyped
<1>8. lost' \in BOOLEAN
    BY <1>1 DEF PriceTyped
<1> QED BY <1>1, <1>6, <1>7, <1>8, RequestMovesTyped

LEMMA StorePricesTyped ==
    ASSUME PricingInv, PriceTyped, NEW r \in PriceRequests, StorePrices(r)
    PROVE  PriceTyped'
<1> DEFINE q == priceReq[r]
<1>1. /\ q.op \in {"prices", "parts"}
      /\ lost' = (lost \/ prices # q.read)
      /\ priceReq' = [priceReq EXCEPT ![r].step = "stored", ![r].locks = TRUE]
      /\ UNCHANGED <<reported, priceRow, sync, raced, crossed>>
    BY DEF StorePrices
<1>2. DOMAIN q = RequestFields /\ PriceRequestTyped(q)
    BY DEF PricingInv, RequestGood, RequestShape, PriceTyped
<1>3. /\ \A s \in PriceRequests \ {r} : priceReq'[s] = priceReq[s]
      /\ priceReq'[r].op = q.op /\ priceReq'[r].step = "stored" /\ priceReq'[r].wrote = q.wrote
    BY <1>1, <1>2 DEF PricingInv, RequestFields
<1>4. PriceRequestTyped(priceReq'[r])
    BY <1>1, <1>2, <1>3 DEF PriceRequestTyped
<1>5. lost' \in BOOLEAN
    BY <1>1
<1> QED BY <1>1, <1>3, <1>4, <1>5, RequestMovesTyped

LEMMA ReadPartsTyped ==
    ASSUME PricingInv, PriceTyped, NEW r \in PriceRequests, ReadParts(r)
    PROVE  PriceTyped'
<1> DEFINE q == priceReq[r]
           c == Asked(q)
           sums == [l \in Present |-> PartsCost(c, priceRow[l].kind)]
<1>1. /\ q.op = "parts" /\ q.step = "stored"
      /\ priceReq' = [priceReq EXCEPT ![r].step = "summed", ![r].asked = sums, ![r].read = c]
      /\ UNCHANGED <<reported, priceRow, sync, lost, raced, crossed>>
    BY AskedIsAsked DEF ReadParts
<1>2. RequestShape(q) /\ DOMAIN q = RequestFields /\ PriceRequestTyped(q)
    BY DEF PricingInv, RequestGood, RequestShape, PriceTyped
<1>3. c \in PriceConfig
    BY <1>1, <1>2, AskedPartsTyped
<1>4. \A l \in Present : priceRow[l].kind \in Kinds
    BY PresentRows DEF PricingInv, Present
<1>5. DOMAIN sums = Present /\ \A l \in Present : sums[l] \in Cost
    BY <1>3, <1>4, PartsCostsTyped
<1> HIDE DEF sums, c
<1>6. /\ \A s \in PriceRequests \ {r} : priceReq'[s] = priceReq[s]
      /\ priceReq'[r].op = q.op /\ priceReq'[r].wrote = q.wrote /\ priceReq'[r].asked = sums
    BY <1>1, <1>2 DEF PricingInv, RequestFields
<1>7. PriceRequestTyped(priceReq'[r])
    BY <1>1, <1>2, <1>5, <1>6 DEF PriceRequestTyped
<1>8. lost' \in BOOLEAN
    BY <1>1 DEF PriceTyped
<1> QED BY <1>1, <1>6, <1>7, <1>8, RequestMovesTyped

LEMMA CommitPricesTyped ==
    ASSUME PricingInv, PriceTyped, NEW r \in PriceRequests, CommitPrices(r)
    PROVE  PriceTyped'
<1> DEFINE q == priceReq[r]
           c == Asked(q)
           mine == Over(priceRow, q.wrote)
           typed == TypedRows(r)
<1>1. /\ q.op = "prices"
      /\ priceRow' = [l \in Licences |->
                IF l \in typed THEN [mine[l] EXCEPT !.cost = CostOf("type", c.types[mine[l].kind])]
                ELSE mine[l]]
      /\ priceReq' = [priceReq EXCEPT ![r] = IdlePrices]
      /\ UNCHANGED <<reported, sync, lost, raced, crossed>>
    BY AskedIsAsked DEF CommitPrices
<1>2. RequestShape(q) /\ PriceRequestTyped(q)
    BY DEF PricingInv, RequestGood, PriceTyped
<1>3. c \in PriceConfig
    BY <1>1, <1>2, AskedPricesTyped
<1>4. ASSUME NEW l \in Licences
      PROVE  mine[l] = IF l \in DOMAIN q.wrote THEN q.wrote[l] ELSE priceRow[l]
    BY DEF Over
<1>5. ASSUME NEW l \in Licences
      PROVE  mine[l] \in Licence \cup {Missing} /\ (priceRow[l] # Missing => mine[l] \in Licence)
    <2>1. priceRow[l] \in Licence \cup {Missing}
        BY DEF PriceTyped
    <2> QED BY <1>2, <1>4, <2>1 DEF PriceRequestTyped
<1>6. \A l \in typed : l \in Licences /\ priceRow[l] # Missing
    BY DEF TypedRows, Present
<1> HIDE DEF mine, typed, c
<1>7. ASSUME NEW l \in Licences
      PROVE  priceRow'[l] \in Licence \cup {Missing}
    <2>1. CASE l \in typed
        <3>1. mine[l] \in Licence
            BY <1>5, <1>6, <2>1
        <3>2. mine[l].kind \in Kinds
            BY <3>1 DEF Licence
        <3>3. CostOf("type", c.types[mine[l].kind]) \in Cost
            BY <1>3, <3>2, TypeCostsTyped
        <3>4. priceRow'[l] = [mine[l] EXCEPT !.cost = CostOf("type", c.types[mine[l].kind])]
            BY <1>1, <2>1
        <3> QED BY <3>1, <3>3, <3>4, RecostedTyped
    <2>2. CASE l \notin typed
        BY <1>1, <1>5, <2>2
    <2> QED BY <2>1, <2>2
<1>8. priceRow' = [l \in Licences |-> priceRow'[l]]
    BY <1>1
<1>9. priceRow' \in [Licences -> Licence \cup {Missing}]
    BY <1>7, <1>8
<1>10. \A s \in PriceRequests : priceReq'[s] \in {priceReq[s], IdlePrices}
    BY <1>1 DEF PricingInv
<1>11. raced' \subseteq Licences
    BY <1>1 DEF PriceTyped
<1> QED BY <1>1, <1>9, <1>10, <1>11, CommittedTyped

LEMMA CommitPartsTyped ==
    ASSUME PricingInv, PriceTyped, NEW r \in PriceRequests, CommitParts(r)
    PROVE  PriceTyped'
<1> DEFINE q == priceReq[r]
<1>1. /\ q.step = "summed"
      /\ priceRow' = [l \in Licences |->
                IF l \in DOMAIN q.asked THEN [priceRow[l] EXCEPT !.cost = q.asked[l]] ELSE priceRow[l]]
      /\ priceReq' = [priceReq EXCEPT ![r] = IdlePrices]
      /\ UNCHANGED <<reported, sync, lost, raced, crossed>>
    BY DEF CommitParts
<1>2. PriceRequestTyped(q) /\ \A l \in DOMAIN q.asked : l \in Licences /\ priceRow[l].kind \in Kinds
    BY <1>1 DEF PricingInv, RequestGood, PriceTyped
<1>3. ASSUME NEW l \in Licences
      PROVE  priceRow'[l] \in Licence \cup {Missing}
    <2>1. priceRow[l] \in Licence \cup {Missing}
        BY DEF PriceTyped
    <2>2. CASE l \in DOMAIN q.asked
        <3>1. priceRow[l] \in Licence /\ q.asked[l] \in Cost
            BY <1>1, <1>2, <2>1, <2>2, LicenceFields DEF PriceRequestTyped
        <3>2. priceRow'[l] = [priceRow[l] EXCEPT !.cost = q.asked[l]]
            BY <1>1, <2>2
        <3> QED BY <3>1, <3>2, RecostedTyped
    <2>3. CASE l \notin DOMAIN q.asked
        BY <1>1, <2>1, <2>3
    <2> QED BY <2>2, <2>3
<1>4. priceRow' = [l \in Licences |-> priceRow'[l]]
    BY <1>1
<1>5. priceRow' \in [Licences -> Licence \cup {Missing}]
    BY <1>3, <1>4
<1>6. \A s \in PriceRequests : priceReq'[s] \in {priceReq[s], IdlePrices}
    BY <1>1 DEF PricingInv
<1>7. raced' \subseteq Licences
    BY <1>1 DEF PriceTyped
<1> QED BY <1>1, <1>5, <1>6, <1>7, CommittedTyped

LEMMA CommitRetypeTyped ==
    ASSUME PricingInv, PriceTyped, NEW r \in PriceRequests, CommitRetype(r)
    PROVE  PriceTyped'
<1> DEFINE c == priceReq[r].read
           q == priceReq[r].asked
           l == q.licence
           new == [q.loaded EXCEPT !.kind = q.kind, !.cost = RetypeCost(c, q.kind)]
           row == Patched(priceRow[l], q.loaded, new)
<1>1. /\ priceReq[r].op = "retype"
      /\ priceRow' = [priceRow EXCEPT ![l] = row]
      /\ raced' = IF priceRow[l] # q.loaded \/ prices # c THEN raced \cup {l} ELSE raced
      /\ priceReq' = [priceReq EXCEPT ![r] = IdlePrices]
      /\ UNCHANGED <<reported, sync, lost, crossed>>
    BY DEF CommitRetype
<1>2. /\ l \in Licences /\ priceRow[l].kind \in Kinds /\ q.kind \in Kinds
      /\ c \in PriceConfig /\ q.loaded \in Licence
    BY <1>1 DEF PricingInv, RequestGood, RequestShape, PriceTyped, PriceRequestTyped
<1>3. RetypeCost(c, q.kind) \in Cost
    BY <1>2, TypeCostsTyped DEF RetypeCost
<1>4. new \in Licence
    BY <1>2, <1>3 DEF Licence
<1>5. priceRow[l] \in Licence \cup {Missing}
    BY <1>2 DEF PriceTyped
<1> HIDE DEF new
<1>6. row \in Licence
    BY <1>2, <1>4, <1>5, PatchedTyped
<1> HIDE DEF row
<1>7. priceRow' \in [Licences -> Licence \cup {Missing}]
    BY <1>1, <1>2, <1>6 DEF PriceTyped
<1>8. \A s \in PriceRequests : priceReq'[s] \in {priceReq[s], IdlePrices}
    BY <1>1 DEF PricingInv
<1>9. raced' \subseteq Licences
    BY <1>1, <1>2 DEF PriceTyped
<1> QED BY <1>1, <1>7, <1>8, <1>9, CommittedTyped

LEMMA AbortOrReplaceTyped ==
    ASSUME PricingInv, PriceTyped,
           ReplaceConfig \/ \E r \in PriceRequests : AbortPrices(r)
    PROVE  PriceTyped'
<1>1. CASE ReplaceConfig
    BY <1>1 DEF ReplaceConfig, PriceTyped
<1>2. ASSUME NEW r \in PriceRequests, AbortPrices(r)
      PROVE  PriceTyped'
    <2>1. /\ priceReq' = [priceReq EXCEPT ![r] = IdlePrices]
          /\ UNCHANGED <<reported, priceRow, sync, lost, raced, crossed>>
        BY <1>2 DEF AbortPrices
    <2>2. \A s \in PriceRequests : priceReq'[s] \in {priceReq[s], IdlePrices}
        BY <2>1 DEF PricingInv
    <2> QED BY <2>1, <2>2, CommittedTyped DEF PriceTyped
<1> QED BY <1>1, <1>2

\* The synchronisation moves on, and may commit.
LEMMA SyncStepTyped ==
    ASSUME PriceTyped, UNCHANGED <<reported, priceReq, lost>>,
           priceRow' \in [Licences -> Licence \cup {Missing}], PriceSyncTyped(sync'),
           raced' \subseteq Licences, crossed' \subseteq Licences
    PROVE  PriceTyped'
<1> QED BY DEF PriceTyped

LEMMA LoadsTyped ==
    ASSUME PricingInv, PriceTyped, BeginSync \/ AbortSync \/ \E l \in Licences : LoadLicence(l)
    PROVE  PriceTyped'
<1>1. /\ priceRow \in [Licences -> Licence \cup {Missing}] /\ PriceSyncTyped(sync)
      /\ raced \subseteq Licences /\ crossed \subseteq Licences
      /\ prices \in PriceConfig /\ DOMAIN sync = SyncFields
    BY DEF PriceTyped, PricingInv, ConfigGood, SyncGood
<1>2. CASE BeginSync
    <2>1. /\ sync' = [IdleSync EXCEPT !.on = TRUE, !.read = prices]
          /\ UNCHANGED <<reported, priceRow, priceReq, lost, raced, crossed>>
        BY <1>2 DEF BeginSync
    <2>2. /\ sync'.read = prices /\ sync'.done = {} /\ DOMAIN sync'.at = {} /\ DOMAIN sync'.wrote = {}
        BY <2>1 DEF IdleSync
    <2>3. PriceSyncTyped(sync')
        BY <1>1, <2>2 DEF PriceSyncTyped
    <2> QED BY <1>1, <2>1, <2>3, SyncStepTyped
<1>3. CASE AbortSync
    <2>1. sync' = IdleSync /\ UNCHANGED <<reported, priceRow, priceReq, lost, raced, crossed>>
        BY <1>3 DEF AbortSync
    <2>2. PriceSyncTyped(sync')
        BY <2>1, EmptyConfigTyped DEF IdleSync, PriceSyncTyped
    <2> QED BY <1>1, <2>1, <2>2, SyncStepTyped
<1>4. ASSUME NEW l \in Licences, LoadLicence(l)
      PROVE  PriceTyped'
    <2> DEFINE at == [x \in {l} |-> priceRow[x]]
    <2>1. /\ sync' = [sync EXCEPT !.at = at]
          /\ UNCHANGED <<reported, priceRow, priceReq, lost, raced, crossed>>
        BY <1>4 DEF LoadLicence
    <2>2. DOMAIN at = {l} /\ at[l] \in Licence \cup {Missing}
        BY <1>1
    <2> HIDE DEF at
    <2>3. /\ sync'.read = sync.read /\ sync'.done = sync.done
          /\ sync'.at = at /\ sync'.wrote = sync.wrote
        BY <1>1, <2>1 DEF SyncFields
    <2>4. PriceSyncTyped(sync')
        BY <1>1, <2>2, <2>3 DEF PriceSyncTyped
    <2> QED BY <1>1, <2>1, <2>4, SyncStepTyped
<1> QED BY <1>2, <1>3, <1>4

LEMMA WriteLicenceTyped ==
    ASSUME PricingInv, PriceTyped, NEW l \in Licences, NEW a \in Answers, WriteLicence(l, a)
    PROVE  PriceTyped'
<1> DEFINE new == [kind |-> a.kind, active |-> a.active, cost |-> SyncCost(sync.read, a)]
           row == Patched(priceRow[l], sync.at[l], new)
           wrote == [x \in DOMAIN sync.wrote \cup {l} |-> IF x = l THEN row ELSE sync.wrote[x]]
<1>1. /\ l \in DOMAIN sync.at
      /\ sync' = [sync EXCEPT !.at = <<>>, !.done = @ \cup {l}, !.wrote = wrote]
      /\ raced' = IF priceRow[l] # sync.at[l] THEN raced \cup {l} ELSE raced
      /\ UNCHANGED <<reported, priceRow, priceReq, lost, crossed>>
    BY DEF WriteLicence
<1>2. /\ priceRow \in [Licences -> Licence \cup {Missing}] /\ PriceSyncTyped(sync)
      /\ raced \subseteq Licences /\ crossed \subseteq Licences /\ DOMAIN sync = SyncFields
    BY DEF PriceTyped, PricingInv, SyncGood
<1>3. /\ priceRow[l] \in Licence \cup {Missing} /\ sync.at[l] \in Licence \cup {Missing}
      /\ sync.at[l].kind \in Kinds => priceRow[l].kind \in Kinds
    BY <1>1, <1>2 DEF PriceSyncTyped, PricingInv, SyncGood
<1>4. SyncCost(sync.read, a) \in Cost
    BY <1>2, SyncCostsTyped DEF PriceSyncTyped
<1>5. new \in Licence
    <2>1. a.kind \in Kinds /\ a.active \in BOOLEAN
        BY PricingAssumptions
    <2> QED BY <1>4, <2>1 DEF Licence
<1> HIDE DEF new
<1>6. row \in Licence
    BY <1>3, <1>5, PatchedTyped
<1> HIDE DEF row
<1>7. /\ DOMAIN wrote = DOMAIN sync.wrote \cup {l} /\ wrote[l] = row
      /\ \A x \in DOMAIN sync.wrote \ {l} : wrote[x] = sync.wrote[x]
    OBVIOUS
<1> HIDE DEF wrote
<1>8. /\ sync'.read = sync.read /\ sync'.done = sync.done \cup {l}
      /\ DOMAIN sync'.at = {} /\ sync'.wrote = wrote
    BY <1>1, <1>2 DEF SyncFields
<1>9. \A x \in DOMAIN wrote : wrote[x] \in Licence
    BY <1>2, <1>6, <1>7 DEF PriceSyncTyped
<1>10. PriceSyncTyped(sync')
    BY <1>2, <1>8, <1>9 DEF PriceSyncTyped
<1>11. raced' \subseteq Licences
    BY <1>1, <1>2
<1> QED BY <1>1, <1>2, <1>10, <1>11, SyncStepTyped

LEMMA CommitSyncTyped ==
    ASSUME PricingInv, PriceTyped, CommitSync
    PROVE  PriceTyped'
<1>1. /\ priceRow' = Over(priceRow, sync.wrote)
      /\ crossed' = crossed \cup
             IF \E r \in PriceRequests : priceReq[r].step = "spread" THEN DOMAIN sync.wrote ELSE {}
      /\ sync' = IdleSync
      /\ UNCHANGED <<reported, priceReq, lost, raced>>
    BY DEF CommitSync
<1>2. priceRow' \in [Licences -> Licence \cup {Missing}]
    BY <1>1 DEF Over, PriceTyped, PriceSyncTyped
<1>3. PriceSyncTyped(sync')
    BY <1>1, EmptyConfigTyped DEF IdleSync, PriceSyncTyped
<1>4. raced' \subseteq Licences /\ crossed' \subseteq Licences
    BY <1>1 DEF PriceTyped, PricingInv, SyncGood
<1> QED BY <1>1, <1>2, <1>3, <1>4, SyncStepTyped

LEMMA PriceTypedStep == PricingInv /\ PriceTyped /\ [PricingNext]_pricingVars => PriceTyped'
<1> SUFFICES ASSUME PricingInv, PriceTyped, [PricingNext]_pricingVars
             PROVE  PriceTyped'
    OBVIOUS
<1>1. CASE UNCHANGED pricingVars
    BY <1>1 DEF pricingVars, PriceTyped
<1>2. ASSUME NEW n \in Seats, Resize(n)
      PROVE  PriceTyped'
    BY <1>2 DEF Resize, PriceTyped
<1>3. CASE PricingNext
    BY <1>2, <1>3, BeginPriceTyped, PackagePricesTyped, StorePricesTyped, CommitPricesTyped,
       ReadPartsTyped, CommitPartsTyped, CommitRetypeTyped, AbortOrReplaceTyped,
       LoadsTyped, CommitSyncTyped, WriteLicenceTyped DEF PricingNext
<1> QED BY <1>1, <1>3

(* The config, the rows and what is written are always well formed: the    *)
(* sums over the parts of a combined type are numbers, and a row patched   *)
(* with some of its columns is still a licence with all of them.           *)
THEOREM PricingTypes == PricingSpec => []PricingTypeOK
<1>1. PricingInv /\ PriceTyped => PricingTypeOK
    <2> SUFFICES ASSUME PricingInv, PriceTyped
                 PROVE  PricingTypeOK
        OBVIOUS
    <2>1. \A r \in PriceRequests :
              /\ priceReq[r].op \in {"none", "prices", "parts", "retype"}
              /\ priceReq[r].read \in PriceConfig
              /\ DOMAIN priceReq[r].wrote \subseteq Licences
        BY DEF PricingInv, RequestGood, RequestShape, Spreading
    <2> QED BY <2>1 DEF PricingInv, PriceTyped, ConfigGood, PriceSyncTyped, PricingTypeOK
<1>2. PricingSpec => []PriceTyped
    BY PriceTypedInit, PriceTypedStep, PricingInvariant, PTL DEF PricingSpec
<1> QED BY <1>1, <1>2, PricingInvariant, PTL

-----------------------------------------------------------------------------

LicenceRecord ==
    [active: BOOLEAN, employee: Staff \cup {NoOne}, service: BOOLEAN,
     candidate: Staff \cup {NoOne},
     match: {"none", "suggested", "external_review", "reviewed", "external_guest"}]

\* Only addresses outside are marked for review.
ReviewsForeign ==
    \A m \in LicenceRows : held[m].match = "external_review" => IsForeign(m)

\* A candidate is always one of a suggestion (which may have lost its candidate).
CandidatesSuggested == \A m \in LicenceRows : HasSuggestion(m) => held[m].match = "suggested"

\* What a row may hold.
RowSound(m, licence) ==
    /\ licence.match = "external_review" => IsForeign(m)
    /\ licence.candidate # NoOne => licence.match = "suggested"

FiguresInv ==
    /\ held \in [Memberships -> {NoLicence} \cup LicenceRecord]
    /\ accounts \subseteq Memberships /\ LicenceRows \subseteq accounts
    /\ left \subseteq Staff /\ domains \in BOOLEAN /\ enabled \subseteq DOMAIN SeatsCost
    /\ ReviewsForeign /\ CandidatesSuggested

LEMMA FiguresInitHolds == FiguresInit => FiguresInv
<1> QED BY DEF FiguresInit, FiguresInv, LicenceRows, ReviewsForeign, CandidatesSuggested

\* Writing one row.
LEMMA PutKeeps ==
    ASSUME FiguresInv, NEW m \in accounts, NEW licence \in {NoLicence} \cup LicenceRecord,
           licence # NoLicence => RowSound(m, licence), Put(m, licence)
    PROVE  FiguresInv'
<1>1. /\ held' = [held EXCEPT ![m] = licence] /\ UNCHANGED <<accounts, left, domains, enabled>>
      /\ m \in Memberships
    BY DEF Put, FiguresInv
<1>2. held' \in [Memberships -> {NoLicence} \cup LicenceRecord] /\ held'[m] = licence
      /\ \A x \in Memberships \ {m} : held'[x] = held[x]
    BY <1>1 DEF FiguresInv
<1>3. LicenceRows' \subseteq accounts'
    BY <1>1, <1>2 DEF FiguresInv, LicenceRows
<1>4. ReviewsForeign'
    BY <1>1, <1>2 DEF FiguresInv, ReviewsForeign, LicenceRows, IsForeign, RowSound
<1>5. CandidatesSuggested'
    BY <1>1, <1>2 DEF FiguresInv, CandidatesSuggested, LicenceRows, HasSuggestion, RowSound
<1> QED BY <1>1, <1>2, <1>3, <1>4, <1>5 DEF FiguresInv

LEMMA FigureRowsTyped ==
    ASSUME FiguresInv
    PROVE  \A m \in LicenceRows :
              m \in Memberships /\ held[m] \in LicenceRecord /\ RowSound(m, held[m])
<1> QED BY DEF FiguresInv, LicenceRows, ReviewsForeign, CandidatesSuggested, RowSound, HasSuggestion

LEMMA SyncKeeps ==
    ASSUME FiguresInv, NEW m \in accounts, Sync(m)
    PROVE  FiguresInv'
<1> DEFINE old == IF held[m] = NoLicence THEN NewLicence ELSE held[m]
<1>1. old \in LicenceRecord
      /\ RowSound(m, old)
    <2>1. NewLicence \in LicenceRecord /\ RowSound(m, NewLicence)
        BY DEF NewLicence, LicenceRecord, RowSound
    <2>2. held[m] # NoLicence => m \in LicenceRows
        BY DEF FiguresInv, LicenceRows
    <2> QED BY <2>1, <2>2, FigureRowsTyped
<1>2. PICK active \in BOOLEAN :
         \/ Put(m, SyncedService(old, active))
         \/ \E found \in Findings(m) : Put(m, Synced(old, active, found))
    BY DEF Sync
<1> HIDE DEF old
<1>3. SyncedService(old, active) \in LicenceRecord
      /\ RowSound(m, SyncedService(old, active))
    BY DEF SyncedService, LicenceRecord, RowSound
<1>4. ASSUME NEW found \in Findings(m), Put(m, Synced(old, active, found))
      PROVE  FiguresInv'
    <2>1. /\ found.employee \in Staff \cup {NoOne} /\ found.candidate \in Staff \cup {NoOne}
          /\ found.match \in {"none", "suggested", "external_review"}
          /\ RowSound(m, found)
        BY DEF RowSound, Findings, Match, CheckExternal
    <2> DEFINE candidate == IF Better(old, found) THEN found.candidate ELSE old.candidate
               match == IF Better(old, found) THEN found.match ELSE old.match
    <2>2. /\ match \in {"none", "suggested", "external_review", "reviewed", "external_guest"}
          /\ match = "external_review" => IsForeign(m)
          /\ candidate # NoOne => match = "suggested"
          /\ candidate \in Staff \cup {NoOne} /\ old.service \in BOOLEAN
        BY <1>1, <2>1 DEF LicenceRecord, RowSound
    <2>3. Synced(old, active, found) =
              [active |-> active, employee |-> found.employee, service |-> old.service,
               candidate |-> candidate, match |-> match]
        BY DEF Synced
    <2> HIDE DEF candidate, match
    <2>4. Synced(old, active, found) \in LicenceRecord
          /\ RowSound(m, Synced(old, active, found))
        BY <2>1, <2>2, <2>3 DEF LicenceRecord, RowSound
    <2> QED BY <1>4, <2>2, <2>4, PutKeeps
<1> QED BY <1>2, <1>3, <1>4, PutKeeps

LEMMA ReviewKeeps ==
    ASSUME FiguresInv, NEW m \in accounts, Review(m)
    PROVE  FiguresInv'
<1>1. m \in LicenceRows /\ held[m] \in LicenceRecord /\ held[m].candidate \in Staff \cup {NoOne}
    BY FigureRowsTyped DEF Review, LicenceRecord
<1>2. ASSUME NEW e \in Staff \cup {NoOne}, NEW status \in {"reviewed", "external_guest"},
             Put(m, [held[m] EXCEPT !.employee = e, !.candidate = NoOne, !.match = status])
      PROVE  FiguresInv'
    <2> DEFINE new == [held[m] EXCEPT !.employee = e, !.candidate = NoOne, !.match = status]
    <2>1. new \in LicenceRecord /\ RowSound(m, new)
        BY <1>1 DEF LicenceRecord, RowSound
    <2> QED BY <1>2, <2>1, PutKeeps
<1>3. ASSUME Put(m, [held[m] EXCEPT !.candidate = NoOne, !.match = "reviewed"])
      PROVE  FiguresInv'
    <2> DEFINE new == [held[m] EXCEPT !.candidate = NoOne, !.match = "reviewed"]
    <2>1. new \in LicenceRecord /\ RowSound(m, new)
        BY <1>1 DEF LicenceRecord, RowSound
    <2> QED BY <1>3, <2>1, PutKeeps
<1> QED BY <1>1, <1>2, <1>3 DEF Review

LEMMA EditKeeps ==
    ASSUME FiguresInv, NEW m \in accounts, Edit(m)
    PROVE  FiguresInv'
<1>1. m \in LicenceRows /\ held[m] \in LicenceRecord
      /\ RowSound(m, held[m])
    BY FigureRowsTyped DEF Edit
<1>2. ASSUME NEW new, new \in LicenceRecord, new.match = held[m].match,
             new.candidate = held[m].candidate, Put(m, new)
      PROVE  FiguresInv'
    <2>1. RowSound(m, new)
        BY <1>1, <1>2 DEF RowSound
    <2> QED BY <1>2, <2>1, PutKeeps
<1>3. ASSUME NEW e \in Staff \cup {NoOne}
      PROVE  [held[m] EXCEPT !.employee = e] \in LicenceRecord
             /\ [held[m] EXCEPT !.employee = e].match = held[m].match
             /\ [held[m] EXCEPT !.employee = e].candidate = held[m].candidate
    BY <1>1 DEF LicenceRecord
<1>4. /\ [held[m] EXCEPT !.service = TRUE, !.employee = NoOne] \in LicenceRecord
      /\ [held[m] EXCEPT !.service = TRUE, !.employee = NoOne].match = held[m].match
      /\ [held[m] EXCEPT !.service = TRUE, !.employee = NoOne].candidate = held[m].candidate
      /\ [held[m] EXCEPT !.service = FALSE] \in LicenceRecord
      /\ [held[m] EXCEPT !.service = FALSE].match = held[m].match
      /\ [held[m] EXCEPT !.service = FALSE].candidate = held[m].candidate
      /\ [held[m] EXCEPT !.active = FALSE] \in LicenceRecord
      /\ [held[m] EXCEPT !.active = FALSE].match = held[m].match
      /\ [held[m] EXCEPT !.active = FALSE].candidate = held[m].candidate
    BY <1>1 DEF LicenceRecord
<1>5. ASSUME Put(m, NoLicence)
      PROVE  FiguresInv'
    BY <1>5, PutKeeps
<1> QED BY <1>2, <1>3, <1>4, <1>5 DEF Edit

LEMMA DeletionKeeps ==
    ASSUME FiguresInv, NEW e \in Staff, DeleteStaff(e)
    PROVE  FiguresInv'
<1>1. /\ held' = [m \in Memberships |->
                     IF m \in LicenceRows THEN Without(held[m], e) ELSE NoLicence]
      /\ left' = left \ {e} /\ UNCHANGED <<accounts, domains, enabled>>
    BY DEF DeleteStaff
<1>2. ASSUME NEW m \in LicenceRows
      PROVE  /\ m \in Memberships /\ Without(held[m], e) \in LicenceRecord
             /\ RowSound(m, Without(held[m], e))
    BY FigureRowsTyped DEF Without, LicenceRecord, RowSound
<1>3. held' \in [Memberships -> {NoLicence} \cup LicenceRecord]
    BY <1>1, <1>2
<1>4. \A m \in Memberships : /\ m \in LicenceRows' => m \in LicenceRows
                             /\ m \in LicenceRows' => RowSound(m, held'[m])
    BY <1>1, <1>2 DEF LicenceRows
<1>5. LicenceRows' \subseteq Memberships
    BY DEF LicenceRows
<1>6. ReviewsForeign' /\ CandidatesSuggested'
    BY <1>4, <1>5 DEF ReviewsForeign, CandidatesSuggested, HasSuggestion, IsForeign, RowSound
<1> QED BY <1>1, <1>3, <1>4, <1>5, <1>6 DEF FiguresInv

LEMMA FiguresStep == FiguresInv /\ [FiguresNext]_figureVars => FiguresInv'
<1> SUFFICES ASSUME FiguresInv, [FiguresNext]_figureVars
             PROVE  FiguresInv'
    OBVIOUS
<1>1. CASE UNCHANGED figureVars
    BY <1>1 DEF figureVars, FiguresInv, LicenceRows, ReviewsForeign, CandidatesSuggested,
       HasSuggestion
<1>2. ASSUME NEW e \in Staff, Offboard(e)
      PROVE  FiguresInv'
    BY <1>2 DEF Offboard, FiguresInv, LicenceRows, ReviewsForeign, CandidatesSuggested,
       HasSuggestion
<1>3. ASSUME Configure
      PROVE  FiguresInv'
    BY <1>3 DEF Configure, FiguresInv, LicenceRows, ReviewsForeign, CandidatesSuggested,
       HasSuggestion
<1>5. ASSUME NEW p \in DOMAIN SeatsCost, Switch(p)
      PROVE  FiguresInv'
    BY <1>5 DEF Switch, FiguresInv, LicenceRows, ReviewsForeign, CandidatesSuggested,
       HasSuggestion
<1>4. CASE FiguresNext
    BY <1>2, <1>3, <1>4, <1>5, SyncKeeps, ReviewKeeps, EditKeeps, DeletionKeeps DEF FiguresNext
<1> QED BY <1>1, <1>4

LEMMA FiguresInvariant == FiguresSpec => []FiguresInv
<1> QED BY FiguresInitHolds, FiguresStep, PTL DEF FiguresSpec

\* The rows, the employees who left and the configuration are well formed (LicenseORM).
THEOREM FigureTypes == FiguresSpec => []FiguresTypeOK
<1>1. FiguresInv => FiguresTypeOK
    BY DEF FiguresInv, FiguresTypeOK, LicenceRecord
<1> QED BY <1>1, FiguresInvariant, PTL

-----------------------------------------------------------------------------
(* The two lists. *)

LEMMA ListsMeet == FiguresInv => ListsAgree
<1> SUFFICES ASSUME FiguresInv, domains, NEW p
             PROVE  LET stats == StatsOf(p)
                        shown(h) == {m \in UnderHeading(h) \cap Active : m.provider = p}
                        marked == {m \in Active :
                                      /\ Assigned(m)
                                      /\ \/ HasSuggestion(m)
                                         \/ held[m].match \in {"external_review", "external_guest"}}
                        guestKeys == {m \in shown("external_guest") : ~IsMail(m)}
                    IN  /\ stats.not_in_hris = shown("not_in_hris")
                        /\ shown("assigned") = {m \in stats.assigned : ~held[m].service} \ marked
                        /\ stats.external =
                               (shown("external_review") \cup shown("external_guest"))
                                   \ (marked \cup guestKeys)
                        /\ stats.unassigned = shown("unassigned") \cup (guestKeys \ marked)
    BY DEF ListsAgree
<1> DEFINE In(m) == m.provider = p
           shown(h) == {m \in UnderHeading(h) \cap Active : m.provider = p}
           marked == {m \in Active :
                         /\ Assigned(m)
                         /\ \/ HasSuggestion(m)
                            \/ held[m].match \in {"external_review", "external_guest"}}
           guestKeys == {m \in shown("external_guest") : ~IsMail(m)}
<1>1. \A m \in Active : /\ m \in LicenceRows /\ held[m] \in LicenceRecord
                        /\ held[m].match = "external_review" => IsForeign(m)
                        /\ HasSuggestion(m) => held[m].match = "suggested"
                        /\ IsForeign(m) => IsMail(m)
    BY FigureRowsTyped DEF Active, RowSound, HasSuggestion, IsForeign, IsMail
<1>2. ASSUME NEW m \in Active
      PROVE  /\ ListOf(m) = "assigned" <=>
                   /\ ~held[m].service /\ Assigned(m) /\ ~HasSuggestion(m)
                   /\ held[m].match \notin {"external_guest", "external_review"}
             /\ ListOf(m) = "not_in_hris" <=>
                   /\ ~held[m].service /\ ~Assigned(m) /\ IsMail(m) /\ ~IsForeign(m)
                   /\ ~HasSuggestion(m)
                   /\ held[m].match \notin {"external_guest", "external_review"}
             /\ ListOf(m) = "unassigned" <=>
                   /\ ~held[m].service /\ ~Assigned(m) /\ ~IsMail(m) /\ ~HasSuggestion(m)
                   /\ held[m].match \notin {"external_guest", "external_review"}
             /\ ListOf(m) = "external_guest" <=> ~held[m].service /\ held[m].match = "external_guest"
             /\ ListOf(m) = "external_review" <=>
                   /\ ~held[m].service /\ held[m].match # "external_guest" /\ ~HasSuggestion(m)
                   /\ held[m].match = "external_review" \/ (IsForeign(m) /\ ~Assigned(m))
    BY <1>1 DEF ListOf, CheckExternal
<1>3. ASSUME NEW m \in Active
      PROVE  /\ Column(m) = "unassigned" <=> ~IsMail(m)
             /\ Column(m) = "external" <=>
                   IsMail(m) /\ (held[m].match \in {"external_review", "external_guest"} \/ IsForeign(m))
             /\ Column(m) = "not_in_hris" <=>
                   /\ IsMail(m) /\ ~IsForeign(m)
                   /\ held[m].match \notin {"external_review", "external_guest"}
    BY DEF Column
<1>4. \A h : shown(h) = {m \in Active : ListOf(m) = h /\ m.provider = p}
    BY DEF UnderHeading, Active
<1>5. /\ StatsOf(p).not_in_hris = {m \in Active : m \in Unclaimed /\ m.provider = p /\ Column(m) = "not_in_hris"}
      /\ StatsOf(p).external = {m \in Active : m \in Unclaimed /\ m.provider = p /\ Column(m) = "external"}
      /\ StatsOf(p).unassigned = {m \in Active : m \in Unclaimed /\ m.provider = p /\ Column(m) = "unassigned"}
      /\ StatsOf(p).assigned = {m \in Active : m.provider = p /\ Assigned(m)}
    BY DEF StatsOf, Unclaimed
<1>6. \A m \in Active : m \in Unclaimed <=> ~Assigned(m) /\ ~held[m].service /\ ~HasSuggestion(m)
    BY DEF Unclaimed
<1>7. ASSUME NEW m \in Active
      PROVE  m \in marked <=> /\ Assigned(m)
                             /\ \/ HasSuggestion(m)
                                \/ held[m].match \in {"external_review", "external_guest"}
    OBVIOUS
<1>8. \A m \in Active : m \in guestKeys <=>
          m.provider = p /\ ListOf(m) = "external_guest" /\ ~IsMail(m)
    BY <1>4
<1>9. /\ \A h : \A m \in Active : m \in shown(h) <=> ListOf(m) = h /\ m.provider = p
      /\ \A h : shown(h) \subseteq Active
      /\ marked \subseteq Active /\ guestKeys \subseteq Active
    BY <1>4
<1> HIDE DEF shown, marked, guestKeys
<1>10. StatsOf(p).not_in_hris = shown("not_in_hris")
    <2>1. \A m \in Active : m \in Unclaimed /\ Column(m) = "not_in_hris" <=> ListOf(m) = "not_in_hris"
        BY <1>2, <1>3, <1>6
    <2> QED BY <1>5, <1>9, <2>1
<1>11. shown("assigned") = {m \in StatsOf(p).assigned : ~held[m].service} \ marked
    <2>1. \A m \in Active : ListOf(m) = "assigned" <=> Assigned(m) /\ ~held[m].service /\ m \notin marked
        BY <1>2, <1>7
    <2> QED BY <1>5, <1>9, <2>1
<1>12. StatsOf(p).external = (shown("external_review") \cup shown("external_guest"))
                                  \ (marked \cup guestKeys)
    <2>1. ASSUME NEW m \in Active, m.provider = p
          PROVE  m \in Unclaimed /\ Column(m) = "external" <=>
                     /\ ListOf(m) \in {"external_review", "external_guest"}
                     /\ m \notin marked /\ m \notin guestKeys
        BY <1>1, <1>2, <1>3, <1>6, <1>7, <1>8, <2>1
    <2> DEFINE L == StatsOf(p).external
               R == (shown("external_review") \cup shown("external_guest")) \ (marked \cup guestKeys)
    <2>2. ASSUME NEW m \in L
          PROVE  m \in R
        BY <1>5, <1>9, <2>1, <2>2
    <2>3. ASSUME NEW m \in R
          PROVE  m \in L
        <3>1. m \in Active /\ m.provider = p /\ ListOf(m) \in {"external_review", "external_guest"}
              /\ m \notin marked /\ m \notin guestKeys
            BY <1>9, <2>3
        <3> QED BY <1>5, <2>1, <3>1
    <2> QED BY <2>2, <2>3
<1>13. StatsOf(p).unassigned = shown("unassigned") \cup (guestKeys \ marked)
    <2>1. ASSUME NEW m \in Active, m.provider = p
          PROVE  m \in Unclaimed /\ Column(m) = "unassigned" <=>
                     ListOf(m) = "unassigned" \/ (m \in guestKeys /\ m \notin marked)
        BY <1>1, <1>2, <1>3, <1>6, <1>7, <1>8, <2>1
    <2> DEFINE L == StatsOf(p).unassigned
               R == shown("unassigned") \cup (guestKeys \ marked)
    <2>2. ASSUME NEW m \in L
          PROVE  m \in R
        <3>1. m \in Active /\ m.provider = p /\ m \in Unclaimed /\ Column(m) = "unassigned"
            BY <1>5, <2>2
        <3> QED BY <1>9, <2>1, <3>1
    <2>3. ASSUME NEW m \in R
          PROVE  m \in L
        <3>1. m \in Active /\ m.provider = p
              /\ (ListOf(m) = "unassigned" \/ (m \in guestKeys /\ m \notin marked))
            BY <1>8, <1>9, <2>3
        <3> QED BY <1>5, <2>1, <3>1
    <2> QED BY <2>2, <2>3
<1> QED BY <1>10, <1>11, <1>12, <1>13 DEF shown, marked, guestKeys

-----------------------------------------------------------------------------
(* The costs. *)

CostOfAccounts == [m \in Memberships |-> m.cost]

LEMMA MemberCostsTyped == \A m \in Memberships : CostOfAccounts[m] = m.cost /\ CostOfAccounts[m] \in Nat
<1> QED BY FiguresAssumptions DEF CostOfAccounts

LEMMA SumOfAccounts ==
    ASSUME NEW S \in SUBSET Memberships
    PROVE  /\ IsFiniteSet(S)
           /\ SumOfCosts(S) = SumFunctionOnSet(CostOfAccounts, S)
           /\ SumOfCosts(S) \in Nat
<1>1. IsFiniteSet(S)
    BY FiguresAssumptions, FS_Subset
<1> DEFINE f == [m \in S |-> m.cost]
<1>2. \A m \in S : f[m] = CostOfAccounts[m]
    BY MemberCostsTyped
<1>3. SumOfCosts(S) = SumFunctionOnSet(f, S)
    BY DEF SumOfCosts, SumFunction
<1> HIDE DEF f
<1>4. SumFunctionOnSet(f, S) = SumFunctionOnSet(CostOfAccounts, S)
    BY <1>1, <1>2, SumSame
<1>5. SumFunctionOnSet(CostOfAccounts, S) \in Nat
    <2>1. \A m \in S : CostOfAccounts[m] \in Int /\ CostOfAccounts[m] \in Nat
        BY MemberCostsTyped
    <2> QED BY <1>1, <2>1, SumTyped
<1> QED BY <1>1, <1>3, <1>4, <1>5

LEMMA AccountsApart ==
    ASSUME NEW S \in SUBSET Memberships, NEW T \in SUBSET S
    PROVE  SumOfCosts(S) = SumOfCosts(T) + SumOfCosts(S \ T)
<1>1. /\ T \in SUBSET Memberships /\ S \ T \in SUBSET Memberships /\ T \cup (S \ T) = S
      /\ T \cap (S \ T) = {}
    OBVIOUS
<1>2. \A m \in T \cup (S \ T) : CostOfAccounts[m] \in Int
    BY MemberCostsTyped
<1>3. SumFunctionOnSet(CostOfAccounts, T \cup (S \ T)) =
          SumFunctionOnSet(CostOfAccounts, T) + SumFunctionOnSet(CostOfAccounts, S \ T)
    BY <1>1, <1>2, SumOfAccounts, SumDisjoint
<1> QED BY <1>1, <1>3, SumOfAccounts

\* Figures by groups, of accounts S by a key, add up to the figure of all.
LEMMA GroupsAddUp ==
    ASSUME NEW S \in SUBSET Memberships, NEW key, NEW K, IsFiniteSet(K), \A m \in S : key[m] \in K,
           NEW costs, costs = [k \in K |-> SumOfCosts({m \in S : key[m] = k})]
    PROVE  TotalOf(costs) = SumOfCosts(S)
<1> DEFINE G == [k \in K |-> SumFunctionOnSet(CostOfAccounts, {m \in S : key[m] = k})]
<1>1. costs = G
    <2>1. \A k \in K : SumOfCosts({m \in S : key[m] = k}) =
                           SumFunctionOnSet(CostOfAccounts, {m \in S : key[m] = k})
        BY SumOfAccounts
    <2> QED BY <2>1
<1>2. TotalOf(costs) = SumFunctionOnSet(G, K)
    <2>1. DOMAIN G = K
        OBVIOUS
    <2> HIDE DEF G
    <2> QED BY <1>1, <2>1 DEF TotalOf, SumFunction
<1>3. SumFunctionOnSet(G, K) = SumFunctionOnSet(CostOfAccounts, S)
    <2>1. IsFiniteSet(S) /\ \A m \in S : CostOfAccounts[m] \in Int
        BY SumOfAccounts, MemberCostsTyped
    <2> QED BY <2>1, SumByGroups
<1> QED BY <1>2, <1>3, SumOfAccounts

\* The values of a function on a finite set.
LEMMA FiniteImage ==
    ASSUME NEW S, IsFiniteSet(S), NEW f
    PROVE  IsFiniteSet({f[x] : x \in S})
<1> DEFINE g == [x \in S |-> f[x]]
<1>1. g \in Surjection(S, {f[x] : x \in S})
    BY DEF Surjection
<1> QED BY <1>1, FS_Surjection

\* The cost of each enabled provider is that of its licences, and the package's where that
\* is 0.
LEMMA UtilizationAddsUp ==
    ASSUME FiguresInv, Active \in SUBSET Memberships
    PROVE  TotalOf([p \in enabled |-> Utilization[p].cost])
             + SumOfCosts({m \in Active : m.provider \notin enabled})
           = SumOfCosts(Active)
             + TotalOf([p \in enabled |-> IF Unpriced(p) THEN SeatsCost[p] ELSE 0])
<1> DEFINE listed == {m \in Active : m.provider \in enabled}
           unlisted == {m \in Active : m.provider \notin enabled}
           provider == [m \in Memberships |-> m.provider]
           own == [p \in enabled |-> SumOfCosts({m \in listed : provider[m] = p})]
           packages == [p \in enabled |-> IF Unpriced(p) THEN SeatsCost[p] ELSE 0]
           costs == [p \in enabled |-> Utilization[p].cost]
<1>1. /\ enabled \subseteq DOMAIN SeatsCost /\ IsFiniteSet(enabled)
      /\ \A p \in enabled : SeatsCost[p] \in Nat
    <2>1. enabled \subseteq DOMAIN SeatsCost
        BY DEF FiguresInv
    <2>2. IsFiniteSet(DOMAIN SeatsCost) /\ \A p \in DOMAIN SeatsCost : SeatsCost[p] \in Nat
        BY FiguresAssumptions
    <2> QED BY <2>1, <2>2, FS_Subset
<1>2. /\ listed \in SUBSET Active /\ listed \in SUBSET Memberships /\ unlisted = Active \ listed
      /\ \A m \in listed : provider[m] \in enabled
      /\ \A p \in enabled : {m \in listed : provider[m] = p} = OwnActive(p)
    BY DEF OwnActive
<1>3. \A p \in enabled : /\ own[p] = SumOfCosts(OwnActive(p)) /\ own[p] \in Nat
                         /\ DOMAIN own = enabled
    <2>1. \A p \in enabled : own[p] = SumOfCosts(OwnActive(p)) /\ OwnActive(p) \in SUBSET Memberships
        BY <1>2 DEF OwnActive
    <2> QED BY <2>1, SumOfAccounts
<1>4. TotalOf(own) = SumOfCosts(listed)
    <2>1. own = [p \in enabled |-> SumOfCosts({m \in listed : provider[m] = p})]
        OBVIOUS
    <2>2. listed \in SUBSET Memberships /\ \A m \in listed : provider[m] \in enabled
        BY <1>2
    <2> HIDE DEF own, listed, provider
    <2> QED BY <1>1, <2>1, <2>2, GroupsAddUp
<1>5. SumOfCosts(Active) = SumOfCosts(listed) + SumOfCosts(unlisted)
    BY <1>2, AccountsApart
<1>6. \A p \in enabled : costs[p] = IF Unpriced(p) THEN SeatsCost[p] ELSE SumOfCosts(OwnActive(p))
    BY DEF Utilization
<1>7. DOMAIN own = enabled /\ DOMAIN packages = enabled /\ DOMAIN costs = enabled
    OBVIOUS
<1>8. \A p \in enabled : packages[p] = IF Unpriced(p) THEN SeatsCost[p] ELSE 0
    OBVIOUS
<1>9. unlisted \in SUBSET Memberships
    BY <1>2
<1> HIDE DEF listed, unlisted, provider, own, packages, costs
<1>10. \A p \in enabled : packages[p] \in Int /\ own[p] \in Int /\ costs[p] = own[p] + packages[p]
    BY <1>1, <1>3, <1>6, <1>8 DEF Unpriced
<1>11. SumFunctionOnSet(costs, enabled) =
           SumFunctionOnSet(own, enabled) + SumFunctionOnSet(packages, enabled)
    BY <1>1, <1>10, SumsAdd
<1>12. TotalOf(costs) = TotalOf(own) + TotalOf(packages)
    BY <1>7, <1>11 DEF TotalOf, SumFunction
<1>13. /\ SumOfCosts(listed) \in Nat /\ SumOfCosts(unlisted) \in Nat
       /\ SumFunctionOnSet(packages, enabled) \in Int
    <2>1. SumOfCosts(listed) \in Nat /\ SumOfCosts(unlisted) \in Nat
        BY <1>2, <1>9, SumOfAccounts
    <2>2. \A p \in enabled : packages[p] \in Int
        BY <1>10
    <2> QED BY <1>1, <2>1, <2>2, SumTyped
<1>14. TotalOf(packages) \in Int
    BY <1>7, <1>13 DEF TotalOf, SumFunction
<1>15. TotalOf(costs) + SumOfCosts(unlisted) = SumOfCosts(Active) + TotalOf(packages)
    BY <1>4, <1>5, <1>12, <1>13, <1>14
<1> QED BY <1>15 DEF costs, unlisted, packages

LEMMA CostsMeet == FiguresInv => CostViewsAgree
<1> SUFFICES ASSUME FiguresInv
             PROVE  CostViewsAgree
    OBVIOUS
<1>1. /\ LicenceRows \in SUBSET Memberships /\ Active \in SUBSET LicenceRows
      /\ IsFiniteSet(LicenceRows) /\ IsFiniteSet(Active)
      /\ {m \in Active : ~Assigned(m)} \in SUBSET Active /\ PotentialSavings \in SUBSET Active
    BY SumOfAccounts DEF LicenceRows, Active, PotentialSavings
<1> DEFINE provider == [m \in Memberships |-> m.provider]
           holder == [m \in Memberships |-> held[m].employee]
           providers == {m.provider : m \in LicenceRows}
           holders == {held[m].employee : m \in Active}
           given == {m \in Active : Assigned(m)}
<1>2. /\ providers = {provider[m] : m \in LicenceRows} /\ holders = {holder[m] : m \in Active}
      /\ given \in SUBSET Active /\ Active \in SUBSET Memberships
    BY <1>1
<1>3. /\ \A p : {m \in LicenceRows : m.provider = p} = {m \in LicenceRows : provider[m] = p}
      /\ \A p : OwnActive(p) = {m \in Active : provider[m] = p}
      /\ \A e : {m \in Active : held[m].employee = e} = {m \in Active : holder[m] = e}
      /\ \A e \in holders \ {NoOne} :
            {m \in Active : held[m].employee = e} = {m \in given : holder[m] = e}
      /\ \A m \in given : holder[m] # NoOne
    BY <1>1 DEF Assigned, OwnActive
<1>20. /\ CostReport = [p \in providers |-> SumOfCosts({m \in LicenceRows : m.provider = p})]
       /\ DepartmentCosts = [e \in holders |-> SumOfCosts({m \in Active : held[m].employee = e})]
       /\ EmployeeCosts =
             [e \in holders \ {NoOne} |-> SumOfCosts({m \in Active : held[m].employee = e})]
    BY DEF CostReport, DepartmentCosts, EmployeeCosts
<1>21. given = {m \in Active : Assigned(m)}
    OBVIOUS
<1> HIDE DEF provider, holder, providers, holders, given
<1>22. IsFiniteSet(providers) /\ IsFiniteSet(holders) /\ IsFiniteSet(holders \ {NoOne})
    <2>1. IsFiniteSet(providers) /\ IsFiniteSet(holders)
        BY <1>1, <1>2, FiniteImage
    <2> QED BY <2>1, FS_Subset
<1>4. TotalOf(CostReport) = SumOfCosts(LicenceRows)
    <2>1. CostReport = [p \in providers |-> SumOfCosts({m \in LicenceRows : provider[m] = p})]
        BY <1>3, <1>20
    <2>2. \A m \in LicenceRows : provider[m] \in providers
        BY <1>2
    <2> QED BY <1>1, <1>22, <2>1, <2>2, GroupsAddUp
<1>5. TotalOf(DepartmentCosts) = SumOfCosts(Active)
    <2>1. DepartmentCosts = [e \in holders |-> SumOfCosts({m \in Active : holder[m] = e})]
        BY <1>3, <1>20
    <2>2. \A m \in Active : holder[m] \in holders
        BY <1>2
    <2> QED BY <1>2, <1>22, <2>1, <2>2, GroupsAddUp
<1>6. TotalOf(EmployeeCosts) = SumOfCosts(given)
    <2>1. EmployeeCosts = [e \in holders \ {NoOne} |-> SumOfCosts({m \in given : holder[m] = e})]
        BY <1>3, <1>20
    <2>2. \A m \in given : holder[m] \in holders \ {NoOne}
        BY <1>2, <1>3
    <2>3. given \in SUBSET Memberships
        BY <1>2
    <2> QED BY <1>22, <2>1, <2>2, <2>3, GroupsAddUp
<1>7. SumOfCosts(Active) = SumOfCosts(given) + SumOfCosts({m \in Active : ~Assigned(m)})
    <2>1. Active \ given = {m \in Active : ~Assigned(m)}
        BY <1>21
    <2> QED BY <1>2, <2>1, AccountsApart
<1>8. SumOfCosts(LicenceRows) = SumOfCosts(Active) + SumOfCosts(LicenceRows \ Active)
    BY <1>1, AccountsApart
<1>9. TotalOf([p \in enabled |-> Utilization[p].cost])
          + SumOfCosts({m \in Active : m.provider \notin enabled})
        = SumOfCosts(Active)
          + TotalOf([p \in enabled |-> IF Unpriced(p) THEN SeatsCost[p] ELSE 0])
    BY <1>1, UtilizationAddsUp
<1>10. SumOfCosts(PotentialSavings) <= SumOfCosts(Active)
    <2>1. Active \in SUBSET Memberships /\ PotentialSavings \in SUBSET Memberships
          /\ Active \ PotentialSavings \in SUBSET Memberships
        BY <1>1
    <2>2. SumOfCosts(Active) = SumOfCosts(PotentialSavings) + SumOfCosts(Active \ PotentialSavings)
        BY <1>1, <2>1, AccountsApart
    <2>3. SumOfCosts(PotentialSavings) \in Nat /\ SumOfCosts(Active \ PotentialSavings) \in Nat
        BY <2>1, SumOfAccounts
    <2>4. \A i, j \in Nat : i <= i + j
        OBVIOUS
    <2> QED BY <2>2, <2>3, <2>4
<1>11. \A kind : Recommended(kind) \subseteq Inactive(30)
    <2>1. \A m \in Active : m.idle > 60 => m.idle > 30
        BY <1>1, FiguresAssumptions
    <2> QED BY <2>1 DEF Recommended, Inactive
<1>12. Dashboard.external = ExternalUsers
    BY DEF Dashboard, ExternalUsers
<1>13. ASSUME NEW p \in enabled
       PROVE  StatsOf(p).external \cap {m \in Memberships : IsForeign(m)}
                  \subseteq (IF domains THEN Utilization[p].external ELSE Active)
    <2> SUFFICES ASSUME NEW m \in StatsOf(p).external, IsForeign(m)
                 PROVE  m \in (IF domains THEN Utilization[p].external ELSE Active)
        OBVIOUS
    <2>1. m \in Active /\ m.provider = p
        BY DEF StatsOf, Unclaimed
    <2>2. domains => m \in CountExternal(p)
        BY <2>1 DEF CountExternal, OwnActive, IsForeign
    <2> QED BY <2>1, <2>2 DEF Utilization
<1>14. ASSUME NEW e \in left, NEW m \in Active, m \in Pending[e], ~held[m].service,
              held[m].match # "external_guest"
       PROVE  m \in PotentialSavings
    BY <1>14 DEF Pending, PotentialSavings, Offboarded
<1>15. Dashboard.cost = SumOfCosts(LicenceRows)
    BY DEF Dashboard
<1> QED BY <1>4, <1>5, <1>6, <1>7, <1>8, <1>9, <1>10, <1>11, <1>12, <1>13, <1>14, <1>15
        DEF CostViewsAgree

(* Two figures computed of the same rows never contradict each other: the  *)
(* headings of the two pages (get_stats_by_provider,                       *)
(* get_categorized_licenses), and the sums of the dashboard and of the     *)
(* reports by provider, department and employee, for any set of accounts.  *)
THEOREM FiguresNeverContradict == FiguresSpec => []FiguresAgree
<1>1. FiguresInv => FiguresAgree
    BY ListsMeet, CostsMeet DEF FiguresAgree
<1> QED BY <1>1, FiguresInvariant, PTL

-----------------------------------------------------------------------------

-----------------------------------------------------------------------------
(* The sums of the regression in closed form.                              *)

LEMMA CountsBefore ==
    ASSUME NEW n \in Nat
    PROVE  /\ IsFiniteSet(0 .. n - 1)
           /\ (0 .. n) \ {n} = 0 .. n - 1
           /\ 0 .. 0 - 1 = {}
<1>1. IsFiniteSet(0 .. n - 1)
    BY FS_Interval
<1> QED BY <1>1

LEMMA SumStep ==
    ASSUME NEW f, NEW p \in Nat, \A n \in Nat : f[n] \in Int
    PROVE  SumFunctionOnSet(f, 0 .. p) = f[p] + SumFunctionOnSet(f, 0 .. p - 1)
<1>1. IsFiniteSet(0 .. p) /\ p \in 0 .. p /\ (0 .. p) \ {p} = 0 .. p - 1
    <2>1. IsFiniteSet(0 .. p)
        BY FS_Interval
    <2>2. p \in 0 .. p /\ (0 .. p) \ {p} = 0 .. p - 1
        OBVIOUS
    <2> QED BY <2>1, <2>2
<1>2. \A x \in 0 .. p : f[x] \in Int
    OBVIOUS
<1>3. SumFunctionOnSet(f, 0 .. p) = f[p] + SumFunctionOnSet(f, (0 .. p) \ {p})
    BY <1>1, <1>2, SumRemove
<1> QED BY <1>1, <1>3

\* A sum whose partial sums, times k, are known.
LEMMA SumClosed ==
    ASSUME NEW f, NEW G, NEW k \in Int, \A n \in Nat : f[n] \in Int /\ G[n] \in Int,
           G[0] = 0, \A n \in Nat : G[n + 1] = G[n] + k * f[n]
    PROVE  \A n \in Nat : /\ k * SumFunctionOnSet(f, 0 .. n - 1) = G[n]
                          /\ SumFunctionOnSet(f, 0 .. n - 1) \in Int
<1>1. \A n \in Nat : SumFunctionOnSet(f, 0 .. n - 1) \in Int
    <2> SUFFICES ASSUME NEW n \in Nat
                 PROVE  SumFunctionOnSet(f, 0 .. n - 1) \in Int
        OBVIOUS
    <2>1. IsFiniteSet(0 .. n - 1) /\ \A x \in 0 .. n - 1 : f[x] \in Int
        BY CountsBefore
    <2> QED BY <2>1, SumTyped
<1> DEFINE T == {n \in Nat : k * SumFunctionOnSet(f, 0 .. n - 1) # G[n]}
<1>2. SUFFICES ASSUME T # {}
               PROVE  FALSE
    BY <1>1
<1>3. PICK m \in T : \A x \in T : m <= x
    BY <1>2, SmallestNumber
<1>4. m # 0
    <2>1. SUFFICES ASSUME m = 0
                   PROVE  FALSE
        OBVIOUS
    <2>2. SumFunctionOnSet(f, 0 .. 0 - 1) = 0
        BY SumEmpty, CountsBefore
    <2> QED BY <1>3, <2>1, <2>2
<1>5. m \in Nat /\ m - 1 \in Nat /\ m - 1 \notin T /\ (m - 1) + 1 = m
    BY <1>3, <1>4
<1> DEFINE p == m - 1
<1>6. k * SumFunctionOnSet(f, 0 .. p - 1) = G[p]
    BY <1>5
<1> HIDE DEF p
<1>7. p \in Nat /\ p + 1 = m /\ 0 .. p = 0 .. m - 1
    BY <1>5 DEF p
<1>8. SumFunctionOnSet(f, 0 .. p) = f[p] + SumFunctionOnSet(f, 0 .. p - 1)
    BY <1>7, SumStep
<1>9. f[p] \in Int /\ G[p] \in Int /\ G[m] = G[p] + k * f[p]
    BY <1>7
<1>10. SumFunctionOnSet(f, 0 .. p - 1) \in Int
    BY <1>1, <1>7
<1>11. k * SumFunctionOnSet(f, 0 .. p) = G[m]
    <2>1. PICK u \in Int : u = SumFunctionOnSet(f, 0 .. p - 1)
        BY <1>10
    <2>2. PICK v \in Int : v = f[p]
        BY <1>9
    <2>3. k * (v + u) = k * v + k * u /\ k * v \in Int
        OBVIOUS
    <2>4. k * SumFunctionOnSet(f, 0 .. p) = k * (v + u) /\ k * u = G[p] /\ G[m] = G[p] + k * v
        BY <1>6, <1>8, <1>9, <2>1, <2>2
    <2> QED BY <1>9, <2>3, <2>4
<1> QED BY <1>3, <1>7, <1>11

SumTo(n, f) == SumFunctionOnSet(f, 0 .. n - 1)

LEMMA SumOfNumbers == \A n \in Nat : /\ 2 * SumTo(n, [x \in Nat |-> x]) = n * (n - 1)
                                     /\ SumTo(n, [x \in Nat |-> x]) \in Int
<1> DEFINE f == [x \in Nat |-> x]
           G == [n \in Nat |-> n * (n - 1)]
<1>1. \A n \in Nat : f[n] \in Int /\ G[n] \in Int
    OBVIOUS
<1>2. G[0] = 0
    OBVIOUS
<1>3. \A n \in Nat : (n + 1) * ((n + 1) - 1) = n * (n - 1) + 2 * n
    OBVIOUS
<1>4. \A n \in Nat : G[n + 1] = G[n] + 2 * f[n]
    BY <1>3
<1>5. \A n \in Nat : G[n] = n * (n - 1)
    OBVIOUS
<1> HIDE DEF f, G
<1>6. \A n \in Nat : 2 * SumFunctionOnSet(f, 0 .. n - 1) = G[n]
                       /\ SumFunctionOnSet(f, 0 .. n - 1) \in Int
    <2>1. PICK k \in Int : k = 2
        OBVIOUS
    <2>2. \A n \in Nat : G[n + 1] = G[n] + k * f[n]
        BY <1>4, <2>1
    <2>3. \A n \in Nat : /\ k * SumFunctionOnSet(f, 0 .. n - 1) = G[n]
                         /\ SumFunctionOnSet(f, 0 .. n - 1) \in Int
        BY <1>1, <1>2, <2>2, SumClosed
    <2> QED BY <2>1, <2>3
<1> QED BY <1>5, <1>6 DEF SumTo, f

LEMMA SumOfSquares ==
    \A n \in Nat : /\ 6 * SumTo(n, [x \in Nat |-> x * x]) = n * (n - 1) * (2 * n - 1)
                   /\ SumTo(n, [x \in Nat |-> x * x]) \in Int
<1> DEFINE f == [x \in Nat |-> x * x]
           G == [n \in Nat |-> n * (n - 1) * (2 * n - 1)]
<1>1. \A n \in Nat : f[n] \in Int /\ G[n] \in Int
    OBVIOUS
<1>2. G[0] = 0
    OBVIOUS
<1>3. \A n \in Nat : (n + 1) * ((n + 1) - 1) * (2 * (n + 1) - 1)
                         = n * (n - 1) * (2 * n - 1) + 6 * (n * n)
    OBVIOUS
<1>4. \A n \in Nat : G[n + 1] = G[n] + 6 * f[n]
    BY <1>3
<1>5. \A n \in Nat : G[n] = n * (n - 1) * (2 * n - 1)
    OBVIOUS
<1> HIDE DEF f, G
<1>6. \A n \in Nat : 6 * SumFunctionOnSet(f, 0 .. n - 1) = G[n]
                       /\ SumFunctionOnSet(f, 0 .. n - 1) \in Int
    <2>1. PICK k \in Int : k = 6
        OBVIOUS
    <2>2. \A n \in Nat : G[n + 1] = G[n] + k * f[n]
        BY <1>4, <2>1
    <2>3. \A n \in Nat : /\ k * SumFunctionOnSet(f, 0 .. n - 1) = G[n]
                         /\ SumFunctionOnSet(f, 0 .. n - 1) \in Int
        BY <1>1, <1>2, <2>2, SumClosed
    <2> QED BY <2>1, <2>3
<1> QED BY <1>5, <1>6 DEF SumTo, f

\* The costs of a straight line, and the costs weighted with their months.
LEMMA SumOfLine ==
    ASSUME NEW c \in Int, NEW s \in Int
    PROVE  \A n \in Nat : /\ 2 * SumTo(n, [x \in Nat |-> c + s * x]) = 2 * n * c + s * (n * (n - 1))
                          /\ SumTo(n, [x \in Nat |-> c + s * x]) \in Int
<1> DEFINE f == [x \in Nat |-> c + s * x]
           G == [n \in Nat |-> 2 * n * c + s * (n * (n - 1))]
<1>1. \A n \in Nat : f[n] \in Int /\ G[n] \in Int
    OBVIOUS
<1>2. G[0] = 0
    OBVIOUS
<1>3. \A n \in Nat : 2 * (n + 1) * c + s * ((n + 1) * ((n + 1) - 1))
                         = (2 * n * c + s * (n * (n - 1))) + 2 * (c + s * n)
    OBVIOUS
<1>4. \A n \in Nat : G[n + 1] = G[n] + 2 * f[n]
    BY <1>3
<1>5. \A n \in Nat : G[n] = 2 * n * c + s * (n * (n - 1))
    OBVIOUS
<1> HIDE DEF f, G
<1>6. \A n \in Nat : 2 * SumFunctionOnSet(f, 0 .. n - 1) = G[n]
                       /\ SumFunctionOnSet(f, 0 .. n - 1) \in Int
    <2>1. PICK k \in Int : k = 2
        OBVIOUS
    <2>2. \A n \in Nat : G[n + 1] = G[n] + k * f[n]
        BY <1>4, <2>1
    <2>3. \A n \in Nat : /\ k * SumFunctionOnSet(f, 0 .. n - 1) = G[n]
                         /\ SumFunctionOnSet(f, 0 .. n - 1) \in Int
        BY <1>1, <1>2, <2>2, SumClosed
    <2> QED BY <2>1, <2>3
<1> QED BY <1>5, <1>6 DEF SumTo, f

LEMMA SumOfWeightedLine ==
    ASSUME NEW c \in Int, NEW s \in Int
    PROVE  \A n \in Nat : /\ 6 * SumTo(n, [x \in Nat |-> x * (c + s * x)])
                                 = 3 * c * (n * (n - 1)) + s * (n * (n - 1) * (2 * n - 1))
                          /\ SumTo(n, [x \in Nat |-> x * (c + s * x)]) \in Int
<1> DEFINE f == [x \in Nat |-> x * (c + s * x)]
           G == [n \in Nat |-> 3 * c * (n * (n - 1)) + s * (n * (n - 1) * (2 * n - 1))]
<1>1. \A n \in Nat : f[n] \in Int /\ G[n] \in Int
    OBVIOUS
<1>2. G[0] = 0
    OBVIOUS
<1>3. \A n \in Nat : 3 * c * ((n + 1) * ((n + 1) - 1))
                         + s * ((n + 1) * ((n + 1) - 1) * (2 * (n + 1) - 1))
                     = (3 * c * (n * (n - 1)) + s * (n * (n - 1) * (2 * n - 1)))
                         + 6 * (n * (c + s * n))
    OBVIOUS
<1>4. \A n \in Nat : G[n + 1] = G[n] + 6 * f[n]
    BY <1>3
<1>5. \A n \in Nat : G[n] = 3 * c * (n * (n - 1)) + s * (n * (n - 1) * (2 * n - 1))
    OBVIOUS
<1> HIDE DEF f, G
<1>6. \A n \in Nat : 6 * SumFunctionOnSet(f, 0 .. n - 1) = G[n]
                       /\ SumFunctionOnSet(f, 0 .. n - 1) \in Int
    <2>1. PICK k \in Int : k = 6
        OBVIOUS
    <2>2. \A n \in Nat : G[n + 1] = G[n] + k * f[n]
        BY <1>4, <2>1
    <2>3. \A n \in Nat : /\ k * SumFunctionOnSet(f, 0 .. n - 1) = G[n]
                         /\ SumFunctionOnSet(f, 0 .. n - 1) \in Int
        BY <1>1, <1>2, <2>2, SumClosed
    <2> QED BY <2>1, <2>3
<1> QED BY <1>5, <1>6 DEF SumTo, f

\* SumFunction of a function on 0 .. n - 1 looks at those values only.
LEMMA SumToIs ==
    ASSUME NEW n \in Nat, NEW f, NEW e, DOMAIN f = 0 .. n - 1, \A x \in 0 .. n - 1 : f[x] = e[x]
    PROVE  SumFunction(f) = SumTo(n, e)
<1>1. SumFunction(f) = SumFunctionOnSet(f, 0 .. n - 1)
    BY DEF SumFunction
<1>2. SumFunctionOnSet(f, 0 .. n - 1) = SumFunctionOnSet(e, 0 .. n - 1)
    BY CountsBefore, SumSame
<1> QED BY <1>1, <1>2 DEF SumTo

LEMMA SumToTyped ==
    ASSUME NEW n \in Nat, NEW f, DOMAIN f = 0 .. n - 1, \A x \in 0 .. n - 1 : f[x] \in Int
    PROVE  SumFunction(f) \in Int
<1> QED BY CountsBefore, SumTyped DEF SumFunction

-----------------------------------------------------------------------------
(* The regression line.                                                    *)

ForecastDate == [year : Nat, month : 1 .. 12]
HistoryPoint == [month : ForecastDate, cost : MonthlyCosts]
Point == [month : ForecastDate, cost : Nat, past : BOOLEAN]

LEMMA SnapshotTyped ==
    ASSUME NEW h \in Seq(HistoryPoint)
    PROVE  /\ Len(h) \in Nat /\ DOMAIN h = 1 .. Len(h)
           /\ \A i \in 1 .. Len(h) : h[i] \in HistoryPoint /\ h[i].cost \in Nat /\ h[i].month \in ForecastDate
           /\ h # <<>> <=> Len(h) > 0
           /\ h # <<>> => Last(h) = h[Len(h)] /\ Last(h) \in HistoryPoint
<1>1. Len(h) \in Nat /\ DOMAIN h = 1 .. Len(h) /\ (h # <<>> <=> Len(h) > 0)
    OBVIOUS
<1>2. \A i \in 1 .. Len(h) : h[i] \in HistoryPoint
    OBVIOUS
<1>3. \A i \in 1 .. Len(h) : h[i].cost \in Nat /\ h[i].month \in ForecastDate
    BY <1>2, ForecastAssumptions DEF HistoryPoint
<1> QED BY <1>1, <1>2, <1>3 DEF Last

\* What the regression adds up, by name.
XSum(n) == SumFunction([x \in 0 .. n - 1 |-> x])
QSum(n) == SumFunction([x \in 0 .. n - 1 |-> x * x])
YSum(h) == SumFunction([x \in 0 .. Len(h) - 1 |-> h[x + 1].cost])
ZSum(h) == SumFunction([x \in 0 .. Len(h) - 1 |-> x * h[x + 1].cost])
Num(h) == Len(h) * ZSum(h) - XSum(Len(h)) * YSum(h)
Den(n) == n * QSum(n) - XSum(n) * XSum(n)

LEMMA PredictOne == \A h, i : Len(h) = 1 => Predict(h, i) = h[1].cost
<1> QED BY DEF Predict

LEMMA PredictTwo ==
    \A h, i : Len(h) = 2 => Predict(h, i) = (3 * h[1].cost + 7 * h[2].cost) \div 10
<1> SUFFICES ASSUME NEW h, NEW i, Len(h) = 2
             PROVE  Predict(h, i) = (3 * h[1].cost + 7 * h[2].cost) \div 10
    OBVIOUS
<1>1. Len(h) # 1
    OBVIOUS
<1> QED BY <1>1, Zenon DEF Predict

LEMMA PredictMore ==
    ASSUME NEW h, NEW i, NEW n, n = Len(h), n # 1, n # 2
    PROVE  Predict(h, i) = Above(YSum(h) * Den(n) + Num(h) * (n * (n - 1 + i) - XSum(n)))
                               \div (n * Den(n))
<1> QED BY Zenon DEF Predict, XSum, QSum, YSum, ZSum, Num, Den

LEMMA XQSums ==
    ASSUME NEW n \in Nat
    PROVE  /\ XSum(n) \in Int /\ QSum(n) \in Int
           /\ 2 * XSum(n) = n * (n - 1) /\ 6 * QSum(n) = n * (n - 1) * (2 * n - 1)
<1>1. XSum(n) = SumTo(n, [x \in Nat |-> x])
    <2> DEFINE f == [x \in 0 .. n - 1 |-> x]
               e == [x \in Nat |-> x]
    <2>1. DOMAIN f = 0 .. n - 1 /\ \A x \in 0 .. n - 1 : f[x] = e[x]
        OBVIOUS
    <2> HIDE DEF f, e
    <2>2. SumFunction(f) = SumTo(n, e)
        BY <2>1, SumToIs
    <2> QED BY <2>2 DEF XSum, f, e
<1>2. QSum(n) = SumTo(n, [x \in Nat |-> x * x])
    <2> DEFINE f == [x \in 0 .. n - 1 |-> x * x]
               e == [x \in Nat |-> x * x]
    <2>1. DOMAIN f = 0 .. n - 1 /\ \A x \in 0 .. n - 1 : f[x] = e[x]
        OBVIOUS
    <2> HIDE DEF f, e
    <2>2. SumFunction(f) = SumTo(n, e)
        BY <2>1, SumToIs
    <2> QED BY <2>2 DEF QSum, f, e
<1> QED BY <1>1, <1>2, SumOfNumbers, SumOfSquares

\* The months are not all one: the denominator is positive from two months on.
LEMMA DenPositive ==
    ASSUME NEW n \in Nat, n >= 2
    PROVE  Den(n) \in Nat /\ Den(n) > 0 /\ n * Den(n) \in Nat /\ n * Den(n) > 0
<1> DEFINE X == XSum(n)
           Q == QSum(n)
<1>1. X \in Int /\ Q \in Int /\ 2 * X = n * (n - 1) /\ 6 * Q = n * (n - 1) * (2 * n - 1)
    BY XQSums
<1> HIDE DEF X, Q
<1>2. 12 * (n * Q) = 2 * n * (6 * Q)
    BY <1>1
<1>3. 12 * (X * X) = 3 * ((2 * X) * (2 * X))
    BY <1>1
<1>4. 12 * (n * Q - X * X) = 2 * n * (n * (n - 1) * (2 * n - 1)) - 3 * ((n * (n - 1)) * (n * (n - 1)))
    BY <1>1, <1>2, <1>3
<1>5. 2 * n * (n * (n - 1) * (2 * n - 1)) - 3 * ((n * (n - 1)) * (n * (n - 1)))
          = (n * n) * ((n - 1) * (n + 1))
    OBVIOUS
<1>6. n * n > 0 /\ (n - 1) * (n + 1) > 0 /\ n * n \in Int /\ (n - 1) * (n + 1) \in Int
    OBVIOUS
<1>7. (n * n) * ((n - 1) * (n + 1)) > 0
    BY <1>6
<1>8. n * Q - X * X \in Int /\ n * Q - X * X > 0
    BY <1>1, <1>4, <1>5, <1>7
<1>9. Den(n) \in Int /\ Den(n) > 0
    BY <1>8 DEF Den, X, Q
<1> QED BY <1>9

LEMMA AboveTyped == \A a \in Int : Above(a) \in Nat /\ (a >= 0 => Above(a) = a)
<1> QED BY DEF Above

LEMMA Quotients ==
    ASSUME NEW a \in Int, NEW b \in Nat, b > 0
    PROVE  Above(a * b) \div b = Above(a)
<1>1. CASE a >= 0
    <2>1. a * b >= 0
        BY <1>1
    <2>2. Above(a * b) = a * b /\ Above(a) = a
        BY <1>1, <2>1 DEF Above
    <2>3. (a * b) \div b = a
        OBVIOUS
    <2> QED BY <2>2, <2>3
<1>2. CASE a < 0
    <2>1. a * b < 0
        BY <1>2
    <2>2. Above(a * b) = 0 /\ Above(a) = 0
        BY <1>2, <2>1 DEF Above
    <2>3. 0 \div b = 0
        OBVIOUS
    <2> QED BY <2>2, <2>3
<1> QED BY <1>1, <1>2

LEMMA NatQuotients == \A a, b \in Nat : b > 0 => a \div b \in Nat
<1> QED OBVIOUS

LEMMA PredictTyped ==
    ASSUME NEW h \in Seq(HistoryPoint), h # <<>>, NEW i \in Nat
    PROVE  Predict(h, i) \in Nat
<1> DEFINE n == Len(h)
<1>1. n \in Nat /\ n > 0 /\ \A j \in 1 .. n : h[j].cost \in Nat
    BY SnapshotTyped
<1>2. CASE n = 1
    BY <1>1, <1>2, PredictOne
<1>3. CASE n = 2
    <2>1. 3 * h[1].cost + 7 * h[2].cost \in Nat
        BY <1>1, <1>3
    <2>2. (3 * h[1].cost + 7 * h[2].cost) \div 10 \in Nat
        BY <2>1, NatQuotients
    <2> QED BY <1>3, <2>2, PredictTwo
<1>4. CASE n > 2
    <2> DEFINE Y == YSum(h)
               Z == ZSum(h)
               X == XSum(n)
               D == Den(n)
    <2>1. Y \in Int /\ Z \in Int
        <3> DEFINE f == [x \in 0 .. n - 1 |-> h[x + 1].cost]
                   e == [x \in 0 .. n - 1 |-> x * h[x + 1].cost]
        <3>1. \A x \in 0 .. n - 1 : x + 1 \in 1 .. n
            BY <1>1
        <3>2. DOMAIN f = 0 .. n - 1 /\ (\A x \in 0 .. n - 1 : f[x] \in Int)
              /\ DOMAIN e = 0 .. n - 1 /\ (\A x \in 0 .. n - 1 : e[x] \in Int)
            BY <1>1, <3>1
        <3> HIDE DEF f, e, n
        <3>3. SumFunction(f) \in Int /\ SumFunction(e) \in Int
            BY <1>1, <3>2, SumToTyped
        <3> QED BY <3>3 DEF YSum, ZSum, f, e, n
    <2>2. X \in Int /\ D \in Nat /\ n * D \in Nat /\ n * D > 0
        BY <1>1, <1>4, XQSums, DenPositive
    <2> HIDE DEF Y, Z, X, D, n
    <2>3. (n * Z - X * Y) * (n * (n - 1 + i) - X) \in Int
        BY <1>1, <2>1, <2>2
    <2>4. Y * D + (n * Z - X * Y) * (n * (n - 1 + i) - X) \in Int
        BY <2>1, <2>2, <2>3
    <2>5. Above(Y * D + (n * Z - X * Y) * (n * (n - 1 + i) - X)) \div (n * D) \in Nat
        BY <2>2, <2>4, AboveTyped, NatQuotients
    <2>6. Predict(h, i) = Above(Y * D + (n * Z - X * Y) * (n * (n - 1 + i) - X)) \div (n * D)
        <3>1. n = Len(h) /\ n # 1 /\ n # 2
            BY <1>1, <1>4 DEF n
        <3>2. Predict(h, i) = Above(YSum(h) * Den(n) + Num(h) * (n * (n - 1 + i) - XSum(n)))
                                  \div (n * Den(n))
            BY <3>1, PredictMore
        <3>3. Num(h) = n * Z - X * Y
            BY <3>1 DEF Num, Z, X, Y
        <3> QED BY <3>2, <3>3 DEF Y, X, D
    <2> QED BY <2>5, <2>6
<1>5. \A k \in Nat : k > 0 => k = 1 \/ k = 2 \/ k > 2
    OBVIOUS
<1> HIDE DEF n
<1> QED BY <1>1, <1>2, <1>3, <1>4, <1>5

\* Costs that change by s every month: the x-th is the first and x times s.
LEMMA StraightCosts ==
    ASSUME NEW h \in Seq(HistoryPoint), Len(h) >= 1, NEW s \in Int,
           \A i \in 1 .. Len(h) - 1 : h[i + 1].cost - h[i].cost = s
    PROVE  \A x \in 0 .. Len(h) - 1 : h[x + 1].cost = h[1].cost + s * x
<1> DEFINE n == Len(h)
           c == h[1].cost
           T == {x \in 0 .. n - 1 : h[x + 1].cost # c + s * x}
<1>1. n \in Nat /\ \A j \in 1 .. n : h[j].cost \in Nat
    BY SnapshotTyped
<1>2. SUFFICES ASSUME T # {}
               PROVE  FALSE
    OBVIOUS
<1>3. PICK m \in T : \A x \in T : m <= x
    <2>1. T \in SUBSET Nat
        OBVIOUS
    <2> QED BY <1>2, <2>1, SmallestNumber
<1>4. m \in 0 .. n - 1 /\ h[m + 1].cost # c + s * m
    BY <1>3
<1>5. c \in Nat
    BY <1>1
<1>6. m # 0
    <2>1. h[0 + 1].cost = c + s * 0
        <3>1. s * 0 = 0 /\ c + 0 = c /\ 0 + 1 = 1
            BY <1>5
        <3> QED BY <3>1, Zenon
    <2> QED BY <1>4, <2>1
<1>7. m - 1 \in 0 .. n - 1 /\ m - 1 \notin T /\ m \in 1 .. n - 1 /\ m \in 1 .. n /\ m + 1 \in 1 .. n
    <2> HIDE DEF n, T
    <2>1. m - 1 \in 0 .. n - 1 /\ m \in 1 .. n - 1 /\ m \in 1 .. n /\ m + 1 \in 1 .. n /\ m \in Int
        BY <1>1, <1>4, <1>6
    <2>2. ~(m <= m - 1)
        BY <2>1
    <2> QED BY <1>3, <2>1, <2>2
<1>8. (m - 1) + 1 = m
    BY <1>7
<1>9. h[m].cost = c + s * (m - 1)
    BY <1>7, <1>8
<1>10. h[m + 1].cost - h[m].cost = s
    BY <1>7
<1>11. h[m].cost \in Nat /\ h[m + 1].cost \in Nat
    BY <1>1, <1>7
<1> HIDE DEF n, c, T
<1>12. c + s * (m - 1) + s = c + s * m
    BY <1>5, <1>7
<1>13. s * (m - 1) \in Int /\ s * m \in Int
    BY <1>7
<1>14. h[m + 1].cost = (c + s * (m - 1)) + s
    <2>1. \A a, b \in Nat : b - a = s => b = a + s
        OBVIOUS
    <2>2. h[m + 1].cost = h[m].cost + s
        BY <1>10, <1>11, <2>1
    <2> QED BY <1>9, <2>2
<1>15. h[m + 1].cost = c + s * m
    BY <1>12, <1>14, Zenon
<1> QED BY <1>4, <1>15, Zenon

\* The regression of a straight line is that line.
LEMMA PredictStraight ==
    ASSUME NEW h \in Seq(HistoryPoint), Len(h) >= 3, NEW s \in Int,
           \A j \in 1 .. Len(h) - 1 : h[j + 1].cost - h[j].cost = s, NEW i \in Nat
    PROVE  Predict(h, i) = Above(Last(h).cost + i * s)
<1> DEFINE n == Len(h)
           c == h[1].cost
           Y == YSum(h)
           Z == ZSum(h)
           X == XSum(n)
           Q == QSum(n)
<1>1. n \in Nat /\ c \in Nat /\ (\A j \in 1 .. n : h[j].cost \in Nat) /\ Last(h) = h[n]
    BY SnapshotTyped
<1>2. \A x \in 0 .. n - 1 : h[x + 1].cost = c + s * x
    <2>1. Len(h) >= 1
        BY <1>1
    <2> QED BY <2>1, StraightCosts
<1>3. Y = SumTo(n, [x \in Nat |-> c + s * x])
    <2> DEFINE f == [x \in 0 .. n - 1 |-> h[x + 1].cost]
               e == [x \in Nat |-> c + s * x]
    <2>1. DOMAIN f = 0 .. n - 1 /\ \A x \in 0 .. n - 1 : f[x] = e[x]
        <3>1. ASSUME NEW x \in 0 .. n - 1
              PROVE  f[x] = e[x]
            <4>1. x \in Nat
                OBVIOUS
            <4>2. h[x + 1].cost = c + s * x
                BY <1>2
            <4>3. f[x] = h[x + 1].cost
                OBVIOUS
            <4>4. e[x] = c + s * x
                BY <4>1
            <4> QED BY <4>2, <4>3, <4>4, Zenon
        <3> QED BY <3>1
    <2> HIDE DEF f, e, n, c
    <2>2. SumFunction(f) = SumTo(n, e)
        BY <1>1, <2>1, SumToIs
    <2> QED BY <2>2 DEF YSum, f, e, n
<1>4. Z = SumTo(n, [x \in Nat |-> x * (c + s * x)])
    <2> DEFINE f == [x \in 0 .. n - 1 |-> x * h[x + 1].cost]
               e == [x \in Nat |-> x * (c + s * x)]
    <2>1. DOMAIN f = 0 .. n - 1 /\ \A x \in 0 .. n - 1 : f[x] = e[x]
        <3>1. ASSUME NEW x \in 0 .. n - 1
              PROVE  f[x] = e[x]
            <4>1. x \in Nat
                OBVIOUS
            <4>2. h[x + 1].cost = c + s * x
                BY <1>2
            <4>3. f[x] = x * h[x + 1].cost
                OBVIOUS
            <4>4. e[x] = x * (c + s * x)
                BY <4>1
            <4> QED BY <4>2, <4>3, <4>4, Zenon
        <3> QED BY <3>1
    <2> HIDE DEF f, e, n, c
    <2>2. SumFunction(f) = SumTo(n, e)
        BY <1>1, <2>1, SumToIs
    <2> QED BY <2>2 DEF ZSum, f, e, n
<1>5. /\ Y \in Int /\ 2 * Y = 2 * n * c + s * (n * (n - 1))
      /\ Z \in Int /\ 6 * Z = 3 * c * (n * (n - 1)) + s * (n * (n - 1) * (2 * n - 1))
    <2> HIDE DEF c, n, Y, Z
    <2>0. c \in Int
        BY <1>1
    <2>1. /\ 2 * SumTo(n, [x \in Nat |-> c + s * x]) = 2 * n * c + s * (n * (n - 1))
          /\ SumTo(n, [x \in Nat |-> c + s * x]) \in Int
        BY <1>1, <2>0, SumOfLine
    <2>2. /\ 6 * SumTo(n, [x \in Nat |-> x * (c + s * x)])
                 = 3 * c * (n * (n - 1)) + s * (n * (n - 1) * (2 * n - 1))
          /\ SumTo(n, [x \in Nat |-> x * (c + s * x)]) \in Int
        BY <1>1, <2>0, SumOfWeightedLine
    <2> QED BY <1>3, <1>4, <2>1, <2>2
<1>6. /\ X \in Int /\ Q \in Int
      /\ 2 * X = n * (n - 1) /\ 6 * Q = n * (n - 1) * (2 * n - 1)
    BY <1>1, XQSums
<1> DEFINE D == n * Q - X * X
           V == c + s * (n - 1 + i)
<1>7. n * D \in Nat /\ n * D > 0
    BY <1>1, DenPositive DEF Den
<1>8. Predict(h, i) = Above(Y * D + (n * Z - X * Y) * (n * (n - 1 + i) - X)) \div (n * D)
    <2>1. n = Len(h) /\ n # 1 /\ n # 2
        BY <1>1
    <2>2. Predict(h, i) = Above(YSum(h) * Den(n) + Num(h) * (n * (n - 1 + i) - XSum(n)))
                              \div (n * Den(n))
        BY <2>1, PredictMore
    <2>3. Num(h) = n * Z - X * Y
        BY DEF Num
    <2>4. Den(n) = D
        BY DEF Den
    <2> HIDE DEF D
    <2> QED BY <2>2, <2>3, <2>4
<1>9. V = Last(h).cost + i * s /\ V \in Int
    <2>0. n - 1 \in 0 .. n - 1 /\ (n - 1) + 1 = n
        BY <1>1
    <2>1. h[(n - 1) + 1].cost = c + s * (n - 1) /\ (n - 1) + 1 = n
        <3> HIDE DEF n, c
        <3> QED BY <1>2, <2>0
    <2>2. h[n].cost = c + s * (n - 1)
        BY <2>1
    <2> HIDE DEF n, c
    <2>3. c + s * (n - 1 + i) = c + s * (n - 1) + i * s
        BY <1>1
    <2> QED BY <1>1, <2>2, <2>3
<1> HIDE DEF n, c, X, Y, Z, Q
<1>10. Y * D + (n * Z - X * Y) * (n * (n - 1 + i) - X) = V * (n * D)
    <2>0. n \in Int /\ c \in Int /\ i \in Int
        BY <1>1
    <2>1. Y = n * c + s * X
        BY <1>5, <1>6, <2>0, SMTT(30)
    <2>2. 6 * Z = 6 * (c * X) + s * (6 * Q)
        BY <1>5, <1>6, <2>0, SMTT(30)
    <2>3. Z = c * X + s * Q
        <3>1. s * (6 * Q) = 6 * (s * Q) /\ s * Q \in Int /\ c * X \in Int
            BY <1>6, <2>0
        <3> QED BY <1>5, <2>2, <3>1
    <2>4. D \in Int
        BY <1>6, <2>0
    <2>5. n * Z - X * Y = s * D
        BY <1>6, <2>0, <2>1, <2>3, SMTT(30)
    <2> HIDE DEF D
    <2>6. Y * D + (s * D) * (n * (n - 1 + i) - X) = (c + s * (n - 1 + i)) * (n * D)
        BY <1>6, <2>0, <2>1, <2>4, SMTT(30)
    <2> QED BY <2>5, <2>6
<1> HIDE DEF D, V
<1>11. Above(V * (n * D)) \div (n * D) = Above(V)
    BY <1>7, <1>9, Quotients
<1> QED BY <1>8, <1>9, <1>10, <1>11

-----------------------------------------------------------------------------
(* The months and points of a forecast.                                    *)

MonthNumber(d) == 12 * d.year + d.month

LEMMA AddMonthsIs ==
    ASSUME NEW d \in ForecastDate, NEW n \in Nat
    PROVE  AddMonths(d, n) \in ForecastDate /\ MonthNumber(AddMonths(d, n)) = MonthNumber(d) + n
<1> DEFINE y == d.year
           m == d.month
<1>1. y \in Nat /\ m \in 1 .. 12
    BY DEF ForecastDate
<1>2. AddMonths(d, n) = [year |-> y + ((m + n) - 1) \div 12, month |-> (((m + n) - 1) % 12) + 1]
    BY DEF AddMonths
<1> HIDE DEF y, m
<1>3. (m + n) - 1 \in Nat
    BY <1>1
<1> DEFINE t == (m + n) - 1
<1>4. t \div 12 \in Nat /\ t % 12 \in 0 .. 11 /\ 12 * (t \div 12) + (t % 12) = t
    <2> HIDE DEF t
    <2>0. t \in Nat
        BY <1>3 DEF t
    <2>1. t \div 12 \in Nat
        BY <2>0
    <2>2. t % 12 \in 0 .. 11
        BY <2>0
    <2>3. 12 * (t \div 12) + (t % 12) = t
        BY <2>0
    <2> QED BY <2>1, <2>2, <2>3
<1>5. PICK q \in Nat, r \in 0 .. 11 : q = t \div 12 /\ r = t % 12 /\ 12 * q + r = t
    BY <1>4
<1>6. AddMonths(d, n) = [year |-> y + q, month |-> r + 1]
    <2>1. AddMonths(d, n) = [year |-> y + (t \div 12), month |-> (t % 12) + 1]
        BY <1>2, Zenon
    <2> HIDE DEF t
    <2> QED BY <1>5, <2>1, Zenon
<1>7. AddMonths(d, n) \in ForecastDate
    BY <1>1, <1>6 DEF ForecastDate
<1>8. MonthNumber(AddMonths(d, n)) = 12 * (y + q) + (r + 1)
    BY <1>6 DEF MonthNumber
<1>9. 12 * (y + q) + (r + 1) = (12 * y + m) + n
    BY <1>1, <1>5
<1> QED BY <1>7, <1>8, <1>9 DEF MonthNumber, y, m

StartDate(h) == IF h = <<>> THEN FirstMonth ELSE Last(h).month

PastPoint(x) == [month |-> x.month, cost |-> x.cost, past |-> TRUE]

NextPoint(h, i) == [month |-> AddMonths(StartDate(h), i),
                    cost |-> IF h = <<>> THEN 0 ELSE Predict(h, i), past |-> FALSE]

LEMMA PointsTyped ==
    ASSUME NEW h \in Seq(HistoryPoint)
    PROVE  /\ StartDate(h) \in ForecastDate
           /\ \A i \in 1 .. Len(h) : PastPoint(h[i]) \in Point
           /\ \A i \in Nat : NextPoint(h, i) \in Point
<1>1. StartDate(h) \in ForecastDate
    BY SnapshotTyped, ForecastAssumptions DEF StartDate, ForecastDate, HistoryPoint
<1>2. \A i \in 1 .. Len(h) : PastPoint(h[i]) \in Point
    BY SnapshotTyped DEF PastPoint, Point
<1>3. ASSUME NEW i \in Nat
      PROVE  NextPoint(h, i) \in Point
    <2>1. PICK c \in Nat : c = IF h = <<>> THEN 0 ELSE Predict(h, i)
        BY PredictTyped
    <2>2. PICK d \in ForecastDate : d = AddMonths(StartDate(h), i)
        BY <1>1, AddMonthsIs
    <2>3. NextPoint(h, i) = [month |-> d, cost |-> c, past |-> FALSE]
        BY <2>1, <2>2 DEF NextPoint
    <2> QED BY <2>3 DEF Point
<1> QED BY <1>1, <1>2, <1>3

LEMMA ForecastIs ==
    ASSUME NEW h \in Seq(HistoryPoint)
    PROVE  /\ Forecast(h) \in Seq(Point) /\ Len(Forecast(h)) = Len(h) + Horizon
           /\ DOMAIN Forecast(h) = 1 .. Len(h) + Horizon
           /\ \A i \in 1 .. Len(h) : Forecast(h)[i] = PastPoint(h[i])
           /\ \A i \in 1 .. Horizon : Forecast(h)[Len(h) + i] = NextPoint(h, i)
<1> DEFINE p == [i \in 1 .. Len(h) |-> PastPoint(h[i])]
           q == [i \in 1 .. Horizon |-> NextPoint(h, i)]
<1>1. Len(h) \in Nat /\ Horizon \in Nat
    BY SnapshotTyped, ForecastAssumptions
<1>2. p \in Seq(Point) /\ Len(p) = Len(h) /\ \A i \in 1 .. Len(h) : p[i] = PastPoint(h[i])
    <2>1. p \in [1 .. Len(h) -> Point]
        BY PointsTyped
    <2> QED BY <1>1, <2>1
<1>3. q \in Seq(Point) /\ Len(q) = Horizon /\ \A i \in 1 .. Horizon : q[i] = NextPoint(h, i)
    <2>1. \A i \in 1 .. Horizon : i \in Nat
        BY <1>1
    <2>2. q \in [1 .. Horizon -> Point]
        BY <2>1, PointsTyped
    <2> QED BY <1>1, <2>2
<1>4. Forecast(h) = p \o q
    BY Zenon DEF Forecast, Past, PastPoint, NextPoint, StartDate
<1> HIDE DEF p, q
<1>5. /\ p \o q \in Seq(Point) /\ Len(p \o q) = Len(h) + Horizon
      /\ \A i \in 1 .. Len(h) : (p \o q)[i] = p[i]
      /\ \A i \in 1 .. Horizon : (p \o q)[Len(h) + i] = q[i]
    BY <1>1, <1>2, <1>3
<1>6. DOMAIN (p \o q) = 1 .. Len(h) + Horizon
    BY <1>1, <1>5
<1> QED BY <1>2, <1>3, <1>4, <1>5, <1>6

\* The forecast of the costs, the months and the end of the contracts.
LEMMA LineGoesOn ==
    ASSUME history \in Seq(HistoryPoint)
    PROVE  LineContinues
<1> DEFINE n == Len(history)
           step == history[2].cost - history[1].cost
<1>1. n \in Nat /\ Horizon \in Nat /\ \A i \in 1 .. Horizon : i \in Nat
    BY SnapshotTyped, ForecastAssumptions
<1>2. ASSUME n > 0, NEW i \in 1 .. Horizon
      PROVE  12 * Forecast(history)[n + i].month.year + Forecast(history)[n + i].month.month
                 = (12 * Last(history).month.year + Last(history).month.month) + i
    <2>1. Forecast(history)[n + i].month = AddMonths(StartDate(history), i)
        <3>1. Forecast(history)[n + i] = NextPoint(history, i)
            BY ForecastIs
        <3> QED BY <3>1 DEF NextPoint
    <2>2. StartDate(history) = Last(history).month
        BY <1>2, SnapshotTyped DEF StartDate
    <2>3. MonthNumber(AddMonths(StartDate(history), i)) = MonthNumber(StartDate(history)) + i
        BY <1>1, PointsTyped, AddMonthsIs
    <2> QED BY <2>1, <2>2, <2>3 DEF MonthNumber
<1>3. ASSUME n >= 3, \A i \in 1 .. n - 1 : history[i + 1].cost - history[i].cost = step,
             NEW i \in 1 .. Horizon, NEW packages \in SUBSET Contracts
      PROVE  LET point == ProviderForecast(history, packages)[n + i]
                 limited == {p \in packages : p.end # NoEnd}
                 over(p) == Later(point.month, p.end)
             IN  /\ (\A p \in limited : ~over(p)) \/ (\A p \in limited : p.renews)
                         => point.cost = Above(Last(history).cost + i * step)
                 /\ limited # {} /\ (\A p \in limited : over(p) /\ ~p.renews)
                         => point.cost = 0
    <2> DEFINE plain == Forecast(history)[n + i]
               point == ProviderForecast(history, packages)[n + i]
               ends == {p \in packages : p.end # NoEnd}
               ended == /\ \E p \in ends : ~p.renews
                        /\ \E p \in ends : Later(plain.month, p.end)
    <2>1. n + i \in DOMAIN Forecast(history)
        BY <1>1, ForecastIs
    <2>2. plain = NextPoint(history, i) /\ plain \in Point
        BY <1>1, ForecastIs, PointsTyped
    <2>3. ~plain.past /\ plain.cost = Predict(history, i)
        BY <1>3, <2>2, SnapshotTyped DEF NextPoint
    <2>4. Predict(history, i) = Above(Last(history).cost + i * step)
        <3>1. history[1].cost \in Nat /\ history[2].cost \in Nat
            BY <1>1, <1>3, SnapshotTyped
        <3>2. step \in Int
            BY <3>1
        <3> HIDE DEF step
        <3> QED BY <1>1, <1>3, <3>2, PredictStraight
    <2>5. point = IF ~plain.past /\ ended THEN [plain EXCEPT !.cost = 0] ELSE plain
        BY <2>1 DEF ProviderForecast
    <2> HIDE DEF plain, point, step
    <2>6. point.month = plain.month /\ (ended => point.cost = 0)
          /\ (~ended => point.cost = plain.cost)
        BY <2>2, <2>3, <2>5 DEF Point
    <2>7. (\A p \in ends : ~Later(point.month, p.end)) \/ (\A p \in ends : p.renews) => ~ended
        BY <2>6
    <2>8. ends # {} /\ (\A p \in ends : Later(point.month, p.end) /\ ~p.renews) => ended
        BY <2>6
    <2> QED BY <2>3, <2>4, <2>6, <2>7, <2>8 DEF point
<1> QED BY <1>2, <1>3 DEF LineContinues

-----------------------------------------------------------------------------
(* Scenarios.                                                              *)

LEMMA PerEmployeeTyped ==
    ASSUME history \in Seq(HistoryPoint), NEW d \in DOMAIN Departments
    PROVE  PerEmployee(d) \in Nat
<1>1. /\ Departments[d].people \in Nat /\ Departments[d].cost \in Nat
      /\ Departments["all"].people \in Nat
    BY ForecastAssumptions
<1>2. history # <<>> => Last(history).cost \in Nat
    BY SnapshotTyped
<1> QED BY <1>1, <1>2, NatQuotients DEF PerEmployee

AdjustmentTypes == {"add_employees", "remove_employees", "add_provider", "remove_provider",
                    "change_seats", "yearly_billing", "monthly_billing"}

LEMMA AdjustmentTyped ==
    ASSUME NEW a \in Adjustments
    PROVE  /\ a.type \in AdjustmentTypes /\ a.department \in DOMAIN Departments
           /\ a.value \in Nat /\ a.month \in Nat /\ a.month > 0
<1> QED BY ForecastAssumptions DEF AdjustmentTypes

LEMMA DeltaTyped ==
    ASSUME history \in Seq(HistoryPoint), NEW a \in Adjustments
    PROVE  Delta(a) \in Int
<1>1. a.type \in AdjustmentTypes /\ a.value \in Int
    BY AdjustmentTyped
<1>2. /\ PerEmployee(a.department) * a.value \in Int
      /\ -(PerEmployee(a.department) * a.value) \in Int
    <2>1. PerEmployee(a.department) \in Nat
        BY AdjustmentTyped, PerEmployeeTyped
    <2> QED BY <1>1, <2>1
<1> DEFINE P == ProviderFacts
<1>3. P.cost \in Nat /\ P.seats \in Nat /\ P.perSeat \in Nat
    BY ForecastAssumptions
<1>4. (a.value - P.seats) * P.perSeat \in Int /\ -P.cost \in Int
    BY <1>1, <1>3
<1>5. (P.cost * 175) \div 1000 \in Int /\ -((P.cost * 175) \div 1000) \in Int
    BY <1>3
<1> HIDE DEF P
<1>6. CASE a.type = "add_employees"
    BY <1>2, <1>6 DEF Delta
<1>7. CASE a.type = "remove_employees"
    BY <1>2, <1>7 DEF Delta
<1>8. CASE a.type = "add_provider"
    BY <1>1, <1>8 DEF Delta
<1>9. CASE a.type = "remove_provider"
    BY <1>4, <1>9 DEF Delta, P
<1>10. CASE a.type = "change_seats"
    BY <1>4, <1>10 DEF Delta, P
<1>11. CASE a.type = "yearly_billing"
    BY <1>5, <1>11 DEF Delta, P
<1>12. CASE a.type = "monthly_billing"
    BY <1>5, <1>12 DEF Delta, P
<1> QED BY <1>1, <1>6, <1>7, <1>8, <1>9, <1>10, <1>11, <1>12 DEF AdjustmentTypes

Effects == [a \in Adjustments |-> Delta(a)]

LEMMA EffectsStay == UNCHANGED history => Effects' = Effects
<1> QED BY DEF Effects, Delta, PerEmployee

\* The adjustments in force in the i-th month, and what they add with the effects D.
InForce(app, i) == {j \in DOMAIN app : app[j].month <= i}

AddedBy(D, app, i) == SumFunction([j \in InForce(app, i) |-> D[app[j]]])

LEMMA AddedNothing == \A D, i : AddedBy(D, <<>>, i) = 0
<1> SUFFICES ASSUME NEW D, NEW i
             PROVE  AddedBy(D, <<>>, i) = 0
    OBVIOUS
<1>1. InForce(<<>>, i) = {}
    BY DEF InForce
<1> DEFINE f == [j \in InForce(<<>>, i) |-> D[<<>>[j]]]
<1>2. DOMAIN f = {}
    BY <1>1
<1> HIDE DEF f
<1>3. SumFunction(f) = 0
    BY <1>2, SumEmpty DEF SumFunction
<1> QED BY <1>3 DEF AddedBy, f

LEMMA InForceFinite ==
    ASSUME NEW app \in Seq(Adjustments), NEW i
    PROVE  IsFiniteSet(InForce(app, i)) /\ InForce(app, i) \subseteq 1 .. Len(app)
<1>1. InForce(app, i) \subseteq 1 .. Len(app)
    BY DEF InForce
<1>2. IsFiniteSet(1 .. Len(app))
    BY FS_Interval
<1> QED BY <1>1, <1>2, FS_Subset

LEMMA AddedOne ==
    ASSUME NEW D \in [Adjustments -> Int], NEW app \in Seq(Adjustments), NEW a \in Adjustments,
           NEW i \in Nat
    PROVE  /\ AddedBy(D, Append(app, a), i)
                  = AddedBy(D, app, i) + (IF a.month <= i THEN D[a] ELSE 0)
           /\ AddedBy(D, app, i) \in Int
<1> DEFINE n == Len(app)
           next == Append(app, a)
           J == InForce(app, i)
           K == InForce(next, i)
           f == [j \in J |-> D[app[j]]]
           e == [j \in K |-> D[next[j]]]
<1>1. /\ n \in Nat /\ next \in Seq(Adjustments) /\ Len(next) = n + 1 /\ next[n + 1] = a
      /\ \A j \in 1 .. n : next[j] = app[j] /\ app[j] \in Adjustments
      /\ DOMAIN app = 1 .. n /\ DOMAIN next = 1 .. n + 1
    OBVIOUS
<1>2. IsFiniteSet(J) /\ J \subseteq 1 .. n /\ IsFiniteSet(K) /\ K \subseteq 1 .. n + 1
    BY <1>1, InForceFinite
<1>3. \A j \in 1 .. n : j \in K <=> j \in J
    BY <1>1 DEF InForce
<1>4. n + 1 \in K <=> a.month <= i
    BY <1>1 DEF InForce
<1>5. \A j \in 1 .. n + 1 : j \in 1 .. n \/ j = n + 1
    BY <1>1
<1>6. n + 1 \notin J
    BY <1>1, <1>2
<1>7. IF a.month <= i THEN K \ {n + 1} = J /\ n + 1 \in K ELSE K = J
    <2>1. \A j : j \in K => j \in J \/ (j = n + 1 /\ a.month <= i)
        BY <1>2, <1>3, <1>4, <1>5
    <2>2. \A j : j \in J => j \in K
        BY <1>2, <1>3
    <2> HIDE DEF J, K, n
    <2>3. CASE a.month <= i
        <3>1. n + 1 \in K
            BY <1>4, <2>3
        <3>2. \A j : j \in K \ {n + 1} <=> j \in J
            BY <1>6, <2>1, <2>2
        <3>3. K \ {n + 1} = J
            BY <3>2
        <3> QED BY <2>3, <3>1, <3>3
    <2>4. CASE ~(a.month <= i)
        <3>1. \A j : j \in K <=> j \in J
            BY <2>1, <2>2, <2>4
        <3>2. K = J
            BY <3>1, Zenon
        <3> QED BY <2>4, <3>2
    <2> QED BY <2>3, <2>4
<1>8. /\ \A j \in J : f[j] \in Int /\ e[j] = f[j] /\ j \in K
      /\ \A j \in K : e[j] \in Int
    <2>1. \A j \in J : j \in 1 .. n /\ j \in K /\ next[j] = app[j] /\ app[j] \in Adjustments
        BY <1>1, <1>2, <1>3
    <2>2. \A j \in K : next[j] \in Adjustments
        BY <1>1, <1>2
    <2> QED BY <2>1, <2>2
<1>9. AddedBy(D, app, i) = SumFunctionOnSet(f, J) /\ AddedBy(D, next, i) = SumFunctionOnSet(e, K)
    <2>1. DOMAIN f = J /\ DOMAIN e = K
        OBVIOUS
    <2>2. AddedBy(D, app, i) = SumFunction(f) /\ AddedBy(D, next, i) = SumFunction(e)
        BY DEF AddedBy
    <2> HIDE DEF f, e
    <2> QED BY <2>1, <2>2 DEF SumFunction
<1>10. a.month <= i => e[n + 1] = D[a]
    BY <1>1, <1>4
<1>11. D[a] \in Int
    OBVIOUS
<1> HIDE DEF f, e, J, K, n
<1>12. SumFunctionOnSet(f, J) \in Int /\ SumFunctionOnSet(e, J) = SumFunctionOnSet(f, J)
    <2>1. SumFunctionOnSet(f, J) \in Int
        BY <1>2, <1>8, SumTyped
    <2>2. SumFunctionOnSet(e, J) = SumFunctionOnSet(f, J)
        BY <1>2, <1>8, SumSame
    <2> QED BY <2>1, <2>2
<1>13. CASE a.month <= i
    <2>1. SumFunctionOnSet(e, K) = e[n + 1] + SumFunctionOnSet(e, K \ {n + 1})
        <3>1. PICK x : x = n + 1
            OBVIOUS
        <3>2. IsFiniteSet(K) /\ x \in K /\ \A j \in K : e[j] \in Int
            BY <1>2, <1>7, <1>8, <1>13, <3>1
        <3>3. SumFunctionOnSet(e, K) = e[x] + SumFunctionOnSet(e, K \ {x})
            BY <3>2, SumRemove
        <3> QED BY <3>1, <3>3
    <2>2. SumFunctionOnSet(e, K) = D[a] + SumFunctionOnSet(f, J)
        BY <1>7, <1>10, <1>12, <1>13, <2>1
    <2> QED BY <1>9, <1>11, <1>12, <1>13, <2>2
<1>14. CASE ~(a.month <= i)
    BY <1>7, <1>9, <1>12, <1>14
<1> QED BY <1>9, <1>12, <1>13, <1>14

-----------------------------------------------------------------------------
(* The invariant: the history is made of snapshots, the points are those   *)
(* of the history, and a scenario not clamped is a sum.                    *)

PointsFit(h, pts) ==
    /\ h \in Seq(HistoryPoint) /\ pts \in Seq(Point) /\ Len(pts) = Len(h) + Horizon
    /\ \A i \in 1 .. Len(h) : pts[i] = PastPoint(h[i])

AppliedFit(app) == app \in Seq(Adjustments \cup Sliders) /\ Len(app) <= MaxAdjustments

ScenarioFits(h, pts, app, D) ==
    app \in Seq(Adjustments) =>
        \A i \in 1 .. Horizon :
            pts[Len(h) + i].cost = NextPoint(h, i).cost + AddedBy(D, app, i)

ForecastInv ==
    /\ PointsFit(history, points) /\ AppliedFit(applied)
    /\ ~clamped => ScenarioFits(history, points, applied, Effects)

LEMMA ForecastFits ==
    ASSUME NEW h \in Seq(HistoryPoint), NEW D
    PROVE  PointsFit(h, Forecast(h)) /\ ScenarioFits(h, Forecast(h), <<>>, D)
<1>1. PointsFit(h, Forecast(h))
    BY ForecastIs DEF PointsFit
<1>2. ASSUME NEW i \in 1 .. Horizon
      PROVE  Forecast(h)[Len(h) + i].cost = NextPoint(h, i).cost + AddedBy(D, <<>>, i)
    <2>1. i \in Nat
        BY ForecastAssumptions
    <2>2. Forecast(h)[Len(h) + i].cost = NextPoint(h, i).cost /\ NextPoint(h, i).cost \in Nat
        BY <2>1, ForecastIs, PointsTyped DEF Point
    <2> QED BY <2>2, AddedNothing
<1> QED BY <1>1, <1>2 DEF ScenarioFits

LEMMA NothingApplied == AppliedFit(<<>>)
<1> QED BY ForecastAssumptions DEF AppliedFit

LEMMA ForecastStarts == ForecastInit => ForecastInv
<1> SUFFICES ASSUME ForecastInit
             PROVE  ForecastInv
    OBVIOUS
<1>1. <<>> \in Seq(HistoryPoint)
    OBVIOUS
<1> QED BY <1>1, ForecastFits, NothingApplied DEF ForecastInit, ForecastInv

LEMMA SnapshotStep ==
    ASSUME ForecastInv, NEW cost \in MonthlyCosts, NEW skip \in 0 .. 1, NextSnapshot(cost, skip)
    PROVE  ForecastInv'
<1>1. history \in Seq(HistoryPoint)
    BY DEF ForecastInv, PointsFit
<1>2. PICK date \in ForecastDate : history' = Append(history, [month |-> date, cost |-> cost])
    <2>1. FirstMonth \in ForecastDate
        BY ForecastAssumptions DEF ForecastDate
    <2>2. history # <<>> => AddMonths(Last(history).month, 1 + skip) \in ForecastDate
        <3>1. 1 + skip \in Nat
            OBVIOUS
        <3>2. history # <<>> => Last(history).month \in ForecastDate
            BY <1>1, SnapshotTyped DEF HistoryPoint
        <3> QED BY <3>1, <3>2, AddMonthsIs
    <2> QED BY <2>1, <2>2 DEF NextSnapshot
<1>3. [month |-> date, cost |-> cost] \in HistoryPoint
    BY DEF HistoryPoint
<1>4. history' \in Seq(HistoryPoint)
    BY <1>1, <1>2, <1>3
<1>5. PointsFit(history', points') /\ ScenarioFits(history', points', applied', Effects')
    BY <1>4, ForecastFits DEF NextSnapshot
<1>6. AppliedFit(applied')
    BY NothingApplied DEF NextSnapshot
<1> QED BY <1>5, <1>6 DEF ForecastInv

LEMMA AppliedMore ==
    ASSUME NEW app, AppliedFit(app), Len(app) < MaxAdjustments, NEW a \in Adjustments
    PROVE  /\ AppliedFit(Append(app, a))
           /\ Append(app, a) \in Seq(Adjustments) => app \in Seq(Adjustments)
<1>1. /\ app \in Seq(Adjustments \cup Sliders) /\ Len(app) \in Nat /\ MaxAdjustments \in Nat
      /\ Append(app, a) \in Seq(Adjustments \cup Sliders) /\ Len(Append(app, a)) = Len(app) + 1
      /\ \A j \in 1 .. Len(app) : Append(app, a)[j] = app[j]
    BY ForecastAssumptions DEF AppliedFit
<1>2. AppliedFit(Append(app, a))
    BY <1>1 DEF AppliedFit
<1>3. ASSUME Append(app, a) \in Seq(Adjustments)
      PROVE  app \in Seq(Adjustments)
    <2>1. \A j \in 1 .. Len(app) : j \in 1 .. Len(Append(app, a))
        BY <1>1
    <2>2. \A j \in 1 .. Len(app) : app[j] \in Adjustments
        BY <1>1, <1>3, <2>1
    <2> QED BY <1>1, <2>2
<1> QED BY <1>2, <1>3

LEMMA AdjustedIs ==
    ASSUME PointsFit(history, points), NEW a \in Adjustments,
           NEW next, next = Adjusted(a)
    PROVE  /\ PointsFit(history, next)
           /\ \A i \in 1 .. Horizon : next[Len(history) + i].cost =
                 IF a.month <= i THEN Above(points[Len(history) + i].cost + Delta(a))
                 ELSE points[Len(history) + i].cost
<1> DEFINE n == Len(history)
<1>1. /\ n \in Nat /\ Horizon \in Nat /\ history \in Seq(HistoryPoint)
      /\ points \in Seq(Point) /\ Len(points) = n + Horizon /\ DOMAIN points = 1 .. n + Horizon
    BY SnapshotTyped, ForecastAssumptions DEF PointsFit
<1>2. Delta(a) \in Int /\ a.month \in Nat /\ a.month > 0
    BY <1>1, DeltaTyped, AdjustmentTyped
<1>3. Starts(a) = n + a.month
    <2>1. n \in Nat /\ a.month \in Nat
        BY <1>1, <1>2
    <2> QED BY <2>1 DEF Starts, FirstProjected
<1>4. PICK d \in Int : d = Delta(a)
    BY <1>2
<1>5. next = [i \in 1 .. n + Horizon |->
                 IF i >= n + a.month THEN [points[i] EXCEPT !.cost = Above(@ + d)] ELSE points[i]]
    BY <1>1, <1>3, <1>4 DEF Adjusted
<1>6. ASSUME NEW i \in 1 .. n + Horizon
      PROVE  /\ next[i] \in Point
             /\ next[i].cost = IF i >= n + a.month THEN Above(points[i].cost + d) ELSE points[i].cost
    <2>1. points[i] \in Point
        BY <1>1
    <2>2. PICK c \in Nat : c = Above(points[i].cost + d)
        BY <2>1, AboveTyped DEF Point
    <2>3. CASE i >= n + a.month
        <3>1. next[i] = [points[i] EXCEPT !.cost = c]
            BY <1>5, <2>2, <2>3
        <3> QED BY <2>1, <2>2, <2>3, <3>1 DEF Point
    <2>4. CASE ~(i >= n + a.month)
        <3>1. next[i] = points[i]
            BY <1>5, <2>4
        <3> QED BY <2>1, <2>4, <3>1
    <2> QED BY <2>3, <2>4
<1>7. next \in Seq(Point) /\ Len(next) = n + Horizon
    <2>1. next \in [1 .. n + Horizon -> Point]
        BY <1>5, <1>6
    <2> QED BY <1>1, <2>1
<1>8. \A i \in 1 .. n : next[i] = points[i]
    <2>1. \A i \in 1 .. n : i \in 1 .. n + Horizon /\ ~(i >= n + a.month)
        BY <1>1, <1>2
    <2> QED BY <1>5, <2>1
<1>9. PointsFit(history, next)
    BY <1>1, <1>7, <1>8 DEF PointsFit
<1>10. \A i \in 1 .. Horizon : n + i \in 1 .. n + Horizon /\ (n + i >= n + a.month <=> a.month <= i)
    BY <1>1, <1>2
<1>11. ASSUME NEW i \in 1 .. Horizon
       PROVE  next[n + i].cost = IF a.month <= i THEN Above(points[n + i].cost + Delta(a))
                                 ELSE points[n + i].cost
    BY <1>4, <1>6, <1>10
<1> QED BY <1>9, <1>11

LEMMA AdjustStep ==
    ASSUME ForecastInv, NEW a \in Adjustments, Adjust(a)
    PROVE  ForecastInv'
<1> DEFINE n == Len(history)
           D == Effects
<1>1. /\ n \in Nat /\ Horizon \in Nat /\ history \in Seq(HistoryPoint) /\ PointsFit(history, points)
      /\ points \in Seq(Point) /\ Len(points) = n + Horizon
    BY SnapshotTyped, ForecastAssumptions DEF PointsFit, ForecastInv
<1>2. PICK next : next = Adjusted(a) /\ points' = next
    BY DEF Adjust
<1>3. /\ PointsFit(history, next)
      /\ \A i \in 1 .. Horizon : next[n + i].cost =
            IF a.month <= i THEN Above(points[n + i].cost + Delta(a)) ELSE points[n + i].cost
    BY <1>1, <1>2, AdjustedIs
<1>4. PICK app : app = Append(applied, a) /\ applied' = app
    BY DEF Adjust
<1>5. AppliedFit(app) /\ (app \in Seq(Adjustments) => applied \in Seq(Adjustments))
    BY <1>4, AppliedMore DEF ForecastInv, Adjust
<1>6. D \in [Adjustments -> Int] /\ D[a] = Delta(a) /\ Delta(a) \in Int
    BY <1>1, DeltaTyped DEF Effects
<1>7. ASSUME ~clamped', app \in Seq(Adjustments), NEW i \in 1 .. Horizon
      PROVE  next[n + i].cost = NextPoint(history, i).cost + AddedBy(D, app, i)
    <2>1. ~clamped /\ \A j \in Starts(a) .. Len(points) : ~(points[j].cost + Delta(a) < 0)
        BY <1>7 DEF Adjust
    <2>2. i \in Nat /\ a.month \in Nat /\ n + i \in 1 .. n + Horizon
        BY <1>1, AdjustmentTyped
    <2>3. points[n + i].cost = NextPoint(history, i).cost + AddedBy(D, applied, i)
        BY <1>5, <1>7, <2>1 DEF ForecastInv, ScenarioFits
    <2>4. points[n + i] \in Point
        BY <1>1, <2>2
    <2>5. points[n + i].cost \in Nat
        BY <2>4 DEF Point
    <2>6. a.month <= i => Above(points[n + i].cost + Delta(a)) = points[n + i].cost + Delta(a)
        <3>1. Starts(a) = n + a.month
            BY <1>1, <2>2 DEF Starts, FirstProjected
        <3>2. a.month <= i => n + i \in Starts(a) .. Len(points)
            BY <1>1, <2>2, <3>1
        <3>3. a.month <= i => points[n + i].cost + Delta(a) >= 0
            BY <1>6, <2>1, <2>5, <3>2
        <3> QED BY <1>6, <2>5, <3>3, AboveTyped
    <2>7. /\ AddedBy(D, app, i) = AddedBy(D, applied, i) + (IF a.month <= i THEN D[a] ELSE 0)
          /\ AddedBy(D, applied, i) \in Int
        BY <1>4, <1>5, <1>6, <1>7, <2>2, AddedOne
    <2>8. NextPoint(history, i).cost \in Nat
        BY <1>1, <2>2, PointsTyped DEF Point
    <2>9. next[n + i].cost = IF a.month <= i THEN points[n + i].cost + Delta(a)
                             ELSE points[n + i].cost
        BY <1>3, <2>6
    <2> HIDE DEF D, n
    <2> QED BY <1>6, <2>3, <2>7, <2>8, <2>9
<1>8. ~clamped' => ScenarioFits(history, next, app, D)
    BY <1>7 DEF ScenarioFits
<1>9. UNCHANGED history /\ Effects' = Effects
    BY EffectsStay DEF Adjust
<1> QED BY <1>2, <1>3, <1>4, <1>5, <1>8, <1>9 DEF ForecastInv

LEMMA SlidersDiffer == Sliders \cap Adjustments = {}
<1> SUFFICES ASSUME NEW s \in Sliders, s \in Adjustments
             PROVE  FALSE
    OBVIOUS
<1>1. DOMAIN s = {"price", "people"}
    BY ForecastAssumptions
<1>2. DOMAIN s = {"type", "department", "value", "month"}
    BY ForecastAssumptions
<1> QED BY <1>1, <1>2

LEMMA SlideStep ==
    ASSUME ForecastInv, NEW s \in Sliders, Slide(s)
    PROVE  ForecastInv'
<1> DEFINE n == Len(history)
           people == Departments["all"].people
           factor == (100 + s.price) * (IF people > 0 THEN people + s.people ELSE 1)
           whole == 100 * (IF people > 0 THEN people ELSE 1)
<1>1. /\ n \in Nat /\ Horizon \in Nat /\ history \in Seq(HistoryPoint) /\ PointsFit(history, points)
      /\ points \in Seq(Point) /\ Len(points) = n + Horizon /\ DOMAIN points = 1 .. n + Horizon
    BY SnapshotTyped, ForecastAssumptions DEF PointsFit, ForecastInv
<1>2. people \in Nat /\ s.price \in Int /\ s.people \in Int
    BY ForecastAssumptions
<1>3. factor \in Int /\ whole \in Nat /\ whole > 0
    <2> HIDE DEF people
    <2> QED BY <1>2
<1>4. PICK next : next = Slid(s) /\ points' = next
    BY DEF Slide
<1>5. next = [i \in DOMAIN points |->
                 IF points[i].past THEN points[i]
                 ELSE [points[i] EXCEPT !.cost = Above(@ * factor) \div whole]]
    BY <1>4 DEF Slid
<1> HIDE DEF factor, whole
<1>6. ASSUME NEW i \in 1 .. n + Horizon
      PROVE  next[i] \in Point /\ (points[i].past => next[i] = points[i])
    <2>0. points[i] \in Point
        BY <1>1
    <2>1. points[i] \in Point /\ points[i].past \in BOOLEAN /\ points[i].cost \in Nat
        BY <2>0 DEF Point
    <2>2. PICK c \in Nat : c = Above(points[i].cost * factor) \div whole
        <3>1. points[i].cost * factor \in Int
            BY <1>3, <2>1
        <3>2. Above(points[i].cost * factor) \in Nat
            BY <3>1, AboveTyped
        <3> QED BY <1>3, <3>2, NatQuotients
    <2>3. CASE points[i].past
        BY <1>1, <1>5, <2>1, <2>3
    <2>4. CASE ~points[i].past
        <3>1. next[i] = [points[i] EXCEPT !.cost = c]
            BY <1>1, <1>5, <2>2, <2>4
        <3> QED BY <2>1, <2>4, <3>1 DEF Point
    <2> QED BY <2>1, <2>3, <2>4
<1>7. next \in Seq(Point) /\ Len(next) = n + Horizon
    <2>1. next \in [1 .. n + Horizon -> Point]
        BY <1>1, <1>5, <1>6
    <2> QED BY <1>1, <2>1
<1>8. \A i \in 1 .. n : next[i] = PastPoint(history[i])
    <2>1. \A i \in 1 .. n : i \in 1 .. n + Horizon
        BY <1>1
    <2>2. \A i \in 1 .. n : points[i] = PastPoint(history[i])
        BY <1>1 DEF PointsFit
    <2>3. \A i \in 1 .. n : points[i].past
        <3> SUFFICES ASSUME NEW i \in 1 .. n
                     PROVE  points[i].past
            OBVIOUS
        <3>1. points[i] = [month |-> history[i].month, cost |-> history[i].cost, past |-> TRUE]
            BY <2>2 DEF PastPoint
        <3> QED BY <3>1
    <2> QED BY <1>6, <2>1, <2>2, <2>3
<1>9. PointsFit(history, next)
    BY <1>1, <1>7, <1>8 DEF PointsFit
<1>10. PICK app : app = [i \in 1 .. MaxAdjustments |-> s] /\ applied' = app
    BY DEF Slide
<1>11. MaxAdjustments \in Nat /\ 1 \in 1 .. MaxAdjustments
    BY ForecastAssumptions
<1>12. app \in Seq(Adjustments \cup Sliders) /\ Len(app) = MaxAdjustments /\ app[1] = s
    <2>1. app \in [1 .. MaxAdjustments -> Adjustments \cup Sliders] /\ app[1] = s
        BY <1>10, <1>11
    <2> QED BY <1>11, <2>1
<1>13. AppliedFit(app)
    BY <1>11, <1>12 DEF AppliedFit
<1>14. app \notin Seq(Adjustments)
    <2>1. s \notin Adjustments
        BY SlidersDiffer
    <2> QED BY <1>11, <1>12, <2>1
<1>15. UNCHANGED history
    BY DEF Slide
<1> QED BY <1>4, <1>9, <1>10, <1>13, <1>14, <1>15 DEF ForecastInv, ScenarioFits

LEMMA ForecastStep == ForecastInv /\ [ForecastNext]_forecastVars => ForecastInv'
<1> SUFFICES ASSUME ForecastInv, [ForecastNext]_forecastVars
             PROVE  ForecastInv'
    OBVIOUS
<1>1. CASE UNCHANGED forecastVars
    BY <1>1, EffectsStay DEF forecastVars, ForecastInv
<1>2. CASE ForecastNext
    BY <1>2, SnapshotStep, AdjustStep, SlideStep DEF ForecastNext
<1> QED BY <1>1, <1>2

LEMMA ForecastKept == ForecastSpec => []ForecastInv
<1> QED BY ForecastStarts, ForecastStep, PTL DEF ForecastSpec

\* The points on the screen are always well formed: a cost that is not negative for every
\* month of the history and of the horizon.
THEOREM ForecastTypes == ForecastSpec => []ForecastTypeOK
<1>1. ForecastInv => ForecastTypeOK
    <2> SUFFICES ASSUME ForecastInv
                 PROVE  ForecastTypeOK
        OBVIOUS
    <2>1. points \in Seq(Point) /\ Len(points) = Len(history) + Horizon
          /\ Len(applied) <= MaxAdjustments
        BY DEF ForecastInv, PointsFit, AppliedFit
    <2>2. \A i \in DOMAIN points : points[i] \in Point
        BY <2>1
    <2>3. \A i \in DOMAIN points : points[i].cost \in Nat /\ points[i].month.month \in 1 .. 12
        BY <2>2 DEF Point, ForecastDate
    <2> QED BY <2>1, <2>3 DEF ForecastTypeOK
<1> QED BY <1>1, ForecastKept, PTL

LEMMA ScenarioSums == ForecastInv => ScenarioIsSum
<1> SUFFICES ASSUME ForecastInv
             PROVE  ScenarioIsSum
    OBVIOUS
<1>1. /\ history \in Seq(HistoryPoint) /\ DOMAIN history = 1 .. Len(history)
      /\ \A i \in 1 .. Len(history) : points[i] = PastPoint(history[i])
    BY SnapshotTyped DEF ForecastInv, PointsFit
<1>2. \A i \in DOMAIN history : points[i] = Past(history)[i]
    BY <1>1 DEF Past, PastPoint
<1>3. ASSUME ~clamped, \A j \in DOMAIN applied : applied[j] \in Adjustments, NEW i \in 1 .. Horizon
      PROVE  points[Len(history) + i].cost =
                 Forecast(history)[Len(history) + i].cost
                     + SumFunction([j \in {j \in DOMAIN applied : applied[j].month <= i} |->
                                       Delta(applied[j])])
    <2>1. applied \in Seq(Adjustments)
        BY <1>3 DEF ForecastInv, AppliedFit
    <2>2. points[Len(history) + i].cost = NextPoint(history, i).cost + AddedBy(Effects, applied, i)
        BY <1>3, <2>1 DEF ForecastInv, ScenarioFits
    <2>3. Forecast(history)[Len(history) + i] = NextPoint(history, i)
        BY <1>1, ForecastIs
    <2>4. [j \in InForce(applied, i) |-> Effects[applied[j]]]
              = [j \in InForce(applied, i) |-> Delta(applied[j])]
        BY <1>3 DEF InForce, Effects
    <2> QED BY <2>2, <2>3, <2>4 DEF AddedBy, InForce
<1> QED BY <1>2, <1>3 DEF ScenarioIsSum

(* forecast_service, for any history, horizon and number of adjustments:   *)
(* the regression of costs that change evenly goes on with that line, the  *)
(* months follow one another over the end of a year, contracts end the     *)
(* costs they carry, and a scenario is the forecast plus the adjustments   *)
(* in force, month by month.                                               *)
THEOREM ForecastsAreSound == ForecastSpec => []ForecastsSound
<1>1. ForecastInv => ForecastsSound
    BY LineGoesOn, ScenarioSums DEF ForecastsSound, ForecastInv, PointsFit
<1> QED BY <1>1, ForecastKept, PTL
===============================================================================
