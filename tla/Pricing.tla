-------------------------------- MODULE Pricing --------------------------------
(***************************************************************************)
(* What the licences of one provider cost (pricing_service, the pricing    *)
(* part of sync_service, the change of a licence's type).  The prices are  *)
(* kept in the provider's config: one for a package, one per licence type, *)
(* one per part of a combined type; the number of seats of the package     *)
(* arrives with a synchronisation.  A cost is written into the rows when   *)
(* a price is set, when a type is changed, and by every synchronisation.   *)
(*                                                                         *)
(* Transactions run at READ COMMITTED: a read sees what is committed, an   *)
(* UPDATE waits for rows that another transaction has written, and the ORM *)
(* writes only columns that differ from what it loaded.                    *)
(*                                                                         *)
(* A price is a number, already per month; 0 is "not given".  A cost tells *)
(* which price it comes from.  Currencies, billing cycles and display      *)
(* names are left out.                                                     *)
(***************************************************************************)
EXTENDS Naturals, FiniteSets, Functions

CONSTANTS
    Licences,       \* licences that the provider may report
    Parts,          \* licence types that are not combined
    Kinds,          \* licence types: sets of parts, never empty
    MaxPrice,       \* bound: the highest price
    MaxSeats,       \* bound: the largest package
    PriceRequests,  \* slots for requests
    AskedPrices,    \* [package, types]: what PUT pricing is asked for
    AskedParts,     \* [Parts -> Prices]: what PUT individual-pricing is asked for
    Answers,        \* [kind, active, own]: what the provider says of a licence
    MaxWrites       \* bound: requests and syncs that are begun

Prices == 0 .. MaxPrice
Seats == 0 .. MaxSeats

ASSUME PricingAssumptions ==
    /\ MaxPrice \in Nat /\ MaxSeats \in Nat /\ MaxWrites \in Nat
    /\ IsFiniteSet(Parts) /\ Kinds \subseteq (SUBSET Parts) \ {{}}
    /\ AskedPrices \subseteq [package: Prices, types: [Kinds -> Prices]]
    /\ AskedParts \subseteq [Parts -> Prices]
    /\ Answers \subseteq [kind: Kinds, active: BOOLEAN, own: Prices]

VARIABLES
    prices,         \* the provider's config
    reported,       \* seats that the provider reports
    priceRow,       \* [Licences -> Licence or Missing]
    priceReq,       \* [PriceRequests -> the request in the slot]
    sync,           \* the open synchronisation of the provider
    begun,          \* number of requests and syncs
    lost,           \* history: a config was written over one that was not read
    raced,          \* history: licences written from a row or a config that had changed
    crossed         \* history: licences that a sync committed under a package update

pricingVars == <<prices, reported, priceRow, priceReq, sync, begun, lost, raced, crossed>>

-----------------------------------------------------------------------------
\* stored: the JSON object is not empty.
PriceConfig ==
    [stored: BOOLEAN, package: Prices, types: [Kinds -> Prices], parts: [Parts -> Prices],
     seats: Seats]

EmptyConfig ==
    [stored |-> FALSE, package |-> 0, types |-> [k \in Kinds |-> 0],
     parts |-> [p \in Parts |-> 0], seats |-> 0]

Cost == [from: {"package"}, price: Prices, seats: Seats]
        \cup [from: {"type", "parts", "provider", "none"}, price: Nat]

NoCost == [from |-> "none", price |-> 0]
CostOf(from, price) == IF price = 0 THEN NoCost ELSE [from |-> from, price |-> price]
PackageCost(c) == [from |-> "package", price |-> c.package, seats |-> c.seats]

Licence == [kind: Kinds, active: BOOLEAN, cost: Cost]
Missing == [kind |-> {}, active |-> FALSE, cost |-> NoCost]
Present == {l \in Licences : priceRow[l] # Missing}

Spread(c) == c.package > 0 /\ c.seats > 0

\* A sync: the package takes precedence, then the price of the type, then the answer.
SyncCost(c, a) ==
    IF Spread(c) THEN PackageCost(c)
    ELSE IF c.types[a.kind] > 0 THEN CostOf("type", c.types[a.kind])
    ELSE CostOf("provider", a.own)

\* A change of type knows the price per type only.
RetypeCost(c, k) == CostOf("type", c.types[k])

\* The sum over the parts of a combined type.
PartsCost(c, k) == CostOf("parts", SumFunctionOnSet(c.parts, k))

-----------------------------------------------------------------------------
(* Transactions.  wrote: rows written and not yet committed, which others  *)
(* wait for; locks: the provider's row is written.                         *)
IdlePrices ==
    [op |-> "none", step |-> "idle", read |-> EmptyConfig, asked |-> <<>>, locks |-> FALSE,
     wrote |-> <<>>]
IdleSync == [on |-> FALSE, read |-> EmptyConfig, done |-> {}, at |-> <<>>, wrote |-> <<>>]

PriceRequest(op, asked) ==
    [op |-> op, step |-> "begun", read |-> prices, asked |-> asked, locks |-> FALSE, wrote |-> <<>>]

RowWriters(l) == {r \in PriceRequests : l \in DOMAIN priceReq[r].wrote}

RowFree(r, l) == RowWriters(l) \subseteq {r} /\ l \notin DOMAIN sync.wrote
\* Mutant: the provider's row is written without waiting for a synchronisation.
NotWaiting(r) == \A s \in PriceRequests \ {r} : ~priceReq[s].locks

ProviderFree(r) == ~sync.on /\ \A s \in PriceRequests \ {r} : ~priceReq[s].locks

\* What a patch makes of a row: the columns that differ from the loaded ones.
Patched(row, loaded, new) ==
    [f \in {"kind", "active", "cost"} |-> IF loaded[f] = new[f] THEN row[f] ELSE new[f]]

Over(rows, wrote) == [l \in Licences |-> IF l \in DOMAIN wrote THEN wrote[l] ELSE rows[l]]

PricingInit ==
    /\ prices = EmptyConfig
    /\ reported = 0
    /\ priceRow = [l \in Licences |-> Missing]
    /\ priceReq = [r \in PriceRequests |-> IdlePrices]
    /\ sync = IdleSync
    /\ begun = 0
    /\ lost = FALSE /\ raced = {} /\ crossed = {}

Count == begun < MaxWrites /\ begun' = begun + 1

\* The provider sells another package.
Resize(n) ==
    /\ begun < MaxWrites
    /\ reported' = n
    /\ UNCHANGED <<prices, priceRow, priceReq, sync, begun, lost, raced, crossed>>

-----------------------------------------------------------------------------
(* PUT pricing: the package's cost goes to the active rows first, then the *)
(* config is written, then the price of each type goes to its rows.        *)
BeginPrices(r, asked) ==
    /\ priceReq[r] = IdlePrices
    /\ Count
    /\ priceReq' = [priceReq EXCEPT ![r] = PriceRequest("prices", asked)]
    /\ UNCHANGED <<prices, reported, priceRow, sync, lost, raced, crossed>>

AskedConfig(r) ==
    LET q == priceReq[r] IN
    IF q.op = "prices"
    THEN [q.read EXCEPT !.stored = TRUE, !.package = q.asked.package, !.types = q.asked.types]
    ELSE [q.read EXCEPT !.stored = TRUE, !.parts = q.asked]

PackageReaches == {l \in Present : priceRow[l].active}

PackagePrices(r) ==
    /\ priceReq[r].op = "prices" /\ priceReq[r].step = "begun"
    /\ LET c == AskedConfig(r)
           reached == IF Spread(c) THEN PackageReaches ELSE {}
       IN  /\ \A l \in reached : RowFree(r, l)
           /\ priceReq' = [priceReq EXCEPT
                ![r].step = "spread",
                ![r].wrote = [l \in reached |-> [priceRow[l] EXCEPT !.cost = PackageCost(c)]]]
    /\ UNCHANGED <<prices, reported, priceRow, sync, begun, lost, raced, crossed>>

\* The UPDATE of the provider's row, with all that is in its config.
StorePrices(r) ==
    /\ \/ priceReq[r].op = "prices" /\ priceReq[r].step = "spread"
       \/ priceReq[r].op = "parts" /\ priceReq[r].step = "begun"
    /\ ProviderFree(r)
    /\ lost' = (lost \/ prices # priceReq[r].read)
    /\ priceReq' = [priceReq EXCEPT ![r].step = "stored", ![r].locks = TRUE]
    /\ UNCHANGED <<prices, reported, priceRow, sync, begun, raced, crossed>>

\* One UPDATE per priced type, whatever the status, and the commit.
TypedRows(r) == {l \in Present : AskedConfig(r).types[Over(priceRow, priceReq[r].wrote)[l].kind] > 0}

CommitPrices(r) ==
    /\ priceReq[r].op = "prices" /\ priceReq[r].step = "stored"
    /\ LET c == AskedConfig(r)
           mine == Over(priceRow, priceReq[r].wrote)
           typed == TypedRows(r)
       IN  /\ \A l \in typed : RowFree(r, l)
           /\ priceRow' = [l \in Licences |->
                IF l \in typed THEN [mine[l] EXCEPT !.cost = CostOf("type", c.types[mine[l].kind])]
                ELSE mine[l]]
           /\ prices' = c
    /\ priceReq' = [priceReq EXCEPT ![r] = IdlePrices]
    /\ UNCHANGED <<reported, sync, begun, lost, raced, crossed>>

(* PUT individual-pricing: the sums of the parts go to every row, by id,   *)
(* as the types were when they were read.                                  *)
BeginParts(r, asked) ==
    /\ priceReq[r] = IdlePrices
    /\ Count
    /\ priceReq' = [priceReq EXCEPT ![r] = PriceRequest("parts", asked)]
    /\ UNCHANGED <<prices, reported, priceRow, sync, lost, raced, crossed>>

ReadParts(r) ==
    /\ priceReq[r].op = "parts" /\ priceReq[r].step = "stored"
    /\ priceReq' = [priceReq EXCEPT
            ![r].step = "summed",
            ![r].asked = [l \in Present |-> PartsCost(AskedConfig(r), priceRow[l].kind)],
            ![r].read = AskedConfig(r)]
    /\ UNCHANGED <<prices, reported, priceRow, sync, begun, lost, raced, crossed>>

CommitParts(r) ==
    /\ priceReq[r].step = "summed"
    /\ LET sums == priceReq[r].asked
       IN  /\ \A l \in DOMAIN sums : RowFree(r, l)
           /\ priceRow' = [l \in Licences |->
                IF l \in DOMAIN sums THEN [priceRow[l] EXCEPT !.cost = sums[l]] ELSE priceRow[l]]
    /\ prices' = priceReq[r].read
    /\ priceReq' = [priceReq EXCEPT ![r] = IdlePrices]
    /\ UNCHANGED <<reported, sync, begun, lost, raced, crossed>>

(* A licence gets another type. *)
BeginRetype(r, l, k) ==
    /\ priceReq[r] = IdlePrices
    /\ l \in Present
    /\ Count
    /\ priceReq' = [priceReq EXCEPT ![r] =
            PriceRequest("retype", [licence |-> l, kind |-> k, loaded |-> priceRow[l]])]
    /\ UNCHANGED <<prices, reported, priceRow, sync, lost, raced, crossed>>

CommitRetype(r) ==
    /\ priceReq[r].op = "retype"
    /\ LET c == priceReq[r].read
           q == priceReq[r].asked
           l == q.licence
           new == [q.loaded EXCEPT !.kind = q.kind, !.cost = RetypeCost(c, q.kind)]
       IN  /\ RowFree(r, l)
           /\ priceRow' = [priceRow EXCEPT ![l] = Patched(@, q.loaded, new)]
           /\ raced' = IF priceRow[l] # q.loaded \/ prices # c THEN raced \cup {l} ELSE raced
    /\ priceReq' = [priceReq EXCEPT ![r] = IdlePrices]
    /\ UNCHANGED <<prices, reported, sync, begun, lost, crossed>>

\* PUT provider with a config: all of it is replaced.
ReplaceConfig ==
    /\ Count
    /\ \A r \in PriceRequests : ~priceReq[r].locks
    /\ ~sync.on
    /\ prices' = EmptyConfig
    /\ UNCHANGED <<reported, priceRow, priceReq, sync, lost, raced, crossed>>

\* A lock that is not granted, a deadlock that PostgreSQL breaks, a lost connection.
AbortPrices(r) ==
    /\ priceReq[r] # IdlePrices
    /\ priceReq' = [priceReq EXCEPT ![r] = IdlePrices]
    /\ UNCHANGED <<prices, reported, priceRow, sync, begun, lost, raced, crossed>>

-----------------------------------------------------------------------------
(* A synchronisation: IN_PROGRESS is written into the provider's row       *)
(* before its config is read, and locks it up to the commit.               *)
BeginSync ==
    /\ ~sync.on
    /\ \A r \in PriceRequests : ~priceReq[r].locks
    /\ Count
    /\ sync' = [IdleSync EXCEPT !.on = TRUE, !.read = prices]
    /\ UNCHANGED <<prices, reported, priceRow, priceReq, lost, raced, crossed>>

\* A member that the provider lists twice is written twice in the same transaction, which
\* holds the row by then; done leaves the first of the two writings out.
LoadLicence(l) ==
    /\ sync.on /\ sync.at = <<>> /\ l \notin sync.done
    /\ sync' = [sync EXCEPT !.at = [x \in {l} |-> priceRow[x]]]
    /\ UNCHANGED <<prices, reported, priceRow, priceReq, begun, lost, raced, crossed>>

WriteLicence(l, a) ==
    /\ l \in DOMAIN sync.at
    /\ RowWriters(l) = {}
    /\ LET new == [kind |-> a.kind, active |-> a.active, cost |-> SyncCost(sync.read, a)]
       IN  sync' = [sync EXCEPT !.at = <<>>, !.done = @ \cup {l},
                        !.wrote = [x \in DOMAIN sync.wrote \cup {l} |->
                            IF x = l THEN Patched(priceRow[l], sync.at[l], new)
                            ELSE sync.wrote[x]]]
    /\ raced' = IF priceRow[l] # sync.at[l] THEN raced \cup {l} ELSE raced
    /\ UNCHANGED <<prices, reported, priceRow, priceReq, begun, lost, crossed>>

\* The metadata is put into the config that was read: the ORM sees a change only when that
\* was empty, for then the object is a new one.
WithSeats(c) == IF c.stored \/ reported = 0 THEN c ELSE [c EXCEPT !.stored = TRUE, !.seats = reported]

CommitSync ==
    /\ sync.on /\ sync.at = <<>>
    /\ priceRow' = Over(priceRow, sync.wrote)
    /\ prices' = WithSeats(sync.read)
    /\ crossed' = crossed \cup
            IF \E r \in PriceRequests : priceReq[r].step = "spread"
            THEN DOMAIN sync.wrote ELSE {}
    /\ sync' = IdleSync
    /\ UNCHANGED <<reported, priceReq, begun, lost, raced>>

AbortSync ==
    /\ sync.on
    /\ sync' = IdleSync
    /\ UNCHANGED <<prices, reported, priceRow, priceReq, begun, lost, raced, crossed>>

PricingNext ==
    \/ \E n \in Seats : Resize(n)
    \/ \E r \in PriceRequests :
        \/ \E asked \in AskedPrices : BeginPrices(r, asked)
        \/ PackagePrices(r) \/ StorePrices(r) \/ CommitPrices(r)
        \/ \E asked \in AskedParts : BeginParts(r, asked)
        \/ ReadParts(r) \/ CommitParts(r)
        \/ \E l \in Licences, k \in Kinds : BeginRetype(r, l, k)
        \/ CommitRetype(r) \/ AbortPrices(r)
    \/ ReplaceConfig
    \/ BeginSync \/ CommitSync \/ AbortSync
    \/ \E l \in Licences : LoadLicence(l) \/ \E a \in Answers : WriteLicence(l, a)

PricingSpec == PricingInit /\ [][PricingNext]_pricingVars

-----------------------------------------------------------------------------
\* Type correctness of the prices, the rows and the open synchronisation.
PricingTypeOK ==
    /\ prices \in PriceConfig
    /\ reported \in Seats
    /\ priceRow \in [Licences -> Licence \cup {Missing}]
    /\ \A r \in PriceRequests :
        /\ priceReq[r].op \in {"none", "prices", "parts", "retype"}
        /\ priceReq[r].read \in PriceConfig
        /\ DOMAIN priceReq[r].wrote \subseteq Licences
    /\ sync.read \in PriceConfig /\ sync.done \subseteq Licences
    /\ lost \in BOOLEAN /\ raced \subseteq Licences /\ crossed \subseteq Licences

\* A cost that comes from the price of a type is the price that this type has now (unless
\* it has none any more), however changes of prices, changes of types and synchronisations
\* overlap, as long as no transaction wrote from a row or a config that had changed since
\* it was read: the synchronisation reads the config under the lock under which a request
\* for prices updates the rows.
TypePriceCurrent ==
    \A l \in Present \ raced :
        LET row == priceRow[l] IN
        row.cost.from = "type" /\ prices.types[row.kind] > 0 /\ ~lost
            => row.cost.price = prices.types[row.kind]

\* An active licence with the cost of a package has the cost of the present package, even
\* though the request updates the rows before it has the provider's lock, except where a
\* synchronisation commits between these two.
PackagePriceCurrent ==
    \A l \in Present \ (raced \cup crossed) :
        LET row == priceRow[l] IN
        row.active /\ row.cost.from = "package" /\ Spread(prices) /\ ~lost
            => row.cost = PackageCost(prices)

\* Both: the cost of a licence is the one its provider's prices give it now.
PricesCurrent == TypePriceCurrent /\ PackagePriceCurrent
==============================================================================
