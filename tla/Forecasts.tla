------------------------------- MODULE Forecasts -------------------------------
(***************************************************************************)
(* Cost forecasts and scenarios (forecast_service).  The history is the    *)
(* row of each month; the forecast is its regression line (a weighted mean *)
(* of one or two months), never below zero; a scenario applies adjustments *)
(* to the projected months one after the other.                            *)
(*                                                                         *)
(* Money is counted in whole units, rounded down; confidence intervals,    *)
(* headcount projections and percentages of change are left out.           *)
(***************************************************************************)
EXTENDS Integers, Sequences, Functions, SequencesExt

CONSTANTS
    FirstMonth,     \* [year, month]: the month of the first snapshot
    MonthlyCosts,   \* the costs that a snapshot may have
    MaxHistory,     \* bound: snapshots
    Horizon,        \* the months to forecast
    Adjustments,    \* what a scenario may ask for, from a month on (1 is the next one)
    MaxAdjustments, \* bound: adjustments of a scenario
    Sliders,        \* [price: percent, people: change]
    Contracts,      \* [end, renews]: packages of a provider; end may be NoEnd
    NoEnd,
    Departments,    \* [name -> cost and number of employees], "all" for everybody
    ProviderFacts   \* cost, seats and cost per seat of the provider in the adjustments

ASSUME ForecastAssumptions ==
    /\ MonthlyCosts \subseteq Nat
    /\ MaxHistory \in Nat /\ Horizon \in Nat /\ MaxAdjustments \in Nat \ {0}
    /\ FirstMonth \in [year : Nat, month : 1 .. 12]
    /\ "all" \in DOMAIN Departments
    /\ \A d \in DOMAIN Departments : Departments[d] \in [cost : Nat, people : Nat]
    /\ ProviderFacts \in [cost : Nat, seats : Nat, perSeat : Nat]
    /\ Adjustments \subseteq
          [type : {"add_employees", "remove_employees", "add_provider", "remove_provider",
                   "change_seats", "yearly_billing", "monthly_billing"},
           department : DOMAIN Departments, value : Nat, month : Nat \ {0}]
    /\ Sliders \subseteq [price : Int, people : Int]

VARIABLES
    history,        \* the snapshots of all providers together
    points,         \* the forecast on the screen
    applied,        \* the adjustments so far
    clamped,        \* history: some month would have got below zero
    gap             \* history: a month has no snapshot

forecastVars == <<history, points, applied, clamped, gap>>

-----------------------------------------------------------------------------
AddMonths(date, n) ==
    LET total == date.month + n
    IN  [year |-> date.year + (total - 1) \div 12, month |-> ((total - 1) % 12) + 1]

Later(d, e) == d.year > e.year \/ (d.year = e.year /\ d.month > e.month)

\* Mutant: costs may fall below zero.
NotClamped(n) == n

Above(n) == IF n < 0 THEN 0 ELSE n

Past(h) == [i \in 1 .. Len(h) |-> [month |-> h[i].month, cost |-> h[i].cost, past |-> TRUE]]

\* The value of the line (or of the mean) i months after the last one: with the slope
\* num / den, the mean of the costs plus the slope times the distance from the mean month.
Predict(h, i) ==
    LET n == Len(h)
        X == SumFunction([x \in 0 .. n - 1 |-> x])
        Y == SumFunction([x \in 0 .. n - 1 |-> h[x + 1].cost])
        num == n * SumFunction([x \in 0 .. n - 1 |-> x * h[x + 1].cost]) - X * Y
        den == n * SumFunction([x \in 0 .. n - 1 |-> x * x]) - X * X
    IN  IF n = 1 THEN h[1].cost
        ELSE IF n = 2 THEN (3 * h[1].cost + 7 * h[2].cost) \div 10
        ELSE Above(Y * den + num * (n * (n - 1 + i) - X)) \div (n * den)

Forecast(h) ==
    Past(h) \o
    [i \in 1 .. Horizon |->
        [month |-> AddMonths(IF h = <<>> THEN FirstMonth ELSE Last(h).month, i),
         cost |-> IF h = <<>> THEN 0 ELSE Predict(h, i),
         past |-> FALSE]]

\* A provider: nothing after the first end of its packages when one of them is not renewed.
ProviderForecast(h, packages) ==
    LET ends == {p \in packages : p.end # NoEnd}
        ended(d) == /\ \E p \in ends : ~p.renews
                    /\ \E p \in ends : Later(d, p.end)
    IN  [i \in DOMAIN Forecast(h) |->
            IF ~Forecast(h)[i].past /\ ended(Forecast(h)[i].month)
            THEN [Forecast(h)[i] EXCEPT !.cost = 0] ELSE Forecast(h)[i]]

-----------------------------------------------------------------------------
(* What an adjustment adds to a month.                                     *)
PerEmployee(department) ==
    IF department = "all"
    THEN IF Departments["all"].people > 0 /\ history # <<>>
         THEN Last(history).cost \div Departments["all"].people ELSE 0
    ELSE IF Departments[department].people > 0
         THEN Departments[department].cost \div Departments[department].people ELSE 0

Delta(a) ==
    CASE a.type = "add_employees" -> PerEmployee(a.department) * a.value
      [] a.type = "remove_employees" -> -(PerEmployee(a.department) * a.value)
      [] a.type = "add_provider" -> a.value
      [] a.type = "remove_provider" -> -ProviderFacts.cost
      [] a.type = "change_seats" -> (a.value - ProviderFacts.seats) * ProviderFacts.perSeat
      [] a.type = "yearly_billing" -> -((ProviderFacts.cost * 175) \div 1000)
      [] a.type = "monthly_billing" -> (ProviderFacts.cost * 175) \div 1000

FirstProjected == Len(history) + 1

\* Mutant: the effective month is taken as counted from 0.
StartsNextMonth(a) == FirstProjected + a.month

Starts(a) == FirstProjected + a.month - 1

Adjusted(a) ==
    [i \in DOMAIN points |->
        IF i >= Starts(a) THEN [points[i] EXCEPT !.cost = Above(@ + Delta(a))] ELSE points[i]]

\* Prices and headcount as factors of every projected month.
Slid(s) ==
    LET people == Departments["all"].people
        factor == (100 + s.price) * (IF people > 0 THEN people + s.people ELSE 1)
        whole == 100 * (IF people > 0 THEN people ELSE 1)
    IN  [i \in DOMAIN points |->
            IF points[i].past THEN points[i]
            ELSE [points[i] EXCEPT !.cost = Above(@ * factor) \div whole]]

-----------------------------------------------------------------------------
ForecastInit ==
    /\ history = <<>>
    /\ points = Forecast(<<>>)
    /\ applied = <<>>
    /\ clamped = FALSE /\ gap = FALSE

\* A month gets its snapshot; after `skip` months without one.
NextSnapshot(cost, skip) ==
    /\ Len(history) < MaxHistory
    /\ LET date == IF history = <<>> THEN FirstMonth
                   ELSE AddMonths(Last(history).month, 1 + skip)
       IN  history' = Append(history, [month |-> date, cost |-> cost])
    /\ points' = Forecast(history')
    /\ applied' = <<>> /\ clamped' = FALSE
    /\ gap' = (gap \/ skip > 0)

Adjust(a) ==
    /\ Len(applied) < MaxAdjustments
    /\ points' = Adjusted(a)
    /\ applied' = Append(applied, a)
    /\ clamped' = (clamped \/ \E i \in Starts(a) .. Len(points) : points[i].cost + Delta(a) < 0)
    /\ UNCHANGED <<history, gap>>

\* A forecast is adjusted by the sliders, or by a scenario, never by both.
Slide(s) ==
    /\ applied = <<>>
    /\ points' = Slid(s)
    /\ applied' = [i \in 1 .. MaxAdjustments |-> s]
    /\ UNCHANGED <<history, clamped, gap>>

ForecastNext ==
    \/ \E cost \in MonthlyCosts, skip \in 0 .. 1 : NextSnapshot(cost, skip)
    \/ \E a \in Adjustments : Adjust(a)
    \/ \E s \in Sliders : Slide(s)

ForecastSpec == ForecastInit /\ [][ForecastNext]_forecastVars

-----------------------------------------------------------------------------
\* Type correctness of the points.
ForecastTypeOK ==
    /\ Len(points) = Len(history) + Horizon
    /\ \A i \in DOMAIN points : points[i].cost \in Nat /\ points[i].month.month \in 1 .. 12
    /\ Len(applied) <= MaxAdjustments

\* Costs that rise or fall by the same amount every month go on doing so, down to zero, in
\* the months that follow the last one, over the end of a year; for a provider up to the
\* end of its first contract if one is not renewed, and not once all ended that are not renewed.
LineContinues ==
    LET n == Len(history)
        step == history[2].cost - history[1].cost
        Straight(h) == n >= 3 /\ \A i \in 1 .. n - 1 : h[i + 1].cost - h[i].cost = step
        Months(d) == 12 * d.year + d.month
    IN  /\ \A i \in 1 .. Horizon :
            n > 0 => Months(Forecast(history)[n + i].month) = Months(Last(history).month) + i
        /\ n >= 3 => (Straight(history) /\ ~gap =>
            \A i \in 1 .. Horizon, packages \in SUBSET Contracts :
                LET point == ProviderForecast(history, packages)[n + i]
                    limited == {p \in packages : p.end # NoEnd}
                    over(p) == Later(point.month, p.end)
                IN  /\ (\A p \in limited : ~over(p)) \/ (\A p \in limited : p.renews)
                            => point.cost = Above(Last(history).cost + i * step)
                    /\ limited # {} /\ (\A p \in limited : over(p) /\ ~p.renews)
                            => point.cost = 0)

\* A scenario is the forecast plus the adjustments in force in each month, whatever the
\* order they were given in, unless one of them would have made a month negative; it never
\* changes the past.
ScenarioIsSum ==
    /\ \A i \in DOMAIN history : points[i] = Past(history)[i]
    /\ ~clamped /\ (\A j \in DOMAIN applied : applied[j] \in Adjustments) =>
        \A i \in 1 .. Horizon :
            points[Len(history) + i].cost =
                Forecast(history)[Len(history) + i].cost
                    + SumFunction([j \in {j \in DOMAIN applied : applied[j].month <= i} |->
                                      Delta(applied[j])])

\* Both: what is shown follows from the history and from what was asked, and from nothing else.
ForecastsSound == LineContinues /\ ScenarioIsSum
==============================================================================
