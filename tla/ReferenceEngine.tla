-------------------------- MODULE ReferenceEngine --------------------------
(***************************************************************************)
(* ReferenceBacktestSimulator.simulate (backtest/engine.py) with its       *)
(* portfolio (accounting.py) and strategy (strategies.py), over the rows   *)
(* of a frozen snapshot.                                                   *)
(*                                                                         *)
(* The loop runs over instants.  At each one it takes the orders that are  *)
(* pending for that instant and fills them one by one, then takes the      *)
(* decisions of that instant one by one; a decision may put an order among *)
(* the pending ones and an instant among the ones to come.  At the end the *)
(* positions are valued at event_to.                                       *)
(*                                                                         *)
(* Instants are numbers, and amounts are whole numbers of a unit small     *)
(* enough for the instances: the code's Decimals keep 28 digits.           *)
(***************************************************************************)
EXTENDS ArtifactBarSelector, Functions

CONSTANTS
    Instruments,     \* instrument_id values
    Datasets,        \* the frozen components a run may be given
    EventFrom,       \* first instant of the run; 0 is before any
    EventTo,         \* instant after the last one, and of the valuation
    Lag,             \* [Instruments -> Nat]: execution_lag_seconds
    FastWindow, SlowWindow, TargetQuantity,   \* strategy parameters
    InitialCapital,
    Commission, Slippage, SellTax,            \* rates, in 1/RateUnit
    RateUnit,        \* 10,000 in the code: rates are in basis points
    None             \* no bar

Bar == [open : Nat, revision_no : Nat \ {0}, available : Nat, close : Nat \ {0}]

\* The rows bound to each instrument for signals, executions and valuation.
Role == {"signal", "execution", "valuation"}
Dataset == [Role -> [Instruments -> SUBSET Bar]]

\* The request's validators: rates are not negative, and nothing bounds them from
\* above.
ASSUME EngineConstants ==
    /\ Instruments \subseteq Nat /\ IsFiniteSet(Instruments)
    /\ Datasets \subseteq Dataset
    /\ \A d \in Datasets, role \in Role, i \in Instruments :
          IsFiniteSet(d[role][i]) /\ d[role][i] # {}
    /\ EventFrom \in Nat \ {0} /\ EventTo \in Nat /\ EventFrom < EventTo
    /\ Lag \in [Instruments -> Nat]
    /\ FastWindow \in Nat \ {0} /\ SlowWindow \in Nat /\ FastWindow < SlowWindow
    /\ TargetQuantity \in Nat \ {0} /\ InitialCapital \in Nat \ {0}
    /\ Commission \in Nat /\ Slippage \in Nat /\ SellTax \in Nat
    /\ RateUnit \in Nat \ {0}
    /\ None \notin Bar

VARIABLES
    data,        \* the artifact rows of this run
    upcoming,    \* instants of all_times that are still to come
    now,         \* the instant being processed
    filling,     \* orders taken from pending for this instant, in order
    deciding,    \* decision events of this instant that are still to come
    pending,     \* orders that wait for their execution bar
    cash, position,               \* the portfolio
    decisions, orders, fills,     \* the journal
    valuations,  \* position valued at event_to, by instrument
    outcome      \* "running", then "completed" or "error"

vars == <<data, upcoming, now, filling, deciding, pending, cash, position,
          decisions, orders, fills, valuations, outcome>>

\* A position: its quantity, its cost (average_cost * quantity) and what was
\* realized.
Position == [quantity : Nat, cost : Nat, realized : Int]
NoPosition == [quantity |-> 0, cost |-> 0, realized |-> 0]

\* What a fill is priced at and charged with is negative only for a sale with a
\* slippage of more than the whole price.
FillAmount == IF Slippage <= RateUnit THEN Nat ELSE Int

\* A sale never costs more than it brings.  Without it cash can become negative:
\* apply_fill asks for cash before a buy only.
SalesPay == Slippage <= RateUnit /\ Commission + SellTax <= RateUnit
Cash == IF SalesPay THEN Nat ELSE Int

Event == [instrument : Instruments, trigger : Bar]
Decision == [instrument : Instruments, ts : Nat, trigger : Bar, inputs : Seq(Bar),
             cash : Cash, state : Position]
Order == [sequence : Nat \ {0}, instrument : Instruments, side : {"BUY", "SELL"},
          quantity : Nat \ {0}, submitted_at : Nat, trigger : Bar, bar : Bar \cup {None}]
Economics == [side : {"BUY", "SELL"}, quantity : Nat \ {0}, price : FillAmount,
              notional : FillAmount, commission : FillAmount, tax : FillAmount]
Fill == [order : Order, ts : Nat, economics : Economics]

TypeOK ==
    /\ data \in Dataset
    /\ upcoming \subseteq Nat
    /\ now \in Nat
    /\ filling \in Seq(Order) /\ deciding \in Seq(Event)
    /\ pending \subseteq Order
    /\ cash \in Cash
    /\ position \in [Instruments -> Position]
    /\ decisions \in Seq(Decision)
    /\ orders \in Seq(Order)
    /\ fills \in Seq(Fill)
    /\ valuations \in [Instruments -> Bar \cup {None}]
    /\ outcome \in {"running", "completed", "error"}

-----------------------------------------------------------------------------
(* Decision events and the start of a run *)

\* The signal bars that first become visible at an instant of the run, with the
\* revision that is then the newest.
DecisionEvents(d, ts) ==
    {event \in [instrument : Instruments, trigger : UNION Range(d["signal"])] :
        LET rows == d["signal"][event.instrument]
        IN  /\ ts \in EventFrom..(EventTo - 1)
            /\ <<ts, event.trigger.open>> \in DecisionSchedule(rows)
            /\ event.trigger \in Selected(rows, event.trigger.open, ts)}

DecisionInstants(d) ==
    {ts \in {row.available : row \in UNION Range(d["signal"])} : DecisionEvents(d, ts) # {}}

\* By instrument, then by the opening of the bar.
EventBefore(a, b) ==
    \/ a.instrument < b.instrument
    \/ a.instrument = b.instrument /\ a.trigger.open < b.trigger.open

Init ==
    /\ data \in Datasets
    /\ upcoming = DecisionInstants(data)
    /\ now = 0
    /\ filling = <<>> /\ deciding = <<>>
    /\ pending = {}
    /\ cash = InitialCapital
    /\ position = [i \in Instruments |-> NoPosition]
    /\ decisions = <<>> /\ orders = <<>> /\ fills = <<>>
    /\ valuations = [i \in Instruments |-> None]
    /\ outcome = "running"

-----------------------------------------------------------------------------
(* The portfolio *)

PriceFill(side, quantity, reference) ==
    LET price == IF side = "BUY" THEN (reference * (RateUnit + Slippage)) \div RateUnit
                                 ELSE (reference * (RateUnit - Slippage)) \div RateUnit
        notional == price * quantity
    IN  [side |-> side, quantity |-> quantity, price |-> price, notional |-> notional,
         commission |-> (notional * Commission) \div RateUnit,
         tax |-> IF side = "SELL" THEN (notional * SellTax) \div RateUnit ELSE 0]

CashDelta(e) ==
    IF e.side = "BUY" THEN -(e.notional + e.commission + e.tax)
                      ELSE e.notional - e.commission - e.tax

\* Faulty variant: the commission is left out of the check.
CanApplyNotional(i, e) ==
    IF e.side = "BUY" THEN e.notional <= cash
                      ELSE e.quantity <= position[i].quantity

\* No credit and no short position.
CanApply(i, e) ==
    IF e.side = "BUY" THEN -CashDelta(e) <= cash
                      ELSE e.quantity <= position[i].quantity

\* average_cost * q
CostOf(state, q) == (state.cost * q) \div state.quantity

ApplyFill(state, e) ==
    IF e.side = "BUY"
    THEN [state EXCEPT !.quantity = @ + e.quantity, !.cost = @ - CashDelta(e)]
    ELSE [quantity |-> state.quantity - e.quantity,
          cost |-> state.cost - CostOf(state, e.quantity),
          realized |-> state.realized + CashDelta(e) - CostOf(state, e.quantity)]

-----------------------------------------------------------------------------
(* The event loop *)

\* Where a decision number comes in the order of strings: the keys of orders are
\* compared as "hash|sequence|...", and the separator is greater than any digit,
\* so 10 comes before 1.  Good for fewer than 100 decisions.
KeyRank(n) == IF n < 10 THEN 11 * n + 10 ELSE 11 * (n \div 10) + (n % 10)

\* Faulty variant: orders are taken at the first instant after their own.
DueLate(ts) == {o \in pending : o.bar.available < ts}

Due(ts) == {o \in pending : o.bar.available = ts}

\* The next instant of all_times: its pending orders are taken in the order of
\* their keys, its decision events by instrument and bar.
NextInstant ==
    /\ outcome = "running" /\ filling = <<>> /\ deciding = <<>>
    /\ upcoming # {}
    /\ LET ts == Min(upcoming)
       IN  /\ now' = ts
           /\ upcoming' = upcoming \ {ts}
           /\ pending' = pending \ Due(ts)
           /\ filling' = Sorted(Due(ts),
                            LAMBDA a, b : KeyRank(a.sequence) < KeyRank(b.sequence))
           /\ deciding' = Sorted(DecisionEvents(data, ts), EventBefore)
    /\ UNCHANGED <<data, cash, position, decisions, orders, fills, valuations, outcome>>

\* One pending order: filled at the close of its execution bar, or passed over
\* when the portfolio refuses it.
FillOrder ==
    /\ filling # <<>>
    /\ LET o == Head(filling)
           e == PriceFill(o.side, o.quantity, o.bar.close)
       IN  \/ /\ CanApply(o.instrument, e)
              /\ cash' = cash + CashDelta(e)
              /\ position' = [position EXCEPT ![o.instrument] = ApplyFill(@, e)]
              /\ fills' = Append(fills, [order |-> o, ts |-> o.bar.available, economics |-> e])
           \/ /\ ~CanApply(o.instrument, e)
              /\ UNCHANGED <<cash, position, fills>>
    /\ filling' = Tail(filling)
    /\ UNCHANGED <<data, upcoming, now, deciding, pending, decisions, orders, valuations,
                   outcome>>

LastBars(bars, n) == SubSeq(bars, IF Len(bars) > n THEN Len(bars) - n + 1 ELSE 1, Len(bars))
SumOfCloses(bars) == SumFunction([k \in DOMAIN bars |-> bars[k].close])

\* SmaCrossLongFlatStrategy.decide, with the averages' denominators multiplied out.
Target(inputs) ==
    IF /\ Len(inputs) >= SlowWindow
       /\ SumOfCloses(LastBars(inputs, FastWindow)) * SlowWindow
            > SumOfCloses(inputs) * FastWindow
    THEN TargetQuantity ELSE 0

NewOrder(n, event, held, target) ==
    LET bars == NextExecutionBar(data["execution"][event.instrument], event.trigger.open,
                                 now, Lag[event.instrument])
    IN  [sequence |-> n, instrument |-> event.instrument,
         side |-> IF target > held THEN "BUY" ELSE "SELL",
         quantity |-> IF target > held THEN target - held ELSE held - target,
         submitted_at |-> now, trigger |-> event.trigger,
         bar |-> IF bars = {} THEN None ELSE CHOOSE bar \in bars : TRUE]

\* Faulty variant: the instant is put into all_times even if it is there already.
ScheduleAgain(bar) == upcoming \cup {bar.available}

\* The instant of an execution bar joins all_times unless it is there already;
\* an execution bar is visible now at the earliest.
Schedule(bar) == upcoming \cup ({bar.available} \ {now})

\* One decision, after the fills of its instant.  An order whose execution bar is
\* visible at this very instant is put among the pending ones as well, although
\* the orders of the instant have been taken already.
Decide ==
    /\ filling = <<>> /\ deciding # <<>>
    /\ LET event == Head(deciding)
           i == event.instrument
           inputs == LastBars(VisibleBars(data["signal"][i], now), SlowWindow)
           target == Target(inputs)
           held == position[i].quantity
           order == NewOrder(Len(decisions) + 1, event, held, target)
       IN  /\ decisions' = Append(decisions,
                 [instrument |-> i, ts |-> now, trigger |-> event.trigger,
                  inputs |-> inputs, cash |-> cash, state |-> position[i]])
           /\ \/ /\ target = held
                 /\ UNCHANGED <<orders, pending, upcoming>>
              \/ /\ target # held
                 /\ orders' = Append(orders, order)
                 /\ \/ /\ order.bar = None
                       /\ UNCHANGED <<pending, upcoming>>
                    \/ /\ order.bar # None
                       /\ pending' = pending \cup {order}
                       /\ upcoming' = Schedule(order.bar)
    /\ deciding' = Tail(deciding)
    /\ UNCHANGED <<data, now, filling, cash, position, fills, valuations, outcome>>

\* The positions are valued at the last bar visible at event_to; the run fails
\* when an instrument has none.
ValuePositions ==
    /\ outcome = "running" /\ filling = <<>> /\ deciding = <<>> /\ upcoming = {}
    /\ LET visible(i) == VisibleBars(data["valuation"][i], EventTo)
       IN  \/ /\ \E i \in Instruments : visible(i) = <<>>
              /\ outcome' = "error"
              /\ UNCHANGED valuations
           \/ /\ \A i \in Instruments : visible(i) # <<>>
              /\ outcome' = "completed"
              /\ valuations' = [i \in Instruments |-> Last(visible(i))]
    /\ UNCHANGED <<data, upcoming, now, filling, deciding, pending, cash, position,
                   decisions, orders, fills>>

Next == NextInstant \/ FillOrder \/ Decide \/ ValuePositions

Spec == Init /\ [][Next]_vars

-----------------------------------------------------------------------------
(* Properties *)

FillsUntil(i, ts) == {k \in DOMAIN fills : fills[k].order.instrument = i /\ fills[k].ts <= ts}
QuantityDelta(k) ==
    IF fills[k].economics.side = "BUY" THEN fills[k].economics.quantity
                                       ELSE -fills[k].economics.quantity
HeldAt(i, ts) == MapThenSumSet(QuantityDelta, FillsUntil(i, ts))
CashAt(ts) ==
    InitialCapital + MapThenSumSet(LAMBDA k : CashDelta(fills[k].economics),
                                   UNION {FillsUntil(i, ts) : i \in Instruments})

\* "Pending fills, then decisions": every decision was taken with the cash and the
\* position that result from exactly the fills up to its instant, whatever was
\* still pending, refused or added to the schedule later.
DecisionsSeeDueFills ==
    \A n \in DOMAIN decisions :
        /\ decisions[n].state.quantity = HeldAt(decisions[n].instrument, decisions[n].ts)
        /\ decisions[n].cash = CashAt(decisions[n].ts)

\* The books balance at every step and were right at every decision: cash plus the
\* cost of what is held is the initial capital plus what was realized, and the
\* journal of fills accounts for both (LongOnlyPortfolio.apply_fill against
\* PricedFill.cash_delta).
BooksBalance ==
    /\ DecisionsSeeDueFills
    /\ cash = CashAt(now)
    /\ \A i \in Instruments : position[i].quantity = HeldAt(i, now)
    /\ cash + MapThenSumSet(LAMBDA i : position[i].cost, Instruments)
         = InitialCapital + MapThenSumSet(LAMBDA i : position[i].realized, Instruments)

\* The signal bars of an instrument are execution bars and become visible when these
\* do, one at a time and in the order of their opening, and orders may be executed
\* at once.
OneByOne(i) ==
    LET execution == data["execution"][i]
    IN  /\ Lag[i] = 0
        /\ DecisionSchedule(data["signal"][i]) \subseteq DecisionSchedule(execution)
        /\ \A a, b \in Opens(execution) :
              a < b => FirstVisibility(execution, a) < FirstVisibility(execution, b)

Settled(i) == \A o \in pending : o.instrument # i

\* Every order that has an execution bar is taken from the pending ones at the
\* instant of that bar, to be filled or refused ("the fill is made on the first
\* logical bar after the signal bar").
OrdersSettled == outcome # "running" => \A i \in Instruments : Settled(i)

\* The same where bars become visible one by one.
TimelyOrdersSettled ==
    outcome # "running" => \A i \in Instruments : OneByOne(i) => Settled(i)

\* A target is a target: where bars become visible one by one, an order that waits
\* while the next decision is taken never brings the position above what the
\* strategy asked for (sizing in simulate).
TimelyPositionWithinTarget ==
    \A i \in Instruments : OneByOne(i) => position[i].quantity <= TargetQuantity

\* The fill with which _closed_trade_pnls and _insert_round_trips open the trade
\* a sell closes: the instrument's previous fill, if that is a buy.
EntryOf(k) ==
    {j \in 1..(k - 1) :
        /\ fills[j].order.instrument = fills[k].order.instrument
        /\ fills[j].economics.side = "BUY"
        /\ \A m \in (j + 1)..(k - 1) :
              fills[m].order.instrument # fills[k].order.instrument}

ClosesTrade(k) == fills[k].economics.side = "SELL" => EntryOf(k) # {}

\* The loop comes to an end although its schedule grows: every step moves on to a
\* later instant, finishes a fill or a decision of the current one, or is the last.
\* There are only the instants of the rows to move on to.
LoopProgresses ==
    [][\/ /\ now' > now
          /\ \E role \in Role, i \in Instruments : \E row \in data[role][i] : now' = row.available
       \/ now' = now /\ Len(filling') + Len(deciding') < Len(filling) + Len(deciding)
       \/ outcome = "running" /\ outcome' # "running"]_vars
=============================================================================
