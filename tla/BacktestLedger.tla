--------------------------- MODULE BacktestLedger ---------------------------
(***************************************************************************)
(* What becomes of a finished simulation: _summary and                     *)
(* _closed_trade_pnls (backtest/service.py), the tables written by         *)
(* SqlAlchemyBacktestLedgerRepository.persist, and the triggers and checks *)
(* of migration 0002 that may refuse them.  Composed with ReferenceEngine: *)
(* the journal recorded here is the journal the engine made.               *)
(*                                                                         *)
(* All rows are written by one transaction, so they appear in one step or  *)
(* not at all.  A row is named by the decision or the fill it records.     *)
(* What the transaction meets besides its own rows is BacktestRuns.        *)
(***************************************************************************)
EXTENDS ReferenceEngine

VARIABLE ledger    \* the rows of this run, with the run's status

NoLedger == [status |-> "RUNNING"]
FailedLedger == [status |-> "FAILED"]

-----------------------------------------------------------------------------
(* Decisions, signals, orders with their events, and fills *)

\* decision_context and its decision_bar_inputs, of which the last is the signal.
DecisionRow(decision) ==
    [ts |-> decision.ts, trigger |-> decision.trigger,
     inputs |-> [n \in DOMAIN decision.inputs |->
                   [role |-> IF n = Len(decision.inputs) THEN "SIGNAL" ELSE "WARMUP",
                    bar |-> decision.inputs[n]]]]

TargetOf(order) ==
    LET held == decisions[order.sequence].state.quantity
    IN  IF order.side = "BUY" THEN held + order.quantity ELSE held - order.quantity

\* signal: an ENTRY when anything is to be held, whatever is held now.
SignalRow(order) ==
    [sequence |-> order.sequence, instrument |-> order.instrument, ts |-> order.submitted_at,
     signal_type |-> IF TargetOf(order) > 0 THEN "ENTRY" ELSE "EXIT",
     target |-> TargetOf(order)]

FillsOf(order) == {k \in DOMAIN fills : fills[k].order = order}

\* Faulty variant: an order is called FILLED as soon as it has an execution bar.
OrderStatusByBar(order) == IF order.bar # None THEN "FILLED" ELSE "REJECTED"

OrderStatus(order) == IF FillsOf(order) # {} THEN "FILLED" ELSE "REJECTED"

\* The three order_events; the last is dated by the execution bar if there is one.
OrderEvents(order) ==
    << <<"SUBMITTED", order.submitted_at>>, <<"ACCEPTED", order.submitted_at>>,
       <<OrderStatus(order), IF order.bar = None THEN order.submitted_at ELSE order.bar.available>> >>

\* bt_order with its events.
OrderRow(order) ==
    LET status == OrderStatus(order)
    IN  [sequence |-> order.sequence, instrument |-> order.instrument, side |-> order.side,
         quantity |-> order.quantity, submitted_at |-> order.submitted_at, status |-> status,
         reject_reason |-> IF order.bar = None THEN "NO_ELIGIBLE_EXECUTION_BAR"
                           ELSE IF status = "FILLED" THEN "none" ELSE "INSUFFICIENT_CASH",
         events |-> OrderEvents(order)]

SlippageAmount(f) ==
    f.economics.quantity * (IF f.economics.price > f.order.bar.close
                            THEN f.economics.price - f.order.bar.close
                            ELSE f.order.bar.close - f.economics.price)

\* fill and its fill_market_reference.
FillRow(f) ==
    [sequence |-> f.order.sequence, ts |-> f.ts, price |-> f.economics.price,
     quantity |-> f.economics.quantity, commission |-> f.economics.commission,
     slippage |-> SlippageAmount(f), tax |-> f.economics.tax, reference |-> f.order.bar]

Costs(f) == f.economics.commission + SlippageAmount(f) + f.economics.tax

-----------------------------------------------------------------------------
(* Cash, positions, trades *)

\* Faulty variant: the commission is not booked.
CashEntriesNoCommission(k) ==
    LET f == fills[k]
        sign == IF f.economics.side = "BUY" THEN -1 ELSE 1
    IN  {[key |-> <<k, "notional">>, ts |-> f.ts, amount |-> sign * f.economics.notional]}
        \cup {[key |-> <<k, "tax">>, ts |-> f.ts, amount |-> -f.economics.tax] :
                 x \in IF f.economics.tax # 0 THEN {1} ELSE {}}

\* cash_ledger: slippage is in the price and is not booked, a tax of zero neither.
CashEntries(k) ==
    LET f == fills[k]
        sign == IF f.economics.side = "BUY" THEN -1 ELSE 1
    IN  {[key |-> <<k, "notional">>, ts |-> f.ts, amount |-> sign * f.economics.notional],
         [key |-> <<k, "commission">>, ts |-> f.ts, amount |-> -f.economics.commission]}
        \cup {[key |-> <<k, "tax">>, ts |-> f.ts, amount |-> -f.economics.tax] :
                 x \in IF f.economics.tax # 0 THEN {1} ELSE {}}

\* The initial capital is dated by the first decision.
CashLedger ==
    {[key |-> <<0, "initial-capital">>, ts |-> decisions[1].ts, amount |-> InitialCapital]}
    \cup UNION {CashEntries(k) : k \in DOMAIN fills}

PositionLedger ==
    [k \in DOMAIN fills |->
        [instrument |-> fills[k].order.instrument, ts |-> fills[k].ts, delta |-> QuantityDelta(k)]]

TradeNet(k, j) ==
    (fills[j].economics.price - fills[k].economics.price) * fills[j].economics.quantity
    - Costs(fills[k]) - Costs(fills[j])

\* The sell that closes the trade opened by buy k, if there is one.
ExitsOf(k) == {j \in DOMAIN fills : fills[j].economics.side = "SELL" /\ k \in EntryOf(j)}

\* round_trip_trade: one for each buy.
TradeRow(k) ==
    [instrument |-> fills[k].order.instrument, quantity |-> fills[k].economics.quantity,
     status |-> IF ExitsOf(k) = {} THEN "OPEN" ELSE "CLOSED",
     exited |-> MapThenSumSet(LAMBDA j : fills[j].economics.quantity, ExitsOf(k)),
     slippage |-> SlippageAmount(fills[k])
                  + MapThenSumSet(LAMBDA j : SlippageAmount(fills[j]), ExitsOf(k)),
     net_pnl |-> MapThenSumSet(LAMBDA j : TradeNet(k, j), ExitsOf(k))]

Buys == {k \in DOMAIN fills : fills[k].economics.side = "BUY"}

-----------------------------------------------------------------------------
(* Valuations, equity and summary *)

MarketValue(i) == position[i].quantity * valuations[i].close

Equity == cash + MapThenSumSet(MarketValue, Instruments)

SnapshotRow(i) ==
    [quantity |-> position[i].quantity, market_value |-> MarketValue(i),
     realized |-> position[i].realized, unrealized |-> MarketValue(i) - position[i].cost]

\* equity_point: the cash is that after the last fill, the time that of the valuations.
EquityPoint == [ts |-> EventTo, cash |-> cash, equity |-> Equity]

ClosedTradePnls == [k \in {b \in Buys : ExitsOf(b) # {}} |-> TradeRow(k).net_pnl]

Summary ==
    LET total_cost == MapThenSumSet(LAMBDA k : Costs(fills[k]), DOMAIN fills)
        closed == DOMAIN ClosedTradePnls
    IN  [trade_count |-> Cardinality(closed),
         winning |-> Cardinality({k \in closed : ClosedTradePnls[k] > 0}),
         losing |-> Cardinality({k \in closed : ClosedTradePnls[k] < 0}),
         net_pnl |-> Equity - InitialCapital,
         gross_pnl |-> Equity - InitialCapital + total_cost,
         total_cost |-> total_cost]

-----------------------------------------------------------------------------
(* What the database refuses *)

\* enforce_decision_bar_input_pit: no input that was not yet available.
InputsAvailable ==
    \A n \in DOMAIN decisions : \A b \in Range(decisions[n].inputs) :
        b.available <= decisions[n].ts

\* enforce_fill_market_reference_pit: the bar of a fill was available at the fill.
ReferencesAvailable ==
    \A k \in DOMAIN fills : fills[k].order.bar.available <= fills[k].ts

\* enforce_position_valuation_pit.
ValuationsAvailable == \A i \in Instruments : valuations[i].available <= EventTo

\* validate_order_fill_totals, which runs at commit for every order and fill.
OrderTotals(order) ==
    LET filled == MapThenSumSet(LAMBDA k : fills[k].economics.quantity, FillsOf(order))
    IN  /\ \A k \in FillsOf(order) : fills[k].ts >= order.submitted_at
        /\ filled <= order.quantity
        /\ OrderStatus(order) = "FILLED" => filled = order.quantity
        /\ OrderStatus(order) = "REJECTED" => filled = 0

\* A trade ends no earlier than it begins, and no quantity is zero.
TradeChecks ==
    /\ \A k \in Buys : \A j \in ExitsOf(k) : fills[j].ts >= fills[k].ts
    /\ \A k \in DOMAIN fills : fills[k].economics.quantity > 0

\* No commission and no tax is negative.
FillChecks ==
    \A k \in DOMAIN fills : fills[k].economics.commission >= 0 /\ fills[k].economics.tax >= 0

DatabaseAccepts ==
    /\ InputsAvailable
    /\ ReferencesAvailable
    /\ ValuationsAvailable
    /\ \A n \in DOMAIN orders : OrderTotals(orders[n])
    /\ TradeChecks
    /\ FillChecks

-----------------------------------------------------------------------------
(* The end of a run *)

LedgerInit == Init /\ ledger = NoLedger

\* An empty journal has no first event (_first_event_ts), a sell without its entry
\* raises in _closed_trade_pnls, and the database has its own say.
Recordable ==
    /\ decisions # <<>>
    /\ \A k \in DOMAIN fills : ClosesTrade(k)
    /\ DatabaseAccepts

\* persist and mark_succeeded.
Persist ==
    /\ outcome = "completed" /\ ledger = NoLedger
    /\ Recordable
    /\ ledger' = [status |-> "SUCCEEDED",
                  decisions |-> [n \in DOMAIN decisions |-> DecisionRow(decisions[n])],
                  signals |-> [n \in DOMAIN orders |-> SignalRow(orders[n])],
                  fills |-> [k \in DOMAIN fills |-> FillRow(fills[k])],
                  orders |-> [n \in DOMAIN orders |-> OrderRow(orders[n])],
                  cash |-> CashLedger, positions |-> PositionLedger,
                  trades |-> [k \in Buys |-> TradeRow(k)],
                  snapshots |-> [i \in Instruments |-> SnapshotRow(i)],
                  equity_point |-> EquityPoint, summary |-> Summary]
    /\ UNCHANGED vars

\* Everything is rolled back and the run is marked FAILED.
MarkFailed ==
    /\ outcome # "running" /\ ledger = NoLedger
    /\ ~(outcome = "completed" /\ Recordable)
    /\ ledger' = FailedLedger
    /\ UNCHANGED vars

LedgerNext == (Next /\ UNCHANGED ledger) \/ Persist \/ MarkFailed

LedgerSpec == LedgerInit /\ [][LedgerNext]_<<vars, ledger>>

-----------------------------------------------------------------------------
(* Properties *)

Recorded == ledger.status = "SUCCEEDED"
Timely == {i \in Instruments : OneByOne(i)}
SumOver(S, Amount(_)) == MapThenSumSet(Amount, S)

\* A simulation that completed is refused only because it is empty, because a sale
\* of an instrument whose bars do not become visible one by one has no entry, or
\* because a slippage above the price charges a sale less than nothing: the triggers
\* of migration 0002 never refuse what the engine produces.
RefusedOnlyForTrades ==
    ledger = FailedLedger /\ outcome = "completed" =>
        \/ decisions = <<>>
        \/ \E k \in DOMAIN fills : /\ ~ClosesTrade(k)
                                   /\ fills[k].order.instrument \notin Timely
        \/ Slippage > RateUnit /\ ~FillChecks

\* The ledgers reconstruct what the snapshots and the equity point say: every
\* position is the sum of its deltas, cash the sum of its entries.
LedgersReconstruct ==
    Recorded =>
        /\ ledger.equity_point.cash = SumOver(ledger.cash, LAMBDA e : e.amount)
        /\ ledger.equity_point.equity = ledger.equity_point.cash
                           + SumOver(Instruments, LAMBDA i : ledger.snapshots[i].market_value)
        /\ \A i \in Instruments :
              ledger.snapshots[i].quantity =
                 SumOver({k \in DOMAIN ledger.positions : ledger.positions[k].instrument = i},
                         LAMBDA k : ledger.positions[k].delta)

TradesOf(i, status) ==
    {k \in DOMAIN ledger.trades : ledger.trades[k].instrument = i /\ ledger.trades[k].status = status}

\* Where bars become visible one by one, the open trades of an instrument are its
\* position, and a closed trade was sold exactly as far as it was bought.
TradesMatchPositions ==
    Recorded =>
        \A i \in Timely :
            /\ ledger.snapshots[i].quantity =
                  SumOver(TradesOf(i, "OPEN"), LAMBDA k : ledger.trades[k].quantity)
            /\ \A k \in TradesOf(i, "CLOSED") : ledger.trades[k].exited = ledger.trades[k].quantity

\* The summary's profit is what the positions realized and what they would.
SummaryMatchesPositions ==
    Recorded =>
        /\ ledger.summary.net_pnl =
              SumOver(Instruments, LAMBDA i : ledger.snapshots[i].realized
                                              + ledger.snapshots[i].unrealized)
        /\ ledger.summary.trade_count =
              SumOver(Instruments, LAMBDA i : Cardinality(TradesOf(i, "CLOSED")))

\* Slippage is charged once, in the execution price: the net results of the closed
\* trades of an instrument are what its position realized.
TradesExplainRealized ==
    Recorded =>
        \A i \in Timely :
            ledger.snapshots[i].realized =
               SumOver(TradesOf(i, "CLOSED"), LAMBDA k : ledger.trades[k].net_pnl)

\* The same with the slippage of both legs given back to the trade.
TradesExplainRealizedGross ==
    Recorded =>
        \A i \in Timely :
            ledger.snapshots[i].realized =
               SumOver(TradesOf(i, "CLOSED"),
                       LAMBDA k : ledger.trades[k].net_pnl + ledger.trades[k].slippage)

\* Where bars become visible one by one an order never waits while the next signal
\* is given, so an ENTRY is a buy and an EXIT a sale of all that is held.
TimelySignalsMatchOrders ==
    Recorded =>
        \A n \in DOMAIN ledger.signals :
            ledger.signals[n].instrument \in Timely =>
                ((ledger.signals[n].signal_type = "ENTRY") <=> (ledger.orders[n].side = "BUY"))

\* An order recorded as short of cash is a buy, where bars become visible one by
\* one: no sale of an instrument is refused or lost.
TimelySellsFilled ==
    Recorded =>
        \A n \in DOMAIN ledger.orders :
            /\ ledger.orders[n].instrument \in Timely
            /\ ledger.orders[n].reject_reason = "INSUFFICIENT_CASH"
            => ledger.orders[n].side = "BUY"

\* Where the bars of an instrument become visible one by one, nothing goes wrong on
\* the way from a decision to the tables: every order is tried, no position passes
\* its target, signals and orders agree, no sale is refused, and a run is not
\* recorded only for want of decisions, because of other instruments, or because
\* slippage is above the price.
TimelyRunsAreRecorded ==
    /\ TimelyOrdersSettled
    /\ TimelyPositionWithinTarget
    /\ TimelySignalsMatchOrders
    /\ TimelySellsFilled
    /\ RefusedOnlyForTrades

\* The tables of a recorded run agree with each other: ledgers, trades, snapshots,
\* equity and summary (persist, _summary, _closed_trade_pnls).
LedgersTellOneStory ==
    /\ LedgersReconstruct
    /\ TradesMatchPositions
    /\ SummaryMatchesPositions
    /\ TradesExplainRealizedGross
=============================================================================
