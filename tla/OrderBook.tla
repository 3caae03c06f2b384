------------------------------ MODULE OrderBook ------------------------------
(***************************************************************************)
(* qbc-exchange, orderbook.rs: the order book of one pair.  Every order is *)
(* kept twice: the copy that rests in bids or asks, is matched and is what *)
(* get_user_orders reports, and the copy in all_orders that cancel_order   *)
(* consults and place_order answers with.                                  *)
(*                                                                         *)
(* The vectors of resting orders are sorted whenever one is added, so each *)
(* is a set here, with the order that the sort leaves it in as Ahead.      *)
(* Prices and sizes are whole numbers of the smallest unit, so that the    *)
(* tolerance of 1e-12 of the floating-point comparisons is zero here.      *)
(***************************************************************************)
EXTENDS Integers, Sequences, FiniteSets, Functions

VARIABLES
    bids, asks,         \* resting orders
    trades,
    all_orders          \* order id -> order; ids are 1, 2, ...

bookVars == <<bids, asks, trades, all_orders>>

BookInit == bids = {} /\ asks = {} /\ trades = {} /\ all_orders = << >>

remaining(order) == order.size - order.filled

next_order_id == Len(all_orders) + 1

-----------------------------------------------------------------------------
\* The comparison of sort_bids and sort_asks: by price and then by time.
Better(a, b) ==
    \/ IF a.side = "Buy" THEN a.price > b.price ELSE a.price < b.price
    \/ a.price = b.price /\ a.timestamp < b.timestamp

\* Fault: resting orders are kept in order of arrival.
AheadByArrival(a, b) == a.id < b.id

\* a comes before b in the vector: an order is pushed to the end and the sort
\* is stable, so equals stay in order of arrival.
Ahead(a, b) == Better(a, b) \/ (~ Better(b, a) /\ a.id < b.id)

Opposite(side) == IF side = "Buy" THEN asks ELSE bids

\* Fault: a limit order takes any price.
AnyPrice(taker, maker) == TRUE

\* The price check of match_limit; a market order takes any price.
Crosses(taker, maker) ==
    \/ taker.order_type = "Market"
    \/ taker.side = "Buy" /\ maker.price <= taker.price
    \/ taker.side = "Sell" /\ maker.price >= taker.price

\* The makers that the loop of match_limit and match_market comes to, if the
\* taker lasts: it ends at the first whose price does not cross.
Reached(taker, book) ==
    {m \in book : \A n \in book : (n = m \/ Ahead(n, m)) => Crosses(taker, n)}

\* What the makers before this one had to offer.
OfferedBefore(taker, book, maker) ==
    SumFunction([m \in {n \in Reached(taker, book) : Ahead(n, maker)} |-> remaining(m)])

\* What the taker takes of each maker: all of it, or what it still needs.
Fills(taker, book) ==
    LET needed(m) == taker.size - OfferedBefore(taker, book, m)
    IN  [m \in book |-> IF m \notin Reached(taker, book) \/ needed(m) <= 0 THEN 0
                        ELSE IF needed(m) < remaining(m) THEN needed(m)
                        ELSE remaining(m)]

\* The book after the fills: makers with nothing left leave it.
Matched(book, fills) ==
    {[m EXCEPT !.filled = @ + fills[m]] : m \in {n \in book : fills[n] < remaining(n)}}

\* Fault: a maker that is filled completely keeps its old record.
RecordPartialFills(book, fills) ==
    [id \in DOMAIN all_orders |->
        IF \E m \in book : m.id = id /\ fills[m] > 0 /\ fills[m] < remaining(m)
        THEN [all_orders[id] EXCEPT
                !.filled = @ + fills[CHOOSE m \in book : m.id = id],
                !.status = "Partial"]
        ELSE all_orders[id]]

\* The stored copies of the makers that were filled.
RecordFills(book, fills) ==
    [id \in DOMAIN all_orders |->
        IF \E m \in book : m.id = id /\ fills[m] > 0
        THEN LET m == CHOOSE m \in book : m.id = id
                 done == fills[m] = remaining(m)
             IN  [all_orders[id] EXCEPT
                     !.filled = IF done THEN all_orders[id].size ELSE m.filled + fills[m],
                     !.status = IF done THEN "Filled" ELSE "Partial"]
        ELSE all_orders[id]]

\* The trades of a match; a maker and a taker trade with each other once.
TradesOf(taker, book, fills) ==
    {[price |-> m.price, size |-> fills[m], maker |-> m.id, taker |-> taker.id] :
        m \in {n \in book : fills[n] > 0}}

\* add_order: match, rest what remains of a limit order, store the order.
\* A market order that is not filled keeps the status it had.
AddOrder(order) ==
    LET book   == Opposite(order.side)
        fills  == Fills(order, book)
        taken  == SumFunction(fills)
        status == CASE taken = order.size -> "Filled"
                    [] taken < order.size /\ taken > 0 /\ order.order_type = "Limit" -> "Partial"
                    [] OTHER -> order.status
        taker  == [order EXCEPT !.filled = taken, !.status = status]
        rests  == IF order.order_type = "Limit" /\ remaining(taker) > 0 THEN {taker} ELSE {}
    IN  /\ trades' = trades \cup TradesOf(order, book, fills)
        /\ all_orders' = Append(RecordFills(book, fills), taker)
        /\ IF order.side = "Buy"
           THEN asks' = Matched(asks, fills) /\ bids' = bids \cup rests
           ELSE bids' = Matched(bids, fills) /\ asks' = asks \cup rests

\* cancel_order; an empty owner may cancel any order.
Cancel(id, owner) ==
    /\ id \in DOMAIN all_orders
    /\ all_orders[id].status \notin {"Filled", "Cancelled"}
    /\ owner = "" \/ all_orders[id].address = owner
    /\ bids' = {o \in bids : o.id # id}
    /\ asks' = {o \in asks : o.id # id}
    /\ all_orders' = [all_orders EXCEPT ![id].status = "Cancelled"]
    /\ UNCHANGED trades

-----------------------------------------------------------------------------
Resting == bids \cup asks

\* Buyers and sellers who agree on a price have been matched: the best bid is
\* below the best ask at all times.
BookNotCrossed == \A b \in bids, a \in asks : b.price < a.price

\* The two copies of an order differ in their status at most, and in one way:
\* a fill moves only the stored status to Partial, so the resting copy, which
\* get_user_orders reports, may still say Open; it never says Partial of an
\* order that is stored as open.  A limit order that is stored as open or
\* partial rests in the book, once, and any other order does not rest.
CopiesAgree ==
    /\ \A o \in Resting : /\ o.id \in DOMAIN all_orders
                          /\ all_orders[o.id] = [o EXCEPT !.status = all_orders[o.id].status]
                          /\ o.status \in {"Open", all_orders[o.id].status}
    /\ Cardinality({o.id : o \in Resting}) = Cardinality(bids) + Cardinality(asks)
    /\ \A id \in DOMAIN all_orders :
          LET o == all_orders[id]
          IN  (\E r \in Resting : r.id = id)
                  <=> o.order_type = "Limit" /\ o.status = (IF o.filled > 0 THEN "Partial" ELSE "Open")

\* Every order was filled by its trades, and at no worse a price than its own.
TradedBy(id) ==
    SumFunction([t \in {u \in trades : id \in {u.maker, u.taker}} |-> t.size])
FillsAreTrades ==
    /\ \A id \in DOMAIN all_orders : /\ all_orders[id].filled = TradedBy(id)
                                     /\ all_orders[id].filled <= all_orders[id].size
    /\ \A t \in trades :
          \A id \in {t.maker, t.taker} :
              LET o == all_orders[id]
              IN  o.order_type = "Limit" =>
                      IF o.side = "Buy" THEN t.price <= o.price
                                        ELSE t.price >= o.price

\* Price-time priority: when a resting order is filled, the orders on its side
\* that have a better price, or the same price and an earlier time, are filled
\* completely.
Priority(book, after) ==
    \A o, p \in book :
        (Better(p, o) /\ after[o.id].filled > o.filled)
            => after[p.id].filled = p.size
PriceTimePriority ==
    [][Priority(bids, all_orders') /\ Priority(asks, all_orders')]_bookVars
=============================================================================
