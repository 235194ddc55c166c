------------------------------- MODULE Ledger -------------------------------
(***************************************************************************)
(* The liquid tokens HIVE and HBD and everything that holds them for a     *)
(* time: the internal market, escrow, savings and their withdrawals, and   *)
(* the conversions between the two.                                        *)
(*                                                                         *)
(* current_supply and current_hbd_supply are kept beside the balances and  *)
(* never recounted, and every amount that goes through a price is rounded  *)
(* down.  An operation is one action; one that throws is taken back with   *)
(* its transaction, so its conditions are guards.  A block moves the time, *)
(* may change the price feed and lets fall due what is due: each process   *)
(* only adds to balances, so they are one action.                          *)
(*                                                                         *)
(* Every hardfork is active, the feed has a price, and the median, minimum *)
(* and market price are the same.  The limit on new HBD is outside.  The   *)
(* bound MaxOps counts what opens something; what follows it is free.      *)
(***************************************************************************)
EXTENDS Integers, FiniteSets, SequencesExt

CONSTANTS
  Account,         \* accounts
  Prices,          \* prices: [base, quote], what is asked for base is quote
  Feeds,           \* price feeds: [hive, hbd], so much HIVE for so much HBD
  RequestId,       \* ids of escrows and of requests
  MaxPending,      \* HIVE_MAX_PENDING_TRANSFERS
  MaxRequests,     \* HIVE_SAVINGS_WITHDRAW_REQUEST_LIMIT
  ConversionDelay, \* HIVE_CONVERSION_DELAY
  WithdrawTime,    \* HIVE_SAVINGS_WITHDRAW_TIME
  MaxExpiration,   \* HIVE_MAX_LIMIT_ORDER_EXPIRATION
  Percent100,      \* HIVE_100_PERCENT
  CollateralRatio, \* HIVE_CONVERSION_COLLATERAL_RATIO
  ConversionFee,   \* HIVE_COLLATERALIZED_CONVERSION_FEE
  Year,            \* HIVE_SECONDS_PER_YEAR
  InterestRate,    \* hbd_interest_rate
  CompoundInterval,\* HIVE_HBD_INTEREST_COMPOUND_INTERVAL_SEC
  Hive, Hbd,       \* what every account starts with
  Sizes,           \* bound: what an order or a conversion may be for
  Moves,           \* bound: what a transfer may be
  EscrowMoves,     \* bound: what an escrow may hold: [amount, fee]
  MaxEscrows,      \* bound: open escrows
  MaxTime,         \* bound: time of the last block
  MaxOps           \* bound: operations

ASSUME LedgerAssumption ==
  /\ IsFiniteSet(Account)
  /\ Prices \subseteq [base : Nat \ {0}, quote : Nat \ {0}]
  /\ Feeds \subseteq [hive : Nat \ {0}, hbd : Nat \ {0}] /\ Feeds # {}
  /\ Sizes \subseteq Nat \ {0} /\ Moves \subseteq [{"HIVE", "HBD"} -> Nat]
  /\ EscrowMoves \subseteq [{"amount", "fee"} -> [{"HIVE", "HBD"} -> Nat]]
  /\ {Percent100, ConversionFee, Year} \subseteq Nat \ {0}
  /\ CollateralRatio \in Nat /\ CollateralRatio >= Percent100
  /\ {MaxPending, MaxRequests, ConversionDelay, WithdrawTime, MaxExpiration, Hive, Hbd,
      InterestRate, CompoundInterval, MaxEscrows, MaxTime, MaxOps} \subseteq Nat

VARIABLES
  balance,     \* balance and hbd_balance of account_object
  savings,     \* savings_balance and savings_hbd_balance
  accrual,     \* savings_hbd_seconds, when they and the interest were last dealt with
  supply,      \* current_supply and current_hbd_supply
  orders,      \* limit_order_object
  escrows,     \* escrow_object
  escrowCount, \* pending_escrow_transfers
  withdrawals, \* savings_withdraw_object
  requests,    \* savings_withdraw_requests
  conversions, \* convert_request_object and collateralized_convert_request_object
  feed,        \* current_median_history
  fills,       \* the fill_order_operations of the last operation
  nextId,      \* the next id of a limit order
  now,         \* head_block_time
  ops          \* operations that opened something, so far

heldVars == <<savings, accrual, escrows, escrowCount, withdrawals, requests, conversions>>
vars == <<heldVars, balance, supply, orders, feed, fills, nextId, now, ops>>

Symbol == {"HIVE", "HBD"}
Other(s) == IF s = "HIVE" THEN "HBD" ELSE "HIVE"
Coins(s, n) == [x \in Symbol |-> IF x = s THEN n ELSE 0]
NoCoins == [x \in Symbol |-> 0]
Total(Of(_), S, s) == SumFunction([x \in S |-> Of(x)[s]])

\* adjust_balance, with the amounts of both symbols
Add(b, a, m) == [b EXCEPT ![a] = [s \in Symbol |-> @[s] + m[s]]]
Take(b, a, m) == [b EXCEPT ![a] = [s \in Symbol |-> @[s] - m[s]]]
Has(b, a, m) == \A s \in Symbol : b[a][s] >= m[s]

Init ==
  /\ balance = [a \in Account |-> [s \in Symbol |-> IF s = "HIVE" THEN Hive ELSE Hbd]]
  /\ savings = [a \in Account |-> NoCoins]
  /\ accrual = [a \in Account |-> [seconds |-> 0, updated |-> 0, paid |-> 0]]
  /\ supply = [s \in Symbol |-> Cardinality(Account) * (IF s = "HIVE" THEN Hive ELSE Hbd)]
  /\ orders = {} /\ escrows = {} /\ escrowCount = [a \in Account |-> 0]
  /\ withdrawals = {} /\ requests = [a \in Account |-> 0] /\ conversions = {}
  /\ feed \in Feeds /\ fills = <<>> /\ nextId = 0 /\ now = 0 /\ ops = 0

Opening == ops < MaxOps /\ ops' = ops + 1 /\ UNCHANGED <<now, feed>>
Following == UNCHANGED <<now, feed, ops>>
NoTrade == fills' = <<>> /\ UNCHANGED <<orders, nextId>>

-----------------------------------------------------------------------------
(* The internal market *)

\* An amount times a price: what n of the base, or of the quote, are worth.
AtPrice(n, p) == (n * p.quote) \div p.base
AtInverse(n, p) == (n * p.base) \div p.quote

amount_to_receive(o, left) == AtPrice(left, o.price)

\* The orders the new one may be matched with, best price first, then oldest.
Better(o, p) == \/ o.price.base * p.price.quote > p.price.base * o.price.quote
                \/ /\ o.price.base * p.price.quote = p.price.base * o.price.quote
                   /\ o.id < p.id
Crosses(o, p) == /\ o.sells # p.sells
                 /\ o.price.base * p.price.base >= o.price.quote * p.price.quote
Candidates(o) == CHOOSE q \in SetToSeqs({p \in orders : Crosses(o, p)}) :
                   \A i, j \in DOMAIN q : i < j => Better(q[i], q[j])

\* Mutant of Over: the refund of what is too small to sell missing
Over_dust_kept(o, left) == left = 0

\* Whether an order is over once it has left to sell: sold, or cancelled by
\* fill_order because the rest is worth nothing at its price.
Over(o, left) == left = 0 \/ amount_to_receive(o, left) = 0

\* Mutant of fill_order: the order too small to sell ended without its refund
fill_order_lost(t, o, pays, receives) ==
  LET left == o.left - pays
  IN  [t EXCEPT !.balance = Add(@, o.seller, Coins(Other(o.sells), receives)),
                !.orders = (@ \ {o}) \cup
                           (IF Over(o, left) THEN {} ELSE {[o EXCEPT !.left = left]})]

\* fill_order for one of the two: it pays, receives, and is kept or ended.
fill_order(t, o, pays, receives) ==
  LET left == o.left - pays
      back == IF Over(o, left) THEN left ELSE 0
  IN  [t EXCEPT !.balance = Add(Add(@, o.seller, Coins(Other(o.sells), receives)),
                                o.seller, Coins(o.sells, back)),
                !.orders = (@ \ {o}) \cup
                           (IF Over(o, left) THEN {} ELSE {[o EXCEPT !.left = left]})]

\* Mutant of Exchange: the old order's payment rounded up
Exchange_up(o, old) ==
  LET worth == AtPrice(old.left, old.price)
  IN  IF o.left <= worth
      THEN [new |-> o.left,
            old |-> (o.left * old.price.base + old.price.quote - 1) \div old.price.quote]
      ELSE [new |-> worth, old |-> old.left]

\* What the new order and the old one pay each other.
Exchange(o, old) ==
  LET worth == AtPrice(old.left, old.price)
  IN  IF o.left <= worth
      THEN [new |-> o.left, old |-> AtInverse(o.left, old.price)]
      ELSE [new |-> worth, old |-> old.left]

\* match, when the new order is still there
match(t, old) ==
  LET open == {o \in t.orders : o.id = nextId}
      o == CHOOSE o \in open : TRUE
      pays == Exchange(o, old)
      t1 == fill_order(t, o, pays.new, pays.old)
      t2 == fill_order(t1, old, pays.old, pays.new)
  IN  IF open = {} THEN t
      ELSE [t2 EXCEPT !.fills = Append(@, [taker |-> o.price, maker |-> old.price,
                                           paid |-> pays.new, got |-> pays.old])]

apply_order(o) ==
  FoldLeft(match, [balance |-> Take(balance, o.seller, Coins(o.sells, o.left)),
                   orders |-> orders \cup {o}, fills |-> <<>>], Candidates(o))

limit_order_create(a, s, n, price, expiration, fillOrKill) ==
  LET o == [id |-> nextId, seller |-> a, sells |-> s, left |-> n, price |-> price,
            expiration |-> expiration]
      t == apply_order(o)
  IN  /\ Opening
      /\ expiration > now /\ expiration <= now + MaxExpiration
      /\ Has(balance, a, Coins(s, n)) /\ AtPrice(n, price) > 0
      /\ fillOrKill => \A p \in t.orders : p.id # nextId
      /\ balance' = t.balance /\ orders' = t.orders /\ fills' = t.fills
      /\ nextId' = nextId + 1
      /\ UNCHANGED <<heldVars, supply>>

limit_order_cancel(o) ==
  /\ Following
  /\ balance' = Add(balance, o.seller, Coins(o.sells, o.left))
  /\ orders' = orders \ {o} /\ fills' = <<>>
  /\ UNCHANGED <<heldVars, supply, nextId>>

-----------------------------------------------------------------------------
(* Escrow *)

is_approved(e) == e.toApproved /\ e.agentApproved
Held(e) == [s \in Symbol |-> e.amount[s] + e.fee[s]]

escrow_transfer(from, to, agent, id, amount, fee, deadline, expiration) ==
  LET e == [from |-> from, to |-> to, agent |-> agent, id |-> id, amount |-> amount,
            fee |-> fee, deadline |-> deadline, expiration |-> expiration,
            toApproved |-> FALSE, agentApproved |-> FALSE, disputed |-> FALSE]
  IN  /\ Opening
      /\ agent \notin {from, to} /\ amount # NoCoins
      /\ deadline > now /\ deadline < expiration
      /\ escrowCount[from] < MaxPending
      /\ \A x \in escrows : x.from # from \/ x.id # id
      /\ Has(balance, from, Held(e))
      /\ balance' = Take(balance, from, Held(e)) /\ escrows' = escrows \cup {e}
      /\ escrowCount' = [escrowCount EXCEPT ![from] = @ + 1]
      /\ NoTrade /\ UNCHANGED <<savings, accrual, supply, withdrawals, requests, conversions>>

\* Mutant of escrow_approve: the fee paid and still held
escrow_approve_fee_kept(e, who, approve) ==
  LET signed == [e EXCEPT !.toApproved = @ \/ who = e.to,
                          !.agentApproved = @ \/ who = e.agent]
  IN  /\ Following
      /\ e.deadline >= now
      /\ \/ who = e.to /\ ~e.toApproved
         \/ who = e.agent /\ ~e.agentApproved
      /\ \/ /\ ~approve
            /\ balance' = Add(balance, e.from, Held(e))
            /\ escrows' = escrows \ {e}
            /\ escrowCount' = [escrowCount EXCEPT ![e.from] = @ - 1]
         \/ /\ approve /\ ~is_approved(signed)
            /\ escrows' = (escrows \ {e}) \cup {signed}
            /\ UNCHANGED <<balance, escrowCount>>
         \/ /\ approve /\ is_approved(signed)
            /\ balance' = Add(balance, e.agent, e.fee)
            /\ escrows' = (escrows \ {e}) \cup {signed}
            /\ UNCHANGED escrowCount
      /\ NoTrade /\ UNCHANGED <<savings, accrual, supply, withdrawals, requests, conversions>>

escrow_approve(e, who, approve) ==
  LET signed == [e EXCEPT !.toApproved = @ \/ who = e.to,
                          !.agentApproved = @ \/ who = e.agent]
  IN  /\ Following
      /\ e.deadline >= now
      /\ \/ who = e.to /\ ~e.toApproved
         \/ who = e.agent /\ ~e.agentApproved
      /\ \/ /\ ~approve
            /\ balance' = Add(balance, e.from, Held(e))
            /\ escrows' = escrows \ {e}
            /\ escrowCount' = [escrowCount EXCEPT ![e.from] = @ - 1]
         \/ /\ approve /\ ~is_approved(signed)
            /\ escrows' = (escrows \ {e}) \cup {signed}
            /\ UNCHANGED <<balance, escrowCount>>
         \/ /\ approve /\ is_approved(signed)
            /\ balance' = Add(balance, e.agent, e.fee)
            /\ escrows' = (escrows \ {e}) \cup {[signed EXCEPT !.fee = NoCoins]}
            /\ UNCHANGED escrowCount
      /\ NoTrade /\ UNCHANGED <<savings, accrual, supply, withdrawals, requests, conversions>>

escrow_dispute(e) ==
  /\ Following
  /\ now < e.expiration /\ is_approved(e) /\ ~e.disputed
  /\ escrows' = (escrows \ {e}) \cup {[e EXCEPT !.disputed = TRUE]}
  /\ NoTrade
  /\ UNCHANGED <<balance, savings, accrual, supply, escrowCount, withdrawals, requests,
                 conversions>>

\* Who may send the funds to whom: the agent of a disputed escrow to either
\* side, each side to the other, and after expiry each to either.
MayRelease(e, who, receiver) ==
  IF e.disputed THEN who = e.agent
  ELSE /\ who \in {e.from, e.to}
       /\ e.expiration > now => receiver = (IF who = e.from THEN e.to ELSE e.from)

\* Mutant of escrow_release: the escrow looked at before its balance changes
escrow_release_early(e, who, receiver, amount) ==
  LET rest == [s \in Symbol |-> e.amount[s] - amount[s]]
  IN  /\ Following
      /\ amount # NoCoins /\ \A s \in Symbol : rest[s] >= 0
      /\ receiver \in {e.from, e.to} /\ is_approved(e) /\ MayRelease(e, who, receiver)
      /\ balance' = Add(balance, receiver, amount)
      /\ IF e.amount = NoCoins
         THEN /\ escrows' = escrows \ {e}
              /\ escrowCount' = [escrowCount EXCEPT ![e.from] = @ - 1]
         ELSE /\ escrows' = (escrows \ {e}) \cup {[e EXCEPT !.amount = rest]}
              /\ UNCHANGED escrowCount
      /\ NoTrade /\ UNCHANGED <<savings, accrual, supply, withdrawals, requests, conversions>>

escrow_release(e, who, receiver, amount) ==
  LET rest == [s \in Symbol |-> e.amount[s] - amount[s]]
  IN  /\ Following
      /\ amount # NoCoins /\ \A s \in Symbol : rest[s] >= 0
      /\ receiver \in {e.from, e.to} /\ is_approved(e) /\ MayRelease(e, who, receiver)
      /\ balance' = Add(balance, receiver, amount)
      /\ IF rest = NoCoins
         THEN /\ escrows' = escrows \ {e}
              /\ escrowCount' = [escrowCount EXCEPT ![e.from] = @ - 1]
         ELSE /\ escrows' = (escrows \ {e}) \cup {[e EXCEPT !.amount = rest]}
              /\ UNCHANGED escrowCount
      /\ NoTrade /\ UNCHANGED <<savings, accrual, supply, withdrawals, requests, conversions>>

-----------------------------------------------------------------------------
(* Savings and conversions *)

transfer(a, to, m) ==
  /\ Opening
  /\ Has(balance, a, m) /\ balance' = Add(Take(balance, a, m), to, m)
  /\ NoTrade /\ UNCHANGED <<heldVars, supply>>

\* adjust_savings_balance: HBD savings earn interest for the time since their
\* last change, printed at most once in an interval.
adjust_savings_balance(a, m) ==
  LET last == accrual[a]
      due == m["HBD"] # 0 /\ last.updated # now
      seconds == last.seconds + savings[a]["HBD"] * (now - last.updated)
      pays == due /\ seconds > 0 /\ now - last.paid > CompoundInterval
      interest == IF pays THEN ((seconds \div Year) * InterestRate) \div Percent100 ELSE 0
  IN  /\ savings' = Add(Add(savings, a, Coins("HBD", interest)), a, m)
      /\ supply' = [supply EXCEPT !["HBD"] = @ + interest]
      /\ accrual' = [accrual EXCEPT ![a] =
           IF pays THEN [seconds |-> 0, updated |-> now, paid |-> now]
           ELSE IF due THEN [@ EXCEPT !.seconds = seconds, !.updated = now] ELSE @]

transfer_to_savings(a, to, m) ==
  /\ Opening
  /\ Has(balance, a, m) /\ balance' = Take(balance, a, m)
  /\ adjust_savings_balance(to, m)
  /\ NoTrade /\ UNCHANGED <<escrows, escrowCount, withdrawals, requests, conversions>>

transfer_from_savings(a, to, id, m) ==
  /\ Opening
  /\ requests[a] < MaxRequests /\ Has(savings, a, m)
  /\ \A w \in withdrawals : w.from # a \/ w.id # id
  /\ adjust_savings_balance(a, [s \in Symbol |-> -m[s]])
  /\ withdrawals' = withdrawals \cup
       {[from |-> a, to |-> to, id |-> id, amount |-> m, complete |-> now + WithdrawTime]}
  /\ requests' = [requests EXCEPT ![a] = @ + 1]
  /\ NoTrade /\ UNCHANGED <<balance, escrows, escrowCount, conversions>>

cancel_transfer_from_savings(w) ==
  /\ Following
  /\ adjust_savings_balance(w.from, w.amount)
  /\ withdrawals' = withdrawals \ {w}
  /\ requests' = [requests EXCEPT ![w.from] = @ - 1]
  /\ NoTrade /\ UNCHANGED <<balance, escrows, escrowCount, conversions>>

Unused(kind, a, id) ==
  \A c \in conversions : c.kind # kind \/ c.owner # a \/ c.id # id

convert(a, id, n) ==
  /\ Opening
  /\ Has(balance, a, Coins("HBD", n)) /\ Unused("plain", a, id)
  /\ balance' = Take(balance, a, Coins("HBD", n))
  /\ conversions' = conversions \cup
       {[kind |-> "plain", owner |-> a, id |-> id, held |-> n, converted |-> 0,
         date |-> now + ConversionDelay]}
  /\ NoTrade
  /\ UNCHANGED <<savings, accrual, supply, escrows, escrowCount, withdrawals, requests>>

\* multiply_with_fee, from HIVE to HBD and back, the fee on the side of HIVE
HbdFor(n, p) == (n * p.hbd * Percent100) \div (p.hive * (Percent100 + ConversionFee))
HiveFor(n, p) == (n * p.hive * (Percent100 + ConversionFee)) \div (p.hbd * Percent100)

collateralized_convert(a, id, n) ==
  LET printed == HbdFor((n * Percent100) \div CollateralRatio, feed)
  IN  /\ Opening
      /\ Has(balance, a, Coins("HIVE", n)) /\ printed > 0 /\ Unused("collateral", a, id)
      /\ balance' = Add(Take(balance, a, Coins("HIVE", n)), a, Coins("HBD", printed))
      /\ supply' = [supply EXCEPT !["HBD"] = @ + printed]
      /\ conversions' = conversions \cup
           {[kind |-> "collateral", owner |-> a, id |-> id, held |-> n,
             converted |-> printed, date |-> now + ConversionDelay]}
      /\ NoTrade
      /\ UNCHANGED <<savings, accrual, escrows, escrowCount, withdrawals, requests>>

-----------------------------------------------------------------------------
(* A block *)

\* What the owner of a conversion gets, what is burnt and what is printed.
Gets(c, price) ==
  IF c.kind = "plain" THEN (c.held * price.hive) \div price.hbd
  ELSE IF HiveFor(c.converted, price) > c.held THEN 0
       ELSE c.held - HiveFor(c.converted, price)
SupplyChange(c, price) ==
  IF c.kind = "plain"
  THEN [s \in Symbol |-> IF s = "HIVE" THEN Gets(c, price) ELSE -c.held]
  ELSE Coins("HIVE", Gets(c, price) - c.held)

\* What the processes of the block at time t take: orders past their expiration,
\* savings withdrawals that are complete, escrows nobody ratified in time, and
\* conversions.
clear_expired_orders(t) == {o \in orders : o.expiration < t}
process_savings_withdraws(t) == {w \in withdrawals : w.complete <= t}
expire_escrow_ratification(t) == {e \in escrows : ~is_approved(e) /\ e.deadline <= t}
process_conversions(t) == {c \in conversions : c.date <= t}

Block ==
  LET time == now + 1
      dueOrders == clear_expired_orders(time)
      dueConversions == process_conversions(time)
      dueWithdrawals == process_savings_withdraws(time)
      dueEscrows == expire_escrow_ratification(time)
      Change(c) == SupplyChange(c, feed')
      Back(a, s) ==
        Total(LAMBDA o : Coins(o.sells, o.left), {o \in dueOrders : o.seller = a}, s)
        + Total(LAMBDA c : Coins("HIVE", Gets(c, feed')), {c \in dueConversions : c.owner = a}, s)
        + Total(LAMBDA w : w.amount, {w \in dueWithdrawals : w.to = a}, s)
        + Total(Held, {e \in dueEscrows : e.from = a}, s)
  IN  /\ now < MaxTime /\ now' = time
      /\ feed' \in Feeds
      /\ balance' = [a \in Account |-> [s \in Symbol |-> balance[a][s] + Back(a, s)]]
      /\ supply' = [s \in Symbol |-> supply[s] + Total(Change, dueConversions, s)]
      /\ orders' = orders \ dueOrders
      /\ conversions' = conversions \ dueConversions
      /\ withdrawals' = withdrawals \ dueWithdrawals
      /\ requests' = [a \in Account |-> requests[a]
                        - Cardinality({w \in dueWithdrawals : w.from = a})]
      /\ escrows' = escrows \ dueEscrows
      /\ escrowCount' = [a \in Account |-> escrowCount[a]
                           - Cardinality({e \in dueEscrows : e.from = a})]
      /\ fills' = <<>> /\ UNCHANGED <<savings, accrual, nextId, ops>>

\* What an escrow may still release.
Parts(e) == {m \in [Symbol -> 0 .. e.amount["HIVE"] + e.amount["HBD"]] :
               \A s \in Symbol : m[s] <= e.amount[s]}

Next ==
  \/ Block
  \/ \E o \in orders : limit_order_cancel(o)
  \/ \E e \in escrows :
       \/ \E who \in Account, approve \in BOOLEAN : escrow_approve(e, who, approve)
       \/ escrow_dispute(e)
       \/ \E who, receiver \in Account, m \in Parts(e) : escrow_release(e, who, receiver, m)
  \/ \E w \in withdrawals : cancel_transfer_from_savings(w)
  \/ \E a \in Account :
       \/ \E s \in Symbol, n \in Sizes, price \in Prices, after \in 1 .. MaxExpiration,
            fillOrKill \in BOOLEAN :
            limit_order_create(a, s, n, price, now + after, fillOrKill)
       \/ \E to \in Account, m \in Moves :
            transfer(a, to, m) \/ transfer_to_savings(a, to, m)
       \/ \E to, agent \in Account, id \in RequestId, m \in EscrowMoves :
            /\ Cardinality(escrows) < MaxEscrows
            /\ escrow_transfer(a, to, agent, id, m.amount, m.fee, now + 1, now + 2)
       \/ \E to \in Account, id \in RequestId, m \in Moves : transfer_from_savings(a, to, id, m)
       \/ \E id \in RequestId, n \in Sizes :
            convert(a, id, n) \/ collateralized_convert(a, id, n)

Spec == Init /\ [][Next]_vars

-----------------------------------------------------------------------------
(* Properties *)

\* No balance, saving, order or request is ever negative, and none is empty.
TypeOK ==
  /\ \A a \in Account, s \in Symbol : balance[a][s] \in Nat /\ savings[a][s] \in Nat
  /\ \A s \in Symbol : supply[s] \in Nat
  /\ \A o \in orders : o.left \in Nat \ {0} /\ o.id < nextId
  /\ \A e \in escrows : \A s \in Symbol : e.amount[s] \in Nat /\ e.fee[s] \in Nat
  /\ \A e \in escrows : e.amount # NoCoins
  /\ \A c \in conversions : c.held \in Nat \ {0}
  /\ escrowCount \in [Account -> 0 .. MaxPending]
  /\ requests \in [Account -> 0 .. MaxRequests]

\* What validate_invariants asserts: the supply of each token is what all
\* balances, savings, orders, escrows, withdrawals and requests hold together,
\* whatever was rounded, refunded, cancelled or let expire.
SuppliesExact ==
  LET InOrder(o) == Coins(o.sells, o.left)
      InWithdrawal(w) == w.amount
      InConversion(c) == Coins(IF c.kind = "plain" THEN "HBD" ELSE "HIVE", c.held)
      OfAccount(a) == [s \in Symbol |-> balance[a][s] + savings[a][s]]
  IN  \A s \in Symbol :
        supply[s] = Total(OfAccount, Account, s) + Total(InOrder, orders, s)
                    + Total(Held, escrows, s) + Total(InWithdrawal, withdrawals, s)
                    + Total(InConversion, conversions, s)

\* No two resting orders could trade with each other, and each of them would get
\* something for what it still sells (apply_order, fill_order).
BookSettled ==
  /\ \A o, p \in orders : ~Crosses(o, p)
  /\ \A o \in orders : amount_to_receive(o, o.left) > 0

\* Each side of a match pays and receives something; the old order gets its
\* price and the new one its own or better, to within the one unit that
\* rounding takes (match).
FillsFair ==
  \A i \in DOMAIN fills :
    LET f == fills[i]
    IN  /\ f.paid > 0 /\ f.got > 0
        /\ (f.paid + 1) * f.maker.base > f.got * f.maker.quote
        /\ (f.got + 1) * f.taker.base > f.paid * f.taker.quote

\* The agent's fee is paid once, when both have approved; only an approved
\* escrow is disputed, and what is not approved by its deadline has gone back.
\* pending_escrow_transfers and savings_withdraw_requests, which limit what an
\* account may open, count what is open, however it was opened and ended.
RequestsSettled ==
  /\ \A e \in escrows :
       /\ is_approved(e) => e.fee = NoCoins
       /\ e.disputed => is_approved(e)
       /\ ~is_approved(e) => e.deadline > now
  /\ \A a \in Account :
       /\ escrowCount[a] = Cardinality({e \in escrows : e.from = a})
       /\ requests[a] = Cardinality({w \in withdrawals : w.from = a})
=============================================================================
