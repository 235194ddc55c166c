---------------------------- MODULE LedgerProofs ----------------------------
(***************************************************************************)
(* For any accounts, prices, feeds, amounts and delays: the supplies are   *)
(* what everything holds, the market is settled and fair, and the counters *)
(* count what is open.                                                     *)
(***************************************************************************)
EXTENDS Ledger, FoldTheorems

------------------------------------------------------------------------------
(* Arithmetic of prices. *)

\* Products keep an order and give it back.
LEMMA Products ==
  /\ \A a, b, c \in Nat : a <= b => a * c <= b * c
  /\ \A a, b \in Nat, c \in Nat \ {0} : a < b => a * c < b * c
  /\ \A a, b, c \in Nat : a * c < b * c => a < b
  /\ \A a, b \in Nat, c \in Nat \ {0} : a * c <= b * c => a <= b
<1>1. ASSUME NEW a \in Nat, NEW b \in Nat, NEW c \in Nat, a <= b
      PROVE  a * c <= b * c
  <2>1. b - a \in Nat
    BY <1>1
  <2>2. (b - a) * c >= 0
    BY <2>1
  <2>3. (b - a) * c = b * c - a * c
    OBVIOUS
  <2> QED  BY <2>2, <2>3
<1>2. ASSUME NEW a \in Nat, NEW b \in Nat, NEW c \in Nat \ {0}, a < b
      PROVE  a * c < b * c
  <2>1. a + 1 <= b /\ a + 1 \in Nat
    BY <1>2
  <2>2. (a + 1) * c <= b * c
    BY <1>1, <2>1
  <2>3. (a + 1) * c = a * c + c
    OBVIOUS
  <2> QED  BY <2>2, <2>3
<1>3. ASSUME NEW a \in Nat, NEW b \in Nat, NEW c \in Nat, a * c < b * c
      PROVE  a < b
  <2> SUFFICES ASSUME b <= a PROVE FALSE
    OBVIOUS
  <2>1. b * c <= a * c
    BY <1>1
  <2> QED  BY <1>3, <2>1
<1>4. ASSUME NEW a \in Nat, NEW b \in Nat, NEW c \in Nat \ {0}, a * c <= b * c
      PROVE  a <= b
  <2> SUFFICES ASSUME b < a PROVE FALSE
    OBVIOUS
  <2>1. b * c < a * c
    BY <1>2
  <2> QED  BY <1>4, <2>1
<1> QED  BY <1>1, <1>2, <1>3, <1>4

\* Division rounds down (asset * price).
LEMMA Division ==
  ASSUME NEW n \in Nat, NEW d \in Nat \ {0}
  PROVE  /\ n \div d \in Nat
         /\ (n \div d) * d <= n
         /\ n < ((n \div d) + 1) * d
<1>1. n \div d \in Int /\ d * (n \div d) <= n /\ n < d * (n \div d) + d
  OBVIOUS
<1> DEFINE k == n \div d
<1>2. k \in Int /\ k * d <= n /\ n < (k + 1) * d
  BY <1>1
<1> HIDE DEF k
<1>3. k >= 0
  <2> SUFFICES ASSUME k + 1 <= 0 PROVE FALSE
    BY <1>2
  <2>1. (0 - (k + 1)) \in Nat
    BY <1>2
  <2>2. (0 - (k + 1)) * d >= 0
    BY <2>1
  <2>3. (0 - (k + 1)) * d = 0 - ((k + 1) * d)
    BY <1>2
  <2> QED  BY <1>2, <2>2, <2>3
<1> QED  BY <1>2, <1>3 DEF k

\* Transitivity of comparing prices crosswise (operator < on prices).
LEMMA CrossTransitive ==
  ASSUME NEW a \in Nat, NEW b \in Nat \ {0}, NEW c \in Nat, NEW d \in Nat \ {0},
         NEW e \in Nat, NEW f \in Nat \ {0}, a * d >= c * b, c * f >= e * d
  PROVE  /\ a * f >= e * b
         /\ a * d > c * b \/ c * f > e * d => a * f > e * b
<1>1. (c * b) * f <= (a * d) * f
  BY Products
<1>2. (e * d) * b <= (c * f) * b
  BY Products
<1>3. (c * b) * f = (c * f) * b
  OBVIOUS
<1>4. (a * d) * f = (a * f) * d /\ (e * d) * b = (e * b) * d
  OBVIOUS
<1>5. /\ a * f \in Nat /\ e * b \in Nat /\ c * b \in Nat /\ a * d \in Nat
      /\ e * d \in Nat /\ c * f \in Nat
  OBVIOUS
<1>6. /\ (c * b) * f \in Nat /\ (a * d) * f \in Nat /\ (e * d) * b \in Nat
      /\ (a * f) * d \in Nat /\ (e * b) * d \in Nat
  BY <1>5
<1>7. (e * b) * d <= (a * f) * d
  BY <1>1, <1>2, <1>3, <1>4, <1>6
<1>8. e * b <= a * f
  BY <1>5, <1>7, Products
<1>9. ASSUME a * d > c * b \/ c * f > e * d PROVE a * f > e * b
  <2>1. (c * b) * f < (a * d) * f \/ (e * d) * b < (c * f) * b
    BY <1>5, <1>9, Products
  <2>2. (e * b) * d < (a * f) * d
    BY <1>1, <1>2, <1>3, <1>4, <1>6, <2>1
  <2> QED  BY <1>5, <2>2, Products
<1> QED  BY <1>8, <1>9

\* The new order is bought up by the old one: it pays l and gets l at the old
\* order's price b : q; its own price is t : u, and the two cross (match).
LEMMA BoughtUp ==
  ASSUME NEW l \in Nat \ {0}, NEW L \in Nat \ {0}, NEW b \in Nat \ {0},
         NEW q \in Nat \ {0}, NEW t \in Nat \ {0}, NEW u \in Nat \ {0},
         t * b >= u * q, l <= (L * q) \div b, (l * u) \div t > 0
  PROVE  LET got == (l * b) \div q
         IN  /\ got \in Nat \ {0} /\ got <= L
             /\ (l + 1) * b > got * q
             /\ (got + 1) * t > l * u
<1> DEFINE got == (l * b) \div q
<1>1. l * b \in Nat /\ L * q \in Nat /\ l * u \in Nat /\ t * b \in Nat /\ u * q \in Nat
  OBVIOUS
<1>2. got \in Nat /\ got * q <= l * b /\ l * b < (got + 1) * q
  BY <1>1, Division
<1> HIDE DEF got
<1>3. got <= L
  <2> DEFINE w == (L * q) \div b
  <2>1. w \in Nat /\ w * b <= L * q
    BY <1>1, Division
  <2> HIDE DEF w
  <2>2. l <= w
    BY DEF w
  <2>3. l * b <= w * b
    BY <2>1, <2>2, Products
  <2>4. got * q \in Nat /\ w * b \in Nat
    BY <1>2, <2>1
  <2>5. got * q <= L * q
    BY <1>1, <1>2, <2>1, <2>3, <2>4
  <2> QED  BY <1>2, <2>5, Products
<1>4. l * u >= t
  <2> DEFINE w == (l * u) \div t
  <2>1. w \in Nat /\ w * t <= l * u
    BY <1>1, Division
  <2>2. 1 <= w
    BY <2>1
  <2> HIDE DEF w
  <2>3. 1 * t <= w * t
    BY <2>1, <2>2, Products
  <2>4. 1 * t = t /\ w * t \in Nat
    BY <2>1
  <2> QED  BY <1>1, <2>1, <2>3, <2>4
<1>5. got # 0
  <2> SUFFICES ASSUME got = 0 PROVE FALSE
    OBVIOUS
  <2>1. l * b < q
    BY <1>2
  <2>2. (l * b) * u < q * u
    BY <1>1, <2>1, Products
  <2>3. t * b <= (l * u) * b
    BY <1>1, <1>4, Products
  <2>4. (l * b) * u = (l * u) * b /\ q * u = u * q /\ (l * u) * b \in Nat
    OBVIOUS
  <2> QED  BY <1>1, <2>2, <2>3, <2>4
<1>6. (l + 1) * b > got * q
  <2>1. (l + 1) * b = l * b + b /\ got * q \in Nat
    BY <1>2
  <2> QED  BY <1>1, <1>2, <2>1
<1>7. (got + 1) * t > l * u
  <2> DEFINE g == got + 1
  <2>1. g \in Nat \ {0} /\ l * b < g * q /\ g * q \in Nat
    BY <1>2
  <2> HIDE DEF g
  <2>2. (l * b) * u < (g * q) * u
    BY <1>1, <2>1, Products
  <2>3. (u * q) * g <= (t * b) * g
    BY <1>1, <2>1, Products
  <2>4. /\ (g * q) * u = (u * q) * g /\ (t * b) * g = (g * t) * b
        /\ (l * b) * u = (l * u) * b
    BY <2>1
  <2>5. g * t \in Nat /\ (g * t) * b \in Nat /\ (l * u) * b \in Nat /\ (u * q) * g \in Nat
    BY <1>1, <2>1
  <2>6. (l * u) * b < (g * t) * b
    BY <2>2, <2>3, <2>4, <2>5
  <2>7. l * u < g * t
    BY <1>1, <2>5, <2>6, Products
  <2> QED  BY <2>7 DEF g
<1> QED  BY <1>2, <1>3, <1>5, <1>6, <1>7 DEF got

\* The old order is bought up by the new one: it pays all of L and gets what that
\* is worth at its price b : q; the new order's price is t : u (match).
LEMMA SoldOut ==
  ASSUME NEW L \in Nat \ {0}, NEW b \in Nat \ {0}, NEW q \in Nat \ {0},
         NEW t \in Nat \ {0}, NEW u \in Nat \ {0}, t * b >= u * q,
         (L * q) \div b > 0
  PROVE  LET paid == (L * q) \div b
         IN  /\ paid \in Nat \ {0}
             /\ (paid + 1) * b > L * q
             /\ (L + 1) * t > paid * u
<1> DEFINE paid == (L * q) \div b
<1>1. L * q \in Nat /\ t * b \in Nat /\ u * q \in Nat
  OBVIOUS
<1>2. paid \in Nat \ {0} /\ paid * b <= L * q /\ L * q < (paid + 1) * b
  BY <1>1, Division
<1> HIDE DEF paid
<1>3. (L + 1) * t > paid * u
  <2>1. paid * b \in Nat /\ paid * u \in Nat
    BY <1>2
  <2>2. (paid * b) * u <= (L * q) * u
    BY <1>1, <1>2, <2>1, Products
  <2>3. (u * q) * (L + 1) <= (t * b) * (L + 1)
    BY <1>1, Products
  <2>4. (L * q) * u = (u * q) * L /\ (u * q) * (L + 1) = (u * q) * L + u * q
    OBVIOUS
  <2>5. (t * b) * (L + 1) = ((L + 1) * t) * b /\ (paid * b) * u = (paid * u) * b
    BY <1>2
  <2>6. u * q > 0
    OBVIOUS
  <2>7. (u * q) * L \in Nat /\ ((L + 1) * t) * b \in Nat /\ (paid * u) * b \in Nat
        /\ (L + 1) * t \in Nat
    BY <2>1
  <2>8. (paid * u) * b < ((L + 1) * t) * b
    BY <1>1, <2>2, <2>3, <2>4, <2>5, <2>6, <2>7
  <2> QED  BY <2>1, <2>7, <2>8, Products
<1> QED  BY <1>2, <1>3 DEF paid

------------------------------------------------------------------------------
(* What is held. *)

Purse == [Account -> [Symbol -> Nat]]
Order == [id : Nat, seller : Account, sells : Symbol, left : Nat \ {0}, price : Prices,
          expiration : Nat]
Escrow == [from : Account, to : Account, agent : Account, id : RequestId,
           amount : [Symbol -> Nat], fee : [Symbol -> Nat], deadline : Nat,
           expiration : Nat, toApproved : BOOLEAN, agentApproved : BOOLEAN,
           disputed : BOOLEAN]
Withdrawal == [from : Account, to : Account, id : RequestId, amount : [Symbol -> Nat],
               complete : Nat]
Conversion == [kind : {"plain", "collateral"}, owner : Account, id : RequestId,
               held : Nat \ {0}, converted : Nat, date : Nat]

InOrder(o, s) == Coins(o.sells, o.left)[s]
InConversion(c, s) == Coins(IF c.kind = "plain" THEN "HBD" ELSE "HIVE", c.held)[s]

InAccounts(b, v, s) == SumFunction([a \in Account |-> b[a][s] + v[a][s]])
InOrders(os, s) == SumFunction([o \in os |-> InOrder(o, s)])
InEscrows(es, s) == SumFunction([e \in es |-> Held(e)[s]])
InWithdrawals(ws, s) == SumFunction([w \in ws |-> w.amount[s]])
InConversions(cs, s) == SumFunction([c \in cs |-> InConversion(c, s)])

\* The parts of the inductive invariant: each table has its type, is finite, and
\* its rows are told apart by their keys (the unique indices of the objects).
BalancesOK == balance \in Purse /\ savings \in Purse /\ supply \in [Symbol -> Int]
AccrualOK == accrual \in [Account -> [seconds : Nat, updated : 0 .. now, paid : 0 .. now]]
ClockOK == now \in Nat /\ feed \in Feeds /\ nextId \in Nat

Book(os, next) ==
  /\ os \subseteq Order /\ IsFiniteSet(os)
  /\ \A o \in os : o.id < next
  /\ \A o, p \in os : o.id = p.id => o = p
OrdersOK == Book(orders, nextId)
MarketInv == OrdersOK /\ BookSettled /\ FillsFair

\* How many rows of S an account has opened.
CountOf(S, a) == Cardinality({x \in S : x.from = a})

EscrowTable(es) ==
  /\ es \subseteq Escrow /\ IsFiniteSet(es)
  /\ \A e \in es : e.amount # NoCoins
  /\ \A e, x \in es : e.from = x.from /\ e.id = x.id => e = x
Ratified(e, time) ==
  /\ is_approved(e) => e.fee = NoCoins
  /\ e.disputed => is_approved(e)
  /\ ~is_approved(e) => e.deadline > time
EscrowInv ==
  /\ EscrowTable(escrows) /\ \A e \in escrows : Ratified(e, now)
  /\ escrowCount \in [Account -> 0 .. MaxPending]
  /\ \A a \in Account : escrowCount[a] = CountOf(escrows, a)

WithdrawalTable(ws) ==
  /\ ws \subseteq Withdrawal /\ IsFiniteSet(ws)
  /\ \A w, x \in ws : w.from = x.from /\ w.id = x.id => w = x
WithdrawalInv ==
  /\ WithdrawalTable(withdrawals)
  /\ requests \in [Account -> 0 .. MaxRequests]
  /\ \A a \in Account : requests[a] = CountOf(withdrawals, a)

ConversionsOK == conversions \subseteq Conversion /\ IsFiniteSet(conversions)

Exact == \A s \in Symbol :
  supply[s] = InAccounts(balance, savings, s) + InOrders(orders, s) + InEscrows(escrows, s)
              + InWithdrawals(withdrawals, s) + InConversions(conversions, s)

IInv == /\ BalancesOK /\ AccrualOK /\ ClockOK /\ MarketInv /\ EscrowInv /\ WithdrawalInv
        /\ ConversionsOK /\ Exact

\* Amounts of one symbol.
LEMMA CoinsType ==
  ASSUME NEW s \in Symbol, NEW n \in Int
  PROVE  /\ Coins(s, n) \in [Symbol -> Int]
         /\ n \in Nat => Coins(s, n) \in [Symbol -> Nat]
         /\ Coins(s, n)[s] = n /\ Coins(s, n)[Other(s)] = 0
         /\ Other(s) \in Symbol /\ Other(s) # s
         /\ \A x \in Symbol : x = s \/ x = Other(s)
  BY DEF Coins, Symbol, Other

\* What each row holds is a natural number.
LEMMA RowTypes ==
  ASSUME NEW s \in Symbol
  PROVE  /\ \A o \in Order : InOrder(o, s) \in Nat
         /\ \A e \in Escrow : Held(e) \in [Symbol -> Nat] /\ Held(e)[s] = e.amount[s] + e.fee[s]
         /\ \A w \in Withdrawal : w.amount[s] \in Nat
         /\ \A c \in Conversion : InConversion(c, s) \in Nat
<1>1. ASSUME NEW o \in Order PROVE InOrder(o, s) \in Nat
  <2>1. o.sells \in Symbol /\ o.left \in Nat
    BY DEF Order
  <2>2. Coins(o.sells, o.left) \in [Symbol -> Nat]
    BY <2>1 DEF Coins
  <2> QED  BY <2>2 DEF InOrder
<1>2. ASSUME NEW e \in Escrow
      PROVE  Held(e) \in [Symbol -> Nat] /\ Held(e)[s] = e.amount[s] + e.fee[s]
  BY DEF Escrow, Held
<1>3. ASSUME NEW c \in Conversion PROVE InConversion(c, s) \in Nat
  <2>1. (IF c.kind = "plain" THEN "HBD" ELSE "HIVE") \in Symbol /\ c.held \in Nat
    BY DEF Symbol, Conversion
  <2> QED  BY <2>1, CoinsType DEF InConversion
<1>4. ASSUME NEW w \in Withdrawal PROVE w.amount[s] \in Nat
  BY DEF Withdrawal
<1> QED  BY <1>1, <1>2, <1>3, <1>4

\* SuppliesExact, with the sums named.
LEMMA ExactIs == SuppliesExact <=> Exact
<1>1. ASSUME NEW s \in Symbol
      PROVE  [a \in Account |-> [x \in Symbol |-> balance[a][x] + savings[a][x]][s]]
             = [a \in Account |-> balance[a][s] + savings[a][s]]
  OBVIOUS
<1>2. ASSUME NEW s \in Symbol
      PROVE  /\ Total(LAMBDA a : [x \in Symbol |-> balance[a][x] + savings[a][x]], Account, s)
                = InAccounts(balance, savings, s)
             /\ Total(LAMBDA o : Coins(o.sells, o.left), orders, s) = InOrders(orders, s)
             /\ Total(Held, escrows, s) = InEscrows(escrows, s)
             /\ Total(LAMBDA w : w.amount, withdrawals, s) = InWithdrawals(withdrawals, s)
             /\ Total(LAMBDA c : Coins(IF c.kind = "plain" THEN "HBD" ELSE "HIVE", c.held),
                      conversions, s) = InConversions(conversions, s)
  BY <1>1 DEF Total, InAccounts, InOrders, InEscrows, InWithdrawals, InConversions, InOrder,
              InConversion
<1> QED  BY <1>2, Zenon DEF SuppliesExact, Exact


\* adjust_balance: what an account has changes by the amounts, and so does what
\* all have.
LEMMA AddSum ==
  ASSUME NEW b \in [Account -> [Symbol -> Int]], NEW v \in [Account -> [Symbol -> Int]],
         NEW a \in Account, NEW m \in [Symbol -> Int], NEW s \in Symbol
  PROVE  /\ Add(b, a, m) \in [Account -> [Symbol -> Int]]
         /\ InAccounts(Add(b, a, m), v, s) = InAccounts(b, v, s) + m[s]
         /\ InAccounts(v, Add(b, a, m), s) = InAccounts(v, b, s) + m[s]
         /\ InAccounts(b, v, s) \in Int /\ InAccounts(v, b, s) \in Int
<1> DEFINE f == [x \in Account |-> b[x][s] + v[x][s]]
           e == [x \in Account |-> Add(b, a, m)[x][s] + v[x][s]]
           g == [x \in Account |-> v[x][s] + b[x][s]]
           h == [x \in Account |-> v[x][s] + Add(b, a, m)[x][s]]
<1>1. IsFiniteSet(Account)
  BY LedgerAssumption
<1>2. Add(b, a, m) \in [Account -> [Symbol -> Int]]
  BY DEF Add
<1>3. \A x \in Account : Add(b, a, m)[x][s] = IF x = a THEN b[x][s] + m[s] ELSE b[x][s]
  BY DEF Add
<1>4. f \in [Account -> Int] /\ e \in [Account -> Int] /\ g \in [Account -> Int]
      /\ h \in [Account -> Int]
  BY <1>2
<1>5. \A x \in Account \ {a} : f[x] = e[x] /\ g[x] = h[x]
  BY <1>3
<1>6. e[a] - f[a] = m[s] /\ h[a] - g[a] = m[s] /\ m[s] \in Int
  BY <1>3
<1>7. /\ InAccounts(b, v, s) = SumFunction(f) /\ InAccounts(Add(b, a, m), v, s) = SumFunction(e)
      /\ InAccounts(v, b, s) = SumFunction(g) /\ InAccounts(v, Add(b, a, m), s) = SumFunction(h)
  BY DEF InAccounts
<1> HIDE DEF f, e, g, h
<1>8. /\ SumFunction(e) = SumFunction(f) + e[a] - f[a]
      /\ SumFunction(h) = SumFunction(g) + h[a] - g[a]
  BY <1>1, <1>4, <1>5, SumChange, ZenonT(60)
<1>9. SumFunction(f) \in Int /\ SumFunction(g) \in Int
  BY <1>1, <1>4, SumType
<1>10. e[a] \in Int /\ f[a] \in Int /\ h[a] \in Int /\ g[a] \in Int
  BY <1>4
<1> QED  BY <1>2, <1>6, <1>7, <1>8, <1>9, <1>10

\* Taking is adding the opposite.
LEMMA TakeIsAdd ==
  ASSUME NEW b \in [Account -> [Symbol -> Int]], NEW a \in Account, NEW m \in [Symbol -> Int]
  PROVE  /\ [s \in Symbol |-> -m[s]] \in [Symbol -> Int]
         /\ Take(b, a, m) = Add(b, a, [s \in Symbol |-> -m[s]])
<1> DEFINE r == [s \in Symbol |-> -m[s]]
<1>1. [s \in Symbol |-> b[a][s] - m[s]] = [s \in Symbol |-> b[a][s] + r[s]]
  OBVIOUS
<1>2. Take(b, a, m) = [b EXCEPT ![a] = [s \in Symbol |-> b[a][s] - m[s]]]
  BY DEF Take
<1>3. Add(b, a, r) = [b EXCEPT ![a] = [s \in Symbol |-> b[a][s] + r[s]]]
  BY DEF Add
<1>4. r \in [Symbol -> Int]
  OBVIOUS
<1>5. Take(b, a, m) = Add(b, a, r)
  BY <1>1, <1>2, <1>3
<1> QED  BY <1>4, <1>5

\* The same for what is taken from an account.
LEMMA TakeSum ==
  ASSUME NEW b \in [Account -> [Symbol -> Int]], NEW v \in [Account -> [Symbol -> Int]],
         NEW a \in Account, NEW m \in [Symbol -> Int], NEW s \in Symbol
  PROVE  /\ Take(b, a, m) \in [Account -> [Symbol -> Int]]
         /\ InAccounts(Take(b, a, m), v, s) = InAccounts(b, v, s) - m[s]
<1> DEFINE r == [x \in Symbol |-> -m[x]]
<1>1. r \in [Symbol -> Int] /\ Take(b, a, m) = Add(b, a, r)
  BY TakeIsAdd
<1>2. r[s] = -m[s] /\ m[s] \in Int
  OBVIOUS
<1> HIDE DEF r
<1>3. /\ Add(b, a, r) \in [Account -> [Symbol -> Int]]
      /\ InAccounts(Add(b, a, r), v, s) = InAccounts(b, v, s) + r[s]
      /\ InAccounts(b, v, s) \in Int
  BY <1>1, AddSum, ZenonT(60)
<1> QED  BY <1>1, <1>2, <1>3

\* No balance becomes negative when an account has what is taken.
LEMMA PurseKept ==
  ASSUME NEW b \in Purse, NEW a \in Account, NEW m \in [Symbol -> Nat]
  PROVE  /\ Add(b, a, m) \in Purse
         /\ Has(b, a, m) => Take(b, a, m) \in Purse
<1>1. Add(b, a, m) \in Purse
  BY DEF Add, Purse
<1>2. ASSUME Has(b, a, m) PROVE Take(b, a, m) \in Purse
  <2>1. \A s \in Symbol : b[a][s] - m[s] \in Nat
    BY <1>2 DEF Has, Purse
  <2> QED  BY <2>1 DEF Take, Purse
<1> QED  BY <1>1, <1>2

\* Natural numbers are integers.
LEMMA Wider ==
  /\ Purse \subseteq [Account -> [Symbol -> Int]]
  /\ [Symbol -> Nat] \subseteq [Symbol -> Int]
  BY DEF Purse


\* What all accounts have when something is added to or taken from one of them.
LEMMA PurseSums ==
  ASSUME NEW b \in Purse, NEW v \in Purse, NEW a \in Account, NEW m \in [Symbol -> Nat],
         NEW s \in Symbol
  PROVE  /\ InAccounts(Add(b, a, m), v, s) = InAccounts(b, v, s) + m[s]
         /\ InAccounts(v, Add(b, a, m), s) = InAccounts(v, b, s) + m[s]
         /\ InAccounts(Take(b, a, m), v, s) = InAccounts(b, v, s) - m[s]
<1>1. /\ b \in [Account -> [Symbol -> Int]] /\ v \in [Account -> [Symbol -> Int]]
      /\ m \in [Symbol -> Int]
  BY Wider
<1>2. /\ InAccounts(Add(b, a, m), v, s) = InAccounts(b, v, s) + m[s]
      /\ InAccounts(v, Add(b, a, m), s) = InAccounts(v, b, s) + m[s]
  BY <1>1, AddSum, ZenonT(60)
<1>3. InAccounts(Take(b, a, m), v, s) = InAccounts(b, v, s) - m[s]
  BY <1>1, TakeSum
<1> QED  BY <1>2, <1>3

\* The values of the rows of each table, as functions.
OrderValue(s) == [o \in Order |-> InOrder(o, s)]
EscrowValue(s) == [e \in Escrow |-> Held(e)[s]]
WithdrawalValue(s) == [w \in Withdrawal |-> w.amount[s]]
ConversionValue(s) == [c \in Conversion |-> InConversion(c, s)]

\* What the tables hold are sums of rows.
LEMMA TableSums ==
  ASSUME NEW s \in Symbol
  PROVE  /\ OrderValue(s) \in [Order -> Int] /\ EscrowValue(s) \in [Escrow -> Int]
         /\ WithdrawalValue(s) \in [Withdrawal -> Int]
         /\ ConversionValue(s) \in [Conversion -> Int]
         /\ \A os \in SUBSET Order : InOrders(os, s) = Rows(OrderValue(s), os)
         /\ \A es \in SUBSET Escrow : InEscrows(es, s) = Rows(EscrowValue(s), es)
         /\ \A ws \in SUBSET Withdrawal : InWithdrawals(ws, s) = Rows(WithdrawalValue(s), ws)
         /\ \A cs \in SUBSET Conversion : InConversions(cs, s) = Rows(ConversionValue(s), cs)
<1>1. /\ OrderValue(s) \in [Order -> Int] /\ EscrowValue(s) \in [Escrow -> Int]
      /\ WithdrawalValue(s) \in [Withdrawal -> Int]
      /\ ConversionValue(s) \in [Conversion -> Int]
  <2>1. /\ \A o \in Order : InOrder(o, s) \in Int
        /\ \A e \in Escrow : Held(e)[s] \in Int
        /\ \A w \in Withdrawal : w.amount[s] \in Int
        /\ \A c \in Conversion : InConversion(c, s) \in Int
    BY RowTypes
  <2> QED  BY <2>1 DEF OrderValue, EscrowValue, WithdrawalValue, ConversionValue
<1>2. ASSUME NEW os \in SUBSET Order PROVE InOrders(os, s) = Rows(OrderValue(s), os)
  <2>1. [o \in os |-> InOrder(o, s)] = [o \in os |-> OrderValue(s)[o]]
    BY DEF OrderValue
  <2> QED  BY <2>1 DEF InOrders, Rows
<1>3. ASSUME NEW es \in SUBSET Escrow PROVE InEscrows(es, s) = Rows(EscrowValue(s), es)
  <2>1. [e \in es |-> Held(e)[s]] = [e \in es |-> EscrowValue(s)[e]]
    BY DEF EscrowValue
  <2> QED  BY <2>1 DEF InEscrows, Rows
<1>4. ASSUME NEW ws \in SUBSET Withdrawal
      PROVE  InWithdrawals(ws, s) = Rows(WithdrawalValue(s), ws)
  <2>1. [w \in ws |-> w.amount[s]] = [w \in ws |-> WithdrawalValue(s)[w]]
    BY DEF WithdrawalValue
  <2> QED  BY <2>1 DEF InWithdrawals, Rows
<1>5. ASSUME NEW cs \in SUBSET Conversion
      PROVE  InConversions(cs, s) = Rows(ConversionValue(s), cs)
  <2>1. [c \in cs |-> InConversion(c, s)] = [c \in cs |-> ConversionValue(s)[c]]
    BY DEF ConversionValue
  <2> QED  BY <2>1 DEF InConversions, Rows
<1> QED  BY <1>1, <1>2, <1>3, <1>4, <1>5

\* Orders put on the book and taken off it.
LEMMA OrderRows ==
  ASSUME NEW s \in Symbol, NEW os \in SUBSET Order, IsFiniteSet(os)
  PROVE  /\ InOrders(os, s) \in Nat
         /\ \A o \in os : InOrders(os \ {o}, s) = InOrders(os, s) - InOrder(o, s)
         /\ \A o \in Order : o \notin os =>
              InOrders(os \cup {o}, s) = InOrders(os, s) + InOrder(o, s)
<1> DEFINE f == OrderValue(s)
<1>1. f \in [Order -> Int] /\ \A o \in Order : f[o] = InOrder(o, s) /\ f[o] \in Nat
  BY TableSums, RowTypes DEF OrderValue
<1>2. \A T \in SUBSET Order : InOrders(T, s) = Rows(f, T)
  BY TableSums
<1> HIDE DEF f
<1>3. /\ Rows(f, os) \in Nat
      /\ \A x \in os : Rows(f, os \ {x}) = Rows(f, os) - f[x]
      /\ \A x \in Order : x \notin os => Rows(f, os \cup {x}) = Rows(f, os) + f[x]
  BY <1>1, RowsChange
<1>4. ASSUME NEW o \in os PROVE InOrders(os \ {o}, s) = InOrders(os, s) - InOrder(o, s)
  BY <1>1, <1>2, <1>3
<1>5. ASSUME NEW o \in Order, o \notin os
      PROVE  InOrders(os \cup {o}, s) = InOrders(os, s) + InOrder(o, s)
  BY <1>1, <1>2, <1>3, <1>5
<1> QED  BY <1>2, <1>3, <1>4, <1>5

\* The same for escrows.
LEMMA EscrowRows ==
  ASSUME NEW s \in Symbol, NEW es \in SUBSET Escrow, IsFiniteSet(es)
  PROVE  /\ InEscrows(es, s) \in Nat
         /\ \A e \in es : InEscrows(es \ {e}, s) = InEscrows(es, s) - Held(e)[s]
         /\ \A e \in Escrow : e \notin es =>
              InEscrows(es \cup {e}, s) = InEscrows(es, s) + Held(e)[s]
<1> DEFINE f == EscrowValue(s)
<1>1. f \in [Escrow -> Int] /\ \A e \in Escrow : f[e] = Held(e)[s] /\ f[e] \in Nat
  BY TableSums, RowTypes DEF EscrowValue
<1>2. \A T \in SUBSET Escrow : InEscrows(T, s) = Rows(f, T)
  BY TableSums
<1> HIDE DEF f
<1>3. /\ Rows(f, es) \in Nat
      /\ \A x \in es : Rows(f, es \ {x}) = Rows(f, es) - f[x]
      /\ \A x \in Escrow : x \notin es => Rows(f, es \cup {x}) = Rows(f, es) + f[x]
  BY <1>1, RowsChange
<1>4. ASSUME NEW e \in es PROVE InEscrows(es \ {e}, s) = InEscrows(es, s) - Held(e)[s]
  BY <1>1, <1>2, <1>3
<1>5. ASSUME NEW e \in Escrow, e \notin es
      PROVE  InEscrows(es \cup {e}, s) = InEscrows(es, s) + Held(e)[s]
  BY <1>1, <1>2, <1>3, <1>5
<1> QED  BY <1>2, <1>3, <1>4, <1>5

\* The same for withdrawals from savings.
LEMMA WithdrawalRows ==
  ASSUME NEW s \in Symbol, NEW ws \in SUBSET Withdrawal, IsFiniteSet(ws)
  PROVE  /\ InWithdrawals(ws, s) \in Nat
         /\ \A w \in ws : InWithdrawals(ws \ {w}, s) = InWithdrawals(ws, s) - w.amount[s]
         /\ \A w \in Withdrawal : w \notin ws =>
              InWithdrawals(ws \cup {w}, s) = InWithdrawals(ws, s) + w.amount[s]
<1> DEFINE f == WithdrawalValue(s)
<1>1. f \in [Withdrawal -> Int] /\ \A w \in Withdrawal : f[w] = w.amount[s] /\ f[w] \in Nat
  BY TableSums, RowTypes DEF WithdrawalValue
<1>2. \A T \in SUBSET Withdrawal : InWithdrawals(T, s) = Rows(f, T)
  BY TableSums
<1> HIDE DEF f
<1>3. /\ Rows(f, ws) \in Nat
      /\ \A x \in ws : Rows(f, ws \ {x}) = Rows(f, ws) - f[x]
      /\ \A x \in Withdrawal : x \notin ws => Rows(f, ws \cup {x}) = Rows(f, ws) + f[x]
  BY <1>1, RowsChange
<1>4. ASSUME NEW w \in ws PROVE InWithdrawals(ws \ {w}, s) = InWithdrawals(ws, s) - w.amount[s]
  BY <1>1, <1>2, <1>3
<1>5. ASSUME NEW w \in Withdrawal, w \notin ws
      PROVE  InWithdrawals(ws \cup {w}, s) = InWithdrawals(ws, s) + w.amount[s]
  BY <1>1, <1>2, <1>3, <1>5
<1> QED  BY <1>2, <1>3, <1>4, <1>5

\* The same for conversions.
LEMMA ConversionRows ==
  ASSUME NEW s \in Symbol, NEW cs \in SUBSET Conversion, IsFiniteSet(cs)
  PROVE  /\ InConversions(cs, s) \in Nat
         /\ \A c \in Conversion : c \notin cs =>
              InConversions(cs \cup {c}, s) = InConversions(cs, s) + InConversion(c, s)
<1> DEFINE f == ConversionValue(s)
<1>1. f \in [Conversion -> Int] /\ \A c \in Conversion : f[c] = InConversion(c, s) /\ f[c] \in Nat
  BY TableSums, RowTypes DEF ConversionValue
<1>2. \A T \in SUBSET Conversion : InConversions(T, s) = Rows(f, T)
  BY TableSums
<1> HIDE DEF f
<1>3. /\ Rows(f, cs) \in Nat
      /\ \A x \in Conversion : x \notin cs => Rows(f, cs \cup {x}) = Rows(f, cs) + f[x]
  BY <1>1, RowsChange
<1>4. ASSUME NEW c \in Conversion, c \notin cs
      PROVE  InConversions(cs \cup {c}, s) = InConversions(cs, s) + InConversion(c, s)
  BY <1>1, <1>2, <1>3, <1>4
<1> QED  BY <1>2, <1>3, <1>4


------------------------------------------------------------------------------
(* The candidates, and the steps of apply_order. *)

\* Both amounts of a price are positive.
LEMMA PriceType ==
  /\ \A p \in Prices : p.base \in Nat \ {0} /\ p.quote \in Nat \ {0}
  /\ \A o \in Order : o.price \in Prices
  BY LedgerAssumption DEF Order

\* The orders a new one crosses can be listed best price first, then oldest, and
\* Candidates lists each of them once (the index by_price).
LEMMA CandidatesListed ==
  ASSUME NEW os, os \subseteq Order, IsFiniteSet(os), \A x, y \in os : x.id = y.id => x = y
  PROVE  \E q \in SetToSeqs(os) : \A i, j \in DOMAIN q : i < j => Better(q[i], q[j])
<1> DEFINE R == {p \in os \X os : Better(p[1], p[2])}
<1>1. \A x, y \in os : <<x, y>> \in R <=> Better(x, y)
  OBVIOUS
<1> HIDE DEF R
<1>2. \A x \in os : /\ x.id \in Nat
                    /\ x.price.base \in Nat \ {0} /\ x.price.quote \in Nat \ {0}
  BY PriceType DEF Order
<1>3. ASSUME NEW x \in os, NEW y \in os, x # y PROVE Better(x, y) \/ Better(y, x)
  <2>1. x.id # y.id
    BY <1>3
  <2>2. x.price.base * y.price.quote \in Int /\ y.price.base * x.price.quote \in Int
    BY <1>2
  <2> QED  BY <1>2, <2>1, <2>2 DEF Better
<1>4. ASSUME NEW x \in os, NEW y \in os, NEW z \in os, Better(x, y), Better(y, z)
      PROVE  Better(x, z)
  <2> DEFINE a == x.price.base
             b == x.price.quote
             c == y.price.base
             d == y.price.quote
             e == z.price.base
             f == z.price.quote
  <2>1. a \in Nat \ {0} /\ b \in Nat \ {0} /\ c \in Nat \ {0} /\ d \in Nat \ {0}
        /\ e \in Nat \ {0} /\ f \in Nat \ {0}
    BY <1>2
  <2>2. a * d > c * b \/ (a * d = c * b /\ x.id < y.id)
    BY <1>4 DEF Better
  <2>3. c * f > e * d \/ (c * f = e * d /\ y.id < z.id)
    BY <1>4 DEF Better
  <2>4. Better(x, z) <=> a * f > e * b \/ (a * f = e * b /\ x.id < z.id)
    BY DEF Better
  <2> HIDE DEF a, b, c, d, e, f
  <2>5. a * d \in Nat /\ c * b \in Nat /\ c * f \in Nat /\ e * d \in Nat /\ a * f \in Nat
        /\ e * b \in Nat
    BY <2>1
  <2>6. a * d >= c * b /\ c * f >= e * d
    BY <2>2, <2>3, <2>5
  <2>7. a * f >= e * b /\ (a * d > c * b \/ c * f > e * d => a * f > e * b)
    BY <2>1, <2>6, CrossTransitive
  <2>8. x.id \in Nat /\ y.id \in Nat /\ z.id \in Nat
    BY <1>2
  <2> QED  BY <2>2, <2>3, <2>4, <2>5, <2>7, <2>8
<1>5. Orders(R, os)
  BY <1>1, <1>3, <1>4 DEF Orders
<1>6. PICK q : Sorted(q, R, os)
  BY <1>5, SortExists
<1>7. q \in SetToSeqs(os) /\ DOMAIN q = 1 .. Len(q) /\ q \in Seq(os)
  BY <1>6, ListedAll DEF Sorted
<1>8. ASSUME NEW i \in DOMAIN q, NEW j \in DOMAIN q, i < j PROVE Better(q[i], q[j])
  <2>1. <<q[i], q[j]>> \in R
    BY <1>6, <1>8 DEF Sorted
  <2>2. q[i] \in os /\ q[j] \in os
    BY <1>7
  <2> QED  BY <1>1, <2>1, <2>2
<1> QED  BY <1>7, <1>8

\* What Candidates lists.
LEMMA CandidatesAre ==
  ASSUME OrdersOK, NEW o
  PROVE  LET S == {p \in orders : Crosses(o, p)}
             q == Candidates(o)
         IN  /\ q \in Seq(S) /\ DOMAIN q = 1 .. Len(q)
             /\ \A i, j \in DOMAIN q : i # j => q[i] # q[j]
             /\ \A x \in S : \E i \in DOMAIN q : q[i] = x
<1> DEFINE S == {p \in orders : Crosses(o, p)}
           q == Candidates(o)
<1>1. S \subseteq orders
  OBVIOUS
<1>2. q = CHOOSE x \in SetToSeqs(S) : \A i, j \in DOMAIN x : i < j => Better(x[i], x[j])
  BY DEF Candidates
<1> HIDE DEF S, q
<1>3. S \subseteq Order /\ IsFiniteSet(S) /\ \A x, y \in S : x.id = y.id => x = y
  BY <1>1, FS_Subset DEF OrdersOK, Book
<1>4. \E x \in SetToSeqs(S) : \A i, j \in DOMAIN x : i < j => Better(x[i], x[j])
  BY <1>3, CandidatesListed
<1>5. q \in SetToSeqs(S)
  BY <1>2, <1>4
<1>6. /\ q \in Seq(S) /\ DOMAIN q = 1 .. Len(q)
      /\ \A i, j \in DOMAIN q : i # j => q[i] # q[j]
      /\ \A x \in S : \E i \in DOMAIN q : q[i] = x
  BY <1>3, <1>5, ListedAll
<1> QED  BY <1>6 DEF S, q

\* The states of the loop of apply_order, before anything is known of them.
LooseOrder == [id : Nat, seller : Account, sells : Symbol, left : Int, price : Prices,
               expiration : Nat]
Fill == [taker : Prices, maker : Prices, paid : Int, got : Int]
Loop == [balance : [Account -> [Symbol -> Int]], orders : SUBSET LooseOrder, fills : Seq(Fill)]

\* fill_order leaves such a state.
LEMMA FillLoose ==
  ASSUME NEW t \in Loop, NEW o \in LooseOrder, NEW pays \in Int, NEW receives \in Int
  PROVE  /\ fill_order(t, o, pays, receives) \in Loop
         /\ fill_order(t, o, pays, receives).fills = t.fills
         /\ LET left == o.left - pays
                back == IF Over(o, left) THEN left ELSE 0
            IN  /\ fill_order(t, o, pays, receives).balance
                   = Add(Add(t.balance, o.seller, Coins(Other(o.sells), receives)),
                         o.seller, Coins(o.sells, back))
                /\ fill_order(t, o, pays, receives).orders
                   = (t.orders \ {o}) \cup
                     (IF Over(o, left) THEN {} ELSE {[o EXCEPT !.left = left]})
<1> DEFINE left == o.left - pays
           back == IF Over(o, left) THEN left ELSE 0
           b == Add(Add(t.balance, o.seller, Coins(Other(o.sells), receives)),
                    o.seller, Coins(o.sells, back))
           os == (t.orders \ {o}) \cup
                 (IF Over(o, left) THEN {} ELSE {[o EXCEPT !.left = left]})
           r == fill_order(t, o, pays, receives)
<1>1. r = [t EXCEPT !.balance = b, !.orders = os]
  BY DEF fill_order
<1>2. left \in Int /\ back \in Int /\ o.seller \in Account /\ o.sells \in Symbol
      /\ Other(o.sells) \in Symbol
  BY DEF LooseOrder, Symbol, Other
<1>3. [o EXCEPT !.left = left] \in LooseOrder
  BY <1>2 DEF LooseOrder
<1>4. t.orders \subseteq LooseOrder /\ t.balance \in [Account -> [Symbol -> Int]]
      /\ t.fills \in Seq(Fill)
  BY DEF Loop
<1>5. os \subseteq LooseOrder
  BY <1>3, <1>4
<1>6. Coins(Other(o.sells), receives) \in [Symbol -> Int] /\ Coins(o.sells, back) \in [Symbol -> Int]
  BY <1>2 DEF Coins
<1>7. b \in [Account -> [Symbol -> Int]]
  <2>1. \A c \in [Account -> [Symbol -> Int]], m \in [Symbol -> Int] :
          Add(c, o.seller, m) \in [Account -> [Symbol -> Int]]
    BY <1>2 DEF Add
  <2> QED  BY <1>4, <1>6, <2>1
<1> HIDE DEF b, os, r
<1>8. r \in Loop /\ r.balance = b /\ r.orders = os /\ r.fills = t.fills
  BY <1>1, <1>4, <1>5, <1>7 DEF Loop
<1> QED  BY <1>8 DEF b, os, r

\* What two orders pay each other.
LEMMA ExchangeLoose ==
  ASSUME NEW o \in LooseOrder, NEW old \in Order
  PROVE  Exchange(o, old).new \in Int /\ Exchange(o, old).old \in Int
<1>1. /\ o.left \in Int /\ old.left \in Int
      /\ old.price.base \in Nat \ {0} /\ old.price.quote \in Nat \ {0}
  BY PriceType DEF LooseOrder, Order
<1>2. AtPrice(old.left, old.price) \in Int
  <2>1. old.left * old.price.quote \in Int
    BY <1>1
  <2> QED  BY <1>1, <2>1 DEF AtPrice
<1>3. AtInverse(o.left, old.price) \in Int
  <2>1. o.left * old.price.base \in Int
    BY <1>1
  <2> QED  BY <1>1, <2>1 DEF AtInverse
<1> QED  BY <1>1, <1>2, <1>3 DEF Exchange


\* The new order when it is still open, and match in its parts.
Taker(t) == CHOOSE o \in {x \in t.orders : x.id = nextId} : TRUE
Paid(t, old) == Exchange(Taker(t), old)
AfterTaker(t, old) == fill_order(t, Taker(t), Paid(t, old).new, Paid(t, old).old)
AfterBoth(t, old) == fill_order(AfterTaker(t, old), old, Paid(t, old).old, Paid(t, old).new)
TheFill(t, old) == [taker |-> Taker(t).price, maker |-> old.price,
                    paid |-> Paid(t, old).new, got |-> Paid(t, old).old]

\* match in its parts.
LEMMA MatchIs ==
  ASSUME NEW t, NEW old
  PROVE  match(t, old) =
           IF {x \in t.orders : x.id = nextId} = {} THEN t
           ELSE [AfterBoth(t, old) EXCEPT !.fills = Append(@, TheFill(t, old))]
  BY DEF match, AfterBoth, AfterTaker, Paid, Taker, TheFill

\* A match leaves a state of the loop: the new order pays, then the old one.
LEMMA MatchLoose ==
  ASSUME NEW t \in Loop, NEW old \in Order
  PROVE  /\ match(t, old) \in Loop
         /\ {x \in t.orders : x.id = nextId} # {} =>
              /\ Taker(t) \in t.orders /\ Taker(t).id = nextId /\ Taker(t) \in LooseOrder
              /\ Paid(t, old).new \in Int /\ Paid(t, old).old \in Int
              /\ AfterTaker(t, old) \in Loop
              /\ match(t, old).balance = AfterBoth(t, old).balance
              /\ match(t, old).orders = AfterBoth(t, old).orders
              /\ match(t, old).fills = Append(t.fills, TheFill(t, old))
<1> DEFINE open == {x \in t.orders : x.id = nextId}
<1>1. CASE open = {}
  BY <1>1, MatchIs
<1>2. CASE open # {}
  <2>1. Taker(t) \in t.orders /\ Taker(t).id = nextId
    <3>1. Taker(t) \in open
      BY <1>2 DEF Taker
    <3> QED  BY <3>1
  <2>2. Taker(t) \in LooseOrder
    BY <2>1 DEF Loop
  <2>3. Paid(t, old).new \in Int /\ Paid(t, old).old \in Int
    BY <2>2, ExchangeLoose DEF Paid
  <2>4. AfterTaker(t, old) \in Loop /\ AfterTaker(t, old).fills = t.fills
    BY <2>2, <2>3, FillLoose DEF AfterTaker
  <2>5. old \in LooseOrder
    BY DEF Order, LooseOrder
  <2>6. AfterBoth(t, old) \in Loop /\ AfterBoth(t, old).fills = t.fills
    <3>1. /\ AfterBoth(t, old) \in Loop
          /\ AfterBoth(t, old).fills = AfterTaker(t, old).fills
      BY <2>3, <2>4, <2>5, FillLoose, SMTT(60) DEF AfterBoth
    <3> QED  BY <2>4, <3>1
  <2>7. TheFill(t, old) \in Fill
    BY <2>2, <2>3 DEF TheFill, Fill, LooseOrder, Order
  <2>8. t.fills \in Seq(Fill)
    BY DEF Loop
  <2>9. Append(t.fills, TheFill(t, old)) \in Seq(Fill)
    BY <2>7, <2>8
  <2>10. match(t, old) = [AfterBoth(t, old) EXCEPT !.fills = Append(@, TheFill(t, old))]
    BY <1>2, MatchIs
  <2>11. /\ match(t, old) \in Loop /\ match(t, old).balance = AfterBoth(t, old).balance
         /\ match(t, old).orders = AfterBoth(t, old).orders
         /\ match(t, old).fills = Append(t.fills, TheFill(t, old))
    BY <2>6, <2>9, <2>10 DEF Loop
  <2> QED  BY <2>1, <2>2, <2>3, <2>4, <2>11
<1> QED  BY <1>1, <1>2

\* What apply_order starts from.
Start(o) == [balance |-> Take(balance, o.seller, Coins(o.sells, o.left)),
             orders |-> orders \cup {o}, fills |-> <<>>]

\* The states of the loop, h[k] after the k-th candidate.
Matching(h, o) ==
  LET q == Candidates(o)
  IN  /\ h \in [0 .. Len(q) -> Loop]
      /\ h[0] = Start(o) /\ h[Len(q)] = apply_order(o)
      /\ \A k \in 1 .. Len(q) : h[k] = match(h[k - 1], q[k])

\* apply_order takes these steps.
LEMMA ApplySteps ==
  ASSUME OrdersOK, BalancesOK, NEW o \in Order
  PROVE  \E h : Matching(h, o)
<1> DEFINE q == Candidates(o)
           n == Len(q)
           base == Start(o)
           F == [i \in 1 .. n |-> [t \in Loop |-> match(t, q[i])]]
           Eq(g) == g = [t \in SUBSET (1 .. n) |->
                           IF t = {} THEN base ELSE match(g[t \ {Max(t)}], q[Max(t)])]
           it == CHOOSE g : Eq(g)
<1>1. q \in Seq(Order) /\ DOMAIN q = 1 .. n /\ n \in Nat
  <2>1. q \in Seq({p \in orders : Crosses(o, p)}) /\ DOMAIN q = 1 .. n
    BY CandidatesAre
  <2>2. {p \in orders : Crosses(o, p)} \subseteq Order
    BY DEF OrdersOK, Book
  <2> HIDE DEF q
  <2> QED  BY <2>1, <2>2
<1>2. base \in Loop
  <2>1. o.seller \in Account /\ o.sells \in Symbol /\ o.left \in Int /\ o \in LooseOrder
    BY DEF Order, LooseOrder
  <2>2. Coins(o.sells, o.left) \in [Symbol -> Int]
    BY <2>1 DEF Coins
  <2>3. balance \in [Account -> [Symbol -> Int]]
    BY DEF BalancesOK, Purse
  <2>4. Take(balance, o.seller, Coins(o.sells, o.left)) \in [Account -> [Symbol -> Int]]
    BY <2>1, <2>2, <2>3 DEF Take
  <2>5. orders \subseteq LooseOrder
    BY DEF OrdersOK, Book, Order, LooseOrder
  <2>6. orders \cup {o} \in SUBSET LooseOrder
    BY <2>1, <2>5
  <2>7. <<>> \in Seq(Fill)
    OBVIOUS
  <2> QED  BY <2>4, <2>6, <2>7 DEF Start, Loop
<1> HIDE DEF q, base, n
<1>3. \A i \in 1 .. n : q[i] \in Order
  BY <1>1
<1>4. \A i \in 1 .. n, t \in Loop : match(t, q[i]) \in Loop
  BY <1>3, MatchLoose
<1>5. F \in [1 .. n -> [Loop -> Loop]]
  BY <1>4
<1>6. \A i \in 1 .. n, t \in Loop : F[i][t] = match(t, q[i])
  OBVIOUS
<1>7. apply_order(o) = it[1 .. n]
  <2>1. apply_order(o) = FoldLeft(match, base, q)
    BY DEF apply_order, base, Start, q
  <2>2. FoldLeft(match, base, q) = it[1 .. n]
    BY <1>1 DEF FoldLeft, MapThenFoldSet
  <2> QED  BY <2>1, <2>2
<1>8. \A t \in SUBSET (1 .. n) : t # {} => Max(t) \in 1 .. n
  BY <1>1, MaxIndex
<1> HIDE DEF F
<1>9. \E g : Eq(g)
  <2>1. PICK g : Folds(g, n, Loop, base, F)
    BY <1>1, <1>2, <1>5, FoldExists
  <2>2. g \in [SUBSET (1 .. n) -> Loop]
    BY <2>1 DEF Folds
  <2>3. \A t \in SUBSET (1 .. n) :
          g[t] = IF t = {} THEN base ELSE match(g[t \ {Max(t)}], q[Max(t)])
    BY <1>6, <1>8, <2>1, <2>2 DEF Folds
  <2>4. g = [t \in SUBSET (1 .. n) |-> g[t]]
    BY <2>2
  <2> QED  BY <2>3, <2>4
<1>10. Eq(it)
  <2> HIDE DEF Eq
  <2> QED  BY <1>9
<1> HIDE DEF it
<1>11. Computes(it, n, Loop, base, F)
  BY <1>6, <1>8, <1>10 DEF Computes
<1> HIDE DEF Eq
<1>12. PICK h : States(h, n, Loop, base, F, apply_order(o))
  <2>1. n \in Nat
    BY <1>1
  <2>2. \E h : States(h, n, Loop, base, F, it[1 .. n])
    BY <1>2, <1>5, <1>11, <2>1, FoldSteps, Zenon
  <2> QED  BY <1>7, <2>2
<1>13. h \in [0 .. n -> Loop] /\ h[0] = base /\ h[n] = apply_order(o)
  BY <1>12 DEF States
<1>14. \A k \in 1 .. n : h[k] = match(h[k - 1], q[k])
  <2> TAKE k \in 1 .. n
  <2>1. h[k] = F[k][h[k - 1]]
    BY <1>12 DEF States
  <2>2. h[k - 1] \in Loop
    BY <1>1, <1>13
  <2> QED  BY <1>6, <2>1, <2>2
<1>15. Matching(h, o)
  BY <1>13, <1>14 DEF Matching, n, q, base
<1> QED  BY <1>15


------------------------------------------------------------------------------
(* One match. *)

\* What FillsFair says of one fill.
Fair(f) ==
  /\ f.paid > 0 /\ f.got > 0
  /\ (f.paid + 1) * f.maker.base > f.got * f.maker.quote
  /\ (f.got + 1) * f.taker.base > f.paid * f.taker.quote

\* Two orders that cross and are worth something pay each other a fair amount
\* that they have, and one of them pays all it has left (match).
LEMMA ExchangeFair ==
  ASSUME NEW o \in Order, NEW old \in Order, Crosses(o, old),
         amount_to_receive(o, o.left) > 0, amount_to_receive(old, old.left) > 0
  PROVE  LET p == Exchange(o, old)
         IN  /\ p.new \in Nat \ {0} /\ p.new <= o.left
             /\ p.old \in Nat \ {0} /\ p.old <= old.left
             /\ p.new = o.left \/ p.old = old.left
             /\ Fair([taker |-> o.price, maker |-> old.price, paid |-> p.new, got |-> p.old])
<1> DEFINE l == o.left
           L == old.left
           b == old.price.base
           q == old.price.quote
           t == o.price.base
           u == o.price.quote
           p == Exchange(o, old)
           f == [taker |-> o.price, maker |-> old.price, paid |-> p.new, got |-> p.old]
<1>1. /\ l \in Nat \ {0} /\ L \in Nat \ {0} /\ b \in Nat \ {0} /\ q \in Nat \ {0}
      /\ t \in Nat \ {0} /\ u \in Nat \ {0}
  BY PriceType DEF Order
<1>2. t * b >= u * q /\ (l * u) \div t > 0 /\ (L * q) \div b > 0
  BY DEF Crosses, amount_to_receive, AtPrice
<1>3. p = IF l <= (L * q) \div b THEN [new |-> l, old |-> (l * b) \div q]
          ELSE [new |-> (L * q) \div b, old |-> L]
  BY DEF Exchange, AtPrice, AtInverse
<1>4. Fair(f) <=> /\ p.new > 0 /\ p.old > 0
                  /\ (p.new + 1) * b > p.old * q
                  /\ (p.old + 1) * t > p.new * u
  BY DEF Fair
<1> HIDE DEF l, L, b, q, t, u, p, f
<1>5. CASE l <= (L * q) \div b
  <2> DEFINE g == (l * b) \div q
  <2>1. /\ g \in Nat \ {0} /\ g <= L
        /\ (l + 1) * b > g * q
        /\ (g + 1) * t > l * u
    BY <1>1, <1>2, <1>5, BoughtUp
  <2>2. p.new = l /\ p.old = g
    BY <1>3, <1>5
  <2> HIDE DEF g
  <2>3. p.new > 0 /\ p.old > 0
    BY <1>1, <2>1, <2>2
  <2>4. Fair(f)
    BY <1>4, <2>1, <2>2, <2>3
  <2> QED  BY <1>1, <2>1, <2>2, <2>4 DEF l, L, p, f
<1>6. CASE ~(l <= (L * q) \div b)
  <2> DEFINE w == (L * q) \div b
  <2>1. w \in Nat \ {0} /\ (w + 1) * b > L * q /\ (L + 1) * t > w * u
    BY <1>1, <1>2, SoldOut
  <2>2. p.new = w /\ p.old = L
    BY <1>3, <1>6
  <2>3. w <= l
    BY <1>1, <1>6, <2>1
  <2> HIDE DEF w
  <2>4. p.new > 0 /\ p.old > 0
    BY <1>1, <2>1, <2>2
  <2>5. Fair(f)
    BY <1>4, <2>1, <2>2, <2>4
  <2> QED  BY <1>1, <2>1, <2>2, <2>3, <2>5 DEF l, L, p, f
<1> QED  BY <1>5, <1>6

\* What an order is worth.
LEMMA Worth ==
  ASSUME NEW o \in Order, NEW n \in Nat
  PROVE  amount_to_receive(o, n) \in Nat
<1>1. o.price.base \in Nat \ {0} /\ o.price.quote \in Nat \ {0}
  BY PriceType
<1>2. n * o.price.quote \in Nat
  BY <1>1
<1> QED  BY <1>1, <1>2, Division DEF amount_to_receive, AtPrice

\* What holds of the open orders whenever fill_order is called: they are told
\* apart by their ids, and each is worth something.
Settled(os) ==
  /\ os \subseteq Order /\ IsFiniteSet(os)
  /\ \A x, y \in os : x.id = y.id => x = y
  /\ \A x \in os : amount_to_receive(x, x.left) > 0

\* y is what is left of x.
RestOf(y, x) == y.id = x.id /\ y.price = x.price /\ y.sells = x.sells

\* fill_order moves what is paid and received, and gives back what is too small
\* to sell.
LEMMA FillStep ==
  ASSUME NEW t \in Loop, t.balance \in Purse, Settled(t.orders), NEW x \in t.orders,
         NEW pays \in Nat, pays <= x.left, NEW receives \in Nat, NEW v \in Purse
  PROVE  LET r == fill_order(t, x, pays, receives)
         IN  /\ r.balance \in Purse /\ Settled(r.orders)
             /\ t.orders \ {x} \subseteq r.orders
             /\ \A y \in r.orders : y \in t.orders \ {x} \/ RestOf(y, x)
             /\ pays = x.left => r.orders = t.orders \ {x}
             /\ \A s \in Symbol :
                  InAccounts(r.balance, v, s) + InOrders(r.orders, s)
                  = InAccounts(t.balance, v, s) + InOrders(t.orders, s)
                    + Coins(Other(x.sells), receives)[s] - Coins(x.sells, pays)[s]
<1> DEFINE left == x.left - pays
           back == IF Over(x, left) THEN left ELSE 0
           y == [x EXCEPT !.left = left]
           os == t.orders \ {x}
           r == fill_order(t, x, pays, receives)
           b1 == Add(t.balance, x.seller, Coins(Other(x.sells), receives))
           b2 == Add(b1, x.seller, Coins(x.sells, back))
<1>1. /\ x \in Order /\ x.left \in Nat \ {0} /\ x.seller \in Account /\ x.sells \in Symbol
      /\ Other(x.sells) \in Symbol /\ x \in LooseOrder
  BY DEF Settled, Order, LooseOrder, Symbol, Other
<1>2. left \in Nat /\ back \in Nat
  BY <1>1
<1>3. /\ r.balance = b2
      /\ r.orders = os \cup (IF Over(x, left) THEN {} ELSE {y})
  <2> DEFINE os2 == os \cup (IF Over(x, left) THEN {} ELSE {y})
  <2>1. r = [t EXCEPT !.balance = b2, !.orders = os2]
    BY DEF fill_order
  <2> HIDE DEF os2, b2, r
  <2>2. r.balance = b2 /\ r.orders = os2
    BY <2>1 DEF Loop
  <2> QED  BY <2>2 DEF os2
<1>4. /\ Coins(Other(x.sells), receives) \in [Symbol -> Nat]
      /\ Coins(x.sells, back) \in [Symbol -> Nat]
  BY <1>1, <1>2 DEF Coins
<1>5. b1 \in Purse /\ b2 \in Purse
  BY <1>1, <1>4, PurseKept
<1>6. os \subseteq Order /\ IsFiniteSet(os) /\ x \notin os
  BY FS_RemoveElement DEF Settled
<1>7. ASSUME ~Over(x, left)
      PROVE  /\ y \in Order /\ RestOf(y, x) /\ y.left = left /\ y.seller = x.seller
             /\ amount_to_receive(y, y.left) > 0 /\ y \notin os
  <2>1. left # 0 /\ amount_to_receive(x, left) # 0
    BY <1>7 DEF Over
  <2>2. amount_to_receive(x, left) > 0
    BY <1>1, <1>2, <2>1, Worth
  <2>3. y \in Order /\ RestOf(y, x) /\ y.left = left /\ y.seller = x.seller
    BY <1>1, <1>2, <2>1 DEF Order, RestOf
  <2>4. amount_to_receive(y, y.left) = amount_to_receive(x, left)
    BY <2>3 DEF amount_to_receive, RestOf
  <2>5. y \notin os
    BY <2>3 DEF Settled, RestOf
  <2> QED  BY <2>2, <2>3, <2>4, <2>5
<1> HIDE DEF y, os, r, b1, b2, back, left
<1>8. Settled(r.orders)
  <2>1. CASE Over(x, left)
    <3>1. r.orders = os
      BY <1>3, <2>1
    <3>2. \A z \in os : z \in t.orders
      BY DEF os
    <3> QED  BY <1>6, <3>1, <3>2 DEF Settled
  <2>2. CASE ~Over(x, left)
    <3>1. r.orders = os \cup {y}
      BY <1>3, <2>2
    <3>2. IsFiniteSet(os \cup {y})
      BY <1>6, FS_AddElement
    <3>3. \A z \in os : z \in t.orders /\ z # x
      BY DEF os
    <3>4. ASSUME NEW z \in os PROVE z.id # y.id
      BY <1>7, <2>2, <3>3 DEF Settled, RestOf
    <3>5. \A z, w \in os : z.id = w.id => z = w
      BY <3>3 DEF Settled
    <3>6. \A z \in os : amount_to_receive(z, z.left) > 0
      BY <3>3 DEF Settled
    <3>7. \A z, w \in os \cup {y} : z.id = w.id => z = w
      BY <3>4, <3>5
    <3>8. \A z \in os \cup {y} : amount_to_receive(z, z.left) > 0
      BY <1>7, <2>2, <3>6
    <3>9. os \cup {y} \subseteq Order
      BY <1>6, <1>7, <2>2
    <3> QED  BY <3>1, <3>2, <3>7, <3>8, <3>9 DEF Settled
  <2> QED  BY <2>1, <2>2
<1>9. os \subseteq r.orders /\ \A z \in r.orders : z \in os \/ RestOf(z, x)
  BY <1>3, <1>7
<1>10. ASSUME pays = x.left PROVE r.orders = os
  <2>1. left = 0
    BY <1>1, <1>10 DEF left
  <2> QED  BY <1>3, <2>1 DEF Over
<1>11. ASSUME NEW s \in Symbol
       PROVE  InAccounts(r.balance, v, s) + InOrders(r.orders, s)
              = InAccounts(t.balance, v, s) + InOrders(t.orders, s)
                + Coins(Other(x.sells), receives)[s] - Coins(x.sells, pays)[s]
  <2> DEFINE m1 == Coins(Other(x.sells), receives)
             m2 == Coins(x.sells, back)
  <2>1. m1 \in [Symbol -> Int] /\ m2 \in [Symbol -> Int]
    BY <1>4
  <2>2. t.balance \in [Account -> [Symbol -> Int]] /\ v \in [Account -> [Symbol -> Int]]
        /\ b1 \in [Account -> [Symbol -> Int]]
    BY <1>5, Wider
  <2> HIDE DEF m1, m2
  <2>3. /\ InAccounts(b1, v, s) = InAccounts(t.balance, v, s) + m1[s]
        /\ InAccounts(t.balance, v, s) \in Int
    <3> DEFINE c == t.balance
               a == x.seller
    <3>1. c \in [Account -> [Symbol -> Int]] /\ a \in Account
          /\ v \in [Account -> [Symbol -> Int]] /\ m1 \in [Symbol -> Int]
      BY <1>1, <2>1, <2>2
    <3>2. b1 = Add(c, a, m1)
      BY DEF b1, m1
    <3> HIDE DEF c, a
    <3>3. /\ InAccounts(Add(c, a, m1), v, s) = InAccounts(c, v, s) + m1[s]
          /\ InAccounts(c, v, s) \in Int
      BY <3>1, AddSum, ZenonT(60)
    <3> QED  BY <3>2, <3>3 DEF c
  <2>4. InAccounts(b2, v, s) = InAccounts(b1, v, s) + m2[s]
    <3> DEFINE a == x.seller
    <3>1. a \in Account /\ b2 = Add(b1, a, m2)
      BY <1>1 DEF b2, m2
    <3> HIDE DEF a
    <3> QED  BY <2>1, <2>2, <3>1, AddSum, ZenonT(60)
  <2>5. InOrders(os, s) = InOrders(t.orders, s) - InOrder(x, s)
        /\ InOrders(t.orders, s) \in Nat
    BY OrderRows DEF os, Settled
  <2>6. InOrder(x, s) = Coins(x.sells, x.left)[s]
    BY DEF InOrder
  <2>7. Coins(x.sells, x.left)[s] = IF s = x.sells THEN x.left ELSE 0
    BY DEF Coins
  <2>8. m2[s] = IF s = x.sells THEN back ELSE 0
    BY DEF Coins, m2
  <2>9. Coins(x.sells, pays)[s] = IF s = x.sells THEN pays ELSE 0
    BY DEF Coins
  <2>10. m1[s] \in Int
    BY <2>1
  <2>11. InAccounts(r.balance, v, s) = InAccounts(t.balance, v, s) + m1[s] + m2[s]
    BY <1>3, <2>3, <2>4
  <2>12. m2[s] + InOrders(r.orders, s) = InOrders(t.orders, s) - Coins(x.sells, pays)[s]
    <3>1. CASE Over(x, left)
      <4>1. r.orders = os /\ back = x.left - pays
        BY <1>3, <3>1 DEF back, left
      <4>2. m2[s] - InOrder(x, s) = -Coins(x.sells, pays)[s]
        BY <1>1, <2>6, <2>7, <2>8, <2>9, <4>1
      <4>3. InOrders(r.orders, s) = InOrders(t.orders, s) - InOrder(x, s)
        BY <2>5, <4>1
      <4>4. InOrder(x, s) \in Int /\ m2[s] \in Int /\ Coins(x.sells, pays)[s] \in Int
        BY <1>1, <2>6, <2>7, <2>1, <2>9
      <4> QED  BY <2>5, <4>2, <4>3, <4>4
    <3>2. CASE ~Over(x, left)
      <4>1. r.orders = os \cup {y} /\ back = 0 /\ left = x.left - pays
        BY <1>3, <3>2 DEF back, left
      <4>2. InOrders(os \cup {y}, s) = InOrders(os, s) + InOrder(y, s)
        BY <1>6, <1>7, <3>2, OrderRows
      <4>3. InOrder(y, s) = IF s = x.sells THEN left ELSE 0
        BY <1>7, <3>2 DEF InOrder, Coins, RestOf
      <4>4. m2[s] + InOrder(y, s) - InOrder(x, s) = -Coins(x.sells, pays)[s]
        BY <1>1, <2>6, <2>7, <2>8, <2>9, <4>1, <4>3
      <4>5. InOrders(r.orders, s) = InOrders(t.orders, s) - InOrder(x, s) + InOrder(y, s)
        BY <2>5, <4>1, <4>2
      <4>6. InOrder(x, s) \in Int /\ m2[s] \in Int /\ Coins(x.sells, pays)[s] \in Int
            /\ InOrder(y, s) \in Int
        BY <1>1, <1>2, <2>6, <2>7, <2>1, <2>9, <4>3
      <4> QED  BY <2>5, <4>4, <4>5, <4>6
    <3> QED  BY <3>1, <3>2
  <2>13. InOrders(r.orders, s) \in Int
    BY <1>8, OrderRows DEF Settled
  <2>14. m2[s] \in Int /\ Coins(x.sells, pays)[s] \in Int
    BY <2>1, <2>9
  <2> QED  BY <2>3, <2>5, <2>10, <2>11, <2>12, <2>13, <2>14 DEF m1
<1> QED  BY <1>3, <1>5, <1>8, <1>9, <1>10, <1>11 DEF r, os


------------------------------------------------------------------------------
(* The loop of apply_order. *)

\* What holds after the k-th candidate: nothing was lost, every order left is an
\* order of the book or the new one, perhaps with less to sell; while the new one
\* is open the candidates so far are gone and the others untouched; and every fill
\* was fair.
GoodLoop(k, t, o) ==
  LET q == Candidates(o)
  IN  /\ t \in Loop /\ t.balance \in Purse /\ Settled(t.orders)
      /\ \A x \in t.orders :
           \/ x.id = nextId /\ RestOf(x, o)
           \/ x.id # nextId /\ \E y \in orders : RestOf(x, y)
      /\ (\E x \in t.orders : x.id = nextId) =>
           /\ \A x \in t.orders : x.id # nextId => x \in orders /\ \A i \in 1 .. k : x # q[i]
           /\ \A i \in k + 1 .. Len(q) : q[i] \in t.orders
      /\ \A s \in Symbol :
           InAccounts(t.balance, savings, s) + InOrders(t.orders, s)
           = InAccounts(balance, savings, s) + InOrders(orders, s)
      /\ \A i \in DOMAIN t.fills : Fair(t.fills[i])

\* What is known of a new order (limit_order_create).
NewOrder(o) ==
  /\ o \in Order /\ o.id = nextId /\ amount_to_receive(o, o.left) > 0
  /\ Has(balance, o.seller, Coins(o.sells, o.left))

\* The book before.
LEMMA BookIsSettled ==
  ASSUME OrdersOK, ClockOK, BookSettled
  PROVE  Settled(orders) /\ \A x \in orders : x.id # nextId
  BY DEF OrdersOK, Book, BookSettled, Settled, ClockOK, Order

\* Before the first candidate.
LEMMA LoopStarts ==
  ASSUME OrdersOK, BalancesOK, ClockOK, BookSettled, NEW o, NewOrder(o)
  PROVE  GoodLoop(0, Start(o), o)
<1> DEFINE t == Start(o)
           q == Candidates(o)
           m == Coins(o.sells, o.left)
<1>1. /\ o \in Order /\ o.id = nextId /\ o.seller \in Account /\ o.sells \in Symbol
      /\ o.left \in Nat \ {0} /\ o \in LooseOrder
  BY DEF NewOrder, Order, LooseOrder
<1>2. m \in [Symbol -> Nat] /\ m \in [Symbol -> Int]
  BY <1>1 DEF Coins
<1>3. balance \in Purse /\ savings \in Purse
      /\ balance \in [Account -> [Symbol -> Int]] /\ savings \in [Account -> [Symbol -> Int]]
  BY Wider DEF BalancesOK
<1>4. t.balance = Take(balance, o.seller, m) /\ t.orders = orders \cup {o} /\ t.fills = <<>>
  BY DEF Start
<1>5. Take(balance, o.seller, m) \in Purse
  BY <1>1, <1>2, <1>3, PurseKept DEF NewOrder
<1>6. Settled(orders) /\ o \notin orders /\ \A x \in orders : x.id # nextId
  BY <1>1, BookIsSettled
<1>7. Settled(orders \cup {o})
  <2>1. IsFiniteSet(orders \cup {o})
    BY <1>6, FS_AddElement DEF Settled
  <2>2. \A x, y \in orders \cup {o} : x.id = y.id => x = y
    BY <1>1, <1>6 DEF Settled
  <2> QED  BY <1>1, <1>6, <2>1, <2>2 DEF Settled, NewOrder
<1>8. t \in Loop
  <2>1. orders \cup {o} \subseteq LooseOrder
    BY <1>7 DEF Settled, Order, LooseOrder
  <2>2. Take(balance, o.seller, m) \in [Account -> [Symbol -> Int]]
    BY <1>5, Wider
  <2>3. <<>> \in Seq(Fill)
    OBVIOUS
  <2> HIDE DEF m
  <2> QED  BY <2>1, <2>2, <2>3 DEF Start, Loop, m
<1>9. \A i \in 1 .. Len(q) : q[i] \in orders
  <2>1. q \in Seq({p \in orders : Crosses(o, p)}) /\ DOMAIN q = 1 .. Len(q)
    BY CandidatesAre
  <2> HIDE DEF q
  <2> QED  BY <2>1
<1>10. ASSUME NEW s \in Symbol
       PROVE  InAccounts(Take(balance, o.seller, m), savings, s) + InOrders(orders \cup {o}, s)
              = InAccounts(balance, savings, s) + InOrders(orders, s)
  <2> DEFINE a == o.seller
  <2>1. a \in Account
    BY <1>1
  <2>2. InOrder(o, s) = m[s] /\ m[s] \in Int
    BY <1>2 DEF InOrder
  <2> HIDE DEF m, a
  <2>3. InAccounts(Take(balance, a, m), savings, s) = InAccounts(balance, savings, s) - m[s]
    BY <1>2, <1>3, <2>1, TakeSum
  <2>4. InAccounts(balance, savings, s) \in Int
    BY <1>2, <1>3, <2>1, AddSum
  <2>5. InOrders(orders \cup {o}, s) = InOrders(orders, s) + InOrder(o, s)
        /\ InOrders(orders, s) \in Nat
    BY <1>1, <1>6, OrderRows DEF Settled
  <2> QED  BY <2>2, <2>3, <2>4, <2>5 DEF a
<1>11. \A x \in orders : RestOf(x, x)
  BY DEF RestOf
<1>12. RestOf(o, o)
  BY DEF RestOf
<1>13. \A i \in 0 + 1 .. Len(q) : q[i] \in orders \cup {o}
  BY <1>9
<1>14. \A i \in DOMAIN t.fills : Fair(t.fills[i])
  BY <1>4
<1>15. \A x \in orders \cup {o} :
         \/ x.id = nextId /\ RestOf(x, o)
         \/ x.id # nextId /\ \E y \in orders : RestOf(x, y)
  BY <1>1, <1>6, <1>11, <1>12
<1>16. \A x \in orders \cup {o} : x.id # nextId => x \in orders /\ \A i \in 1 .. 0 : x # q[i]
  BY <1>1
<1> HIDE DEF t, q, m
<1> QED  BY <1>4, <1>5, <1>7, <1>8, <1>10, <1>13, <1>14, <1>15, <1>16 DEF GoodLoop, t, q, m


\* A sum over two symbols in which what one side pays the other receives.
LEMMA Cancels ==
  ASSUME NEW x \in Symbol, NEW y \in Symbol, x # y, NEW m \in Nat, NEW n \in Nat,
         NEW s \in Symbol
  PROVE  /\ Coins(Other(x), n)[s] = Coins(y, n)[s] /\ Coins(Other(y), m)[s] = Coins(x, m)[s]
         /\ Coins(x, m)[s] \in Int /\ Coins(y, n)[s] \in Int
  BY DEF Symbol, Other, Coins

\* The k-th candidate.
LEMMA LoopStep ==
  ASSUME OrdersOK, BalancesOK, ClockOK, BookSettled, NEW o, NewOrder(o),
         NEW k \in 1 .. Len(Candidates(o)), NEW t, GoodLoop(k - 1, t, o)
  PROVE  GoodLoop(k, match(t, Candidates(o)[k]), o)
<1> DEFINE q == Candidates(o)
           old == q[k]
           open == {x \in t.orders : x.id = nextId}
           r == match(t, old)
<1>1. /\ old \in orders /\ Crosses(o, old) /\ \A i \in 1 .. Len(q) : q[i] \in orders
      /\ \A i, j \in 1 .. Len(q) : i # j => q[i] # q[j]
  <2>1. /\ q \in Seq({p \in orders : Crosses(o, p)}) /\ DOMAIN q = 1 .. Len(q)
        /\ \A i, j \in DOMAIN q : i # j => q[i] # q[j]
    BY CandidatesAre
  <2>2. k \in 1 .. Len(q)
    OBVIOUS
  <2> HIDE DEF q
  <2>3. \A i \in 1 .. Len(q) : q[i] \in {p \in orders : Crosses(o, p)}
    BY <2>1
  <2> QED  BY <2>1, <2>2, <2>3
<1>2. Settled(orders) /\ \A x \in orders : x.id # nextId
  BY BookIsSettled
<1>3. old \in Order /\ amount_to_receive(old, old.left) > 0 /\ old.id # nextId
  BY <1>1, <1>2 DEF Settled
<1>4. k \in 1 .. Len(q) /\ k - 1 \in Nat
  OBVIOUS
<1>5. savings \in Purse
  BY DEF BalancesOK
<1>6. /\ t \in Loop /\ t.balance \in Purse /\ Settled(t.orders)
      /\ \A x \in t.orders :
           \/ x.id = nextId /\ RestOf(x, o)
           \/ x.id # nextId /\ \E y \in orders : RestOf(x, y)
      /\ open # {} =>
           /\ \A x \in t.orders : x.id # nextId => x \in orders /\ \A i \in 1 .. k - 1 : x # q[i]
           /\ \A i \in (k - 1) + 1 .. Len(q) : q[i] \in t.orders
      /\ \A s \in Symbol :
           InAccounts(t.balance, savings, s) + InOrders(t.orders, s)
           = InAccounts(balance, savings, s) + InOrders(orders, s)
      /\ \A i \in DOMAIN t.fills : Fair(t.fills[i])
  BY DEF GoodLoop
<1> HIDE DEF q, old
<1>7. CASE open = {}
  <2>1. match(t, old) = t
    BY <1>7, MatchIs
  <2>2. ~ \E x \in t.orders : x.id = nextId
    BY <1>7
  <2> QED  BY <1>6, <2>1, <2>2 DEF GoodLoop, q, old
<1>8. CASE open # {}
  <2> DEFINE x == Taker(t)
             p == Exchange(x, old)
             t1 == AfterTaker(t, old)
             t2 == AfterBoth(t, old)
  <2>1. /\ x \in t.orders /\ x.id = nextId /\ t1 \in Loop /\ r \in Loop
        /\ r.balance = t2.balance /\ r.orders = t2.orders
        /\ r.fills = Append(t.fills, TheFill(t, old))
    BY <1>3, <1>6, <1>8, MatchLoose
  <2>2. /\ p = Paid(t, old)
        /\ t1 = fill_order(t, x, p.new, p.old)
        /\ t2 = fill_order(t1, old, p.old, p.new)
        /\ TheFill(t, old) = [taker |-> x.price, maker |-> old.price, paid |-> p.new,
                              got |-> p.old]
    BY DEF Paid, AfterTaker, AfterBoth, TheFill
  <2> HIDE DEF x, p, t1, t2, r
  <2>3. /\ x \in Order /\ amount_to_receive(x, x.left) > 0 /\ RestOf(x, o)
        /\ old \in t.orders /\ x # old
    <3>1. k \in (k - 1) + 1 .. Len(q)
      BY <1>4
    <3> QED  BY <1>3, <1>6, <1>8, <2>1, <3>1 DEF Settled, old
  <2>4. Crosses(x, old)
    BY <1>1, <2>3 DEF Crosses, RestOf
  <2>5. /\ p.new \in Nat \ {0} /\ p.new <= x.left
        /\ p.old \in Nat \ {0} /\ p.old <= old.left
        /\ p.new = x.left \/ p.old = old.left
        /\ Fair(TheFill(t, old))
    BY <1>3, <2>2, <2>3, <2>4, ExchangeFair DEF p
  <2>6. /\ t1.balance \in Purse /\ Settled(t1.orders)
        /\ t.orders \ {x} \subseteq t1.orders
        /\ \A y \in t1.orders : y \in t.orders \ {x} \/ RestOf(y, x)
        /\ p.new = x.left => t1.orders = t.orders \ {x}
        /\ \A s \in Symbol :
             InAccounts(t1.balance, savings, s) + InOrders(t1.orders, s)
             = InAccounts(t.balance, savings, s) + InOrders(t.orders, s)
               + Coins(Other(x.sells), p.old)[s] - Coins(x.sells, p.new)[s]
    <3> DEFINE a == p.new
               b == p.old
    <3>1. a \in Nat /\ a <= x.left /\ b \in Nat /\ t1 = fill_order(t, x, a, b)
      BY <2>2, <2>5
    <3> HIDE DEF a, b
    <3>2. /\ t1.balance \in Purse /\ Settled(t1.orders)
          /\ t.orders \ {x} \subseteq t1.orders
          /\ \A y \in t1.orders : y \in t.orders \ {x} \/ RestOf(y, x)
          /\ a = x.left => t1.orders = t.orders \ {x}
          /\ \A s \in Symbol :
               InAccounts(t1.balance, savings, s) + InOrders(t1.orders, s)
               = InAccounts(t.balance, savings, s) + InOrders(t.orders, s)
                 + Coins(Other(x.sells), b)[s] - Coins(x.sells, a)[s]
      BY <1>5, <1>6, <2>1, <3>1, FillStep
    <3> QED  BY <3>2 DEF a, b
  <2>7. old \in t1.orders
    BY <2>3, <2>6
  <2>8. /\ t2.balance \in Purse /\ Settled(t2.orders)
        /\ t1.orders \ {old} \subseteq t2.orders
        /\ \A y \in t2.orders : y \in t1.orders \ {old} \/ RestOf(y, old)
        /\ p.old = old.left => t2.orders = t1.orders \ {old}
        /\ \A s \in Symbol :
             InAccounts(t2.balance, savings, s) + InOrders(t2.orders, s)
             = InAccounts(t1.balance, savings, s) + InOrders(t1.orders, s)
               + Coins(Other(old.sells), p.new)[s] - Coins(old.sells, p.old)[s]
    <3> DEFINE a == p.old
               b == p.new
    <3>1. a \in Nat /\ a <= old.left /\ b \in Nat /\ t2 = fill_order(t1, old, a, b)
      BY <2>2, <2>5
    <3> HIDE DEF a, b
    <3>2. /\ t2.balance \in Purse /\ Settled(t2.orders)
          /\ t1.orders \ {old} \subseteq t2.orders
          /\ \A y \in t2.orders : y \in t1.orders \ {old} \/ RestOf(y, old)
          /\ a = old.left => t2.orders = t1.orders \ {old}
          /\ \A s \in Symbol :
               InAccounts(t2.balance, savings, s) + InOrders(t2.orders, s)
               = InAccounts(t1.balance, savings, s) + InOrders(t1.orders, s)
                 + Coins(Other(old.sells), b)[s] - Coins(old.sells, a)[s]
      BY <1>5, <2>1, <2>6, <2>7, <3>1, FillStep
    <3> QED  BY <3>2 DEF a, b
  <2>9. ASSUME NEW s \in Symbol
        PROVE  InAccounts(t2.balance, savings, s) + InOrders(t2.orders, s)
               = InAccounts(t.balance, savings, s) + InOrders(t.orders, s)
    <3> DEFINE u == x.sells
               w == old.sells
               a == p.new
               b == p.old
               N0 == InAccounts(t.balance, savings, s) + InOrders(t.orders, s)
               N1 == InAccounts(t1.balance, savings, s) + InOrders(t1.orders, s)
               N2 == InAccounts(t2.balance, savings, s) + InOrders(t2.orders, s)
    <3>1. u \in Symbol /\ w \in Symbol /\ u # w /\ a \in Nat /\ b \in Nat
      BY <1>3, <2>3, <2>4, <2>5 DEF Crosses, Order
    <3>2. N1 = N0 + Coins(Other(u), b)[s] - Coins(u, a)[s]
      BY <2>6
    <3>3. N2 = N1 + Coins(Other(w), a)[s] - Coins(w, b)[s]
      BY <2>8
    <3>4. N0 \in Int
      <4> DEFINE c == t.balance
      <4>1. c \in [Account -> [Symbol -> Int]] /\ savings \in [Account -> [Symbol -> Int]]
            /\ Coins(u, a) \in [Symbol -> Int] /\ old.seller \in Account
        BY <1>3, <1>5, <1>6, <3>1, Wider DEF Coins, Order
      <4> HIDE DEF c, u, a
      <4>2. InAccounts(c, savings, s) \in Int
        BY <4>1, AddSum
      <4>3. InOrders(t.orders, s) \in Int
        BY <1>6, OrderRows DEF Settled
      <4> QED  BY <4>2, <4>3 DEF c
    <3> HIDE DEF u, w, a, b, N0, N1, N2
    <3>5. /\ Coins(Other(u), b)[s] = Coins(w, b)[s] /\ Coins(Other(w), a)[s] = Coins(u, a)[s]
          /\ Coins(u, a)[s] \in Int /\ Coins(w, b)[s] \in Int
      BY <3>1, Cancels
    <3>6. N2 = N0
      BY <3>2, <3>3, <3>4, <3>5
    <3> QED  BY <3>6 DEF N2, N0
  <2>10. ASSUME NEW y \in r.orders
         PROVE  \/ y.id = nextId /\ RestOf(y, o)
                \/ y.id # nextId /\ \E z \in orders : RestOf(y, z)
    <3>1. CASE RestOf(y, old)
      BY <1>1, <1>3, <3>1 DEF RestOf
    <3>2. CASE RestOf(y, x)
      BY <2>1, <2>3, <3>2 DEF RestOf
    <3>3. CASE y \in t.orders
      BY <1>6, <3>3
    <3> QED  BY <2>1, <2>6, <2>8, <3>1, <3>2, <3>3
  <2>11. ASSUME NEW z \in r.orders, z.id = nextId
         PROVE  /\ \A y \in r.orders : y.id # nextId => y \in orders /\ \A i \in 1 .. k : y # q[i]
                /\ \A i \in k + 1 .. Len(q) : q[i] \in r.orders
    <3>1. z \in t1.orders
      BY <1>3, <2>1, <2>8, <2>11 DEF RestOf
    <3>2. p.new # x.left
      <4> SUFFICES ASSUME p.new = x.left PROVE FALSE
        OBVIOUS
      <4>1. z \in t.orders \ {x}
        BY <2>6, <3>1
      <4> QED  BY <1>6, <2>1, <2>11, <4>1 DEF Settled
    <3>3. r.orders = t1.orders \ {old}
      BY <2>1, <2>5, <2>8, <3>2
    <3>4. ASSUME NEW y \in r.orders, y.id # nextId
          PROVE  y \in orders /\ \A i \in 1 .. k : y # q[i]
      <4>1. y \in t.orders /\ y # old
        BY <2>1, <2>6, <3>3, <3>4 DEF RestOf
      <4>2. y \in orders /\ \A i \in 1 .. k - 1 : y # q[i]
        BY <1>6, <1>8, <3>4, <4>1
      <4>3. \A i \in 1 .. k : i = k \/ i \in 1 .. k - 1
        BY <1>4
      <4> QED  BY <4>1, <4>2, <4>3 DEF old
    <3>5. ASSUME NEW i \in k + 1 .. Len(q) PROVE q[i] \in r.orders
      <4>1. i \in (k - 1) + 1 .. Len(q) /\ i \in 1 .. Len(q) /\ i # k
        BY <1>4
      <4>2. q[i] \in t.orders /\ q[i] \in orders /\ q[i] # old
        BY <1>1, <1>4, <1>6, <1>8, <4>1 DEF old
      <4>3. q[i] # x
        BY <1>2, <2>1, <4>2
      <4> QED  BY <2>6, <3>3, <4>2, <4>3
    <3> QED  BY <3>4, <3>5
  <2>12. \A i \in DOMAIN r.fills : Fair(r.fills[i])
    <3> DEFINE fs == t.fills
               f == TheFill(t, old)
    <3>1. fs \in Seq(Fill) /\ \A i \in DOMAIN fs : Fair(fs[i])
      BY <1>6 DEF Loop
    <3>2. Fair(f) /\ r.fills = Append(fs, f)
      BY <2>1, <2>5
    <3> HIDE DEF fs, f
    <3> SUFFICES ASSUME NEW i \in DOMAIN Append(fs, f) PROVE Fair(Append(fs, f)[i])
      BY <3>2
    <3>3. i \in DOMAIN fs \/ i = Len(fs) + 1
      BY <3>1
    <3>4. Append(fs, f)[i] = IF i = Len(fs) + 1 THEN f ELSE fs[i]
      BY <3>1
    <3> QED  BY <3>1, <3>2, <3>3, <3>4
  <2>13. r.balance \in Purse /\ Settled(r.orders)
    BY <2>1, <2>8
  <2>14. \A s \in Symbol :
           InAccounts(r.balance, savings, s) + InOrders(r.orders, s)
           = InAccounts(balance, savings, s) + InOrders(orders, s)
    BY <1>6, <2>1, <2>9
  <2>15. GoodLoop(k, r, o)
    BY <2>1, <2>10, <2>11, <2>12, <2>13, <2>14 DEF GoodLoop, q
  <2> QED  BY <2>15 DEF r, old, q
<1> QED  BY <1>7, <1>8


\* After the last candidate.
LEMMA LoopEnds ==
  ASSUME OrdersOK, BalancesOK, ClockOK, BookSettled, NEW o, NewOrder(o)
  PROVE  GoodLoop(Len(Candidates(o)), apply_order(o), o)
<1> DEFINE q == Candidates(o)
           n == Len(q)
<1>1. n \in Nat
  <2>1. q \in Seq({p \in orders : Crosses(o, p)})
    BY CandidatesAre
  <2> HIDE DEF q
  <2> QED  BY <2>1
<1>2. PICK h : Matching(h, o)
  BY ApplySteps DEF NewOrder
<1>3. h[0] = Start(o) /\ h[n] = apply_order(o)
      /\ \A k \in 1 .. n : h[k] = match(h[k - 1], q[k])
  BY <1>2 DEF Matching
<1> DEFINE S == {k \in 0 .. n : GoodLoop(k, h[k], o)}
<1>4. 0 \in S
  <2>1. GoodLoop(0, h[0], o)
    BY <1>3, LoopStarts
  <2> QED  BY <1>1, <2>1
<1>5. ASSUME NEW k \in 1 .. n, k - 1 \in S PROVE k \in S
  <2>1. GoodLoop(k - 1, h[k - 1], o)
    BY <1>5
  <2>2. GoodLoop(k, match(h[k - 1], q[k]), o)
    BY <2>1, LoopStep
  <2>3. h[k] = match(h[k - 1], q[k])
    BY <1>3
  <2> HIDE DEF q, n
  <2>4. k \in 0 .. n
    BY <1>1
  <2> QED  BY <2>2, <2>3, <2>4
<1>6. n \in S
  <2> HIDE DEF S, n
  <2>1. \A k \in 1 .. n : k - 1 \in S => k \in S
    BY <1>5
  <2>2. \A k \in 0 .. n : k \in S
    BY <1>1, <1>4, <2>1, UpTo
  <2> QED  BY <1>1, <2>2
<1>7. GoodLoop(n, h[n], o)
  BY <1>6
<1> QED  BY <1>3, <1>7

\* Whether two orders cross depends on their prices and what they sell.
LEMMA CrossesSame ==
  /\ \A x, y, u, w : RestOf(x, u) /\ RestOf(y, w) => (Crosses(x, y) <=> Crosses(u, w))
  /\ \A x, y \in Order : Crosses(x, y) => Crosses(y, x)
<1>1. ASSUME NEW x, NEW y, NEW u, NEW w, RestOf(x, u), RestOf(y, w)
      PROVE  Crosses(x, y) <=> Crosses(u, w)
  BY <1>1 DEF Crosses, RestOf
<1>2. ASSUME NEW x \in Order, NEW y \in Order, Crosses(x, y) PROVE Crosses(y, x)
  <2> DEFINE a == x.price.base
             b == x.price.quote
             c == y.price.base
             d == y.price.quote
  <2>1. a \in Nat /\ b \in Nat /\ c \in Nat /\ d \in Nat
    BY PriceType
  <2>2. x.sells # y.sells /\ a * c >= b * d
    BY <1>2 DEF Crosses
  <2>3. a * c = c * a /\ b * d = d * b
    BY <2>1
  <2>4. c * a >= d * b
    BY <2>2, <2>3
  <2> QED  BY <2>2, <2>4 DEF Crosses
<1> QED  BY <1>1, <1>2

\* No order crosses itself.
LEMMA CrossesOther == \A x : ~Crosses(x, x)
  BY DEF Crosses

\* After a new order the book is settled: if the new order is left, every order
\* it crosses was bought up; if not, no two orders cross that did not before.
LEMMA BookAfter ==
  ASSUME OrdersOK, BalancesOK, ClockOK, BookSettled, NEW o, NewOrder(o)
  PROVE  LET t == apply_order(o)
         IN  /\ \A x, y \in t.orders : ~Crosses(x, y)
             /\ \A x \in t.orders : amount_to_receive(x, x.left) > 0
             /\ Book(t.orders, nextId + 1)
             /\ t.balance \in Purse
             /\ t.fills \in Seq(Fill) /\ \A i \in DOMAIN t.fills : Fair(t.fills[i])
             /\ \A s \in Symbol :
                  InAccounts(t.balance, savings, s) + InOrders(t.orders, s)
                  = InAccounts(balance, savings, s) + InOrders(orders, s)
<1> DEFINE t == apply_order(o)
           q == Candidates(o)
           n == Len(q)
<1>1. /\ t \in Loop /\ t.balance \in Purse /\ Settled(t.orders)
      /\ \A x \in t.orders :
           \/ x.id = nextId /\ RestOf(x, o)
           \/ x.id # nextId /\ \E y \in orders : RestOf(x, y)
      /\ (\E x \in t.orders : x.id = nextId) =>
           \A x \in t.orders : x.id # nextId => x \in orders /\ \A i \in 1 .. n : x # q[i]
      /\ \A s \in Symbol :
           InAccounts(t.balance, savings, s) + InOrders(t.orders, s)
           = InAccounts(balance, savings, s) + InOrders(orders, s)
      /\ \A i \in DOMAIN t.fills : Fair(t.fills[i])
  BY LoopEnds DEF GoodLoop
<1>2. \A x \in orders : Crosses(o, x) => \E i \in 1 .. n : q[i] = x
  <2>1. /\ DOMAIN q = 1 .. n
        /\ \A x \in {p \in orders : Crosses(o, p)} : \E i \in DOMAIN q : q[i] = x
    BY CandidatesAre
  <2> HIDE DEF q
  <2> QED  BY <2>1
<1> HIDE DEF t, q, n
<1>3. \A x, y \in orders : ~Crosses(x, y)
  BY DEF BookSettled
<1>4. ASSUME NEW x \in t.orders, NEW y \in t.orders, x.id = nextId, y.id # nextId
      PROVE  ~Crosses(x, y)
  <2>1. RestOf(x, o) /\ y \in orders /\ \A i \in 1 .. n : y # q[i]
    BY <1>1, <1>4
  <2>2. ~Crosses(o, y)
    BY <1>2, <2>1
  <2>3. RestOf(y, y)
    BY DEF RestOf
  <2> QED  BY <2>1, <2>2, <2>3, CrossesSame
<1>5. ASSUME NEW x \in t.orders, NEW y \in t.orders PROVE ~Crosses(x, y)
  <2>1. CASE x.id = nextId /\ y.id = nextId
    BY <1>1, <2>1, CrossesOther DEF Settled
  <2>2. CASE x.id = nextId /\ y.id # nextId
    BY <1>4, <2>2
  <2>3. CASE x.id # nextId /\ y.id = nextId
    <3>1. ~Crosses(y, x)
      BY <1>4, <2>3
    <3>2. x \in Order /\ y \in Order
      BY <1>1 DEF Settled
    <3> QED  BY <3>1, <3>2, CrossesSame
  <2>4. CASE x.id # nextId /\ y.id # nextId
    <3>1. PICK u \in orders : RestOf(x, u)
      BY <1>1, <2>4
    <3>2. PICK w \in orders : RestOf(y, w)
      BY <1>1, <2>4
    <3> QED  BY <1>3, <3>1, <3>2, CrossesSame
  <2> QED  BY <2>1, <2>2, <2>3, <2>4
<1>6. Book(t.orders, nextId + 1)
  <2>1. ASSUME NEW x \in t.orders PROVE x.id < nextId + 1
    <3>1. CASE x.id = nextId
      BY <3>1 DEF ClockOK
    <3>2. CASE x.id # nextId
      <4>1. PICK u \in orders : RestOf(x, u)
        BY <1>1, <3>2
      <4>2. u.id < nextId /\ u.id \in Nat
        BY DEF OrdersOK, Book, Order
      <4> QED  BY <4>1, <4>2 DEF ClockOK, RestOf
    <3> QED  BY <3>1, <3>2
  <2> QED  BY <1>1, <2>1 DEF Book, Settled
<1>7. t.fills \in Seq(Fill)
  BY <1>1 DEF Loop
<1> QED  BY <1>1, <1>5, <1>6, <1>7 DEF t, Settled


------------------------------------------------------------------------------
(* Rows and counters. *)

\* The counters of an account follow the rows it opened.
LEMMA CountRows ==
  ASSUME NEW S, IsFiniteSet(S), NEW a
  PROVE  /\ CountOf(S, a) \in Nat
         /\ \A x : x \notin S =>
              CountOf(S \cup {x}, a) = CountOf(S, a) + (IF x.from = a THEN 1 ELSE 0)
         /\ \A x \in S : CountOf(S \ {x}, a) = CountOf(S, a) - (IF x.from = a THEN 1 ELSE 0)
         /\ \A x \in S : x.from = a => CountOf(S, a) > 0
<1> DEFINE R(U) == {x \in U : x.from = a}
<1>1. \A U : CountOf(U, a) = Cardinality(R(U))
  BY DEF CountOf
<1>2. IsFiniteSet(R(S)) /\ Cardinality(R(S)) \in Nat
  BY FS_Subset, FS_CardinalityType
<1>3. ASSUME NEW x, x \notin S
      PROVE  Cardinality(R(S \cup {x})) = Cardinality(R(S)) + (IF x.from = a THEN 1 ELSE 0)
  <2>1. CASE x.from = a
    <3>1. R(S \cup {x}) = R(S) \cup {x} /\ x \notin R(S)
      BY <1>3, <2>1
    <3> HIDE DEF R
    <3> QED  BY <1>2, <2>1, <3>1, FS_AddElement
  <2>2. CASE x.from # a
    <3>1. R(S \cup {x}) = R(S)
      BY <2>2
    <3> HIDE DEF R
    <3> QED  BY <1>2, <2>2, <3>1
  <2> QED  BY <2>1, <2>2
<1>4. ASSUME NEW x \in S
      PROVE  /\ Cardinality(R(S \ {x})) = Cardinality(R(S)) - (IF x.from = a THEN 1 ELSE 0)
             /\ x.from = a => Cardinality(R(S)) > 0
  <2>1. CASE x.from = a
    <3>1. R(S \ {x}) = R(S) \ {x} /\ x \in R(S)
      BY <2>1
    <3> HIDE DEF R
    <3>2. Cardinality(R(S) \ {x}) = Cardinality(R(S)) - 1
      BY <1>2, <3>1, FS_RemoveElement
    <3>3. Cardinality(R(S)) # 0
      BY <1>2, <3>1, FS_EmptySet
    <3>4. Cardinality(R(S)) > 0
      BY <1>2, <3>3
    <3>5. Cardinality(R(S \ {x})) = Cardinality(R(S)) - 1
      BY <3>1, <3>2
    <3> QED  BY <2>1, <3>4, <3>5
  <2>2. CASE x.from # a
    <3>1. R(S \ {x}) = R(S)
      BY <2>2
    <3> HIDE DEF R
    <3> QED  BY <1>2, <2>2, <3>1
  <2> QED  BY <2>1, <2>2
<1> HIDE DEF R
<1> QED  BY <1>1, <1>2, <1>3, <1>4

\* Several rows taken at once.
LEMMA CountWithout ==
  ASSUME NEW S, IsFiniteSet(S), NEW T, T \subseteq S, NEW a
  PROVE  CountOf(S \ T, a) = CountOf(S, a) - CountOf(T, a)
<1> DEFINE R(U) == {x \in U : x.from = a}
<1>1. \A U : CountOf(U, a) = Cardinality(R(U))
  BY DEF CountOf
<1>2. IsFiniteSet(R(S))
  BY FS_Subset
<1>3. R(S \ T) = R(S) \ R(T) /\ R(S) \cap R(T) = R(T)
  OBVIOUS
<1> HIDE DEF R
<1>4. Cardinality(R(S) \ R(T)) = Cardinality(R(S)) - Cardinality(R(S) \cap R(T))
  BY <1>2, FS_Difference
<1> QED  BY <1>1, <1>3, <1>4

\* The escrow table with a new row, without one, and with one changed.
LEMMA EscrowTableKept ==
  ASSUME NEW es, EscrowTable(es)
  PROVE  /\ \A T : EscrowTable(es \ T)
         /\ \A e \in Escrow :
              e.amount # NoCoins /\ (\A x \in es : x.from # e.from \/ x.id # e.id)
              => e \notin es /\ EscrowTable(es \cup {e})
         /\ \A e \in es, x \in Escrow :
              x.amount # NoCoins /\ x.from = e.from /\ x.id = e.id
              => x \notin es \ {e} /\ EscrowTable((es \ {e}) \cup {x})
<1>1. ASSUME NEW T PROVE EscrowTable(es \ T)
  BY FS_Difference DEF EscrowTable
<1>2. ASSUME NEW fs, EscrowTable(fs), NEW e \in Escrow, e.amount # NoCoins,
             \A x \in fs : x.from # e.from \/ x.id # e.id
      PROVE  e \notin fs /\ EscrowTable(fs \cup {e})
  <2>1. IsFiniteSet(fs \cup {e})
    BY <1>2, FS_AddElement DEF EscrowTable
  <2>2. \A y, x \in fs \cup {e} : y.from = x.from /\ y.id = x.id => y = x
    BY <1>2 DEF EscrowTable
  <2> QED  BY <1>2, <2>1, <2>2 DEF EscrowTable
<1>3. ASSUME NEW e \in es, NEW x \in Escrow, x.amount # NoCoins, x.from = e.from, x.id = e.id
      PROVE  x \notin es \ {e} /\ EscrowTable((es \ {e}) \cup {x})
  <2> DEFINE fs == es \ {e}
  <2>1. EscrowTable(fs)
    BY <1>1
  <2>2. \A y \in fs : y.from # x.from \/ y.id # x.id
    BY <1>3 DEF EscrowTable
  <2> HIDE DEF fs
  <2>3. x \notin fs /\ EscrowTable(fs \cup {x})
    BY <1>2, <1>3, <2>1, <2>2
  <2> QED  BY <2>3 DEF fs
<1> QED  BY <1>1, <1>2, <1>3

\* The sums are integers.
LEMMA SumsAreIntegers ==
  ASSUME IInv, NEW s \in Symbol
  PROVE  /\ InAccounts(balance, savings, s) \in Nat /\ InOrders(orders, s) \in Nat
         /\ InEscrows(escrows, s) \in Nat /\ InWithdrawals(withdrawals, s) \in Nat
         /\ InConversions(conversions, s) \in Nat
<1>1. InAccounts(balance, savings, s) \in Nat
  <2> DEFINE f == [a \in Account |-> balance[a][s] + savings[a][s]]
  <2>1. f \in [Account -> Int] /\ \A a \in Account : f[a] \in Nat
    BY DEF IInv, BalancesOK, Purse
  <2>2. InAccounts(balance, savings, s) = SumFunction(f)
    BY DEF InAccounts
  <2>3. IsFiniteSet(Account)
    BY LedgerAssumption
  <2> HIDE DEF f
  <2> QED  BY <2>1, <2>2, <2>3, SumNat
<1>2. InOrders(orders, s) \in Nat
  BY OrderRows DEF IInv, MarketInv, OrdersOK, Book
<1>3. InEscrows(escrows, s) \in Nat
  BY EscrowRows DEF IInv, EscrowInv, EscrowTable
<1>4. InWithdrawals(withdrawals, s) \in Nat
  BY WithdrawalRows DEF IInv, WithdrawalInv, WithdrawalTable
<1>5. InConversions(conversions, s) \in Nat
  BY ConversionRows DEF IInv, ConversionsOK
<1> QED  BY <1>1, <1>2, <1>3, <1>4, <1>5

\* What a step leaves alone.
LEMMA MarketSame ==
  ASSUME MarketInv, NoTrade
  PROVE  MarketInv'
<1>1. orders' = orders /\ nextId' = nextId /\ fills' = <<>>
  BY DEF NoTrade
<1>2. FillsFair'
  BY <1>1 DEF FillsFair
<1>3. OrdersOK' /\ BookSettled'
  BY <1>1 DEF MarketInv, OrdersOK, BookSettled
<1> QED  BY <1>2, <1>3 DEF MarketInv

\* The same for escrows.
LEMMA EscrowSame ==
  ASSUME EscrowInv, UNCHANGED <<escrows, escrowCount, now>>
  PROVE  EscrowInv'
  BY DEF EscrowInv

\* The same for withdrawals.
LEMMA WithdrawalSame ==
  ASSUME WithdrawalInv, UNCHANGED <<withdrawals, requests>>
  PROVE  WithdrawalInv'
  BY DEF WithdrawalInv

\* The same for conversions, times and interest.
LEMMA OthersSame ==
  /\ ConversionsOK /\ UNCHANGED conversions => ConversionsOK'
  /\ ClockOK /\ UNCHANGED <<now, feed, nextId>> => ClockOK'
  /\ AccrualOK /\ UNCHANGED <<accrual, now>> => AccrualOK'
  BY DEF ConversionsOK, ClockOK, AccrualOK


------------------------------------------------------------------------------
(* One lemma for each operation. *)

\* limit_order_create.
LEMMA CreateStep ==
  ASSUME IInv, NEW a \in Account, NEW s0 \in Symbol, NEW n \in Sizes, NEW price \in Prices,
         NEW after \in 1 .. MaxExpiration, NEW fillOrKill \in BOOLEAN,
         limit_order_create(a, s0, n, price, now + after, fillOrKill)
  PROVE  IInv'
<1> DEFINE o == [id |-> nextId, seller |-> a, sells |-> s0, left |-> n, price |-> price,
                 expiration |-> now + after]
           t == apply_order(o)
<1>1. /\ balance' = t.balance /\ orders' = t.orders /\ fills' = t.fills
      /\ nextId' = nextId + 1 /\ now' = now /\ feed' = feed
      /\ Has(balance, a, Coins(s0, n)) /\ AtPrice(n, price) > 0
      /\ UNCHANGED <<savings, accrual, escrows, escrowCount, withdrawals, requests, conversions,
                     supply>>
  BY DEF limit_order_create, Opening, heldVars
<1>2. OrdersOK /\ BalancesOK /\ ClockOK /\ BookSettled
  BY DEF IInv, MarketInv
<1>3. NewOrder(o)
  <2>1. n \in Nat \ {0} /\ MaxExpiration \in Nat
    BY LedgerAssumption
  <2>2. now + after \in Nat
    BY <1>2, <2>1 DEF ClockOK
  <2>3. o \in Order
    BY <1>2, <2>1, <2>2 DEF Order, ClockOK
  <2> QED  BY <1>1, <2>3 DEF NewOrder, amount_to_receive
<1> HIDE DEF o
<1>4. /\ \A x, y \in t.orders : ~Crosses(x, y)
      /\ \A x \in t.orders : amount_to_receive(x, x.left) > 0
      /\ Book(t.orders, nextId + 1)
      /\ t.balance \in Purse
      /\ t.fills \in Seq(Fill) /\ \A i \in DOMAIN t.fills : Fair(t.fills[i])
      /\ \A s \in Symbol :
           InAccounts(t.balance, savings, s) + InOrders(t.orders, s)
           = InAccounts(balance, savings, s) + InOrders(orders, s)
  BY <1>2, <1>3, BookAfter
<1> HIDE DEF t
<1>5. MarketInv'
  <2>1. OrdersOK'
    BY <1>1, <1>4 DEF OrdersOK
  <2>2. BookSettled'
    BY <1>1, <1>4 DEF BookSettled
  <2>3. FillsFair'
    BY <1>1, <1>4 DEF FillsFair, Fair
  <2> QED  BY <2>1, <2>2, <2>3 DEF MarketInv
<1>6. BalancesOK'
  BY <1>1, <1>2, <1>4 DEF BalancesOK
<1>7. EscrowInv' /\ WithdrawalInv' /\ ConversionsOK' /\ AccrualOK'
  BY <1>1, EscrowSame, WithdrawalSame, OthersSame DEF IInv
<1>8. ClockOK'
  BY <1>1, <1>2 DEF ClockOK
<1>9. Exact'
  <2> SUFFICES ASSUME NEW s \in Symbol
               PROVE  supply'[s] = InAccounts(balance', savings', s) + InOrders(orders', s)
                        + InEscrows(escrows', s) + InWithdrawals(withdrawals', s)
                        + InConversions(conversions', s)
    BY DEF Exact
  <2>1. InAccounts(balance', savings', s) + InOrders(orders', s)
        = InAccounts(balance, savings, s) + InOrders(orders, s)
    BY <1>1, <1>4
  <2>2. supply[s] = InAccounts(balance, savings, s) + InOrders(orders, s)
                    + InEscrows(escrows, s) + InWithdrawals(withdrawals, s)
                    + InConversions(conversions, s)
    BY DEF IInv, Exact
  <2> QED  BY <1>1, <2>1, <2>2
<1> QED  BY <1>5, <1>6, <1>7, <1>8, <1>9 DEF IInv

\* limit_order_cancel.
LEMMA CancelStep ==
  ASSUME IInv, NEW o \in orders, limit_order_cancel(o)
  PROVE  IInv'
<1> DEFINE a == o.seller
           m == Coins(o.sells, o.left)
<1>1. /\ balance' = Add(balance, a, m) /\ orders' = orders \ {o} /\ fills' = <<>>
      /\ UNCHANGED <<savings, accrual, escrows, escrowCount, withdrawals, requests, conversions,
                     supply, nextId, now, feed>>
  BY DEF limit_order_cancel, Following, heldVars
<1>2. /\ OrdersOK /\ BalancesOK /\ ClockOK /\ BookSettled /\ o \in Order
      /\ orders \subseteq Order /\ IsFiniteSet(orders)
  BY DEF IInv, MarketInv, OrdersOK, Book
<1>3. a \in Account /\ m \in [Symbol -> Nat] /\ m \in [Symbol -> Int]
  BY <1>2 DEF Order, Coins
<1>4. \A s : InOrder(o, s) = m[s]
  BY DEF InOrder
<1> HIDE DEF a, m
<1>5. MarketInv'
  <2>1. IsFiniteSet(orders \ {o})
    BY <1>2, FS_RemoveElement
  <2>2. OrdersOK'
    BY <1>1, <1>2, <2>1 DEF OrdersOK, Book
  <2>3. BookSettled'
    BY <1>1, <1>2 DEF BookSettled
  <2>4. FillsFair'
    BY <1>1 DEF FillsFair
  <2> QED  BY <2>2, <2>3, <2>4 DEF MarketInv
<1>6. BalancesOK'
  BY <1>1, <1>2, <1>3, PurseKept DEF BalancesOK
<1>7. EscrowInv' /\ WithdrawalInv' /\ ConversionsOK' /\ AccrualOK' /\ ClockOK'
  BY <1>1, EscrowSame, WithdrawalSame, OthersSame DEF IInv
<1>8. Exact'
  <2> SUFFICES ASSUME NEW s \in Symbol
               PROVE  supply'[s] = InAccounts(balance', savings', s) + InOrders(orders', s)
                        + InEscrows(escrows', s) + InWithdrawals(withdrawals', s)
                        + InConversions(conversions', s)
    BY DEF Exact
  <2>1. InAccounts(Add(balance, a, m), savings, s) = InAccounts(balance, savings, s) + m[s]
    <3>1. balance \in [Account -> [Symbol -> Int]] /\ savings \in [Account -> [Symbol -> Int]]
      BY <1>2, Wider DEF BalancesOK
    <3> QED  BY <1>3, <3>1, AddSum, ZenonT(60)
  <2>2. InOrders(orders \ {o}, s) = InOrders(orders, s) - m[s]
    BY <1>2, <1>4, OrderRows
  <2>3. supply[s] = InAccounts(balance, savings, s) + InOrders(orders, s)
                    + InEscrows(escrows, s) + InWithdrawals(withdrawals, s)
                    + InConversions(conversions, s)
    BY DEF IInv, Exact
  <2>4. m[s] \in Int
    BY <1>3
  <2> QED  BY <1>1, <2>1, <2>2, <2>3, <2>4, SumsAreIntegers
<1> QED  BY <1>5, <1>6, <1>7, <1>8 DEF IInv

\* transfer.
LEMMA TransferStep ==
  ASSUME IInv, NEW a \in Account, NEW to \in Account, NEW m \in Moves, transfer(a, to, m)
  PROVE  IInv'
<1>1. /\ balance' = Add(Take(balance, a, m), to, m) /\ Has(balance, a, m) /\ NoTrade
      /\ nextId' = nextId /\ orders' = orders
      /\ UNCHANGED <<savings, accrual, escrows, escrowCount, withdrawals, requests, conversions,
                     supply, now, feed>>
  BY DEF transfer, Opening, heldVars, NoTrade
<1>2. BalancesOK /\ balance \in Purse
  BY DEF IInv, BalancesOK
<1>3. m \in [Symbol -> Nat] /\ m \in [Symbol -> Int]
  BY LedgerAssumption DEF Symbol
<1>4. Take(balance, a, m) \in Purse
  BY <1>1, <1>2, <1>3, PurseKept
<1>5. Add(Take(balance, a, m), to, m) \in Purse
  BY <1>3, <1>4, PurseKept
<1>6. BalancesOK'
  BY <1>1, <1>2, <1>5 DEF BalancesOK
<1>7. MarketInv' /\ EscrowInv' /\ WithdrawalInv' /\ ConversionsOK' /\ AccrualOK' /\ ClockOK'
  BY <1>1, MarketSame, EscrowSame, WithdrawalSame, OthersSame DEF IInv
<1>8. Exact'
  <2> SUFFICES ASSUME NEW s \in Symbol
               PROVE  supply'[s] = InAccounts(balance', savings', s) + InOrders(orders', s)
                        + InEscrows(escrows', s) + InWithdrawals(withdrawals', s)
                        + InConversions(conversions', s)
    BY DEF Exact
  <2> DEFINE b == Take(balance, a, m)
  <2>1. b \in [Account -> [Symbol -> Int]] /\ savings \in [Account -> [Symbol -> Int]]
        /\ balance \in [Account -> [Symbol -> Int]]
    BY <1>2, <1>4, Wider DEF BalancesOK
  <2>2. InAccounts(b, savings, s) = InAccounts(balance, savings, s) - m[s]
    BY <1>3, <2>1, TakeSum, ZenonT(60)
  <2> HIDE DEF b
  <2>3. InAccounts(Add(b, to, m), savings, s) = InAccounts(b, savings, s) + m[s]
    <3>1. b \in Purse /\ savings \in Purse
      BY <1>2, <1>4 DEF b, BalancesOK
    <3> QED  BY <1>3, <3>1, PurseSums
  <2>4. m[s] \in Int
    BY <1>3
  <2>5. InAccounts(balance', savings', s) = InAccounts(balance, savings, s)
    BY <1>1, <2>2, <2>3, <2>4, SumsAreIntegers DEF b
  <2>6. supply[s] = InAccounts(balance, savings, s) + InOrders(orders, s)
                    + InEscrows(escrows, s) + InWithdrawals(withdrawals, s)
                    + InConversions(conversions, s)
    BY DEF IInv, Exact
  <2> QED  BY <1>1, <2>5, <2>6
<1> QED  BY <1>6, <1>7, <1>8 DEF IInv


\* What escrow operations leave alone, and when the supplies stay exact: what the
\* accounts gain the escrows lose.
LEMMA EscrowFrame ==
  ASSUME IInv, NoTrade,
         UNCHANGED <<savings, accrual, supply, withdrawals, requests, conversions, now, feed>>,
         balance' \in Purse, EscrowInv',
         \A s \in Symbol : InAccounts(balance', savings, s) + InEscrows(escrows', s)
                           = InAccounts(balance, savings, s) + InEscrows(escrows, s)
  PROVE  IInv'
<1>1. orders' = orders /\ nextId' = nextId
  BY DEF NoTrade
<1>2. BalancesOK'
  BY DEF IInv, BalancesOK
<1>3. MarketInv' /\ WithdrawalInv' /\ ConversionsOK' /\ AccrualOK' /\ ClockOK'
  BY <1>1, MarketSame, WithdrawalSame, OthersSame DEF IInv
<1>4. Exact'
  <2> SUFFICES ASSUME NEW s \in Symbol
               PROVE  supply'[s] = InAccounts(balance', savings', s) + InOrders(orders', s)
                        + InEscrows(escrows', s) + InWithdrawals(withdrawals', s)
                        + InConversions(conversions', s)
    BY DEF Exact
  <2>1. supply[s] = InAccounts(balance, savings, s) + InOrders(orders, s)
                    + InEscrows(escrows, s) + InWithdrawals(withdrawals, s)
                    + InConversions(conversions, s)
    BY DEF IInv, Exact
  <2> DEFINE A == InAccounts(balance', savings, s)
             E == InEscrows(escrows', s)
  <2>2. A \in Int /\ E \in Int
    <3>1. E \in Int
      BY EscrowRows DEF EscrowInv, EscrowTable
    <3>2. A \in Int
      <4> DEFINE f == [a \in Account |-> balance'[a][s] + savings[a][s]]
      <4>1. f \in [Account -> Int]
        BY DEF IInv, BalancesOK, Purse
      <4>2. A = SumFunction(f) /\ IsFiniteSet(Account)
        BY LedgerAssumption DEF InAccounts
      <4> HIDE DEF f, A
      <4> QED  BY <4>1, <4>2, SumType
    <3> QED  BY <3>1, <3>2
  <2>3. A + E = InAccounts(balance, savings, s) + InEscrows(escrows, s)
    OBVIOUS
  <2>4. /\ supply' = supply /\ InAccounts(balance', savings', s) = A
        /\ InOrders(orders', s) = InOrders(orders, s)
        /\ InWithdrawals(withdrawals', s) = InWithdrawals(withdrawals, s)
        /\ InConversions(conversions', s) = InConversions(conversions, s)
    BY <1>1
  <2> HIDE DEF A
  <2>5. E = InEscrows(escrows', s)
    OBVIOUS
  <2> HIDE DEF E
  <2> QED  BY <2>1, <2>2, <2>3, <2>4, <2>5, SumsAreIntegers
<1> QED  BY <1>2, <1>3, <1>4 DEF IInv

\* escrow_transfer.
LEMMA EscrowTransferStep ==
  ASSUME IInv, NEW a \in Account, NEW to \in Account, NEW agent \in Account,
         NEW id \in RequestId, NEW m \in EscrowMoves,
         escrow_transfer(a, to, agent, id, m.amount, m.fee, now + 1, now + 2)
  PROVE  IInv'
<1> DEFINE e == [from |-> a, to |-> to, agent |-> agent, id |-> id, amount |-> m.amount,
                 fee |-> m.fee, deadline |-> now + 1, expiration |-> now + 2,
                 toApproved |-> FALSE, agentApproved |-> FALSE, disputed |-> FALSE]
           h == Held(e)
<1>1. /\ m.amount # NoCoins /\ escrowCount[a] < MaxPending
      /\ \A x \in escrows : x.from # a \/ x.id # id
      /\ Has(balance, a, h)
      /\ balance' = Take(balance, a, h) /\ escrows' = escrows \cup {e}
      /\ escrowCount' = [escrowCount EXCEPT ![a] = @ + 1]
      /\ NoTrade
      /\ UNCHANGED <<savings, accrual, supply, withdrawals, requests, conversions, now, feed>>
  BY DEF escrow_transfer, Opening
<1>2. /\ BalancesOK /\ now \in Nat /\ EscrowTable(escrows)
      /\ \A x \in escrows : Ratified(x, now)
      /\ escrowCount \in [Account -> 0 .. MaxPending]
      /\ \A x \in Account : escrowCount[x] = CountOf(escrows, x)
  BY DEF IInv, EscrowInv, ClockOK
<1>3. m.amount \in [Symbol -> Nat] /\ m.fee \in [Symbol -> Nat] /\ MaxPending \in Nat
  BY LedgerAssumption DEF Symbol
<1>4. e \in Escrow
  BY <1>2, <1>3 DEF Escrow
<1>5. Ratified(e, now)
  BY <1>2 DEF Ratified, is_approved
<1>6. e.from = a /\ e.id = id /\ e.amount = m.amount
  OBVIOUS
<1> HIDE DEF e
<1>7. h \in [Symbol -> Nat]
  BY <1>4, RowTypes DEF h, Symbol
<1> HIDE DEF h
<1>8. e \notin escrows /\ EscrowTable(escrows \cup {e})
  BY <1>1, <1>2, <1>4, <1>6, EscrowTableKept
<1>9. balance' \in Purse
  BY <1>1, <1>2, <1>7, PurseKept DEF BalancesOK
<1>10. EscrowInv'
  <2>1. \A x \in Account : CountOf(escrows', x) = CountOf(escrows, x) + (IF a = x THEN 1 ELSE 0)
    <3>1. IsFiniteSet(escrows)
      BY <1>2 DEF EscrowTable
    <3> QED  BY <1>1, <1>6, <1>8, <3>1, CountRows
  <2>2. escrowCount' \in [Account -> 0 .. MaxPending]
    BY <1>1, <1>2, <1>3
  <2>3. ASSUME NEW x \in Account PROVE escrowCount'[x] = CountOf(escrows', x)
    <3>1. escrowCount'[x] = escrowCount[x] + (IF a = x THEN 1 ELSE 0)
      BY <1>1, <1>2
    <3>2. escrowCount[x] = CountOf(escrows, x)
      BY <1>2
    <3> QED  BY <2>1, <3>1, <3>2
  <2>4. \A x \in escrows' : Ratified(x, now')
    BY <1>1, <1>2, <1>5
  <2>5. EscrowTable(escrows')
    BY <1>1, <1>8
  <2> QED  BY <2>2, <2>3, <2>4, <2>5 DEF EscrowInv
<1>11. ASSUME NEW s \in Symbol
       PROVE  InAccounts(balance', savings, s) + InEscrows(escrows', s)
              = InAccounts(balance, savings, s) + InEscrows(escrows, s)
  <2>1. balance \in Purse /\ savings \in Purse
    BY <1>2 DEF BalancesOK
  <2>2. InAccounts(Take(balance, a, h), savings, s) = InAccounts(balance, savings, s) - h[s]
    BY <1>7, <2>1, PurseSums
  <2>3. InEscrows(escrows \cup {e}, s) = InEscrows(escrows, s) + h[s]
    BY <1>2, <1>4, <1>8, EscrowRows DEF EscrowTable, h
  <2>4. h[s] \in Int
    BY <1>7
  <2> QED  BY <1>1, <2>2, <2>3, <2>4, SumsAreIntegers
<1> QED  BY <1>1, <1>9, <1>10, <1>11, EscrowFrame


\* An escrow ends and what it held goes to one account: rejected, released
\* to the last unit.
LEMMA EscrowEnds ==
  ASSUME IInv, NEW e \in escrows, NEW a \in Account, NEW m \in [Symbol -> Nat],
         \A s \in Symbol : Held(e)[s] = m[s],
         balance' = Add(balance, a, m), escrows' = escrows \ {e},
         escrowCount' = [escrowCount EXCEPT ![e.from] = @ - 1], NoTrade,
         UNCHANGED <<savings, accrual, supply, withdrawals, requests, conversions, now, feed>>
  PROVE  IInv'
<1> DEFINE b == e.from
<1>1. /\ BalancesOK /\ EscrowTable(escrows)
      /\ \A x \in escrows : Ratified(x, now)
      /\ escrowCount \in [Account -> 0 .. MaxPending]
      /\ \A x \in Account : escrowCount[x] = CountOf(escrows, x)
  BY DEF IInv, EscrowInv
<1>2. e \in Escrow /\ escrows \in SUBSET Escrow /\ IsFiniteSet(escrows)
  BY <1>1 DEF EscrowTable
<1>3. b \in Account /\ MaxPending \in Nat
  BY <1>2, LedgerAssumption DEF Escrow
<1>4. balance' \in Purse
  BY <1>1, PurseKept DEF BalancesOK
<1>5. EscrowInv'
  <2>1. \A x \in Account : CountOf(escrows', x) = CountOf(escrows, x) - (IF b = x THEN 1 ELSE 0)
    BY <1>2, CountRows
  <2>2. CountOf(escrows, b) > 0
    BY <1>2, CountRows
  <2>3. escrowCount' = [escrowCount EXCEPT ![b] = escrowCount[b] - 1]
    OBVIOUS
  <2> HIDE DEF b
  <2>4. escrowCount' \in [Account -> 0 .. MaxPending]
    <3>1. escrowCount[b] \in 0 .. MaxPending /\ escrowCount[b] > 0
      BY <1>1, <1>3, <2>2
    <3>2. escrowCount[b] - 1 \in 0 .. MaxPending
      BY <1>3, <3>1
    <3> QED  BY <1>1, <1>3, <2>3, <3>2
  <2>5. ASSUME NEW x \in Account PROVE escrowCount'[x] = CountOf(escrows', x)
    <3>1. escrowCount'[x] = escrowCount[x] - (IF b = x THEN 1 ELSE 0)
      BY <1>1, <1>3, <2>3
    <3>2. escrowCount[x] = CountOf(escrows, x)
      BY <1>1
    <3> QED  BY <2>1, <3>1, <3>2
  <2>6. \A x \in escrows' : Ratified(x, now')
    BY <1>1
  <2>7. EscrowTable(escrows')
    BY <1>1, EscrowTableKept
  <2> QED  BY <2>4, <2>5, <2>6, <2>7 DEF EscrowInv
<1>6. ASSUME NEW s \in Symbol
      PROVE  InAccounts(balance', savings, s) + InEscrows(escrows', s)
             = InAccounts(balance, savings, s) + InEscrows(escrows, s)
  <2>1. balance \in Purse /\ savings \in Purse
    BY <1>1 DEF BalancesOK
  <2>2. InAccounts(Add(balance, a, m), savings, s) = InAccounts(balance, savings, s) + m[s]
    BY <2>1, PurseSums
  <2>3. InEscrows(escrows \ {e}, s) = InEscrows(escrows, s) - m[s]
    BY <1>2, EscrowRows
  <2>4. m[s] \in Int
    OBVIOUS
  <2> QED  BY <2>2, <2>3, <2>4, SumsAreIntegers
<1> QED  BY <1>4, <1>5, <1>6, EscrowFrame

\* A row of the escrow table is modified and what it holds less goes to one account.
LEMMA EscrowModified ==
  ASSUME IInv, NEW e \in escrows, NEW x \in Escrow, NEW a \in Account, NEW m \in [Symbol -> Nat],
         x.from = e.from, x.id = e.id, x.amount # NoCoins, Ratified(x, now),
         \A s \in Symbol : Held(e)[s] = Held(x)[s] + m[s],
         balance' = Add(balance, a, m), escrows' = (escrows \ {e}) \cup {x},
         escrowCount' = escrowCount, NoTrade,
         UNCHANGED <<savings, accrual, supply, withdrawals, requests, conversions, now, feed>>
  PROVE  IInv'
<1> DEFINE rest == escrows \ {e}
<1>1. /\ BalancesOK /\ EscrowTable(escrows)
      /\ \A y \in escrows : Ratified(y, now)
      /\ escrowCount \in [Account -> 0 .. MaxPending]
      /\ \A y \in Account : escrowCount[y] = CountOf(escrows, y)
  BY DEF IInv, EscrowInv
<1>2. e \in Escrow /\ escrows \in SUBSET Escrow /\ IsFiniteSet(escrows)
  BY <1>1 DEF EscrowTable
<1>3. IsFiniteSet(rest) /\ rest \in SUBSET Escrow
  BY <1>2, FS_RemoveElement
<1>4. balance' \in Purse
  BY <1>1, PurseKept DEF BalancesOK
<1>5. x \notin rest /\ EscrowTable(rest \cup {x})
  BY <1>1, EscrowTableKept
<1>6. EscrowInv'
  <2>1. ASSUME NEW y \in Account PROVE escrowCount'[y] = CountOf(escrows', y)
    <3>1. CountOf(rest, y) = CountOf(escrows, y) - (IF e.from = y THEN 1 ELSE 0)
      BY <1>2, CountRows
    <3>2. CountOf(escrows, y) \in Nat
      BY <1>2, CountRows
    <3> HIDE DEF rest
    <3>3. CountOf(rest \cup {x}, y) = CountOf(rest, y) + (IF x.from = y THEN 1 ELSE 0)
      BY <1>3, <1>5, CountRows
    <3>4. CountOf(rest \cup {x}, y) = CountOf(escrows, y)
      BY <3>1, <3>2, <3>3
    <3> QED  BY <1>1, <3>4 DEF rest
  <2>2. \A y \in escrows' : Ratified(y, now')
    BY <1>1
  <2>3. EscrowTable(escrows')
    BY <1>5
  <2> QED  BY <1>1, <2>1, <2>2, <2>3 DEF EscrowInv
<1>7. ASSUME NEW s \in Symbol
      PROVE  InAccounts(balance', savings, s) + InEscrows(escrows', s)
             = InAccounts(balance, savings, s) + InEscrows(escrows, s)
  <2>1. balance \in Purse /\ savings \in Purse
    BY <1>1 DEF BalancesOK
  <2>2. InAccounts(Add(balance, a, m), savings, s) = InAccounts(balance, savings, s) + m[s]
    BY <2>1, PurseSums
  <2>3. InEscrows(rest, s) = InEscrows(escrows, s) - Held(e)[s]
    BY <1>2, EscrowRows
  <2> HIDE DEF rest
  <2>4. InEscrows(rest \cup {x}, s) = InEscrows(rest, s) + Held(x)[s]
    BY <1>3, <1>5, EscrowRows
  <2>5. m[s] \in Int /\ Held(e)[s] \in Int /\ Held(x)[s] \in Int
    BY <1>2, RowTypes
  <2>6. InEscrows(rest \cup {x}, s) = InEscrows(escrows, s) - m[s]
    BY <2>3, <2>4, <2>5, SumsAreIntegers
  <2> QED  BY <2>2, <2>5, <2>6, SumsAreIntegers DEF rest
<1> QED  BY <1>4, <1>6, <1>7, EscrowFrame

\* Nothing added.
LEMMA AddNothing ==
  ASSUME NEW b \in Purse, NEW a \in Account
  PROVE  NoCoins \in [Symbol -> Nat] /\ Add(b, a, NoCoins) = b
<1>1. NoCoins \in [Symbol -> Nat] /\ \A s \in Symbol : NoCoins[s] = 0
  BY DEF NoCoins
<1>2. [s \in Symbol |-> b[a][s] + NoCoins[s]] = b[a]
  BY <1>1 DEF Purse
<1> QED  BY <1>1, <1>2 DEF Add, Purse

\* escrow_approve: rejected, one more signature, or both and the agent paid.
LEMMA EscrowApproveStep ==
  ASSUME IInv, NEW e \in escrows, NEW who \in Account, NEW approve \in BOOLEAN,
         escrow_approve(e, who, approve)
  PROVE  IInv'
<1> DEFINE signed == [e EXCEPT !.toApproved = @ \/ who = e.to,
                               !.agentApproved = @ \/ who = e.agent]
           paid == [signed EXCEPT !.fee = NoCoins]
<1>1. /\ NoTrade
      /\ \/ who = e.to /\ ~e.toApproved
         \/ who = e.agent /\ ~e.agentApproved
      /\ UNCHANGED <<savings, accrual, supply, withdrawals, requests, conversions, now, feed>>
  BY DEF escrow_approve, Following
<1>2. e \in Escrow /\ Ratified(e, now) /\ e.amount # NoCoins /\ balance \in Purse
  BY DEF IInv, EscrowInv, EscrowTable, BalancesOK
<1>3. e.from \in Account /\ e.agent \in Account /\ e.fee \in [Symbol -> Nat]
      /\ e.amount \in [Symbol -> Nat]
  BY <1>2 DEF Escrow
<1>4. ~is_approved(e) /\ ~e.disputed /\ e.deadline > now
  BY <1>1, <1>2 DEF is_approved, Ratified
<1>5. /\ signed \in Escrow /\ signed.from = e.from /\ signed.id = e.id
      /\ signed.amount = e.amount /\ signed.fee = e.fee /\ signed.deadline = e.deadline
      /\ signed.disputed = e.disputed
  BY <1>2 DEF Escrow
<1>6. NoCoins \in [Symbol -> Nat] /\ \A s \in Symbol : NoCoins[s] = 0
  BY DEF NoCoins
<1>7. \/ /\ balance' = Add(balance, e.from, Held(e)) /\ escrows' = escrows \ {e}
         /\ escrowCount' = [escrowCount EXCEPT ![e.from] = @ - 1]
      \/ /\ ~is_approved(signed) /\ escrows' = (escrows \ {e}) \cup {signed}
         /\ balance' = balance /\ escrowCount' = escrowCount
      \/ /\ is_approved(signed) /\ escrows' = (escrows \ {e}) \cup {paid}
         /\ balance' = Add(balance, e.agent, e.fee) /\ escrowCount' = escrowCount
  BY DEF escrow_approve
<1>8. /\ paid \in Escrow /\ paid.from = e.from /\ paid.id = e.id /\ paid.fee = NoCoins
      /\ paid.amount = e.amount /\ paid.disputed = e.disputed
      /\ paid.toApproved = signed.toApproved /\ paid.agentApproved = signed.agentApproved
  <2> HIDE DEF signed
  <2> QED  BY <1>5, <1>6 DEF Escrow
<1> HIDE DEF signed, paid
<1>9. CASE /\ balance' = Add(balance, e.from, Held(e)) /\ escrows' = escrows \ {e}
           /\ escrowCount' = [escrowCount EXCEPT ![e.from] = @ - 1]
  <2> DEFINE h == Held(e)
  <2>1. h \in [Symbol -> Nat]
    BY <1>2, RowTypes DEF Symbol
  <2>2. \A s \in Symbol : Held(e)[s] = h[s]
    OBVIOUS
  <2>3. balance' = Add(balance, e.from, h)
    BY <1>9
  <2> HIDE DEF h
  <2> QED  BY <1>1, <1>3, <1>9, <2>1, <2>2, <2>3, EscrowEnds
<1>10. CASE /\ ~is_approved(signed) /\ escrows' = (escrows \ {e}) \cup {signed}
            /\ balance' = balance /\ escrowCount' = escrowCount
  <2>1. balance' = Add(balance, e.from, NoCoins)
    BY <1>2, <1>3, <1>10, AddNothing
  <2>2. Ratified(signed, now)
    BY <1>4, <1>5, <1>10 DEF Ratified
  <2>3. ASSUME NEW s \in Symbol PROVE Held(e)[s] = Held(signed)[s] + NoCoins[s]
    BY <1>2, <1>3, <1>5, <1>6, RowTypes
  <2> QED  BY <1>1, <1>2, <1>3, <1>5, <1>6, <1>10, <2>1, <2>2, <2>3, EscrowModified
<1>11. CASE /\ is_approved(signed) /\ escrows' = (escrows \ {e}) \cup {paid}
            /\ balance' = Add(balance, e.agent, e.fee) /\ escrowCount' = escrowCount
  <2>1. is_approved(paid)
    BY <1>8, <1>11 DEF is_approved
  <2>2. Ratified(paid, now)
    BY <1>8, <2>1 DEF Ratified
  <2>3. ASSUME NEW s \in Symbol PROVE Held(e)[s] = Held(paid)[s] + e.fee[s]
    <3>1. Held(e)[s] = e.amount[s] + e.fee[s] /\ Held(paid)[s] = paid.amount[s] + paid.fee[s]
      BY <1>2, <1>8, RowTypes
    <3> QED  BY <1>3, <1>6, <1>8, <3>1
  <2> QED  BY <1>1, <1>2, <1>3, <1>8, <1>11, <2>2, <2>3, EscrowModified
<1> QED  BY <1>7, <1>9, <1>10, <1>11

\* escrow_dispute.
LEMMA EscrowDisputeStep ==
  ASSUME IInv, NEW e \in escrows, escrow_dispute(e)
  PROVE  IInv'
<1> DEFINE x == [e EXCEPT !.disputed = TRUE]
<1>1. /\ NoTrade /\ is_approved(e) /\ escrows' = (escrows \ {e}) \cup {x}
      /\ balance' = balance /\ escrowCount' = escrowCount
      /\ UNCHANGED <<savings, accrual, supply, withdrawals, requests, conversions, now, feed>>
  BY DEF escrow_dispute, Following
<1>2. e \in Escrow /\ Ratified(e, now) /\ e.amount # NoCoins /\ balance \in Purse
  BY DEF IInv, EscrowInv, EscrowTable, BalancesOK
<1>3. /\ x \in Escrow /\ x.from = e.from /\ x.id = e.id /\ x.amount = e.amount /\ x.fee = e.fee
      /\ x.toApproved = e.toApproved /\ x.agentApproved = e.agentApproved /\ e.from \in Account
  BY <1>2 DEF Escrow
<1> HIDE DEF x
<1>4. Ratified(x, now)
  BY <1>1, <1>2, <1>3 DEF Ratified, is_approved
<1>5. NoCoins \in [Symbol -> Nat] /\ balance' = Add(balance, e.from, NoCoins)
  BY <1>1, <1>2, <1>3, AddNothing
<1>6. ASSUME NEW s \in Symbol PROVE Held(e)[s] = Held(x)[s] + NoCoins[s]
  <2>1. NoCoins[s] = 0
    BY DEF NoCoins
  <2>2. Held(e) \in [Symbol -> Nat] /\ Held(x)[s] = x.amount[s] + x.fee[s]
        /\ Held(e)[s] = e.amount[s] + e.fee[s]
    BY <1>2, <1>3, RowTypes
  <2>3. Held(e)[s] \in Nat
    BY <2>2
  <2> QED  BY <1>3, <2>1, <2>2, <2>3
<1> QED  BY <1>1, <1>2, <1>3, <1>4, <1>5, <1>6, EscrowModified

\* escrow_release: the rest stays in escrow, or the escrow ends.
LEMMA EscrowReleaseStep ==
  ASSUME IInv, NEW e \in escrows, NEW who \in Account, NEW receiver \in Account,
         NEW m \in Parts(e), escrow_release(e, who, receiver, m)
  PROVE  IInv'
<1> DEFINE rest == [s \in Symbol |-> e.amount[s] - m[s]]
           x == [e EXCEPT !.amount = rest]
<1>1. /\ NoTrade /\ is_approved(e) /\ balance' = Add(balance, receiver, m)
      /\ \A s \in Symbol : rest[s] >= 0
      /\ UNCHANGED <<savings, accrual, supply, withdrawals, requests, conversions, now, feed>>
  BY DEF escrow_release, Following
<1>2. IF rest = NoCoins
      THEN /\ escrows' = escrows \ {e}
           /\ escrowCount' = [escrowCount EXCEPT ![e.from] = @ - 1]
      ELSE escrows' = (escrows \ {e}) \cup {x} /\ escrowCount' = escrowCount
  BY DEF escrow_release
<1>3. e \in Escrow /\ Ratified(e, now) /\ e.amount # NoCoins
  BY DEF IInv, EscrowInv, EscrowTable
<1>4. e.amount \in [Symbol -> Nat] /\ e.from \in Account
  BY <1>3 DEF Escrow
<1>5. m \in [Symbol -> Nat]
  BY <1>4 DEF Parts, Symbol
<1>6. rest \in [Symbol -> Nat] /\ \A s \in Symbol : rest[s] = e.amount[s] - m[s]
  BY <1>1, <1>4, <1>5
<1>7. e.fee = NoCoins
  BY <1>1, <1>3 DEF Ratified
<1> HIDE DEF rest
<1>8. /\ x \in Escrow /\ x.from = e.from /\ x.id = e.id /\ x.amount = rest /\ x.fee = e.fee
      /\ x.toApproved = e.toApproved /\ x.agentApproved = e.agentApproved
  BY <1>3, <1>6 DEF Escrow
<1> HIDE DEF x
<1>9. ASSUME NEW s \in Symbol PROVE NoCoins[s] = 0
  BY DEF NoCoins
<1>10. CASE rest = NoCoins
  <2>1. ASSUME NEW s \in Symbol PROVE Held(e)[s] = m[s]
    <3>1. Held(e)[s] = e.amount[s] + e.fee[s] /\ e.fee[s] = 0 /\ e.amount[s] - m[s] = 0
      BY <1>3, <1>6, <1>7, <1>9, <1>10, RowTypes
    <3> QED  BY <1>4, <1>5, <3>1
  <2> QED  BY <1>1, <1>2, <1>5, <1>10, <2>1, EscrowEnds
<1>11. CASE rest # NoCoins
  <2>1. Ratified(x, now)
    BY <1>1, <1>7, <1>8 DEF Ratified, is_approved
  <2>2. ASSUME NEW s \in Symbol PROVE Held(e)[s] = Held(x)[s] + m[s]
    <3>1. Held(e)[s] = e.amount[s] + e.fee[s] /\ e.fee[s] = 0 /\ rest[s] = e.amount[s] - m[s]
          /\ Held(x)[s] = rest[s] + e.fee[s]
      BY <1>3, <1>6, <1>7, <1>8, <1>9, RowTypes
    <3> QED  BY <1>4, <1>5, <3>1
  <2> QED  BY <1>1, <1>2, <1>5, <1>8, <1>11, <2>1, <2>2, EscrowModified
<1> QED  BY <1>10, <1>11

\* adjust_savings_balance: the savings of one account change by the amounts and
\* the interest, and the interest is printed.
LEMMA SavingsAdjusted ==
  ASSUME IInv, NEW a \in Account, NEW m \in [Symbol -> Int],
         \A s \in Symbol : savings[a][s] + m[s] >= 0,
         adjust_savings_balance(a, m), now' = now
  PROVE  /\ savings' \in Purse /\ AccrualOK' /\ supply' \in [Symbol -> Int]
         /\ \E i \in [Symbol -> Nat] : \A s \in Symbol :
              /\ InAccounts(balance, savings', s) = InAccounts(balance, savings, s) + i[s] + m[s]
              /\ supply'[s] = supply[s] + i[s]
<1> DEFINE last == accrual[a]
           due == m["HBD"] # 0 /\ last.updated # now
           seconds == last.seconds + savings[a]["HBD"] * (now - last.updated)
           pays == due /\ seconds > 0 /\ now - last.paid > CompoundInterval
           interest == IF pays THEN ((seconds \div Year) * InterestRate) \div Percent100 ELSE 0
           i == Coins("HBD", interest)
           mid == Add(savings, a, i)
<1>1. /\ savings' = Add(mid, a, m)
      /\ supply' = [supply EXCEPT !["HBD"] = @ + interest]
      /\ accrual' = [accrual EXCEPT ![a] =
           IF pays THEN [seconds |-> 0, updated |-> now, paid |-> now]
           ELSE IF due THEN [@ EXCEPT !.seconds = seconds, !.updated = now] ELSE @]
  BY DEF adjust_savings_balance
<1>2. balance \in Purse /\ savings \in Purse /\ supply \in [Symbol -> Int] /\ now \in Nat
  BY DEF IInv, BalancesOK, ClockOK
<1>3. /\ last \in [seconds : Nat, updated : 0 .. now, paid : 0 .. now]
      /\ accrual \in [Account -> [seconds : Nat, updated : 0 .. now, paid : 0 .. now]]
  BY DEF IInv, AccrualOK
<1>4. seconds \in Nat
  <2>1. last.seconds \in Nat /\ now - last.updated \in Nat /\ savings[a]["HBD"] \in Nat
    BY <1>2, <1>3 DEF Purse, Symbol
  <2>2. savings[a]["HBD"] * (now - last.updated) \in Nat
    BY <2>1
  <2> QED  BY <2>1, <2>2
<1>5. interest \in Nat
  <2> HIDE DEF seconds
  <2>1. Year \in Nat \ {0} /\ Percent100 \in Nat \ {0} /\ InterestRate \in Nat
    BY LedgerAssumption
  <2>2. seconds \div Year \in Nat
    BY <1>4, <2>1, Division
  <2>3. (seconds \div Year) * InterestRate \in Nat
    BY <2>1, <2>2
  <2>4. ((seconds \div Year) * InterestRate) \div Percent100 \in Nat
    BY <2>1, <2>3, Division
  <2> QED  BY <2>4
<1>6. AccrualOK'
  <2> DEFINE T == [seconds : Nat, updated : 0 .. now, paid : 0 .. now]
             r == IF pays THEN [seconds |-> 0, updated |-> now, paid |-> now]
                  ELSE IF due THEN [last EXCEPT !.seconds = seconds, !.updated = now] ELSE last
  <2>1. accrual' = [accrual EXCEPT ![a] = r]
    BY <1>1
  <2> HIDE DEF seconds, due, pays, last
  <2>2. r \in T
    <3>1. [seconds |-> 0, updated |-> now, paid |-> now] \in T
      BY <1>2
    <3>2. [last EXCEPT !.seconds = seconds, !.updated = now] \in T
      <4>1. ASSUME NEW R, NEW u \in R, NEW n \in Nat,
                   NEW x \in [seconds : Nat, updated : R, paid : R]
            PROVE  [x EXCEPT !.seconds = n, !.updated = u]
                     \in [seconds : Nat, updated : R, paid : R]
        OBVIOUS
      <4>2. now \in 0 .. now
        BY <1>2
      <4> QED  BY <1>3, <1>4, <4>1, <4>2
    <3>3. last \in T
      BY <1>3
    <3> HIDE DEF T
    <3> QED  BY <3>1, <3>2, <3>3
  <2> HIDE DEF r
  <2>3. accrual' \in [Account -> T]
    BY <1>3, <2>1, <2>2
  <2> QED  BY <2>3 DEF AccrualOK
<1> HIDE DEF interest
<1>7. "HBD" \in Symbol /\ i \in [Symbol -> Nat] /\ i \in [Symbol -> Int]
  BY <1>5 DEF Coins, Symbol
<1>8. ASSUME NEW s \in Symbol PROVE supply'[s] = supply[s] + i[s]
  BY <1>1, <1>2, <1>5 DEF Coins, Symbol
<1>9. supply' \in [Symbol -> Int]
  BY <1>1, <1>2, <1>5, <1>7
<1> HIDE DEF i
<1>10. mid \in Purse /\ \A s \in Symbol : mid[a][s] >= savings[a][s]
  <2>1. mid \in Purse
    BY <1>2, <1>7, PurseKept
  <2>2. \A s \in Symbol : mid[a][s] = savings[a][s] + i[s]
    BY <1>2 DEF Add, Purse
  <2>3. \A s \in Symbol : savings[a][s] \in Nat /\ i[s] \in Nat
    BY <1>2, <1>7 DEF Purse
  <2> HIDE DEF mid
  <2> QED  BY <2>1, <2>2, <2>3
<1>11. \A s \in Symbol :
         InAccounts(balance, mid, s) = InAccounts(balance, savings, s) + i[s]
  BY <1>2, <1>7, PurseSums
<1> HIDE DEF mid
<1>12. savings' \in Purse
  <2>1. ASSUME NEW s \in Symbol PROVE mid[a][s] + m[s] \in Nat
    <3>1. mid[a][s] \in Nat /\ savings[a][s] \in Nat /\ m[s] \in Int
      BY <1>2, <1>10 DEF Purse
    <3> QED  BY <1>10, <3>1
  <2> QED  BY <1>1, <1>10, <2>1 DEF Add, Purse
<1>13. ASSUME NEW s \in Symbol
       PROVE  InAccounts(balance, savings', s) = InAccounts(balance, savings, s) + i[s] + m[s]
  <2>1. mid \in [Account -> [Symbol -> Int]] /\ balance \in [Account -> [Symbol -> Int]]
    BY <1>2, <1>10, Wider
  <2>2. InAccounts(balance, Add(mid, a, m), s) = InAccounts(balance, mid, s) + m[s]
    BY <2>1, AddSum, ZenonT(60)
  <2> QED  BY <1>1, <1>11, <2>2
<1> QED  BY <1>6, <1>7, <1>8, <1>9, <1>12, <1>13

\* What savings operations leave alone, and when the supplies stay exact: what
\* goes into savings comes from a balance or from a withdrawal.
LEMMA SavingsFrame ==
  ASSUME IInv, NoTrade, NEW a \in Account, NEW m \in [Symbol -> Int],
         \A s \in Symbol : savings[a][s] + m[s] >= 0,
         adjust_savings_balance(a, m),
         UNCHANGED <<escrows, escrowCount, conversions, now, feed>>,
         balance' \in Purse, WithdrawalInv',
         \A s \in Symbol :
           savings' \in Purse =>
             InAccounts(balance', savings', s) + InWithdrawals(withdrawals', s)
             = InAccounts(balance, savings', s) + InWithdrawals(withdrawals, s) - m[s]
  PROVE  IInv'
<1>1. orders' = orders /\ nextId' = nextId
  BY DEF NoTrade
<1>2. savings' \in Purse /\ AccrualOK' /\ supply' \in [Symbol -> Int]
  BY SavingsAdjusted
<1>3. PICK i \in [Symbol -> Nat] : \A s \in Symbol :
        /\ InAccounts(balance, savings', s) = InAccounts(balance, savings, s) + i[s] + m[s]
        /\ supply'[s] = supply[s] + i[s]
  BY SavingsAdjusted
<1>4. BalancesOK'
  BY <1>2 DEF BalancesOK
<1>5. MarketInv' /\ EscrowInv' /\ ConversionsOK' /\ ClockOK'
  BY <1>1, MarketSame, EscrowSame, OthersSame DEF IInv
<1>6. Exact'
  <2> SUFFICES ASSUME NEW s \in Symbol
               PROVE  supply'[s] = InAccounts(balance', savings', s) + InOrders(orders', s)
                        + InEscrows(escrows', s) + InWithdrawals(withdrawals', s)
                        + InConversions(conversions', s)
    BY DEF Exact
  <2> DEFINE A == InAccounts(balance', savings', s)
             W == InWithdrawals(withdrawals', s)
  <2>1. supply[s] = InAccounts(balance, savings, s) + InOrders(orders, s)
                    + InEscrows(escrows, s) + InWithdrawals(withdrawals, s)
                    + InConversions(conversions, s)
    BY DEF IInv, Exact
  <2>2. W \in Int
    BY WithdrawalRows DEF WithdrawalInv, WithdrawalTable
  <2>3. A \in Int
    <3> DEFINE f == [x \in Account |-> balance'[x][s] + savings'[x][s]]
    <3>1. f \in [Account -> Int]
      BY <1>2 DEF Purse
    <3>2. A = SumFunction(f) /\ IsFiniteSet(Account)
      BY LedgerAssumption DEF InAccounts
    <3> HIDE DEF f, A
    <3> QED  BY <3>1, <3>2, SumType
  <2>4. A + W = InAccounts(balance, savings', s) + InWithdrawals(withdrawals, s) - m[s]
    BY <1>2
  <2>5. /\ InOrders(orders', s) = InOrders(orders, s)
        /\ InEscrows(escrows', s) = InEscrows(escrows, s)
        /\ InConversions(conversions', s) = InConversions(conversions, s)
    BY <1>1
  <2>6. m[s] \in Int /\ i[s] \in Int
    OBVIOUS
  <2>7. supply'[s] = A + InOrders(orders, s) + InEscrows(escrows, s) + W
                     + InConversions(conversions, s)
    <3>1. /\ InAccounts(balance, savings', s) = InAccounts(balance, savings, s) + i[s] + m[s]
          /\ supply'[s] = supply[s] + i[s]
      BY <1>3
    <3>2. /\ InAccounts(balance, savings, s) \in Int /\ InOrders(orders, s) \in Int
          /\ InEscrows(escrows, s) \in Int /\ InWithdrawals(withdrawals, s) \in Int
          /\ InConversions(conversions, s) \in Int
      BY SumsAreIntegers
    <3>3. A = InAccounts(balance, savings, s) + i[s] + InWithdrawals(withdrawals, s) - W
      <4> HIDE DEF A, W
      <4> QED  BY <2>2, <2>3, <2>4, <2>6, <3>1, <3>2
    <3> HIDE DEF A, W
    <3> QED  BY <2>1, <2>2, <2>6, <3>1, <3>2, <3>3
  <2> QED  BY <2>5, <2>7
<1> QED  BY <1>2, <1>4, <1>5, <1>6 DEF IInv

\* transfer_to_savings.
LEMMA ToSavingsStep ==
  ASSUME IInv, NEW a \in Account, NEW to \in Account, NEW m \in Moves,
         transfer_to_savings(a, to, m)
  PROVE  IInv'
<1>1. /\ Has(balance, a, m) /\ balance' = Take(balance, a, m) /\ NoTrade
      /\ adjust_savings_balance(to, m)
      /\ UNCHANGED <<escrows, escrowCount, withdrawals, requests, conversions, now, feed>>
  BY DEF transfer_to_savings, Opening
<1>2. balance \in Purse /\ savings \in Purse
  BY DEF IInv, BalancesOK
<1>3. m \in [Symbol -> Nat] /\ m \in [Symbol -> Int]
  BY LedgerAssumption DEF Symbol
<1>4. balance' \in Purse
  BY <1>1, <1>2, <1>3, PurseKept
<1>5. \A s \in Symbol : savings[to][s] + m[s] >= 0
  BY <1>2, <1>3 DEF Purse
<1>6. WithdrawalInv'
  BY <1>1, WithdrawalSame DEF IInv
<1>7. ASSUME NEW s \in Symbol, savings' \in Purse
      PROVE  InAccounts(balance', savings', s) + InWithdrawals(withdrawals', s)
             = InAccounts(balance, savings', s) + InWithdrawals(withdrawals, s) - m[s]
  <2> DEFINE v == savings'
  <2>1. v \in Purse
    BY <1>7
  <2>2. InAccounts(balance, v, s) \in Int
    <3>1. v \in [Account -> [Symbol -> Int]] /\ balance \in [Account -> [Symbol -> Int]]
      BY <1>2, <2>1, Wider
    <3> HIDE DEF v
    <3> QED  BY <1>3, <3>1, AddSum
  <2>3. InAccounts(Take(balance, a, m), v, s) = InAccounts(balance, v, s) - m[s]
    <3> HIDE DEF v
    <3> QED  BY <1>2, <1>3, <2>1, PurseSums
  <2>4. m[s] \in Int
    BY <1>3
  <2>5. InWithdrawals(withdrawals', s) = InWithdrawals(withdrawals, s)
    BY <1>1
  <2>6. InAccounts(balance', savings', s) = InAccounts(Take(balance, a, m), v, s)
    BY <1>1
  <2> HIDE DEF v
  <2>7. InAccounts(balance, v, s) - m[s] + InWithdrawals(withdrawals, s)
        = InAccounts(balance, v, s) + InWithdrawals(withdrawals, s) - m[s]
    BY <2>2, <2>4, SumsAreIntegers
  <2> QED  BY <2>3, <2>5, <2>6, <2>7 DEF v
<1> QED  BY <1>1, <1>3, <1>4, <1>5, <1>6, <1>7, SavingsFrame

\* transfer_from_savings.
LEMMA FromSavingsStep ==
  ASSUME IInv, NEW a \in Account, NEW to \in Account, NEW id \in RequestId, NEW m \in Moves,
         transfer_from_savings(a, to, id, m)
  PROVE  IInv'
<1> DEFINE w == [from |-> a, to |-> to, id |-> id, amount |-> m, complete |-> now + WithdrawTime]
           r == [s \in Symbol |-> -m[s]]
<1>1. /\ requests[a] < MaxRequests /\ Has(savings, a, m) /\ NoTrade
      /\ \A x \in withdrawals : x.from # a \/ x.id # id
      /\ adjust_savings_balance(a, r)
      /\ withdrawals' = withdrawals \cup {w}
      /\ requests' = [requests EXCEPT ![a] = @ + 1] /\ balance' = balance
      /\ UNCHANGED <<escrows, escrowCount, conversions, now, feed>>
  BY DEF transfer_from_savings, Opening
<1>2. /\ balance \in Purse /\ savings \in Purse /\ now \in Nat
      /\ WithdrawalTable(withdrawals) /\ requests \in [Account -> 0 .. MaxRequests]
      /\ \A x \in Account : requests[x] = CountOf(withdrawals, x)
  BY DEF IInv, BalancesOK, ClockOK, WithdrawalInv
<1>3. m \in [Symbol -> Nat] /\ MaxRequests \in Nat /\ WithdrawTime \in Nat
  BY LedgerAssumption DEF Symbol
<1>4. r \in [Symbol -> Int] /\ \A s \in Symbol : r[s] = -m[s]
  BY <1>3
<1>5. w \in Withdrawal /\ w.from = a /\ w.id = id /\ w.amount = m
  BY <1>2, <1>3 DEF Withdrawal
<1>6. \A s \in Symbol : savings[a][s] + r[s] >= 0
  BY <1>1, <1>2, <1>3, <1>4 DEF Has, Purse
<1> HIDE DEF w, r
<1>7. w \notin withdrawals
  BY <1>1, <1>5
<1>8. /\ withdrawals \in SUBSET Withdrawal /\ IsFiniteSet(withdrawals)
      /\ \A x, y \in withdrawals : x.from = y.from /\ x.id = y.id => x = y
  BY <1>2 DEF WithdrawalTable
<1>9. WithdrawalInv'
  <2>1. WithdrawalTable(withdrawals')
    <3>1. IsFiniteSet(withdrawals \cup {w})
      BY <1>8, FS_AddElement
    <3>2. \A x, y \in withdrawals \cup {w} : x.from = y.from /\ x.id = y.id => x = y
      BY <1>1, <1>5, <1>8
    <3> QED  BY <1>1, <1>5, <1>8, <3>1, <3>2 DEF WithdrawalTable
  <2>2. requests' \in [Account -> 0 .. MaxRequests]
    BY <1>1, <1>2, <1>3
  <2>3. ASSUME NEW x \in Account PROVE requests'[x] = CountOf(withdrawals', x)
    <3>1. requests'[x] = requests[x] + (IF a = x THEN 1 ELSE 0)
      BY <1>1, <1>2
    <3>2. CountOf(withdrawals \cup {w}, x)
          = CountOf(withdrawals, x) + (IF w.from = x THEN 1 ELSE 0)
      BY <1>7, <1>8, CountRows
    <3> QED  BY <1>1, <1>2, <1>5, <3>1, <3>2
  <2> QED  BY <2>1, <2>2, <2>3 DEF WithdrawalInv
<1>10. balance' \in Purse
  BY <1>1, <1>2
<1>11. ASSUME NEW s \in Symbol, savings' \in Purse
       PROVE  InAccounts(balance', savings', s) + InWithdrawals(withdrawals', s)
              = InAccounts(balance, savings', s) + InWithdrawals(withdrawals, s) - r[s]
  <2> DEFINE A == InAccounts(balance, savings', s)
  <2>1. A \in Int
    <3>1. savings' \in [Account -> [Symbol -> Int]] /\ balance \in [Account -> [Symbol -> Int]]
      BY <1>2, <1>11, Wider
    <3> QED  BY <1>4, <3>1, AddSum
  <2>2. InWithdrawals(withdrawals \cup {w}, s) = InWithdrawals(withdrawals, s) + m[s]
    BY <1>5, <1>7, <1>8, WithdrawalRows
  <2>3. m[s] \in Int /\ r[s] = -m[s] /\ InWithdrawals(withdrawals, s) \in Int
    BY <1>3, <1>4, SumsAreIntegers
  <2>4. InAccounts(balance', savings', s) = A
    BY <1>1
  <2> HIDE DEF A
  <2>5. A + InWithdrawals(withdrawals \cup {w}, s) = A + InWithdrawals(withdrawals, s) - r[s]
    BY <2>1, <2>2, <2>3
  <2> QED  BY <1>1, <2>4, <2>5 DEF A
<1> QED  BY <1>1, <1>4, <1>6, <1>9, <1>10, <1>11, SavingsFrame

\* cancel_transfer_from_savings.
LEMMA CancelSavingsStep ==
  ASSUME IInv, NEW w \in withdrawals, cancel_transfer_from_savings(w)
  PROVE  IInv'
<1> DEFINE a == w.from
           m == w.amount
<1>1. /\ adjust_savings_balance(a, m) /\ NoTrade
      /\ withdrawals' = withdrawals \ {w}
      /\ requests' = [requests EXCEPT ![a] = @ - 1] /\ balance' = balance
      /\ UNCHANGED <<escrows, escrowCount, conversions, now, feed>>
  BY DEF cancel_transfer_from_savings, Following
<1>2. /\ balance \in Purse /\ savings \in Purse
      /\ WithdrawalTable(withdrawals) /\ requests \in [Account -> 0 .. MaxRequests]
      /\ \A x \in Account : requests[x] = CountOf(withdrawals, x)
  BY DEF IInv, BalancesOK, WithdrawalInv
<1>3. /\ withdrawals \in SUBSET Withdrawal /\ IsFiniteSet(withdrawals)
      /\ \A x, y \in withdrawals : x.from = y.from /\ x.id = y.id => x = y
  BY <1>2 DEF WithdrawalTable
<1>4. a \in Account /\ m \in [Symbol -> Nat] /\ m \in [Symbol -> Int] /\ MaxRequests \in Nat
  BY <1>3, LedgerAssumption DEF Withdrawal
<1>5. \A s \in Symbol : InWithdrawals(withdrawals \ {w}, s) = InWithdrawals(withdrawals, s) - m[s]
  BY <1>3, WithdrawalRows
<1>6. ASSUME NEW x \in Account
      PROVE  /\ CountOf(withdrawals \ {w}, x) = CountOf(withdrawals, x) - (IF a = x THEN 1 ELSE 0)
             /\ CountOf(withdrawals, a) > 0
  BY <1>3, CountRows
<1> HIDE DEF a, m
<1>7. \A s \in Symbol : savings[a][s] + m[s] >= 0
  BY <1>2, <1>4 DEF Purse
<1>8. WithdrawalInv'
  <2>1. WithdrawalTable(withdrawals')
    <3>1. IsFiniteSet(withdrawals \ {w})
      BY <1>3, FS_RemoveElement
    <3> QED  BY <1>1, <1>3, <3>1 DEF WithdrawalTable
  <2>2. requests' \in [Account -> 0 .. MaxRequests]
    <3>1. requests[a] \in 0 .. MaxRequests /\ requests[a] > 0
      BY <1>2, <1>4, <1>6
    <3>2. requests[a] - 1 \in 0 .. MaxRequests
      BY <1>4, <3>1
    <3> QED  BY <1>1, <1>2, <3>2
  <2>3. ASSUME NEW x \in Account PROVE requests'[x] = CountOf(withdrawals', x)
    <3>1. requests'[x] = requests[x] - (IF a = x THEN 1 ELSE 0)
      BY <1>1, <1>2
    <3> QED  BY <1>1, <1>2, <1>6, <3>1
  <2> QED  BY <2>1, <2>2, <2>3 DEF WithdrawalInv
<1>9. balance' \in Purse
  BY <1>1, <1>2
<1>10. ASSUME NEW s \in Symbol, savings' \in Purse
       PROVE  InAccounts(balance', savings', s) + InWithdrawals(withdrawals', s)
              = InAccounts(balance, savings', s) + InWithdrawals(withdrawals, s) - m[s]
  <2> DEFINE A == InAccounts(balance, savings', s)
  <2>1. A \in Int
    <3>1. savings' \in [Account -> [Symbol -> Int]] /\ balance \in [Account -> [Symbol -> Int]]
      BY <1>2, <1>10, Wider
    <3> QED  BY <1>4, <3>1, AddSum
  <2>2. m[s] \in Int /\ InWithdrawals(withdrawals, s) \in Int
    BY <1>4, SumsAreIntegers
  <2>3. InAccounts(balance', savings', s) = A
    BY <1>1
  <2> HIDE DEF A
  <2>4. A + InWithdrawals(withdrawals \ {w}, s) = A + InWithdrawals(withdrawals, s) - m[s]
    BY <1>5, <2>1, <2>2
  <2> QED  BY <1>1, <2>3, <2>4 DEF A
<1> QED  BY <1>1, <1>4, <1>7, <1>8, <1>9, <1>10, SavingsFrame

\* What the conversions leave alone, and when the supplies stay exact.
LEMMA ConversionFrame ==
  ASSUME IInv, NoTrade,
         UNCHANGED <<savings, accrual, escrows, escrowCount, withdrawals, requests, now, feed>>,
         NEW c \in Conversion, c \notin conversions, conversions' = conversions \cup {c},
         balance' \in Purse, supply' \in [Symbol -> Int],
         \A s \in Symbol : InAccounts(balance', savings, s) + InConversion(c, s) - supply'[s]
                           = InAccounts(balance, savings, s) - supply[s]
  PROVE  IInv'
<1>1. orders' = orders /\ nextId' = nextId
  BY DEF NoTrade
<1>2. BalancesOK'
  BY DEF IInv, BalancesOK
<1>3. conversions \in SUBSET Conversion /\ IsFiniteSet(conversions)
  BY DEF IInv, ConversionsOK
<1>4. ConversionsOK'
  BY <1>3, FS_AddElement DEF ConversionsOK
<1>5. MarketInv' /\ EscrowInv' /\ WithdrawalInv' /\ AccrualOK' /\ ClockOK'
  BY <1>1, MarketSame, EscrowSame, WithdrawalSame, OthersSame DEF IInv
<1>6. Exact'
  <2> SUFFICES ASSUME NEW s \in Symbol
               PROVE  supply'[s] = InAccounts(balance', savings', s) + InOrders(orders', s)
                        + InEscrows(escrows', s) + InWithdrawals(withdrawals', s)
                        + InConversions(conversions', s)
    BY DEF Exact
  <2> DEFINE A == InAccounts(balance', savings, s)
             k == InConversion(c, s)
             S == supply'[s]
  <2>1. supply[s] = InAccounts(balance, savings, s) + InOrders(orders, s)
                    + InEscrows(escrows, s) + InWithdrawals(withdrawals, s)
                    + InConversions(conversions, s)
    BY DEF IInv, Exact
  <2>2. k \in Int /\ S \in Int /\ supply[s] \in Int
    BY RowTypes DEF IInv, BalancesOK
  <2>3. A \in Int
    <3> DEFINE f == [x \in Account |-> balance'[x][s] + savings[x][s]]
    <3>1. f \in [Account -> Int]
      BY DEF IInv, BalancesOK, Purse
    <3>2. A = SumFunction(f) /\ IsFiniteSet(Account)
      BY LedgerAssumption DEF InAccounts
    <3> HIDE DEF f, A
    <3> QED  BY <3>1, <3>2, SumType
  <2>4. A + k - S = InAccounts(balance, savings, s) - supply[s]
    OBVIOUS
  <2>5. InConversions(conversions \cup {c}, s) = InConversions(conversions, s) + k
    BY <1>3, ConversionRows
  <2>6. /\ InAccounts(balance, savings, s) \in Int /\ InOrders(orders, s) \in Int
        /\ InEscrows(escrows, s) \in Int /\ InWithdrawals(withdrawals, s) \in Int
        /\ InConversions(conversions, s) \in Int
    BY SumsAreIntegers
  <2>7. S = A + InOrders(orders, s) + InEscrows(escrows, s) + InWithdrawals(withdrawals, s)
            + InConversions(conversions \cup {c}, s)
    <3>1. S = A + k + supply[s] - InAccounts(balance, savings, s)
      <4> HIDE DEF A, k, S
      <4> QED  BY <2>2, <2>3, <2>4, <2>6
    <3> HIDE DEF A, k, S
    <3> QED  BY <2>1, <2>2, <2>3, <2>5, <2>6, <3>1
  <2>8. InAccounts(balance', savings', s) = A
    OBVIOUS
  <2>9. /\ orders' = orders /\ escrows' = escrows /\ withdrawals' = withdrawals
        /\ conversions' = conversions \cup {c}
    BY <1>1
  <2> QED  BY <2>7, <2>8, <2>9
<1> QED  BY <1>2, <1>4, <1>5, <1>6 DEF IInv

\* convert.
LEMMA ConvertStep ==
  ASSUME IInv, NEW a \in Account, NEW id \in RequestId, NEW n \in Sizes, convert(a, id, n)
  PROVE  IInv'
<1> DEFINE m == Coins("HBD", n)
           c == [kind |-> "plain", owner |-> a, id |-> id, held |-> n, converted |-> 0,
                 date |-> now + ConversionDelay]
<1>1. /\ Has(balance, a, m) /\ Unused("plain", a, id) /\ balance' = Take(balance, a, m)
      /\ conversions' = conversions \cup {c} /\ NoTrade /\ supply' = supply
      /\ UNCHANGED <<savings, accrual, escrows, escrowCount, withdrawals, requests, now, feed>>
  BY DEF convert, Opening
<1>2. balance \in Purse /\ savings \in Purse /\ supply \in [Symbol -> Int] /\ now \in Nat
  BY DEF IInv, BalancesOK, ClockOK
<1>3. n \in Nat \ {0} /\ ConversionDelay \in Nat
  BY LedgerAssumption
<1>4. m \in [Symbol -> Nat]
  BY <1>3, CoinsType DEF Symbol
<1>5. c \in Conversion /\ c \notin conversions
  <2>1. c \in Conversion
    BY <1>2, <1>3 DEF Conversion
  <2>2. c.kind = "plain" /\ c.owner = a /\ c.id = id
    OBVIOUS
  <2> QED  BY <1>1, <2>1, <2>2 DEF Unused
<1>6. \A s \in Symbol : InConversion(c, s) = m[s]
  BY DEF InConversion
<1> HIDE DEF c, m
<1>7. balance' \in Purse
  BY <1>1, <1>2, <1>4, PurseKept
<1>8. ASSUME NEW s \in Symbol
      PROVE  InAccounts(balance', savings, s) + InConversion(c, s) - supply'[s]
             = InAccounts(balance, savings, s) - supply[s]
  <2>1. InAccounts(Take(balance, a, m), savings, s) = InAccounts(balance, savings, s) - m[s]
    BY <1>2, <1>4, PurseSums
  <2>2. m[s] \in Int /\ supply[s] \in Int
    BY <1>2, <1>4
  <2> QED  BY <1>1, <1>6, <2>1, <2>2, SumsAreIntegers
<1>9. supply' \in [Symbol -> Int]
  BY <1>1, <1>2
<1> QED  BY <1>1, <1>5, <1>7, <1>8, <1>9, ConversionFrame

\* collateralized_convert: HBD is printed at once, HIVE held.
LEMMA CollateralStep ==
  ASSUME IInv, NEW a \in Account, NEW id \in RequestId, NEW n \in Sizes,
         collateralized_convert(a, id, n)
  PROVE  IInv'
<1> DEFINE printed == HbdFor((n * Percent100) \div CollateralRatio, feed)
           m == Coins("HIVE", n)
           p == Coins("HBD", printed)
           c == [kind |-> "collateral", owner |-> a, id |-> id, held |-> n,
                 converted |-> printed, date |-> now + ConversionDelay]
<1>1. /\ Has(balance, a, m) /\ printed > 0 /\ Unused("collateral", a, id)
      /\ balance' = Add(Take(balance, a, m), a, p)
      /\ supply' = [supply EXCEPT !["HBD"] = @ + printed]
      /\ conversions' = conversions \cup {c} /\ NoTrade
      /\ UNCHANGED <<savings, accrual, escrows, escrowCount, withdrawals, requests, now, feed>>
  BY DEF collateralized_convert, Opening
<1>2. balance \in Purse /\ savings \in Purse /\ supply \in [Symbol -> Int] /\ now \in Nat
      /\ feed \in Feeds
  BY DEF IInv, BalancesOK, ClockOK
<1>3. n \in Nat \ {0} /\ ConversionDelay \in Nat
  BY LedgerAssumption
<1>4. printed \in Nat
  <2>1. /\ feed.hbd \in Nat /\ feed.hive \in Nat \ {0} /\ Percent100 \in Nat \ {0}
        /\ CollateralRatio \in Nat \ {0} /\ ConversionFee \in Nat
    BY <1>2, LedgerAssumption
  <2>2. n * Percent100 \in Nat
    BY <1>3, <2>1
  <2> DEFINE k == (n * Percent100) \div CollateralRatio
  <2>3. k \in Nat
    BY <2>1, <2>2, Division
  <2> HIDE DEF k
  <2>4. k * feed.hbd \in Nat /\ Percent100 + ConversionFee \in Nat \ {0}
    BY <2>1, <2>3
  <2>5. (k * feed.hbd) * Percent100 \in Nat
        /\ feed.hive * (Percent100 + ConversionFee) \in Nat \ {0}
    BY <2>1, <2>4
  <2>6. HbdFor(k, feed) \in Nat
    BY <2>5, Division DEF HbdFor
  <2> QED  BY <2>6 DEF k
<1> HIDE DEF printed
<1>5. m \in [Symbol -> Nat] /\ p \in [Symbol -> Nat]
  BY <1>3, <1>4, CoinsType DEF Symbol
<1>6. c \in Conversion /\ c \notin conversions
  <2>1. c \in Conversion
    BY <1>2, <1>3, <1>4 DEF Conversion
  <2>2. c.kind = "collateral" /\ c.owner = a /\ c.id = id
    OBVIOUS
  <2> QED  BY <1>1, <2>1, <2>2 DEF Unused
<1>7. \A s \in Symbol : InConversion(c, s) = m[s]
  BY DEF InConversion
<1>8. \A s \in Symbol : supply'[s] = supply[s] + p[s]
  BY <1>1, <1>2, <1>4 DEF Coins, Symbol
<1>9. supply' \in [Symbol -> Int]
  BY <1>1, <1>2, <1>4 DEF Symbol
<1> HIDE DEF c, m, p
<1> DEFINE b == Take(balance, a, m)
<1>10. b \in Purse
  BY <1>1, <1>2, <1>5, PurseKept
<1>11. \A s \in Symbol : InAccounts(b, savings, s) = InAccounts(balance, savings, s) - m[s]
  BY <1>2, <1>5, PurseSums
<1>12. balance' = Add(b, a, p)
  BY <1>1
<1> HIDE DEF b
<1>13. balance' \in Purse
  BY <1>5, <1>10, <1>12, PurseKept
<1>14. ASSUME NEW s \in Symbol
       PROVE  InAccounts(balance', savings, s) + InConversion(c, s) - supply'[s]
              = InAccounts(balance, savings, s) - supply[s]
  <2>1. InAccounts(Add(b, a, p), savings, s) = InAccounts(b, savings, s) + p[s]
    BY <1>2, <1>5, <1>10, PurseSums
  <2>2. m[s] \in Int /\ supply[s] \in Int /\ p[s] \in Int
    BY <1>2, <1>5
  <2>3. InAccounts(balance', savings, s) = InAccounts(balance, savings, s) - m[s] + p[s]
    BY <1>11, <1>12, <2>1
  <2> QED  BY <1>7, <1>8, <2>2, <2>3, SumsAreIntegers
<1> QED  BY <1>1, <1>6, <1>9, <1>13, <1>14, ConversionFrame


------------------------------------------------------------------------------
(* A block. *)

\* What an account gets back of rows that are due, and what conversions pay.
Pays(c, price, s) == Coins("HIVE", Gets(c, price))[s]
OrderShare(S, a, s) == SumFunction([o \in {x \in S : x.seller = a} |-> InOrder(o, s)])
PayShare(S, price, a, s) == SumFunction([c \in {x \in S : x.owner = a} |-> Pays(c, price, s)])
WithdrawalShare(S, a, s) == SumFunction([w \in {x \in S : x.to = a} |-> w.amount[s]])
EscrowShare(S, a, s) == SumFunction([e \in {x \in S : x.from = a} |-> Held(e)[s]])
InPays(S, price, s) == SumFunction([c \in S |-> Pays(c, price, s)])
Changes(S, price, s) == SumFunction([c \in S |-> SupplyChange(c, price)[s]])

\* Rows divided among their owners: the shares add up to what the rows hold.
LEMMA Divided ==
  ASSUME NEW S, IsFiniteSet(S), NEW own \in [S -> Account], NEW f \in [S -> Nat],
         NEW d, d = [a \in Account |-> d[a]],
         \A a \in Account : d[a] = SumFunction([x \in {y \in S : own[y] = a} |-> f[x]])
  PROVE  d \in [Account -> Nat] /\ d \in [Account -> Int] /\ SumFunction(d) = SumFunction(f)
<1>1. ASSUME NEW a \in Account
      PROVE  SumFunction([x \in {y \in S : own[y] = a} |-> f[x]]) \in Nat
  <2> DEFINE T == {y \in S : own[y] = a}
             e == [x \in T |-> f[x]]
  <2>1. IsFiniteSet(T)
    BY FS_Subset
  <2>2. e \in [T -> Int] /\ \A x \in T : e[x] \in Nat
    OBVIOUS
  <2> HIDE DEF T, e
  <2>3. SumFunction(e) \in Nat
    BY <2>1, <2>2, SumNat
  <2> QED  BY <2>3 DEF e, T
<1>2. d \in [Account -> Nat] /\ d \in [Account -> Int]
  <2>1. \A a \in Account : d[a] \in Nat
    BY <1>1, Zenon
  <2>2. \A e : e = [a \in Account |-> e[a]] /\ (\A a \in Account : e[a] \in Nat)
          => e \in [Account -> Nat] /\ e \in [Account -> Int]
    OBVIOUS
  <2> QED  BY <2>1, <2>2, Zenon
<1>3. f \in [S -> Int] /\ IsFiniteSet(Account)
  BY LedgerAssumption
<1>4. SumFunction(d) = SumFunction(f)
  BY <1>2, <1>3, SumByOwner
<1> QED  BY <1>2, <1>4

\* The shares of the orders that expired (clear_expired_orders).
LEMMA OrderShares ==
  ASSUME NEW s \in Symbol, NEW os \in SUBSET Order, IsFiniteSet(os)
  PROVE  /\ [a \in Account |-> OrderShare(os, a, s)] \in [Account -> Nat]
         /\ SumFunction([a \in Account |-> OrderShare(os, a, s)]) = InOrders(os, s)
<1> DEFINE own == [o \in os |-> o.seller]
           f == [o \in os |-> InOrder(o, s)]
           d == [a \in Account |-> OrderShare(os, a, s)]
<1>1. own \in [os -> Account] /\ f \in [os -> Nat]
  BY RowTypes DEF Order
<1>2. ASSUME NEW a \in Account
      PROVE  OrderShare(os, a, s) = SumFunction([x \in {y \in os : own[y] = a} |-> f[x]])
  <2>1. {y \in os : own[y] = a} = {x \in os : x.seller = a}
    OBVIOUS
  <2>2. [o \in {x \in os : x.seller = a} |-> InOrder(o, s)]
        = [o \in {x \in os : x.seller = a} |-> f[o]]
    OBVIOUS
  <2> QED  BY <2>1, <2>2 DEF OrderShare
<1>3. /\ d = [a \in Account |-> d[a]]
      /\ \A a \in Account : d[a] = SumFunction([x \in {y \in os : own[y] = a} |-> f[x]])
  BY <1>2
<1>4. SumFunction(f) = InOrders(os, s)
  BY DEF InOrders
<1> HIDE DEF own, f, d
<1>5. d \in [Account -> Nat] /\ SumFunction(d) = SumFunction(f)
  BY <1>1, <1>3, Divided
<1> QED  BY <1>4, <1>5 DEF d

\* What conversions pay (process_conversions).
LEMMA PayShares ==
  ASSUME NEW s \in Symbol, NEW price, NEW cs \in SUBSET Conversion, IsFiniteSet(cs),
         \A c \in cs : Pays(c, price, s) \in Nat
  PROVE  /\ [a \in Account |-> PayShare(cs, price, a, s)] \in [Account -> Nat]
         /\ SumFunction([a \in Account |-> PayShare(cs, price, a, s)]) = InPays(cs, price, s)
<1> DEFINE own == [c \in cs |-> c.owner]
           f == [c \in cs |-> Pays(c, price, s)]
           d == [a \in Account |-> PayShare(cs, price, a, s)]
<1>1. own \in [cs -> Account] /\ f \in [cs -> Nat]
  BY DEF Conversion
<1>2. ASSUME NEW a \in Account
      PROVE  PayShare(cs, price, a, s) = SumFunction([x \in {y \in cs : own[y] = a} |-> f[x]])
  <2>1. {y \in cs : own[y] = a} = {x \in cs : x.owner = a}
    OBVIOUS
  <2>2. [c \in {x \in cs : x.owner = a} |-> Pays(c, price, s)]
        = [c \in {x \in cs : x.owner = a} |-> f[c]]
    OBVIOUS
  <2> QED  BY <2>1, <2>2 DEF PayShare
<1>3. /\ d = [a \in Account |-> d[a]]
      /\ \A a \in Account : d[a] = SumFunction([x \in {y \in cs : own[y] = a} |-> f[x]])
  BY <1>2
<1>4. SumFunction(f) = InPays(cs, price, s)
  BY DEF InPays
<1> HIDE DEF own, f, d
<1>5. d \in [Account -> Nat] /\ SumFunction(d) = SumFunction(f)
  BY <1>1, <1>3, Divided
<1> QED  BY <1>4, <1>5 DEF d

\* The shares of withdrawals from savings (process_savings_withdraws).
LEMMA WithdrawalShares ==
  ASSUME NEW s \in Symbol, NEW ws \in SUBSET Withdrawal, IsFiniteSet(ws)
  PROVE  /\ [a \in Account |-> WithdrawalShare(ws, a, s)] \in [Account -> Nat]
         /\ SumFunction([a \in Account |-> WithdrawalShare(ws, a, s)]) = InWithdrawals(ws, s)
<1> DEFINE own == [w \in ws |-> w.to]
           f == [w \in ws |-> w.amount[s]]
           d == [a \in Account |-> WithdrawalShare(ws, a, s)]
<1>1. own \in [ws -> Account] /\ f \in [ws -> Nat]
  BY RowTypes DEF Withdrawal
<1>2. ASSUME NEW a \in Account
      PROVE  WithdrawalShare(ws, a, s) = SumFunction([x \in {y \in ws : own[y] = a} |-> f[x]])
  <2>1. {y \in ws : own[y] = a} = {x \in ws : x.to = a}
    OBVIOUS
  <2>2. [w \in {x \in ws : x.to = a} |-> w.amount[s]]
        = [w \in {x \in ws : x.to = a} |-> f[w]]
    OBVIOUS
  <2> QED  BY <2>1, <2>2 DEF WithdrawalShare
<1>3. /\ d = [a \in Account |-> d[a]]
      /\ \A a \in Account : d[a] = SumFunction([x \in {y \in ws : own[y] = a} |-> f[x]])
  BY <1>2
<1>4. SumFunction(f) = InWithdrawals(ws, s)
  BY DEF InWithdrawals
<1> HIDE DEF own, f, d
<1>5. d \in [Account -> Nat] /\ SumFunction(d) = SumFunction(f)
  BY <1>1, <1>3, Divided
<1> QED  BY <1>4, <1>5 DEF d

\* The shares of escrows (expire_escrow_ratification).
LEMMA EscrowShares ==
  ASSUME NEW s \in Symbol, NEW es \in SUBSET Escrow, IsFiniteSet(es)
  PROVE  /\ [a \in Account |-> EscrowShare(es, a, s)] \in [Account -> Nat]
         /\ SumFunction([a \in Account |-> EscrowShare(es, a, s)]) = InEscrows(es, s)
<1> DEFINE own == [e \in es |-> e.from]
           f == [e \in es |-> Held(e)[s]]
           d == [a \in Account |-> EscrowShare(es, a, s)]
<1>1. own \in [es -> Account]
  BY DEF Escrow
<1>2. f \in [es -> Nat]
  BY RowTypes
<1>3. ASSUME NEW a \in Account
      PROVE  EscrowShare(es, a, s) = SumFunction([x \in {y \in es : own[y] = a} |-> f[x]])
  <2>1. {y \in es : own[y] = a} = {x \in es : x.from = a}
    OBVIOUS
  <2>2. [e \in {x \in es : x.from = a} |-> Held(e)[s]]
        = [e \in {x \in es : x.from = a} |-> f[e]]
    OBVIOUS
  <2> QED  BY <2>1, <2>2 DEF EscrowShare
<1>4. /\ d = [a \in Account |-> d[a]]
      /\ \A a \in Account : d[a] = SumFunction([x \in {y \in es : own[y] = a} |-> f[x]])
  BY <1>3
<1>5. SumFunction(f) = InEscrows(es, s)
  BY DEF InEscrows
<1> HIDE DEF own, f, d
<1>6. d \in [Account -> Nat] /\ SumFunction(d) = SumFunction(f)
  BY <1>1, <1>2, <1>4, Divided
<1> QED  BY <1>5, <1>6 DEF d

FiveParts(S, d, f0, f1, f2, f3, f4) ==
  /\ {d, f0, f1, f2, f3, f4} \subseteq [S -> Int]
  /\ \A x \in S : d[x] = f0[x] + f1[x] + f2[x] + f3[x] + f4[x]

\* The sum of five functions.
LEMMA SumFive ==
  ASSUME NEW S, IsFiniteSet(S), NEW d, NEW f0, NEW f1, NEW f2, NEW f3, NEW f4,
         FiveParts(S, d, f0, f1, f2, f3, f4)
  PROVE  SumFunction(d) = SumFunction(f0) + SumFunction(f1) + SumFunction(f2)
                          + SumFunction(f3) + SumFunction(f4)
<1> DEFINE d1 == [x \in S |-> f0[x] + f1[x]]
           d2 == [x \in S |-> d1[x] + f2[x]]
           d3 == [x \in S |-> d2[x] + f3[x]]
<1>0. /\ d \in [S -> Int] /\ f0 \in [S -> Int] /\ f1 \in [S -> Int] /\ f2 \in [S -> Int]
      /\ f3 \in [S -> Int] /\ f4 \in [S -> Int]
      /\ \A x \in S : d[x] = f0[x] + f1[x] + f2[x] + f3[x] + f4[x]
  BY DEF FiveParts
<1>1. d1 \in [S -> Int] /\ \A x \in S : d1[x] = f0[x] + f1[x]
  BY <1>0
<1> HIDE DEF d1
<1>2. d2 \in [S -> Int] /\ \A x \in S : d2[x] = d1[x] + f2[x]
  BY <1>0, <1>1
<1> HIDE DEF d2
<1>3. d3 \in [S -> Int] /\ \A x \in S : d3[x] = d2[x] + f3[x]
  BY <1>0, <1>2
<1> HIDE DEF d3
<1>4. \A x \in S : d[x] = d3[x] + f4[x]
  BY <1>0, <1>1, <1>2, <1>3
<1>5. ASSUME NEW f \in [S -> Int], NEW e \in [S -> Int], NEW g \in [S -> Int],
             \A x \in S : g[x] = f[x] + e[x]
      PROVE  SumFunction(g) = SumFunction(f) + SumFunction(e)
  BY <1>5, SumPlus
<1>6. SumFunction(d1) = SumFunction(f0) + SumFunction(f1)
  BY <1>0, <1>1, <1>5, Zenon
<1>7. SumFunction(d2) = SumFunction(d1) + SumFunction(f2)
  BY <1>0, <1>1, <1>2, <1>5, SMTT(60)
<1>8. SumFunction(d3) = SumFunction(d2) + SumFunction(f3)
  BY <1>0, <1>2, <1>3, <1>5, SMTT(60)
<1>9. SumFunction(d) = SumFunction(d3) + SumFunction(f4)
  BY <1>0, <1>3, <1>4, <1>5, SMTT(60)
<1> QED  BY <1>6, <1>7, <1>8, <1>9

\* What a conversion pays is a natural number, and what it changes of a supply is
\* what it pays less what it held.
LEMMA ConversionPays ==
  ASSUME NEW c \in Conversion, NEW price \in Feeds, NEW s \in Symbol
  PROVE  /\ Pays(c, price, s) \in Nat /\ SupplyChange(c, price)[s] \in Int
         /\ Pays(c, price, s) = SupplyChange(c, price)[s] + InConversion(c, s)
<1>1. /\ c.kind \in {"plain", "collateral"} /\ c.held \in Nat /\ c.converted \in Nat
      /\ price.hive \in Nat /\ price.hbd \in Nat \ {0}
      /\ Percent100 \in Nat \ {0} /\ ConversionFee \in Nat
  BY LedgerAssumption DEF Conversion
<1>2. (c.held * price.hive) \div price.hbd \in Nat
  <2>1. c.held * price.hive \in Nat
    BY <1>1
  <2> QED  BY <1>1, <2>1, Division
<1>3. HiveFor(c.converted, price) \in Nat
  <2>1. /\ c.converted * price.hive \in Nat /\ Percent100 + ConversionFee \in Nat
        /\ price.hbd * Percent100 \in Nat \ {0}
    BY <1>1
  <2>2. (c.converted * price.hive) * (Percent100 + ConversionFee) \in Nat
    BY <2>1
  <2> QED  BY <2>1, <2>2, Division DEF HiveFor
<1>4. Gets(c, price) \in Nat
  BY <1>1, <1>2, <1>3 DEF Gets
<1>5. CASE c.kind = "plain"
  <2>1. SupplyChange(c, price)[s] = IF s = "HIVE" THEN Gets(c, price) ELSE -c.held
    BY <1>5 DEF SupplyChange
  <2>2. InConversion(c, s) = IF s = "HBD" THEN c.held ELSE 0
    BY <1>5 DEF InConversion, Coins
  <2>3. Pays(c, price, s) = IF s = "HIVE" THEN Gets(c, price) ELSE 0
    BY DEF Pays, Coins
  <2> QED  BY <1>1, <1>4, <2>1, <2>2, <2>3 DEF Symbol
<1>6. CASE c.kind # "plain"
  <2>1. SupplyChange(c, price)[s] = IF s = "HIVE" THEN Gets(c, price) - c.held ELSE 0
    BY <1>6 DEF SupplyChange, Coins
  <2>2. InConversion(c, s) = IF s = "HIVE" THEN c.held ELSE 0
    BY <1>6 DEF InConversion, Coins
  <2>3. Pays(c, price, s) = IF s = "HIVE" THEN Gets(c, price) ELSE 0
    BY DEF Pays, Coins
  <2> QED  BY <1>1, <1>4, <2>1, <2>2, <2>3 DEF Symbol
<1> QED  BY <1>5, <1>6

\* The supplies change by what the conversions pay less what they held.
LEMMA ChangesAre ==
  ASSUME NEW cs \in SUBSET Conversion, IsFiniteSet(cs), NEW price \in Feeds, NEW s \in Symbol
  PROVE  /\ Changes(cs, price, s) \in Int /\ InPays(cs, price, s) \in Int
         /\ InPays(cs, price, s) = Changes(cs, price, s) + InConversions(cs, s)
<1> DEFINE d == [c \in cs |-> Pays(c, price, s)]
           f == [c \in cs |-> SupplyChange(c, price)[s]]
           e == [c \in cs |-> InConversion(c, s)]
<1>1. d \in [cs -> Int] /\ f \in [cs -> Int] /\ e \in [cs -> Int]
  BY ConversionPays, RowTypes
<1>2. \A c \in cs : d[c] = f[c] + e[c]
  BY ConversionPays
<1>3. /\ InPays(cs, price, s) = SumFunction(d) /\ Changes(cs, price, s) = SumFunction(f)
      /\ InConversions(cs, s) = SumFunction(e)
  BY DEF InPays, Changes, InConversions
<1> HIDE DEF d, f, e
<1> QED  BY <1>1, <1>2, <1>3, SumPlus, SumType

\* Rows taken from the tables.
LEMMA RowsTaken ==
  ASSUME IInv, NEW s \in Symbol, NEW os \in SUBSET orders, NEW es \in SUBSET escrows,
         NEW ws \in SUBSET withdrawals, NEW cs \in SUBSET conversions
  PROVE  /\ InOrders(orders \ os, s) = InOrders(orders, s) - InOrders(os, s)
         /\ InEscrows(escrows \ es, s) = InEscrows(escrows, s) - InEscrows(es, s)
         /\ InWithdrawals(withdrawals \ ws, s) = InWithdrawals(withdrawals, s) - InWithdrawals(ws, s)
         /\ InConversions(conversions \ cs, s) = InConversions(conversions, s) - InConversions(cs, s)
<1>1. /\ orders \in SUBSET Order /\ IsFiniteSet(orders)
      /\ escrows \in SUBSET Escrow /\ IsFiniteSet(escrows)
      /\ withdrawals \in SUBSET Withdrawal /\ IsFiniteSet(withdrawals)
      /\ conversions \in SUBSET Conversion /\ IsFiniteSet(conversions)
  BY DEF IInv, MarketInv, OrdersOK, Book, EscrowInv, EscrowTable, WithdrawalInv, WithdrawalTable,
         ConversionsOK
<1>2. ASSUME NEW U, NEW f \in [U -> Int], NEW S \in SUBSET U, IsFiniteSet(S), NEW T \in SUBSET S
      PROVE  Rows(f, S \ T) = Rows(f, S) - Rows(f, T)
  BY <1>2, RowsChange
<1>3. InOrders(orders \ os, s) = InOrders(orders, s) - InOrders(os, s)
  <2>1. OrderValue(s) \in [Order -> Int] /\ os \in SUBSET Order /\ orders \ os \in SUBSET Order
    BY <1>1, TableSums
  <2>2. Rows(OrderValue(s), orders \ os) = Rows(OrderValue(s), orders) - Rows(OrderValue(s), os)
    BY <1>1, <1>2, <2>1
  <2> QED  BY <1>1, <2>1, <2>2, TableSums
<1>4. InEscrows(escrows \ es, s) = InEscrows(escrows, s) - InEscrows(es, s)
  <2>1. EscrowValue(s) \in [Escrow -> Int] /\ es \in SUBSET Escrow /\ escrows \ es \in SUBSET Escrow
    BY <1>1, TableSums
  <2>2. Rows(EscrowValue(s), escrows \ es) = Rows(EscrowValue(s), escrows) - Rows(EscrowValue(s), es)
    BY <1>1, <1>2, <2>1
  <2> QED  BY <1>1, <2>1, <2>2, TableSums
<1>5. InWithdrawals(withdrawals \ ws, s) = InWithdrawals(withdrawals, s) - InWithdrawals(ws, s)
  <2>1. WithdrawalValue(s) \in [Withdrawal -> Int] /\ ws \in SUBSET Withdrawal
        /\ withdrawals \ ws \in SUBSET Withdrawal
    BY <1>1, TableSums
  <2>2. Rows(WithdrawalValue(s), withdrawals \ ws)
        = Rows(WithdrawalValue(s), withdrawals) - Rows(WithdrawalValue(s), ws)
    BY <1>1, <1>2, <2>1
  <2> QED  BY <1>1, <2>1, <2>2, TableSums
<1>6. InConversions(conversions \ cs, s) = InConversions(conversions, s) - InConversions(cs, s)
  <2>1. ConversionValue(s) \in [Conversion -> Int] /\ cs \in SUBSET Conversion
        /\ conversions \ cs \in SUBSET Conversion
    BY <1>1, TableSums
  <2>2. Rows(ConversionValue(s), conversions \ cs)
        = Rows(ConversionValue(s), conversions) - Rows(ConversionValue(s), cs)
    BY <1>1, <1>2, <2>1
  <2> QED  BY <1>1, <2>1, <2>2, TableSums
<1> QED  BY <1>3, <1>4, <1>5, <1>6

\* What is due in the next block.
DueOrders == clear_expired_orders(now + 1)
DueConversions == process_conversions(now + 1)
DueWithdrawals == process_savings_withdraws(now + 1)
DueEscrows == expire_escrow_ratification(now + 1)
Returned(a, s, price) ==
  OrderShare(DueOrders, a, s) + PayShare(DueConversions, price, a, s)
  + WithdrawalShare(DueWithdrawals, a, s) + EscrowShare(DueEscrows, a, s)

\* A block, with its sums named.
LEMMA BlockIs ==
  ASSUME Block
  PROVE  /\ now' = now + 1 /\ feed' \in Feeds /\ fills' = <<>>
         /\ balance' = [a \in Account |->
                          [s \in Symbol |-> balance[a][s] + Returned(a, s, feed')]]
         /\ supply' = [s \in Symbol |-> supply[s] + Changes(DueConversions, feed', s)]
         /\ orders' = orders \ DueOrders /\ conversions' = conversions \ DueConversions
         /\ withdrawals' = withdrawals \ DueWithdrawals /\ escrows' = escrows \ DueEscrows
         /\ requests' = [a \in Account |-> requests[a] - CountOf(DueWithdrawals, a)]
         /\ escrowCount' = [a \in Account |-> escrowCount[a] - CountOf(DueEscrows, a)]
         /\ UNCHANGED <<savings, accrual, nextId>>
  BY DEF Block, Total, DueOrders, DueConversions, DueWithdrawals, DueEscrows, Returned, Changes,
         CountOf, OrderShare, PayShare, WithdrawalShare, EscrowShare, Pays, InOrder

\* What is due is part of each table.
LEMMA DueRows ==
  ASSUME IInv
  PROVE  /\ DueOrders \in SUBSET orders /\ DueOrders \in SUBSET Order /\ IsFiniteSet(DueOrders)
         /\ DueConversions \in SUBSET conversions /\ DueConversions \in SUBSET Conversion
         /\ IsFiniteSet(DueConversions)
         /\ DueWithdrawals \in SUBSET withdrawals /\ DueWithdrawals \in SUBSET Withdrawal
         /\ IsFiniteSet(DueWithdrawals)
         /\ DueEscrows \in SUBSET escrows /\ DueEscrows \in SUBSET Escrow /\ IsFiniteSet(DueEscrows)
<1>1. /\ orders \in SUBSET Order /\ IsFiniteSet(orders)
      /\ escrows \in SUBSET Escrow /\ IsFiniteSet(escrows)
      /\ withdrawals \in SUBSET Withdrawal /\ IsFiniteSet(withdrawals)
      /\ conversions \in SUBSET Conversion /\ IsFiniteSet(conversions)
  BY DEF IInv, MarketInv, OrdersOK, Book, EscrowInv, EscrowTable, WithdrawalInv, WithdrawalTable,
         ConversionsOK
<1>2. /\ DueOrders \subseteq orders /\ DueConversions \subseteq conversions
      /\ DueWithdrawals \subseteq withdrawals /\ DueEscrows \subseteq escrows
  BY DEF DueOrders, DueConversions, DueWithdrawals, DueEscrows, clear_expired_orders,
         process_conversions, process_savings_withdraws, expire_escrow_ratification
<1> QED  BY <1>1, <1>2, FS_Subset

\* What all accounts have after a block: what they had and what is due.
LEMMA AccountsAfter ==
  ASSUME IInv, NEW price \in Feeds, NEW b,
         b = [a \in Account |-> [s \in Symbol |-> balance[a][s] + Returned(a, s, price)]]
  PROVE  /\ b \in Purse
         /\ \A s \in Symbol :
              InAccounts(b, savings, s)
              = InAccounts(balance, savings, s) + InOrders(DueOrders, s)
                + InPays(DueConversions, price, s) + InWithdrawals(DueWithdrawals, s)
                + InEscrows(DueEscrows, s)
<1> DEFINE f1(s) == [a \in Account |-> OrderShare(DueOrders, a, s)]
           f2(s) == [a \in Account |-> PayShare(DueConversions, price, a, s)]
           f3(s) == [a \in Account |-> WithdrawalShare(DueWithdrawals, a, s)]
           f4(s) == [a \in Account |-> EscrowShare(DueEscrows, a, s)]
<1>1. ASSUME NEW s \in Symbol
      PROVE  /\ f1(s) \in [Account -> Nat] /\ SumFunction(f1(s)) = InOrders(DueOrders, s)
             /\ f2(s) \in [Account -> Nat]
             /\ SumFunction(f2(s)) = InPays(DueConversions, price, s)
             /\ f3(s) \in [Account -> Nat] /\ SumFunction(f3(s)) = InWithdrawals(DueWithdrawals, s)
             /\ f4(s) \in [Account -> Nat] /\ SumFunction(f4(s)) = InEscrows(DueEscrows, s)
  <2>1. \A c \in DueConversions : Pays(c, price, s) \in Nat
    BY DueRows, ConversionPays
  <2>2. /\ DueOrders \in SUBSET Order /\ IsFiniteSet(DueOrders)
        /\ DueConversions \in SUBSET Conversion /\ IsFiniteSet(DueConversions)
        /\ DueWithdrawals \in SUBSET Withdrawal /\ IsFiniteSet(DueWithdrawals)
        /\ DueEscrows \in SUBSET Escrow /\ IsFiniteSet(DueEscrows)
    BY DueRows
  <2>3. f1(s) \in [Account -> Nat] /\ SumFunction(f1(s)) = InOrders(DueOrders, s)
    BY <2>2, OrderShares
  <2>4. f2(s) \in [Account -> Nat] /\ SumFunction(f2(s)) = InPays(DueConversions, price, s)
    BY <2>1, <2>2, PayShares
  <2>5. f3(s) \in [Account -> Nat] /\ SumFunction(f3(s)) = InWithdrawals(DueWithdrawals, s)
    BY <2>2, WithdrawalShares
  <2>6. f4(s) \in [Account -> Nat] /\ SumFunction(f4(s)) = InEscrows(DueEscrows, s)
    BY <2>2, EscrowShares
  <2> QED  BY <2>3, <2>4, <2>5, <2>6
<1>2. ASSUME NEW s \in Symbol, NEW a \in Account
      PROVE  Returned(a, s, price) = f1(s)[a] + f2(s)[a] + f3(s)[a] + f4(s)[a]
  BY DEF Returned
<1> HIDE DEF f1, f2, f3, f4
<1>3. ASSUME NEW s \in Symbol, NEW a \in Account
      PROVE  /\ f1(s)[a] \in Nat /\ f2(s)[a] \in Nat /\ f3(s)[a] \in Nat /\ f4(s)[a] \in Nat
             /\ balance[a][s] \in Nat /\ savings[a][s] \in Nat
  BY <1>1 DEF IInv, BalancesOK, Purse
<1>4. ASSUME NEW a \in Account, NEW s \in Symbol
      PROVE  b[a][s] = balance[a][s] + (f1(s)[a] + f2(s)[a] + f3(s)[a] + f4(s)[a])
  BY <1>2
<1>5. b \in Purse
  <2>1. \A a \in Account, s \in Symbol : balance[a][s] + Returned(a, s, price) \in Nat
    BY <1>2, <1>3
  <2> QED  BY <2>1 DEF Purse
<1>6. ASSUME NEW s \in Symbol
      PROVE  InAccounts(b, savings, s)
             = InAccounts(balance, savings, s) + InOrders(DueOrders, s)
               + InPays(DueConversions, price, s) + InWithdrawals(DueWithdrawals, s)
               + InEscrows(DueEscrows, s)
  <2> DEFINE f0 == [a \in Account |-> balance[a][s] + savings[a][s]]
             d == [a \in Account |-> b[a][s] + savings[a][s]]
             g1 == f1(s)
             g2 == f2(s)
             g3 == f3(s)
             g4 == f4(s)
  <2>1. f0 \in [Account -> Int]
    BY <1>3
  <2>2. d \in [Account -> Int]
    BY <1>3, <1>5 DEF Purse
  <2>3. /\ g1 \in [Account -> Int] /\ g2 \in [Account -> Int] /\ g3 \in [Account -> Int]
        /\ g4 \in [Account -> Int]
    BY <1>1
  <2>4. ASSUME NEW a \in Account PROVE d[a] = f0[a] + g1[a] + g2[a] + g3[a] + g4[a]
    <3>1. /\ d[a] = b[a][s] + savings[a][s] /\ f0[a] = balance[a][s] + savings[a][s]
          /\ b[a][s] = balance[a][s] + (g1[a] + g2[a] + g3[a] + g4[a])
      BY <1>4
    <3>2. /\ g1[a] \in Nat /\ g2[a] \in Nat /\ g3[a] \in Nat /\ g4[a] \in Nat
          /\ balance[a][s] \in Nat /\ savings[a][s] \in Nat
      BY <1>3
    <3> HIDE DEF d, f0, g1, g2, g3, g4
    <3> QED  BY <3>1, <3>2
  <2>5. /\ InAccounts(b, savings, s) = SumFunction(d)
        /\ InAccounts(balance, savings, s) = SumFunction(f0)
    BY DEF InAccounts
  <2>6. IsFiniteSet(Account)
    BY LedgerAssumption
  <2>7. /\ SumFunction(g1) = InOrders(DueOrders, s)
        /\ SumFunction(g2) = InPays(DueConversions, price, s)
        /\ SumFunction(g3) = InWithdrawals(DueWithdrawals, s)
        /\ SumFunction(g4) = InEscrows(DueEscrows, s)
    BY <1>1
  <2> HIDE DEF d, f0, g1, g2, g3, g4
  <2>8. FiveParts(Account, d, f0, g1, g2, g3, g4)
    BY <2>1, <2>2, <2>3, <2>4 DEF FiveParts
  <2>9. SumFunction(d) = SumFunction(f0) + SumFunction(g1) + SumFunction(g2) + SumFunction(g3)
                         + SumFunction(g4)
    BY <2>6, <2>8, SumFive
  <2> QED  BY <2>5, <2>7, <2>9
<1> QED  BY <1>5, <1>6

\* A block: what is due goes back, and the supplies follow the conversions.
LEMMA BlockStep ==
  ASSUME IInv, Block
  PROVE  IInv'
<1> DEFINE price == feed'
           b == balance'
<1>1. /\ now' = now + 1 /\ price \in Feeds /\ fills' = <<>>
      /\ b = [a \in Account |-> [s \in Symbol |-> balance[a][s] + Returned(a, s, price)]]
      /\ supply' = [s \in Symbol |-> supply[s] + Changes(DueConversions, price, s)]
      /\ orders' = orders \ DueOrders /\ conversions' = conversions \ DueConversions
      /\ withdrawals' = withdrawals \ DueWithdrawals /\ escrows' = escrows \ DueEscrows
      /\ requests' = [a \in Account |-> requests[a] - CountOf(DueWithdrawals, a)]
      /\ escrowCount' = [a \in Account |-> escrowCount[a] - CountOf(DueEscrows, a)]
      /\ UNCHANGED <<savings, accrual, nextId>>
  BY BlockIs
<1>2. /\ BalancesOK /\ AccrualOK /\ ClockOK /\ OrdersOK /\ BookSettled
      /\ EscrowInv /\ WithdrawalInv /\ ConversionsOK
  BY DEF IInv, MarketInv
<1>3. /\ b \in Purse
      /\ \A s \in Symbol :
           InAccounts(b, savings, s)
           = InAccounts(balance, savings, s) + InOrders(DueOrders, s)
             + InPays(DueConversions, price, s) + InWithdrawals(DueWithdrawals, s)
             + InEscrows(DueEscrows, s)
  <2> HIDE DEF price, b
  <2> QED  BY <1>1, AccountsAfter
<1>4. \A s \in Symbol :
        /\ Changes(DueConversions, price, s) \in Int /\ InPays(DueConversions, price, s) \in Int
        /\ InPays(DueConversions, price, s)
           = Changes(DueConversions, price, s) + InConversions(DueConversions, s)
  <2> HIDE DEF price
  <2> QED  BY <1>1, DueRows, ChangesAre
<1>5. BalancesOK'
  BY <1>1, <1>2, <1>3, <1>4 DEF BalancesOK
<1>6. AccrualOK' /\ ClockOK'
  <2>1. 0 .. now \subseteq 0 .. now + 1 /\ now + 1 \in Nat
    BY <1>2 DEF ClockOK
  <2>2. accrual' \in [Account -> [seconds : Nat, updated : 0 .. now + 1, paid : 0 .. now + 1]]
    <3>1. \A R, S : R \subseteq S => [seconds : Nat, updated : R, paid : R]
                                       \subseteq [seconds : Nat, updated : S, paid : S]
      OBVIOUS
    <3>2. \A a \in Account : accrual[a] \in [seconds : Nat, updated : 0 .. now, paid : 0 .. now]
      BY <1>2 DEF AccrualOK
    <3>3. \A a \in Account :
            accrual[a] \in [seconds : Nat, updated : 0 .. now + 1, paid : 0 .. now + 1]
      BY <2>1, <3>1, <3>2
    <3> QED  BY <1>1, <1>2, <3>3 DEF AccrualOK
  <2> QED  BY <1>1, <1>2, <2>1, <2>2 DEF AccrualOK, ClockOK
<1>7. MarketInv'
  <2>1. IsFiniteSet(orders \ DueOrders)
    BY <1>2, FS_Difference DEF OrdersOK, Book
  <2>2. OrdersOK'
    BY <1>1, <1>2, <2>1 DEF OrdersOK, Book
  <2>3. BookSettled'
    BY <1>1, <1>2 DEF BookSettled
  <2>4. FillsFair'
    BY <1>1 DEF FillsFair
  <2> QED  BY <2>2, <2>3, <2>4 DEF MarketInv
<1>8. EscrowInv'
  <2>1. EscrowTable(escrows')
    BY <1>1, <1>2, EscrowTableKept DEF EscrowInv
  <2>2. ASSUME NEW e \in escrows' PROVE Ratified(e, now')
    <3>1. e \in escrows /\ Ratified(e, now) /\ e.deadline \in Nat /\ e \notin DueEscrows
      BY <1>1, <1>2 DEF EscrowInv, EscrowTable, Escrow
    <3>2. ~is_approved(e) => ~(e.deadline <= now + 1)
      BY <3>1 DEF DueEscrows, expire_escrow_ratification
    <3>3. ~is_approved(e) => e.deadline > now + 1
      BY <1>2, <3>1, <3>2 DEF ClockOK
    <3> QED  BY <1>1, <3>1, <3>3 DEF Ratified
  <2>3. ASSUME NEW a \in Account
        PROVE  /\ escrowCount'[a] = CountOf(escrows', a) /\ escrowCount'[a] \in 0 .. MaxPending
    <3>1. IsFiniteSet(escrows) /\ IsFiniteSet(DueEscrows) /\ escrows \cap DueEscrows = DueEscrows
          /\ IsFiniteSet(escrows')
      BY <1>1, <1>2, DueRows, FS_Difference DEF EscrowInv, EscrowTable
    <3>2. CountOf(escrows \ DueEscrows, a) = CountOf(escrows, a) - CountOf(DueEscrows, a)
      <4>1. IsFiniteSet(escrows) /\ DueEscrows \subseteq escrows
        BY <3>1
      <4> QED  BY <4>1, CountWithout
    <3>3. CountOf(escrows', a) \in Nat /\ CountOf(DueEscrows, a) \in Nat
      BY <3>1, CountRows
    <3>4. /\ escrowCount'[a] = escrowCount[a] - CountOf(DueEscrows, a)
          /\ escrowCount[a] = CountOf(escrows, a) /\ escrowCount[a] \in 0 .. MaxPending
          /\ MaxPending \in Nat
      BY <1>1, <1>2, LedgerAssumption DEF EscrowInv
    <3>5. escrowCount'[a] = CountOf(escrows', a)
      BY <1>1, <3>2, <3>4
    <3> QED  BY <3>3, <3>4, <3>5
  <2>4. escrowCount' \in [Account -> 0 .. MaxPending]
    BY <1>1, <2>3
  <2> QED  BY <2>1, <2>2, <2>3, <2>4 DEF EscrowInv
<1>9. WithdrawalInv'
  <2>1. WithdrawalTable(withdrawals')
    BY <1>1, <1>2, FS_Difference DEF WithdrawalInv, WithdrawalTable
  <2>2. ASSUME NEW a \in Account
        PROVE  /\ requests'[a] = CountOf(withdrawals', a) /\ requests'[a] \in 0 .. MaxRequests
    <3>1. IsFiniteSet(withdrawals) /\ IsFiniteSet(DueWithdrawals)
          /\ withdrawals \cap DueWithdrawals = DueWithdrawals /\ IsFiniteSet(withdrawals')
      BY <1>1, <1>2, DueRows, FS_Difference DEF WithdrawalInv, WithdrawalTable
    <3>2. CountOf(withdrawals \ DueWithdrawals, a)
          = CountOf(withdrawals, a) - CountOf(DueWithdrawals, a)
      <4>1. IsFiniteSet(withdrawals) /\ DueWithdrawals \subseteq withdrawals
        BY <3>1
      <4> QED  BY <4>1, CountWithout
    <3>3. CountOf(withdrawals', a) \in Nat /\ CountOf(DueWithdrawals, a) \in Nat
      BY <3>1, CountRows
    <3>4. /\ requests'[a] = requests[a] - CountOf(DueWithdrawals, a)
          /\ requests[a] = CountOf(withdrawals, a) /\ requests[a] \in 0 .. MaxRequests
          /\ MaxRequests \in Nat
      BY <1>1, <1>2, LedgerAssumption DEF WithdrawalInv
    <3>5. requests'[a] = CountOf(withdrawals', a)
      BY <1>1, <3>2, <3>4
    <3> QED  BY <3>3, <3>4, <3>5
  <2>3. requests' \in [Account -> 0 .. MaxRequests]
    BY <1>1, <2>2
  <2> QED  BY <2>1, <2>2, <2>3 DEF WithdrawalInv
<1>10. ConversionsOK'
  BY <1>1, <1>2, FS_Difference DEF ConversionsOK
<1>11. Exact'
  <2> SUFFICES ASSUME NEW s \in Symbol
               PROVE  supply'[s] = InAccounts(balance', savings', s) + InOrders(orders', s)
                        + InEscrows(escrows', s) + InWithdrawals(withdrawals', s)
                        + InConversions(conversions', s)
    BY DEF Exact
  <2> DEFINE o == InOrders(DueOrders, s)
             e == InEscrows(DueEscrows, s)
             w == InWithdrawals(DueWithdrawals, s)
             c == InConversions(DueConversions, s)
             k == Changes(DueConversions, price, s)
             p == InPays(DueConversions, price, s)
  <2>1. o \in Int /\ e \in Int /\ w \in Int /\ c \in Int /\ k \in Int /\ p \in Int /\ p = k + c
    BY <1>4, DueRows, OrderRows, EscrowRows, WithdrawalRows, ConversionRows
  <2>2. /\ InOrders(orders \ DueOrders, s) = InOrders(orders, s) - o
        /\ InEscrows(escrows \ DueEscrows, s) = InEscrows(escrows, s) - e
        /\ InWithdrawals(withdrawals \ DueWithdrawals, s) = InWithdrawals(withdrawals, s) - w
        /\ InConversions(conversions \ DueConversions, s) = InConversions(conversions, s) - c
    BY DueRows, RowsTaken
  <2>3. InAccounts(b, savings, s) = InAccounts(balance, savings, s) + o + p + w + e
    BY <1>3
  <2>4. supply'[s] = supply[s] + k
    BY <1>1
  <2>5. supply[s] = InAccounts(balance, savings, s) + InOrders(orders, s)
                    + InEscrows(escrows, s) + InWithdrawals(withdrawals, s)
                    + InConversions(conversions, s)
    BY DEF IInv, Exact
  <2>6. /\ InAccounts(balance, savings, s) \in Int /\ InOrders(orders, s) \in Int
        /\ InEscrows(escrows, s) \in Int /\ InWithdrawals(withdrawals, s) \in Int
        /\ InConversions(conversions, s) \in Int
    BY SumsAreIntegers
  <2>7. InAccounts(balance', savings', s) = InAccounts(b, savings, s)
    BY <1>1
  <2> HIDE DEF o, e, w, c, k, p
  <2>8. supply[s] + k
        = (InAccounts(balance, savings, s) + o + p + w + e) + (InOrders(orders, s) - o)
          + (InEscrows(escrows, s) - e) + (InWithdrawals(withdrawals, s) - w)
          + (InConversions(conversions, s) - c)
    BY <2>1, <2>5, <2>6
  <2> QED  BY <1>1, <2>2, <2>3, <2>4, <2>7, <2>8
<1> QED  BY <1>5, <1>6, <1>7, <1>8, <1>9, <1>10, <1>11 DEF IInv


------------------------------------------------------------------------------
(* The theorems. *)

\* At the start every supply is what the accounts have.
LEMMA InitInv ==
  ASSUME Init
  PROVE  IInv
<1>1. /\ balance = [a \in Account |-> [s \in Symbol |-> IF s = "HIVE" THEN Hive ELSE Hbd]]
      /\ savings = [a \in Account |-> NoCoins]
      /\ accrual = [a \in Account |-> [seconds |-> 0, updated |-> 0, paid |-> 0]]
      /\ supply = [s \in Symbol |-> Cardinality(Account) * (IF s = "HIVE" THEN Hive ELSE Hbd)]
      /\ orders = {} /\ escrows = {} /\ escrowCount = [a \in Account |-> 0]
      /\ withdrawals = {} /\ requests = [a \in Account |-> 0] /\ conversions = {}
      /\ feed \in Feeds /\ fills = <<>> /\ nextId = 0 /\ now = 0
  BY DEF Init
<1>2. /\ Hive \in Nat /\ Hbd \in Nat /\ IsFiniteSet(Account)
      /\ MaxPending \in Nat /\ MaxRequests \in Nat
  BY LedgerAssumption
<1>3. Cardinality(Account) \in Nat
  BY <1>2, FS_CardinalityType
<1>4. BalancesOK
  <2>1. balance \in Purse /\ savings \in Purse
    BY <1>1, <1>2 DEF Purse, NoCoins
  <2>2. supply \in [Symbol -> Int]
    BY <1>1, <1>2, <1>3
  <2> QED  BY <2>1, <2>2 DEF BalancesOK
<1>5. AccrualOK /\ ClockOK
  <2>1. [seconds |-> 0, updated |-> 0, paid |-> 0]
          \in [seconds : Nat, updated : 0 .. now, paid : 0 .. now]
    BY <1>1
  <2> QED  BY <1>1, <2>1 DEF AccrualOK, ClockOK
<1>6. IsFiniteSet({})
  BY FS_EmptySet
<1>7. MarketInv
  BY <1>1, <1>6 DEF MarketInv, OrdersOK, Book, BookSettled, FillsFair
<1>8. \A a : CountOf({}, a) = 0
  <2>1. \A a : {x \in {} : x.from = a} = {}
    OBVIOUS
  <2> QED  BY <2>1, FS_EmptySet DEF CountOf
<1>9. EscrowInv
  <2>1. EscrowTable(escrows) /\ \A e \in escrows : Ratified(e, now)
    BY <1>1, <1>6 DEF EscrowTable
  <2>2. escrowCount \in [Account -> 0 .. MaxPending]
    BY <1>1, <1>2
  <2>3. \A a \in Account : escrowCount[a] = CountOf(escrows, a)
    BY <1>1, <1>8
  <2> QED  BY <2>1, <2>2, <2>3 DEF EscrowInv
<1>10. WithdrawalInv
  <2>1. WithdrawalTable(withdrawals)
    BY <1>1, <1>6 DEF WithdrawalTable
  <2>2. requests \in [Account -> 0 .. MaxRequests]
    BY <1>1, <1>2
  <2>3. \A a \in Account : requests[a] = CountOf(withdrawals, a)
    BY <1>1, <1>8
  <2> QED  BY <2>1, <2>2, <2>3 DEF WithdrawalInv
<1>11. ConversionsOK
  BY <1>1, <1>6 DEF ConversionsOK
<1>12. ASSUME NEW s \in Symbol
       PROVE  supply[s] = InAccounts(balance, savings, s) + InOrders(orders, s)
                + InEscrows(escrows, s) + InWithdrawals(withdrawals, s)
                + InConversions(conversions, s)
  <2> DEFINE n == IF s = "HIVE" THEN Hive ELSE Hbd
             f == [a \in Account |-> balance[a][s] + savings[a][s]]
  <2>1. n \in Int /\ f \in [Account -> Int] /\ \A a \in Account : f[a] = n
    BY <1>1, <1>2 DEF NoCoins
  <2>2. supply[s] = Cardinality(Account) * n
    BY <1>1
  <2>3. InAccounts(balance, savings, s) = SumFunction(f)
    BY DEF InAccounts
  <2>4. Cardinality(Account) * n \in Int
    BY <1>3, <2>1
  <2> HIDE DEF n, f
  <2>5. SumFunction(f) = Cardinality(Account) * n
    BY <1>2, <2>1, SumConst
  <2>6. \A g \in [{} -> Int] : SumFunction(g) = 0
    BY SumEmpty
  <2>7. /\ [o \in {} |-> InOrder(o, s)] \in [{} -> Int]
        /\ [e \in {} |-> Held(e)[s]] \in [{} -> Int]
        /\ [w \in {} |-> w.amount[s]] \in [{} -> Int]
        /\ [c \in {} |-> InConversion(c, s)] \in [{} -> Int]
    OBVIOUS
  <2>8. /\ InOrders(orders, s) = 0 /\ InEscrows(escrows, s) = 0
        /\ InWithdrawals(withdrawals, s) = 0 /\ InConversions(conversions, s) = 0
    BY <1>1, <2>6, <2>7 DEF InOrders, InEscrows, InWithdrawals, InConversions
  <2> QED  BY <2>2, <2>3, <2>4, <2>5, <2>8
<1> QED  BY <1>4, <1>5, <1>7, <1>9, <1>10, <1>11, <1>12 DEF IInv, Exact

\* Every operation, every block and every stuttering step preserves the invariant.
LEMMA StepInv ==
  ASSUME IInv, [Next]_vars
  PROVE  IInv'
<1>1. CASE UNCHANGED vars
  <2>1. UNCHANGED <<savings, accrual, escrows, escrowCount, withdrawals, requests, conversions,
                    balance, supply, orders, feed, fills, nextId, now>>
    BY <1>1 DEF vars, heldVars
  <2>2. MarketInv'
    BY <2>1 DEF IInv, MarketInv, OrdersOK, BookSettled, FillsFair
  <2>3. EscrowInv' /\ WithdrawalInv' /\ ConversionsOK' /\ AccrualOK' /\ ClockOK'
    BY <2>1, EscrowSame, WithdrawalSame, OthersSame DEF IInv
  <2>4. BalancesOK' /\ Exact'
    BY <2>1 DEF IInv, BalancesOK, Exact
  <2> QED  BY <2>2, <2>3, <2>4 DEF IInv
<1>2. CASE Block
  BY <1>2, BlockStep
<1>3. ASSUME NEW o \in orders, limit_order_cancel(o) PROVE IInv'
  BY <1>3, CancelStep
<1>4. ASSUME NEW e \in escrows, NEW who \in Account, NEW approve \in BOOLEAN,
             escrow_approve(e, who, approve)
      PROVE  IInv'
  BY <1>4, EscrowApproveStep
<1>5. ASSUME NEW e \in escrows, escrow_dispute(e) PROVE IInv'
  BY <1>5, EscrowDisputeStep
<1>6. ASSUME NEW e \in escrows, NEW who \in Account, NEW receiver \in Account,
             NEW m \in Parts(e), escrow_release(e, who, receiver, m)
      PROVE  IInv'
  BY <1>6, EscrowReleaseStep
<1>7. ASSUME NEW w \in withdrawals, cancel_transfer_from_savings(w) PROVE IInv'
  BY <1>7, CancelSavingsStep
<1>8. ASSUME NEW a \in Account, NEW s \in Symbol, NEW n \in Sizes, NEW price \in Prices,
             NEW after \in 1 .. MaxExpiration, NEW fillOrKill \in BOOLEAN,
             limit_order_create(a, s, n, price, now + after, fillOrKill)
      PROVE  IInv'
  BY <1>8, CreateStep
<1>9. ASSUME NEW a \in Account, NEW to \in Account, NEW m \in Moves,
             transfer(a, to, m) \/ transfer_to_savings(a, to, m)
      PROVE  IInv'
  BY <1>9, TransferStep, ToSavingsStep
<1>10. ASSUME NEW a \in Account, NEW to \in Account, NEW agent \in Account, NEW id \in RequestId,
              NEW m \in EscrowMoves,
              escrow_transfer(a, to, agent, id, m.amount, m.fee, now + 1, now + 2)
       PROVE  IInv'
  BY <1>10, EscrowTransferStep
<1>11. ASSUME NEW a \in Account, NEW to \in Account, NEW id \in RequestId, NEW m \in Moves,
              transfer_from_savings(a, to, id, m)
       PROVE  IInv'
  BY <1>11, FromSavingsStep
<1>12. ASSUME NEW a \in Account, NEW id \in RequestId, NEW n \in Sizes,
              convert(a, id, n) \/ collateralized_convert(a, id, n)
       PROVE  IInv'
  BY <1>12, ConvertStep, CollateralStep
<1> QED  BY <1>1, <1>2, <1>3, <1>4, <1>5, <1>6, <1>7, <1>8, <1>9, <1>10, <1>11, <1>12 DEF Next

\* The inductive invariant holds in every reachable state: the tables have their
\* types and unique keys, the book is settled, the counters count what is open,
\* and the supplies are exact.
THEOREM LedgerInvariant == Spec => []IInv
<1>1. Init => IInv
  BY InitInv
<1>2. IInv /\ [Next]_vars => IInv'
  BY StepInv
<1> QED  BY <1>1, <1>2, PTL DEF Spec

\* No balance, saving, order or request is ever negative or left empty, and the
\* counters stay within their limits (adjust_balance, escrow_transfer,
\* transfer_from_savings).
THEOREM TypeCorrect == Spec => []TypeOK
<1>1. ASSUME IInv PROVE TypeOK
  <2>1. \A a \in Account, s \in Symbol : balance[a][s] \in Nat /\ savings[a][s] \in Nat
    BY <1>1 DEF IInv, BalancesOK, Purse
  <2>2. ASSUME NEW s \in Symbol PROVE supply[s] \in Nat
    <3>1. supply[s] = InAccounts(balance, savings, s) + InOrders(orders, s)
                      + InEscrows(escrows, s) + InWithdrawals(withdrawals, s)
                      + InConversions(conversions, s)
      BY <1>1 DEF IInv, Exact
    <3> QED  BY <1>1, <3>1, SumsAreIntegers
  <2>3. \A o \in orders : o.left \in Nat \ {0} /\ o.id < nextId
    BY <1>1 DEF IInv, MarketInv, OrdersOK, Book, Order
  <2>4. \A e \in escrows : \A s \in Symbol : e.amount[s] \in Nat /\ e.fee[s] \in Nat
    BY <1>1 DEF IInv, EscrowInv, EscrowTable, Escrow
  <2>5. \A e \in escrows : e.amount # NoCoins
    BY <1>1 DEF IInv, EscrowInv, EscrowTable
  <2>6. \A c \in conversions : c.held \in Nat \ {0}
    BY <1>1 DEF IInv, ConversionsOK, Conversion
  <2>7. escrowCount \in [Account -> 0 .. MaxPending] /\ requests \in [Account -> 0 .. MaxRequests]
    BY <1>1 DEF IInv, EscrowInv, WithdrawalInv
  <2> QED  BY <2>1, <2>2, <2>3, <2>4, <2>5, <2>6, <2>7 DEF TypeOK
<1> QED  BY <1>1, LedgerInvariant, PTL

\* What validate_invariants asserts, in every reachable state and for any
\* accounts, prices and amounts.
THEOREM SuppliesTheorem == Spec => []SuppliesExact
<1>1. IInv => SuppliesExact
  BY ExactIs DEF IInv
<1> QED  BY <1>1, LedgerInvariant, PTL

\* No two resting orders could trade, and each is worth something, whatever was
\* matched, rounded, refunded or let expire (apply_order, fill_order).
THEOREM BookTheorem == Spec => []BookSettled
<1>1. IInv => BookSettled
  BY DEF IInv, MarketInv
<1> QED  BY <1>1, LedgerInvariant, PTL

\* Every fill gives both sides something and each its price or better, to within
\* the unit that rounding takes (match).
THEOREM FillsTheorem == Spec => []FillsFair
<1>1. IInv => FillsFair
  BY DEF IInv, MarketInv
<1> QED  BY <1>1, LedgerInvariant, PTL

\* Escrow fees are paid once, only approved escrows are disputed, what was not
\* ratified in time is gone, and pending_escrow_transfers and
\* savings_withdraw_requests count what is open.
THEOREM RequestsTheorem == Spec => []RequestsSettled
<1>1. IInv => RequestsSettled
  BY DEF IInv, EscrowInv, WithdrawalInv, Ratified, CountOf, RequestsSettled
<1> QED  BY <1>1, LedgerInvariant, PTL

=============================================================================
