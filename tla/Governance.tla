----------------------------- MODULE Governance -----------------------------
(***************************************************************************)
(* Governance vote power: VESTS, the proxies through which they vote, the  *)
(* votes for witnesses and proposals, delayed votes, power down, and the   *)
(* expiry and the declining of votes.                                      *)
(*                                                                         *)
(* The chain never recounts votes.  Every operation adds or subtracts a    *)
(* difference along the chain of proxies, so what each account and each    *)
(* witness holds is right only if every difference was.                    *)
(*                                                                         *)
(* An operation of a transaction is one action and sees the time of the    *)
(* head block.  A block then moves the time and runs the processes of      *)
(* _apply_block one account at a time, in the order of the code; accounts  *)
(* that are due at the same time may come in any order.  HIVE is a supply  *)
(* outside the model, one VEST is worth one HIVE, nothing is delegated,    *)
(* proposals do not end, and every hardfork is active.                     *)
(***************************************************************************)
EXTENDS Integers, FiniteSets, SequencesExt

CONSTANTS
  Account,           \* accounts that can sign
  Null,              \* HIVE_NULL_ACCOUNT, which nobody can sign for
  NoProxy,           \* account_id_type()
  Witness,           \* witnesses
  Proposal,          \* proposal ids
  Depth,             \* HIVE_MAX_PROXY_RECURSION_DEPTH
  DelayInterval,     \* HIVE_DELAYED_VOTING_INTERVAL_SECONDS
  DelayTotal,        \* HIVE_DELAYED_VOTING_TOTAL_INTERVAL_SECONDS
  ExpirationPeriod,  \* HIVE_GOVERNANCE_VOTE_EXPIRATION_PERIOD
  DeclinePeriod,     \* HIVE_OWNER_AUTH_RECOVERY_PERIOD
  WithdrawInterval,  \* HIVE_VESTING_WITHDRAW_INTERVAL_SECONDS
  WithdrawIntervals, \* HIVE_VESTING_WITHDRAW_INTERVALS
  Percent100,        \* HIVE_100_PERCENT
  MaxRoutes,         \* HIVE_MAX_WITHDRAW_ROUTES
  MaxWitnessVotes,   \* HIVE_MAX_ACCOUNT_WITNESS_VOTES
  RemoveThreshold,   \* current_remove_threshold
  Stake,             \* VESTS every account starts with
  Proxies,           \* the proxies accounts start with
  Voters,            \* the accounts that start with a vote for each of Elected
  Elected,
  Destinations,      \* bound: the accounts withdrawals are routed to
  MaxAmount,         \* bound: VESTS an operation creates
  MaxTime,           \* bound: time of the last block
  MaxOps             \* bound: operations

ASSUME GovernanceAssumption ==
  /\ IsFiniteSet(Account) /\ IsFiniteSet(Witness) /\ IsFiniteSet(Proposal)
  /\ Null \notin Account /\ NoProxy \notin Account \cup {Null}
  /\ Proposal \subseteq Nat /\ Destinations \subseteq Account \cup {Null}
  /\ Voters \subseteq Account /\ Elected \subseteq Witness
  /\ Cardinality(Elected) <= MaxWitnessVotes
  /\ Proxies \in [Account \cup {Null} -> Account \cup {NoProxy}]
  /\ \A a \in Account : Proxies[a] # NoProxy =>
       a \notin Voters /\ Proxies[Proxies[a]] = NoProxy
  /\ Proxies[Null] = NoProxy
  /\ {Depth, DelayInterval, DelayTotal, ExpirationPeriod, DeclinePeriod,
      WithdrawInterval, WithdrawIntervals, Percent100, RemoveThreshold}
       \subseteq Nat \ {0}
  /\ {MaxRoutes, MaxWitnessVotes, Stake, MaxAmount, MaxTime, MaxOps} \subseteq Nat

VARIABLES
  vesting,    \* account_object::vesting_shares
  delayed,    \* delayed_votes, a sequence of [time, val]
  sumDelayed, \* sum_delayed_votes
  proxied,    \* proxied_vsf_votes
  proxy,      \* proxy
  votedFor,   \* witnesses_voted_for
  canVote,    \* can_vote
  expiration, \* governance_vote_expiration_ts
  powerDown,  \* vesting_withdraw_rate, next_vesting_withdrawal, to_withdraw, withdrawn
  total,      \* total_vesting_shares of the dynamic global properties
  votes,      \* witness_object::votes
  ballots,    \* witness_vote_object: pairs of an account and a witness
  proposed,   \* proposal_vote_object: pairs of an account and a proposal
  routes,     \* withdraw_vesting_route_object
  requests,   \* decline_voting_rights_request_object: account -> effective_date
  now,        \* head_block_time
  phase,      \* the process of _apply_block at work, 0 for transactions
  guard,      \* remove_guard of the process
  ops         \* operations so far

account == <<vesting, delayed, sumDelayed, votedFor, canVote, expiration, powerDown>>
tallies == <<proxied, votes>>
objects == <<ballots, proposed, routes, requests>>
block   == <<now, phase, guard>>
vars    == <<account, tallies, objects, block, proxy, total, ops>>

Accounts == Account \cup {Null}
Never == MaxTime + ExpirationPeriod + DeclinePeriod + WithdrawInterval + 1
Idle == [rate |-> 0, next |-> Never, amount |-> 0, done |-> 0]

-----------------------------------------------------------------------------
(* Vote power *)

get_direct_governance_vote_power(a) == vesting[a] - sumDelayed[a]
get_governance_vote_power(a) ==
  get_direct_governance_vote_power(a) + SumFunction(proxied[a])

\* The account reached from a through k proxies.
Chain(p, a) ==
  LET up[k \in 0 .. Depth] ==
        IF k = 0 THEN a
        ELSE IF up[k - 1] = NoProxy THEN NoProxy ELSE p[up[k - 1]]
  IN  up

\* The proxies of a take delta, shifted by their distance, and the account in
\* whose name the last of them votes passes on what is still within Depth.
adjust_proxied_witness_votes(t, p, a, delta) ==
  LET up == Chain(p, a)
      VotesFor(d, w) == /\ up[d] # NoProxy /\ p[up[d]] = NoProxy
                        /\ <<up[d], w>> \in ballots
  IN  [proxied |-> [x \in Accounts |-> [j \in 0 .. Depth - 1 |->
           t.proxied[x][j]
             + SumFunction([d \in {d \in 0 .. j : up[d + 1] = x} |-> delta[j - d]])]],
       votes |-> [w \in Witness |->
           t.votes[w]
             + SumFunction([d \in {d \in 0 .. Depth : VotesFor(d, w)} |->
                              SumFunction([i \in 0 .. Depth - d |-> delta[i]])])]]

Single(delta) == [i \in 0 .. Depth |-> IF i = 0 THEN delta ELSE 0]
\* Mutant of PowerOf: the votes proxied to the account are forgotten
PowerOfOwn(a, sign) == Single(sign * get_direct_governance_vote_power(a))

PowerOf(a, sign) ==
  [i \in 0 .. Depth |-> sign * (IF i = 0 THEN get_direct_governance_vote_power(a)
                                ELSE proxied[a][i - 1])]
Tally == [proxied |-> proxied, votes |-> votes]
nullify_proxied_witness_votes(a) ==
  adjust_proxied_witness_votes(Tally, proxy, a, PowerOf(a, -1))

SetTally(t) == proxied' = t.proxied /\ votes' = t.votes
clear_witness_votes(a) ==
  /\ ballots' = {v \in ballots : v[1] # a}
  /\ votedFor' = [votedFor EXCEPT ![a] = 0]

update_governance_vote_expiration_ts(a) ==
  expiration' = [expiration EXCEPT ![a] = now + ExpirationPeriod]

-----------------------------------------------------------------------------
(* Delayed votes *)

SumVal(s) == SumFunction([i \in DOMAIN s |-> s[i].val])

\* Mutant of Added: every addition is an entry of its own
AddedApart(s, val) == IF val = 0 THEN s ELSE Append(s, [time |-> now, val |-> val])

\* delayed_voting_processor::add
Added(s, val) ==
  LET n == Len(s)
  IN  IF val = 0 THEN s
      ELSE IF n = 0 \/ now >= s[n].time + DelayInterval
           THEN Append(s, [time |-> now, val |-> val])
           ELSE [s EXCEPT ![n].val = @ + val]

\* Mutant of Erased: an entry that is taken whole stays, with nothing in it
ErasedKeeping(s, count) ==
  LET left == SumVal(s) - count
      Before(i) == SumVal(SubSeq(s, 1, i - 1))
      n == Cardinality({i \in DOMAIN s : Before(i) <= left})
  IN  [i \in 1 .. n |-> [s[i] EXCEPT !.val = Min({@, left - Before(i)})]]

\* delayed_voting_processor::erase: the youngest entries go first.
Erased(s, count) ==
  LET left == SumVal(s) - count
      Before(i) == SumVal(SubSeq(s, 1, i - 1))
      n == Cardinality({i \in DOMAIN s : Before(i) < left})
  IN  [i \in 1 .. n |-> [s[i] EXCEPT !.val = Min({@, left - Before(i)})]]

-----------------------------------------------------------------------------
(* Operations *)

\* The chain some operations after genesis: Proxies are set and Voters have
\* voted.
Behind(a) == Stake * Cardinality({b \in Account : Proxies[b] = a})
Init ==
  /\ vesting = [a \in Accounts |-> IF a = Null THEN 0 ELSE Stake]
  /\ delayed = [a \in Accounts |-> <<>>] /\ sumDelayed = [a \in Accounts |-> 0]
  /\ proxied = [a \in Accounts |-> [i \in 0 .. Depth - 1 |-> IF i = 0 THEN Behind(a) ELSE 0]]
  /\ proxy = Proxies /\ ballots = Voters \X Elected
  /\ votedFor = [a \in Accounts |-> IF a \in Voters THEN Cardinality(Elected) ELSE 0]
  /\ canVote = [a \in Accounts |-> TRUE]
  /\ expiration = [a \in Accounts |-> IF a \in Voters \/ Proxies[a] # NoProxy
                                       THEN ExpirationPeriod ELSE Never]
  /\ powerDown = [a \in Accounts |-> Idle]
  /\ total = Stake * Cardinality(Account)
  /\ votes = [w \in Witness |-> IF w \in Elected
                                THEN SumFunction([a \in Voters |-> Stake + Behind(a)]) ELSE 0]
  /\ proposed = {} /\ routes = {} /\ requests = <<>>
  /\ now = 0 /\ phase = 0 /\ guard = RemoveThreshold /\ ops = 0

Operation == phase = 0 /\ ops < MaxOps /\ ops' = ops + 1
             /\ UNCHANGED block

transfer_to_vesting(a, n) ==
  /\ Operation
  /\ vesting' = [vesting EXCEPT ![a] = @ + n] /\ total' = total + n
  /\ delayed' = [delayed EXCEPT ![a] = Added(@, n)]
  /\ sumDelayed' = [sumDelayed EXCEPT ![a] = @ + n]
  /\ UNCHANGED <<tallies, objects, proxy, votedFor, canVote, expiration, powerDown>>

\* A reward that is claimed votes at once, and so does any other new VEST.
claim_reward_balance(a, n) ==
  /\ Operation
  /\ vesting' = [vesting EXCEPT ![a] = @ + n] /\ total' = total + n
  /\ SetTally(adjust_proxied_witness_votes(Tally, proxy, a, Single(n)))
  /\ UNCHANGED <<objects, proxy, delayed, sumDelayed, votedFor, canVote,
                 expiration, powerDown>>

withdraw_vesting(a, n) ==
  LET rate == (n + WithdrawIntervals - 1) \div WithdrawIntervals
  IN  /\ Operation
      /\ n <= vesting[a]
      /\ \/ /\ n = 0 /\ powerDown[a].next # Never
            /\ powerDown' = [powerDown EXCEPT ![a] = Idle]
         \/ /\ n # 0 /\ (powerDown[a].rate # rate \/ powerDown[a].next = Never)
            /\ powerDown' = [powerDown EXCEPT ![a] =
                 [rate |-> rate, next |-> now + WithdrawInterval, amount |-> n, done |-> 0]]
      /\ UNCHANGED <<tallies, objects, proxy, vesting, delayed, sumDelayed, votedFor,
                     canVote, expiration, total>>

set_withdraw_vesting_route(a, to, percent, auto) ==
  LET old == {r \in routes : r.from = a /\ r.to = to}
      new == [from |-> a, to |-> to, percent |-> percent, auto |-> auto]
      mine == {r \in routes' : r.from = a}
  IN  /\ Operation
      /\ \/ /\ percent # 0 /\ old = {}
            /\ Cardinality({r \in routes : r.from = a}) < MaxRoutes
            /\ routes' = routes \cup {new}
         \/ percent # 0 /\ old # {} /\ routes' = (routes \ old) \cup {new}
         \/ percent = 0 /\ old # {} /\ routes' = routes \ old
      /\ SumFunction([r \in mine |-> r.percent]) <= Percent100
      /\ UNCHANGED <<account, tallies, ballots, proposed, requests, proxy, total>>

\* Whether the walk from the new proxy ends before it meets a or is too long.
ProxyAllowed(a, to) ==
  LET up == Chain(proxy, to)
  IN  \/ proxy[to] = NoProxy
      \/ \E h \in 1 .. Depth - 2 :
           /\ up[h] # NoProxy /\ proxy[up[h]] = NoProxy
           /\ \A k \in 1 .. h : up[k] # a

account_witness_proxy(a, to) ==
  LET none == nullify_proxied_witness_votes(a)
  IN  /\ Operation
      /\ canVote[a] /\ proxy[a] # to /\ to # a
      /\ update_governance_vote_expiration_ts(a)
      /\ proxy' = [proxy EXCEPT ![a] = to]
      /\ \/ /\ to = NoProxy
            /\ SetTally(none) /\ UNCHANGED <<ballots, votedFor>>
         \/ /\ to # NoProxy /\ ProxyAllowed(a, to)
            /\ clear_witness_votes(a)
            /\ SetTally(adjust_proxied_witness_votes(none, proxy', a, PowerOf(a, 1)))
      /\ UNCHANGED <<vesting, delayed, sumDelayed, canVote, powerDown, total,
                     proposed, routes, requests>>

\* Mutant of account_witness_vote: the votes proxied to the voter are left out of its first vote
account_witness_vote_own(a, w, approve) ==
  /\ Operation
  /\ proxy[a] = NoProxy /\ canVote[a]
  /\ update_governance_vote_expiration_ts(a)
  /\ approve /\ <<a, w>> \notin ballots /\ votedFor[a] < MaxWitnessVotes
  /\ ballots' = ballots \cup {<<a, w>>}
  /\ votes' = [votes EXCEPT ![w] = @ + get_direct_governance_vote_power(a)]
  /\ votedFor' = [votedFor EXCEPT ![a] = @ + 1]
  /\ UNCHANGED <<proxied, proxy, vesting, delayed, sumDelayed, canVote, powerDown,
                 total, proposed, routes, requests>>

account_witness_vote(a, w, approve) ==
  LET power == get_governance_vote_power(a)
  IN  /\ Operation
      /\ proxy[a] = NoProxy /\ canVote[a]
      /\ update_governance_vote_expiration_ts(a)
      /\ \/ /\ approve /\ <<a, w>> \notin ballots /\ votedFor[a] < MaxWitnessVotes
            /\ ballots' = ballots \cup {<<a, w>>}
            /\ votes' = [votes EXCEPT ![w] = @ + power]
            /\ votedFor' = [votedFor EXCEPT ![a] = @ + 1]
         \/ /\ ~approve /\ <<a, w>> \in ballots
            /\ ballots' = ballots \ {<<a, w>>}
            /\ votes' = [votes EXCEPT ![w] = @ - power]
            /\ votedFor' = [votedFor EXCEPT ![a] = @ - 1]
      /\ UNCHANGED <<proxied, proxy, vesting, delayed, sumDelayed, canVote, powerDown,
                     total, proposed, routes, requests>>

update_proposal_votes(a, ids, approve) ==
  LET mine == {a} \X ids
  IN  /\ Operation
      /\ canVote[a]
      /\ update_governance_vote_expiration_ts(a)
      /\ proposed' = IF approve THEN proposed \cup mine ELSE proposed \ mine
      /\ UNCHANGED <<tallies, proxy, vesting, delayed, sumDelayed, votedFor, canVote,
                     powerDown, total, ballots, routes, requests>>

decline_voting_rights(a, decline) ==
  /\ Operation
  /\ canVote[a] /\ decline = (a \notin DOMAIN requests)
  /\ requests' = IF decline
                 THEN [x \in DOMAIN requests \cup {a} |->
                         IF x = a THEN now + DeclinePeriod ELSE requests[x]]
                 ELSE Restrict(requests, DOMAIN requests \ {a})
  /\ UNCHANGED <<account, tallies, proxy, total, ballots, proposed, routes>>

-----------------------------------------------------------------------------
(* The processes of _apply_block *)

\* The accounts whose date f[a] has come, earliest first.
DueFirst(f) ==
  {a \in DOMAIN f : f[a] <= now /\ \A b \in DOMAIN f : f[a] <= f[b]}

NextWithdrawal(a) == powerDown[a].next
Maturity(a) == IF delayed[a] = <<>> THEN Never ELSE delayed[a][1].time + DelayTotal

Withdrawals == 1
Declines == 2
Maturing == 3
Expiry == 4

\* What the loop of a process takes next.
Due(process) ==
  CASE process = Withdrawals -> DueFirst([a \in Accounts |-> NextWithdrawal(a)])
    [] process = Declines    -> DueFirst(requests)
    [] process = Maturing    -> DueFirst([a \in Accounts |-> Maturity(a)])
    [] process = Expiry      -> DueFirst(expiration)

\* A process runs when the loops of those before it have ended; each has a
\* remove_guard of its own.
Reached(process) == /\ phase \in 1 .. process
                    /\ \A p \in phase .. process - 1 : Due(p) = {}
Run(process, a) == Reached(process) /\ a \in Due(process)
Guard(process) == IF phase = process THEN guard ELSE RemoveThreshold

\* Mutant of clear_null_account_balance: the delayed votes of the null account stay
clear_null_account_balance_delayed ==
  /\ phase = 0 /\ now < MaxTime
  /\ phase' = Withdrawals /\ now' = now + 1 /\ guard' = RemoveThreshold
  /\ total' = total - vesting[Null]
  /\ vesting' = [vesting EXCEPT ![Null] = 0]
  /\ UNCHANGED <<tallies, objects, proxy, delayed, sumDelayed, votedFor, canVote,
                 expiration, powerDown, ops>>

clear_null_account_balance ==
  /\ phase = 0 /\ now < MaxTime
  /\ phase' = Withdrawals /\ now' = now + 1 /\ guard' = RemoveThreshold
  /\ total' = total - vesting[Null]
  /\ vesting' = [vesting EXCEPT ![Null] = 0]
  /\ sumDelayed' = [sumDelayed EXCEPT ![Null] = 0]
  /\ delayed' = [delayed EXCEPT ![Null] = <<>>]
  /\ UNCHANGED <<tallies, objects, proxy, votedFor, canVote, expiration, powerDown, ops>>

\* What update_votes takes from the delayed votes; the rest is its leftover.
FromDelayed(a, spent) == Min({spent, sumDelayed[a]})

process_vesting_withdrawals(a) ==
  LET pd == powerDown[a]
      toWithdraw == Min({pd.rate, pd.amount - pd.done, vesting[a]})
      Deposit(r) == (toWithdraw * r.percent) \div Percent100
      VestsTo(x) == SumFunction([r \in {r \in routes : r.from = a /\ r.auto /\ r.to = x}
                                   |-> Deposit(r)])
      kept == SumFunction([x \in Accounts |-> VestsTo(x)])
      spent == toWithdraw - VestsTo(a)
      left == vesting[a] - spent
      fromDelayed == FromDelayed(a, spent)
  IN  /\ Run(Withdrawals, a)
      /\ vesting' = [x \in Accounts |->
                       IF x = a THEN left ELSE vesting[x] + VestsTo(x)]
      /\ total' = total - (toWithdraw - kept)
      /\ powerDown' = [powerDown EXCEPT ![a] =
           IF pd.done + toWithdraw >= pd.amount \/ left = 0 THEN Idle
           ELSE [pd EXCEPT !.done = pd.done + toWithdraw,
                           !.next = pd.next + WithdrawInterval]]
      /\ delayed' = [x \in Accounts |-> IF x = a THEN Erased(delayed[x], fromDelayed)
                                        ELSE Added(delayed[x], VestsTo(x))]
      /\ sumDelayed' = [x \in Accounts |-> IF x = a THEN sumDelayed[x] - fromDelayed
                                           ELSE sumDelayed[x] + VestsTo(x)]
      /\ SetTally(adjust_proxied_witness_votes(Tally, proxy, a,
                                               Single(fromDelayed - spent)))
      /\ UNCHANGED <<objects, block, proxy, votedFor, canVote, expiration, ops>>

ClearVotes(a) ==
  /\ SetTally(nullify_proxied_witness_votes(a))
  /\ clear_witness_votes(a)
  /\ proxy' = [proxy EXCEPT ![a] = NoProxy]

\* Mutant of remove_proposal_votes: the limit ends the removal, but the account counts as done
remove_proposal_votes_cut(process, a, done, cut) ==
  LET mine == {v \in proposed : v[1] = a}
      removed == {v \in mine : Cardinality({u \in mine : u[2] < v[2]}) < Guard(process)}
  IN  /\ proposed' = proposed \ removed
      /\ guard' = Guard(process) - Cardinality(removed)
      /\ phase' = process /\ done

\* Takes away a's proposal votes, within the limit of the guard, and continues
\* with done, or ends the loop with cut.
remove_proposal_votes(process, a, done, cut) ==
  LET mine == {v \in proposed : v[1] = a}
      removed == {v \in mine : Cardinality({u \in mine : u[2] < v[2]}) < Guard(process)}
  IN  /\ proposed' = proposed \ removed
      /\ guard' = Guard(process) - Cardinality(removed)
      /\ IF removed = mine THEN phase' = process /\ done ELSE cut

process_decline_voting_rights(a) ==
  /\ Run(Declines, a)
  /\ remove_proposal_votes(Declines, a,
       /\ ClearVotes(a)
       /\ canVote' = [canVote EXCEPT ![a] = FALSE]
       /\ requests' = Restrict(requests, DOMAIN requests \ {a}),
       /\ phase' = Maturing
       /\ UNCHANGED <<tallies, ballots, votedFor, proxy, canVote, requests>>)
  /\ UNCHANGED <<vesting, delayed, sumDelayed, expiration, powerDown, total, routes,
                 now, ops>>

\* delayed_voting::run
process_delayed_voting(a) ==
  LET val == delayed[a][1].val
  IN  /\ Run(Maturing, a) /\ phase' = Maturing
      /\ SetTally(adjust_proxied_witness_votes(Tally, proxy, a, Single(val)))
      /\ delayed' = [delayed EXCEPT ![a] = Tail(@)]
      /\ sumDelayed' = [sumDelayed EXCEPT ![a] = @ - val]
      /\ UNCHANGED <<objects, now, guard, proxy, vesting, votedFor, canVote, expiration,
                     powerDown, total, ops>>

remove_expired_governance_votes(a) ==
  /\ Run(Expiry, a)
  /\ remove_proposal_votes(Expiry, a,
       /\ ClearVotes(a)
       /\ expiration' = [expiration EXCEPT ![a] = Never],
       /\ phase' = 0
       /\ UNCHANGED <<tallies, ballots, votedFor, proxy, expiration>>)
  /\ UNCHANGED <<vesting, delayed, sumDelayed, canVote, powerDown, total, routes,
                 requests, now, ops>>

EndBlock ==
  /\ Reached(Expiry) /\ Due(Expiry) = {}
  /\ phase' = 0 /\ guard' = RemoveThreshold
  /\ UNCHANGED <<account, tallies, objects, proxy, total, now, ops>>

Process ==
  \/ clear_null_account_balance
  \/ EndBlock
  \/ \E a \in Accounts : \/ process_vesting_withdrawals(a)
                         \/ process_decline_voting_rights(a)
                         \/ process_delayed_voting(a)
                         \/ remove_expired_governance_votes(a)

Next ==
  \/ Process
  \/ \E a \in Accounts, n \in 1 .. MaxAmount : transfer_to_vesting(a, n)
  \/ \E a \in Account :
       \/ \E n \in 1 .. MaxAmount : claim_reward_balance(a, n)
       \/ \E n \in 0 .. vesting[a] : withdraw_vesting(a, n)
       \/ \E to \in Destinations, percent \in 0 .. Percent100, auto \in BOOLEAN :
            set_withdraw_vesting_route(a, to, percent, auto)
       \/ \E to \in Accounts \cup {NoProxy} : account_witness_proxy(a, to)
       \/ \E w \in Witness, approve \in BOOLEAN : account_witness_vote(a, w, approve)
       \/ \E ids \in SUBSET Proposal, approve \in BOOLEAN :
            ids # {} /\ update_proposal_votes(a, ids, approve)
       \/ \E decline \in BOOLEAN : decline_voting_rights(a, decline)

Spec == Init /\ [][Next]_vars

-----------------------------------------------------------------------------
(* Properties *)

\* The state of every account, its entries and its objects is well formed.
TypeOK ==
  /\ vesting \in [Accounts -> Nat] /\ sumDelayed \in [Accounts -> Nat]
  /\ \A a \in Accounts : \A i \in DOMAIN delayed[a] :
       delayed[a][i].time \in 0 .. now /\ delayed[a][i].val \in Nat \ {0}
  /\ proxied \in [Accounts -> [0 .. Depth - 1 -> Nat]]
  /\ proxy \in [Accounts -> Accounts \cup {NoProxy}]
  /\ votedFor \in [Accounts -> 0 .. MaxWitnessVotes]
  /\ canVote \in [Accounts -> BOOLEAN]
  /\ expiration \in [Accounts -> 0 .. Never]
  /\ total \in Nat /\ votes \in [Witness -> Nat]
  /\ ballots \subseteq Accounts \X Witness /\ proposed \subseteq Accounts \X Proposal
  /\ \A r \in routes : r.from # Null /\ r.percent \in 1 .. Percent100
  /\ DOMAIN requests \subseteq Account

\* proxied_vsf_votes[i] is, at all times, the sum of what the accounts exactly
\* i + 1 proxies below vote with themselves (database.cpp, the differences
\* adjust_proxied_witness_votes adds along the chain).
ProxiedExact ==
  \A a \in Accounts, i \in 0 .. Depth - 1 :
    proxied[a][i] = SumFunction([b \in {b \in Accounts : Chain(proxy, b)[i + 1] = a}
                                   |-> get_direct_governance_vote_power(b)])

\* The votes of a witness are the power of those who vote for it, counted anew,
\* and an account's witnesses_voted_for is the number of its ballots; nobody who
\* has a proxy holds a ballot.
WitnessVotesExact ==
  /\ \A w \in Witness :
       votes[w] = SumFunction([a \in {a \in Accounts : <<a, w>> \in ballots}
                                 |-> get_governance_vote_power(a)])
  /\ \A a \in Accounts :
       LET mine == {v \in ballots : v[1] = a}
       IN  votedFor[a] = Cardinality(mine) /\ (proxy[a] # NoProxy => mine = {})

\* What validate_invariants and the assertions of adjust_witness_vote and
\* get_direct_governance_vote_power demand: every VEST votes once or is delayed
\* or is lost behind too many proxies, and no witness or proposal
\* (dhf_processor::calculate_votes) gets more votes than there are VESTS.
VestsCounted ==
  LET Counted(a) == IF proxy[a] = NoProxy THEN get_governance_vote_power(a)
                    ELSE proxied[a][Depth - 1]
  IN  /\ total = SumFunction(vesting)
      /\ total = SumFunction([a \in Accounts |-> Counted(a)]) + SumFunction(sumDelayed)
      /\ \A a \in Accounts : sumDelayed[a] <= vesting[a]
      /\ \A w \in Witness : votes[w] <= total
      /\ \A p \in Proposal :
           SumFunction([a \in {a \in Accounts : <<a, p>> \in proposed /\ proxy[a] = NoProxy}
                          |-> get_governance_vote_power(a)]) <= total

\* The entries of delayed_votes add up to sum_delayed_votes, are an interval
\* apart, and after a block none is due and there are no more of them than the
\* total delay has intervals (delayed_voting.cpp, "not greater than 30").
DelayedExact ==
  \A a \in Accounts :
    LET s == delayed[a]
    IN  /\ sumDelayed[a] = SumVal(s)
        /\ \A i \in 2 .. Len(s) : s[i].time >= s[i - 1].time + DelayInterval
        /\ phase \in {0, Expiry} =>
             /\ \A i \in DOMAIN s : s[i].time + DelayTotal > now
             /\ Len(s) <= (DelayTotal + DelayInterval - 1) \div DelayInterval

\* Nobody's governance votes are for ever: whoever has a proxy, a ballot or a
\* proposal vote has a date of expiry, and after a block that was not cut short
\* by the removal limit that date is ahead; who has declined to vote has none.
GovernanceExpires ==
  LET Votes(a) == \/ proxy[a] # NoProxy
                  \/ \E v \in ballots \cup proposed : v[1] = a
  IN  /\ \A a \in Accounts : Votes(a) => expiration[a] # Never /\ canVote[a]
      /\ phase = 0 /\ guard > 0 => \A a \in Accounts : expiration[a] > now
=============================================================================
