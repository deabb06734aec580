------------------------------ MODULE Treasury ------------------------------
(***************************************************************************)
(* contracts/treasury: vesting schedules, the yield portfolio and its      *)
(* recalls, staking with yield distribution, fee liquidation and buybacks. *)
(*                                                                         *)
(* The admin is trusted to call, not to call well: every admin entry is a  *)
(* step open at any time.  Strategies, the AMM, the router and the price   *)
(* feed are external; they answer what they please within named bounds.    *)
(* The reentrancy lock is taken and given back within one step (an error   *)
(* rolls both writes back), so it is never seen held between steps.        *)
(***************************************************************************)
EXTENDS LedgerClock, Sequences, SequencesExt, FiniteSets, FiniteSetsExt, Functions

CONSTANTS Beneficiaries, Schedules,      \* arguments of add_schedule
          Strategies, Portfolios,        \* arguments of set_allocations
          Reserves,
          Shortfalls, Yields,            \* how a strategy answers a withdrawal
          Assets, Token,                 \* token addresses, and the treasury's own
          DistToken,                     \* the token yield is distributed in
          TreasuryUsers, StakeSizes, YieldSizes, PRECISION,
          Prices, PRICE_SCALE, Slippage, Trades,
          TotalBps,                      \* TOTAL_WEIGHT_BPS, BPS_DENOMINATOR
          Deposits, MaxBalance, MaxNet, MaxStaked

MAX_STRATEGIES == 8

VARIABLES
  schedule,      \* Schedule
  whitelisted,   \* WhitelistedStrategy
  allocation,    \* Allocation
  order,         \* AllocationOrder
  reserve_bps,   \* ReserveBps
  balance,       \* the contract's token balances
  buyback,       \* BuybackConfig
  market,        \* Amm, StableToken, PriceFeed
  dist,          \* DistributionState (None before initialize_distribution)
  user_dist,     \* UserDistribution
  net            \* ghost: Token received from outside and earned, less paid out

treVars == <<schedule, whitelisted, allocation, order, reserve_bps, balance, buyback,
             market, dist, user_dist, net>>

SumOf(f) == MapThenSumSet(LAMBDA x : f[x], DOMAIN f)

Lesser(a, b) == IF a <= b THEN a ELSE b

\* __constructor; initialize afterwards only reports AlreadyInitialized.
TreInit ==
  /\ schedule = [b \in Beneficiaries |-> None]
  /\ whitelisted = {}
  /\ allocation = [s \in Strategies |-> None]
  /\ order = <<>>
  /\ reserve_bps = TotalBps
  /\ balance = [a \in Assets |-> 0]
  /\ buyback = None
  /\ market = [amm |-> None, stable |-> None, feed |-> None]
  /\ dist = None
  /\ user_dist = [u \in TreasuryUsers |-> None]
  /\ net = 0

\* Anyone may transfer tokens to the treasury.
Receive(asset, amount) ==
  /\ balance[asset] + amount <= MaxBalance              \* bound
  /\ balance' = [balance EXCEPT ![asset] = @ + amount]
  /\ net' = IF asset = Token THEN net + amount ELSE net
  /\ UNCHANGED <<schedule, whitelisted, allocation, order, reserve_bps, buyback, market,
                 dist, user_dist>>

---------------------------------------------------------------------------
(* Vesting                                                                 *)

is_valid(s) == s.total > 0 /\ s.duration > 0 /\ s.cliff <= s.duration

\* Linear from the start, nothing before the cliff.
vested(s) ==
  IF now < s.start + s.cliff THEN 0
  ELSE IF now >= s.start + s.duration THEN s.total
  ELSE (s.total * (now - s.start)) \div s.duration

claimable(s) == vested(s) - s.claimed

\* c: total, start, cliff and duration (add_team_schedule fixes the last two).
add_schedule(beneficiary, c) ==
  /\ is_valid(c)
  /\ schedule[beneficiary] = None
  /\ schedule' = [schedule EXCEPT ![beneficiary] =
       [total |-> c.total, claimed |-> 0, start |-> c.start, cliff |-> c.cliff,
        duration |-> c.duration]]
  /\ UNCHANGED <<whitelisted, allocation, order, reserve_bps, balance, buyback, market,
                 dist, user_dist, net>>

---------------------------------------------------------------------------
(* The portfolio                                                           *)

whitelist_strategy(s) ==
  /\ s \notin whitelisted
  /\ whitelisted' = whitelisted \cup {s}
  /\ UNCHANGED <<schedule, allocation, order, reserve_bps, balance, buyback, market, dist,
                 user_dist, net>>

Funded(s) == allocation[s] # None /\ (allocation[s].deployed > 0 \/ allocation[s].yield_earned > 0)

revoke_strategy(s) ==
  /\ s \in whitelisted
  /\ ~Funded(s)
  /\ allocation' = [allocation EXCEPT ![s] = None]
  /\ order' = IF allocation[s] = None THEN order ELSE SelectSeq(order, LAMBDA o : o # s)
  /\ whitelisted' = whitelisted \ {s}
  /\ UNCHANGED <<schedule, reserve_bps, balance, buyback, market, dist, user_dist, net>>

\* configs: a sequence of strategies and weights.
is_valid_weight_set(configs) ==
  /\ Len(configs) \in 1..MAX_STRATEGIES
  /\ \A i \in DOMAIN configs : configs[i].weight_bps # 0
  /\ IsInjective([i \in DOMAIN configs |-> configs[i].strategy])
  /\ MapThenSumSet(LAMBDA i : configs[i].weight_bps, DOMAIN configs) = TotalBps

set_allocations(configs) ==
  LET named == {configs[i].strategy : i \in DOMAIN configs}
      weight(s) == configs[CHOOSE i \in DOMAIN configs : configs[i].strategy = s].weight_bps
      kept(s) == IF allocation[s] = None THEN [deployed |-> 0, yield_earned |-> 0]
                 ELSE [deployed |-> allocation[s].deployed,
                       yield_earned |-> allocation[s].yield_earned]
  IN  /\ named \subseteq whitelisted
      /\ is_valid_weight_set(configs)
      /\ \A s \in Range(order) \ named : ~Funded(s)
      /\ order' = [i \in DOMAIN configs |-> configs[i].strategy]
      /\ allocation' = [s \in Strategies |->
           IF s \in named
           THEN [weight_bps |-> weight(s), deployed |-> kept(s).deployed,
                 yield_earned |-> kept(s).yield_earned]
           ELSE IF s \in Range(order) THEN None ELSE allocation[s]]
      /\ UNCHANGED <<schedule, whitelisted, reserve_bps, balance, buyback, market, dist,
                     user_dist, net>>

set_reserve_bps(bps) ==
  /\ bps <= TotalBps
  /\ reserve_bps' = bps
  /\ UNCHANGED <<schedule, whitelisted, allocation, order, balance, buyback, market, dist,
                 user_dist, net>>

deployed_total == MapThenSumSet(LAMBDA s : allocation[s].deployed, Range(order))

\* A strategy's answer to withdraw(principal), external: the principal and the
\* yield it reports, and what it really transferred.
Replies == [short : Shortfalls, yield : Yields, missing : {0, 1}]
Returned(principal, r) == principal - r.short
Received(principal, r) == Returned(principal, r) + r.yield - r.missing

\* The portfolio while a call runs: the allocations, the cash, what was earned,
\* and whether every recall so far was honoured.
Position == [alloc |-> allocation, cash |-> balance[Token], earned |-> 0, ok |-> TRUE]

recall(pos, s, principal, r) ==
  LET returned == Returned(principal, r)
  IN  [alloc |-> [pos.alloc EXCEPT ![s].deployed = @ - returned,
                                   ![s].yield_earned = @ + r.yield],
       cash |-> pos.cash + Received(principal, r),
       earned |-> pos.earned + r.yield,
       ok |-> /\ pos.ok
              /\ principal > 0 /\ principal <= pos.alloc[s].deployed
              /\ returned > 0 /\ returned <= principal /\ r.yield >= 0
              /\ Received(principal, r) >= returned + r.yield]

recall_strategy(s, principal, r) ==
  LET pos == recall(Position, s, principal, r)
  IN  /\ s \in whitelisted
      /\ allocation[s] # None
      /\ pos.ok
      /\ net + pos.earned <= MaxNet                     \* bound
      /\ allocation' = pos.alloc
      /\ balance' = [balance EXCEPT ![Token] = pos.cash]
      /\ net' = net + pos.earned
      /\ UNCHANGED <<schedule, whitelisted, order, reserve_bps, buyback, market, dist,
                     user_dist>>

largest_weight_index(weights) ==
  CHOOSE i \in DOMAIN weights :
    /\ \A j \in DOMAIN weights : weights[j] <= weights[i]
    /\ \A j \in 1..(i - 1) : weights[j] < weights[i]

split_by_weights(total, weights) ==
  LET share == [i \in DOMAIN weights |-> (total * weights[i]) \div TotalBps]
      dust == total - SumOf(share)
  IN  IF dust > 0 THEN [share EXCEPT ![largest_weight_index(weights)] = @ + dust] ELSE share

\* Calls every deployed strategy's principal back, then deploys all but the
\* reserve by weight.  With no allocation the call changes nothing.
rebalance(answer) ==
  LET home == FoldLeft(LAMBDA pos, s : IF pos.alloc[s].deployed > 0
                                       THEN recall(pos, s, pos.alloc[s].deployed, answer[s])
                                       ELSE pos, Position, order)
      weights == [i \in DOMAIN order |-> allocation[order[i]].weight_bps]
      deployable == (home.cash * (TotalBps - reserve_bps)) \div TotalBps
      share == split_by_weights(deployable, weights)
      sent(s) == share[CHOOSE i \in DOMAIN order : order[i] = s]
  IN  /\ order # <<>>
      /\ home.ok
      /\ net + home.earned <= MaxNet                    \* bound
      /\ SumOf(weights) = TotalBps                      \* split_by_weights' own check
      /\ \A s \in Range(order) : sent(s) > 0 => s \in whitelisted
      /\ allocation' = [s \in Strategies |->
           IF s \in Range(order) THEN [home.alloc[s] EXCEPT !.deployed = @ + sent(s)]
           ELSE allocation[s]]
      /\ balance' = [balance EXCEPT ![Token] = home.cash - SumOf(share)]
      /\ net' = net + home.earned
      /\ UNCHANGED <<schedule, whitelisted, order, reserve_bps, buyback, market, dist,
                     user_dist>>

\* Mutant of ensure_liquidity: gives up after the first strategy.
ensure_liquidity_first(needed, answer) ==
  LET first == Head(order)
      take == Lesser(needed - balance[Token], allocation[first].deployed)
  IN  IF balance[Token] >= needed \/ order = <<>> \/ allocation[first].deployed <= 0
      THEN Position
      ELSE recall(Position, first, take, answer[first])

\* Recalls along the order until the shortfall is covered.
ensure_liquidity(needed, answer) ==
  LET step(acc, s) ==
        LET take == Lesser(acc.outstanding, acc.pos.alloc[s].deployed)
        IN  IF acc.outstanding <= 0 \/ acc.pos.alloc[s].deployed <= 0 THEN acc
            ELSE [pos |-> recall(acc.pos, s, take, answer[s]),
                  outstanding |-> acc.outstanding - Returned(take, answer[s])]
  IN  IF balance[Token] >= needed THEN Position
      ELSE FoldLeft(step, [pos |-> Position, outstanding |-> needed - balance[Token]],
                    order).pos

claim_vested(beneficiary, answer) ==
  LET amount == claimable(schedule[beneficiary])
      pos == ensure_liquidity(amount, answer)
  IN  /\ schedule[beneficiary] # None
      /\ amount > 0
      /\ pos.ok
      /\ pos.cash >= amount                             \* the token's transfer
      /\ schedule' = [schedule EXCEPT ![beneficiary].claimed = @ + amount]
      /\ allocation' = pos.alloc
      /\ balance' = [balance EXCEPT ![Token] = pos.cash - amount]
      /\ net' = net + pos.earned - amount
      /\ UNCHANGED <<whitelisted, order, reserve_bps, buyback, market, dist, user_dist>>

---------------------------------------------------------------------------
(* Staking and yield distribution                                          *)

initialize_distribution ==
  /\ dist = None
  /\ dist' = [accumulator |-> 0, total_distributed |-> 0, total_staked |-> 0]
  /\ UNCHANGED <<schedule, whitelisted, allocation, order, reserve_bps, balance, buyback,
                 market, user_dist, net>>

\* Books a yield; the tokens are expected to be there already.
distribute_yield(amount) ==
  /\ amount > 0
  /\ dist # None
  /\ dist.total_distributed + amount <= MaxBalance      \* bound
  /\ dist' = [dist EXCEPT
       !.accumulator = IF dist.total_staked > 0
                       THEN @ + (amount * PRECISION) \div dist.total_staked ELSE @,
       !.total_distributed = @ + amount]
  /\ UNCHANGED <<schedule, whitelisted, allocation, order, reserve_bps, balance, buyback,
                 market, user_dist, net>>

pending_yield_internal(d) ==
  IF d.staked <= 0 \/ dist.accumulator <= d.checkpoint THEN 0
  ELSE (d.staked * (dist.accumulator - d.checkpoint)) \div PRECISION

NewUser == [staked |-> 0, checkpoint |-> dist.accumulator, claimed |-> 0, pending |-> 0]
UserDist(u) == IF user_dist[u] = None THEN NewUser ELSE user_dist[u]

settle(d) == [d EXCEPT !.pending = @ + pending_yield_internal(d),
                       !.checkpoint = dist.accumulator]

stake(u, amount) ==
  /\ amount > 0
  /\ dist # None
  /\ dist.total_staked + amount <= MaxStaked            \* bound
  /\ user_dist' = [user_dist EXCEPT ![u] = [settle(UserDist(u)) EXCEPT !.staked = @ + amount]]
  /\ dist' = [dist EXCEPT !.total_staked = @ + amount]
  /\ balance' = [balance EXCEPT ![Token] = @ + amount]
  /\ net' = net + amount
  /\ UNCHANGED <<schedule, whitelisted, allocation, order, reserve_bps, buyback, market>>

unstake(u, amount) ==
  /\ amount > 0
  /\ dist # None
  /\ user_dist[u] # None
  /\ amount <= user_dist[u].staked
  /\ balance[Token] >= amount                           \* the token's transfer
  /\ user_dist' = [user_dist EXCEPT ![u] = [settle(@) EXCEPT !.staked = @ - amount]]
  /\ dist' = [dist EXCEPT !.total_staked = @ - amount]
  /\ balance' = [balance EXCEPT ![Token] = @ - amount]
  /\ net' = net - amount
  /\ UNCHANGED <<schedule, whitelisted, allocation, order, reserve_bps, buyback, market>>

claim_yield(u) ==
  LET settled == settle(UserDist(u))
  IN  /\ dist # None
      /\ settled.pending > 0
      /\ balance[DistToken] >= settled.pending
      /\ user_dist' = [user_dist EXCEPT ![u] =
           [settled EXCEPT !.pending = 0, !.claimed = @ + settled.pending]]
      /\ balance' = [balance EXCEPT ![DistToken] = @ - settled.pending]
      /\ net' = IF DistToken = Token THEN net - settled.pending ELSE net
      /\ UNCHANGED <<schedule, whitelisted, allocation, order, reserve_bps, buyback,
                     market, dist>>

---------------------------------------------------------------------------
(* Fee liquidation and buybacks                                            *)

whitelist_amm == 
  /\ market' = [market EXCEPT !.amm = "amm"]
  /\ UNCHANGED <<schedule, whitelisted, allocation, order, reserve_bps, balance, buyback,
                 dist, user_dist, net>>

revoke_amm ==
  /\ market.amm # None
  /\ market' = [market EXCEPT !.amm = None]
  /\ UNCHANGED <<schedule, whitelisted, allocation, order, reserve_bps, balance, buyback,
                 dist, user_dist, net>>

set_stable_token(asset) ==
  /\ market' = [market EXCEPT !.stable = asset]
  /\ UNCHANGED <<schedule, whitelisted, allocation, order, reserve_bps, balance, buyback,
                 dist, user_dist, net>>

set_price_feed ==
  /\ market' = [market EXCEPT !.feed = "feed"]
  /\ UNCHANGED <<schedule, whitelisted, allocation, order, reserve_bps, balance, buyback,
                 dist, user_dist, net>>

\* The smallest delivery accepted, or 0 for Err(InvalidPrice).
min_out_from_price(amount_in, price, max_slippage_bps) ==
  IF price <= 0 \/ amount_in <= 0 THEN 0
  ELSE (((amount_in * price) \div PRICE_SCALE) * (TotalBps - max_slippage_bps)) \div TotalBps

\* price is what the feed answers, reported what the AMM says it delivered and
\* received what arrived.
liquidate_fees(asset, amount_in, max_slippage_bps, price, reported, received) ==
  LET min_out == min_out_from_price(amount_in, price, max_slippage_bps)
  IN  /\ market.stable # None /\ market.amm # None /\ market.feed # None
      /\ amount_in > 0 /\ max_slippage_bps < TotalBps /\ asset # market.stable
      /\ balance[asset] >= amount_in
      /\ min_out > 0
      /\ reported >= min_out /\ received >= min_out /\ received >= reported
      /\ balance' = [balance EXCEPT ![asset] = @ - amount_in, ![market.stable] = @ + received]
      /\ balance'[market.stable] <= MaxBalance          \* bound
      /\ net' = net + (IF market.stable = Token THEN received ELSE 0)
                    - (IF asset = Token THEN amount_in ELSE 0)
      /\ UNCHANGED <<schedule, whitelisted, allocation, order, reserve_bps, buyback,
                     market, dist, user_dist>>

\* The burn address is never the treasury itself.
set_buyback_config(fee_token, governance_token, min_amount_in) ==
  /\ min_amount_in > 0 /\ fee_token # governance_token
  /\ buyback' = [fee_token |-> fee_token, governance_token |-> governance_token,
                 min_amount_in |-> min_amount_in]
  /\ UNCHANGED <<schedule, whitelisted, allocation, order, reserve_bps, balance, market,
                 dist, user_dist, net>>

\* All that was received goes on to the burn address.
execute_buyback(amount_in, min_amount_out, reported, received) ==
  /\ buyback # None
  /\ amount_in > 0 /\ amount_in >= buyback.min_amount_in
  /\ min_amount_out > 0
  /\ balance[buyback.fee_token] >= amount_in
  /\ received >= min_amount_out /\ received >= reported
  /\ balance' = [balance EXCEPT ![buyback.fee_token] = @ - amount_in]
  /\ net' = IF buyback.fee_token = Token THEN net - amount_in ELSE net
  /\ UNCHANGED <<schedule, whitelisted, allocation, order, reserve_bps, buyback, market,
                 dist, user_dist>>

---------------------------------------------------------------------------
TreReceiveStep(assets) == \E a \in assets, n \in Deposits : Receive(a, n)
TreVestingStep ==
  \/ \E b \in Beneficiaries, c \in Schedules : add_schedule(b, c)
  \/ \E b \in Beneficiaries, r \in [Strategies -> Replies] : claim_vested(b, r)
TrePortfolioStep ==
  \/ \E s \in Strategies : whitelist_strategy(s) \/ revoke_strategy(s)
  \/ \E c \in Portfolios : set_allocations(c)
  \/ \E b \in Reserves : set_reserve_bps(b)
  \/ \E r \in [Strategies -> Replies] : rebalance(r)
  \/ \E s \in Strategies, p \in Deposits, r \in Replies : recall_strategy(s, p, r)
TreDistributionStep ==
  \/ initialize_distribution
  \/ \E n \in YieldSizes : distribute_yield(n)
  \/ \E u \in TreasuryUsers, n \in StakeSizes : stake(u, n) \/ unstake(u, n)
  \/ \E u \in TreasuryUsers : claim_yield(u)
TreMarketStep ==
  \/ whitelist_amm \/ revoke_amm \/ set_price_feed
  \/ \E a \in Assets : set_stable_token(a)
  \/ \E a \in Assets, n \in Trades, s \in Slippage, p \in Prices, x, y \in Trades :
       liquidate_fees(a, n, s, p, x, y)
  \/ \E f, g \in Assets, n \in Trades : set_buyback_config(f, g, n)
  \/ \E n, m, x, y \in Trades : execute_buyback(n, m, x, y)

TreStep ==
  TreReceiveStep(Assets) \/ TreVestingStep \/ TrePortfolioStep \/ TreDistributionStep \/ TreMarketStep

TreNext == (TreStep /\ UNCHANGED now) \/ (NextLedger /\ UNCHANGED treVars)

TreSpec == TreInit /\ ClockInit /\ [][TreNext]_<<treVars, now>>

---------------------------------------------------------------------------
(* Properties                                                              *)

\* No schedule is claimed past its total, and no balance, deployment or stake is
\* negative.
TreTypeOK ==
  /\ \A b \in Beneficiaries : schedule[b] # None => schedule[b].claimed \in 0..schedule[b].total
  /\ whitelisted \subseteq Strategies
  /\ \A s \in Strategies : allocation[s] # None =>
       allocation[s].deployed \in Nat /\ allocation[s].yield_earned \in Nat
  /\ order \in Seq(Strategies)
  /\ reserve_bps \in 0..TotalBps
  /\ balance \in [Assets -> Nat]
  /\ \A u \in TreasuryUsers : user_dist[u] # None =>
       user_dist[u].staked \in Nat /\ user_dist[u].pending \in Nat

\* claim_vested never runs ahead of the straight line of its schedule, and pays
\* nothing before the cliff.
ClaimsFollowSchedule ==
  \A b \in Beneficiaries : (schedule[b] # None /\ schedule[b].claimed > 0) =>
    /\ now >= schedule[b].start + schedule[b].cliff
    /\ schedule[b].claimed * schedule[b].duration
         <= schedule[b].total * Lesser(now - schedule[b].start, schedule[b].duration)

\* Every token received, earned or paid is accounted for: the cash and the
\* principal booked with the strategies of the portfolio are exactly what came
\* in less what went out, through rebalances, forced and manual recalls, short
\* answers and changes of the portfolio.
NothingStranded == balance[Token] + deployed_total = net

\* claim_vested: "a claim must never fail because governance parked the float in
\* a yield strategy": it can be served whenever the cash and the deployed
\* principal together cover it and the strategies honour their recalls.
ClaimsReachDeployedFunds ==
  \A b \in Beneficiaries :
    (/\ schedule[b] # None
     /\ claimable(schedule[b]) > 0
     /\ claimable(schedule[b]) <= balance[Token] + deployed_total)
      => ENABLED claim_vested(b, [s \in Strategies |-> [short |-> 0, yield |-> 0, missing |-> 0]])

\* The yield of a distribution is shared among the stakes of that moment: what
\* the users claimed and can still claim never exceeds what was distributed,
\* however stakes and claims interleave with the distributions.
YieldWithinDistributed ==
  dist # None =>
    /\ MapThenSumSet(LAMBDA u : UserDist(u).claimed + UserDist(u).pending
                                  + pending_yield_internal(UserDist(u)), TreasuryUsers)
         <= dist.total_distributed
    /\ dist.total_staked = MapThenSumSet(LAMBDA u : UserDist(u).staked, TreasuryUsers)

\* The four books of the treasury together, vesting, cash, portfolio and
\* distribution, which share one token balance.
TreasurySound ==
  /\ TreTypeOK /\ ClaimsFollowSchedule /\ NothingStranded
  /\ ClaimsReachDeployedFunds /\ YieldWithinDistributed
=============================================================================
