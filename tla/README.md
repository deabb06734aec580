# A verification of the Accensa contracts

TLA+ specifications of the Soroban contracts under `src/contracts/`, the TLC
models that check them on small instances, and TLAPS proofs of what holds for
every instance. `PROJECT.json` is the index: components, runs, mutants, the map
from definitions to source lines, findings, hazards and theorems.

## 1. The system

Soroban executes one transaction at a time. An entry point that returns an
error, or traps, is rolled back as a whole. Three things still make these
contracts hard to get right: a call made through a non-`try_` client traps its
caller, so a rejection by another contract is not an ordinary error; a caller
may swallow an `Err` of an internal function, and then nothing is rolled back;
and the protocols span many transactions of several parties, between which
ledgers close, policies change and the administration moves.

### Inventory

| Part | State | What is hard about it | Module |
|---|---|---|---|
| refund-vault: claims, policy, float, yield, tiers | records per payment, float, nonces, policy, strategies, ladder | ceilings over many partial claims; batches that continue after errors; traps inside batches; recalls hidden in other calls; a cached threshold | `RefundVault`, `VaultMath`, `RefundLedger` |
| refund-vault: collectibles, commit and reveal, migration | escrowed NFTs, commitments, storage version | the administration moves while they are pending | `VaultCustody` |
| refund-vault: oracles; oracle | whitelist; rounds of a feed | missing, stale and late rounds, a median over what is left | `PriceOracle` |
| refund-vault-factory | vaults, counter, defaults | addresses that collide, a reported total | `VaultFactory` |
| state-channel | channels, signed states, nonce window, hops, hashlocks | two parties, stale states, deadlines, reserved escrow | `StateChannel`, `NonceWindow`, `MultiAssetChannel` |
| receipt-anchor, receipt-shard | batches over shards, cursors, bounties, rate limits, the incremental tree | two levels of pruning, moved batches, derived counters | `ReceiptAnchor`, `ReceiptShard`, `IncrementalMerkle` |
| governance | members, proposals, ballots, queue, locks, bounties, liquid stakes | weights that change during a vote, a quorum that decays, one balance for several purposes | `Governance`, `GovernanceMath`, `QuadraticFunding`, `LiquidStaking` |
| multisig-account | signers, weights, limits, queue | three views of the signers, approvals that expire | `MultisigAccount` |
| treasury | schedules, portfolio, stakes, trades | rounding, funds that are deployed when they are due | `Treasury` |
| insurance | indices, positions, cash | separate roundings of totals and positions | `Insurance` |
| stream-vault | streams | accrual around pauses and the ends of a term | `StreamVault` |
| upto-authorization | authorizations, one allowance per buyer | authorizations that overwrite each other's allowance | `UptoAuthorization` |
| reputation | badges, scores, credentials | repeated reports, decay at reading and at writing | `Reputation` |
| privacy | concealed escrows, stealth deposits | decided once, paid to whom the proof names | `ConcealedEscrow`, `StealthDeposits` |
| refund-policy-vdf: fallback | disputes | ruled once | `ConcealedEscrow` |
| cross-chain | messages, nonces, guardian sets, requests | repeated, late and reordered delivery | `CrossChainBridge` |

### Parts and how they interact

The vault pays refunds from its float. It asks the time and VDF policy
contracts and the whitelisted oracles before a payment, pulls principal back
from the active yield strategy when the float is short, and splits every
payment with a fee recipient at the rate of the merchant's tier. The factory
deploys vaults; the governance contract can own them. The other contracts hold
escrow and records of their own and share only the helpers of `common`.

## 2. How the modules fit together

Every component has a module of its own; those added after the vault and the
channel extend `LedgerClock`, the one clock. `ReceiptAnchor` composes the router,
its shards and the tree; `QuadraticFunding` extends `Governance`, whose token
balance it pays from; `PriceOracle` composes the feeds with the vault's gate over
them. Contracts that share no storage are put side by side in an MC module:

| MC module | Components | Runs |
|---|---|---|
| `MCVaultMath` | `VaultMath`, `GovernanceMath` | `vault_math` |
| `MCRefundVault` | `RefundVault`, `RefundLedger` | `vault_claims`, `vault_money`, `vault_dust_reopens` |
| `MCStateChannel` | `StateChannel` | `channel_dispute`, `channel_escrow`, `channel_overcommitted` |
| `MCGovernance` | `QuadraticFunding`, `LiquidStaking` | `governance`, `funding_shared_balance` |
| `MCPools` | `Treasury`, `Insurance`, `StreamVault`, `MultiAssetChannel`, `StealthDeposits` | `pools` |
| `MCRecords` | `ReceiptAnchor`, `VaultCustody`, `PriceOracle`, `VaultFactory`, `ConcealedEscrow` | `records` |
| `MCAccounts` | `MultisigAccount`, `UptoAuthorization`, `Reputation`, `CrossChainBridge` | `accounts` |

In the last four, a variable `focus` is chosen in the initial state and never
changes. It names the contract, or the group of entry points of one contract, a
behaviour exercises. Contracts are independent, so nothing is lost between them;
within a contract, the groups are chosen so that entry points writing the same
entries are together, and what stays apart is said below.

The theorems are in eight modules, each over the components it extends:

| Proof module | About |
|---|---|
| `SumTheorems` | sums over finite sets: the library of the others |
| `RefundVaultProofs` | `VaultMath`, `RefundVault`, its refinement of `RefundLedger` |
| `StateChannelProofs` | `StateChannel`, `NonceWindow` |
| `GovernanceProofs`, `FundingProofs` | `GovernanceMath`, `Governance`; `QuadraticFunding` |
| `PoolProofs` | `StreamVault`, `MultiAssetChannel`, `StealthDeposits`, `LiquidStaking` |
| `SettlementProofs` | `Insurance`, `UptoAuthorization`, `VaultCustody`, `ConcealedEscrow` |
| `RegistryProofs` | `Reputation`, `VaultFactory`, `CrossChainBridge` |

The provers cannot instantiate an induction rule. Where a proof needs induction
over numbers it takes the least counterexample (`NatMin`); over finite sets it
states the property as the set of the sets that have it and adds an element at a
time (`GrowsTo`). From these two `SumTheorems` derives that the fold behind
`SumFunctionOnSet` has one solution on every finite set, and then what a step of
a contract needs: a sum with one summand more, less or changed, sums compared
summand by summand, and the sum along a list of different elements.

## 3. Modelling conventions

* One transaction is one action. An entry point that returns an error changes
  nothing, so its guard is false; only where a caller swallows an error or where
  errors and traps differ is the outcome of a call a value (`Ok`, `Err`, `Trap`
  with the books it leaves behind).
* Authorisation (`require_auth`) restricts who may take a step, not what the step
  does. It is left out where any party's call has the same effect, and is a
  guard on the acting address where the address matters.
* Ledger sequence and timestamp advance together in one clock `now`.
* TTL extension, events and error codes are left out. An event nonce is kept: it
  numbers the outflows.
* Each bound is a named constant (`MaxLedger`, `MaxNonce`, ...) in a guard.
* Other contracts and services (tokens, strategies, exchanges, gateways, relayers)
  are external: they answer anything their interface admits, within named bounds,
  and what they deliver arrives late, again or never.
* Hashes are injective constructors; a signature or a proof is what it binds, and
  once made it may be submitted by whoever has seen it.
* A definition that `PROJECT.json` lists as a mutant of the one after it is a
  plausible bug; a property that would not notice it would say nothing.
* A property of a run may be a conjunction of smaller ones, each defined and
  commented on its own above it; the sections below name the parts. What TLAPS
  proves for every instance is repeated in a run only where the run is also the
  place where the abstraction is tried out, or where nothing else of its contract
  would be: type correctness of the vault and the channel, `StrategyPinned`, `DisputeBounded`, `ReservationsExact`,
  `ScoreMovesByEvents` and `CredentialsBind` are proved and not repeated.

## 4. The refund vault

`VaultMath` holds the pure arithmetic of fees and ladders. `RefundVault` has the
contract's storage as two records, `cfg` (what the administration writes) and
`books` (what claims and money-moving calls write), the clock, and `tx`: the batch
in flight, which no other transaction interleaves with, and whose `saved` books
are restored when it reverts. `claim_single(b, fee_bps, c)` is the set of outcomes
of one claim: checks, the gates in the code's order (the first that does not pass
decides between an error and a trap), the ceiling, liquidity with a possible
recall, float check, fee split, and the record, timestamp, nonce and tier. The
strategy is an arbitrary replier: it reports principal and yield and sends any
amount. A call that moves money carries a nonce, any number up to the bound, which
must be the one expected of the administration (`ExpectedNonce`). `claimed`,
`ceiling`, `owed`, `proposed` and the accepted nonces are history variables.
`RefundLedger` is the abstract promise: records advance under their first ceiling,
only while the vault is not paused, batches committing as one step.

### Runs

| Run | Question |
|---|---|
| `vault_claims` | partial claims and both batch kinds with a reference repeated in a batch, behind every gate: a window, a deadline whose policy contract is missing, VDF, oracle, cooldown; proposals replaced and executed around the timelock while policy contracts come and go; pausing and handover. Ceilings hold for every item, one claim passes the cooldown, a policy waits out its timelock, and committed records implement the ledger |
| `vault_money` | one of three groups, chosen at the start (`focus`), beside claims and withdrawals: two yield strategies with four replies (honest, with yield, short-paying, rejected); fee rates up to 200% and ladders set, replaced and cleared while claims climb several rungs; coupons, dust, flash loans, token changes, pause and handover. Yield books and the cached tier stay exact, a failed batch item pays nothing, and every move is authorised |
| `vault_math` | `VaultArithmetic`: fee decomposition, split refunds, promotion; `GovernanceArithmetic`: integer roots, quorum decay, power of a lock, quadratic match; both against reference definitions on bounded inputs around every boundary |
| `vault_dust_reopens` | a statement of the documentation the code does not keep (section 11) |

The bounds are small because the state per payment is independent: three
references cover a fresh one, a repeated one and a legacy one; three nonces allow
three outflows, and a batch may use them all up; three ledgers cover inside and
outside of every window (delays are 1 or 2 ledgers). The groups of `vault_money`
do not run beside each other. They meet in the float and in the nonces, which
claims and withdrawals move in each of them; pausing runs beside all of them, and
the group about fees also deploys and recalls yield. Amounts are chosen so that a ceiling can be
met exactly, missed by one and exceeded. No run disables a definition.
Deadlock is checked in all of them: administration and the clock leave the vault
a step in every reachable state.

### Proofs

`RefundVaultProofs` proves, for all amounts and rates, that the overflow-free fee is
the least fee covering the rate (`FeeRoundsUp`), and, for every valid ladder, that
promotion from the cached threshold equals recomputation (`SettledExact`); the
latter picks the least rung above the volume and shows it unique.

Then it proves an inductive invariant `VaultInv`. `TypeOK` and the
safety invariants are not inductive: a batch in flight may revert to `tx.saved`,
so the saved books must satisfy everything the current ones do (`GoodBooks` on
both), records must have advanced between them, and the pending proposal must be
the recorded one. `GoodBooks(b, s, l)` splits into `RecordsGood`, `YieldGood` and
`TierGood`; one lemma per operation on books (`RecallGood`, `LiquidityGood`,
`SettledGood`, `ClaimGood`, ...) lifts to one lemma per group of actions.
Theorems: `TypeCorrect`, `CeilingsHold`, `YieldBooksHold`, `TierExact`.

From the same invariant follow the action properties `TimelockIsHonoured`,
`StrategyIsPinned`, `FailedItemsPayNothing` and, with `CommittedRecords` as the
refinement mapping, that the vault implements the ledger (`Refinement`).

The assumptions are those of `RefundVault`: the vault is neither a merchant nor a
customer, `None` is outside of the sets it is added to, inputs have the types of
their Rust parameters, bounds and delays are natural numbers.

Only model-checked: `CooldownAdmitsOnePerBatch`, which is about the one timestamp
of the whole vault and not about recipients (section 11), and `MovesAreAuthorised`,
whose four parts are that a paused vault moves nothing (`PausedMovesNothing`), that
every outflow is numbered (`OutflowsNumbered`), that the nonces accepted from an
administration are those below its counter, so none was skipped or used twice
(`NoncesInOrder`), and that a minted coupon keeps its terms (`CouponTermsKept`).

## 5. The state channel

`NonceWindow` is the sliding window of consumed nonces, the bitmap a set of
offsets. `StateChannel` has one action per entry point; `channels[c]` is the
stored record (`None` before opening and after a mutual close, which deletes it),
`locks[c]` the hops and hashlock payments with the reserved totals the contract
stores beside them, `bounties[c]` the watchtower's terms, `pool` the contract's
token balance, which all channels share. `flows`, `uses` and `filed_at` are
history. Three abstractions:

* a signature is membership in `Signed[c]`, the states the sender of a channel
  ever signs; whoever holds one may submit it at any time, in any order and
  repeatedly;
* a preimage may be known to anyone at any time, which allows every resolve the
  code allows;
* the states that differ only in who calls are one: the calls of a life cycle are
  permissionless or made by a party that can always choose to make them.

The code's ceiling checks, stale-state checks and nonce handling are repeated in
seven entry points; each is one operator (`FitsEscrow`, `NotStale`, `Recorded`)
where the seven texts agree, and is spelled out where one differs: `add_htlc`
leaves hashlock payments out of its ceiling, a close may repeat a nonce and lower
the balance, `claim` and `reclaim` pay one side only and leave the rest in the
contract.

`Spec` is the contract. `ExclusiveSpec` restricts it to behaviours in which no hop
is added to a channel while a hashlock payment is pending on it: outside of them
the escrow can be reserved twice (`channel_overcommitted`), and the properties
about money are stated under this condition.

### Runs

| Run | Question |
|---|---|
| `channel_dispute` | one channel, six signed states across two slides of a window of two nonces, delegation, bounties, mutual closes: nonces count once, balances do not regress, and every channel is settled in the end |
| `channel_escrow` | two channels over one token balance, under `Exclusive`; either a route over both with timeouts in and out of order, or every entry point on the first beside the escrow of the second, as chosen at the start: no channel lives at another's cost, settlements pay in full, and the upstream hop of a route outlives the downstream one |
| `channel_overcommitted` | a statement of the documentation the code does not keep (section 11) |

Bounds: windows and lifetimes of one or two ledgers, one extension of one ledger,
so that every deadline is met, missed by one and passed; the clock runs until the
latest possible settlement has been possible (`MaxLedger` 9; 3 in the
runs about money, where a close, a window and a dispute fit). An escrow of 2 or 3
tokens with locks of 1 and 2 can be exhausted exactly and exceeded by one. The
second channel of `channel_escrow` only has to be there when no route is asked
for, so its other steps are left out then. Deadlock is not checked in the channel's
runs: when all channels are settled and the clock is at its bound there is nothing
left to do.

Fairness (`channel_dispute` only): the clock ticks, and `finalize_dispute`, `claim`
and `reclaim`, which require nobody's authorization, are called by somebody when
they stay possible. Nothing is assumed about the parties' other calls.

### Proofs

`StateChannelProofs` proves `ChanInv`, from which types, once-only nonces, bounded
disputes and exact reservations follow (`ChannelTypes`, `NoncesOnce`,
`DisputesEnd`, `ReservationsAreTotals`), for any number of channels, any window
size and all amounts. None of them is inductive alone. That a nonce counts once
needs `WindowGood`: every nonce counted before is below the base or in the
bitmap; sliding keeps this because the base of the new bucket is beyond every
nonce of the old window (`LaterBucket`). That a dispute is bounded needs the exact
number of extensions. Reservations are totals of sequences of any length: the
invariant carries a witness function of running totals, which avoids induction;
`TotalAppend` and `TotalSettle` adapt the witness.

It then proves, under `ExclusiveSpec`, that the balance and all
reservations fit in the escrow (`EscrowCovers`, which fails without the condition)
and that the escrow is what was paid in and not yet paid out (`EscrowInv`, with
the cap on the bounty so that the receiver's share stays non-negative), hence `EscrowAlwaysCovers`, `EscrowAlwaysBacked` and
`EndsPayInFull`; and under `Spec` that balances regress only in a close
(`BalancesNeverRegress`) and, from an invariant on the links of routes, that an
upstream hop outlives its downstream hop (`UpstreamOutlives`).

The assumptions (`ChannelAssumption`, `ChannelBoundAssumption`,
`WindowAssumption`) give the inputs the types of their Rust parameters, place
`None` outside of the records and bound the reward by 100%.

Only model-checked: `EveryChannelEnds`, because the prover has no support for
liveness under fairness.

## 6. Governance

`Governance` has the contract's storage: `gov` (totals, configuration, counters),
members' deposits, proposals, the markers of ballots (voted, dissent, left,
anonymous, key image), the timelock queue, the optimistic track, locks of the vote
escrow and the contract's token balances. `cast` and `queued_at` are history.
A ring signature is its key image together with the ring it was made for; a call
a proposal carries either returns or traps, which rolls everything back.
`GovernanceMath` holds the integer roots, the decaying quorum, the power of a lock
and the quadratic match, with the widths of `u64` and `u128` as constants small
enough to be reached. `QuadraticFunding` pays matches out of the balance that also
backs leaving members and other bounties. `LiquidStaking` keeps books only; what a
burn redeems is cut to the width of `u64`, as the cast in the code cuts it, and the
rates of the run reach past it.

| Run | Question |
|---|---|
| `governance` | eight groups. *ballot*: public and anonymous ballots of three unequal members and execution; *timelock*: approval, queueing and maturity while the quorum decays; *exit*: members leave with a share of funds that arrive meanwhile; *locks*; *simulation*: reports and proposals on their strength; *optimistic*: submission, vetoes by lock power, execution; *funding*: donations, matches and funds; *staking*. A member has one ballot whichever way it is cast, approval once reached is lost to votes only and never to time, nothing executes before its delay, an exit never dilutes those who stay, a vetoed submission never executes, locks and stakes are covered |
| `funding_shared_balance` | a statement of the documentation the code does not keep (section 11) |

Bounds: members with weights 2, 2 and 3 make ties and single-vote majorities; a
voting period of 1 or 2, delays of 1 and four ledgers put every deadline one ledger
before, at and after a call; one proposal is followed through its life and two are
used where they compete; donations of 1 and 2 to two bounties by three donors make
the match differ from the sum. Deadlock is not checked: when the proposals are
decided and the clock is at its bound, nothing is left to do. `LocksBacked` assumes
that the locked token is not the treasury's, which `set_ve_token` does not check.

| Property | What it says |
|---|---|
| `VotesSound` | types; one ballot a member in either mode (`OneBallotEach`); totals the members left can reach (`TotalsFollowMembers`); no submission both vetoed and executed (`VetoExcludesExecution`) |
| `ApprovalLostByVotesOnly` | time and exits never take an approval away |
| `GatesHold` | the delay after queueing (`TimelockHolds`), and a report for this id and call before a proposal (`SimulationGatesProposals`) |
| `StayersNotDiluted` | an exit never lowers what a unit of deposit is worth |
| `FundsBacked` | locked tokens are held (`LocksBacked`), a bounty's sums are those of its donors (`BountySumsExact`), paid once and in full (`PaidOnceInFull`) |
| `StakesKept` | the supply is covered (`SupplyCovered`) and a balance falls only after the latest mint's lock (`StakeStaysLocked`); what is redeemed is not bounded by it |

### Proofs

`GovernanceProofs` proves for every number that `isqrt` is the floor of the square
root (`RootIsExact`): the estimate `1 << ceil(bits / 2)` is not below the root, the
descent never steps under it, and where it stops it is exact. `FundingProofs` adds
the wide root (`WideRootIsExact`).

`GovInv`, the inductive invariant of the contract, is a conjunction of one
invariant per concern: `MembersInv` (`total_deposits` is the sum of the deposits,
`total_weight` at most the weight they carry), `BallotsInv` (a counted ballot left
the marker that excludes the next), `ProposalsInv` (ids and creation ledgers),
`GatesInv` (reports and maturity of queue entries), `HoldingInv`, `OptimisticInv`.
From it follow `VotesAlwaysSound`, `ApprovalAlwaysLostByVotesOnly` (the quorum does
not rise with time, an exit only shrinks the denominator), `GatesAlwaysHold` and
`StayersNeverDiluted` (a floor of a share of a total that is the sum), for every
membership, weights, delays and interleaving.

`FundingProofs` proves, for funding and governance together (`QfSpec`),
`BountiesAlwaysExact` from `BountiesInv`, in which the running sums of a bounty are
sums over its donors, and `FundsAlwaysBacked`, which adds `LocksBacked` under the
hypothesis that no token of the vote escrow is a treasury token: no call checks it,
and without it an exit may pay out locked tokens.

`PoolProofs` proves `StakesAlwaysKept`: `StakingInv` adds to the covered supply that
the lock in an entry starts at the staker's latest mint.

The assumptions (`GovernanceAssumption`, `FundingAssumption`, `StakingAssumption`)
are the types of the Rust parameters, finite sets of accounts, and `None` outside of
the stored records. Only model-checked: `GovernanceArithmetic` of the run
`vault_math` where it is about the quorum, the power of a lock and the match.

## 7. Pools: treasury, insurance, streams, multi-asset channels, stealth deposits

* `Treasury`: vesting schedules; the portfolio, its weights and recalls; staking
  with an accumulator; liquidation and buyback. A strategy may return less than it
  was given or more; an exchange returns anything above the floor the code sets.
  `net` is history: what came in and was earned less what was paid out.
* `Insurance`: the indices and positions with every rounding of the code, at a
  fixed-point scale of 1000 and years of two seconds, so that interest and its
  rounding both show within three ledgers.
* `StreamVault`: streams with their shifted schedules; `ran` counts the ledgers a
  stream really ran.
* `MultiAssetChannel`: states carry a balance per asset; whoever holds one may
  submit it at any time.
* `StealthDeposits`: deposits under one-time keys, and claims with a proof that
  names its recipient.

The run `pools` takes each of the five alone, the treasury in three groups
(*portfolio* with vesting, *yield*, *market*), which share the token balances only.
It shows that claims follow their schedules and reach deployed funds, that
reweighting strands nothing, that yield paid stays within yield distributed and
that an accrual adds no more to the total supply than to the total debt, that a stream charges exactly the ledgers it
ran whatever the order of pauses, that channels conserve each asset and settle on
balances of one signed state, and that a stealth deposit is paid once, to a
recipient its key was proved for.

Bounds: amounts that do not divide evenly (7 in thirds, 37 at two percent); terms
that start now, later and at the pause; six signed states with repeated nonces,
a missing asset and an amount over the deposit. The clock runs to 3, for channels
to 9, past the last settlement. Fairness (only for `EveryPoolSettles`): ledgers
close, and `settle_multi_asset_channel`, which needs nobody's authorization, is
called by somebody when it stays possible.

| Property | What it says |
|---|---|
| `TreasurySound` | types; claims on their schedule (`ClaimsFollowSchedule`); cash and principal add up to what came in less what went out (`NothingStranded`); a claim the funds cover can be made (`ClaimsReachDeployedFunds`); yield within what was distributed (`YieldWithinDistributed`) |
| `InterestFollowsDebt` | types; an accrual adds no more to the total supply than to the total debt (`YieldWithinInterest`), which says nothing of what single positions add up to (section 11); a debt falls only by what is paid in (`DebtFallsByRepayment`) |
| `StreamsSound` | types; the balance is the unclaimed principal (`EscrowIsUnclaimedPrincipal`); the charge is for ledgers run (`ChargedForLedgersRun`); all of it at the stop (`PaidOutAtStop`) |
| `AssetsSound` | types; each asset conserved (`AssetsConserved`); balances of one signed state (`BalancesAreOneState`) |
| `NewestStateHasItsWindow`, `EveryPoolSettles` | a full window after the newest state; in the end a settlement |
| `ClaimsReachTheirRecipient` | paid in full, once, to a recipient the key was proved for, the rest staying backed (`StealthBacked`). A proof names the pair of keys and the recipient, not the deposit: when a pair is used again after its claim, whoever has the old proof can claim the new deposit, for the recipient the proof names |

### Proofs

`PoolProofs`, for any number of streams, channels, assets and deposits:

* `StreamsAlwaysSound`: the charge is not inductive in terms of the shifted
  schedule; `StreamInv` counts the ledgers a stream ran until it was last paused
  (`RunUntil`) and has the balance as the sum of the unclaimed principals;
* `AssetsAlwaysSound` and `NewestStateAlwaysHasItsWindow`, from `MaInv`: the balance
  held of each asset is the sum of the deposits of the channels not settled;
* `ClaimsAlwaysReachTheirRecipient`, from `StealthInv`, a sum over the deposits of
  each token.

`SettlementProofs` proves `InterestAlwaysFollowsDebt`: with the indices at least one
and the debts natural numbers (`PoolInv`), the reserve factor outweighs the roundings
of an accrual. Its assumption on the constants of `interest.rs` compares the least
rate of a second with the reserve factor; the constants of the code meet it.

Only model-checked: `TreasurySound`, one conjunct of which is about `ENABLED`, and
`EveryPoolSettles`, which is liveness.

## 8. Records: receipts, custody, feeds, factory, decisions

* `ReceiptShard` gives the shard after each operation; `ReceiptAnchor` is the
  router over shards that it deploys as ids reach them, with rate limits, duplicate
  checks, its own pruning cursor and consolidation. A shard's `insert_migrated_batch`
  is reached by a consolidation and, since it only asks for the authorization of an
  address its caller names, by a direct call with any record (`InsertMigrated`).
  `anchored`, `inserted`, `era`, `leaves` and others are history. `IncrementalMerkle` is the frontier tree, compared with the
  tree built from all leaves at once, for up to 9 leaves in a tree of depth 4.
* `VaultCustody`: escrowed collectibles and commitments under an administration
  that is handed over meanwhile.
* `PriceOracle`: feeds whose rounds are pushed late, again and out of order, and the
  vault's median over those that are fresh.
* `VaultFactory`: three ways to deploy, with the addresses they derive, and the
  reported total.
* `ConcealedEscrow`: escrows decided by the first proof examined, and fallback
  disputes ruled by the named oracle.

The run `records` has ten groups: *limits*, *prune*, *consolidate* and *tree* of the
receipts; *nft* and *commit* of the custody; *feeds*, *factory*, *concealed* and
*fallback*. It shows that an anchored batch reads back from where the router looks
until it is pruned, unless a migration or a direct insertion touched its id, that pruning removes prefixes and pays once per batch, that all
counters equal what they count, that a stream never anchors more than its limit
admits in any span, that a collectible goes to one of its two parties, a commitment
is revealed by whoever made it, a permitted price has half of the fresh answers on
its side, and verdicts are final.

Bounds: shards of two batches and three batches per stream put a shard boundary
inside every walk; retention of two ledgers of four; three feeds, so that one may be
stale and one missing. The four groups of receipts run apart, except that
*consolidate* prunes too, over two streams of one shard each with their roots in a
fixed order, and inserts one record directly; one call names two shards, so no third
one adds a case. Deadlock is not
checked: bounded histories fill up.

| Property | What it says |
|---|---|
| `ReceiptsCounted` | types; counters equal what they count (`StatsExact`, `DiagnosticsExact`), the rate in any span (`RateBound`), bounties (`BountiesEarned`) |
| `ReceiptsReadBack` | a batch no migration touched reads back as anchored (`AnchoredReadsBack`); every record held was anchored under its id or inserted by a direct call (`RecordsHaveASource`); nothing is left behind a cursor (`PrunedPrefixGone`), no root twice in a row (`NoDuplicateInSequence`), the incremental root is the batch root (`IncrementalRootIsBatchRoot`) |
| `CustodyKept` | what is escrowed is held, goes to its parties, and a commitment is consumed by its maker after the delay |
| `FeedsSound` | half of the fresh feeds, which may be few of the whitelist, stand behind a permission (`PermittedByHalf`), each by its newest round (`LatestIsNewest`) |
| `VaultsCounted` | the reported total is what the vaults hold (`TvlIsLockedValue`), and the addresses the counter has still to reach are free, except those taken with a supplied salt, by whichever merchant (`CounterAddressesFree`) |
| `VerdictsFinal` | decided once, for the terms at creation, by a proof that meets them (`VerifiedMeetsFloor`); ruled once, by the named oracle (`RuledOnce`) |

### Proofs

`SettlementProofs` proves `CustodyAlwaysKept` (`CustodyInv`: every escrowed token is
the vault's, which needs that the vault is no party) and `VerdictsAlwaysFinal`
(`ConcealedInv`, `FallbackInv`: the slots of proofs and rulings follow the escrows and
disputes that exist). `RegistryProofs` proves `VaultsAlwaysCounted`: `FactoryInv` says
that the list names every vault once, so the total over the list is the sum over the
vaults (`SumReindex`), and that the counter has not passed the list.

Only model-checked: `ReceiptsCounted` and `ReceiptsReadBack`, whose tree is a recursive
operator, and `FeedsSound`, whose median sorts a sequence; the library has no theorems
about `SelectSeq` and sorting.

## 9. Accounts: multisig, authorizations, reputation, bridge

* `MultisigAccount` keeps the three views of the signers the code keeps (markers,
  weights, list): authorizations are tallied over the first two, the checks that
  keep the threshold reachable read the third. Nobody signs for the zero address,
  which rotation refuses while the constructor and `add_signer` take it: it is
  offered to all of them. A refused execution or approval of the queue keeps the
  stale approvals it pruned (`execute_refused_stale`, `approve_refused_voted`).
* `UptoAuthorization`: payments of a buyer over the one allowance the token stores.
* `Reputation`: badges, scores and credentials, with the score's constants as in the
  code except for a faster decay; badges are earned at 2, 3 and 4 disputes.
* `CrossChainBridge`: any delivered message may arrive at any time, any number of
  times.

The run `accounts` has nine groups: *signers*, *limits*, *queue*; *upto*; *badges*,
*credit*, *credentials*; *inbound*, *outbound*. It shows that the registered weight reaches the
threshold through every rotation, that delegated spending stays within the daily
limits of all signers it counts against, that nothing executes on expired approvals,
that a buyer never pays more than granted, that each dispute, escrow and message
counts once, and that settlements are final and covered by their peer's nonce.
In *limits* a signer comes and goes; in *queue* those who approved are removed, one
alone or two in a rotation, also while paused.

Bounds: weights at zero, one and close to the largest `u32`, which is 4 here; two windows of two
ledgers; messages that repeat an id on another chain, packets of two peers that
disagree, guardian sets with quorums that are met, missed by one, repeated, out of
order and signed by the wrong key.

| Property | What it says |
|---|---|
| `MultisigSound` | types; the weights registered, that of the zero address included, reach the threshold (`QuorumReachable`); daily limits over transfers and authorizations (`DailyLimitHolds`); approvals on record are those of the queue (`ApprovalsFollowQueue`) |
| `AccountGuarded` | execution on fresh approvals of distinct signers (`ExecutesOnFreshApprovals`); while paused nothing is spent and, but for the pause and the guardian, nothing is configured except by a rotation (`PausedOnlyRecovers`) |
| `GrantsKept` | types; an allowance belongs to an open grant (`AllowanceIsGranted`); payments within it (`PaidWithinGrant`) |
| `ReputationSound` | types; badges, completions and fees follow the recorded events (`BadgesEarned`, `CompletionsCounted`, `FeesFollowScores`) |
| `DeliveredOnce` | types; one credit per message (`CreditedOncePerMessage`), nonces that cover the settlements (`NoncesCoverSettlements`), first resolutions that stand (`ResolutionsFinal`), quorums of distinct guardians (`AttestedByQuorum`), requests that match burns (`RequestsMatchBurns`) |

### Proofs

`RegistryProofs` proves of the reputation registry, for all holders, disputes, escrows
and all constants the assumptions `ScoreAssumption`, `ThresholdAssumption`,
`TierAssumption` and `NoneAssumption` admit:

* `ScoresInRange`: `RepInv` (types, and no record dated after the present ledger) is
  inductive; growth and penalty are shares of a headroom (`ShareBounds`), decay
  stays between score and floor (`DecayBounds`);
* `CredentialsBound`, from `RepInv`, one step per action on credentials;
* `ScoresMoveByEvents`: decay read later is never higher (`DecayFalls`), so an event
  applied to the decayed score cannot give back what time has taken;
* `BadgesAlwaysEarned`: `EarnedInv` adds that there are no badges before
  initialization; recording a new dispute adds one element to a finite set
  (`FiniteSetTheorems`), and the best tier of a count does not fall (`TierGrows`);
* `ReputationAlwaysSound`: with `CountInv`, completions are the escrows recorded and
  the fee follows the score under whatever cut-offs are set.

It proves of the bridge `AlwaysDeliveredOnce`, from `BridgeInv`: credits are sums over
the messages delivered, settlements are covered by the nonce of their peer, and there
are no requests before initialization, which resets their numbers.

`SettlementProofs` proves `GrantsAlwaysKept`: `UptoInv` adds to it what every stored
record satisfies, its settled amount included (`RecordGood`).

Only model-checked: the multisig account, which removes signers and approvals with
`SelectSeq`, about which the library has no theorems.

## 10. What is not modelled

`PROJECT.json` lists every part with its status. Three kinds of code stay out for
good: cryptography (signatures, ring signatures, Groth16, VDF and VRF
verification), whose results are inputs of the models; the layout of storage,
events, TTLs and error codes; byte formats of other chains. Further:

* the vault's permits, because no entry point calls `deposit_with_permit`, and the
  replacement of its WASM;
* the time policy and the signing domain, which compute an answer and keep no state
  between calls that a run could interleave; the vault's model has their outcomes;
* the helpers of `common` (authorization, TTL, formatting), which change no state of
  their own;
* subchannels and batch signatures of the channel, verifiable randomness and the
  treasury's sweep, which are pure computations, one write behind a proof, or
  library code without an entry point;
* tests, mocks, fuzz targets and deployment scripts.

Arithmetic is unbounded in the models except where a width matters: the
contracts use checked `i128` arithmetic, and a call that overflows is rolled back,
which is the absence of a step. Where the code casts to a narrower type, the model
cuts too (`burn`). `channel.opened_at + max_lifetime` and similar
sums of `u32` ledgers are unchecked in the source and would trap near 2^32, some
centuries away.

Liveness, `ENABLED` (`ClaimsReachDeployedFunds`) and properties of recursively
computed values are out of the prover's reach and are left to TLC.

## 11. Where documentation and code disagree

The first three are runs that TLC refutes; `PROJECT.json` quotes both sides. The
others are visible in the definitions named last, which follow the code; where a
property touches such a case, it states what the code does, and its comment says so.

| Where | The documentation says | The code does |
|---|---|---|
| run `vault_dust_reopens` | the first claim fixes the ceiling for good | sweeping dust deletes the record, the next claim starts afresh |
| run `channel_overcommitted` | balance and reservations never exceed the escrow | adding a hop disregards hashlock payments |
| run `funding_shared_balance` | a match is covered net of the donations held for all bounties | only those of the bounty being completed are subtracted |
| `refund-vault/src/lib.rs:1426` | an item that fails with an expired window is recorded as `false` and the batch continues | the policy contract's rejection traps and aborts the batch (`claim_single`) |
| `refund-vault/src/lib.rs:1385` | an empty batch is a no-op | it consumes the caller's nonce (`claim_batch`) |
| `refund-vault/src/lib.rs:765` | a rung crossed by a claim applies from the next claim on | it applies from the next call on (`tx.fee_bps`) |
| `refund-vault/src/strategy.rs:280` | the strategy lock is held around the call | an error of the strategy, swallowed by a batch, leaves it set (`books.lock`) |
| `refund-vault/src/lib.rs:150`, `:1714`, `:1731`, `test.rs:394` | the cooldown is between successive claims of the same recipient | one timestamp serves the whole vault, as the comment at `:883` says: a claim starts the cooldown of all recipients (`ClaimTime`, `CooldownAdmitsOnePerBatch`) |
| `refund-vault/src/oracle.rs:14`, `lib.rs:1890`, `docs/SECURITY_MODEL.md:99` | to move the median one must control a majority of the whitelist | only the fresh feeds count, and of an even number of them the middle two are averaged: with all others stale, one of two fresh feeds can decide (`median`, `PermittedByHalf`) |
| `refund-vault-factory/src/lib.rs:97`, `README.md:325`, `CHANGELOG.md:1195` | nobody can take an address of another merchant's counter salts | `create_vault` takes any salt, also the next one of another merchant's counter, whose `deploy_vault` is then refused (`create_vault`, `CounterAddressesFree`) |
| `state-channel/src/htlc.rs:31` | no hop of a closed channel is refunded | the phase is not checked (`refund_htlc`) |
| `state-channel/src/htlc.rs:15` | an intermediary is never out of pocket | a hop can be resolved after its timeout and after the refund upstream (`resolve_htlc`) |
| `state-channel/src/lib.rs:625` | every accepted counter-evidence restarts the window | only late ones move it, by a fixed step (`extend_window_on_late_counter_proof`) |
| `receipt-anchor/src/lib.rs:767` | a minimum interval between consecutive anchors | it is stored and never read (`set_min_anchor_interval`) |
| `receipt-anchor/src/lib.rs:1055` | batches with ids up to and including the pruned-up-to id are pruned | the cursor is the first id not pruned (`shard_prune_end`, `PrunedPrefixGone`) |
| `receipt-shard/src/consolidation.rs:3`, `:108` | a shard takes a migrated record only from a source shard started by the router; no external caller can insert one | the source is an argument and only has to authorize the call, so any address can insert any record under a free id of an active shard, which the router then reads (`InsertMigrated`, `RecordsHaveASource`) |
| `multisig-account/src/signers.rs:8` | zeroed addresses are prevented | only the rotation refuses them; the constructor and `add_signer` register them, and their weight counts towards the threshold that nobody can sign for (`add_signer`, `QuorumReachable`) |
| `multisig-account/src/lib.rs:332` | the threshold is written exactly once | a rotation writes it too (`rotate_signers_and_threshold`) |
| `reputation/src/sbt.rs:51` | governance revokes a credential and issues one of the new tier | a revoked owner is never issued another (`issue`, `CredentialsBind`) |
| `privacy/src/stealth.rs:330` | a pair of keys already used is refused | a claim removes the entry, and the pair is accepted again (`stealth_deposit`) |
| `privacy/src/stealth.rs:255` | a proof cannot be replayed for another deposit | it binds the pair of keys, so it also claims a later deposit under the same pair, though never for another recipient (`claim_challenge`, `stealth_claim`) |
| `privacy/src/lib.rs:7` | an amount below the floor marks the escrow rejected | it is an error and leaves the escrow pending (`verify_escrow`) |
| `insurance/src/lib.rs:223` | interest accrued is folded into the user's balance | a position grows by the difference of the indices without dividing by its checkpoint, while the totals grow by the quotient: who joins when the index is above one is credited, and charged, more than the totals accrue (`settle_view`, `YieldWithinInterest`) |
| `governance/src/liquid_staking.rs:89`, `:303` | an exchange rate that was never set is the error `NotInitialized` | the rate is one to one until `initialize` (`LsInit`) |
| `governance/src/liquid_staking.rs:206` | a burn redeems the amount times the rate | the result is cut to 64 bits without an error (`burn`) |
| `upto-authorization/src/lib.rs:458` | expired authorizations are pruned | `prune_authorizations` removes nothing, and is no action of the model; `prune_authorization` is |

Some limits of the code are documented or deliberate, and the models keep them: an
optimistic submission can be executed at once, inside its challenge window; a
LayerZero packet overtaken by a later nonce of its peer can never settle; Axelar
message ids are told apart by the id alone; guardian sets of the past stay valid;
round 0 of a feed can be written again; `initialize` of liquid staking can be
repeated and restarts the totals, not the stakers' entries.
