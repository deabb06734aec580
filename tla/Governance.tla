----------------------------- MODULE Governance -----------------------------
(***************************************************************************)
(* contracts/governance: quadratic voting, the decaying quorum, anonymous  *)
(* ballots, the timelock, ragequit, simulation reports, the optimistic     *)
(* track and the vote escrow.                                              *)
(*                                                                         *)
(* An entry gated by the contract's own authorization is a step the host   *)
(* may grant at any time.  The target of an executed call is external: it  *)
(* returns (the step) or traps (rolled back, no step), and the host admits *)
(* no call back into the contract while it runs.  Temporary entries are    *)
(* extended to the last ledger that reads them, so none is modelled as     *)
(* expiring.                                                               *)
(***************************************************************************)
EXTENDS LedgerClock, GovernanceMath, Sequences, FiniteSets, Functions

CONSTANTS Accounts,          \* addresses
          Constitutions,     \* constructor arguments
          Calls,             \* (target, function, args) a proposal may carry
          Keys, ValidKeys,   \* voting keys, and the ones that decode
          Rings,             \* anonymity sets: sequences of keys
          Simulators,        \* addresses of simulators
          Tokens, TreasuryTokens, VeTokens,
          LockAmounts, Unlocks, FundAmounts,
          RAGEQUIT_WINDOW, TIMELOCK_DELAY_LEDGERS, OPTIMISTIC_CHALLENGE_WINDOW,
          MIN_LOCK_LEDGERS,
          MaxProposals, MaxHolding

VETO_THRESHOLD_BPS == 6667
MAX_MEMBERS == 32
Outcomes == {0, 1}           \* SIM_OK and a revert

Ids == 1..MaxProposals

\* The stored records.
Proposal == [proposer : Accounts, call : Calls, yes_weight : 0..U64Max, no_weight : 0..U64Max,
             deadline_ledger : Nat, executed : BOOLEAN]
SimulationConfig == [simulator : Simulators \cup {None}, required : BOOLEAN]
SimulationReport == [simulator : Simulators, outcome : Outcomes, sim_hash : Ids \X Calls]
QueuedTransaction == [call : Calls, execution_ledger : Nat]
OptimisticProposal == [proposer : Accounts, call : Calls, challenge_deadline_ledger : Nat,
                       veto_weight : 0..U64Max, executed : BOOLEAN, vetoed : BOOLEAN,
                       vetoes : SUBSET Accounts]
Lock == [amount : Nat \ {0}, start_ledger : Nat, unlock_ledger : Nat]

\* The widths of the arguments, and that no stored value is taken for none.
ASSUME GovernanceAssumption ==
  /\ IsFiniteSet(Accounts) /\ U64Max \in Nat /\ MAX_LOCK_LEDGERS \in Nat \ {0}
  /\ \A c \in Constitutions :
       /\ c.members \in Seq(Accounts) /\ c.deposits \in Seq(Nat)
       /\ c.threshold_bps \in Nat /\ c.voting_period \in Nat
  /\ Rings \subseteq Seq(Keys)
  /\ TreasuryTokens \subseteq Tokens /\ VeTokens \subseteq Tokens /\ None \notin Tokens
  /\ LockAmounts \subseteq Int /\ Unlocks \subseteq Nat /\ FundAmounts \subseteq Nat
  /\ TIMELOCK_DELAY_LEDGERS \in Nat /\ OPTIMISTIC_CHALLENGE_WINDOW \in Nat
  /\ RAGEQUIT_WINDOW \in Nat /\ MIN_LOCK_LEDGERS \in Nat /\ MaxProposals \in Nat
  /\ None \notin Nat /\ None \notin Keys /\ None \notin Proposal
  /\ None \notin SimulationConfig /\ None \notin SimulationReport
  /\ None \notin QueuedTransaction /\ None \notin OptimisticProposal /\ None \notin Lock

VARIABLES
  gov,         \* the instance entries: totals, configuration, counters
  deposit,     \* MemberDeposit; 0 stands for no entry
  quarantined, \* Quarantined
  proposal,    \* Proposal
  ballot,      \* the Voted, Dissent, Ragequit, AnonymousVoting and KeyImage markers
  voting_key,  \* MemberVotingKey (and its inverse VotingKeyMember)
  report,      \* SimAttestation
  queued,      \* TimelockKey::Queued
  optimistic,  \* OptimisticProposal with its OptimisticVeto markers
  lock,        \* VeKey::Lock
  holding,     \* token balances of the contract
  cast,        \* ghost: ballots counted per proposal and member
  queued_at    \* ghost: the ledger a proposal was queued on

govVars == <<gov, deposit, quarantined, proposal, ballot, voting_key, report, queued,
             optimistic, lock, holding, cast, queued_at>>


---------------------------------------------------------------------------
(* Weights and approval                                                    *)

lock_power(l) == power_for(l.amount, Most(l.unlock_ledger - now, 0))

voting_power(a) == IF lock[a] = None THEN 0 ELSE lock_power(lock[a])

\* The escrowed power is added to the input of the root.
quadratic_weight(a) ==
  IF deposit[a] = 0 THEN 0 ELSE isqrt(Least(deposit[a] + voting_power(a), U64Max))

\* Elapsed is counted from the ledger the proposal was created on.
QuorumMet(p) ==
  LET elapsed == now - (p.deadline_ledger - gov.voting_period)
  IN  p.yes_weight * BPS
        >= gov.total_weight * current_quorum_bps(gov.threshold_bps, elapsed, gov.voting_period)

\* timelock::is_approved, and the condition of execute.
is_approved(p) == QuorumMet(p) /\ p.yes_weight > p.no_weight

ragequit_is_approved(p) == gov.total_weight # 0 /\ p.yes_weight > p.no_weight /\ QuorumMet(p)

Pending(id) == proposal[id] # None /\ ~proposal[id].executed

---------------------------------------------------------------------------
(* The constructor                                                         *)

\* c: the members and deposits as the constructor's two vectors.
__constructor(c) ==
  LET n == Len(c.members)
      deposits == [a \in Accounts |->
                     LET at == {i \in 1..n : c.members[i] = a}
                     IN  IF at = {} THEN 0 ELSE c.deposits[CHOOSE i \in at : TRUE]]
  IN  /\ n = Len(c.deposits)
      /\ n \in 1..MAX_MEMBERS
      /\ c.threshold_bps \in 1..BPS
      /\ c.voting_period # 0
      /\ \A i \in 1..n : c.deposits[i] # 0
      /\ IsInjective(c.members)
      /\ SumFunction(deposits) <= U64Max
      /\ deposit = deposits
      /\ gov = [total_weight |-> SumFunction([a \in Accounts |-> isqrt(deposits[a])]),
                total_deposits |-> SumFunction(deposits),
                threshold_bps |-> c.threshold_bps, voting_period |-> c.voting_period,
                count |-> 0, optimistic_count |-> 0, treasury_token |-> None,
                ve_token |-> None, timelock |-> FALSE, simulation |-> None]

GovInit ==
  /\ \E c \in Constitutions : __constructor(c)
  /\ quarantined = [a \in Accounts |-> 0]
  /\ proposal = [i \in Ids |-> None]
  /\ ballot = [voted |-> {}, dissent |-> {}, ragequit |-> {}, anonymous |-> {}, image |-> {}]
  /\ voting_key = [a \in Accounts |-> None]
  /\ report = [i \in Ids |-> None]
  /\ queued = [i \in Ids |-> None]
  /\ optimistic = [i \in Ids |-> None]
  /\ lock = [a \in Accounts |-> None]
  /\ holding = [t \in Tokens |-> 0]
  /\ cast = [i \in Ids |-> [a \in Accounts |-> 0]]
  /\ queued_at = [i \in Ids |-> None]

---------------------------------------------------------------------------
(* Proposals                                                               *)

NewProposal(proposer, call) ==
  [proposer |-> proposer, call |-> call, yes_weight |-> 0, no_weight |-> 0,
   deadline_ledger |-> now + gov.voting_period, executed |-> FALSE]

is_required == gov.simulation # None /\ gov.simulation.required

propose(proposer, call) ==
  LET id == gov.count + 1
  IN  /\ deposit[proposer] # 0
      /\ ~is_required
      /\ id \in Ids                                     \* bound
      /\ gov' = [gov EXCEPT !.count = id]
      /\ proposal' = [proposal EXCEPT ![id] = NewProposal(proposer, call)]
      /\ UNCHANGED <<deposit, quarantined, ballot, voting_key, report, queued, optimistic,
                     lock, holding, cast, queued_at>>

set_simulation_config(member, simulator, required) ==
  /\ deposit[member] # 0
  /\ required => simulator # None
  /\ gov' = [gov EXCEPT !.simulation = [simulator |-> simulator, required |-> required]]
  /\ UNCHANGED <<deposit, quarantined, proposal, ballot, voting_key, report, queued,
                 optimistic, lock, holding, cast, queued_at>>

\* The hash of a report covers the id the proposal will get and its call.
sim_hash(id, call) == <<id, call>>

propose_with_simulation(proposer, call, r) ==
  LET id == gov.count + 1
  IN  /\ deposit[proposer] # 0
      /\ gov.simulation # None /\ gov.simulation.simulator # None
      /\ r.simulator = gov.simulation.simulator
      /\ r.sim_hash = sim_hash(id, call)
      /\ r.outcome = 0
      /\ id \in Ids                                     \* bound
      /\ proposal' = [proposal EXCEPT ![id] = NewProposal(proposer, call)]
      /\ report' = [report EXCEPT ![id] = r]
      /\ gov' = [gov EXCEPT !.count = id]
      /\ UNCHANGED <<deposit, quarantined, ballot, voting_key, queued, optimistic,
                     lock, holding, cast, queued_at>>

Tallied(p, support, weight) ==
  IF support THEN [p EXCEPT !.yes_weight = Least(p.yes_weight + weight, U64Max)]
             ELSE [p EXCEPT !.no_weight = Least(p.no_weight + weight, U64Max)]

vote(voter, id, support) ==
  LET weight == quadratic_weight(voter)
  IN  /\ ~(id \in ballot.anonymous /\ voting_key[voter] # None)
      /\ weight # 0
      /\ Pending(id)
      /\ now <= proposal[id].deadline_ledger
      /\ <<id, voter>> \notin ballot.voted
      /\ ballot' = [ballot EXCEPT !.voted = @ \cup {<<id, voter>>},
                                  !.dissent = IF support THEN @ ELSE @ \cup {<<id, voter>>}]
      /\ proposal' = [proposal EXCEPT ![id] = Tallied(proposal[id], support, weight)]
      /\ cast' = [cast EXCEPT ![id][voter] = @ + 1]
      /\ UNCHANGED <<gov, deposit, quarantined, voting_key, report, queued, optimistic,
                     lock, holding, queued_at>>

---------------------------------------------------------------------------
(* Anonymous ballots                                                       *)

register_voting_key(member, key) ==
  /\ deposit[member] # 0
  /\ voting_key[member] = None
  /\ key \notin Range(voting_key)
  /\ key \in ValidKeys                                  \* ring_sig::valid_public_key
  /\ voting_key' = [voting_key EXCEPT ![member] = key]
  /\ UNCHANGED <<gov, deposit, quarantined, proposal, ballot, report, queued, optimistic,
                 lock, holding, cast, queued_at>>

vote_message(id, support, ring) == <<id, support, ring>>

\* A linkable ring signature: made with one key of the ring over the message.
\* Its key image is a function of that key and the proposal.
verify(ring, message, signature) ==
  signature.key \in Range(ring) /\ signature.message = message

key_image(id, signature) == <<id, signature.key>>

\* VotingKeyMember
key_member(key) == CHOOSE a \in Accounts : voting_key[a] = key

vote_anonymous(id, support, ring, signature) ==
  LET members == {key_member(ring[i]) : i \in DOMAIN ring}
      weight == quadratic_weight(key_member(ring[1]))
  IN  /\ Len(ring) \in 2..MAX_MEMBERS
      /\ Pending(id)
      /\ now <= proposal[id].deadline_ledger
      /\ Range(ring) \subseteq Range(voting_key)
      /\ \A m \in members : <<id, m>> \notin ballot.voted
      /\ \A m \in members : quadratic_weight(m) # 0 /\ quadratic_weight(m) = weight
      /\ IsInjective(ring)
      /\ verify(ring, vote_message(id, support, ring), signature)
      /\ key_image(id, signature) \notin ballot.image
      /\ ballot' = [ballot EXCEPT !.anonymous = @ \cup {id},
                                  !.image = @ \cup {key_image(id, signature)}]
      /\ proposal' = [proposal EXCEPT ![id] = Tallied(proposal[id], support, weight)]
      /\ cast' = [cast EXCEPT ![id][key_member(signature.key)] = @ + 1]
      /\ UNCHANGED <<gov, deposit, quarantined, voting_key, report, queued, optimistic,
                     lock, holding, queued_at>>

---------------------------------------------------------------------------
(* The timelock, execution and pruning                                     *)

enable_timelock ==
  /\ gov' = [gov EXCEPT !.timelock = TRUE]
  /\ UNCHANGED <<deposit, quarantined, proposal, ballot, voting_key, report, queued,
                 optimistic, lock, holding, cast, queued_at>>

\* Mutant of queue_transaction: the delay is counted from the start of the vote.
queue_transaction_from_deadline(caller, id) ==
  /\ deposit[caller] # 0
  /\ Pending(id)
  /\ queued[id] = None
  /\ is_approved(proposal[id])
  /\ queued' = [queued EXCEPT ![id] =
       [call |-> proposal[id].call,
        execution_ledger |-> proposal[id].deadline_ledger - gov.voting_period
                               + TIMELOCK_DELAY_LEDGERS]]
  /\ queued_at' = [queued_at EXCEPT ![id] = now]
  /\ UNCHANGED <<gov, deposit, quarantined, proposal, ballot, voting_key, report,
                 optimistic, lock, holding, cast>>

queue_transaction(caller, id) ==
  /\ deposit[caller] # 0
  /\ Pending(id)
  /\ queued[id] = None
  /\ is_approved(proposal[id])
  /\ queued' = [queued EXCEPT ![id] =
       [call |-> proposal[id].call, execution_ledger |-> now + TIMELOCK_DELAY_LEDGERS]]
  /\ queued_at' = [queued_at EXCEPT ![id] = now]
  /\ UNCHANGED <<gov, deposit, quarantined, proposal, ballot, voting_key, report,
                 optimistic, lock, holding, cast>>

\* Consumes the queue entry; with the timelock off it is not even read.
require_matured(id) ==
  IF gov.timelock
  THEN /\ queued[id] # None
       /\ queued[id].call = proposal[id].call           \* call_hash
       /\ now >= queued[id].execution_ledger
       /\ queued' = [queued EXCEPT ![id] = None]
  ELSE UNCHANGED queued

execute(id) ==
  /\ Pending(id)
  /\ is_approved(proposal[id])
  /\ require_matured(id)
  /\ proposal' = [proposal EXCEPT ![id] = [proposal[id] EXCEPT !.executed = TRUE]]
  /\ UNCHANGED <<gov, deposit, quarantined, ballot, voting_key, report, optimistic,
                 lock, holding, cast, queued_at>>

execute_queued_transaction(id) == queued[id] # None /\ execute(id)

prune_proposal(id) ==
  /\ proposal[id] # None
  /\ \/ proposal[id].executed
     \/ /\ now > proposal[id].deadline_ledger
        /\ ragequit_is_approved(proposal[id])
             => now > proposal[id].deadline_ledger + RAGEQUIT_WINDOW
  /\ proposal' = [proposal EXCEPT ![id] = None]
  /\ UNCHANGED <<gov, deposit, quarantined, ballot, voting_key, report, queued,
                 optimistic, lock, holding, cast, queued_at>>

---------------------------------------------------------------------------
(* Ragequit                                                                *)

set_treasury_token(token) ==
  /\ gov' = [gov EXCEPT !.treasury_token = token]
  /\ UNCHANGED <<deposit, quarantined, proposal, ballot, voting_key, report, queued,
                 optimistic, lock, holding, cast, queued_at>>

\* Mutant of Payout: rounds the leaver's share up.
Payout_up(a) ==
  (holding[gov.treasury_token] * deposit[a] + gov.total_deposits - 1) \div gov.total_deposits

\* What a leaving member takes of the treasury.
Payout(a) ==
  (holding[gov.treasury_token] * deposit[a])
    \div (IF gov.total_deposits = 0 THEN deposit[a] ELSE gov.total_deposits)

ragequit_guard(voter, id) ==
  /\ Pending(id)
  /\ <<id, voter>> \in ballot.dissent
  /\ ragequit_is_approved(proposal[id])
  /\ now <= proposal[id].deadline_ledger + RAGEQUIT_WINDOW
  /\ <<id, voter>> \notin ballot.ragequit
  /\ deposit[voter] # 0
  /\ gov.treasury_token # None

\* Mutant of ragequit: the weight the leaver gives up stays in the quorum's denominator.
ragequit_keeping_weight(voter, id) ==
  /\ ragequit_guard(voter, id)
  /\ deposit' = [deposit EXCEPT ![voter] = 0]
  /\ quarantined' = [quarantined EXCEPT ![voter] = deposit[voter]]
  /\ ballot' = [ballot EXCEPT !.ragequit = @ \cup {<<id, voter>>}]
  /\ gov' = [gov EXCEPT !.total_deposits = Most(@ - deposit[voter], 0)]
  /\ holding' = [holding EXCEPT ![gov.treasury_token] = @ - Payout(voter)]
  /\ UNCHANGED <<proposal, voting_key, report, queued, optimistic, lock, cast, queued_at>>

ragequit(voter, id) ==
  /\ ragequit_guard(voter, id)
  /\ deposit' = [deposit EXCEPT ![voter] = 0]
  /\ quarantined' = [quarantined EXCEPT ![voter] = deposit[voter]]
  /\ ballot' = [ballot EXCEPT !.ragequit = @ \cup {<<id, voter>>}]
  /\ gov' = [gov EXCEPT !.total_deposits = Most(@ - deposit[voter], 0),
                        !.total_weight = Most(@ - quadratic_weight(voter), 0)]
  /\ holding' = [holding EXCEPT ![gov.treasury_token] = @ - Payout(voter)]
  /\ UNCHANGED <<proposal, voting_key, report, queued, optimistic, lock, cast, queued_at>>

\* Anyone may transfer tokens to the contract.
FundTreasury(token, amount) ==
  /\ holding[token] + amount <= MaxHolding              \* bound
  /\ holding' = [holding EXCEPT ![token] = @ + amount]
  /\ UNCHANGED <<gov, deposit, quarantined, proposal, ballot, voting_key, report, queued,
                 optimistic, lock, cast, queued_at>>

---------------------------------------------------------------------------
(* The optimistic track                                                    *)

submit(proposer, call) ==
  LET id == gov.optimistic_count + 1
  IN  /\ quadratic_weight(proposer) # 0
      /\ id \in Ids                                     \* bound
      /\ gov' = [gov EXCEPT !.optimistic_count = id]
      /\ optimistic' = [optimistic EXCEPT ![id] =
           [proposer |-> proposer, call |-> call,
            challenge_deadline_ledger |-> now + OPTIMISTIC_CHALLENGE_WINDOW,
            veto_weight |-> 0, executed |-> FALSE, vetoed |-> FALSE, vetoes |-> {}]]
      /\ UNCHANGED <<deposit, quarantined, proposal, ballot, voting_key, report, queued,
                     lock, holding, cast, queued_at>>

veto(voter, id) ==
  LET p == optimistic[id]
      veto_weight == Least(p.veto_weight + quadratic_weight(voter), U64Max)
  IN  /\ quadratic_weight(voter) # 0
      /\ p # None /\ ~p.executed /\ ~p.vetoed
      /\ now <= p.challenge_deadline_ledger
      /\ voter \notin p.vetoes
      /\ optimistic' = [optimistic EXCEPT ![id] =
           [p EXCEPT !.veto_weight = veto_weight, !.vetoes = p.vetoes \cup {voter},
                     !.vetoed = veto_weight * BPS >= gov.total_weight * VETO_THRESHOLD_BPS]]
      /\ UNCHANGED <<gov, deposit, quarantined, proposal, ballot, voting_key, report,
                     queued, lock, holding, cast, queued_at>>

\* No waiting: the challenge window only bounds the vetoes.
execute_optimistic(id) ==
  /\ optimistic[id] # None
  /\ ~optimistic[id].executed /\ ~optimistic[id].vetoed
  /\ optimistic' = [optimistic EXCEPT ![id] = [optimistic[id] EXCEPT !.executed = TRUE]]
  /\ UNCHANGED <<gov, deposit, quarantined, proposal, ballot, voting_key, report, queued,
                 lock, holding, cast, queued_at>>

---------------------------------------------------------------------------
(* The vote escrow                                                         *)

set_ve_token(token) ==
  /\ gov.ve_token = None
  /\ gov' = [gov EXCEPT !.ve_token = token]
  /\ UNCHANGED <<deposit, quarantined, proposal, ballot, voting_key, report, queued,
                 optimistic, lock, holding, cast, queued_at>>

create_lock(user, amount, unlock_ledger) ==
  LET duration == Most(unlock_ledger - now, 0)
  IN  /\ amount > 0
      /\ gov.ve_token # None
      /\ lock[user] = None
      /\ duration \in MIN_LOCK_LEDGERS..MAX_LOCK_LEDGERS
      /\ lock' = [lock EXCEPT ![user] =
           [amount |-> amount, start_ledger |-> now, unlock_ledger |-> unlock_ledger]]
      /\ holding' = [holding EXCEPT ![gov.ve_token] = @ + amount]
      /\ UNCHANGED <<gov, deposit, quarantined, proposal, ballot, voting_key, report,
                     queued, optimistic, cast, queued_at>>

withdraw_lock(user) ==
  /\ lock[user] # None
  /\ now >= lock[user].unlock_ledger
  /\ gov.ve_token # None
  /\ holding[gov.ve_token] >= lock[user].amount
  /\ lock' = [lock EXCEPT ![user] = None]
  /\ holding' = [holding EXCEPT ![gov.ve_token] = @ - lock[user].amount]
  /\ UNCHANGED <<gov, deposit, quarantined, proposal, ballot, voting_key, report, queued,
                 optimistic, cast, queued_at>>

---------------------------------------------------------------------------
GovProposeStep == \E a \in Accounts, c \in Calls : propose(a, c)
GovVoteStep == \E a \in Accounts, i \in Ids, s \in BOOLEAN : vote(a, i, s)
GovAnonymousStep ==
  \/ \E a \in Accounts, k \in Keys : register_voting_key(a, k)
  \/ \E i \in Ids, s, signed \in BOOLEAN, r \in Rings, k \in Keys :
       vote_anonymous(i, s, r, [key |-> k, message |-> vote_message(i, signed, r)])
GovExecuteStep == \E i \in Ids : execute(i) \/ prune_proposal(i)
GovTimelockStep ==
  \/ enable_timelock
  \/ \E a \in Accounts, i \in Ids : queue_transaction(a, i)
  \/ \E i \in Ids : execute_queued_transaction(i)
GovFundStep ==
  \/ \E t \in TreasuryTokens : set_treasury_token(t)
  \/ \E t \in Tokens, n \in FundAmounts : FundTreasury(t, n)
GovRagequitStep == \E a \in Accounts, i \in Ids : ragequit(a, i)
GovSimulationStep ==
  \/ \E a \in Accounts, s \in Simulators \cup {None}, r \in BOOLEAN :
       set_simulation_config(a, s, r)
  \/ \E a \in Accounts, c \in Calls, s \in Simulators, o \in Outcomes, i \in Ids, d \in Calls :
       propose_with_simulation(a, c, [simulator |-> s, outcome |-> o, sim_hash |-> sim_hash(i, d)])
GovSubmitStep == \E a \in Accounts, c \in Calls : submit(a, c)
GovOptimisticStep ==
  \/ \E a \in Accounts, i \in Ids : veto(a, i)
  \/ \E i \in Ids : execute_optimistic(i)
GovEscrowStep ==
  \/ \E t \in VeTokens : set_ve_token(t)
  \/ \E a \in Accounts, n \in LockAmounts, u \in Unlocks : create_lock(a, n, u)
  \/ \E a \in Accounts : withdraw_lock(a)

GovStep ==
  \/ GovProposeStep \/ GovVoteStep \/ GovAnonymousStep \/ GovExecuteStep
  \/ GovTimelockStep \/ GovFundStep \/ GovRagequitStep \/ GovSimulationStep \/ GovSubmitStep
  \/ GovOptimisticStep \/ GovEscrowStep

GovNext == (GovStep /\ UNCHANGED now) \/ (NextLedger /\ UNCHANGED govVars)

GovSpec == GovInit /\ ClockInit /\ [][GovNext]_<<govVars, now>>

---------------------------------------------------------------------------
(* Properties                                                              *)

\* Weights and deposits stay within u64, every stored proposal has an id already
\* given out, and a stored lock is never empty.
GovTypeOK ==
  /\ gov.total_weight \in 0..U64Max /\ gov.total_deposits \in 0..U64Max
  /\ deposit \in [Accounts -> 0..U64Max] /\ quarantined \in [Accounts -> 0..U64Max]
  /\ \A i \in Ids : proposal[i] # None =>
       /\ i <= gov.count
       /\ proposal[i].yes_weight \in 0..U64Max /\ proposal[i].no_weight \in 0..U64Max
  /\ \A i \in Ids : report[i] # None => report[i].simulator \in Simulators
  /\ \A i \in Ids : queued[i] # None => queued[i].execution_ledger \in Nat
  /\ \A a \in Accounts : lock[a] # None => lock[a].amount > 0
  /\ holding \in [Tokens -> Nat]

\* vote and vote_anonymous exclude each other for a member with a voting key,
\* and each of them excludes itself, so no interleaving of the two modes and of
\* register_voting_key counts a member twice on one proposal.
OneBallotEach == \A i \in Ids, a \in Accounts : cast[i][a] <= 1

\* The totals the quorum and the payouts divide by: TotalDeposits is the sum of
\* the deposits left, and TotalWeight never exceeds what the members left can
\* muster, so a unanimous membership always reaches a quorum, whatever was
\* locked, decayed or taken out by ragequit.
TotalsFollowMembers ==
  /\ gov.total_deposits = SumFunction(deposit)
  /\ gov.total_weight <= SumFunction([a \in Accounts |-> quadratic_weight(a)])

\* Once approved, a proposal loses its approval to a vote against it only: never
\* to the passing of time (the quorum decays) nor to a dissenter's exit (the
\* denominator shrinks), so a queued proposal stays executable after its window.
ApprovalLostByVotesOnly ==
  [][\A i \in Ids :
       (Pending(i) /\ is_approved(proposal[i]) /\ proposal'[i] # None)
         => is_approved(proposal[i])' \/ proposal'[i].no_weight > proposal[i].no_weight
    ]_<<govVars, now>>

\* With the timelock on, execute runs a proposal TIMELOCK_DELAY_LEDGERS or more
\* after a member queued it, and not without that.
TimelockHolds ==
  \A i \in Ids :
    (gov.timelock /\ Pending(i) /\ proposal'[i] # None /\ proposal'[i].executed)
      => queued_at[i] # None /\ now >= queued_at[i] + TIMELOCK_DELAY_LEDGERS

\* ragequit: the leaver takes no more than the pro-rata share, so what a unit of
\* deposit is worth to the members who stay never falls.
StayersNotDiluted ==
  [][\A t \in Tokens :
       (gov' # gov /\ gov'.total_deposits # gov.total_deposits)
         => holding'[t] * gov.total_deposits >= holding[t] * gov'.total_deposits
    ]_<<govVars, now>>

\* veto and execute_optimistic exclude each other: no call both ran and was
\* locked by a supermajority.
VetoExcludesExecution ==
  \A i \in Ids : optimistic[i] # None => ~(optimistic[i].executed /\ optimistic[i].vetoed)

\* create_lock and withdraw_lock keep every locked token in custody (the escrow
\* token not being the treasury token).
LocksBacked ==
  \A t \in VeTokens :
    gov.ve_token = t =>
      holding[t] >= SumFunction([a \in Accounts |->
                                   IF lock[a] = None THEN 0 ELSE lock[a].amount])

\* With a mandatory simulator no proposal is created without a report, on either
\* path, and a report counts for the proposal id and the call it was made for.
SimulationGatesProposals ==
  \A i \in Ids :
    (gov.count = i - 1 /\ gov'.count = i)
      => /\ is_required => report'[i] # None
         /\ report'[i] # None => report'[i].sim_hash = sim_hash(i, proposal'[i].call)

\* What the tallies rest on: one ballot a member, totals the membership can
\* still reach, and no submission both vetoed and run.
VotesSound == GovTypeOK /\ OneBallotEach /\ TotalsFollowMembers /\ VetoExcludesExecution

\* The two gates around a vote, whatever is interleaved with it: the simulator's
\* report before a proposal, the member's timelock before its execution.
GatesHold == [][TimelockHolds /\ SimulationGatesProposals]_<<govVars, now>>
=============================================================================
