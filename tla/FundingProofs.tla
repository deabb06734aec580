--------------------------- MODULE FundingProofs ----------------------------
(***************************************************************************)
(* Quadratic funding beside governance, for every value of the constants:  *)
(* the matched sums are exact, bounties are paid once and in full, and the *)
(* locked tokens are there.                                                *)
(***************************************************************************)
EXTENDS QuadraticFunding, GovernanceProofs

-----------------------------------------------------------------------------
(* Bounties and locks.                                                     *)

\* The scaled roots of a bounty's donations, and the locked amounts.
ScaledRoots(d) == [a \in Accounts |-> scaled_sqrt(d[a])]
Locked(l) == [a \in Accounts |-> IF l[a] = None THEN 0 ELSE l[a].amount]

\* One bounty's entry e against its donations d and what was paid of it.
BountySound(e, d, p) ==
  /\ e = None => \A a \in Accounts : d[a] = 0
  /\ e # None => /\ e.total_donated = SumFunctionOnSet(d, Accounts)
                 /\ e.sqrt_sum_scaled = SumFunctionOnSet(ScaledRoots(d), Accounts)
  /\ p = IF e # None /\ e.completed THEN e.total_donated + e.match_paid ELSE 0

\* The inductive invariant of the bounties.
BountiesInv ==
  /\ bounty \in [Bounties -> QfBounty \cup {None}]
  /\ donation \in [Bounties -> [Accounts -> Nat]]
  /\ paid \in [Bounties -> Nat]
  /\ \A b \in Bounties : BountySound(bounty[b], donation[b], paid[b])

\* The escrow holds every lock, and none is taken before its token is set.
LocksInv ==
  /\ gov.ve_token = None => \A a \in Accounts : lock[a] = None
  /\ gov.ve_token # None => holding[gov.ve_token] >= SumFunctionOnSet(Locked(lock), Accounts)

\* isqrt_u128 is exact on both sides of the u64 limit it switches at.
THEOREM WideRootIsExact ==
  ASSUME U64Max \in Nat
  PROVE  \A n \in Nat : isqrt_u128(n) \in Nat /\ IsRoot(isqrt_u128(n), n)
<1> TAKE n \in Nat
<1>1. CASE n <= U64Max
  BY <1>1, RootIsExact, Zenon DEF isqrt_u128
<1>2. CASE ~(n <= U64Max)
  BY <1>2, n \in Nat \ {0}, NewtonFinds, Zenon DEF isqrt_u128
<1> QED
  BY <1>1, <1>2

\* A scaled root is an integer.
LEMMA ScaledRootInt ==
  ASSUME NEW n \in Nat
  PROVE  scaled_sqrt(n) \in Int
<1>1. QF_SCALE_SQ \in Nat /\ U64Max \in Nat
  BY FundingAssumption, GovernanceAssumption DEF QF_SCALE_SQ
<1>2. n * QF_SCALE_SQ \in Nat
  BY <1>1
<1>3. isqrt_u128(n * QF_SCALE_SQ) \in Nat
  BY <1>1, <1>2, WideRootIsExact, Zenon
<1> QED
  BY <1>3 DEF scaled_sqrt, Overflow

\* A match that does not overflow is a natural number.
LEMMA MatchIsNat ==
  ASSUME NEW s \in Int, NEW t \in Int, match_from_scaled(s, t) # Overflow
  PROVE  match_from_scaled(s, t) \in Nat
<1>1. QF_SCALE_SQ \in Nat \ {0}
  <2>1. PICK k \in Nat : QF_SCALE = k + 1
    BY FundingAssumption
  <2>2. QF_SCALE * QF_SCALE = k * k + 2 * k + 1 /\ k * k \in Nat
    BY <2>1
  <2> QED
    BY <2>2 DEF QF_SCALE_SQ
<1>2. s * s \in Nat
  OBVIOUS
<1>3. (s * s) \div QF_SCALE_SQ - t \in Int
  BY <1>1, <1>2
<1> QED
  BY <1>3 DEF match_from_scaled, Most

\* Donations and their roots can be summed.
LEMMA DonationsInt ==
  ASSUME NEW d \in [Accounts -> Nat]
  PROVE  IntOn(d, Accounts) /\ IntOn(ScaledRoots(d), Accounts) /\ NatOn(d, Accounts)
BY ScaledRootInt DEF IntOn, NatOn, ScaledRoots

\* A donation moves both sums by what the donor's entry moves.
LEMMA DonationSums ==
  ASSUME NEW d \in [Accounts -> Nat], NEW a \in Accounts, NEW n \in Nat, NEW e,
         e = [d EXCEPT ![a] = n]
  PROVE  /\ e \in [Accounts -> Nat]
         /\ SumFunctionOnSet(e, Accounts) = SumFunctionOnSet(d, Accounts) - d[a] + n
         /\ SumFunctionOnSet(ScaledRoots(e), Accounts)
              = SumFunctionOnSet(ScaledRoots(d), Accounts) - scaled_sqrt(d[a]) + scaled_sqrt(n)
<1>1. e \in [Accounts -> Nat] /\ e[a] = n /\ \A x \in Accounts \ {a} : e[x] = d[x]
  BY Zenon
<1>2. IntOn(d, Accounts) /\ IntOn(ScaledRoots(d), Accounts) /\ IsFiniteSet(Accounts)
  BY DonationsInt, GovernanceAssumption, Zenon
<1>3. SumFunctionOnSet(e, Accounts) = SumFunctionOnSet(d, Accounts) - d[a] + e[a]
  <2> DEFINE x == e
             y == d
  <2>1. x[a] \in Int /\ IntOn(y, Accounts) /\ \A z \in Accounts \ {a} : x[z] = y[z]
    BY <1>1, <1>2
  <2> HIDE DEF x, y
  <2>2. SumFunctionOnSet(x, Accounts) = SumFunctionOnSet(y, Accounts) - y[a] + x[a]
    BY <1>2, <2>1, SumChange
  <2> QED
    BY <2>2, Zenon DEF x, y
<1> DEFINE f == ScaledRoots(d)
           g == ScaledRoots(e)
<1>4. /\ f[a] = scaled_sqrt(d[a]) /\ g[a] = scaled_sqrt(n)
      /\ \A x \in Accounts \ {a} : g[x] = f[x]
  BY <1>1, Zenon DEF ScaledRoots
<1>5. g[a] \in Int
  BY <1>4, ScaledRootInt, Zenon
<1>6. IntOn(f, Accounts)
  BY <1>2, Zenon
<1> HIDE DEF f, g
<1>7. SumFunctionOnSet(g, Accounts) = SumFunctionOnSet(f, Accounts) - f[a] + g[a]
  BY <1>2, <1>4, <1>5, <1>6, SumChange
<1> QED
  BY <1>1, <1>3, <1>4, <1>7 DEF f, g

\* A step that changes one bounty.
LEMMA OneBountyMoves ==
  ASSUME BountiesInv, NEW b \in Bounties, NEW e \in QfBounty, NEW d \in [Accounts -> Nat],
         NEW p \in Nat,
         bounty' = [bounty EXCEPT ![b] = e],
         donation' = [donation EXCEPT ![b] = d], paid' = [paid EXCEPT ![b] = p],
         BountySound(e, d, p)
  PROVE  BountiesInv'
<1>1. /\ bounty' \in [Bounties -> QfBounty \cup {None}]
      /\ donation' \in [Bounties -> [Accounts -> Nat]]
      /\ paid' \in [Bounties -> Nat]
  BY Zenon DEF BountiesInv
<1>2. ASSUME NEW c \in Bounties  PROVE BountySound(bounty'[c], donation'[c], paid'[c])
  <2>1. CASE c = b
    <3>1. bounty'[c] = e /\ donation'[c] = d /\ paid'[c] = p
      BY <2>1 DEF BountiesInv
    <3> QED
      BY <3>1, Zenon
  <2>2. CASE c # b
    <3>1. bounty'[c] = bounty[c] /\ donation'[c] = donation[c] /\ paid'[c] = paid[c]
      BY <2>2, Zenon DEF BountiesInv
    <3> QED
      BY <3>1, Zenon DEF BountiesInv
  <2> QED
    BY <2>1, <2>2, Zenon
<1> QED
  BY <1>1, <1>2, Zenon DEF BountiesInv

\* A new bounty has no donations.
LEMMA OpenKeeps ==
  ASSUME BountiesInv, NEW b \in Bounties, NEW r \in Recipients, qf_open_bounty(b, r)
  PROVE  BountiesInv'
<1> DEFINE e == [recipient |-> r, total_donated |-> 0, sqrt_sum_scaled |-> 0,
                 completed |-> FALSE, match_paid |-> 0]
           d == donation[b]
<1>1. bounty[b] = None /\ bounty' = [bounty EXCEPT ![b] = e] /\ UNCHANGED <<donation, paid>>
  BY Zenon DEF qf_open_bounty
<1>2. e \in QfBounty
  BY DEF QfBounty
<1>3. d \in [Accounts -> Nat] /\ paid[b] = 0 /\ \A a \in Accounts : d[a] = 0
  BY <1>1 DEF BountiesInv, BountySound
<1>4. donation' = [donation EXCEPT ![b] = d] /\ paid' = [paid EXCEPT ![b] = 0]
  BY <1>1, <1>3, Zenon DEF BountiesInv
<1>5. SumFunctionOnSet(d, Accounts) = 0 /\ SumFunctionOnSet(ScaledRoots(d), Accounts) = 0
  <2>1. \A a \in Accounts : ScaledRoots(d)[a] = 0
    BY <1>3 DEF ScaledRoots, scaled_sqrt
  <2>2. IntOn(d, Accounts) /\ IntOn(ScaledRoots(d), Accounts) /\ IsFiniteSet(Accounts)
    BY <1>3, DonationsInt, GovernanceAssumption, Zenon
  <2> HIDE DEF d
  <2>3. SumFunctionOnSet(d, {}) = SumFunctionOnSet(d, Accounts)
    BY <1>3, <2>2, SumSupport
  <2>4. SumFunctionOnSet(ScaledRoots(d), {}) = SumFunctionOnSet(ScaledRoots(d), Accounts)
    BY <2>1, <2>2, SumSupport
  <2> QED
    BY <2>3, <2>4, SumEmpty
<1>6. BountySound(e, d, 0)
  BY <1>2, <1>5, FundingAssumption, Zenon DEF BountySound
<1>7. bounty' = [bounty EXCEPT ![b] = e] /\ d \in [Accounts -> Nat] /\ 0 \in Nat
  BY <1>1, <1>3, Zenon
<1> HIDE DEF e, d
<1> QED
  BY <1>2, <1>4, <1>6, <1>7, OneBountyMoves, Zenon

\* A donation moves the running sums as it moves the sums over the donors.
LEMMA DonateKeeps ==
  ASSUME BountiesInv, NEW b \in Bounties, NEW a \in Accounts, NEW n \in Donations,
         qf_donate(a, b, n)
  PROVE  BountiesInv' /\ n \in Nat
<1> DEFINE t == scaled_sqrt(donation[b][a] + n) - scaled_sqrt(donation[b][a])
           o == bounty[b]
           e == [o EXCEPT !.total_donated = o.total_donated + n,
                          !.sqrt_sum_scaled = o.sqrt_sum_scaled + t]
           d == [donation[b] EXCEPT ![a] = donation[b][a] + n]
<1>1. /\ n > 0 /\ o # None /\ ~o.completed /\ bounty' = [bounty EXCEPT ![b] = e]
      /\ donation' = [donation EXCEPT ![b] = d] /\ paid' = paid
  BY Zenon DEF qf_donate
<1>2. n \in Nat /\ o \in QfBounty /\ donation[b] \in [Accounts -> Nat]
  BY <1>1, FundingAssumption DEF BountiesInv
<1>3. donation[b][a] \in Nat /\ donation[b][a] + n \in Nat
  BY <1>2
<1>4. scaled_sqrt(donation[b][a] + n) \in Int /\ scaled_sqrt(donation[b][a]) \in Int /\ t \in Int
  BY <1>3, ScaledRootInt
<1>5. /\ d \in [Accounts -> Nat]
      /\ SumFunctionOnSet(d, Accounts)
           = SumFunctionOnSet(donation[b], Accounts) - donation[b][a] + (donation[b][a] + n)
      /\ SumFunctionOnSet(ScaledRoots(d), Accounts)
           = SumFunctionOnSet(ScaledRoots(donation[b]), Accounts)
               - scaled_sqrt(donation[b][a]) + scaled_sqrt(donation[b][a] + n)
  BY <1>2, <1>3, DonationSums
<1>6. /\ SumFunctionOnSet(donation[b], Accounts) \in Int
      /\ SumFunctionOnSet(ScaledRoots(donation[b]), Accounts) \in Int
  BY <1>2, DonationsInt, SumInt, GovernanceAssumption, Zenon
<1>7. /\ o.total_donated = SumFunctionOnSet(donation[b], Accounts)
      /\ o.sqrt_sum_scaled = SumFunctionOnSet(ScaledRoots(donation[b]), Accounts)
      /\ paid[b] = 0
  BY <1>1 DEF BountiesInv, BountySound
<1>8. /\ o.total_donated + n = SumFunctionOnSet(d, Accounts)
      /\ o.sqrt_sum_scaled + t = SumFunctionOnSet(ScaledRoots(d), Accounts)
  BY <1>2, <1>3, <1>4, <1>5, <1>6, <1>7
<1>9. paid' = [paid EXCEPT ![b] = 0]
  BY <1>1, <1>7, Zenon DEF BountiesInv
<1> HIDE DEF o, t, d
<1>10. /\ e \in QfBounty /\ e.total_donated = o.total_donated + n
       /\ e.sqrt_sum_scaled = o.sqrt_sum_scaled + t /\ e.completed = o.completed
  <2> DEFINE x == o.total_donated + n
             y == o.sqrt_sum_scaled + t
             e1 == [o EXCEPT !.total_donated = x]
  <2>1. x \in Nat /\ y \in Int
    BY <1>2, <1>4 DEF QfBounty
  <2> HIDE DEF x, y
  <2>2. e1 \in QfBounty /\ e1.total_donated = x /\ e1.completed = o.completed
    BY <1>2, <2>1 DEF QfBounty
  <2>3. e = [e1 EXCEPT !.sqrt_sum_scaled = y]
    BY <1>2, Zenon DEF QfBounty, x, y
  <2> HIDE DEF e, e1
  <2>4. /\ e \in QfBounty /\ e.total_donated = x
        /\ e.sqrt_sum_scaled = y /\ e.completed = o.completed
    BY <2>1, <2>2, <2>3 DEF QfBounty
  <2> QED
    BY <2>4, Zenon DEF x, y
<1> HIDE DEF e
<1>11. BountySound(e, d, 0)
  BY <1>1, <1>8, <1>10, FundingAssumption, Zenon DEF BountySound
<1> QED
  BY <1>1, <1>2, <1>5, <1>9, <1>10, <1>11, OneBountyMoves, Zenon
\* A completion pays the donations and the match, which the treasury holds.
LEMMA CompleteKeeps ==
  ASSUME BountiesInv, MembersInv, HoldingInv, NEW b \in Bounties, qf_complete_bounty(b)
  PROVE  BountiesInv' /\ HoldingInv'
<1> DEFINE o == bounty[b]
           m == match_from_scaled(o.sqrt_sum_scaled, o.total_donated)
           k == gov.treasury_token
           e == [o EXCEPT !.completed = TRUE, !.match_paid = m]
           d == donation[b]
           p == paid[b] + o.total_donated + m
<1>1. /\ o # None /\ ~o.completed /\ k # None /\ m # Overflow
      /\ holding[k] >= o.total_donated /\ m <= holding[k] - o.total_donated
      /\ bounty' = [bounty EXCEPT ![b] = e] /\ donation' = donation
      /\ holding' = [holding EXCEPT ![k] = holding[k] - (o.total_donated + m)]
      /\ paid' = [paid EXCEPT ![b] = p]
  BY Zenon DEF qf_complete_bounty
<1>2. o \in QfBounty /\ d \in [Accounts -> Nat] /\ paid[b] = 0
  BY <1>1, Zenon DEF BountiesInv, BountySound
<1>3. o.total_donated \in Nat /\ o.sqrt_sum_scaled \in Int /\ k \in Tokens
  BY <1>1, <1>2, GovernanceAssumption, SMTT(30) DEF QfBounty, MembersInv, GovRecord
<1>4. m \in Nat
  BY <1>1, <1>3, MatchIsNat
<1> HIDE DEF o, m, k, d
<1>5. holding[k] - (o.total_donated + m) \in Nat
  BY <1>1, <1>3, <1>4 DEF HoldingInv
<1>6. HoldingInv'
  BY <1>1, <1>3, <1>5, Zenon DEF HoldingInv
<1>7. /\ e \in QfBounty /\ e.total_donated = o.total_donated
      /\ e.sqrt_sum_scaled = o.sqrt_sum_scaled /\ e.completed = TRUE /\ e.match_paid = m
  <2> DEFINE e1 == [o EXCEPT !.completed = TRUE]
  <2>1. /\ e1 \in QfBounty /\ e1.total_donated = o.total_donated
        /\ e1.sqrt_sum_scaled = o.sqrt_sum_scaled /\ e1.completed = TRUE
    BY <1>2, Zenon DEF QfBounty
  <2>2. e = [e1 EXCEPT !.match_paid = m]
    BY <1>2, Zenon DEF QfBounty
  <2> HIDE DEF e, e1
  <2> QED
    BY <1>4, <2>1, <2>2 DEF QfBounty
<1>8. p \in Nat /\ p = o.total_donated + m
  BY <1>2, <1>3, <1>4
<1>9. /\ o.total_donated = SumFunctionOnSet(d, Accounts)
      /\ o.sqrt_sum_scaled = SumFunctionOnSet(ScaledRoots(d), Accounts)
  BY <1>1 DEF BountiesInv, BountySound, o, d
<1> HIDE DEF e, p
<1>10. BountySound(e, d, p)
  BY <1>7, <1>8, <1>9, FundingAssumption, Zenon DEF BountySound
<1>11. donation' = [donation EXCEPT ![b] = d]
  BY <1>1, Zenon DEF BountiesInv, d
<1>12. BountiesInv'
  BY <1>1, <1>2, <1>7, <1>8, <1>10, <1>11, OneBountyMoves, Zenon
<1> QED
  BY <1>6, <1>12

-----------------------------------------------------------------------------
(* The locks                                                               *)

\* Locked amounts can be summed.
LEMMA LockedInt ==
  ASSUME NEW l \in [Accounts -> Lock \cup {None}]
  PROVE  IntOn(Locked(l), Accounts) /\ IsFiniteSet(Accounts)
BY GovernanceAssumption DEF IntOn, Locked, Lock

\* A step that writes no lock and takes nothing of the escrow token.
LEMMA LocksKept ==
  ASSUME MembersInv, LocksInv, HoldingInv, HoldingInv', lock' = lock,
         gov'.ve_token = gov.ve_token,
         gov.ve_token # None => holding'[gov.ve_token] >= holding[gov.ve_token]
  PROVE  LocksInv'
<1>1. SumFunctionOnSet(Locked(lock), Accounts) \in Int
  BY LockedInt, SumInt, Zenon DEF MembersInv
<1>2. gov.ve_token # None =>
        holding[gov.ve_token] \in Int /\ holding'[gov.ve_token] \in Int
  BY GovernanceAssumption DEF MembersInv, GovRecord, HoldingInv
<1>3. Locked(lock') = Locked(lock)
  BY Zenon
<1> QED
  BY <1>1, <1>2, <1>3 DEF LocksInv

\* One lock is written, and the escrow's balance moves by the difference.
LEMMA LockMoves ==
  ASSUME MembersInv, LocksInv, HoldingInv, NEW a \in Accounts, NEW e \in Lock \cup {None},
         gov' = gov, gov.ve_token # None,
         lock' = [lock EXCEPT ![a] = e],
         holding'[gov.ve_token] = holding[gov.ve_token] - Locked(lock)[a] + Locked(lock')[a]
  PROVE  LocksInv'
<1> DEFINE f == Locked(lock)
           g == Locked(lock')
<1>1. lock' \in [Accounts -> Lock \cup {None}] /\ \A x \in Accounts \ {a} : lock'[x] = lock[x]
  BY Zenon DEF MembersInv
<1>2. IntOn(f, Accounts) /\ IntOn(g, Accounts) /\ IsFiniteSet(Accounts)
  BY <1>1, LockedInt, Zenon DEF MembersInv
<1>3. \A x \in Accounts \ {a} : g[x] = f[x]
  BY <1>1, Zenon DEF Locked
<1>4. holding[gov.ve_token] \in Int
  BY GovernanceAssumption DEF MembersInv, GovRecord, HoldingInv
<1> HIDE DEF f, g
<1>5. f[a] \in Int /\ g[a] \in Int
  BY <1>2, Zenon DEF IntOn
<1>6. SumFunctionOnSet(g, Accounts) = SumFunctionOnSet(f, Accounts) - f[a] + g[a]
  BY <1>2, <1>3, <1>5, SumChange
<1>7. SumFunctionOnSet(f, Accounts) \in Int
  BY <1>2, SumInt, Zenon
<1>8. holding[gov.ve_token] >= SumFunctionOnSet(f, Accounts)
  BY Zenon DEF LocksInv, f
<1>9. holding'[gov.ve_token] = holding[gov.ve_token] - f[a] + g[a]
  BY Zenon DEF f, g
<1>10. holding'[gov.ve_token] >= SumFunctionOnSet(g, Accounts)
  BY <1>4, <1>5, <1>6, <1>7, <1>8, <1>9, SMTT(30)
<1> QED
  BY <1>10, Zenon DEF LocksInv, g

\* Every governance step keeps the locks backed.
LEMMA LocksStep ==
  ASSUME VeTokens \cap TreasuryTokens = {}, MembersInv, LocksInv, HoldingInv, HoldingInv',
         [GovNext]_<<govVars, now>>
  PROVE  LocksInv'
<1>0. /\ \A t \in Tokens : holding[t] \in Int
      /\ gov.ve_token # None => gov.ve_token \in Tokens /\ gov.ve_token \in VeTokens
  BY GovernanceAssumption DEF HoldingInv, MembersInv, GovRecord
<1>1. ASSUME UNCHANGED <<lock, holding>>, gov'.ve_token = gov.ve_token  PROVE LocksInv'
  BY <1>0, <1>1, LocksKept
<1>2. ASSUME gov' = [gov EXCEPT !.timelock = TRUE]
             \/ (\E t : gov' = [gov EXCEPT !.treasury_token = t])
             \/ (\E t : gov' = [gov EXCEPT !.count = t])
             \/ (\E t : gov' = [gov EXCEPT !.simulation = t])
             \/ (\E t : gov' = [gov EXCEPT !.optimistic_count = t])
      PROVE  gov'.ve_token = gov.ve_token
  BY <1>2, Zenon DEF MembersInv, GovRecord
<1>3. CASE UNCHANGED <<govVars, now>> \/ UNCHANGED govVars
  BY <1>1, <1>3, Zenon DEF govVars
<1>4. CASE GovProposeStep
  BY <1>1, <1>2, <1>4, ZenonT(30) DEF GovProposeStep, propose
<1>5. CASE GovVoteStep \/ GovExecuteStep \/ GovOptimisticStep
  BY <1>1, <1>5, Zenon DEF GovVoteStep, vote, GovExecuteStep, execute, prune_proposal,
                    GovOptimisticStep, veto, execute_optimistic
<1>6. CASE GovAnonymousStep
  <2>1. ASSUME NEW i, NEW s, NEW ring, NEW g, vote_anonymous(i, s, ring, g)
        PROVE  UNCHANGED <<gov, lock, holding>>
    BY <2>1, Zenon DEF vote_anonymous
  <2>2. UNCHANGED <<gov, lock, holding>>
    BY <1>6, <2>1, Zenon DEF GovAnonymousStep, register_voting_key
  <2> QED
    BY <1>1, <2>2
<1>7. CASE GovTimelockStep
  <2>1. CASE enable_timelock
    BY <1>1, <1>2, <2>1, Zenon DEF enable_timelock
  <2>2. CASE ~enable_timelock
    BY <1>1, <1>7, <2>2 DEF GovTimelockStep, queue_transaction, execute_queued_transaction, execute
  <2> QED
    BY <2>1, <2>2
<1>8. CASE GovFundStep
  <2>1. ASSUME NEW t, set_treasury_token(t)  PROVE LocksInv'
    BY <1>1, <1>2, <2>1, Zenon DEF set_treasury_token
  <2>2. ASSUME NEW t \in Tokens, NEW n \in FundAmounts, FundTreasury(t, n)  PROVE LocksInv'
    <3>1. n \in Nat /\ holding' = [holding EXCEPT ![t] = holding[t] + n] /\ UNCHANGED <<gov, lock>>
      BY <2>2, GovernanceAssumption DEF FundTreasury
    <3>2. gov.ve_token # None => holding'[gov.ve_token] >= holding[gov.ve_token]
      BY <1>0, <3>1 DEF HoldingInv
    <3> QED
      BY <3>1, <3>2, LocksKept
  <2> QED
    BY <1>8, <2>1, <2>2 DEF GovFundStep
<1>9. CASE GovRagequitStep
  <2>1. PICK a \in Accounts, i \in Ids : ragequit(a, i)
    BY <1>9, Zenon DEF GovRagequitStep
  <2>2. /\ gov.treasury_token # None /\ lock' = lock
        /\ holding' = [holding EXCEPT ![gov.treasury_token]
                         = holding[gov.treasury_token] - Payout(a)]
        /\ gov' = [gov EXCEPT !.total_deposits = Most(gov.total_deposits - deposit[a], 0),
                              !.total_weight = Most(gov.total_weight - quadratic_weight(a), 0)]
    BY <2>1 DEF ragequit, ragequit_guard
  <2>3. gov'.ve_token = gov.ve_token /\ gov.treasury_token \in TreasuryTokens
    BY <2>2 DEF MembersInv, GovRecord
  <2>4. gov.ve_token # None => holding'[gov.ve_token] >= holding[gov.ve_token]
    BY <1>0, <2>2, <2>3 DEF HoldingInv
  <2> QED
    BY <2>2, <2>3, <2>4, LocksKept
<1>10. CASE GovSimulationStep
  <2>1. ASSUME NEW a, NEW c, NEW g, propose_with_simulation(a, c, g)  PROVE LocksInv'
    BY <1>1, <1>2, <2>1, Zenon DEF propose_with_simulation
  <2>2. ASSUME NEW a, NEW s, NEW g, set_simulation_config(a, s, g)  PROVE LocksInv'
    BY <1>1, <1>2, <2>2 DEF set_simulation_config
  <2> QED
    BY <1>10, <2>1, <2>2, Zenon DEF GovSimulationStep
<1>11. CASE GovSubmitStep
  BY <1>1, <1>2, <1>11 DEF GovSubmitStep, submit
<1>12. ASSUME NEW t \in VeTokens, set_ve_token(t)  PROVE LocksInv'
  <2>1. /\ gov.ve_token = None /\ gov' = [gov EXCEPT !.ve_token = t]
        /\ UNCHANGED <<lock, holding>>
    BY <1>12 DEF set_ve_token
  <2>2. gov'.ve_token = t /\ t \in Tokens /\ t # None
    BY <2>1, GovernanceAssumption DEF MembersInv, GovRecord
  <2>3. \A a \in Accounts : lock[a] = None
    BY <2>1, Zenon DEF LocksInv
  <2>4. SumFunctionOnSet(Locked(lock), Accounts) = 0
    <3> DEFINE f == Locked(lock)
    <3>1. IntOn(f, Accounts) /\ IsFiniteSet(Accounts) /\ \A a \in Accounts : f[a] = 0
      BY <2>3, LockedInt DEF MembersInv, Locked
    <3> HIDE DEF f
    <3>2. SumFunctionOnSet(f, {}) = SumFunctionOnSet(f, Accounts)
      BY <3>1, SumSupport
    <3> QED
      BY <3>2, SumEmpty DEF f
  <2>5. holding[t] >= 0
    BY <2>2 DEF HoldingInv
  <2>6. Locked(lock') = Locked(lock) /\ holding' = holding
    BY <2>1, Zenon
  <2> QED
    BY <2>2, <2>4, <2>5, <2>6, Zenon DEF LocksInv
<1>13. ASSUME NEW a \in Accounts, NEW n \in LockAmounts, NEW u \in Unlocks, create_lock(a, n, u)
       PROVE  LocksInv'
  <2> DEFINE e == [amount |-> n, start_ledger |-> now, unlock_ledger |-> u]
  <2>1. /\ n > 0 /\ gov.ve_token # None /\ lock[a] = None /\ lock' = [lock EXCEPT ![a] = e]
        /\ holding' = [holding EXCEPT ![gov.ve_token] = holding[gov.ve_token] + n] /\ gov' = gov
    BY <1>13, Zenon DEF create_lock
  <2>2. e \in Lock /\ e # None /\ n \in Int
    BY <2>1, GovernanceAssumption DEF Lock, MembersInv
  <2>3. lock'[a] = e /\ e.amount = n
    BY <2>1 DEF MembersInv
  <2> HIDE DEF e
  <2>4. Locked(lock)[a] = 0 /\ Locked(lock')[a] = n
    BY <2>1, <2>2, <2>3, ZenonT(30) DEF Locked
  <2>5. holding'[gov.ve_token] = holding[gov.ve_token] - Locked(lock)[a] + Locked(lock')[a]
    BY <1>0, <2>1, <2>2, <2>4, SMTT(30) DEF HoldingInv
  <2> QED
    BY <2>1, <2>2, <2>5, LockMoves, Zenon
<1>14. ASSUME NEW a \in Accounts, withdraw_lock(a)  PROVE LocksInv'
  <2>1. /\ lock[a] # None /\ gov.ve_token # None /\ lock' = [lock EXCEPT ![a] = None]
        /\ holding' = [holding EXCEPT ![gov.ve_token] = holding[gov.ve_token] - lock[a].amount]
        /\ gov' = gov
    BY <1>14, Zenon DEF withdraw_lock
  <2>2. lock[a].amount \in Int /\ lock'[a] = None
    BY <2>1 DEF MembersInv, Lock
  <2>3. Locked(lock)[a] = lock[a].amount /\ Locked(lock')[a] = 0
    BY <2>1, <2>2, ZenonT(30) DEF Locked
  <2>4. holding'[gov.ve_token] = holding[gov.ve_token] - Locked(lock)[a] + Locked(lock')[a]
    BY <1>0, <2>1, <2>2, <2>3, SMTT(30) DEF HoldingInv
  <2> QED
    BY <2>1, <2>4, LockMoves, Zenon
<1> QED
  BY <1>3, <1>4, <1>5, <1>6, <1>7, <1>8, <1>9, <1>10, <1>11, <1>12, <1>13, <1>14, SMTT(30)
  DEF GovNext, GovStep, GovEscrowStep

-----------------------------------------------------------------------------
(* The theorem                                                             *)

\* The contract accepts any pair of tokens; only a separate escrow token keeps
\* the payouts of ragequit and qf_complete_bounty off the locked balance.
EscrowApart == VeTokens \cap TreasuryTokens = {}

\* The inductive invariant of governance and funding together.
FundsInv == GovInv /\ BountiesInv /\ (EscrowApart => LocksInv)

\* The invariant holds at the start.
LEMMA FundsStart ==
  ASSUME GovInit, QfInit, ClockInit
  PROVE  FundsInv
<1>1. GovInv
  BY GovStart, Zenon
<1>2. LocksInv
  <2>1. lock = [a \in Accounts |-> None]
    BY SMTT(30) DEF GovInit
  <2>2. gov.ve_token = None
    BY DEF GovInit, __constructor
  <2> QED
    BY <2>1, <2>2, Zenon DEF LocksInv
<1>3. BountiesInv
  <2>1. /\ bounty \in [Bounties -> QfBounty \cup {None}]
        /\ donation \in [Bounties -> [Accounts -> Nat]] /\ paid \in [Bounties -> Nat]
    BY Zenon DEF QfInit
  <2>2. \A b \in Bounties : bounty[b] = None /\ paid[b] = 0 /\ \A a \in Accounts : donation[b][a] = 0
    BY Zenon DEF QfInit
  <2> QED
    BY <2>1, <2>2, Zenon DEF BountiesInv, BountySound
<1> QED
  BY <1>1, <1>2, <1>3, Zenon DEF FundsInv

\* A funding call writes nothing of governance but the balances.
LEMMA GovInvByBalances ==
  ASSUME GovInv, HoldingInv',
         UNCHANGED <<gov, deposit, quarantined, proposal, ballot, voting_key, report,
                     queued, optimistic, lock, cast, queued_at, now>>
  PROVE  GovInv'
<1>1. MembersInv'
  BY Zenon DEF GovInv, MembersInv
<1>2. ProposalsInv' /\ GatesInv' /\ OptimisticInv'
  BY SMTT(30) DEF GovInv, ProposalsInv, GatesInv, OptimisticInv
<1>3. BallotsInv'
  BY DEF GovInv, BallotsInv, HasCast
<1> QED
  BY <1>1, <1>2, <1>3, SMTT(30) DEF GovInv

\* Every step of either contract part keeps it.
LEMMA FundsStep ==
  ASSUME FundsInv, [QfNext]_<<qfVars, govVars, now>>
  PROVE  FundsInv'
<1>0. /\ GovInv /\ BountiesInv /\ (EscrowApart => LocksInv) /\ MembersInv /\ HoldingInv
      /\ \A t \in Tokens : holding[t] \in Nat
      /\ gov.treasury_token # None =>
           gov.treasury_token \in Tokens /\ (EscrowApart => gov.treasury_token # gov.ve_token)
      /\ gov.ve_token # None => gov.ve_token \in Tokens
  BY GovernanceAssumption, SMTT(30) DEF FundsInv, GovInv, HoldingInv, MembersInv, GovRecord, EscrowApart
<1>1. ASSUME [GovNext]_<<govVars, now>>, UNCHANGED qfVars  PROVE FundsInv'
  <2>1. GovInv' /\ HoldingInv'
    BY <1>0, <1>1, GovStepKeeps, HoldingStep, SMTT(30)
  <2>2. EscrowApart => LocksInv'
    BY <1>0, <1>1, <2>1, LocksStep, SMTT(30) DEF EscrowApart
  <2>3. BountiesInv'
    BY <1>0, <1>1 DEF qfVars, BountiesInv
  <2> QED
    BY <2>1, <2>2, <2>3, SMTT(30) DEF FundsInv
<1>2. ASSUME NEW b \in Bounties, NEW r \in Recipients, qf_open_bounty(b, r), now' = now
      PROVE  FundsInv'
  <2>1. BountiesInv'
    BY <1>0, <1>2, OpenKeeps, SMTT(30)
  <2>2. UNCHANGED govVars
    BY <1>2 DEF qf_open_bounty
  <2>3. HoldingInv'
    BY <1>0, <2>2, ZenonT(30) DEF HoldingInv, govVars
  <2>4. GovInv'
    BY <1>0, <1>2, <2>2, <2>3, GovInvByBalances, SMTT(30) DEF govVars
  <2>5. EscrowApart => LocksInv'
    BY <1>0, <2>2 DEF govVars, LocksInv
  <2> QED
    BY <2>1, <2>4, <2>5, ZenonT(30) DEF FundsInv
<1>3. ASSUME NEW b \in Bounties, NEW a \in Accounts, NEW n \in Donations, qf_donate(a, b, n),
             now' = now
      PROVE  FundsInv'
  <2>1. BountiesInv' /\ n \in Nat
    BY <1>0, <1>3, DonateKeeps, SMTT(30)
  <2>2. /\ gov.treasury_token # None
        /\ holding' = [holding EXCEPT ![gov.treasury_token] = holding[gov.treasury_token] + n]
        /\ UNCHANGED <<gov, deposit, quarantined, proposal, ballot, voting_key, report,
                       queued, optimistic, lock, cast, queued_at>>
    BY <1>3, Zenon DEF qf_donate
  <2>3. HoldingInv'
    BY <1>0, <2>1, <2>2, SMTT(30) DEF HoldingInv
  <2>4. GovInv'
    BY <1>0, <1>3, <2>2, <2>3, GovInvByBalances, SMTT(30)
  <2>5. EscrowApart /\ gov.ve_token # None => holding'[gov.ve_token] >= holding[gov.ve_token]
    BY <1>0, <2>2 DEF HoldingInv
  <2>6. EscrowApart => LocksInv'
    BY <1>0, <2>2, <2>3, <2>5, LocksKept, Zenon
  <2> QED
    BY <2>1, <2>4, <2>6, ZenonT(30) DEF FundsInv
<1>4. ASSUME NEW b \in Bounties, qf_complete_bounty(b), now' = now  PROVE FundsInv'
  <2>1. BountiesInv' /\ HoldingInv'
    BY <1>0, <1>4, CompleteKeeps, SMTT(30)
  <2>2. /\ gov.treasury_token # None
        /\ \E n : holding' = [holding EXCEPT ![gov.treasury_token] = n]
        /\ UNCHANGED <<gov, deposit, quarantined, proposal, ballot, voting_key, report,
                       queued, optimistic, lock, cast, queued_at>>
    BY <1>4, Zenon DEF qf_complete_bounty
  <2>4. GovInv'
    BY <1>0, <1>4, <2>1, <2>2, GovInvByBalances, SMTT(30)
  <2>5. EscrowApart /\ gov.ve_token # None => holding'[gov.ve_token] >= holding[gov.ve_token]
    BY <1>0, <2>2, SMTT(30) DEF HoldingInv
  <2>6. EscrowApart => LocksInv'
    BY <1>0, <2>1, <2>2, <2>5, LocksKept, SMTT(30)
  <2> QED
    BY <2>1, <2>4, <2>6, SMTT(30) DEF FundsInv
<1>5. CASE UNCHANGED <<qfVars, govVars, now>>
  BY <1>1, <1>5, Zenon
<1> QED
  BY <1>1, <1>2, <1>3, <1>4, <1>5, SMTT(30) DEF QfNext, QfStep

\* The invariant holds throughout.
LEMMA FundsInvHolds == QfSpec => []FundsInv
<1>1. GovInit /\ QfInit /\ ClockInit => FundsInv
  BY FundsStart
<1>2. FundsInv /\ [QfNext]_<<qfVars, govVars, now>> => FundsInv'
  BY FundsStep, Zenon
<1> QED
  BY <1>1, <1>2, PTL DEF QfSpec

\* It gives the two bounty properties.
LEMMA BountiesFollow ==
  ASSUME FundsInv
  PROVE  BountySumsExact /\ PaidOnceInFull
<1>1. ASSUME NEW b \in Bounties
      PROVE  /\ SumFunction(donation[b]) = SumFunctionOnSet(donation[b], Accounts)
             /\ SumFunction([a \in Accounts |-> scaled_sqrt(donation[b][a])])
                  = SumFunctionOnSet(ScaledRoots(donation[b]), Accounts)
             /\ BountySound(bounty[b], donation[b], paid[b])
  <2>1. DOMAIN donation[b] = Accounts /\ BountySound(bounty[b], donation[b], paid[b])
    BY Zenon DEF FundsInv, BountiesInv
  <2> QED
    BY <2>1 DEF SumFunction, ScaledRoots
<1>2. BountySumsExact
  BY <1>1, Zenon DEF BountySumsExact, BountySound
<1>3. PaidOnceInFull
  BY <1>1, Zenon DEF PaidOnceInFull, BountySound
<1> QED
  BY <1>2, <1>3, Zenon

\* For every mix of governance and funding calls and any tokens: the running
\* sums qf_donate keeps for a bounty are those of a pass over its donors, and
\* qf_complete_bounty pays the donations and the match once, in full.
THEOREM BountiesAlwaysExact == QfSpec => [](BountySumsExact /\ PaidOnceInFull)
BY FundsInvHolds, BountiesFollow, PTL

\* What the contract holds for others is there: the above, and the tokens
\* locked with create_lock are in custody until withdraw_lock.  The last needs
\* an escrow token that is never the treasury token, which no call checks.
THEOREM FundsAlwaysBacked ==
  ASSUME VeTokens \cap TreasuryTokens = {}
  PROVE  QfSpec => []FundsBacked
<1>1. ASSUME FundsInv  PROVE LocksBacked
  <2> SUFFICES ASSUME NEW t \in VeTokens, gov.ve_token = t
               PROVE  holding[t] >= SumFunction([a \in Accounts |->
                                      IF lock[a] = None THEN 0 ELSE lock[a].amount])
    BY Zenon DEF LocksBacked
  <2>1. t # None
    BY GovernanceAssumption
  <2>2. SumFunction(Locked(lock)) = SumFunctionOnSet(Locked(lock), Accounts)
    BY Zenon DEF SumFunction, Locked
  <2>3. holding[t] >= SumFunction(Locked(lock))
    BY <1>1, <2>1, <2>2, Zenon DEF FundsInv, LocksInv, EscrowApart
  <2> QED
    BY <2>3, Zenon DEF Locked
<1>2. FundsInv => FundsBacked
  BY <1>1, BountiesFollow, Zenon DEF FundsBacked
<1> QED
  BY <1>2, FundsInvHolds, PTL
=============================================================================
