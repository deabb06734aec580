-------------------------- MODULE QuadraticFunding --------------------------
(***************************************************************************)
(* contracts/governance/src/qf.rs: community donations to bounties and     *)
(* their quadratic match, paid from the balance that also backs ragequit.  *)
(***************************************************************************)
EXTENDS Governance

CONSTANTS Bounties, Recipients, Donations

QfBounty == [recipient : Recipients, total_donated : Nat, sqrt_sum_scaled : Int,
             completed : BOOLEAN, match_paid : Nat]

ASSUME FundingAssumption ==
  /\ Donations \subseteq Int /\ QF_SCALE \in Nat \ {0} /\ U128Max \in Nat
  /\ None \notin QfBounty

VARIABLES
  bounty,      \* QfBounty
  donation,    \* QfDonation
  paid         \* ghost: what each bounty paid out

qfVars == <<bounty, donation, paid>>

QfInit ==
  /\ bounty = [b \in Bounties |-> None]
  /\ donation = [b \in Bounties |-> [a \in Accounts |-> 0]]
  /\ paid = [b \in Bounties |-> 0]

qf_open_bounty(b, recipient) ==
  /\ bounty[b] = None
  /\ bounty' = [bounty EXCEPT ![b] =
       [recipient |-> recipient, total_donated |-> 0, sqrt_sum_scaled |-> 0,
        completed |-> FALSE, match_paid |-> 0]]
  /\ UNCHANGED <<donation, paid, govVars>>

\* Mutant of qf_donate: the root of a repeat donation is added as if it were another donor's.
qf_donate_separately(donor, b, amount) ==
  /\ amount > 0
  /\ gov.treasury_token # None
  /\ bounty[b] # None /\ ~bounty[b].completed
  /\ holding[gov.treasury_token] + amount <= MaxHolding
  /\ bounty' = [bounty EXCEPT ![b].total_donated = @ + amount,
                              ![b].sqrt_sum_scaled = @ + scaled_sqrt(amount)]
  /\ donation' = [donation EXCEPT ![b][donor] = @ + amount]
  /\ holding' = [holding EXCEPT ![gov.treasury_token] = @ + amount]
  /\ UNCHANGED <<paid, gov, deposit, quarantined, proposal, ballot, voting_key, report,
                 queued, optimistic, lock, cast, queued_at>>

\* A donor's root is replaced by the root of the cumulative contribution.
qf_donate(donor, b, amount) ==
  LET previous == donation[b][donor]
      t_new == scaled_sqrt(previous + amount)
      t_old == scaled_sqrt(previous)
  IN  /\ amount > 0
      /\ gov.treasury_token # None
      /\ bounty[b] # None /\ ~bounty[b].completed
      /\ t_new # Overflow /\ t_old # Overflow
      /\ holding[gov.treasury_token] + amount <= MaxHolding           \* bound
      /\ bounty' = [bounty EXCEPT ![b] =
           [bounty[b] EXCEPT !.total_donated = bounty[b].total_donated + amount,
                             !.sqrt_sum_scaled = bounty[b].sqrt_sum_scaled + (t_new - t_old)]]
      /\ donation' = [donation EXCEPT ![b] = [donation[b] EXCEPT ![donor] = previous + amount]]
      /\ holding' = [holding EXCEPT ![gov.treasury_token] = @ + amount]
      /\ UNCHANGED <<paid, gov, deposit, quarantined, proposal, ballot, voting_key, report,
                     queued, optimistic, lock, cast, queued_at>>

\* The balance net of this bounty's donations must cover the match.
qf_complete_bounty(b) ==
  LET matched == match_from_scaled(bounty[b].sqrt_sum_scaled, bounty[b].total_donated)
      balance == holding[gov.treasury_token]
  IN  /\ bounty[b] # None /\ ~bounty[b].completed
      /\ gov.treasury_token # None
      /\ matched # Overflow
      /\ balance >= bounty[b].total_donated
      /\ matched <= balance - bounty[b].total_donated
      /\ bounty' = [bounty EXCEPT ![b] =
           [bounty[b] EXCEPT !.completed = TRUE, !.match_paid = matched]]
      /\ holding' = [holding EXCEPT ![gov.treasury_token] =
                       @ - (bounty[b].total_donated + matched)]
      /\ paid' = [paid EXCEPT ![b] = @ + bounty[b].total_donated + matched]
      /\ UNCHANGED <<donation, gov, deposit, quarantined, proposal, ballot, voting_key,
                     report, queued, optimistic, lock, cast, queued_at>>

QfStep ==
  \/ \E b \in Bounties, r \in Recipients : qf_open_bounty(b, r)
  \/ \E b \in Bounties, a \in Accounts, n \in Donations : qf_donate(a, b, n)
  \/ \E b \in Bounties : qf_complete_bounty(b)

\* The contract: its governance entries and these on one balance.
QfNext == (QfStep /\ UNCHANGED now) \/ (GovNext /\ UNCHANGED qfVars)

QfSpec == GovInit /\ QfInit /\ ClockInit /\ [][QfNext]_<<qfVars, govVars, now>>

---------------------------------------------------------------------------
(* Properties                                                              *)

\* qf_donate keeps the running sums equal to what a pass over all donors would
\* compute, whatever the order and the number of each donor's donations; so the
\* match does not depend on how a donor splits a contribution.
BountySumsExact ==
  \A b \in Bounties : bounty[b] # None =>
    /\ bounty[b].total_donated = SumFunction(donation[b])
    /\ bounty[b].sqrt_sum_scaled =
         SumFunction([a \in Accounts |-> scaled_sqrt(donation[b][a])])

\* qf_complete_bounty pays the donations and the match of all of them, once.
PaidOnceInFull ==
  \A b \in Bounties :
    paid[b] = IF bounty[b] # None /\ bounty[b].completed
              THEN SumFunction(donation[b]) + bounty[b].match_paid ELSE 0

\* What the contract holds for others: locked tokens are in custody, a bounty's
\* running sums are its donations, and it has been paid those and its match once
\* or not at all.
FundsBacked == LocksBacked /\ BountySumsExact /\ PaidOnceInFull

\* qf.rs: a match is charged to the balance net of the donations held for all
\* open bounties, so completing a bounty never pays out what was donated to
\* another one.
MatchNetOfAllDonations ==
  [][\A b \in Bounties :
       (bounty'[b] # None /\ bounty[b] # None /\ bounty'[b].completed /\ ~bounty[b].completed)
         => bounty'[b].match_paid
              <= holding[gov.treasury_token]
                   - SumFunction([c \in Bounties |->
                                    IF bounty[c] = None \/ bounty[c].completed
                                    THEN 0 ELSE bounty[c].total_donated])
    ]_<<qfVars, govVars, now>>
=============================================================================
