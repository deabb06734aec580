---------------------------- MODULE MCGovernance ----------------------------
(***************************************************************************)
(* Instances of the governance contract and of liquid staking for TLC.  A  *)
(* behaviour exercises the group of entry points chosen at its start; the  *)
(* groups that write the same entries are put together.                    *)
(***************************************************************************)
EXTENDS QuadraticFunding, LiquidStaking

VARIABLE focus

Constitution(m, d, t, p) == [members |-> m, deposits |-> d, threshold_bps |-> t, voting_period |-> p]

\* Three members of unequal weight, two equal ones and an outsider, and
\* arguments the constructor refuses.
GovConstitutions ==
  {Constitution(<<"a", "b", "c">>, <<4, 4, 9>>, 5000, 2),
   Constitution(<<"a", "b">>, <<4, 4>>, 9000, 1),
   Constitution(<<"a", "a">>, <<4, 4>>, 5000, 2),
   Constitution(<<"a", "b">>, <<4, 0>>, 5000, 2)}

GovRings == {<<"ka", "kb">>, <<"kb", "ka">>, <<"ka", "kc">>, <<"ka", "ka">>, <<"ka">>}

Foci == {"ballot", "timelock", "exit", "locks", "simulation", "optimistic", "funding", "staking"}

Trio == gov.voting_period = 2

GovernanceInit ==
  /\ GovInit /\ QfInit /\ LsInit /\ ClockInit
  /\ focus \in Foci
  /\ focus \in {"staking", "ballot", "exit", "funding"} => Trio
  /\ focus \in {"optimistic", "simulation"} => ~Trio

\* The groups about one proposal's life keep to one proposal.
OneProposal == gov.count = 0
OneSubmission == gov.optimistic_count = 0

GovernanceNext ==
  /\ \/ focus # "funding" /\ NextLedger /\ UNCHANGED <<govVars, qfVars, lsVars>>
     \/ /\ \/ /\ focus = "ballot"
              /\ \/ OneProposal /\ GovProposeStep
                 \/ GovVoteStep \/ GovAnonymousStep \/ GovExecuteStep
           \/ /\ focus = "timelock"
              /\ \/ OneProposal /\ GovProposeStep
                 \/ GovVoteStep \/ GovTimelockStep \/ GovExecuteStep
           \/ /\ focus = "exit"
              /\ \/ OneProposal /\ GovProposeStep
                 \/ GovVoteStep \/ GovFundStep \/ GovRagequitStep
           \/ /\ focus = "locks"
              /\ \/ OneProposal /\ GovProposeStep
                 \/ GovVoteStep \/ GovEscrowStep
           \/ focus = "simulation" /\ (GovSimulationStep \/ GovProposeStep)
           \/ /\ focus = "optimistic"
              /\ \/ OneSubmission /\ GovSubmitStep
                 \/ GovOptimisticStep \/ GovEscrowStep
           \/ focus = "funding" /\ GovFundStep
        /\ UNCHANGED <<qfVars, lsVars, now>>
     \/ focus = "funding" /\ QfStep /\ UNCHANGED <<lsVars, now>>
     \/ focus = "staking" /\ LsStep /\ UNCHANGED <<govVars, qfVars, now>>
  /\ UNCHANGED focus

GovernanceSpec ==
  GovernanceInit /\ [][GovernanceNext]_<<govVars, qfVars, lsVars, now, focus>>
=============================================================================
