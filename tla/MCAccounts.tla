----------------------------- MODULE MCAccounts -----------------------------
(***************************************************************************)
(* Instances of the multisig account, the up-to authorizations, the        *)
(* reputation registry and the cross-chain bridge for TLC.  The contracts  *)
(* share nothing but the clock; a behaviour exercises the group of entry   *)
(* points chosen at its start.                                             *)
(***************************************************************************)
EXTENDS MultisigAccount, UptoAuthorization, Reputation, CrossChainBridge

VARIABLE focus

Spend(t, n) == [token |-> t, amount |-> n]
Rotation(add, remove, t) == [add |-> add, remove |-> remove, threshold |-> t]
Setup(s, t) == [signers |-> s, threshold |-> t]

AccountSetups ==
  {Setup(<<"s1", "s2", "s1">>, 0), Setup(<<"s1", "s2", "s3">>, 2), Setup(<<"s1">>, 2),
   Setup(<<"s1", "zero">>, 1)}

\* Swaps, a doubled addition and removal, a zero address, a threshold out of
\* reach and one that is zero.
AccountRotations ==
  {Rotation(<<"s3">>, <<"s1">>, 2), Rotation(<<"s1", "s3">>, <<"s2">>, 1),
   Rotation(<<>>, <<"s2", "s2">>, 1), Rotation(<<"s3", "s3">>, <<>>, 1),
   Rotation(<<"zero">>, <<>>, 1), Rotation(<<>>, <<"s1", "s2">>, 1),
   Rotation(<<>>, <<>>, 4), Rotation(<<"s2">>, <<"s2">>, 0)}

AccountSpends ==
  {<<>>, <<Spend("usd", 1)>>, <<Spend("usd", 1), Spend("usd", 1)>>,
   <<Spend("usd", 1), Spend("eur", 1)>>}

Voucher(k, p, b, cap, e) ==
  [key |-> k, payment |-> p, from |-> b, to |-> "seller", cap |-> cap, expiry |-> e]
AccountVouchers == {Voucher("k1", 1, "b1", 2, 3), Voucher("k2", 2, "b1", 2, 3)}

Tiers(gold, zero) == [gold |-> gold, zero_fee |-> zero]
TierConfigs == {Tiers(800, 0), Tiers(0, 950), Tiers(500, 500), Tiers(600, 1001)}

Deposit(i, chain, r, n) == [id |-> i, chain |-> chain, recipient |-> r, amount |-> n]

\* Two chains with a message of the same id, a total at its limit, no amount.
AxelarMessages ==
  {Deposit("m1", "eth", "r1", 2), Deposit("m1", "pol", "r1", 1), Deposit("m2", "eth", "r1", 1),
   Deposit("m3", "eth", "r2", 3), Deposit("m4", "eth", "r1", 3), Deposit("m5", "eth", "r2", 0)}

Packet(p, n, d, v) == [peer |-> p, nonce |-> n, dispute |-> d, verdict |-> v]

\* Two peers that resolve the same dispute differently, with gaps in the nonces.
DisputePackets ==
  {Packet("p1", 1, "d1", "pay"), Packet("p1", 2, "d2", "pay"), Packet("p1", 4, "d3", "pay"),
   Packet("p2", 1, "d1", "deny"), Packet("p2", 1, "d2", "deny"), Packet("p2", 3, "d3", "deny")}

Guardians(i, keys) == [index |-> i, keys |-> keys]
WormholeSets ==
  {Guardians(0, <<"g1", "g2", "g3">>), Guardians(1, <<"g1", "g2", "g3", "g4">>),
   Guardians(1, <<"g4", "g5">>), Guardians(2, <<>>)}

Sig(i, k) == [guardian |-> i, signer |-> k]
Attestation(i, sigs) == [index |-> i, signatures |-> sigs]

\* Full quorums, one short, one guardian twice, out of order, the wrong key, an
\* index past the end of the set.
WormholeVaas ==
  {Attestation(0, <<Sig(0, "g1"), Sig(1, "g2"), Sig(2, "g3")>>),
   Attestation(0, <<Sig(0, "g1"), Sig(2, "g3")>>),
   Attestation(0, <<Sig(0, "g1"), Sig(0, "g1"), Sig(1, "g2")>>),
   Attestation(1, <<Sig(0, "g1"), Sig(2, "g3"), Sig(3, "g4")>>),
   Attestation(1, <<Sig(0, "g4"), Sig(1, "g5")>>),
   Attestation(1, <<Sig(1, "g2"), Sig(0, "g1"), Sig(3, "g4")>>),
   Attestation(1, <<Sig(0, "g1"), Sig(1, "g1"), Sig(2, "g3")>>),
   Attestation(2, <<Sig(0, "g1")>>)}

\* The foci that are not about the signers start from three of them; the limits
\* see a signer come and go, the queue sees those who approved leave.
AccountsInit ==
  /\ ClockInit /\ MsInit /\ UptoInit /\ RepInit /\ BridgeInit
  /\ focus \in {"signers", "limits", "queue", "upto", "badges", "credit", "credentials",
               "inbound", "outbound"}
  /\ focus # "signers" => Len(account.list) = 3

PauseBySelf == ms_pause(Self) \/ ms_unpause(Self)

\* A key is registered by a buyer who has a voucher to sign.
OnlyVouchersAreSigned ==
  \A b \in Buyers : signer'[b] # None => \E v \in Vouchers : v.from = b

\* Who may sign does not depend on the ledger, nor does the bridge.
TimedFoci == {"limits", "queue", "upto", "badges", "credit", "credentials"}

AccountsNext ==
  /\ \/ /\ focus \in TimedFoci
        /\ NextLedger
        /\ UNCHANGED <<msVars, uptoVars, repVars, bridgeVars>>
     \/ /\ \/ focus = "signers" /\ (MsSignerStep \/ MsPauseStep)
           \/ /\ focus = "limits"
              /\ \/ MsSpendStep \/ PauseBySelf
                 \/ remove_signer("s1") \/ add_signer("s1", 1)
           \/ /\ focus = "queue"
              /\ \/ MsQueueStep \/ PauseBySelf
                 \/ remove_signer("s1")
                 \/ rotate_signers_and_threshold(Rotation(<<>>, <<"s1", "s2">>, 1))
        /\ UNCHANGED <<uptoVars, repVars, bridgeVars, now>>
     \/ /\ focus = "upto" /\ UptoNext /\ OnlyVouchersAreSigned
        /\ UNCHANGED <<msVars, repVars, bridgeVars, now>>
     \/ /\ \/ focus \in {"badges", "credit", "credentials"} /\ rep_initialize
           \/ focus = "badges" /\ BadgeStep
           \/ focus = "credit" /\ CreditStep
           \/ focus = "credentials" /\ SbtStep
        /\ UNCHANGED <<msVars, uptoVars, bridgeVars, now>>
     \/ /\ \/ focus \in {"inbound", "outbound"} /\ BridgeAdminStep
           \/ focus = "inbound" /\ (DepositStep \/ ResolutionStep)
           \/ focus = "outbound" /\ (WithdrawStep \/ VaaStep)
        /\ UNCHANGED <<msVars, uptoVars, repVars, now>>
  /\ UNCHANGED focus

AccountsSpec ==
  AccountsInit /\ [][AccountsNext]_<<msVars, uptoVars, repVars, bridgeVars, now, focus>>
=============================================================================
