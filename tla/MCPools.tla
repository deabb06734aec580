------------------------------ MODULE MCPools ------------------------------
(***************************************************************************)
(* Instances of the treasury, the insurance pool, the stream vault, the    *)
(* channels that escrow several assets and the stealth deposits for TLC.   *)
(* They have separate storage: a behaviour exercises the one chosen at its *)
(* start, and of the treasury one group of the entry points that write the *)
(* same entries.                                                           *)
(***************************************************************************)
EXTENDS Treasury, Insurance, StreamVault, MultiAssetChannel, StealthDeposits

VARIABLE focus

Vest(total, start, cliff, duration) ==
  [total |-> total, start |-> start, cliff |-> cliff, duration |-> duration]

\* A cliff in the middle and an end, one that starts at once, and one refused.
VestingSchedules == {Vest(7, 0, 2, 3), Vest(4, 1, 0, 2), Vest(4, 0, 3, 2)}

Part(s, w) == [strategy |-> s, weight_bps |-> w]

\* Uneven thirds, a single strategy, and sets of weights that are refused.
WeightSets ==
  {<<Part("s1", 3), Part("s2", 7)>>, <<Part("s2", 10)>>,
   <<Part("s1", 5), Part("s1", 5)>>, <<Part("s1", 4)>>}

Term(from, length, rate, deposit) ==
  [from |-> from, length |-> length, rate |-> rate, deposit |-> deposit]

\* A deposit the term streams exactly, one it streams early, a later start, and
\* a deposit the term cannot stream.
StreamTerms == {Term(0, 2, 2, 4), Term(1, 3, 2, 5), Term(2, 2, 3, 5), Term(1, 2, 1, 4)}

Amount(a, n) == [x \in {a} |-> n]
Both(n, m) == [x \in {"eurc", "usdc"} |-> IF x = "eurc" THEN n ELSE m]

\* Two assets at once, one asset, none, an amount of zero, too many assets.
CollateralMaps ==
  {Both(2, 1), Amount("usdc", 2), <<>>, Both(1, 0),
   [x \in {"eurc", "usdc", "xlm"} |-> 1]}

Signed(n, b) == [nonce |-> n, balances |-> b]

\* Both assets move, against each other; a repeated nonce; one asset left out,
\* one asset not of the channel, and one over its deposit.
SignedStates ==
  [i \in ChannelIds |->
     IF i = 1
     THEN {Signed(1, Both(2, 0)), Signed(2, Both(1, 1)), Signed(2, Both(0, 1)),
           Signed(3, Amount("usdc", 1)), Signed(3, Both(3, 0)), Signed(4, Both(2, 1))}
     ELSE {Signed(0, Amount("usdc", 1)), Signed(1, Amount("usdc", 2)), Signed(2, Amount("eurc", 1))}]

\* Accruals compound; only the channels need the ledgers after this one.
PoolHorizon == 3

PoolsInit ==
  /\ ClockInit /\ TreInit /\ PoolInit /\ StrInit /\ MaInit /\ StealthInit
  /\ focus \in {"portfolio", "yield", "market", "pool", "streams", "assets", "stealth"}

AssetsLedger ==
  focus = "assets" /\ NextLedger /\ UNCHANGED <<treVars, poolVars, streamVars, maVars, stealthVars, focus>>
AssetsSettle(id) ==
  /\ focus = "assets"
  /\ settle_multi_asset_channel(id)
  /\ UNCHANGED <<treVars, poolVars, streamVars, stealthVars, now, focus>>

PoolsNext ==
  \/ AssetsLedger
  \/ /\ focus = "assets"
     /\ MaNext
     /\ UNCHANGED <<treVars, poolVars, streamVars, stealthVars, now, focus>>
  \/ /\ \/ focus = "streams" /\ StreamNext /\ UNCHANGED <<treVars, poolVars>>
        \/ focus = "pool" /\ PoolNext /\ UNCHANGED <<treVars, streamVars>>
        \/ /\ focus = "portfolio"
           /\ NextLedger
           /\ UNCHANGED <<treVars, poolVars, streamVars>>
        \/ /\ \/ focus = "portfolio" /\ (TreReceiveStep({Token}) \/ TreVestingStep \/ TrePortfolioStep)
              \/ focus = "yield" /\ (TreReceiveStep({DistToken}) \/ TreDistributionStep)
              \/ focus = "market" /\ (TreReceiveStep({"fee", Token}) \/ TreMarketStep)
           /\ UNCHANGED <<poolVars, streamVars, now>>
     /\ now' <= PoolHorizon
     /\ UNCHANGED <<maVars, stealthVars, focus>>
  \/ /\ focus = "stealth"
     /\ StealthStep
     /\ UNCHANGED <<treVars, poolVars, streamVars, maVars, now, focus>>

poolsVars == <<treVars, poolVars, streamVars, maVars, stealthVars, now, focus>>

\* Ledgers close, and settling a channel needs nobody's authorization: whoever
\* is owed something can do it.
PoolsSpec ==
  /\ PoolsInit
  /\ [][PoolsNext]_poolsVars
  /\ WF_poolsVars(AssetsLedger)
  /\ \A id \in ChannelIds : WF_poolsVars(AssetsSettle(id))
=============================================================================
