------------------------- MODULE MultiAssetChannel -------------------------
(***************************************************************************)
(* State channels that escrow several tokens.  The sender signs states off *)
(* chain, each with one receiver balance per token; whoever holds them may *)
(* submit them in any order, late or again.  States gives, per channel id, *)
(* what its sender signed: a state signed for one channel verifies on no   *)
(* other.  The token contracts are external: they fail a transfer the      *)
(* payer cannot cover.                                                     *)
(***************************************************************************)
EXTENDS LedgerClock, FiniteSets, Functions

CONSTANTS Collateral,               \* token contracts
          ChannelIds,           \* 1..n, bound: channels opened
          DepositMaps,          \* deposits a sender may open with
          Periods,              \* challenge periods requested
          States,               \* id -> the signed states of that channel
          MaxOpenLedger,        \* bound: no channel is opened later
          MAX_ASSETS, DEFAULT_CHALLENGE_PERIOD, MAX_CHALLENGE_PERIOD, MaxLifetime,
          SenderFunds

\* Amounts of some of the assets.
AssetAmounts == UNION {[A -> Nat] : A \in SUBSET Collateral}

MaChannel ==
  [ deposit : AssetAmounts, balance : AssetAmounts, nonce : Nat,
    phase : {"Open", "Closed", "Finalized"}, opened_at : Nat, closed_at : Nat,
    challenge_period : Nat ]

ASSUME MultiAssetAssumption ==
  /\ IsFiniteSet(ChannelIds) /\ ChannelIds = 1..Cardinality(ChannelIds)
  /\ \A d \in DepositMaps : DOMAIN d \subseteq Collateral /\ d \in [DOMAIN d -> Int]
  /\ Periods \subseteq Nat
  /\ \A i \in ChannelIds : \A s \in States[i] :
       s.nonce \in Nat /\ s.balances \in [DOMAIN s.balances -> Int]
  /\ MAX_CHALLENGE_PERIOD \in Nat /\ DEFAULT_CHALLENGE_PERIOD \in 1..MAX_CHALLENGE_PERIOD
  /\ MaxLifetime \in Nat /\ SenderFunds \in Nat
  /\ None \notin MaChannel

VARIABLES maChannels,   \* MultiAssetChannel(id), or None
          channelCount, \* ChannelCount
          held,         \* the contract's balance per asset (external)
          senderHas,    \* the sender's balance per asset (external)
          receiverHas   \* the receiver's balance per asset (external)

maVars == <<maChannels, channelCount, held, senderHas, receiverHas>>

MaInit ==
  /\ maChannels = [i \in ChannelIds |-> None]
  /\ channelCount = 0
  /\ held = [a \in Collateral |-> 0]
  /\ senderHas = [a \in Collateral |-> SenderFunds]
  /\ receiverHas = [a \in Collateral |-> 0]

\* Zero selects the default, anything larger is capped.
effective_challenge_period(p) ==
  IF p = 0 THEN DEFAULT_CHALLENGE_PERIOD
  ELSE IF p > MAX_CHALLENGE_PERIOD THEN MAX_CHALLENGE_PERIOD ELSE p

ensure_window_open(c) == now <= c.closed_at + c.challenge_period
ensure_window_elapsed(c) == now > c.closed_at + c.challenge_period
is_expired(c) == now > c.opened_at + MaxLifetime

\* deposits is a function from the assets of the channel to amounts.
open_multi_asset_channel(deposits, period) ==
  LET id == channelCount + 1 IN
    /\ id \in ChannelIds
    /\ now <= MaxOpenLedger
    /\ DOMAIN deposits # {}
    /\ Cardinality(DOMAIN deposits) <= MAX_ASSETS
    /\ \A a \in DOMAIN deposits : deposits[a] > 0 /\ deposits[a] <= senderHas[a]
    /\ held' = [a \in Collateral |-> held[a] + IF a \in DOMAIN deposits THEN deposits[a] ELSE 0]
    /\ senderHas' = [a \in Collateral |-> senderHas[a] - IF a \in DOMAIN deposits THEN deposits[a] ELSE 0]
    /\ channelCount' = id
    /\ maChannels' = [maChannels EXCEPT ![id] =
         [deposit |-> deposits, balance |-> [a \in DOMAIN deposits |-> 0], nonce |-> 0,
          phase |-> "Open", opened_at |-> now, closed_at |-> 0,
          challenge_period |-> effective_challenge_period(period)]]
    /\ UNCHANGED receiverHas

\* Mutant of states_assets_match: the state may leave out assets of the channel.
states_assets_within(c, s) ==
  /\ DOMAIN s.balances \subseteq DOMAIN c.deposit
  /\ \A a \in DOMAIN s.balances : s.balances[a] \in 0..c.deposit[a]

\* The state names exactly the assets of the channel, each within its deposit.
states_assets_match(c, s) ==
  /\ DOMAIN s.balances = DOMAIN c.deposit
  /\ \A a \in DOMAIN s.balances : s.balances[a] \in 0..c.deposit[a]

apply_state(c, s) ==
  [c EXCEPT !.balance = [a \in DOMAIN @ |-> IF a \in DOMAIN s.balances THEN s.balances[a] ELSE @[a]],
            !.nonce = s.nonce]

\* Mutant of update_multi_asset_state: a newer state does not re-arm the window.
update_keeping_window(id, s) ==
  LET c == maChannels[id] IN
    /\ c # None
    /\ c.phase = "Open" \/ (c.phase = "Closed" /\ ensure_window_open(c))
    /\ s.nonce > c.nonce
    /\ states_assets_match(c, s)
    /\ maChannels' = [maChannels EXCEPT ![id] = apply_state(c, s)]
    /\ UNCHANGED <<channelCount, held, senderHas, receiverHas>>

\* A newer state re-arms the window of a closed channel.
update_multi_asset_state(id, s) ==
  LET c == maChannels[id] IN
    /\ c # None
    /\ c.phase = "Open" \/ (c.phase = "Closed" /\ ensure_window_open(c))
    /\ s.nonce > c.nonce
    /\ states_assets_match(c, s)
    /\ maChannels' = [maChannels EXCEPT ![id] =
         [apply_state(c, s) EXCEPT !.closed_at = IF c.phase = "Closed" THEN now ELSE @]]
    /\ UNCHANGED <<channelCount, held, senderHas, receiverHas>>

\* The closing state may repeat the latest nonce but not go back.
close_multi_asset_channel(id, s) ==
  LET c == maChannels[id] IN
    /\ c # None
    /\ c.phase = "Open"
    /\ ~is_expired(c)
    /\ s.nonce >= c.nonce
    /\ states_assets_match(c, s)
    /\ maChannels' = [maChannels EXCEPT ![id] =
         [apply_state(c, s) EXCEPT !.phase = "Closed", !.closed_at = now]]
    /\ UNCHANGED <<channelCount, held, senderHas, receiverHas>>

\* Mutant of settle_multi_asset_channel: an open channel is never settled.
settle_closed_only(id) ==
  LET c == maChannels[id]
      paid == [a \in Collateral |-> IF a \in DOMAIN c.deposit THEN c.balance[a] ELSE 0]
      back == [a \in Collateral |-> IF a \in DOMAIN c.deposit THEN c.deposit[a] - c.balance[a] ELSE 0]
  IN
    /\ c # None
    /\ c.phase = "Closed"
    /\ ensure_window_elapsed(c)
    /\ \A a \in Collateral : paid[a] + back[a] <= held[a]
    /\ held' = [a \in Collateral |-> held[a] - paid[a] - back[a]]
    /\ receiverHas' = [a \in Collateral |-> receiverHas[a] + paid[a]]
    /\ senderHas' = [a \in Collateral |-> senderHas[a] + back[a]]
    /\ maChannels' = [maChannels EXCEPT ![id].phase = "Finalized"]
    /\ UNCHANGED channelCount

\* Every asset is paid out in the one call, or none is.
settle_multi_asset_channel(id) ==
  LET c == maChannels[id]
      paid == [a \in Collateral |-> IF a \in DOMAIN c.deposit THEN c.balance[a] ELSE 0]
      back == [a \in Collateral |-> IF a \in DOMAIN c.deposit THEN c.deposit[a] - c.balance[a] ELSE 0]
  IN
    /\ c # None
    /\ \/ c.phase = "Closed" /\ ensure_window_elapsed(c)
       \/ c.phase = "Open" /\ is_expired(c)
    /\ \A a \in Collateral : paid[a] + back[a] <= held[a]
    /\ held' = [a \in Collateral |-> held[a] - paid[a] - back[a]]
    /\ receiverHas' = [a \in Collateral |-> receiverHas[a] + paid[a]]
    /\ senderHas' = [a \in Collateral |-> senderHas[a] + back[a]]
    /\ maChannels' = [maChannels EXCEPT ![id].phase = "Finalized"]
    /\ UNCHANGED channelCount

MaNext ==
  \/ \E d \in DepositMaps, p \in Periods : open_multi_asset_channel(d, p)
  \/ \E id \in ChannelIds :
       \/ \E s \in States[id] : update_multi_asset_state(id, s) \/ close_multi_asset_channel(id, s)
       \/ settle_multi_asset_channel(id)

MaSpec ==
  /\ ClockInit /\ MaInit
  /\ [][(MaNext /\ UNCHANGED now) \/ (NextLedger /\ UNCHANGED maVars)]_<<maVars, now>>

-----------------------------------------------------------------------------
MaOpened == {i \in ChannelIds : maChannels[i] # None}
MaLive == {i \in MaOpened : maChannels[i].phase # "Finalized"}

\* Stored channels are of their type, each balance within the deposit of its asset.
MaTypeOK ==
  /\ channelCount \in 0..Cardinality(ChannelIds)
  /\ MaOpened = 1..channelCount
  /\ \A i \in MaOpened :
       LET c == maChannels[i] IN
         /\ c.phase \in {"Open", "Closed", "Finalized"}
         /\ DOMAIN c.deposit \subseteq Collateral /\ DOMAIN c.balance = DOMAIN c.deposit
         /\ \A a \in DOMAIN c.deposit : c.balance[a] \in 0..c.deposit[a]
         /\ c.challenge_period \in 1..MAX_CHALLENGE_PERIOD

\* For every asset the contract holds the deposits of the channels not yet
\* settled and the receiver has what the settled channels assign to it in that
\* same asset: value never moves between assets or between channels.
AssetsConserved ==
  \A a \in Collateral :
    LET with(S) == {i \in S : a \in DOMAIN maChannels[i].deposit}
    IN  /\ held[a] = SumFunction([i \in with(MaLive) |-> maChannels[i].deposit[a]])
        /\ receiverHas[a] = SumFunction([i \in with(MaOpened \ MaLive) |-> maChannels[i].balance[a]])
        /\ senderHas[a] + held[a] + receiverHas[a] = SenderFunds

\* The balances of a channel are those of one state its sender signed, in every
\* asset at once: no mixture of two states is ever stored or paid.
BalancesAreOneState ==
  \A i \in MaOpened :
    LET c == maChannels[i] IN
      \/ c.nonce = 0 /\ \A a \in DOMAIN c.balance : c.balance[a] = 0
      \/ \E s \in States[i] : s.nonce = c.nonce /\ s.balances = c.balance

\* A closed channel is paid out only when no state was accepted for it during a
\* whole challenge period, and no step replaces its state by an older one.
NewestStateHasItsWindow ==
  [][\A i \in MaOpened :
       LET c == maChannels[i]
           d == maChannels'[i]
       IN  /\ d.nonce >= c.nonce
           /\ c.phase = "Closed" /\ d.balance # c.balance => d.closed_at = now
           /\ c.phase = "Closed" /\ d.phase = "Finalized" =>
                now - c.closed_at > c.challenge_period]_maVars

\* Every channel opened is settled in the end, closed or not, although each
\* newer state re-arms the window: settle takes a closed channel after its window
\* and an open one after its lifetime.
EveryPoolSettles ==
  \A i \in ChannelIds : i \in MaOpened ~> i \in MaOpened \ MaLive

\* Each asset is conserved on its own although one state and one settlement
\* speak for all of them.
AssetsSound == MaTypeOK /\ AssetsConserved /\ BalancesAreOneState
=============================================================================
