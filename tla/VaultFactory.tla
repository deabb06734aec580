---------------------------- MODULE VaultFactory ----------------------------
(***************************************************************************)
(* The factory that deploys refund vaults: its defaults, the salts its     *)
(* three ways of deploying derive, the list of vaults it keeps and the     *)
(* value it reports as locked in them.  The deployer (addresses are an     *)
(* injective function of the salt, and an occupied one is refused) and the *)
(* token are external; anyone may fund an address before a vault is there. *)
(***************************************************************************)
EXTENDS LedgerClock, Sequences, Functions

CONSTANTS Sellers, Buyers, ChosenSalts, TimePolicies, Wasms, ZeroWasm, FeeRates,
          MAX_FEE_BPS,
          MaxVaults, MaxHeld   \* bounds: vaults, tokens sent to their addresses

DeployedVault ==
  [merchant : Sellers, wasm : Wasms \union {None}, time : TimePolicies \union {None},
   supplied : BOOLEAN]

\* A vault is told from a free address.
ASSUME FactoryAssumption == MaxVaults \in Nat /\ None \notin DeployedVault

VARIABLES factory,   \* inited, vwasm, time, next_salt
          vaults,    \* vaults
          deployed,  \* what runs at each address, and whether its salt was supplied
          held       \* token balances of the addresses (external)

factoryVars == <<factory, vaults, deployed, held>>

\* SHA-256 of the encodings, taken to be injective.
participant_salt(buyer, merchant) == <<"pair", buyer, merchant>>
counter_salt(merchant, n) == <<"count", merchant, n>>

Salts == {participant_salt(b, m) : b \in Buyers, m \in Sellers}
           \union {counter_salt(m, n) : m \in Sellers, n \in 0..(MaxVaults - 1)}
           \union {<<"chosen", s>> : s \in ChosenSalts}

\* deployed_address: an address is named by its salt.
deployed_address(salt) == salt

FactoryInit ==
  /\ factory = [inited |-> FALSE, vwasm |-> None, time |-> None, next_salt |-> 0]
  /\ vaults = <<>>
  /\ deployed = [a \in Salts |-> None]
  /\ held = [a \in Salts |-> 0]

factory_initialize(wasm, time) ==
  /\ ~factory.inited
  /\ factory' = [inited |-> TRUE, vwasm |-> wasm, time |-> time, next_salt |-> 0]
  /\ UNCHANGED <<vaults, deployed, held>>

is_tracked_vault(a) == a \in Range(vaults)

\* The merchant's policy wins; without one the factory's default at this moment.
ResolvedTime(init) == IF init.time # None THEN init.time ELSE factory.time

\* Mutant of Deploy: the vault is not added to the list.
DeployUnlisted(init, salt, supplied) ==
  /\ deployed[deployed_address(salt)] = None
  /\ deployed' = [deployed EXCEPT ![deployed_address(salt)] =
       [merchant |-> init.merchant, wasm |-> factory.vwasm, time |-> ResolvedTime(init),
        supplied |-> supplied]]
  /\ UNCHANGED <<vaults, held>>

\* deploy_v2 refuses an occupied address; the vault is appended to the list.
Deploy(init, salt, supplied) ==
  /\ deployed[deployed_address(salt)] = None
  /\ deployed' = [deployed EXCEPT ![deployed_address(salt)] =
       [merchant |-> init.merchant, wasm |-> factory.vwasm, time |-> ResolvedTime(init),
        supplied |-> supplied]]
  /\ vaults' = Append(vaults, deployed_address(salt))
  /\ UNCHANGED held

\* create_vault with a salt of the merchant's choice, which may be any hash.
create_vault(init, salt) ==
  /\ factory.inited
  /\ Len(vaults) < MaxVaults
  /\ init.fee_bps <= MAX_FEE_BPS
  /\ ~is_tracked_vault(deployed_address(salt))
  /\ Deploy(init, salt, TRUE)
  /\ UNCHANGED factory

deploy_for_participants(init, buyer) ==
  create_vault(init, participant_salt(buyer, init.merchant))

\* create_vault without a salt: the counter's family.
deploy_vault(init) ==
  /\ factory.inited
  /\ Len(vaults) < MaxVaults
  /\ init.fee_bps <= MAX_FEE_BPS
  /\ Deploy(init, counter_salt(init.merchant, factory.next_salt), FALSE)
  /\ factory' = [factory EXCEPT !.next_salt = @ + 1]

set_time_policy_contract(time) ==
  /\ factory.inited
  /\ factory' = [factory EXCEPT !.time = time]
  /\ UNCHANGED <<vaults, deployed, held>>

set_vault_wasm(wasm) ==
  /\ factory.inited
  /\ wasm # ZeroWasm
  /\ factory' = [factory EXCEPT !.vwasm = wasm]
  /\ UNCHANGED <<vaults, deployed, held>>

\* A transfer to an address the factory may deploy to.
Fund(a) ==
  /\ SumFunction(held) < MaxHeld
  /\ held' = [held EXCEPT ![a] = @ + 1]
  /\ UNCHANGED <<factory, vaults, deployed>>

\* The balances of the list, entry by entry.
get_tvl == SumFunction([i \in DOMAIN vaults |-> held[vaults[i]]])

VaultInits == [merchant : Sellers, time : TimePolicies \union {None}, fee_bps : FeeRates]

FactoryStep ==
  \/ \E t \in TimePolicies \union {None} :
       \/ \E w \in Wasms : factory_initialize(w, t)
       \/ set_time_policy_contract(t)
  \/ \E w \in Wasms : set_vault_wasm(w)
  \/ \E init \in VaultInits :
       \/ deploy_vault(init)
       \/ \E s \in Salts : create_vault(init, s)
       \/ \E b \in Buyers : deploy_for_participants(init, b)
  \/ \E a \in Salts : Fund(a)

FactorySpec == FactoryInit /\ [][FactoryStep]_factoryVars

-----------------------------------------------------------------------------
\* The locked value get_tvl reports counts every vault the factory deployed once,
\* with what was sent to its address before the deployment, and nothing else.
TvlIsLockedValue ==
  LET live == {a \in Salts : deployed[a] # None}
  IN  get_tvl = SumFunction([a \in live |-> held[a]])

\* An address of the counter's family that is still to come was not taken by the
\* counter, which never returns to a used one.  It may have been taken by a call
\* of create_vault that supplied its salt, and that call may be another
\* merchant's: deploy_vault is then refused at this count, although its
\* documentation says that nobody can stand in somebody else's salt family.
CounterAddressesFree ==
  \A m \in Sellers, n \in 0..(MaxVaults - 1) :
    n >= factory.next_salt /\ deployed[counter_salt(m, n)] # None =>
      deployed[counter_salt(m, n)].supplied

\* The factory's list is the vaults that exist: get_tvl counts each of them, and
\* the counter leads to none that it deployed itself.
VaultsCounted == TvlIsLockedValue /\ CounterAddressesFree
=============================================================================
