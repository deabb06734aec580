-------------------------- MODULE CrossChainBridge --------------------------
(***************************************************************************)
(* The cross-chain bridge: deposits delivered by an Axelar gateway, dispute*)
(* resolutions delivered by a LayerZero endpoint, Wormhole attestations    *)
(* checked against stored guardian sets, and withdrawals that burn the     *)
(* wrapped token.  Gateway, endpoint and token are external.  What they    *)
(* deliver may be lost, late, repeated or reordered: a delivery is a step  *)
(* that any message of the given sets can take at any time, any number of  *)
(* times.  Only messages whose payload has the right version and length    *)
(* reach the code below the parsers, so a message is its decoded content.  *)
(***************************************************************************)
EXTENDS LedgerClock, Sequences, FiniteSets, Functions

CONSTANTS Gateways, Endpoints,   \* contracts that may be registered as such
          Messages,              \* deposits the gateway approved: id, chain, recipient, amount
          Packets,               \* resolutions on the wire: peer, nonce, dispute, verdict
          GuardianSets,          \* sets the admin may store: index, keys
          Vaas,                  \* attestations: index, signatures of [guardian, signer]
          Withdrawers, Withdrawals, InitialWrapped,
          MaxCredit,             \* i128::MAX of the credited total
          MaxRequests            \* bound: withdrawals made

VARIABLES bridge,      \* instance storage
          guardians,   \* GuardianSet(index) or None
          executed,    \* MessageExecuted(id): the message credited, or None
          credited,    \* Credited(recipient)
          trusted,     \* TrustedPeer
          peerNonce,   \* PeerNonce(peer)
          disputeSettled, \* DisputeSettled(id): the packet that settled it, or None
          wrapped,     \* the wrapped token's balances (external)
          requests,    \* the withdrawal events relayers have seen
          attested     \* the last attestation accepted, with the keys it was checked against

depositVars == <<executed, credited>>
disputeVars == <<trusted, peerNonce, disputeSettled>>
outVars == <<wrapped, requests>>
vaaVars == <<guardians, attested>>
bridgeVars == <<bridge, depositVars, disputeVars, outVars, vaaVars>>

MessageIds == {m.id : m \in Messages}
Recipients == {m.recipient : m \in Messages}
Peers == {p.peer : p \in Packets}
BridgedDisputes == {p.dispute : p \in Packets}
SetIndices == {s.index : s \in GuardianSets} \union {v.index : v \in Vaas}

\* Amounts, nonces and indices are numbers; what is stored is told from nothing.
ASSUME BridgeAssumption ==
  /\ IsFiniteSet(MessageIds)
  /\ \A m \in Messages : m.amount \in Int
  /\ \A p \in Packets : p.nonce \in Nat
  /\ \A s \in GuardianSets : s.index \in Nat /\ Len(s.keys) \in Nat
  /\ \A v \in Vaas :
       /\ Len(v.signatures) \in Nat
       /\ \A i \in 1..Len(v.signatures) : v.signatures[i].guardian \in Nat
  /\ None \notin Messages \union Packets \union GuardianSets
  /\ Withdrawals \subseteq Int /\ InitialWrapped \in Nat /\ MaxCredit \in Nat

BridgeInit ==
  /\ bridge = [admin |-> FALSE, paused |-> FALSE, next |-> 1, gateway |-> None,
               endpoint |-> None, current |-> 0]
  /\ guardians = [i \in SetIndices |-> None]
  /\ executed = [i \in MessageIds |-> None]
  /\ credited = [r \in Recipients |-> 0]
  /\ trusted = {}
  /\ peerNonce = [p \in Peers |-> 0]
  /\ disputeSettled = [d \in BridgedDisputes |-> None]
  /\ wrapped = [w \in Withdrawers |-> InitialWrapped]
  /\ requests = <<>>
  /\ attested = None

bridge_initialize ==
  /\ ~bridge.admin
  /\ bridge' = [bridge EXCEPT !.admin = TRUE, !.next = 1, !.paused = FALSE, !.current = 0]
  /\ UNCHANGED <<depositVars, disputeVars, outVars, vaaVars>>

bridge_pause ==
  /\ bridge.admin
  /\ bridge' = [bridge EXCEPT !.paused = TRUE]
  /\ UNCHANGED <<depositVars, disputeVars, outVars, vaaVars>>

bridge_unpause ==
  /\ bridge.admin
  /\ bridge' = [bridge EXCEPT !.paused = FALSE]
  /\ UNCHANGED <<depositVars, disputeVars, outVars, vaaVars>>

(***************************************************************************)
(* Axelar deposits.                                                        *)
(***************************************************************************)
set_axelar_gateway(g) ==
  /\ bridge.admin
  /\ bridge' = [bridge EXCEPT !.gateway = g]
  /\ UNCHANGED <<depositVars, disputeVars, outVars, vaaVars>>

\* A message id is final once executed, whichever chain it came from.
record_deposit(m) ==
  /\ executed[m.id] = None
  /\ credited[m.recipient] + m.amount <= MaxCredit
  /\ executed' = [executed EXCEPT ![m.id] = m]
  /\ credited' = [credited EXCEPT ![m.recipient] = @ + m.amount]

axelar_execute(g, m) ==
  /\ ~bridge.paused
  /\ bridge.gateway # None
  /\ g = bridge.gateway
  /\ m.amount > 0
  /\ record_deposit(m)
  /\ UNCHANGED <<bridge, disputeVars, outVars, vaaVars>>

(***************************************************************************)
(* LayerZero dispute resolutions.                                          *)
(***************************************************************************)
set_layerzero_endpoint(e) ==
  /\ bridge.admin
  /\ bridge' = [bridge EXCEPT !.endpoint = e]
  /\ UNCHANGED <<depositVars, disputeVars, outVars, vaaVars>>

set_trusted_peer(p) ==
  /\ bridge.admin
  /\ trusted' = trusted \union {p}
  /\ UNCHANGED <<bridge, depositVars, peerNonce, disputeSettled, outVars, vaaVars>>

\* A packet for a settled dispute is refused and leaves its peer's nonce alone.
record_dispute_resolution(p) ==
  /\ disputeSettled[p.dispute] = None
  /\ disputeSettled' = [disputeSettled EXCEPT ![p.dispute] = p]
  /\ peerNonce' = [peerNonce EXCEPT ![p.peer] = p.nonce]

\* Mutant of lz_receive: an older nonce is accepted.
lz_receive_unordered(e, p) ==
  /\ bridge.endpoint # None
  /\ e = bridge.endpoint
  /\ ~bridge.paused
  /\ p.peer \in trusted
  /\ p.nonce # peerNonce[p.peer]
  /\ record_dispute_resolution(p)
  /\ UNCHANGED <<bridge, depositVars, trusted, outVars, vaaVars>>

lz_receive(e, p) ==
  /\ bridge.endpoint # None
  /\ e = bridge.endpoint
  /\ ~bridge.paused
  /\ p.peer \in trusted
  /\ p.nonce > peerNonce[p.peer]
  /\ record_dispute_resolution(p)
  /\ UNCHANGED <<bridge, depositVars, trusted, outVars, vaaVars>>

(***************************************************************************)
(* Wormhole attestations.  A signature names a guardian by its index from  *)
(* zero; signer is the key that recovering it yields.                      *)
(***************************************************************************)
set_guardian_set(s) ==
  /\ bridge.admin
  /\ guardians' = [guardians EXCEPT ![s.index] = s]
  /\ bridge' = [bridge EXCEPT !.current = s.index]
  /\ UNCHANGED <<depositVars, disputeVars, outVars, attested>>

quorum(s) == (Len(s.keys) * 2) \div 3 + 1

\* At least a quorum of signatures, in strictly ascending order of guardian,
\* each one recovering to the key its guardian index names.
verify_vaa(v, s) ==
  /\ v.index = s.index
  /\ Len(v.signatures) >= quorum(s)
  /\ \A i \in 1..Len(v.signatures) :
       LET sig == v.signatures[i] IN
         /\ i > 1 => sig.guardian > v.signatures[i - 1].guardian
         /\ sig.guardian < Len(s.keys)
         /\ sig.signer = s.keys[sig.guardian + 1]

\* Any stored set will do, the current one or an earlier one; the pause does
\* not stop it.
verify_and_parse_vaa(v) ==
  /\ guardians[v.index] # None
  /\ verify_vaa(v, guardians[v.index])
  /\ attested' = [vaa |-> v, keys |-> guardians[v.index].keys]
  /\ UNCHANGED <<bridge, depositVars, disputeVars, outVars, guardians>>

(***************************************************************************)
(* Withdrawals to an EVM chain.                                            *)
(***************************************************************************)
\* The caller's tokens are burned and the request is published.
execute_withdrawal_to_evm(c, amount, sequence) ==
  /\ amount > 0
  /\ wrapped[c] >= amount
  /\ wrapped' = [wrapped EXCEPT ![c] = @ - amount]
  /\ requests' = Append(requests, [sequence |-> sequence, sender |-> c, amount |-> amount])

withdraw_to_evm(c, amount) ==
  /\ ~bridge.paused
  /\ bridge.admin
  /\ Len(requests) < MaxRequests
  /\ execute_withdrawal_to_evm(c, amount, bridge.next)
  /\ bridge' = [bridge EXCEPT !.next = @ + 1]
  /\ UNCHANGED <<depositVars, disputeVars, vaaVars>>

BridgeAdminStep == bridge_initialize \/ bridge_pause \/ bridge_unpause
DepositStep ==
  \/ \E g \in Gateways : set_axelar_gateway(g)
  \/ \E g \in Gateways, m \in Messages : axelar_execute(g, m)
ResolutionStep ==
  \/ \E e \in Endpoints : set_layerzero_endpoint(e)
  \/ \E p \in Peers : set_trusted_peer(p)
  \/ \E e \in Endpoints, p \in Packets : lz_receive(e, p)
VaaStep ==
  \/ \E s \in GuardianSets : set_guardian_set(s)
  \/ \E v \in Vaas : verify_and_parse_vaa(v)
WithdrawStep == \E c \in Withdrawers, a \in Withdrawals : withdraw_to_evm(c, a)

BridgeNext == BridgeAdminStep \/ DepositStep \/ ResolutionStep \/ VaaStep \/ WithdrawStep
BridgeSpec == BridgeInit /\ [][BridgeNext]_bridgeVars

-----------------------------------------------------------------------------
\* Stored entries are of their type: no credited total passes the width the
\* checked addition of record_deposit guards.
BridgeTypeOK ==
  /\ bridge \in [admin : BOOLEAN, paused : BOOLEAN, next : Nat \ {0},
                 gateway : {None} \union Gateways, endpoint : {None} \union Endpoints,
                 current : Nat]
  /\ guardians \in [SetIndices -> {None} \union GuardianSets]
  /\ executed \in [MessageIds -> {None} \union Messages]
  /\ credited \in [Recipients -> 0..MaxCredit]
  /\ trusted \subseteq Peers
  /\ peerNonce \in [Peers -> Nat]
  /\ disputeSettled \in [BridgedDisputes -> {None} \union Packets]
  /\ wrapped \in [Withdrawers -> Nat]
  /\ attested = None \/ attested.vaa \in Vaas

\* A recipient's credited total is the sum over the message ids executed for the
\* recipient, one amount per id, however often the gateway delivers a message
\* and in whatever order.
CreditedOncePerMessage ==
  \A r \in Recipients :
    LET mine == {i \in MessageIds : executed[i] # None /\ executed[i].recipient = r}
    IN  credited[r] = SumFunction([i \in mine |-> executed[i].amount])

\* The first resolution accepted for a dispute stands, whichever peer delivers
\* another one, and the nonce of a peer never goes back.
ResolutionsFinal ==
  /\ \A d \in BridgedDisputes : disputeSettled[d] # None => disputeSettled'[d] = disputeSettled[d]
  /\ \A p \in Peers : peerNonce'[p] >= peerNonce[p]

\* The nonce stored for a peer is the highest of the packets that settled a
\* dispute for it, no two of which have the same nonce, and every one of them
\* came from a trusted peer.
NoncesCoverSettlements ==
  \A p \in Peers :
    LET mine == {d \in BridgedDisputes : disputeSettled[d] # None /\ disputeSettled[d].peer = p} IN
      /\ mine = {} => peerNonce[p] = 0
      /\ mine # {} => p \in trusted /\ \E d \in mine : disputeSettled[d].nonce = peerNonce[p]
      /\ \A d \in mine : disputeSettled[d].nonce <= peerNonce[p]
      /\ \A d, e \in mine : d # e => disputeSettled[d].nonce # disputeSettled[e].nonce

\* An accepted attestation is signed by more than two thirds of the guardians of
\* the set it names, counted as different guardians of that set.
AttestedByQuorum ==
  attested # None =>
    LET keys == attested.keys
        sigs == attested.vaa.signatures
        signed == {i \in 1..Len(keys) :
                     \E j \in 1..Len(sigs) : sigs[j].guardian + 1 = i /\ sigs[j].signer = keys[i]}
    IN  3 * Cardinality(signed) > 2 * Len(keys)

\* Relayers see each sequence number once and without gaps, and what the
\* requests of an account add up to is what was burned from it.
RequestsMatchBurns ==
  /\ \A i \in 1..Len(requests) : requests[i].sequence = i
  /\ bridge.next = Len(requests) + 1
  /\ \A w \in Withdrawers :
       LET mine == {i \in 1..Len(requests) : requests[i].sender = w}
       IN  wrapped[w] + SumFunction([i \in mine |-> requests[i].amount]) = InitialWrapped

\* Whatever the messengers repeat, reorder or delay, a deposit, a resolution and
\* a withdrawal each take effect once, on a quorum's word, and for good.
DeliveredOnce ==
  [][/\ BridgeTypeOK' /\ CreditedOncePerMessage' /\ NoncesCoverSettlements'
     /\ AttestedByQuorum' /\ RequestsMatchBurns'
     /\ ResolutionsFinal]_bridgeVars
=============================================================================
