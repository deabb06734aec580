-------------------------- MODULE StealthDeposits --------------------------
(***************************************************************************)
(* The stealth registry of the privacy contract: published keys, deposits  *)
(* under one-time keys and claims by whoever proves knowledge of the       *)
(* one-time private key.  A Schnorr proof is what it proves: the key, the  *)
(* deposit and the recipient its challenge binds.  Proofs are public once  *)
(* made: any account may submit one, late or again, as its recipient.      *)
(***************************************************************************)
EXTENDS LedgerClock, FiniteSets, Functions

CONSTANTS Owners,               \* accounts that register keys or receive
          StealthKeys, Ephemerals, ZeroPoint,   \* BN254 points; one is not valid
          StealthTokens, StealthAmounts,
          MaxStealthDeposits    \* bound: deposits ever made

StealthDeposit == [stealth_pub : StealthKeys, token : StealthTokens, amount : Nat]

\* Keys are of a fixed size and amounts i128; an absent deposit is told from a stored one.
ASSUME StealthAssumption ==
  /\ IsFiniteSet(StealthKeys) /\ IsFiniteSet(Ephemerals) /\ StealthAmounts \subseteq Int
  /\ None \notin StealthDeposit

VARIABLES registered,   \* Keys(owner) exists
          deposit_of,   \* Deposit(commitment) or None
          proved,       \* what key holders signed: <<key, commitment, recipient>>
          pooled,       \* the contract's balance of each token (external)
          received,     \* what each account was paid of each token (external)
          deposits_made \* history: number of deposits

stealthVars == <<registered, deposit_of, proved, pooled, received, deposits_made>>

\* A hash of both keys, taken to be injective.
deposit_commitment(p, r) == <<p, r>>
StealthHandles == {deposit_commitment(p, r) : p \in StealthKeys, r \in Ephemerals}

is_valid_point(k) == k # ZeroPoint

StealthInit ==
  /\ registered = {}
  /\ deposit_of = [c \in StealthHandles |-> None]
  /\ proved = {}
  /\ pooled = [t \in StealthTokens |-> 0]
  /\ received = [a \in Owners |-> [t \in StealthTokens |-> 0]]
  /\ deposits_made = 0

register_stealth_keys(owner, spend, view) ==
  /\ is_valid_point(spend) /\ is_valid_point(view)
  /\ owner \notin registered
  /\ registered' = registered \union {owner}
  /\ UNCHANGED <<deposit_of, proved, pooled, received, deposits_made>>

stealth_deposit(t, amount, r, p) ==
  /\ deposits_made < MaxStealthDeposits
  /\ amount > 0
  /\ is_valid_point(r) /\ is_valid_point(p)
  /\ deposit_of[deposit_commitment(p, r)] = None
  /\ deposit_of' = [deposit_of EXCEPT ![deposit_commitment(p, r)] =
       [stealth_pub |-> p, token |-> t, amount |-> amount]]
  /\ pooled' = [pooled EXCEPT ![t] = @ + amount]
  /\ deposits_made' = deposits_made + 1
  /\ UNCHANGED <<registered, proved, received>>

\* Mutant of claim_challenge: the challenge leaves out the recipient.
claim_challenge_unaddressed(p, c, recipient) == [key |-> p, commitment |-> c]

claim_challenge(p, c, recipient) ==
  [key |-> p, commitment |-> c, recipient |-> recipient]

\* The holder of a one-time key proves its knowledge for a recipient (off chain).
Prove(p, c, recipient) ==
  /\ is_valid_point(p)
  /\ proved' = proved \union {<<p, c, recipient>>}
  /\ UNCHANGED <<registered, deposit_of, pooled, received, deposits_made>>

stealth_claim(c, recipient) ==
  /\ deposit_of[c] # None
  /\ \E q \in proved :
       claim_challenge(q[1], q[2], q[3]) = claim_challenge(deposit_of[c].stealth_pub, c, recipient)
  /\ pooled[deposit_of[c].token] >= deposit_of[c].amount
  /\ deposit_of' = [deposit_of EXCEPT ![c] = None]
  /\ pooled' = [pooled EXCEPT ![deposit_of[c].token] = @ - deposit_of[c].amount]
  /\ received' = [received EXCEPT ![recipient][deposit_of[c].token] = @ + deposit_of[c].amount]
  /\ UNCHANGED <<registered, proved, deposits_made>>

StealthStep ==
  \/ \E o \in Owners, s, v \in StealthKeys : register_stealth_keys(o, s, v)
  \/ \E t \in StealthTokens, a \in StealthAmounts, r \in Ephemerals, p \in StealthKeys :
       stealth_deposit(t, a, r, p)
  \/ \E c \in StealthHandles, o \in Owners : Prove(c[1], c, o) \/ stealth_claim(c, o)

StealthSpec == StealthInit /\ [][StealthStep]_stealthVars

-----------------------------------------------------------------------------
\* The pooled tokens are exactly the unclaimed deposits, token by token: a pair of
\* keys used again after its claim neither replaces a deposit nor leaves one behind.
StealthBacked ==
  \A t \in StealthTokens :
    LET mine == {c \in StealthHandles : deposit_of[c] # None /\ deposit_of[c].token = t}
    IN  pooled[t] = SumFunction([c \in mine |-> deposit_of[c].amount])

\* Who was paid by a step for a deposit it removed.
PaidAsProved(c) ==
  deposit_of[c] # None /\ deposit_of'[c] = None =>
    \E o \in Owners :
      /\ <<deposit_of[c].stealth_pub, c, o>> \in proved
      /\ received'[o][deposit_of[c].token] = received[o][deposit_of[c].token] + deposit_of[c].amount

\* A deposit is paid in full to a recipient its key was proved for, and to no other
\* account that submits a proof it has seen; what is left unclaimed stays backed.
ClaimsReachTheirRecipient ==
  [][StealthBacked' /\ \A c \in StealthHandles : PaidAsProved(c)]_stealthVars
=============================================================================
