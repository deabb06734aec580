---------------------------- MODULE VaultCustody ----------------------------
(***************************************************************************)
(* What a refund vault keeps beside its float: collectibles escrowed for a *)
(* buyer, and commitments the merchant reveals later.  Both outlive the    *)
(* merchant who made them: the administration may be handed over while     *)
(* they are pending.  The NFT contract is external; only the owner of a    *)
(* token moves it.  A step stands for a call its signer has authorized.    *)
(***************************************************************************)
EXTENDS LedgerClock

CONSTANTS Vault, Parties,      \* the contract; the accounts around it
          Nfts,                \* (contract, token id) pairs
          Operations, Plaintexts,
          Unknown,             \* a plaintext nobody reveals
          COMMIT_MIN_DELAY_LEDGERS,
          MaxVersion           \* bound: storage versions

\* The vault is none of the accounts around it.
ASSUME CustodyAssumption == Vault \notin Parties /\ MaxVersion \in Nat

VARIABLES custodian,   \* Admin, PendingAdmin, IsPaused, StorageVersion
          nftOwner,    \* the NFT contracts' owner entries (external)
          nftEscrow,   \* NftEscrow(contract, id) or None
          commits      \* Commit(hash) or None

custodyVars == <<custodian, nftOwner, nftEscrow, commits>>

\* SHA-256, taken to be injective.
sha256(p) == <<"sha256", p>>
Hashes == {sha256(p) : p \in Plaintexts \union {Unknown}}

CustodyInit ==
  /\ custodian \in [admin : Parties, pending : {None}, paused : {FALSE}, version : {1}]
  /\ nftOwner \in [Nfts -> Parties]
  /\ nftEscrow = [n \in Nfts |-> None]
  /\ commits = [h \in Hashes |-> None]

(***************************************************************************)
(* Administration.                                                         *)
(***************************************************************************)
custody_transfer_admin(p) ==
  /\ custodian' = [custodian EXCEPT !.pending = p]
  /\ UNCHANGED <<nftOwner, nftEscrow, commits>>

custody_accept_admin ==
  /\ custodian.pending # None
  /\ custodian' = [custodian EXCEPT !.admin = custodian.pending, !.pending = None]
  /\ UNCHANGED <<nftOwner, nftEscrow, commits>>

custody_cancel_admin_transfer ==
  /\ custodian.pending # None
  /\ custodian' = [custodian EXCEPT !.pending = None]
  /\ UNCHANGED <<nftOwner, nftEscrow, commits>>

custody_pause ==
  /\ custodian' = [custodian EXCEPT !.paused = TRUE]
  /\ UNCHANGED <<nftOwner, nftEscrow, commits>>

custody_unpause ==
  /\ custodian' = [custodian EXCEPT !.paused = FALSE]
  /\ UNCHANGED <<nftOwner, nftEscrow, commits>>

migrate_state(target) ==
  /\ target > custodian.version
  /\ custodian' = [custodian EXCEPT !.version = target]
  /\ UNCHANGED <<nftOwner, nftEscrow, commits>>

(***************************************************************************)
(* Collectibles.                                                           *)
(***************************************************************************)
\* transfer of the NFT contract: fails unless from owns the token.
nft_transfer(n, from, to) ==
  /\ nftOwner[n] = from
  /\ nftOwner' = [nftOwner EXCEPT ![n] = to]

\* An owner outside the vault moves a token, possibly straight to the vault.
HolderTransfers(n, from, to) ==
  /\ nft_transfer(n, from, to)
  /\ UNCHANGED <<custodian, nftEscrow, commits>>

release(n, recipient) ==
  /\ recipient # Vault
  /\ nftOwner[n] = Vault
  /\ nft_transfer(n, Vault, recipient)
  /\ nftEscrow' = [nftEscrow EXCEPT ![n] = None]

deposit_nft(merchant, buyer, n) ==
  /\ ~custodian.paused
  /\ merchant = custodian.admin
  /\ nftEscrow[n] = None
  /\ nft_transfer(n, merchant, Vault)
  /\ nftEscrow' = [nftEscrow EXCEPT ![n] = [merchant |-> custodian.admin, buyer |-> buyer]]
  /\ UNCHANGED <<custodian, commits>>

\* Mutant of claim_nft: the current administrator releases instead of the depositor.
claim_nft_by_admin(merchant, n) ==
  /\ ~custodian.paused
  /\ nftEscrow[n] # None
  /\ custodian.admin = merchant
  /\ release(n, merchant)
  /\ UNCHANGED <<custodian, commits>>

\* The merchant recorded at the deposit, who need not be the admin any more.
claim_nft(merchant, n) ==
  /\ ~custodian.paused
  /\ nftEscrow[n] # None
  /\ nftEscrow[n].merchant = merchant
  /\ release(n, merchant)
  /\ UNCHANGED <<custodian, commits>>

refund_nft(buyer, n) ==
  /\ ~custodian.paused
  /\ nftEscrow[n] # None
  /\ nftEscrow[n].buyer = buyer
  /\ release(n, buyer)
  /\ UNCHANGED <<custodian, commits>>

(***************************************************************************)
(* Commit and reveal.                                                      *)
(***************************************************************************)
commit(operation, h) ==
  /\ commits[h] = None
  /\ commits' = [commits EXCEPT ![h] =
       [caller |-> custodian.admin, operation |-> operation, at |-> now]]
  /\ UNCHANGED <<custodian, nftOwner, nftEscrow>>

reveal(operation, h, plaintext) ==
  /\ commits[h] # None
  /\ commits[h].caller = custodian.admin
  /\ commits[h].operation = operation
  /\ sha256(plaintext) = h
  /\ now >= commits[h].at + COMMIT_MIN_DELAY_LEDGERS
  /\ commits' = [commits EXCEPT ![h] = None]
  /\ UNCHANGED <<custodian, nftOwner, nftEscrow>>

HandoverStep ==
  \/ \E p \in Parties : custody_transfer_admin(p)
  \/ custody_accept_admin \/ custody_cancel_admin_transfer
NftStep ==
  \/ custody_pause \/ custody_unpause
  \/ \E n \in Nfts, p \in Parties :
       \/ \E q \in Parties \union {Vault} : HolderTransfers(n, p, q) \/ deposit_nft(p, q, n)
       \/ claim_nft(p, n) \/ refund_nft(p, n)
CommitStep ==
  \/ \E v \in 1..MaxVersion : migrate_state(v)
  \/ \E op \in Operations, h \in Hashes :
       commit(op, h) \/ \E p \in Plaintexts : reveal(op, h, p)

CustodyNext ==
  \/ (HandoverStep \/ NftStep \/ CommitStep) /\ UNCHANGED now
  \/ NextLedger /\ UNCHANGED custodyVars
CustodySpec == ClockInit /\ CustodyInit /\ [][CustodyNext]_<<custodyVars, now>>

-----------------------------------------------------------------------------
\* A stored record always stands for a token the vault owns, with parties that
\* can take it; tokens sent to the vault outside deposit_nft have none.
EscrowedIsHeld == \A n \in Nfts : nftEscrow[n] # None => nftOwner[n] = Vault

\* What one step may do to an escrowed token.
NftKept(n) ==
  nftEscrow[n] # None =>
    \/ nftEscrow'[n] = nftEscrow[n] /\ nftOwner'[n] = Vault
    \/ /\ nftEscrow'[n] = None
       /\ nftOwner'[n] \in {nftEscrow[n].merchant, nftEscrow[n].buyer}
       /\ ~custodian.paused

\* What one step may do to a pending commitment.
CommitKept(h) ==
  commits[h] # None /\ commits'[h] # commits[h] =>
    /\ commits'[h] = None
    /\ custodian.admin = commits[h].caller
    /\ now >= commits[h].at + COMMIT_MIN_DELAY_LEDGERS
    /\ \E p \in Plaintexts : sha256(p) = h

\* An escrowed token leaves the vault only to the merchant who deposited it or to
\* its buyer, whoever administers the vault by then, and its record with it.  A
\* commitment is consumed only by the merchant who made it, while that merchant
\* administers the vault, and not before its delay; a handover in between leaves
\* it pending and its hash taken.
CustodyKept ==
  [][/\ EscrowedIsHeld'
     /\ \A n \in Nfts : NftKept(n)
     /\ \A h \in Hashes : CommitKept(h)]_<<custodyVars, now>>
=============================================================================
