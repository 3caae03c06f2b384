------------------------------ MODULE Dilithium ------------------------------
(***************************************************************************)
(* pallet qbc-dilithium: the registry that binds an address to the         *)
(* Dilithium5 public key whose signature unlocks its coins.  Keys are      *)
(* opaque values of the right size (register_key refuses any other size),  *)
(* SHA2-256 is an injection derive_address from keys to addresses, and a   *)
(* signature is abstracted to the fact that the holder of a key can make   *)
(* one: a check that succeeds needs the key to be registered, which is all *)
(* that the state decides.                                                 *)
(***************************************************************************)
EXTENDS StorageMap

CONSTANTS
    Address,            \* QBC addresses
    PublicKey,          \* Dilithium5 public keys of the right size
    derive_address      \* SHA2-256 of a public key

ASSUME KeyAssumption ==
    /\ IsFiniteSet(Address)
    /\ derive_address \in Injection(PublicKey, Address)

VARIABLES
    PublicKeys,         \* address -> registered key
    RevokedKeys,        \* addresses whose key was revoked
    TotalKeys           \* the pallet's count of registered keys

dilithiumVars == <<PublicKeys, RevokedKeys, TotalKeys>>

DilithiumTypeOK ==
    /\ DOMAIN PublicKeys \subseteq Address
    /\ \A a \in DOMAIN PublicKeys : PublicKeys[a] \in PublicKey
    /\ RevokedKeys \subseteq Address
    /\ TotalKeys \in Nat

\* The pallet has no genesis configuration: the registry starts empty.
DilithiumInit ==
    /\ PublicKeys = NoEntries
    /\ RevokedKeys = {}
    /\ TotalKeys = 0

\* Fault: a revoked address may register again.
StoreAnyKey(address, key) ==
    /\ address \notin DOMAIN PublicKeys
    /\ PublicKeys' = Insert(PublicKeys, address, key)
    /\ TotalKeys' = TotalKeys + 1
    /\ UNCHANGED RevokedKeys

\* What register_key and sudo_register_key_for_address share.
StoreKey(address, key) ==
    /\ address \notin DOMAIN PublicKeys         \* KeyAlreadyRegistered
    /\ address \notin RevokedKeys               \* KeyRevoked
    /\ PublicKeys' = Insert(PublicKeys, address, key)
    /\ TotalKeys' = TotalKeys + 1
    /\ UNCHANGED RevokedKeys

\* Anyone registers a key at the address derived from it.
RegisterKey(key) == StoreKey(derive_address[key], key)

\* Root binds a key to any address, such as a miner's Ed25519 address.
SudoRegisterKeyForAddress(address, key) == StoreKey(address, key)

\* Fault: the revoked key stays registered.
MarkRevoked(address) ==
    /\ address \in DOMAIN PublicKeys
    /\ address \notin RevokedKeys
    /\ RevokedKeys' = RevokedKeys \cup {address}
    /\ TotalKeys' = SatSub(TotalKeys, 1)
    /\ UNCHANGED PublicKeys

\* The owner revokes the key of an address, proving ownership with it.
RevokeKey(address) ==
    /\ address \in DOMAIN PublicKeys            \* KeyNotFound
    /\ address \notin RevokedKeys               \* KeyRevoked
    /\ PublicKeys' = Remove(PublicKeys, {address})
    /\ RevokedKeys' = RevokedKeys \cup {address}
    /\ TotalKeys' = SatSub(TotalKeys, 1)

\* verify_signature can succeed for a coin of this address: there is a
\* registered key for its owner to sign with.
CanSign(address) == address \in DOMAIN PublicKeys

=============================================================================
