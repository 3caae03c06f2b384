----------------------------- MODULE StorageMap -----------------------------
(***************************************************************************)
(* The storage primitives of FRAME that the pallets are written with.  A   *)
(* StorageMap is a function whose domain is the set of keys present, so    *)
(* contains_key is membership in DOMAIN.  Every dispatchable of this FRAME *)
(* version runs in a storage transaction: a call that returns an error     *)
(* leaves no trace, so the modules model the calls that return Ok and a    *)
(* failing `ensure!` is a guard.                                           *)
(***************************************************************************)
EXTENDS Integers, Sequences, FiniteSets, Functions

CONSTANT MAX_BALANCE    \* u128::MAX, the largest QbcBalance

ASSUME MaxBalanceAssumption == MAX_BALANCE \in Nat

QbcBalance == 0 .. MAX_BALANCE

\* The empty map.
NoEntries == [k \in {} |-> k]

\* StorageMap::insert(k, v).
Insert(map, k, v) == [x \in DOMAIN map \cup {k} |-> IF x = k THEN v ELSE map[x]]

\* One insert for every key of new.
InsertAll(map, new) ==
    [x \in DOMAIN map \cup DOMAIN new |-> IF x \in DOMAIN new THEN new[x] ELSE map[x]]

\* One remove for every key in ks (absent keys are ignored).
Remove(map, ks) == Restrict(map, DOMAIN map \ ks)

\* saturating_add / saturating_sub on a QbcBalance: x is the exact result.
Saturate(x) == IF x \in QbcBalance THEN x ELSE IF x < 0 THEN 0 ELSE MAX_BALANCE

\* saturating_sub on an unsigned counter.
SatSub(a, b) == IF a >= b THEN a - b ELSE 0

=============================================================================
