----------------------------- MODULE ForkChoice ------------------------------
(***************************************************************************)
(* weighted_chain.rs: the chain a node prefers is the leaf with the most   *)
(* cumulative weight.  Weights are computed on demand and kept in the      *)
(* auxiliary database, which no lock protects: the callers of SelectChain  *)
(* (Aura's worker, the GRANDPA voter) run it at the same time, and while   *)
(* they do, blocks are imported and finalized and old states are pruned.   *)
(*                                                                         *)
(* Hashes are numbers, 0 is genesis; a header is never lost.  A write to   *)
(* the auxiliary database succeeds: the code drops its result.             *)
(***************************************************************************)
EXTENDS Integers, Sequences, FiniteSets, SequencesExt

CONSTANTS
    Difficulties,       \* values of CurrentDifficulty
    DIFFICULTY_SCALE,
    INITIAL_DIFFICULTY,
    Setups              \* the nodes considered: [callers, pruning, hashes], where
                        \* hashes are those of the blocks that may be imported

ASSUME ForkChoiceAssumption ==
    /\ Difficulties \subseteq Nat
    /\ DIFFICULTY_SCALE \in Nat /\ INITIAL_DIFFICULTY \in Nat
    /\ \A s \in Setups : s.hashes \subseteq Nat

VARIABLES
    setup,
    parent,             \* imported block -> its parent (external: the client)
    difficulty,         \* imported block -> CurrentDifficulty in its state
    finalized, pruned,  \* the last finalized block; the blocks without a state
    aux,                \* block -> cached cumulative weight
    query               \* caller -> its call of best_header_weighted

vars == <<setup, parent, difficulty, finalized, pruned, aux, query>>
treeVars == <<setup, parent, difficulty, finalized, pruned>>

Imported == DOMAIN difficulty

\* Genesis and the blocks between it and a block, the block included.
Path ==
    LET path[b \in Imported] == IF b = 0 THEN {0} ELSE {b} \cup path[parent[b]]
    IN  path

number(b) == Cardinality(Path[b]) - 1
DescendsFrom(b, a) == a \in Path[b]
Live(b) == DescendsFrom(b, finalized)

\* The leaves the backend reports: finalization displaces the other forks.
Leaves == {b \in Imported : Live(b) /\ \A c \in Imported \ {0} : parent[c] # b}

\* leaves is the list best_header_weighted iterates over and i its position;
\* chain is what cumulative_weight collects while it walks back, oldest first.
Idle == [pc |-> "idle", leaves |-> << >>, i |-> 0, best |-> 0, best_weight |-> 0,
         cur |-> 0, chain |-> << >>, weight |-> 0]

Init ==
    /\ setup \in Setups
    /\ parent = << >>
    /\ \E d \in Difficulties : difficulty = [b \in {0} |-> d]
    /\ finalized = 0
    /\ pruned = {}
    /\ aux = << >>
    /\ query = [c \in setup.callers |-> Idle]

-----------------------------------------------------------------------------
\* External: the client imports a block on a live one.
Import(b, p, d) ==
    /\ b \notin Imported /\ p \in Imported /\ Live(p)
    /\ parent' = [x \in DOMAIN parent \cup {b} |-> IF x = b THEN p ELSE parent[x]]
    /\ difficulty' = [x \in Imported \cup {b} |-> IF x = b THEN d ELSE difficulty[x]]
    /\ UNCHANGED <<setup, finalized, pruned, aux, query>>

\* External: GRANDPA finalizes a live block.
Finalize(b) ==
    /\ b \in Imported \ {finalized} /\ Live(b)
    /\ finalized' = b
    /\ UNCHANGED <<setup, parent, difficulty, pruned, aux, query>>

\* External: the state of a block below the finalized one, or beside it, goes.
Prune(b) ==
    /\ setup.pruning
    /\ b \in Imported \ pruned
    /\ ~ Live(b)
    /\ pruned' = pruned \cup {b}
    /\ UNCHANGED <<setup, parent, difficulty, finalized, aux, query>>

-----------------------------------------------------------------------------
difficulty_at(b) == IF b \in pruned THEN INITIAL_DIFFICULTY ELSE difficulty[b]

\* What a block adds to the weight of its chain.
BlockWeight(d) == DIFFICULTY_SCALE \div (IF d = 0 THEN 1 ELSE d)

\* best_header_weighted reads the leaves; their order is the backend's.  A chain
\* has a leaf, so the fallback for an empty list is not taken.
Begin(c) ==
    /\ query[c].pc \in {"idle", "done"}
    /\ Leaves # {}
    /\ \E leaves \in SetToSeqs(Leaves) :
          query' = [query EXCEPT ![c] =
                        [Idle EXCEPT !.pc = "lookup", !.leaves = leaves, !.i = 1]]
    /\ UNCHANGED <<treeVars, aux>>

\* Fault: the last of several equal leaves wins.
HeavierOrLater(leaf, weight, best, best_weight) == weight >= best_weight

\* More weight, or as much and the smaller hash.
Heavier(leaf, weight, best, best_weight) ==
    weight > best_weight \/ (weight = best_weight /\ leaf < best)

\* cumulative_weight returned: compare, and go on to the next leaf.
Weighed(c, weight) ==
    LET q    == query[c]
        leaf == q.leaves[q.i]
        wins == q.i = 1 \/ Heavier(leaf, weight, q.best, q.best_weight)
        last == q.i = Len(q.leaves)
    IN  query' = [query EXCEPT ![c] =
                    [Idle EXCEPT !.pc = IF last THEN "done" ELSE "lookup",
                                 !.leaves = q.leaves,
                                 !.i = IF last THEN q.i ELSE q.i + 1,
                                 !.best = IF wins THEN leaf ELSE q.best,
                                 !.best_weight = IF wins THEN weight ELSE q.best_weight]]

\* cumulative_weight: the fast path, or the start of the walk.
Lookup(c) ==
    LET leaf == query[c].leaves[query[c].i]
    IN  /\ query[c].pc = "lookup"
        /\ IF leaf \in DOMAIN aux
           THEN Weighed(c, aux[leaf])
           ELSE query' = [query EXCEPT ![c].pc = "difficulty", ![c].cur = leaf]
        /\ UNCHANGED <<treeVars, aux>>

\* The walk reads a block's difficulty; at genesis it ends with weight 0.
ReadDifficulty(c) ==
    LET q == query[c]
    IN  /\ q.pc = "difficulty"
        /\ query' = [query EXCEPT
              ![c].pc = IF q.cur = 0 THEN "store" ELSE "parent",
              ![c].chain = <<[hash |-> q.cur, difficulty |-> difficulty_at(q.cur)]>> \o @]
        /\ UNCHANGED <<treeVars, aux>>

\* Fault: the walk starts from the cached ancestor's weight and counts it again.
ReadParentTwice(c) ==
    LET q == query[c]
        p == parent[q.cur]
    IN  /\ q.pc = "parent"
        /\ IF p \in DOMAIN aux
           THEN query' = [query EXCEPT
                    ![c].pc = "store", ![c].weight = aux[p],
                    ![c].chain = <<[hash |-> p, difficulty |-> difficulty_at(p)]>> \o @]
           ELSE query' = [query EXCEPT ![c].pc = "difficulty", ![c].cur = p]
        /\ UNCHANGED <<treeVars, aux>>

\* It ends early at a parent whose weight is cached.
ReadParent(c) ==
    LET q == query[c]
        p == parent[q.cur]
    IN  /\ q.pc = "parent"
        /\ IF p \in DOMAIN aux
           THEN query' = [query EXCEPT ![c].pc = "store", ![c].weight = aux[p]]
           ELSE query' = [query EXCEPT ![c].pc = "difficulty", ![c].cur = p]
        /\ UNCHANGED <<treeVars, aux>>

\* Fault: only the weight of the leaf is written.
StoreLeafOnly(c) ==
    LET q      == query[c]
        leaf   == q.leaves[q.i]
        weight == FoldSeq(LAMBDA x, sum : sum + BlockWeight(x.difficulty), q.weight, q.chain)
    IN  /\ q.pc = "store"
        /\ aux' = [x \in DOMAIN aux \cup {leaf} |-> IF x = leaf THEN weight ELSE aux[x]]
        /\ Weighed(c, weight)
        /\ UNCHANGED treeVars

\* The weights are added up and written, oldest block first.
Store(c) ==
    LET q      == query[c]
        block  == Head(q.chain)
        weight == q.weight + BlockWeight(block.difficulty)
    IN  /\ q.pc = "store"
        /\ aux' = [x \in DOMAIN aux \cup {block.hash} |->
                      IF x = block.hash THEN weight ELSE aux[x]]
        /\ IF Len(q.chain) = 1
           THEN Weighed(c, weight)
           ELSE query' = [query EXCEPT ![c].chain = Tail(@), ![c].weight = weight]
        /\ UNCHANGED treeVars

Next ==
    \/ \E b \in setup.hashes, d \in Difficulties : \E p \in Imported : Import(b, p, d)
    \/ \E b \in Imported : Finalize(b) \/ Prune(b)
    \/ \E c \in setup.callers :
          Begin(c) \/ Lookup(c) \/ ReadDifficulty(c) \/ ReadParent(c) \/ Store(c)

Spec == Init /\ [][Next]_vars

-----------------------------------------------------------------------------
None == -1

\* Fault: the walk down to the limit stops one block too high.
TargetAbove(best, max_number) == CHOOSE b \in Path[best] : number(b) = max_number + 1

\* The loop that walks from the best block down to the limit.
Limited(best, max_number) == CHOOSE b \in Path[best] : number(b) = max_number

\* finality_target_weighted after the selection: the block to vote for, or
\* None where the code returns an error.  Headers do not change, so the
\* walk is one step.
finality_target(best, base, max_number) ==
    LET target == IF max_number # None /\ number(best) > max_number
                  THEN Limited(best, max_number) ELSE best
    IN  CASE max_number # None /\ max_number < number(base) -> None
          [] ~ DescendsFrom(target, base) -> None
          [] OTHER -> target

TrueWeight ==
    LET sum[b \in Imported] ==
            BlockWeight(difficulty[b]) + (IF b = 0 THEN 0 ELSE sum[parent[b]])
    IN  sum

\* Type invariant: the chain of a walk is a path that ends at the leaf, and
\* the weights cached are those of a subtree that contains genesis.
TypeOK ==
    /\ DOMAIN aux \subseteq Imported
    /\ \A b \in DOMAIN aux \ {0} : parent[b] \in DOMAIN aux
    /\ \A c \in setup.callers :
          LET q == query[c]
          IN  /\ q.pc \in {"idle", "lookup", "difficulty", "parent", "store", "done"}
              /\ \A k \in 1 .. Len(q.chain) - 1 : parent[q.chain[k + 1].hash] = q.chain[k].hash
              /\ q.chain # << >> => Last(q.chain).hash = q.leaves[q.i]

\* When no call is writing, cum_weight(block) = cum_weight(parent) +
\* DIFFICULTY_SCALE / difficulty for every cached weight of a block whose state
\* is still there, as the header of weighted_chain.rs has it.
WeightsAddUp ==
    (\A c \in setup.callers : query[c].pc # "store") =>
    \A b \in DOMAIN aux \ ({0} \cup pruned) :
        aux[b] = aux[parent[b]] + BlockWeight(difficulty[b])

\* Whatever was cached by whom, and whatever was imported or finalized since
\* the leaves were read, the selection is the heaviest of them by the
\* difficulties of its chain, the smallest hash first among equals.  A pruning
\* node is right about the leaves finality has not displaced.
SelectionExact ==
    \A c \in setup.callers :
        LET q == query[c]
            judged(b) == Live(b) \/ ~ setup.pruning
        IN  (q.pc = "done" /\ judged(q.best)) =>
                \A k \in DOMAIN q.leaves :
                    judged(q.leaves[k]) =>
                        \/ TrueWeight[q.best] > TrueWeight[q.leaves[k]]
                        \/ /\ TrueWeight[q.best] = TrueWeight[q.leaves[k]]
                           /\ q.best <= q.leaves[k]

\* A vote is for the highest block, up to the limit, of the chain selected, and
\* only when that block extends the base.
TargetsExtendBase ==
    \A c \in setup.callers : query[c].pc = "done" =>
        \A base \in Imported, max \in {None} \cup 0 .. Cardinality(Imported) :
            LET best == query[c].best
                t == finality_target(best, base, max)
                allowed == {b \in Path[best] : DescendsFrom(b, base) /\ (max = None \/ number(b) <= max)}
            IN  IF allowed = {} THEN t = None
                ELSE t \in allowed /\ \A b \in allowed : number(b) <= number(t)
=============================================================================
