---------------------------- MODULE MCForkChoice -----------------------------
\* The nodes on which fork choice is checked.
EXTENDS ForkChoice

CONSTANTS aura, grandpa         \* callers of SelectChain

Callers == Permutations({aura, grandpa})

\* Two concurrent callers on a node that keeps every state, and one caller on a
\* node that prunes.
SafeSetups ==
    {[callers |-> {aura, grandpa}, pruning |-> FALSE, hashes |-> {1, 2}]} \cup
    [callers : {{aura}, {grandpa}}, pruning : {TRUE}, hashes : {{1, 2, 3}}]

\* Two concurrent callers on a node that prunes.
PruningValidator ==
    {[callers |-> {aura, grandpa}, pruning |-> TRUE, hashes |-> {1, 2}]}
=============================================================================
