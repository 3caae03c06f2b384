----------------------------- MODULE ForkProofs ------------------------------
(***************************************************************************)
(* Proofs about ForkChoice, for any block tree, any difficulties and any   *)
(* number of callers.  A steady node is one that keeps every state, or     *)
(* that has a single caller of SelectChain; on it the cached weights add   *)
(* up, at every moment and not only when no caller is writing, and the     *)
(* leaf selected is the heaviest.  On every node a finality target is the  *)
(* highest block of the chosen chain that the limit allows.                *)
(*                                                                         *)
(* The argument: what a caller is about to write for a block is the weight *)
(* of its parent, which is cached and stays as it is, plus the block's own.*)
(* Hence a second caller that writes the same block writes the same value, *)
(* and a weight once cached never changes.  A pruning node may have begun  *)
(* with a wrong weight, because the states below the finalized block are   *)
(* gone, but everything above that block is wrong by the same amount, so   *)
(* that leaves compare as their true weights do.                           *)
(***************************************************************************)
EXTENDS ForkChoice, FiniteSetTheorems, SequenceTheorems, TLAPS

-----------------------------------------------------------------------------
(* The block tree *)

\* The weight of a block is a natural number, also at difficulty 0.
LEMMA BlockWeightType ==
    ASSUME NEW d \in Nat
    PROVE  BlockWeight(d) \in Nat
<1>1. PICK e \in Nat \ {0} : e = (IF d = 0 THEN 1 ELSE d)
  OBVIOUS
<1>2. DIFFICULTY_SCALE \div e \in Nat
  BY <1>1, ForkChoiceAssumption, Z3
<1> QED
  BY <1>1, <1>2 DEF BlockWeight

\* The hashes of the blocks, genesis included.
Block == setup.hashes \cup {0}

\* The block tree.
Tree ==
    /\ setup \in Setups
    /\ Imported \subseteq Block /\ 0 \in Imported /\ IsFiniteSet(Imported)
    /\ difficulty \in [Imported -> Difficulties]
    /\ parent \in [Imported \ {0} -> Imported]
    /\ \A b \in Imported \ {0} : parent[b] # b
    /\ finalized \in Imported
    /\ pruned # {} => setup.pruning

\* The equations of Path and TrueWeight.
IsPath(f) == f = [b \in Imported |-> IF b = 0 THEN {0} ELSE {b} \cup f[parent[b]]]
IsWeight(f) ==
    f = [b \in Imported |->
            BlockWeight(difficulty[b]) + (IF b = 0 THEN 0 ELSE f[parent[b]])]

\* They have exactly one solution each.
OneSolution ==
    /\ \E f : IsPath(f)
    /\ \A f, g : IsPath(f) /\ IsPath(g) => f = g
    /\ \E f \in [Imported -> Nat] : IsWeight(f)
    /\ \A f, g : IsWeight(f) /\ IsWeight(g) => f = g

\* The blocks above genesis form a tree.
Paths ==
    /\ \A b \in Imported :
          /\ b \in Path[b] /\ 0 \in Path[b] /\ Path[b] \subseteq Imported
          /\ \A a \in Path[b] :
                /\ Path[a] \subseteq Path[b]
                /\ a # b => number(a) < number(b)
          /\ \A a, c \in Path[b] : a \in Path[c] \/ c \in Path[a]
          /\ \A n \in 0 .. number(b) : \E a \in Path[b] : number(a) = n
    /\ \A b \in pruned : b \in Imported /\ ~ Live(b)

\* What is true of the tree in every reachable state.
TreeInv == Tree /\ OneSolution /\ Paths

\* Path solves its equation.
LEMMA PathEquation ==
    ASSUME OneSolution
    PROVE  /\ IsPath(Path)
           /\ \A b \in Imported : Path[b] = IF b = 0 THEN {0} ELSE {b} \cup Path[parent[b]]
<1>1. Path = CHOOSE f : IsPath(f)
  BY DEF Path, IsPath
<1>2. IsPath(Path)
  BY <1>1 DEF OneSolution
<1>3. PICK p : p = Path
  OBVIOUS
<1>4. \A b \in Imported : p[b] = IF b = 0 THEN {0} ELSE {b} \cup p[parent[b]]
  BY <1>2, <1>3 DEF IsPath
<1>5. QED
  BY <1>2, <1>3, <1>4

\* TrueWeight solves its equation, and weights are naturals.
LEMMA WeightEquation ==
    ASSUME OneSolution
    PROVE  /\ IsWeight(TrueWeight) /\ TrueWeight \in [Imported -> Nat]
           /\ \A b \in Imported :
                 TrueWeight[b] = BlockWeight(difficulty[b])
                                    + (IF b = 0 THEN 0 ELSE TrueWeight[parent[b]])
<1>1. TrueWeight = CHOOSE f : IsWeight(f)
  BY DEF TrueWeight, IsWeight
<1>2. IsWeight(TrueWeight)
  BY <1>1 DEF OneSolution
<1>3. PICK p : p = TrueWeight
  OBVIOUS
<1>4. \A b \in Imported :
         p[b] = BlockWeight(difficulty[b]) + (IF b = 0 THEN 0 ELSE p[parent[b]])
  BY <1>2, <1>3 DEF IsWeight
<1>5. p \in [Imported -> Nat]
  BY <1>2, <1>3 DEF OneSolution
<1>6. QED
  BY <1>2, <1>3, <1>4, <1>5

\* The height of a block.
LEMMA Numbers ==
    ASSUME TreeInv, NEW b \in Imported
    PROVE  /\ IsFiniteSet(Path[b]) /\ number(b) \in Nat
           /\ number(b) = Cardinality(Path[b]) - 1
<1>1. b \in Path[b] /\ Path[b] \subseteq Imported /\ IsFiniteSet(Imported)
  BY DEF TreeInv, Tree, Paths
<1>2. IsFiniteSet(Path[b])
  BY <1>1, FS_Subset
<1>3. Cardinality(Path[b]) \in Nat /\ Cardinality(Path[b]) # 0
  BY <1>1, <1>2, FS_CardinalityType, FS_EmptySet
<1>4. QED
  BY <1>2, <1>3 DEF number

\* Genesis alone is a tree.
LEMMA InitTree == Init => TreeInv
<1> SUFFICES ASSUME Init PROVE TreeInv
  OBVIOUS
<1>1. PICK d \in Difficulties : difficulty = [b \in {0} |-> d]
  BY DEF Init
<1>2. Imported = {0} /\ IsFiniteSet({0})
  BY <1>1, FS_Singleton DEF Imported
<1>3. DOMAIN parent = {}
  BY DEF Init
<1>4. Tree
  BY <1>1, <1>2, <1>3 DEF Tree, Init, Block
<1>5. \A f : IsPath(f) <=> f = [b \in {0} |-> {0}]
  BY <1>2 DEF IsPath
<1>6. PICK w \in Nat : w = BlockWeight(d) + 0
  BY BlockWeightType, ForkChoiceAssumption
<1>7. \A f : IsWeight(f) <=> f = [b \in {0} |-> w]
  BY <1>1, <1>2, <1>6 DEF IsWeight
<1>8. OneSolution
  BY <1>2, <1>5, <1>7 DEF OneSolution
<1>9. Path[0] = {0}
  BY <1>2, <1>8, PathEquation
<1>10. number(0) = 0
  BY <1>9, FS_Singleton DEF number
<1>11. Paths
  BY <1>2, <1>9, <1>10 DEF Paths, Init
<1>12. QED
  BY <1>4, <1>8, <1>11 DEF TreeInv

\* What the steps leave alone in the tree.
SameBelow ==
    /\ Imported \subseteq Imported'
    /\ \A b \in Imported : Path'[b] = Path[b] /\ TrueWeight'[b] = TrueWeight[b]
    /\ \A b \in Imported : number(b)' = number(b)

\* A block imported on a known parent leaves a tree, and the paths and the
\* weights of the older blocks as they were: both equations keep their one
\* solution.
LEMMA ImportTree ==
    ASSUME TreeInv, NEW b \in setup.hashes, NEW d \in Difficulties,
           NEW p \in Imported, Import(b, p, d)
    PROVE  TreeInv' /\ SameBelow
<1>1. /\ Imported' = Imported \cup {b} /\ b \notin Imported /\ b # 0
      /\ difficulty' \in [Imported \cup {b} -> Difficulties]
      /\ difficulty'[b] = d
      /\ \A x \in Imported : difficulty'[x] = difficulty[x]
  BY DEF Import, Imported, TreeInv, Tree
<1>2. /\ parent' \in [(Imported \cup {b}) \ {0} -> Imported \cup {b}]
      /\ parent'[b] = p
      /\ \A x \in Imported \ {0} : parent'[x] = parent[x] /\ parent[x] \in Imported
  BY <1>1 DEF Import, TreeInv, Tree
<1>3. UNCHANGED <<setup, finalized, pruned>>
  BY DEF Import
<1>4. IsFiniteSet(Imported \cup {b})
  BY FS_AddElement DEF TreeInv, Tree
<1>5. Tree'
  BY <1>1, <1>2, <1>3, <1>4 DEF TreeInv, Tree, Block
<1>6. PICK all : all = Imported \cup {b}
  OBVIOUS
<1>7. \A f : IsPath(f)' <=> f = [x \in all |-> IF x = 0 THEN {0} ELSE {x} \cup f[parent'[x]]]
  BY <1>1, <1>6 DEF IsPath
<1>8. \A f : IsWeight(f)' <=>
          f = [x \in all |-> BlockWeight(difficulty'[x])
                                 + (IF x = 0 THEN 0 ELSE f[parent'[x]])]
  BY <1>1, <1>6 DEF IsWeight, BlockWeight
<1>9. ASSUME NEW f, IsPath(f)'
      PROVE  /\ [x \in Imported |-> f[x]] = Path
             /\ f = [x \in all |-> IF x = b THEN {b} \cup Path[p] ELSE Path[x]]
  <2>1. PICK g : g = [x \in Imported |-> f[x]]
    OBVIOUS
  <2>2. f = [x \in all |-> IF x = 0 THEN {0} ELSE {x} \cup f[parent'[x]]]
    BY <1>7, <1>9
  <2>3. \A x \in all : f[x] = IF x = 0 THEN {0} ELSE {x} \cup f[parent'[x]]
    BY <2>2
  <2>4. \A x \in Imported : g[x] = IF x = 0 THEN {0} ELSE {x} \cup g[parent[x]]
    BY <1>2, <1>6, <2>1, <2>3
  <2>5. IsPath(g)
    BY <2>1, <2>4 DEF IsPath
  <2>6. g = Path
    BY <2>5, PathEquation DEF TreeInv, OneSolution
  <2>7. \A x \in Imported : f[x] = Path[x]
    BY <2>1, <2>6
  <2>8. f[b] = {b} \cup Path[p]
    <3>1. b \in all /\ b # 0 /\ parent'[b] = p
      BY <1>1, <1>2, <1>6
    <3>2. f[b] = {b} \cup f[p]
      BY <2>3, <3>1
    <3>3. QED
      BY <2>7, <3>2
  <2>9. f = [x \in all |-> f[x]]
    BY <2>2
  <2>10. QED
    BY <1>1, <1>6, <2>1, <2>6, <2>7, <2>8, <2>9
<1>10. \E f : IsPath(f)'
  <2>1. PICK f : f = [x \in all |-> IF x = b THEN {b} \cup Path[p] ELSE Path[x]]
    OBVIOUS
  <2>2. \A x \in all : f[x] = IF x = 0 THEN {0} ELSE {x} \cup f[parent'[x]]
    <3>1. f[b] = {b} \cup f[parent'[b]]
      BY <1>1, <1>2, <1>6, <2>1
    <3>2. ASSUME NEW x \in Imported
          PROVE  f[x] = IF x = 0 THEN {0} ELSE {x} \cup f[parent'[x]]
      <4>1. f[x] = Path[x] /\ (x # 0 => f[parent'[x]] = Path[parent[x]])
        BY <1>1, <1>2, <1>6, <2>1
      <4>2. QED
        BY <4>1, PathEquation DEF TreeInv
    <3>3. QED
      BY <1>1, <1>6, <3>1, <3>2
  <2>3. f = [x \in all |-> f[x]]
    BY <2>1
  <2>4. f = [x \in all |-> IF x = 0 THEN {0} ELSE {x} \cup f[parent'[x]]]
    BY <2>2, <2>3
  <2>5. QED
    BY <1>7, <2>4
<1>11. ASSUME NEW f, IsWeight(f)'
       PROVE  /\ [x \in Imported |-> f[x]] = TrueWeight
              /\ f = [x \in all |-> IF x = b THEN BlockWeight(d) + TrueWeight[p]
                                    ELSE TrueWeight[x]]
  <2>1. PICK g : g = [x \in Imported |-> f[x]]
    OBVIOUS
  <2>2. f = [x \in all |-> BlockWeight(difficulty'[x])
                               + (IF x = 0 THEN 0 ELSE f[parent'[x]])]
    BY <1>8, <1>11
  <2>3. \A x \in all : f[x] = BlockWeight(difficulty'[x])
                                  + (IF x = 0 THEN 0 ELSE f[parent'[x]])
    BY <2>2
  <2>4. \A x \in Imported : g[x] = BlockWeight(difficulty[x])
                                       + (IF x = 0 THEN 0 ELSE g[parent[x]])
    BY <1>1, <1>2, <1>6, <2>1, <2>3
  <2>5. IsWeight(g)
    BY <2>1, <2>4 DEF IsWeight
  <2>6. g = TrueWeight
    BY <2>5, WeightEquation DEF TreeInv, OneSolution
  <2>7. f[b] = BlockWeight(d) + TrueWeight[p]
    BY <1>1, <1>2, <1>6, <2>1, <2>3, <2>6
  <2>8. \A x \in Imported : f[x] = TrueWeight[x]
    BY <2>1, <2>6
  <2>9. f = [x \in all |-> f[x]]
    BY <2>2
  <2>10. QED
    BY <1>1, <1>6, <2>1, <2>6, <2>7, <2>8, <2>9
<1>12. \E f \in [all -> Nat] : IsWeight(f)'
  <2>1. PICK f : f = [x \in all |-> IF x = b THEN BlockWeight(d) + TrueWeight[p]
                                    ELSE TrueWeight[x]]
    OBVIOUS
  <2>2. \A x \in all : f[x] = BlockWeight(difficulty'[x])
                                  + (IF x = 0 THEN 0 ELSE f[parent'[x]])
    <3>1. f[b] = BlockWeight(difficulty'[b]) + f[parent'[b]]
      BY <1>1, <1>2, <1>6, <2>1
    <3>2. ASSUME NEW x \in Imported
          PROVE  f[x] = BlockWeight(difficulty'[x]) + (IF x = 0 THEN 0 ELSE f[parent'[x]])
      <4>1. f[x] = TrueWeight[x] /\ (x # 0 => f[parent'[x]] = TrueWeight[parent[x]])
        BY <1>1, <1>2, <1>6, <2>1
      <4>2. TrueWeight[x] = BlockWeight(difficulty[x])
                                + (IF x = 0 THEN 0 ELSE TrueWeight[parent[x]])
        BY WeightEquation DEF TreeInv
      <4>3. QED
        BY <1>1, <4>1, <4>2
    <3>3. QED
      BY <1>1, <1>6, <3>1, <3>2
  <2>3. f = [x \in all |-> f[x]]
    BY <2>1
  <2>4. f = [x \in all |-> BlockWeight(difficulty'[x])
                               + (IF x = 0 THEN 0 ELSE f[parent'[x]])]
    BY <2>2, <2>3
  <2>5. BlockWeight(d) + TrueWeight[p] \in Nat /\ \A x \in Imported : TrueWeight[x] \in Nat
    <3>1. BlockWeight(d) \in Nat
      BY BlockWeightType, ForkChoiceAssumption
    <3>2. \A x \in Imported : TrueWeight[x] \in Nat
      BY WeightEquation DEF TreeInv
    <3>3. QED
      BY <3>1, <3>2
  <2>6. f \in [all -> Nat]
    BY <1>6, <2>1, <2>5
  <2>7. QED
    BY <1>8, <2>4, <2>6
<1>13. OneSolution'
  <2>1. \A f, g : IsPath(f)' /\ IsPath(g)' => f = g
    BY <1>9
  <2>2. \A f, g : IsWeight(f)' /\ IsWeight(g)' => f = g
    BY <1>11
  <2>3. \E f \in [Imported' -> Nat] : IsWeight(f)'
    BY <1>1, <1>6, <1>12
  <2>4. QED
    BY <1>10, <2>1, <2>2, <2>3 DEF OneSolution
<1>14. IsPath(Path)' /\ IsWeight(TrueWeight)'
  <2>1. (OneSolution => IsPath(Path) /\ IsWeight(TrueWeight))'
    BY PathEquation, WeightEquation, PTL
  <2>2. QED
    BY <1>13, <2>1
<1>15. PICK path, weight : path = Path' /\ weight = TrueWeight'
  OBVIOUS
<1>16. path = [x \in all |-> IF x = b THEN {b} \cup Path[p] ELSE Path[x]]
  BY <1>9, <1>14, <1>15 DEF IsPath
<1>17. weight = [x \in all |-> IF x = b THEN BlockWeight(d) + TrueWeight[p]
                               ELSE TrueWeight[x]]
  BY <1>11, <1>14, <1>15 DEF IsWeight
<1>18. SameBelow
  <2>1. \A x \in Imported : path[x] = Path[x] /\ weight[x] = TrueWeight[x]
    BY <1>1, <1>6, <1>16, <1>17
  <2>2. \A x \in Imported : number(x)' = number(x)
    BY <1>15, <2>1 DEF number
  <2>3. QED
    BY <1>1, <1>15, <2>1, <2>2 DEF SameBelow
<1>19. Path'[b] = {b} \cup Path[p] /\ \A x \in Imported : Path'[x] = Path[x]
  BY <1>6, <1>15, <1>16, <1>18 DEF SameBelow
<1>20. ASSUME NEW x \in Imported
       PROVE  /\ x \in Path[x] /\ 0 \in Path[x] /\ Path[x] \subseteq Imported
              /\ \A a \in Path[x] :
                    /\ Path[a] \subseteq Path[x]
                    /\ a # x => number(a) < number(x)
              /\ \A a, c \in Path[x] : a \in Path[c] \/ c \in Path[a]
              /\ \A n \in 0 .. number(x) : \E a \in Path[x] : number(a) = n
  BY <1>20 DEF TreeInv, Paths
<1>21. number(b)' = number(p) + 1 /\ number(p) \in Nat
  <2>1. /\ IsFiniteSet(Path[p]) /\ number(p) \in Nat
        /\ number(p) = Cardinality(Path[p]) - 1
    BY Numbers
  <2>2. b \notin Path[p]
    BY <1>1, <1>20
  <2>3. PICK S : S = Path[p]
    OBVIOUS
  <2>4. Cardinality(S \cup {b}) = Cardinality(S) + 1 /\ Cardinality(S) \in Nat
    BY <2>1, <2>2, <2>3, FS_AddElement, FS_CardinalityType
  <2>5. {b} \cup S = S \cup {b} /\ number(b)' = Cardinality({b} \cup S) - 1
    BY <1>19, <2>3 DEF number
  <2>6. PICK n, m, k : n = Cardinality(S) /\ m = number(p) /\ k = number(b)'
    OBVIOUS
  <2>7. n \in Nat /\ m = n - 1 /\ m \in Nat /\ k = (n + 1) - 1
    BY <2>1, <2>3, <2>4, <2>5, <2>6
  <2>8. k = m + 1
    BY <2>7
  <2>9. QED
    BY <2>1, <2>6, <2>8
<1>22. ASSUME NEW x \in Imported'
       PROVE  /\ x \in Path'[x] /\ 0 \in Path'[x] /\ Path'[x] \subseteq Imported'
              /\ \A a \in Path'[x] :
                    /\ Path'[a] \subseteq Path'[x]
                    /\ a # x => number(a)' < number(x)'
              /\ \A a, c \in Path'[x] : a \in Path'[c] \/ c \in Path'[a]
              /\ \A n \in 0 .. number(x)' : \E a \in Path'[x] : number(a)' = n
  <2>1. CASE x \in Imported
    BY <1>1, <1>18, <1>20, <2>1 DEF SameBelow
  <2>2. CASE x = b
    <3>1. b \in Path'[b] /\ 0 \in Path'[b] /\ Path'[b] \subseteq Imported'
      BY <1>1, <1>19, <1>20
    <3>2. ASSUME NEW a \in Path[p]
          PROVE  /\ a \in Imported /\ number(a) \in Nat /\ number(a) <= number(p)
                 /\ number(a)' = number(a) /\ Path'[a] = Path[a]
                 /\ Path[a] \subseteq Path[p]
      <4>1. a \in Imported /\ Path[a] \subseteq Path[p] /\ (a # p => number(a) < number(p))
        BY <1>20, <3>2
      <4>2. number(a) \in Nat
        BY <4>1, Numbers
      <4>3. number(a)' = number(a) /\ Path'[a] = Path[a]
        BY <1>18, <4>1 DEF SameBelow
      <4>4. QED
        BY <1>21, <4>1, <4>2, <4>3
    <3>3. \A a \in Path'[b] :
             /\ Path'[a] \subseteq Path'[b]
             /\ a # b => number(a)' < number(b)'
      BY <1>19, <1>21, <3>2
    <3>4. \A a, c \in Path'[b] : a \in Path'[c] \/ c \in Path'[a]
      BY <1>19, <1>20, <3>2
    <3>5. \A n \in 0 .. number(b)' : \E a \in Path'[b] : number(a)' = n
      <4>1. SUFFICES ASSUME NEW n \in 0 .. number(b)'
                     PROVE  \E a \in Path'[b] : number(a)' = n
        OBVIOUS
      <4>2. CASE n = number(b)'
        BY <3>1, <4>2
      <4>3. CASE n # number(b)'
        <5>1. n \in 0 .. number(p)
          BY <1>21, <4>1, <4>3
        <5>2. PICK a \in Path[p] : number(a) = n
          BY <1>20, <5>1
        <5>3. QED
          BY <1>19, <3>2, <5>2
      <4>4. QED
        BY <4>2, <4>3
    <3>6. QED
      BY <2>2, <3>1, <3>3, <3>4, <3>5
  <2>3. QED
    BY <1>1, <2>1, <2>2
<1>23. Paths'
  <2>1. \A x \in pruned' : x \in Imported' /\ ~ Live(x)'
    BY <1>1, <1>3, <1>18 DEF TreeInv, Paths, Live, DescendsFrom, SameBelow
  <2>2. QED
    BY <1>22, <2>1 DEF Paths
<1>24. QED
  BY <1>5, <1>13, <1>18, <1>23 DEF TreeInv

\* The other steps leave the tree as it is; finality moves up it, and only
\* states off the finalized chain's future are pruned.
LEMMA OtherTree ==
    ASSUME TreeInv, UNCHANGED <<setup, parent, difficulty>>,
           \/ UNCHANGED <<finalized, pruned>>
           \/ \E b \in Imported : Finalize(b) \/ Prune(b)
    PROVE  TreeInv' /\ SameBelow
<1>1. /\ Imported' = Imported /\ Path' = Path /\ TrueWeight' = TrueWeight
  BY DEF Imported, Path, TrueWeight, BlockWeight
<1>2. \A b : number(b)' = number(b)
  BY <1>1 DEF number
<1>3. SameBelow
  BY <1>1, <1>2 DEF SameBelow
<1>4. OneSolution'
  <2>1. /\ \A f : IsPath(f)' <=> IsPath(f)
        /\ \A f : IsWeight(f)' <=> IsWeight(f)
    BY <1>1 DEF IsPath, IsWeight, BlockWeight
  <2>2. QED
    BY <1>1, <2>1 DEF TreeInv, OneSolution
<1>5. Tree'
  BY <1>1 DEF TreeInv, Tree, Block, Finalize, Prune
<1>6. \A b \in pruned' : b \in Imported /\ ~ Live(b)'
  <2>1. CASE UNCHANGED <<finalized, pruned>>
    BY <1>1, <2>1 DEF TreeInv, Paths, Live, DescendsFrom
  <2>2. ASSUME NEW b \in Imported, Finalize(b) PROVE \A x \in pruned' : x \in Imported /\ ~ Live(x)'
    <3>1. finalized' = b /\ finalized \in Path[b] /\ pruned' = pruned
      BY <2>2 DEF Finalize, Live, DescendsFrom
    <3>2. \A x \in Imported : b \in Path[x] => finalized \in Path[x]
      BY <3>1 DEF TreeInv, Paths
    <3>3. QED
      BY <1>1, <3>1, <3>2 DEF TreeInv, Paths, Live, DescendsFrom
  <2>3. ASSUME NEW b \in Imported, Prune(b) PROVE \A x \in pruned' : x \in Imported /\ ~ Live(x)'
    BY <1>1, <2>3 DEF Prune, TreeInv, Paths, Live, DescendsFrom
  <2>4. QED
    BY <2>1, <2>2, <2>3
<1>7. Paths'
  BY <1>1, <1>2, <1>6 DEF TreeInv, Paths
<1>8. QED
  BY <1>3, <1>4, <1>5, <1>7 DEF TreeInv

\* Every step preserves TreeInv.
LEMMA TreeStep == TreeInv /\ [Next]_vars => TreeInv' /\ SameBelow
<1> SUFFICES ASSUME TreeInv, [Next]_vars PROVE TreeInv' /\ SameBelow
  OBVIOUS
<1>1. ASSUME NEW b \in setup.hashes, NEW d \in Difficulties, NEW p \in Imported,
             Import(b, p, d)
      PROVE  TreeInv' /\ SameBelow
  BY <1>1, ImportTree
<1>2. ASSUME NEW b \in Imported, Finalize(b) \/ Prune(b) PROVE TreeInv' /\ SameBelow
  BY <1>2, OtherTree DEF Finalize, Prune
<1>3. ASSUME NEW c \in setup.callers,
             Begin(c) \/ Lookup(c) \/ ReadDifficulty(c) \/ ReadParent(c) \/ Store(c)
      PROVE  TreeInv' /\ SameBelow
  <2>1. UNCHANGED treeVars
    BY <1>3 DEF Begin, Lookup, ReadDifficulty, ReadParent, Store
  <2>2. QED
    BY <2>1, OtherTree DEF treeVars
<1>4. CASE UNCHANGED vars
  BY <1>4, OtherTree DEF vars
<1>5. QED
  BY <1>1, <1>2, <1>3, <1>4 DEF Next

\* A parent: one lower, and between a block and everything else below it.
LEMMA ParentBelow ==
    ASSUME TreeInv, NEW b \in Imported, b # 0
    PROVE  /\ parent[b] \in Imported
           /\ Path[b] = {b} \cup Path[parent[b]]
           /\ number(parent[b]) < number(b)
           /\ TrueWeight[b] = BlockWeight(difficulty[b]) + TrueWeight[parent[b]]
<1>1. parent[b] \in Imported /\ parent[b] # b
  BY DEF TreeInv, Tree
<1>2. Path[b] = {b} \cup Path[parent[b]]
  BY PathEquation DEF TreeInv
<1>3. parent[b] \in Path[parent[b]]
  BY <1>1 DEF TreeInv, Paths
<1>4. number(parent[b]) < number(b)
  BY <1>1, <1>2, <1>3 DEF TreeInv, Paths
<1>5. TrueWeight[b] = BlockWeight(difficulty[b]) + TrueWeight[parent[b]]
  BY WeightEquation DEF TreeInv
<1>6. QED
  BY <1>1, <1>2, <1>4, <1>5

\* Of two blocks of a path the lower one is below the other.
LEMMA LowerIsBelow ==
    ASSUME TreeInv, NEW b \in Imported, NEW a \in Path[b], NEW c \in Path[b],
           number(a) <= number(c)
    PROVE  a \in Path[c]
<1>1. a \in Imported /\ c \in Imported
  BY DEF TreeInv, Paths
<1>2. number(a) \in Nat /\ number(c) \in Nat
  BY <1>1, Numbers
<1>3. CASE a \in Path[c]
  BY <1>3
<1>4. CASE c \in Path[a]
  <2>1. c # a => number(c) < number(a)
    BY <1>1, <1>4 DEF TreeInv, Paths
  <2>2. c = a
    BY <1>2, <2>1
  <2>3. QED
    BY <1>1, <2>2 DEF TreeInv, Paths
<1>5. QED
  BY <1>3, <1>4 DEF TreeInv, Paths

\* finality_target picks the highest allowed block of the best chain.
LEMMA TargetIsHighest ==
    ASSUME TreeInv, NEW best \in Imported, NEW base \in Imported,
           NEW max \in {None} \cup Nat
    PROVE  LET t == finality_target(best, base, max)
               allowed == {b \in Path[best] : /\ DescendsFrom(b, base)
                                              /\ max = None \/ number(b) <= max}
           IN  IF allowed = {} THEN t = None
               ELSE t \in allowed /\ \A b \in allowed : number(b) <= number(t)
<1> DEFINE target == IF max # None /\ number(best) > max
                     THEN Limited(best, max) ELSE best
           Within(b) == max = None \/ number(b) <= max
           t == finality_target(best, base, max)
           allowed == {b \in Path[best] : DescendsFrom(b, base) /\ Within(b)}
<1>1. /\ Path[best] \subseteq Imported /\ best \in Path[best]
      /\ \A b \in Imported : number(b) \in Nat
  BY Numbers DEF TreeInv, Paths
<1>2. max # None => max \in Nat
  OBVIOUS
<1>3. target \in Path[best] /\ Within(target)
      /\ \A b \in Path[best] : Within(b) => number(b) <= number(target)
  <2>1. CASE max # None /\ number(best) > max
    <3>1. max \in 0 .. number(best)
      BY <1>1, <1>2, <2>1
    <3>2. \E b \in Path[best] : number(b) = max
      BY <3>1 DEF TreeInv, Paths
    <3>3. Limited(best, max) \in Path[best] /\ number(Limited(best, max)) = max
      BY <3>2 DEF Limited
    <3>4. target = Limited(best, max)
      BY <2>1
    <3> HIDE DEF target
    <3>5. QED
      BY <1>2, <2>1, <3>3, <3>4
  <2>2. CASE ~ (max # None /\ number(best) > max)
    <3>1. target = best
      BY <2>2
    <3>2. \A b \in Path[best] : b # best => number(b) < number(best)
      BY DEF TreeInv, Paths
    <3> HIDE DEF target
    <3>3. QED
      BY <1>1, <1>2, <2>2, <3>1, <3>2
  <2>3. QED
    BY <2>1, <2>2
<1>4. t = IF max # None /\ max < number(base) THEN None
          ELSE IF ~ DescendsFrom(target, base) THEN None ELSE target
  BY DEF finality_target
<1> HIDE DEF target, t
<1>5. \A b \in allowed : b \in Path[target] /\ number(b) <= number(target)
  BY <1>1, <1>3, LowerIsBelow
<1>6. CASE max # None /\ max < number(base)
  <2>1. ASSUME NEW b \in allowed PROVE FALSE
    <3>1. base \in Path[b] /\ b \in Imported
      BY <1>1, <2>1 DEF DescendsFrom
    <3>2. base # b => number(base) < number(b)
      BY <3>1 DEF TreeInv, Paths
    <3>3. QED
      BY <1>1, <1>2, <1>6, <2>1, <3>1, <3>2
  <2>2. allowed = {} /\ t = None
    BY <1>4, <1>6, <2>1
  <2>3. QED
    BY <2>2 DEF t
<1>7. CASE ~ DescendsFrom(target, base)
  <2>1. ASSUME NEW b \in allowed PROVE FALSE
    <3>1. base \in Path[b]
      BY <2>1 DEF DescendsFrom
    <3>2. Path[b] \subseteq Path[target]
      BY <1>1, <1>3, <1>5, <2>1 DEF TreeInv, Paths
    <3>3. QED
      BY <1>7, <3>1, <3>2 DEF DescendsFrom
  <2>2. allowed = {} /\ t = None
    BY <1>4, <1>7, <2>1
  <2>3. QED
    BY <2>2 DEF t
<1>8. CASE ~ (max # None /\ max < number(base)) /\ DescendsFrom(target, base)
  <2>1. t = target /\ target \in allowed
    BY <1>3, <1>4, <1>8
  <2>2. QED
    BY <1>5, <2>1 DEF t
<1>9. QED
  BY <1>6, <1>7, <1>8

-----------------------------------------------------------------------------
(* The callers and the cache *)

\* A call in progress and the blocks it has collected, as records.
Entry == [hash : Block, difficulty : Nat]
Query == [pc : {"idle", "lookup", "difficulty", "parent", "store", "done"},
          leaves : Seq(Block), i : Nat, best : Block, best_weight : Nat,
          cur : Block, chain : Seq(Entry), weight : Nat]

\* The nodes on which the cache is exact: no state is pruned, or one caller
\* does all the writing.
Steady == ~ setup.pruning \/ \A c, d \in setup.callers : c = d

\* The cache: the weights of a subtree that contains genesis.
Cache ==
    /\ aux \in [DOMAIN aux -> Nat]
    /\ DOMAIN aux \subseteq Imported
    /\ \A b \in DOMAIN aux : Path[b] \subseteq DOMAIN aux

\* The weight a block's own is added to: that of its parent, if it has one.
Base(b) == IF b = 0 THEN 0 ELSE aux[parent[b]]

\* A weight was added up from the difficulty of the block, unless that was gone.
Exact ==
    Steady => \A b \in DOMAIN aux \ pruned :
                  aux[b] = Base(b) + BlockWeight(difficulty[b])

\* The block below which the weights may be wrong.
Root == IF setup.pruning THEN finalized ELSE 0

\* Above it they are all wrong by the same amount.
Relative ==
    Steady => \A b \in DOMAIN aux : Root \in Path[b] =>
                  aux[b] + TrueWeight[Root] = aux[Root] + TrueWeight[b]

\* A call in progress: where it is among the leaves, and what it has collected.
AtLeaf(q) ==
    /\ q.pc # "idle" => q.i \in 1 .. Len(q.leaves)
    /\ \A k \in 1 .. Len(q.leaves) : q.leaves[k] \in Imported
    /\ q.best \in Imported

\* The blocks collected form a path down from the leaf, each with the
\* difficulty its state reported.
Collected(q) ==
    /\ q.pc \in {"idle", "lookup", "done"} => q.chain = << >>
    /\ q.pc \in {"parent", "store"} => q.chain # << >>
    /\ q.pc # "store" => q.weight = 0
    /\ \A k \in 1 .. Len(q.chain) :
          /\ q.chain[k].hash \in Imported
          /\ q.chain[k].hash \notin pruned =>
                 q.chain[k].difficulty = difficulty[q.chain[k].hash]
    /\ \A k \in 1 .. Len(q.chain) - 1 :
          /\ q.chain[k + 1].hash # 0
          /\ parent[q.chain[k + 1].hash] = q.chain[k].hash
    /\ q.chain # << >> => q.chain[Len(q.chain)].hash = q.leaves[q.i]

\* The block the walk is at: the leaf, or the parent of the last one collected.
AtBlock(q) ==
    /\ q.pc = "difficulty" =>
          /\ q.cur \in Imported
          /\ q.chain = << >> => q.cur = q.leaves[q.i]
          /\ q.chain # << >> => q.chain[1].hash # 0 /\ parent[q.chain[1].hash] = q.cur
    /\ q.pc = "parent" => q.cur = q.chain[1].hash /\ q.cur # 0

\* The blocks collected go up the tree.
Ascending(q) ==
    \A j, k \in 1 .. Len(q.chain) :
        j < k => number(q.chain[j].hash) < number(q.chain[k].hash)

\* When one caller does all the writing, it writes each weight once.
Fresh(q) ==
    Steady /\ setup.pruning =>
        /\ \A k \in 1 .. Len(q.chain) : q.chain[k].hash \notin DOMAIN aux
        /\ q.pc = "difficulty" => q.cur \notin DOMAIN aux

\* The walk stores the blocks from the one above a cached parent upwards, and
\* the weight carried along is that of the parent.
ReadyToStore(q) ==
    q.pc = "store" =>
        /\ q.chain[1].hash # 0 => parent[q.chain[1].hash] \in DOMAIN aux
        /\ Steady => q.weight = Base(q.chain[1].hash)

\* The leaves weighed so far, and the best of them by the cached weights.
Seen(q) == IF q.pc = "done" THEN 1 .. Len(q.leaves)
           ELSE IF q.pc = "idle" THEN {} ELSE 1 .. q.i - 1

\* By these weights the best leaf is the heaviest of those seen, and the one
\* with the smallest hash among equals.
JudgedBy(weights, q) ==
    \A k \in Seen(q) :
        /\ q.best \in DOMAIN weights /\ q.best_weight = weights[q.best]
        /\ q.leaves[k] \in DOMAIN weights
        /\ \/ weights[q.best] > weights[q.leaves[k]]
           \/ weights[q.best] = weights[q.leaves[k]] /\ q.best <= q.leaves[k]

\* On a steady node the comparisons made agree with the cache as it is now.
Judged(q) == Steady => JudgedBy(aux, q)

\* What is true of a call in progress.
Walk(q) ==
    AtLeaf(q) /\ Collected(q) /\ AtBlock(q) /\ Ascending(q) /\ Fresh(q)
        /\ ReadyToStore(q) /\ Judged(q)

\* What is true of all calls in progress.
Walks ==
    /\ query \in [setup.callers -> Query]
    /\ \A c \in setup.callers : Walk(query[c])

\* The inductive invariant of the fork choice.
ForkInv == TreeInv /\ Cache /\ Exact /\ Relative /\ Walks

-----------------------------------------------------------------------------
\* The initial state: only genesis, nothing cached, no call.
LEMMA InitFork == Init => ForkInv
<1> SUFFICES ASSUME Init PROVE ForkInv
  OBVIOUS
<1>1. TreeInv /\ 0 \in Imported
  BY InitTree DEF TreeInv, Tree
<1>2. DOMAIN aux = {} /\ aux \in [DOMAIN aux -> Nat]
  BY DEF Init
<1>3. Cache /\ Exact /\ Relative
  BY <1>2 DEF Cache, Exact, Relative
<1>4. Idle \in Query
  BY DEF Idle, Query, Block, Entry
<1>5. Walk(Idle)
  BY <1>1 DEF Walk, AtLeaf, Collected, AtBlock, Ascending, Fresh, ReadyToStore,
              Judged, JudgedBy, Seen, Idle
<1>6. Walks
  BY <1>4, <1>5 DEF Walks, Init
<1>7. QED
  BY <1>1, <1>3, <1>6 DEF ForkInv

-----------------------------------------------------------------------------
\* The tree only grows, and the cache only grows on a steady node.
TreeGrows ==
    /\ setup' = setup
    /\ SameBelow
    /\ \A b \in Imported : difficulty'[b] = difficulty[b]
    /\ \A b \in Imported \ {0} : parent'[b] = parent[b]
    /\ pruned \subseteq pruned'

\* Weights are added to the cache, and on a steady node none changes.
CacheGrows ==
    /\ DOMAIN aux \subseteq DOMAIN aux'
    /\ Steady => \A b \in DOMAIN aux : aux'[b] = aux[b]

\* A step of another caller.
OthersWrite == CacheGrows /\ (Steady /\ setup.pruning => aux' = aux)

\* What others import or store leaves a call in progress as it is.
LEMMA WalkKept ==
    ASSUME TreeInv, Cache, TreeGrows, OthersWrite,
           NEW q \in Query, Walk(q)
    PROVE  Walk(q)' /\ Query' = Query
PROOF
<1>1. Query' = Query /\ Steady' = Steady /\ setup'.pruning = setup.pruning
  BY DEF Query, Entry, Block, TreeGrows, Steady
<1>2. Imported \subseteq Imported' /\ \A b \in Imported : number(b)' = number(b)
  BY DEF TreeGrows, SameBelow
<1>3. AtLeaf(q)'
  BY <1>2 DEF Walk, AtLeaf
<1>4. q.chain \in Seq(Entry) /\ Len(q.chain) \in Nat
  BY DEF Query
<1>5. Collected(q)'
  <2>1. ASSUME NEW k \in 1 .. Len(q.chain)
        PROVE  /\ q.chain[k].hash \in Imported'
               /\ q.chain[k].hash \notin pruned' =>
                      q.chain[k].difficulty = difficulty'[q.chain[k].hash]
    BY <1>2 DEF Walk, Collected, TreeGrows
  <2>2. ASSUME NEW k \in 1 .. Len(q.chain) - 1
        PROVE  /\ q.chain[k + 1].hash # 0
               /\ parent'[q.chain[k + 1].hash] = q.chain[k].hash
    BY <1>4 DEF Walk, Collected, TreeGrows
  <2> QED
    BY <2>1, <2>2 DEF Walk, Collected
<1>6. AtBlock(q)'
  <2>1. q.chain # << >> => 1 \in 1 .. Len(q.chain)
    BY <1>4
  <2> QED
    BY <1>2, <2>1 DEF Walk, AtBlock, Collected, TreeGrows
<1>7. Ascending(q)'
  BY <1>2 DEF Walk, Ascending, Collected
<1>8. Fresh(q)'
  BY <1>1 DEF Walk, Fresh, OthersWrite
<1>9. ReadyToStore(q)'
  <2>1. q.pc = "store" => 1 \in 1 .. Len(q.chain)
    BY <1>4 DEF Walk, Collected
  <2>2. q.pc = "store" => q.chain[1].hash \in Imported
    BY <2>1 DEF Walk, Collected
  <2>3. q.pc = "store" /\ q.chain[1].hash # 0 =>
            parent'[q.chain[1].hash] = parent[q.chain[1].hash]
    BY <2>2 DEF TreeGrows
  <2> QED
    BY <1>1, <2>2, <2>3 DEF Walk, ReadyToStore, Base, CacheGrows, OthersWrite
<1>10. Judged(q)'
  BY <1>1 DEF Walk, Judged, JudgedBy, Seen, CacheGrows, OthersWrite
<1> QED
  BY <1>1, <1>3, <1>5, <1>6, <1>7, <1>8, <1>9, <1>10 DEF Walk

\* The cache stays as it is and the tree grows: so does all that is said of both.
LEMMA CacheKept ==
    ASSUME ForkInv, TreeInv', TreeGrows, aux' = aux, Root' = Root
    PROVE  Cache' /\ Exact' /\ Relative'
<1>1. /\ DOMAIN aux \subseteq Imported
      /\ \A b \in DOMAIN aux : b # 0 => parent[b] \in Imported
  BY DEF ForkInv, Cache, TreeInv, Tree
<1>2. /\ Imported \subseteq Imported'
      /\ \A b \in Imported : Path'[b] = Path[b] /\ TrueWeight'[b] = TrueWeight[b]
  BY DEF TreeGrows, SameBelow
<1>3. Cache'
  BY <1>1, <1>2 DEF ForkInv, Cache
<1>4. \A b \in DOMAIN aux : Base(b)' = Base(b)
  BY <1>1 DEF Base, TreeGrows
<1>5. Steady' = Steady
  BY DEF Steady, TreeGrows
<1>6. Exact'
  <2>1. \A b \in DOMAIN aux : BlockWeight(difficulty[b])' = BlockWeight(difficulty[b])
    BY <1>1 DEF TreeGrows, BlockWeight
  <2> QED
    BY <1>4, <1>5, <2>1 DEF ForkInv, Exact, TreeGrows
<1>7. Root \in Imported
  BY DEF Root, ForkInv, TreeInv, Tree
<1>8. Relative'
  BY <1>1, <1>2, <1>5, <1>7 DEF ForkInv, Relative
<1> QED
  BY <1>3, <1>6, <1>8

\* Import: the block is new, so nothing in the tree or the cache refers to it.
LEMMA ImportStep ==
    ASSUME ForkInv, TreeInv', SameBelow, NEW b \in setup.hashes,
           NEW d \in Difficulties, NEW p \in Imported, Import(b, p, d)
    PROVE  ForkInv'
<1>1. /\ b \notin Imported /\ Imported = DOMAIN difficulty
      /\ DOMAIN parent = Imported \ {0}
  BY DEF Import, Imported, ForkInv, TreeInv, Tree
<1>2. TreeGrows /\ aux' = aux /\ query' = query /\ setup' = setup /\ finalized' = finalized
  BY <1>1 DEF TreeGrows, Import
<1>3. Cache' /\ Exact' /\ Relative'
  BY <1>2, CacheKept DEF Root
<1>4. OthersWrite
  BY <1>2 DEF OthersWrite, CacheGrows
<1>5. Walks'
  BY <1>2, <1>4, WalkKept DEF ForkInv, Walks
<1> QED
  BY <1>3, <1>5 DEF ForkInv

\* Finality moves to a block above: the weights above that one were already
\* above the old one, and so were wrong by the same amount.
LEMMA FinalityStep ==
    ASSUME ForkInv, TreeInv', SameBelow, NEW b \in Imported,
           Finalize(b) \/ Prune(b) \/ UNCHANGED vars
    PROVE  ForkInv'
<1>1. /\ setup' = setup /\ parent' = parent /\ difficulty' = difficulty
      /\ aux' = aux /\ query' = query /\ pruned \subseteq pruned'
  BY DEF Finalize, Prune, vars
<1>2. TreeGrows /\ OthersWrite
  BY <1>1 DEF TreeGrows, OthersWrite, CacheGrows
<1>3. Walks'
  BY <1>1, <1>2, WalkKept DEF ForkInv, Walks
<1>4. CASE Root' = Root
  BY <1>1, <1>2, <1>3, <1>4, CacheKept DEF ForkInv
<1>5. CASE Root' # Root
  <2>1. Finalize(b) /\ setup.pruning
    BY <1>1, <1>5 DEF Prune, vars, Root
  <2>2. Root = finalized /\ Root' = b /\ finalized \in Path[b]
    BY <1>1, <2>1 DEF Root, Finalize, Live, DescendsFrom
  <2>3. pruned' = pruned
    BY <2>1 DEF Finalize
  <2>4. /\ Imported' = Imported /\ Path' = Path /\ TrueWeight' = TrueWeight
        /\ \A x : Base(x)' = Base(x) /\ Steady' = Steady
    BY <1>1 DEF Imported, Path, TrueWeight, BlockWeight, Base, Steady
  <2>5. Cache'
    BY <1>1, <2>4 DEF ForkInv, Cache
  <2>6. Exact'
    BY <1>1, <2>3, <2>4 DEF ForkInv, Exact, BlockWeight
  <2>7. Relative'
    <3>1. SUFFICES ASSUME Steady, NEW x \in DOMAIN aux, b \in Path[x]
                   PROVE  aux[x] + TrueWeight[b] = aux[b] + TrueWeight[x]
      BY <1>1, <2>2, <2>4 DEF Relative
    <3>2. x \in Imported /\ b \in DOMAIN aux /\ finalized \in Path[x]
      BY <2>2, <3>1 DEF ForkInv, Cache, TreeInv, Paths
    <3>3. /\ aux[x] + TrueWeight[finalized] = aux[finalized] + TrueWeight[x]
          /\ aux[b] + TrueWeight[finalized] = aux[finalized] + TrueWeight[b]
      BY <2>2, <3>1, <3>2 DEF ForkInv, Relative
    <3>4. /\ aux[x] \in Nat /\ aux[b] \in Nat /\ aux[finalized] \in Nat
          /\ TrueWeight[x] \in Nat /\ TrueWeight[b] \in Nat /\ TrueWeight[finalized] \in Nat
      <4>1. finalized \in DOMAIN aux /\ finalized \in Imported
        BY <3>1, <3>2 DEF ForkInv, Cache
      <4>2. TrueWeight \in [Imported -> Nat]
        BY WeightEquation DEF ForkInv, TreeInv
      <4>3. QED
        BY <3>2, <4>1, <4>2 DEF ForkInv, Cache
    <3>5. QED
      BY <3>3, <3>4
  <2> QED
    BY <1>3, <2>5, <2>6, <2>7 DEF ForkInv
<1> QED
  BY <1>4, <1>5

-----------------------------------------------------------------------------
\* A step of one caller that writes no weight.
LEMMA CallerStep ==
    ASSUME ForkInv, TreeInv', SameBelow, NEW c \in setup.callers,
           NEW nq \in Query, Walk(nq), UNCHANGED <<treeVars, aux>>,
           query' = [query EXCEPT ![c] = nq]
    PROVE  ForkInv'
<1>1. /\ setup' = setup /\ parent' = parent /\ difficulty' = difficulty
      /\ pruned' = pruned /\ finalized' = finalized /\ aux' = aux
  BY DEF treeVars
<1>2. TreeGrows /\ OthersWrite /\ Root' = Root
  BY <1>1 DEF TreeGrows, OthersWrite, CacheGrows, Root
<1>3. Cache' /\ Exact' /\ Relative'
  BY <1>1, <1>2, CacheKept
<1>4. Query' = Query
  BY <1>1 DEF Query, Entry, Block
<1>5. query' \in [setup.callers -> Query]
  BY DEF ForkInv, Walks
<1>6. ASSUME NEW d \in setup.callers PROVE Walk(query[d])'
  <2>1. PICK r \in Query : r = query'[d] /\ Walk(r)
    BY DEF ForkInv, Walks
  <2>2. Walk(r)'
    BY <1>2, <2>1, WalkKept DEF ForkInv
  <2> QED
    BY <2>1, <2>2
<1> QED
  BY <1>1, <1>3, <1>4, <1>5, <1>6 DEF ForkInv, Walks

\* The call as it is after a leaf was weighed.
WeighedQuery(q, weight) ==
    LET leaf == q.leaves[q.i]
        wins == q.i = 1 \/ Heavier(leaf, weight, q.best, q.best_weight)
        last == q.i = Len(q.leaves)
    IN  [Idle EXCEPT !.pc = IF last THEN "done" ELSE "lookup",
                     !.leaves = q.leaves,
                     !.i = IF last THEN q.i ELSE q.i + 1,
                     !.best = IF wins THEN leaf ELSE q.best,
                     !.best_weight = IF wins THEN weight ELSE q.best_weight]

\* It is at the next leaf, or at the last, and has collected nothing.
LEMMA WeighedFields ==
    ASSUME NEW q \in Query, q.i \in 1 .. Len(q.leaves), NEW weight \in Nat
    PROVE  LET w == WeighedQuery(q, weight)
               wins == q.i = 1 \/ Heavier(q.leaves[q.i], weight, q.best, q.best_weight)
           IN  /\ w \in Query /\ w.leaves = q.leaves /\ w.chain = << >> /\ w.weight = 0
               /\ w.i \in 1 .. Len(q.leaves)
               /\ \/ w.pc = "done" /\ q.i = Len(q.leaves)
                  \/ w.pc = "lookup" /\ w.i = q.i + 1
               /\ w.best = IF wins THEN q.leaves[q.i] ELSE q.best
               /\ w.best_weight = IF wins THEN weight ELSE q.best_weight
<1> DEFINE w == WeighedQuery(q, weight)
           wins == q.i = 1 \/ Heavier(q.leaves[q.i], weight, q.best, q.best_weight)
<1>1. q.leaves \in Seq(Block) /\ Len(q.leaves) \in Nat /\ q.i \in Nat
  BY DEF Query
<1>2. q.leaves[q.i] \in Block
  BY <1>1
<1>3. q.best \in Block /\ q.best_weight \in Nat
  BY DEF Query
<1>4. PICK pc, i, best, bw :
          /\ pc = IF q.i = Len(q.leaves) THEN "done" ELSE "lookup"
          /\ i = IF q.i = Len(q.leaves) THEN q.i ELSE q.i + 1
          /\ best = IF wins THEN q.leaves[q.i] ELSE q.best
          /\ bw = IF wins THEN weight ELSE q.best_weight
  OBVIOUS
<1>5. w = [Idle EXCEPT !.pc = pc, !.leaves = q.leaves, !.i = i, !.best = best,
                       !.best_weight = bw]
  BY <1>4 DEF WeighedQuery
<1>6. /\ pc \in {"lookup", "done"} /\ i \in 1 .. Len(q.leaves) /\ i \in Nat
      /\ best \in Block /\ bw \in Nat
      /\ \/ pc = "done" /\ q.i = Len(q.leaves)
         \/ pc = "lookup" /\ i = q.i + 1
  <2>1. /\ i \in 1 .. Len(q.leaves) /\ i \in Nat
        /\ \/ pc = "done" /\ q.i = Len(q.leaves)
           \/ pc = "lookup" /\ i = q.i + 1
    BY <1>1, <1>4
  <2>2. best \in Block /\ bw \in Nat
    BY <1>2, <1>3, <1>4
  <2>3. QED
    BY <1>4, <2>1, <2>2
<1> HIDE DEF w, wins
<1>7. w = [pc |-> pc, leaves |-> q.leaves, i |-> i, best |-> best, best_weight |-> bw,
           cur |-> 0, chain |-> << >>, weight |-> 0]
  BY <1>5 DEF Idle
<1>8. << >> \in Seq(Entry) /\ 0 \in Block
  BY DEF Block
<1>9. w \in Query
  BY <1>1, <1>6, <1>7, <1>8 DEF Query
<1>10. /\ w.pc = pc /\ w.leaves = q.leaves /\ w.i = i /\ w.best = best
       /\ w.best_weight = bw /\ w.chain = << >> /\ w.weight = 0
  BY <1>7
<1>11. /\ w \in Query /\ w.leaves = q.leaves /\ w.chain = << >> /\ w.weight = 0
       /\ w.i \in 1 .. Len(q.leaves)
       /\ \/ w.pc = "done" /\ q.i = Len(q.leaves)
          \/ w.pc = "lookup" /\ w.i = q.i + 1
       /\ w.best = IF wins THEN q.leaves[q.i] ELSE q.best
       /\ w.best_weight = IF wins THEN weight ELSE q.best_weight
  BY <1>4, <1>6, <1>9, <1>10
<1> QED
  BY <1>11 DEF w, wins

\* The comparison keeps the best of the leaves weighed, the new one included.
LEMMA WeighedJudged ==
    ASSUME NEW q \in Query, q.i \in 1 .. Len(q.leaves), q.pc \notin {"idle", "done"},
           NEW weights, \A b \in DOMAIN weights : b \in Nat /\ weights[b] \in Nat,
           q.leaves[q.i] \in DOMAIN weights, JudgedBy(weights, q)
    PROVE  JudgedBy(weights, WeighedQuery(q, weights[q.leaves[q.i]]))
<1> DEFINE leaf == q.leaves[q.i]
           w == WeighedQuery(q, weights[leaf])
           wins == q.i = 1 \/ Heavier(leaf, weights[leaf], q.best, q.best_weight)
           Good(b, l) == \/ weights[b] > weights[l]
                         \/ weights[b] = weights[l] /\ b <= l
<1>1. /\ w.leaves = q.leaves /\ w.i \in 1 .. Len(q.leaves)
      /\ \/ w.pc = "done" /\ q.i = Len(q.leaves)
         \/ w.pc = "lookup" /\ w.i = q.i + 1
      /\ w.best = IF wins THEN leaf ELSE q.best
      /\ w.best_weight = IF wins THEN weights[leaf] ELSE q.best_weight
  BY WeighedFields
<1>2. Len(q.leaves) \in Nat /\ q.i \in Nat
  BY DEF Query
<1>3. Seen(w) = 1 .. q.i /\ Seen(q) = 1 .. q.i - 1
  BY <1>1, <1>2 DEF Seen
<1> HIDE DEF w
<1>4. \A k \in 1 .. q.i - 1 :
          /\ q.best \in DOMAIN weights /\ q.best_weight = weights[q.best]
          /\ q.leaves[k] \in DOMAIN weights /\ Good(q.best, q.leaves[k])
  BY <1>3 DEF JudgedBy
<1>5. ASSUME NEW k \in 1 .. q.i
      PROVE  /\ w.best \in DOMAIN weights /\ w.best_weight = weights[w.best]
             /\ q.leaves[k] \in DOMAIN weights /\ Good(w.best, q.leaves[k])
  <2>1. CASE q.i = 1
    <3>1. k = 1 /\ w.best = leaf /\ w.best_weight = weights[leaf]
      BY <1>1, <1>5, <2>1
    <3>2. QED
      BY <2>1, <3>1
  <2>2. CASE q.i # 1
    <3>1. 1 \in 1 .. q.i - 1
      BY <1>2, <2>2
    <3>2. q.best \in DOMAIN weights /\ q.best_weight = weights[q.best]
      BY <1>4, <3>1
    <3>3. PICK b, l, x, y : b = q.best /\ l = leaf /\ x = weights[b] /\ y = weights[l]
      OBVIOUS
    <3>4. b \in Nat /\ l \in Nat /\ x \in Nat /\ y \in Nat
      BY <3>2, <3>3
    <3>5. wins <=> y > x \/ (y = x /\ l < b)
      BY <2>2, <3>2, <3>3 DEF Heavier
    <3> HIDE DEF wins, Good
    <3>6. Good(w.best, leaf) /\ Good(w.best, q.best)
      <4>1. CASE wins
        BY <1>1, <3>3, <3>4, <3>5, <4>1 DEF Good
      <4>2. CASE ~ wins
        BY <1>1, <3>3, <3>4, <3>5, <4>2 DEF Good
      <4>3. QED
        BY <4>1, <4>2
    <3>7. w.best \in DOMAIN weights /\ w.best_weight = weights[w.best]
      BY <1>1, <3>2
    <3>8. CASE k = q.i
      BY <3>6, <3>7, <3>8
    <3>9. CASE k # q.i
      <4>1. k \in 1 .. q.i - 1
        BY <1>2, <1>5, <3>9
      <4>2. q.leaves[k] \in DOMAIN weights /\ Good(q.best, q.leaves[k])
        BY <1>4, <4>1
      <4>3. PICK m, n, z, v :
                m = q.leaves[k] /\ n = w.best /\ z = weights[m] /\ v = weights[n]
        OBVIOUS
      <4>4. m \in Nat /\ n \in Nat /\ z \in Nat /\ v \in Nat
        BY <3>7, <4>2, <4>3
      <4>5. /\ v > x \/ (v = x /\ n <= b)
            /\ x > z \/ (x = z /\ b <= m)
        BY <3>3, <3>6, <4>2, <4>3 DEF Good
      <4>6. v > z \/ (v = z /\ n <= m)
        BY <3>4, <4>4, <4>5
      <4>7. Good(w.best, m)
        BY <4>3, <4>6 DEF Good
      <4>8. QED
        BY <3>7, <4>2, <4>3, <4>7
    <3>10. QED
      BY <3>8, <3>9
  <2>3. QED
    BY <2>1, <2>2
<1>6. QED
  BY <1>1, <1>3, <1>5 DEF w, JudgedBy

\* A call that has just weighed a leaf, or read the leaves.
LEMMA BetweenLeaves ==
    ASSUME NEW w \in Query, w.pc \in {"lookup", "done"}, w.i \in 1 .. Len(w.leaves),
           \A k \in 1 .. Len(w.leaves) : w.leaves[k] \in Imported,
           w.best \in Imported, w.chain = << >>, w.weight = 0, Judged(w)
    PROVE  Walk(w)
<1>1. AtLeaf(w) /\ Collected(w)
  BY DEF AtLeaf, Collected
<1>2. AtBlock(w) /\ Ascending(w) /\ Fresh(w) /\ ReadyToStore(w)
  BY DEF AtBlock, Ascending, Fresh, ReadyToStore
<1> QED
  BY <1>1, <1>2 DEF Walk

\* A call that has read the leaves is at the first of them.
BegunQuery(leaves) == [Idle EXCEPT !.pc = "lookup", !.leaves = leaves, !.i = 1]

\* So it has collected nothing and compared nothing.
LEMMA BegunIsWalk ==
    ASSUME NEW leaves \in Seq(Block), Len(leaves) > 0, 0 \in Imported,
           \A k \in 1 .. Len(leaves) : leaves[k] \in Imported
    PROVE  BegunQuery(leaves) \in Query /\ Walk(BegunQuery(leaves))
<1> DEFINE nq == BegunQuery(leaves)
<1>1. PICK pc, i : pc = "lookup" /\ i = 1
  OBVIOUS
<1>2. nq = [Idle EXCEPT !.pc = pc, !.leaves = leaves, !.i = i]
  BY <1>1 DEF BegunQuery
<1> HIDE DEF nq
<1>3. nq = [pc |-> pc, leaves |-> leaves, i |-> i, best |-> 0, best_weight |-> 0,
            cur |-> 0, chain |-> << >>, weight |-> 0]
  BY <1>2 DEF Idle
<1>4. << >> \in Seq(Entry) /\ 0 \in Block
  BY DEF Block
<1>5. /\ nq \in Query /\ nq.pc = "lookup" /\ nq.leaves = leaves /\ nq.i = 1
      /\ nq.chain = << >> /\ nq.weight = 0 /\ nq.best = 0
  BY <1>1, <1>3, <1>4 DEF Query
<1>6. Judged(nq)
  BY <1>5 DEF Judged, JudgedBy, Seen
<1>7. nq.i \in 1 .. Len(nq.leaves)
  BY <1>5
<1>8. Walk(nq)
  BY <1>5, <1>6, <1>7, BetweenLeaves
<1> QED
  BY <1>5, <1>8 DEF nq

\* A call begins with the leaves the backend reports.
LEMMA BeginStep ==
    ASSUME ForkInv, TreeInv', SameBelow, NEW c \in setup.callers, Begin(c)
    PROVE  ForkInv'
<1>1. Leaves \subseteq Imported /\ Leaves # {} /\ Imported \subseteq Block /\ 0 \in Imported
  BY DEF Begin, Leaves, ForkInv, TreeInv, Tree
<1>2. IsFiniteSet(Leaves)
  BY <1>1, FS_Subset DEF ForkInv, TreeInv, Tree
<1>3. Cardinality(Leaves) \in Nat /\ Cardinality(Leaves) # 0
  BY <1>1, <1>2, FS_CardinalityType, FS_EmptySet
<1>4. PICK leaves \in SetToSeqs(Leaves) :
          query' = [query EXCEPT ![c] = BegunQuery(leaves)]
  BY DEF Begin, BegunQuery
<1>5. leaves \in [1 .. Cardinality(Leaves) -> Leaves]
  BY <1>4 DEF SetToSeqs
<1>6. leaves \in Seq(Block) /\ Len(leaves) = Cardinality(Leaves)
  <2>1. leaves \in [1 .. Cardinality(Leaves) -> Block]
    BY <1>1, <1>5
  <2>2. leaves \in Seq(Block)
    BY <1>3, <2>1, SeqDef
  <2> QED
    BY <1>3, <2>1, <2>2, LenProperties
<1>7. BegunQuery(leaves) \in Query /\ Walk(BegunQuery(leaves))
  <2>1. Len(leaves) > 0
    BY <1>3, <1>6
  <2>2. \A k \in 1 .. Len(leaves) : leaves[k] \in Imported
    BY <1>1, <1>5, <1>6
  <2> QED
    BY <1>1, <1>6, <2>1, <2>2, BegunIsWalk
<1> QED
  BY <1>4, <1>7, CallerStep DEF Begin

\* Hashes can be compared.
LEMMA HashesAreNumbers ==
    ASSUME ForkInv
    PROVE  \A b \in DOMAIN aux : b \in Nat /\ aux[b] \in Nat
<1>1. Block \subseteq Nat
  BY ForkChoiceAssumption DEF Block, ForkInv, TreeInv, Tree
<1> QED
  BY <1>1 DEF ForkInv, Cache, TreeInv, Tree

\* The fast path, or the start of the walk at the leaf.
LEMMA LookupStep ==
    ASSUME ForkInv, TreeInv', SameBelow, NEW c \in setup.callers, Lookup(c)
    PROVE  ForkInv'
<1> DEFINE q == query[c]
           leaf == q.leaves[q.i]
<1>1. /\ q \in Query /\ Walk(q) /\ q.pc = "lookup" /\ UNCHANGED <<treeVars, aux>>
  BY DEF ForkInv, Walks, Lookup
<1>2. /\ q.i \in 1 .. Len(q.leaves) /\ q.chain = << >> /\ q.weight = 0
      /\ \A k \in 1 .. Len(q.leaves) : q.leaves[k] \in Imported
      /\ q.best \in Imported
  BY <1>1 DEF Walk, AtLeaf, Collected
<1>3. Imported \subseteq Block /\ leaf \in Imported
  BY <1>2 DEF ForkInv, TreeInv, Tree
<1>4. CASE leaf \in DOMAIN aux
  <2>1. query' = [query EXCEPT ![c] = WeighedQuery(q, aux[leaf])]
    BY <1>4 DEF Lookup, Weighed, WeighedQuery
  <2>2. aux[leaf] \in Nat
    BY <1>4 DEF ForkInv, Cache
  <2>3. PICK w : w = WeighedQuery(q, aux[leaf])
    OBVIOUS
  <2>4. /\ w \in Query /\ w.leaves = q.leaves /\ w.chain = << >> /\ w.weight = 0
        /\ w.i \in 1 .. Len(q.leaves) /\ w.pc \in {"lookup", "done"}
        /\ w.best \in Imported
    BY <1>1, <1>2, <1>3, <2>2, <2>3, WeighedFields
  <2>5. Judged(w)
    BY <1>1, <1>2, <1>4, <2>3, HashesAreNumbers, WeighedJudged DEF Walk, Judged
  <2>6. Walk(w)
    BY <1>2, <2>4, <2>5, BetweenLeaves
  <2> QED
    BY <1>1, <2>1, <2>3, <2>4, <2>6, CallerStep
<1>5. CASE leaf \notin DOMAIN aux
  <2> DEFINE nq == [q EXCEPT !.pc = "difficulty", !.cur = leaf]
  <2>1. query' = [query EXCEPT ![c] = nq]
    BY <1>5 DEF Lookup, ForkInv, Walks
  <2>2. /\ nq \in Query /\ nq.pc = "difficulty" /\ nq.cur = leaf
        /\ nq.leaves = q.leaves /\ nq.i = q.i /\ nq.chain = << >>
        /\ nq.weight = 0 /\ nq.best = q.best /\ nq.best_weight = q.best_weight
    BY <1>1, <1>2, <1>3 DEF Query
  <2> HIDE DEF nq
  <2>3. AtLeaf(nq) /\ Collected(nq) /\ AtBlock(nq)
    BY <1>2, <1>3, <2>2 DEF AtLeaf, Collected, AtBlock
  <2>4. Ascending(nq) /\ Fresh(nq) /\ ReadyToStore(nq)
    BY <1>5, <2>2 DEF Ascending, Fresh, ReadyToStore
  <2>5. Judged(nq)
    BY <1>1, <2>2 DEF Walk, Judged, JudgedBy, Seen
  <2>6. Walk(nq)
    BY <2>3, <2>4, <2>5 DEF Walk
  <2> QED
    BY <1>1, <2>1, <2>2, <2>6, CallerStep
<1> QED
  BY <1>4, <1>5

\* What prepending does to a sequence.
LEMMA Prepended ==
    ASSUME NEW S, NEW s \in Seq(S), NEW e \in S
    PROVE  /\ <<e>> \o s \in Seq(S) /\ <<e>> \o s # << >>
           /\ Len(<<e>> \o s) = Len(s) + 1
           /\ (<<e>> \o s)[1] = e
           /\ \A k \in 1 .. Len(s) : (<<e>> \o s)[k + 1] = s[k]
<1>1. <<e>> \in Seq(S) /\ Len(<<e>>) = 1 /\ <<e>>[1] = e
  OBVIOUS
<1> QED
  BY <1>1, ConcatProperties

\* What dropping the first element does.
LEMMA Shortened ==
    ASSUME NEW S, NEW s \in Seq(S), Len(s) # 1, 1 \in 1 .. Len(s)
    PROVE  /\ Tail(s) \in Seq(S) /\ Len(Tail(s)) = Len(s) - 1
           /\ \A k \in 1 .. Len(s) - 1 : Tail(s)[k] = s[k + 1]
           /\ Len(s) - 1 \in 1 .. Len(s) - 1
<1>1. Len(s) \in Nat
  BY LenProperties
<1>2. Len(s) > 1
  <2>1. PICK n \in Nat : n = Len(s)
    BY <1>1
  <2>2. n # 1 /\ 1 \in 1 .. n
    BY <2>1
  <2>3. n > 1
    BY <2>2
  <2> QED
    BY <2>1, <2>3
<1>3. s # << >>
  BY <1>2
<1> QED
  BY <1>1, <1>2, <1>3, HeadTailProperties

\* The walk collects one more block; at genesis it is ready to store.
LEMMA ReadDifficultyStep ==
    ASSUME ForkInv, TreeInv', SameBelow, NEW c \in setup.callers, ReadDifficulty(c)
    PROVE  ForkInv'
<1> DEFINE q == query[c]
           e == [hash |-> q.cur, difficulty |-> difficulty_at(q.cur)]
           npc == IF q.cur = 0 THEN "store" ELSE "parent"
           chain == <<e>> \o q.chain
           nq == [q EXCEPT !.pc = npc, !.chain = chain]
<1>1. /\ q \in Query /\ Walk(q) /\ q.pc = "difficulty" /\ UNCHANGED <<treeVars, aux>>
      /\ query' = [query EXCEPT ![c] = nq]
  BY DEF ForkInv, Walks, ReadDifficulty
<1>2. /\ q.cur \in Imported /\ q.weight = 0
      /\ q.chain = << >> => q.cur = q.leaves[q.i]
      /\ q.chain # << >> => q.chain[1].hash # 0 /\ parent[q.chain[1].hash] = q.cur
  BY <1>1 DEF Walk, AtBlock, Collected
<1>3. /\ e \in Entry /\ e.hash = q.cur
      /\ q.cur \notin pruned => e.difficulty = difficulty[q.cur]
  <2>1. difficulty[q.cur] \in Nat /\ q.cur \in Block
    BY <1>2, ForkChoiceAssumption DEF ForkInv, TreeInv, Tree
  <2> QED
    BY <2>1, ForkChoiceAssumption DEF Entry, difficulty_at
<1>4. q.chain \in Seq(Entry) /\ Len(q.chain) \in Nat
  BY <1>1 DEF Query
<1> HIDE DEF e
<1>5. /\ chain \in Seq(Entry) /\ chain # << >> /\ Len(chain) = Len(q.chain) + 1
      /\ chain[1] = e /\ \A k \in 1 .. Len(q.chain) : chain[k + 1] = q.chain[k]
  BY <1>3, <1>4, Prepended
<1> HIDE DEF chain
<1>6. npc \in {"store", "parent"} /\ (npc = "store" <=> q.cur = 0)
  OBVIOUS
<1> HIDE DEF npc
<1>7. /\ nq \in Query /\ nq.pc = npc /\ nq.chain = chain /\ nq.leaves = q.leaves
      /\ nq.i = q.i /\ nq.cur = q.cur /\ nq.weight = 0
      /\ nq.best = q.best /\ nq.best_weight = q.best_weight
  BY <1>1, <1>2, <1>5, <1>6 DEF Query
<1> HIDE DEF nq, q
<1>8. AtLeaf(nq)
  BY <1>1, <1>7 DEF Walk, AtLeaf
<1>9. \A k \in 1 .. Len(chain) :
          k # 1 => /\ k - 1 \in 1 .. Len(q.chain) /\ chain[k] = q.chain[k - 1]
  <2>1. SUFFICES ASSUME NEW k \in 1 .. Len(chain), k # 1
                 PROVE  k - 1 \in 1 .. Len(q.chain) /\ chain[k] = q.chain[k - 1]
    OBVIOUS
  <2>2. k - 1 \in 1 .. Len(q.chain) /\ (k - 1) + 1 = k
    BY <1>4, <1>5, <2>1
  <2> QED
    BY <1>5, <2>2
<1>10. Collected(nq)
  <2>1. ASSUME NEW k \in 1 .. Len(chain)
        PROVE  /\ chain[k].hash \in Imported
               /\ chain[k].hash \notin pruned =>
                      chain[k].difficulty = difficulty[chain[k].hash]
    <3>1. CASE k = 1
      BY <1>2, <1>3, <1>5, <3>1
    <3>2. CASE k # 1
      BY <1>1, <1>9, <2>1, <3>2 DEF Walk, Collected
    <3> QED
      BY <3>1, <3>2
  <2>2. ASSUME NEW k \in 1 .. Len(chain) - 1
        PROVE  chain[k + 1].hash # 0 /\ parent[chain[k + 1].hash] = chain[k].hash
    <3>1. chain[k + 1] = q.chain[k] /\ k \in 1 .. Len(q.chain)
      BY <1>4, <1>5
    <3>2. CASE k = 1
      BY <1>2, <1>3, <1>4, <1>5, <3>1, <3>2
    <3>3. CASE k # 1
      <4>1. /\ k - 1 \in 1 .. Len(q.chain) - 1 /\ chain[k] = q.chain[k - 1]
            /\ (k - 1) + 1 = k
        BY <1>4, <1>5, <3>1, <3>3
      <4> QED
        BY <1>1, <3>1, <4>1 DEF Walk, Collected
    <3> QED
      BY <3>2, <3>3
  <2>3. chain[Len(chain)].hash = q.leaves[q.i]
    <3>1. CASE q.chain = << >>
      BY <1>2, <1>3, <1>5, <3>1
    <3>2. CASE q.chain # << >>
      <4>1. Len(q.chain) \in 1 .. Len(q.chain)
        BY <1>4, <3>2
      <4>2. chain[Len(chain)] = q.chain[Len(q.chain)]
        BY <1>5, <4>1
      <4> QED
        BY <1>1, <3>2, <4>2 DEF Walk, Collected
    <3> QED
      BY <3>1, <3>2
  <2> QED
    BY <1>5, <1>6, <1>7, <2>1, <2>2, <2>3 DEF Collected
<1>11. AtBlock(nq)
  BY <1>3, <1>5, <1>6, <1>7 DEF AtBlock
<1>12. Ascending(nq)
  <2>1. \A k \in 1 .. Len(q.chain) : number(q.cur) < number(q.chain[k].hash)
    <3>1. SUFFICES ASSUME NEW k \in 1 .. Len(q.chain)
                   PROVE  number(q.cur) < number(q.chain[k].hash)
      OBVIOUS
    <3>2. 1 \in 1 .. Len(q.chain) /\ q.chain # << >>
      BY <1>4, <3>1
    <3>3. q.chain[1].hash \in Imported /\ q.chain[k].hash \in Imported
      BY <1>1, <3>1, <3>2 DEF Walk, Collected
    <3>4. number(q.cur) < number(q.chain[1].hash)
      BY <1>2, <3>2, <3>3, ParentBelow DEF ForkInv
    <3>5. /\ number(q.cur) \in Nat /\ number(q.chain[1].hash) \in Nat
          /\ number(q.chain[k].hash) \in Nat
      BY <1>2, <3>3, Numbers DEF ForkInv
    <3>6. 1 < k => number(q.chain[1].hash) < number(q.chain[k].hash)
      BY <1>1, <3>1, <3>2 DEF Walk, Ascending
    <3>7. k = 1 \/ 1 < k
      BY <1>4, <3>1
    <3> QED
      BY <3>4, <3>5, <3>6, <3>7
  <2>2. SUFFICES ASSUME NEW j \in 1 .. Len(chain), NEW k \in 1 .. Len(chain), j < k
                 PROVE  number(chain[j].hash) < number(chain[k].hash)
    BY <1>7 DEF Ascending
  <2>3. k # 1 /\ k - 1 \in 1 .. Len(q.chain) /\ chain[k] = q.chain[k - 1]
    <3>1. k # 1
      BY <1>4, <1>5, <2>2
    <3> QED
      BY <1>9, <3>1
  <2>4. CASE j = 1
    BY <1>3, <1>5, <2>1, <2>3, <2>4
  <2>5. CASE j # 1
    <3>1. j - 1 \in 1 .. Len(q.chain) /\ chain[j] = q.chain[j - 1] /\ j - 1 < k - 1
      BY <1>4, <1>5, <1>9, <2>2, <2>5
    <3> QED
      BY <1>1, <2>3, <3>1 DEF Walk, Ascending
  <2> QED
    BY <2>4, <2>5
<1>13. Fresh(nq)
  <2>1. SUFFICES ASSUME Steady, setup.pruning, NEW k \in 1 .. Len(chain)
                 PROVE  chain[k].hash \notin DOMAIN aux
    BY <1>6, <1>7 DEF Fresh
  <2>2. CASE k = 1
    BY <1>1, <1>3, <1>5, <2>1, <2>2 DEF Walk, Fresh
  <2>3. CASE k # 1
    BY <1>1, <1>9, <2>1, <2>3 DEF Walk, Fresh
  <2> QED
    BY <2>2, <2>3
<1>14. ReadyToStore(nq)
  BY <1>3, <1>5, <1>6, <1>7 DEF ReadyToStore, Base
<1>15. Judged(nq)
  <2>1. Seen(nq) = Seen(q)
    BY <1>1, <1>6, <1>7 DEF Seen
  <2> QED
    BY <1>1, <1>7, <2>1 DEF Walk, Judged, JudgedBy
<1>16. Walk(nq)
  BY <1>8, <1>10, <1>11, <1>12, <1>13, <1>14, <1>15 DEF Walk
<1> QED
  BY <1>1, <1>7, <1>16, CallerStep

\* The walk stops above a cached parent, or goes on to it.
LEMMA ReadParentStep ==
    ASSUME ForkInv, TreeInv', SameBelow, NEW c \in setup.callers, ReadParent(c)
    PROVE  ForkInv'
<1> DEFINE q == query[c]
           p == parent[q.cur]
<1>1. /\ q \in Query /\ Walk(q) /\ q.pc = "parent" /\ UNCHANGED <<treeVars, aux>>
  BY DEF ForkInv, Walks, ReadParent
<1>2. /\ q.cur = q.chain[1].hash /\ q.cur # 0 /\ q.chain # << >>
      /\ q.chain \in Seq(Entry) /\ q.weight = 0
  BY <1>1 DEF Walk, AtBlock, Collected, Query
<1>3. q.cur \in Imported \ {0} /\ p \in Imported /\ p \in Block
  <2>1. 1 \in 1 .. Len(q.chain)
    BY <1>2
  <2>2. q.cur \in Imported
    BY <1>1, <1>2, <2>1 DEF Walk, Collected
  <2> QED
    BY <1>2, <2>2 DEF ForkInv, TreeInv, Tree
<1>4. CASE p \in DOMAIN aux
  <2> DEFINE nq == [q EXCEPT !.pc = "store", !.weight = aux[p]]
  <2>1. query' = [query EXCEPT ![c] = nq]
    BY <1>4 DEF ReadParent, ForkInv, Walks
  <2>2. aux[p] \in Nat
    BY <1>4 DEF ForkInv, Cache
  <2>3. /\ nq \in Query /\ nq.pc = "store" /\ nq.weight = aux[p] /\ nq.chain = q.chain
        /\ nq.leaves = q.leaves /\ nq.i = q.i
        /\ nq.best = q.best /\ nq.best_weight = q.best_weight
    BY <1>1, <2>2 DEF Query
  <2> HIDE DEF nq
  <2>4. AtLeaf(nq) /\ Collected(nq) /\ AtBlock(nq)
    BY <1>1, <1>2, <2>3 DEF Walk, AtLeaf, Collected, AtBlock
  <2>5. ReadyToStore(nq)
    BY <1>2, <1>4, <2>3 DEF ReadyToStore, Base
  <2>6. Ascending(nq) /\ Fresh(nq) /\ Judged(nq)
    BY <1>1, <2>3 DEF Walk, Ascending, Fresh, Judged, JudgedBy, Seen
  <2>7. Walk(nq)
    BY <2>4, <2>5, <2>6 DEF Walk
  <2> QED
    BY <1>1, <2>1, <2>3, <2>7, CallerStep
<1>5. CASE p \notin DOMAIN aux
  <2> DEFINE nq == [q EXCEPT !.pc = "difficulty", !.cur = p]
  <2>1. query' = [query EXCEPT ![c] = nq]
    BY <1>5 DEF ReadParent, ForkInv, Walks
  <2>2. /\ nq \in Query /\ nq.pc = "difficulty" /\ nq.cur = p /\ nq.chain = q.chain
        /\ nq.leaves = q.leaves /\ nq.i = q.i /\ nq.weight = 0
        /\ nq.best = q.best /\ nq.best_weight = q.best_weight
    BY <1>1, <1>2, <1>3 DEF Query
  <2> HIDE DEF nq
  <2>3. AtLeaf(nq) /\ Collected(nq)
    BY <1>1, <2>2 DEF Walk, AtLeaf, Collected
  <2>4. AtBlock(nq) /\ ReadyToStore(nq)
    BY <1>2, <1>3, <2>2 DEF AtBlock, ReadyToStore
  <2>5. Ascending(nq) /\ Fresh(nq) /\ Judged(nq)
    BY <1>1, <1>5, <2>2 DEF Walk, Ascending, Fresh, Judged, JudgedBy, Seen
  <2>6. Walk(nq)
    BY <2>3, <2>4, <2>5 DEF Walk
  <2> QED
    BY <1>1, <2>1, <2>2, <2>6, CallerStep
<1> QED
  BY <1>4, <1>5

-----------------------------------------------------------------------------
\* The weight that is written: the parent's, which is cached, plus the block's
\* own.  Who writes a block a second time writes what is there.
LEMMA WriteWeight ==
    ASSUME ForkInv, TreeInv', SameBelow, NEW c \in setup.callers, Store(c)
    PROVE  LET q == query[c]
               h == q.chain[1].hash
               w == q.weight + BlockWeight(q.chain[1].difficulty)
           IN  /\ w \in Nat /\ h \in Imported
               /\ DOMAIN aux' = DOMAIN aux \cup {h} /\ aux'[h] = w
               /\ TreeGrows /\ CacheGrows /\ Cache' /\ Exact' /\ Relative'
<1> DEFINE q == query[c]
           h == q.chain[1].hash
           w == q.weight + BlockWeight(q.chain[1].difficulty)
<1>1. q \in Query /\ Walk(q) /\ q.pc = "store" /\ UNCHANGED treeVars
  BY DEF ForkInv, Walks, Store
<1>2. q.chain \in Seq(Entry) /\ 1 \in 1 .. Len(q.chain) /\ q.weight \in Nat
  BY <1>1 DEF Query, Walk, Collected
<1>3. /\ q.chain[1].difficulty \in Nat /\ h \in Imported
      /\ h \notin pruned => q.chain[1].difficulty = difficulty[h]
  <2>1. q.chain[1] \in Entry
    BY <1>2
  <2>2. q.chain[1].difficulty \in Nat
    BY <2>1 DEF Entry
  <2> QED
    BY <1>1, <1>2, <2>2 DEF Walk, Collected
<1>4. w \in Nat
  <2>1. BlockWeight(q.chain[1].difficulty) \in Nat
    BY <1>3, BlockWeightType
  <2> QED
    BY <1>2, <2>1
<1>5. /\ h # 0 => parent[h] \in DOMAIN aux
      /\ Steady /\ h \notin pruned => w = Base(h) + BlockWeight(difficulty[h])
      /\ Steady /\ setup.pruning => h \notin DOMAIN aux
  BY <1>1, <1>2, <1>3 DEF Walk, ReadyToStore, Fresh
<1>6. aux' = [x \in DOMAIN aux \cup {h} |-> IF x = h THEN w ELSE aux[x]]
  BY <1>1, <1>2 DEF Store
<1> HIDE DEF w, h
<1>7. /\ DOMAIN aux' = DOMAIN aux \cup {h} /\ aux'[h] = w
      /\ \A x \in DOMAIN aux \ {h} : aux'[x] = aux[x]
  BY <1>6
<1>8. /\ setup' = setup /\ parent' = parent /\ difficulty' = difficulty
      /\ pruned' = pruned /\ finalized' = finalized /\ Imported' = Imported
      /\ Path' = Path /\ TrueWeight' = TrueWeight
  BY <1>1 DEF treeVars, Imported, Path, TrueWeight, BlockWeight
<1>9. TreeGrows /\ Steady' = Steady /\ Root' = Root
  BY <1>8 DEF TreeGrows, Steady, Root
<1>10. CacheGrows
  <2>1. ASSUME Steady, h \in DOMAIN aux PROVE aux[h] = w
    <3>1. h \notin pruned
      BY <1>5, <2>1 DEF ForkInv, TreeInv, Tree
    <3> QED
      BY <1>5, <2>1, <3>1 DEF ForkInv, Exact
  <2> QED
    BY <1>7, <2>1 DEF CacheGrows
<1>11. Path[h] \subseteq DOMAIN aux'
  <2>1. CASE h = 0
    BY <1>3, <1>7, <2>1, PathEquation DEF ForkInv, TreeInv
  <2>2. CASE h # 0
    <3>1. Path[h] = {h} \cup Path[parent[h]]
      BY <1>3, <2>2, ParentBelow DEF ForkInv
    <3>2. Path[parent[h]] \subseteq DOMAIN aux
      BY <1>5, <2>2 DEF ForkInv, Cache
    <3> QED
      BY <1>7, <3>1, <3>2
  <2> QED
    BY <2>1, <2>2
<1>12. Cache'
  <2>1. aux' \in [DOMAIN aux' -> Nat]
    BY <1>4, <1>6 DEF ForkInv, Cache
  <2> QED
    BY <1>3, <1>7, <1>8, <1>11, <2>1 DEF ForkInv, Cache
<1>13. Exact'
  <2>1. SUFFICES ASSUME Steady, NEW b \in DOMAIN aux' \ pruned
                 PROVE  aux'[b] = Base(b)' + BlockWeight(difficulty[b])
    BY <1>8, <1>9 DEF Exact, BlockWeight
  <2>2. aux'[b] = Base(b) + BlockWeight(difficulty[b])
    BY <1>5, <1>7, <2>1 DEF ForkInv, Exact
  <2>3. b # 0 => parent[b] \in DOMAIN aux
    <3>1. CASE b = h
      BY <1>5, <3>1
    <3>2. CASE b # h
      <4>1. b \in DOMAIN aux /\ b \in Imported
        BY <1>7, <3>2 DEF ForkInv, Cache
      <4>2. b # 0 => parent[b] \in Path[b]
        BY <4>1, ParentBelow DEF ForkInv, TreeInv, Paths
      <4> QED
        BY <4>1, <4>2 DEF ForkInv, Cache
    <3> QED
      BY <3>1, <3>2
  <2>4. Base(b)' = Base(b)
    BY <1>8, <1>10, <2>1, <2>3 DEF Base, CacheGrows
  <2> QED
    BY <2>2, <2>4
<1>14. Relative'
  <2>1. PICK r, tw : r = Root /\ tw = TrueWeight
    OBVIOUS
  <2>2. SUFFICES ASSUME Steady, NEW x \in DOMAIN aux', r \in Path[x]
                 PROVE  aux'[x] + tw[r] = aux'[r] + tw[x]
    BY <1>8, <1>9, <2>1 DEF Relative
  <2>3. tw \in [Imported -> Nat]
    BY <2>1, WeightEquation DEF ForkInv, TreeInv
  <2>4. \A y \in DOMAIN aux : r \in Path[y] => r \in DOMAIN aux /\ aux'[r] = aux[r]
    BY <1>10, <2>2 DEF ForkInv, Cache, CacheGrows
  <2>5. CASE x \in DOMAIN aux
    <3>1. aux[x] + tw[r] = aux[r] + tw[x]
      BY <2>1, <2>2, <2>5 DEF ForkInv, Relative
    <3>2. aux'[x] = aux[x] /\ aux'[r] = aux[r]
      BY <1>10, <2>2, <2>4, <2>5 DEF CacheGrows
    <3> QED
      BY <3>1, <3>2
  <2>6. CASE x = r
    <3>1. r \in Imported /\ aux'[r] \in Nat
      BY <1>3, <1>7, <1>8, <1>12, <2>2, <2>6 DEF Cache
    <3>2. tw[r] \in Nat
      BY <2>3, <3>1
    <3> QED
      BY <2>6, <3>1, <3>2
  <2>7. CASE x \notin DOMAIN aux /\ x # r
    <3>1. x = h /\ h # 0
      <4>1. x = h
        BY <1>7, <2>2, <2>7
      <4>2. Path[0] = {0}
        BY PathEquation DEF ForkInv, TreeInv, Tree
      <4> QED
        BY <2>2, <2>7, <4>1, <4>2
    <3>2. PICK p : p = parent[h]
      OBVIOUS
    <3>3. /\ p \in DOMAIN aux /\ p \in Imported /\ r \in Path[p]
          /\ tw[h] = BlockWeight(difficulty[h]) + tw[p]
      BY <1>3, <1>5, <2>1, <2>2, <2>7, <3>1, <3>2, ParentBelow DEF ForkInv
    <3>4. h \notin pruned
      <4>1. CASE setup.pruning
        <5>1. Live(h)
          BY <2>1, <2>2, <3>1, <4>1 DEF Root, Live, DescendsFrom
        <5> QED
          BY <5>1 DEF ForkInv, TreeInv, Paths
      <4>2. CASE ~ setup.pruning
        BY <4>2 DEF ForkInv, TreeInv, Tree
      <4> QED
        BY <4>1, <4>2
    <3>5. aux'[h] = aux[p] + BlockWeight(difficulty[h])
      BY <1>5, <1>7, <2>2, <3>1, <3>2, <3>4 DEF Base
    <3>6. aux[p] + tw[r] = aux[r] + tw[p]
      BY <2>1, <2>2, <3>3 DEF ForkInv, Relative
    <3>7. aux'[r] = aux[r] /\ r \in DOMAIN aux /\ r \in Imported
      BY <2>4, <3>3 DEF ForkInv, Cache
    <3>8. /\ aux[p] \in Nat /\ aux[r] \in Nat /\ tw[r] \in Nat /\ tw[p] \in Nat
          /\ BlockWeight(difficulty[h]) \in Nat
      <4>1. difficulty[h] \in Nat
        BY <1>3, ForkChoiceAssumption DEF ForkInv, TreeInv, Tree
      <4> QED
        BY <2>3, <3>3, <3>7, <4>1, BlockWeightType DEF ForkInv, Cache
    <3>9. (aux[p] + BlockWeight(difficulty[h])) + tw[r]
              = aux[r] + (BlockWeight(difficulty[h]) + tw[p])
      BY <3>6, <3>8
    <3> QED
      BY <3>1, <3>3, <3>5, <3>7, <3>9
  <2> QED
    BY <2>5, <2>6, <2>7
<1> QED
  BY <1>3, <1>4, <1>7, <1>9, <1>10, <1>12, <1>13, <1>14 DEF w, h

\* The block is stored: the call goes on with the rest of the chain, or with
\* the next leaf; a weight another caller has written is written again as it was.
LEMMA StoreStep ==
    ASSUME ForkInv, TreeInv', SameBelow, NEW c \in setup.callers, Store(c)
    PROVE  ForkInv'
<1> DEFINE q == query[c]
           h == q.chain[1].hash
           w == q.weight + BlockWeight(q.chain[1].difficulty)
<1>1. /\ q \in Query /\ Walk(q) /\ q.pc = "store" /\ UNCHANGED treeVars
      /\ query \in [setup.callers -> Query]
  BY DEF ForkInv, Walks, Store
<1>2. /\ w \in Nat /\ h \in Imported
      /\ DOMAIN aux' = DOMAIN aux \cup {h} /\ aux'[h] = w
      /\ TreeGrows /\ CacheGrows /\ Cache' /\ Exact' /\ Relative'
  BY WriteWeight
<1>3. /\ setup' = setup /\ parent' = parent /\ difficulty' = difficulty
      /\ pruned' = pruned /\ Imported' = Imported /\ Steady' = Steady
      /\ \A b : number(b)' = number(b)
  BY <1>1 DEF treeVars, Imported, Steady, number, Path
<1>4. /\ q.chain \in Seq(Entry) /\ 1 \in 1 .. Len(q.chain) /\ Len(q.chain) \in Nat
      /\ q.i \in 1 .. Len(q.leaves) /\ q.best \in Imported
      /\ \A k \in 1 .. Len(q.leaves) : q.leaves[k] \in Imported
      /\ Head(q.chain) = q.chain[1]
  BY <1>1 DEF Query, Walk, Collected, AtLeaf
<1>5. JudgedBy(aux', q) \/ ~ Steady
  BY <1>1, <1>2 DEF Walk, Judged, JudgedBy, CacheGrows
<1>6. \E nq \in Query : Walk(nq)' /\ query' = [query EXCEPT ![c] = nq]
  <2>1. CASE Len(q.chain) = 1
    <3>1. query' = [query EXCEPT ![c] = WeighedQuery(q, w)]
      BY <1>4, <2>1 DEF Store, Weighed, WeighedQuery
    <3>2. PICK nq : nq = WeighedQuery(q, w)
      OBVIOUS
    <3>3. /\ nq \in Query /\ nq.leaves = q.leaves /\ nq.chain = << >> /\ nq.weight = 0
          /\ nq.i \in 1 .. Len(q.leaves) /\ nq.pc \in {"lookup", "done"}
          /\ nq.best \in Imported
      BY <1>1, <1>2, <1>4, <3>2, WeighedFields
    <3>4. h = q.leaves[q.i]
      BY <1>1, <1>4, <2>1 DEF Walk, Collected
    <3>5. PICK weights : weights = aux'
      OBVIOUS
    <3>6. \A b \in DOMAIN weights : b \in Nat /\ weights[b] \in Nat
      <4>1. Block \subseteq Nat
        BY ForkChoiceAssumption DEF Block, ForkInv, TreeInv, Tree
      <4> QED
        BY <1>2, <1>3, <3>5, <4>1 DEF Cache, ForkInv, TreeInv, Tree
    <3>7. Steady => JudgedBy(weights, nq)
      BY <1>1, <1>2, <1>4, <1>5, <3>2, <3>4, <3>5, <3>6, WeighedJudged
    <3>8. Judged(nq)'
      BY <1>3, <3>5, <3>7 DEF Judged
    <3>9. AtLeaf(nq)' /\ Collected(nq)'
      BY <1>3, <1>4, <3>3 DEF AtLeaf, Collected
    <3>10. AtBlock(nq)' /\ Ascending(nq)' /\ Fresh(nq)' /\ ReadyToStore(nq)'
      BY <3>3 DEF AtBlock, Ascending, Fresh, ReadyToStore
    <3>11. Walk(nq)'
      BY <3>8, <3>9, <3>10 DEF Walk
    <3> QED
      BY <3>1, <3>2, <3>3, <3>11
  <2>2. CASE Len(q.chain) # 1
    <3>1. PICK nq : nq = [q EXCEPT !.chain = Tail(q.chain), !.weight = w]
      OBVIOUS
    <3>2. query' = [query EXCEPT ![c] = nq]
      BY <1>1, <1>4, <2>2, <3>1 DEF Store
    <3>3. /\ Tail(q.chain) \in Seq(Entry) /\ Len(Tail(q.chain)) = Len(q.chain) - 1
          /\ \A k \in 1 .. Len(q.chain) - 1 : Tail(q.chain)[k] = q.chain[k + 1]
          /\ Len(q.chain) - 1 \in 1 .. Len(q.chain) - 1
      BY <1>4, <2>2, Shortened
    <3>4. /\ nq \in Query /\ nq.pc = "store" /\ nq.chain = Tail(q.chain) /\ nq.weight = w
          /\ nq.leaves = q.leaves /\ nq.i = q.i
          /\ nq.best = q.best /\ nq.best_weight = q.best_weight
      BY <1>1, <1>2, <3>1, <3>3 DEF Query
    <3>5. AtLeaf(nq)' /\ AtBlock(nq)'
      BY <1>3, <1>4, <3>4 DEF AtLeaf, AtBlock
    <3>6. \A k \in 1 .. Len(nq.chain) :
              k + 1 \in 1 .. Len(q.chain) /\ nq.chain[k] = q.chain[k + 1]
      BY <1>4, <3>3, <3>4
    <3>7. Collected(nq)'
      <4>1. ASSUME NEW k \in 1 .. Len(nq.chain)
            PROVE  /\ nq.chain[k].hash \in Imported
                   /\ nq.chain[k].hash \notin pruned =>
                          nq.chain[k].difficulty = difficulty[nq.chain[k].hash]
        BY <1>1, <3>6 DEF Walk, Collected
      <4>2. ASSUME NEW k \in 1 .. Len(nq.chain) - 1
            PROVE  /\ nq.chain[k + 1].hash # 0
                   /\ parent[nq.chain[k + 1].hash] = nq.chain[k].hash
        <5>1. /\ k + 1 \in 1 .. Len(q.chain) - 1 /\ nq.chain[k] = q.chain[k + 1]
              /\ nq.chain[k + 1] = q.chain[(k + 1) + 1]
          BY <1>4, <3>3, <3>4
        <5> QED
          BY <1>1, <5>1 DEF Walk, Collected
      <4>3. nq.chain # << >> /\ nq.chain[Len(nq.chain)].hash = nq.leaves[nq.i]
        <5>1. nq.chain[Len(nq.chain)] = q.chain[Len(q.chain)] /\ nq.chain # << >>
          <6>1. Len(nq.chain) = Len(q.chain) - 1 /\ (Len(q.chain) - 1) + 1 = Len(q.chain)
            BY <1>4, <3>3, <3>4
          <6>2. Tail(q.chain)[Len(q.chain) - 1] = q.chain[(Len(q.chain) - 1) + 1]
            BY <3>3
          <6>3. nq.chain # << >>
            <7>1. Len(nq.chain) \in 1 .. Len(nq.chain)
              BY <3>3, <6>1
            <7> QED
              BY <7>1
          <6> QED
            BY <3>4, <6>1, <6>2, <6>3
        <5> QED
          BY <1>1, <1>4, <3>4, <5>1 DEF Walk, Collected
      <4> QED
        BY <1>3, <3>4, <4>1, <4>2, <4>3 DEF Collected
    <3>8. Ascending(nq)'
      <4>1. SUFFICES ASSUME NEW j \in 1 .. Len(nq.chain), NEW k \in 1 .. Len(nq.chain),
                            j < k
                     PROVE  number(nq.chain[j].hash) < number(nq.chain[k].hash)
        BY <1>3 DEF Ascending
      <4>2. j + 1 < k + 1
        BY <3>3, <3>4, <4>1
      <4> QED
        BY <1>1, <3>6, <4>1, <4>2 DEF Walk, Ascending
    <3>9. Fresh(nq)'
      <4>1. SUFFICES ASSUME Steady, setup.pruning, NEW k \in 1 .. Len(nq.chain)
                     PROVE  nq.chain[k].hash \notin DOMAIN aux'
        BY <1>3, <3>4 DEF Fresh
      <4>2. k + 1 \in 1 .. Len(q.chain) /\ nq.chain[k] = q.chain[k + 1] /\ 1 < k + 1
        BY <3>3, <3>4, <3>6, <4>1
      <4>3. nq.chain[k].hash \notin DOMAIN aux
        BY <1>1, <4>1, <4>2 DEF Walk, Fresh
      <4>4. number(h) < number(nq.chain[k].hash)
        BY <1>1, <1>4, <4>2 DEF Walk, Ascending
      <4>5. number(h) \in Nat
        BY <1>2, Numbers DEF ForkInv
      <4>6. nq.chain[k].hash # h
        BY <4>4, <4>5
      <4> QED
        BY <1>2, <4>3, <4>6
    <3>10. ReadyToStore(nq)'
      <4>1. nq.chain[1].hash # 0 /\ parent[nq.chain[1].hash] = h
        <5>1. 1 \in 1 .. Len(q.chain) - 1 /\ nq.chain[1] = q.chain[1 + 1]
          BY <1>4, <2>2, <3>3, <3>4
        <5> QED
          BY <1>1, <5>1 DEF Walk, Collected
      <4> QED
        BY <1>2, <1>3, <3>4, <4>1 DEF ReadyToStore, Base
    <3>11. Judged(nq)'
      BY <1>1, <1>3, <1>5, <3>4 DEF Judged, JudgedBy, Seen
    <3>12. Walk(nq)'
      BY <3>5, <3>7, <3>8, <3>9, <3>10, <3>11 DEF Walk
    <3> QED
      BY <3>2, <3>4, <3>12
  <2> QED
    BY <2>1, <2>2
<1>7. PICK nq \in Query : Walk(nq)' /\ query' = [query EXCEPT ![c] = nq]
  BY <1>6
<1>8. Walks'
  <2>1. Query' = Query
    BY <1>3 DEF Query, Entry, Block
  <2>2. query' \in [setup.callers -> Query]
    BY <1>1, <1>7
  <2>3. ASSUME NEW d \in setup.callers PROVE Walk(query[d])'
    <3>1. CASE d = c
      BY <1>1, <1>7, <3>1
    <3>2. CASE d # c
      <4>1. PICK r \in Query : r = query[d] /\ r = query'[d] /\ Walk(r)
        BY <1>1, <1>7, <3>2 DEF ForkInv, Walks
      <4>2. OthersWrite
        BY <1>2, <3>2 DEF OthersWrite, Steady
      <4>3. Walk(r)'
        BY <1>2, <4>1, <4>2, WalkKept DEF ForkInv
      <4> QED
        BY <4>1, <4>3
    <3> QED
      BY <3>1, <3>2
  <2> QED
    BY <1>3, <2>1, <2>2, <2>3 DEF Walks
<1> QED
  BY <1>2, <1>8 DEF ForkInv

\* Every step keeps the invariant.
LEMMA StepFork ==
    ForkInv /\ [Next]_vars => ForkInv'
<1> SUFFICES ASSUME ForkInv, [Next]_vars PROVE ForkInv'
  OBVIOUS
<1>1. TreeInv' /\ SameBelow
  BY TreeStep DEF ForkInv
<1>2. CASE UNCHANGED vars
  <2>1. 0 \in Imported
    BY DEF ForkInv, TreeInv, Tree
  <2> QED
    BY <1>1, <1>2, <2>1, FinalityStep
<1>3. ASSUME NEW b \in setup.hashes, NEW d \in Difficulties, NEW p \in Imported,
             Import(b, p, d)
      PROVE  ForkInv'
  BY <1>1, <1>3, ImportStep
<1>4. ASSUME NEW b \in Imported, Finalize(b) \/ Prune(b) PROVE ForkInv'
  BY <1>1, <1>4, FinalityStep
<1>5. ASSUME NEW c \in setup.callers,
             Begin(c) \/ Lookup(c) \/ ReadDifficulty(c) \/ ReadParent(c) \/ Store(c)
      PROVE  ForkInv'
  BY <1>1, <1>5, BeginStep, LookupStep, ReadDifficultyStep, ReadParentStep, StoreStep
<1> QED
  BY <1>2, <1>3, <1>4, <1>5 DEF Next

\* ForkInv holds in every reachable state.
LEMMA ForkInvariant == Spec => []ForkInv
BY InitFork, StepFork, PTL DEF Spec

-----------------------------------------------------------------------------
\* The type invariant of the fork choice holds in every instance: the weights
\* in the auxiliary database are those of a subtree with genesis as its root, and
\* what cumulative_weight collects is a path that ends at the leaf.
THEOREM ForkTypes == Spec => []TypeOK
<1>1. ForkInv => TypeOK
  <2> SUFFICES ASSUME ForkInv PROVE TypeOK
    OBVIOUS
  <2>1. ASSUME NEW c \in setup.callers
        PROVE  LET q == query[c]
               IN  /\ q.pc \in {"idle", "lookup", "difficulty", "parent", "store", "done"}
                   /\ \A k \in 1 .. Len(q.chain) - 1 :
                         parent[q.chain[k + 1].hash] = q.chain[k].hash
                   /\ q.chain # << >> => Last(q.chain).hash = q.leaves[q.i]
    BY DEF ForkInv, Walks, Walk, Collected, Query, Last
  <2>2. ASSUME NEW b \in DOMAIN aux \ {0} PROVE parent[b] \in DOMAIN aux
    <3>1. b \in Imported /\ b # 0 /\ Path[b] \subseteq DOMAIN aux
      BY DEF ForkInv, Cache
    <3>2. parent[b] \in Path[b]
      BY <3>1, ParentBelow DEF ForkInv, TreeInv, Paths
    <3> QED
      BY <3>1, <3>2
  <2> QED
    BY <2>1, <2>2 DEF TypeOK, ForkInv, Cache
<1> QED
  BY <1>1, ForkInvariant, PTL

\* cum_weight(block) = cum_weight(parent) + DIFFICULTY_SCALE / difficulty for
\* every cached weight of a block whose state is there, whatever callers of
\* best_header_weighted write the auxiliary database at the same time, on a node
\* that keeps every state, and on a pruning node with a single caller.
THEOREM SteadyWeightsAddUp == Spec => [](Steady => WeightsAddUp)
<1>1. ForkInv => (Steady => WeightsAddUp)
  BY DEF ForkInv, Exact, Base, WeightsAddUp
<1> QED
  BY <1>1, ForkInvariant, PTL

\* best_header_weighted selects the leaf with the largest true cumulative
\* weight, and among equals the one with the smallest hash, whatever was
\* imported or finalized meanwhile: on a node that keeps every state, and,
\* among the leaves finality has not displaced, on a pruning node with a single
\* caller.
THEOREM SteadySelectionExact == Spec => [](Steady => SelectionExact)
<1>1. ForkInv => (Steady => SelectionExact)
  <2> SUFFICES ASSUME ForkInv, Steady,
                      NEW c \in setup.callers, query[c].pc = "done",
                      Live(query[c].best) \/ ~ setup.pruning,
                      NEW k \in DOMAIN query[c].leaves,
                      Live(query[c].leaves[k]) \/ ~ setup.pruning
               PROVE  LET b == query[c].best
                          l == query[c].leaves[k]
                      IN  \/ TrueWeight[b] > TrueWeight[l]
                          \/ TrueWeight[b] = TrueWeight[l] /\ b <= l
    BY DEF SelectionExact
  <2>1. PICK q : q = query[c]
    OBVIOUS
  <2>2. PICK b, l, r, tw : b = q.best /\ l = q.leaves[k] /\ r = Root /\ tw = TrueWeight
    OBVIOUS
  <2>3. q \in Query /\ Walk(q) /\ q.pc = "done"
    BY <2>1 DEF ForkInv, Walks
  <2>4. k \in Seen(q)
    BY <2>1, <2>3 DEF Query, Seen
  <2>5. /\ b \in DOMAIN aux /\ l \in DOMAIN aux
        /\ aux[b] > aux[l] \/ (aux[b] = aux[l] /\ b <= l)
    BY <2>2, <2>3, <2>4 DEF Walk, Judged, JudgedBy
  <2>6. b \in Imported /\ l \in Imported
    BY <2>5 DEF ForkInv, Cache
  <2>7. r \in Path[b] /\ r \in Path[l]
    BY <2>1, <2>2, <2>6 DEF Root, Live, DescendsFrom, ForkInv, TreeInv, Paths
  <2>8. aux[b] + tw[r] = aux[r] + tw[b] /\ aux[l] + tw[r] = aux[r] + tw[l]
    BY <2>2, <2>5, <2>7 DEF ForkInv, Relative
  <2>9. /\ aux[b] \in Nat /\ aux[l] \in Nat /\ aux[r] \in Nat
        /\ tw[b] \in Nat /\ tw[l] \in Nat /\ tw[r] \in Nat
    <3>1. r \in DOMAIN aux /\ r \in Imported
      BY <2>5, <2>7 DEF ForkInv, Cache
    <3>2. tw \in [Imported -> Nat]
      BY <2>2, WeightEquation DEF ForkInv, TreeInv
    <3> QED
      BY <2>5, <2>6, <3>1, <3>2 DEF ForkInv, Cache
  <2>10. tw[b] > tw[l] \/ (tw[b] = tw[l] /\ b <= l)
    BY <2>5, <2>8, <2>9
  <2> QED
    BY <2>1, <2>2, <2>10
<1> QED
  BY <1>1, ForkInvariant, PTL

\* finality_target_weighted answers with the highest block, up to the limit, of
\* the chain selected, if that block extends the base, and with nothing
\* otherwise, in every instance.
THEOREM TargetsAreSound == Spec => []TargetsExtendBase
<1>1. ForkInv => TargetsExtendBase
  <2> SUFFICES ASSUME ForkInv, NEW c \in setup.callers, query[c].pc = "done",
                      NEW base \in Imported,
                      NEW max \in {None} \cup 0 .. Cardinality(Imported)
               PROVE  LET best == query[c].best
                          t == finality_target(best, base, max)
                          allowed == {b \in Path[best] :
                                        /\ DescendsFrom(b, base)
                                        /\ max = None \/ number(b) <= max}
                      IN  IF allowed = {} THEN t = None
                          ELSE t \in allowed /\ \A b \in allowed : number(b) <= number(t)
    BY DEF TargetsExtendBase
  <2>1. query[c].best \in Imported
    BY DEF ForkInv, Walks, Walk, AtLeaf
  <2>2. max \in {None} \cup Nat
    BY FS_CardinalityType DEF ForkInv, TreeInv, Tree
  <2> QED
    BY <2>1, <2>2, TargetIsHighest DEF ForkInv
<1> QED
  BY <1>1, ForkInvariant, PTL
=============================================================================
