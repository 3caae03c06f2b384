----------------------------- MODULE NodeProofs ------------------------------
(***************************************************************************)
(* Proofs about MiningNode, for any number of threads, any channel and any *)
(* bounds: its types, the mark, that a proof in the pool of a node on its  *)
(* own is served, and that a node with one thread never makes an empty     *)
(* block and moves the height with every block but the first.              *)
(*                                                                         *)
(* On its own the author's parent is the best block until it imports, so   *)
(* its block is the new best one and what it carries leaves the pool.  With*)
(* one thread the node moves in a circle of six phases (Phase below), in   *)
(* which the pool holds at most one proof, and it is for the best block.   *)
(***************************************************************************)
EXTENDS MiningNode, FiniteSetTheorems, TLAPS

IsSequence(s) == \E S : s \in Seq(S)

Alone == ~ node.peers /\ ~ node.faulty

ParentIsBest == Alone /\ author.step # "recv" => author.parent = best

PathsAreSequences == \A b \in known : IsSequence(b)

MiningInv == TypeOK /\ Genesis \in known /\ PathsAreSequences /\ ParentIsBest

-----------------------------------------------------------------------------
\* A path and one more block.
LEMMA AppendProperties ==
    ASSUME NEW s, IsSequence(s), NEW x
    PROVE  /\ IsSequence(Append(s, x))
           /\ Len(s) \in Nat
           /\ Len(Append(s, x)) = Len(s) + 1
           /\ Append(s, x)[Len(s) + 1] = x
           /\ \A i \in 1 .. Len(s) : Append(s, x)[i] = s[i]
<1>1. PICK S : s \in Seq(S)
  BY DEF IsSequence
<1>2. s \in Seq(S \cup {x}) /\ x \in S \cup {x}
  BY <1>1
<1>3. /\ Append(s, x) \in Seq(S \cup {x}) /\ Len(s) \in Nat
      /\ Len(Append(s, x)) = Len(s) + 1
      /\ Append(s, x)[Len(s) + 1] = x
      /\ \A i \in 1 .. Len(s) : Append(s, x)[i] = s[i]
  BY <1>2
<1> QED
  BY <1>3 DEF IsSequence

\* A proper prefix of a path is untouched by one more block.
LEMMA PrefixOfAppend ==
    ASSUME NEW s, IsSequence(s), NEW x, NEW i \in 1 .. Len(s) + 1
    PROVE  SubSeq(Append(s, x), 1, i - 1) = SubSeq(s, 1, i - 1)
<1>1. PICK S : s \in Seq(S)
  BY DEF IsSequence
<1>2. s \in Seq(S \cup {x}) /\ Append(s, x) \in Seq(S \cup {x}) /\ Len(s) \in Nat
      /\ Len(Append(s, x)) = Len(s) + 1
      /\ \A j \in 1 .. Len(s) : Append(s, x)[j] = s[j]
  BY <1>1
<1>3. SubSeq(Append(s, x), 1, i - 1) = [j \in 1 .. i - 1 |-> Append(s, x)[j]]
  BY <1>2
<1>4. SubSeq(s, 1, i - 1) = [j \in 1 .. i - 1 |-> s[j]]
  BY <1>2
<1> QED
  BY <1>2, <1>3, <1>4

\* A path is its own longest prefix.
LEMMA WholePrefix ==
    ASSUME NEW s, IsSequence(s)
    PROVE  SubSeq(s, 1, Len(s)) = s
BY DEF IsSequence

\* The height of any path is a number, and not zero.
LEMMA HeightType ==
    ASSUME NEW b, IsSequence(b)
    PROVE  CurrentHeight(b) \in Nat \ {0}
<1>1. Len(b) \in Nat
  BY DEF IsSequence
<1>2. IsFiniteSet(1 .. Len(b))
  BY <1>1, FS_Interval
<1>3. Cardinality({i \in 1 .. Len(b) : Accepts(b, i)}) \in Nat
  BY <1>2, FS_Subset, FS_CardinalityType
<1> QED
  BY <1>1, <1>3, MiningNodeAssumption DEF CurrentHeight

-----------------------------------------------------------------------------
\* The node starts with genesis, idle threads and an empty pool.
LEMMA InitMining == Init => MiningInv
<1> SUFFICES ASSUME Init PROVE MiningInv
  OBVIOUS
<1>1. IsSequence(Genesis)
  BY DEF IsSequence, Genesis
<1> QED
  BY <1>1, MiningNodeAssumption
  DEF Init, MiningInv, TypeOK, PathsAreSequences, ParentIsBest, Idle, Genesis, Proof

\* Importing a block that extends a known one keeps the client's types.
LEMMA ImportTypes ==
    ASSUME MiningInv, NEW parent \in known, NEW x, ImportBlock(Append(parent, x))
    PROVE  /\ PathsAreSequences'
           /\ best' \in known'
           /\ known \subseteq known'
           /\ pool' \subseteq pool
<1>1. IsSequence(Append(parent, x))
  BY AppendProperties DEF MiningInv, PathsAreSequences
<1> QED
  BY <1>1 DEF ImportBlock, MiningInv, PathsAreSequences, TypeOK

\* Steps keep the types.
LEMMA TypeOKStep == MiningInv /\ [Next]_vars => TypeOK' /\ Genesis \in known' /\ PathsAreSequences'
<1> SUFFICES ASSUME MiningInv, [Next]_vars PROVE TypeOK' /\ Genesis \in known' /\ PathsAreSequences'
  OBVIOUS
<1> USE MiningNodeAssumption
<1>0. \A b \in known : CurrentHeight(b) \in Nat \ {0}
  BY HeightType DEF MiningInv, PathsAreSequences
<1>1. CASE PeerBlock
  <2>1. PICK parent \in known : \E x : ImportBlock(Append(parent, x))
    BY <1>1 DEF PeerBlock
  <2>2. /\ PathsAreSequences' /\ best' \in known' /\ known \subseteq known' /\ pool' \subseteq pool
    BY <2>1, ImportTypes
  <2> QED
    BY <1>1, <2>2 DEF PeerBlock, MiningInv, TypeOK, threadVars, Proof
<1>2. CASE Revalidate
  <2>1. Tag \in Nat
    BY <1>0 DEF Tag, MiningInv, TypeOK
  <2>2. PICK q \in pool : pool' = {[q EXCEPT !.tag = Tag]}
    BY <1>2 DEF Revalidate
  <2>3. pool' \subseteq [seed : known, by : Thread, tag : Nat]
    BY <2>1, <2>2 DEF MiningInv, TypeOK
  <2> QED
    BY <1>2, <2>3 DEF Revalidate, MiningInv, TypeOK, PathsAreSequences, threadVars, Proof
<1>3. ASSUME NEW t \in Thread, ReadHash(t) \/ ReadNumber(t) \/ GiveUp(t) \/ Find(t) \/ SubmitFails(t)
      PROVE  TypeOK' /\ Genesis \in known' /\ PathsAreSequences'
  <2>1. Number(best) \in Nat
    BY AppendProperties DEF MiningInv, TypeOK, PathsAreSequences, Number
  <2>2. /\ \E step \in {"idle", "number", "mine", "submit"} : pc' = [pc EXCEPT ![t] = step]
        /\ \/ hash' = hash \/ \E b \in known : hash' = [hash EXCEPT ![t] = b]
        /\ \/ number' = number \/ \E n \in Nat : number' = [number EXCEPT ![t] = n]
        /\ UNCHANGED <<node, known, best, pool, channel, last_proved_height, last_mined_hash, author>>
    BY <1>3, <2>1 DEF ReadHash, ReadNumber, GiveUp, Find, SubmitFails, Restart, Goto,
                      MiningInv, TypeOK
  <2>3. pc' \in [Thread -> {"idle", "number", "mine", "submit", "mark", "notify"}]
    BY <2>2 DEF MiningInv, TypeOK
  <2>4. hash' \in [Thread -> known]
    BY <2>2 DEF MiningInv, TypeOK
  <2>5. number' \in [Thread -> Nat]
    BY <2>2 DEF MiningInv, TypeOK
  <2> QED
    BY <2>2, <2>3, <2>4, <2>5 DEF MiningInv, TypeOK, PathsAreSequences, Proof
<1>4. ASSUME NEW t \in Thread, SubmitProof(t)
      PROVE  TypeOK' /\ Genesis \in known' /\ PathsAreSequences'
  <2>1. Tag \in Nat
    BY <1>0 DEF Tag, MiningInv, TypeOK
  <2>2. pool' \subseteq [seed : known, by : Thread, tag : Nat]
    BY <1>4, <2>1 DEF SubmitProof, MiningInv, TypeOK
  <2> QED
    BY <1>4, <2>2 DEF SubmitProof, Goto, MiningInv, TypeOK, PathsAreSequences, Proof
<1>5. ASSUME NEW t \in Thread, Notify(t)
      PROVE  TypeOK' /\ Genesis \in known' /\ PathsAreSequences'
  <2>1. channel' \in 0 .. CHANNEL_CAPACITY
    BY <1>5 DEF Notify, MiningInv, TypeOK
  <2> QED
    BY <1>5, <2>1 DEF Notify, Restart, MiningInv, TypeOK, PathsAreSequences, Proof
<1>11. ASSUME NEW t \in Thread, StoreMark(t)
       PROVE  TypeOK' /\ Genesis \in known' /\ PathsAreSequences'
  <2>1. mining_height(t) \in Nat
    BY <1>0 DEF mining_height, MiningInv, TypeOK
  <2> QED
    BY <1>11, <2>1 DEF StoreMark, Goto, MiningInv, TypeOK, PathsAreSequences, Proof
<1>6. CASE Receive
  <2>1. channel' \in 0 .. CHANNEL_CAPACITY
    BY <1>6 DEF Receive, MiningInv, TypeOK
  <2>2. author' \in [step : {"recv", "slot", "import"}, parent : known, body : SUBSET Proof]
    BY <1>6 DEF Receive, MiningInv, TypeOK
  <2> QED
    BY <1>6, <2>1, <2>2 DEF Receive, MiningInv, TypeOK, PathsAreSequences, threadVars, Proof
<1>7. CASE Propose
  <2>1. {[seed |-> p.seed, by |-> p.by] : p \in pool} \subseteq Proof
    BY DEF MiningInv, TypeOK, Proof
  <2> QED
    BY <1>7, <2>1 DEF Propose, MiningInv, TypeOK, PathsAreSequences, threadVars, Proof
<1>8. CASE ImportOwn
  <2>1. /\ PathsAreSequences' /\ best' \in known' /\ known \subseteq known' /\ pool' \subseteq pool
    BY <1>8, ImportTypes DEF ImportOwn, MiningInv, TypeOK
  <2> QED
    BY <1>8, <2>1 DEF ImportOwn, Idle, MiningInv, TypeOK, threadVars, Proof
<1>9. CASE AuthorFails
  BY <1>9 DEF AuthorFails, Idle, MiningInv, TypeOK, PathsAreSequences, threadVars, Proof
<1>10. CASE UNCHANGED vars
  BY <1>10 DEF vars, MiningInv, TypeOK, PathsAreSequences, threadVars, Proof
<1> QED
  BY <1>1, <1>2, <1>3, <1>4, <1>5, <1>6, <1>7, <1>8, <1>9, <1>10, <1>11
  DEF Next, ThreadStep, AuthorStep

\* On its own, the author is the only one to import.
LEMMA ParentStep == MiningInv /\ [Next]_vars => ParentIsBest'
<1> SUFFICES ASSUME MiningInv, [Next]_vars, Alone', author'.step # "recv"
             PROVE  author'.parent = best'
  BY DEF ParentIsBest
<1>1. Alone
  BY DEF Alone, Next, vars, PeerBlock, Revalidate, ThreadStep, ReadHash, ReadNumber,
         SubmitProof, StoreMark, Notify, GiveUp, Find, SubmitFails, AuthorStep, Receive, Propose,
         ImportOwn, AuthorFails
<1>2. CASE author' = author /\ best' = best
  BY <1>1, <1>2 DEF MiningInv, ParentIsBest
<1>3. CASE Receive \/ Propose
  BY <1>1, <1>3 DEF Receive, Propose, MiningInv, ParentIsBest, TypeOK
<1>4. CASE ImportOwn \/ AuthorFails
  BY <1>4 DEF ImportOwn, AuthorFails, Idle
<1> QED
  BY <1>1, <1>2, <1>3, <1>4
  DEF Alone, Next, vars, PeerBlock, Revalidate, ThreadStep, ReadHash, ReadNumber,
      SubmitProof, StoreMark, Notify, GiveUp, Find, SubmitFails, AuthorStep

\* The inductive step.
LEMMA StepMining == MiningInv /\ [Next]_vars => MiningInv'
BY TypeOKStep, ParentStep DEF MiningInv

\* The types of the node's parts.
THEOREM NodeTypes == Spec => []TypeOK
<1>1. MiningInv => TypeOK
  BY DEF MiningInv
<1> QED
  BY <1>1, InitMining, StepMining, PTL DEF Spec

-----------------------------------------------------------------------------
\* A thread that stores the mark is the one to remember the block it is the
\* height above; until it has, what it remembered before does not count.
LEMMA MarkStep == MiningInv /\ MarkIsRemembered /\ [Next]_vars => MarkIsRemembered'
<1> SUFFICES ASSUME MiningInv, MarkIsRemembered, [Next]_vars, last_proved_height' # 0
             PROVE  MarkIsRemembered'
  BY DEF MarkIsRemembered
<1> DEFINE Remembers(t) ==
             IF pc[t] = "notify" THEN last_proved_height = mining_height(t)
             ELSE \E b \in last_mined_hash[t] : last_proved_height = CurrentHeight(b) + 1
<1>1. ASSUME last_proved_height' = last_proved_height PROVE \E t \in Thread : Remembers(t)
  BY <1>1 DEF MarkIsRemembered
<1>2. CASE UNCHANGED <<last_proved_height, threadVars>>
  <2>1. PICK t \in Thread : Remembers(t)
    BY <1>1, <1>2
  <2>2. Remembers(t)'
    BY <1>2, <2>1 DEF threadVars, mining_height
  <2> QED
    BY <2>2 DEF MarkIsRemembered
<1>3. ASSUME NEW u \in Thread,
             ReadHash(u) \/ ReadNumber(u) \/ GiveUp(u) \/ Find(u) \/ SubmitFails(u) \/ SubmitProof(u)
      PROVE  MarkIsRemembered'
  <2>1. /\ UNCHANGED <<last_proved_height, last_mined_hash>>
        /\ pc[u] # "notify" /\ pc'[u] # "notify"
        /\ \A t \in Thread \ {u} : pc'[t] = pc[t] /\ hash'[t] = hash[t]
    BY <1>3 DEF ReadHash, ReadNumber, GiveUp, Find, SubmitFails, SubmitProof, Restart, Goto,
                MiningInv, TypeOK
  <2>2. PICK t \in Thread : Remembers(t)
    BY <1>1, <2>1
  <2>3. Remembers(t)'
    <3>1. CASE t = u
      BY <2>1, <2>2, <3>1
    <3>2. CASE t # u
      BY <2>1, <2>2, <3>2 DEF mining_height
    <3> QED
      BY <3>1, <3>2
  <2> QED
    BY <2>3 DEF MarkIsRemembered
<1>4. ASSUME NEW u \in Thread, StoreMark(u) PROVE MarkIsRemembered'
  <2>1. pc'[u] = "notify" /\ hash' = hash /\ last_proved_height' = mining_height(u)
    BY <1>4 DEF StoreMark, Goto, MiningInv, TypeOK
  <2>2. Remembers(u)'
    BY <2>1 DEF mining_height
  <2> QED
    BY <2>2 DEF MarkIsRemembered
<1>5. ASSUME NEW u \in Thread, Notify(u) PROVE MarkIsRemembered'
  <2>1. /\ last_proved_height' = last_proved_height
        /\ pc[u] = "notify" /\ pc'[u] = "idle" /\ last_mined_hash'[u] = {hash[u]}
        /\ \A t \in Thread \ {u} : /\ pc'[t] = pc[t] /\ hash'[t] = hash[t]
                                  /\ last_mined_hash'[t] = last_mined_hash[t]
    BY <1>5 DEF Notify, Restart, MiningInv, TypeOK
  <2>2. PICK t \in Thread : Remembers(t)
    BY <1>1, <2>1
  <2>3. Remembers(t)'
    <3>1. CASE t = u
      BY <2>1, <2>2, <3>1 DEF mining_height
    <3>2. CASE t # u
      BY <2>1, <2>2, <3>2 DEF mining_height
    <3> QED
      BY <3>1, <3>2
  <2> QED
    BY <2>3 DEF MarkIsRemembered
<1> QED
  BY <1>2, <1>3, <1>4, <1>5
  DEF Next, vars, PeerBlock, Revalidate, ThreadStep, AuthorStep, Receive, Propose, ImportOwn,
      AuthorFails

\* The two skips of the mining loop never disagree: whatever the threads'
\* interleaving, the mark is the height above a block that some thread
\* remembers, or will once it has notified the author.
THEOREM MarkRemembered == Spec => []MarkIsRemembered
<1>1. Init => MarkIsRemembered
  BY DEF Init, MarkIsRemembered
<1> QED
  BY <1>1, InitMining, StepMining, MarkStep, PTL DEF Spec

-----------------------------------------------------------------------------
\* What an alone node's own block carries leaves the pool.
LEMMA OwnBlockTakesBody ==
    ASSUME MiningInv, Alone, ImportOwn
    PROVE  /\ best' = Append(best, [own |-> TRUE, peerProof |-> FALSE, proofs |-> author.body])
           /\ pool' \subseteq pool
           /\ \A p \in pool' : [seed |-> p.seed, by |-> p.by] \notin author.body
<1> DEFINE x == [own |-> TRUE, peerProof |-> FALSE, proofs |-> author.body]
           block == Append(best, x)
<1>1. author.parent = best
  BY DEF MiningInv, ParentIsBest, ImportOwn
<1>2. IsSequence(best)
  BY DEF MiningInv, PathsAreSequences, TypeOK
<1>3. Len(block) = Len(best) + 1 /\ Len(best) \in Nat /\ block[Len(block)] = x
  BY <1>2, AppendProperties
<1>4. x.proofs = author.body
  OBVIOUS
<1>5. ImportBlock(block)
  BY <1>1 DEF ImportOwn
<1> HIDE DEF block, x
<1>6. Number(block) > Number(best) /\ Len(block) \in 1 .. Len(block)
  BY <1>3 DEF Number
<1>7. /\ best' = block
      /\ pool' = {p \in pool : \A i \in 1 .. Len(block) :
                                   \A q \in block[i].proofs : <<p.seed, p.by>> # <<q.seed, q.by>>}
  BY <1>5, <1>6 DEF ImportBlock
<1>8. ASSUME NEW p \in pool', [seed |-> p.seed, by |-> p.by] \in author.body PROVE FALSE
  <2>1. \A q \in author.body : <<p.seed, p.by>> # <<q.seed, q.by>>
    BY <1>3, <1>4, <1>6, <1>7
  <2> QED
    BY <1>8, <2>1
<1> QED
  BY <1>7, <1>8 DEF block, x

\* No step takes the last one to serve a proof away.
LEMMA ServedStep == MiningInv /\ PoolProofServed /\ [Next]_vars => PoolProofServed'
<1> SUFFICES ASSUME MiningInv, PoolProofServed, [Next]_vars, Alone', NEW p \in pool'
             PROVE  \/ \E t \in Thread : pc'[t] \in {"mark", "notify"}
                    \/ channel' > 0
                    \/ author'.step = "slot"
                    \/ author'.step = "import" /\ [seed |-> p.seed, by |-> p.by] \in author'.body
  BY DEF PoolProofServed, Alone
<1> USE MiningNodeAssumption
<1>0. Alone
  BY DEF Alone, Next, vars, PeerBlock, Revalidate, ThreadStep, ReadHash, ReadNumber,
         SubmitProof, StoreMark, Notify, GiveUp, Find, SubmitFails, AuthorStep, Receive, Propose,
         ImportOwn, AuthorFails
<1> DEFINE Served(q) == \/ \E t \in Thread : pc[t] \in {"mark", "notify"}
                        \/ channel > 0
                        \/ author.step = "slot"
                        \/ author.step = "import" /\ [seed |-> q.seed, by |-> q.by] \in author.body
<1>S. \A q \in pool : Served(q)
  BY <1>0 DEF PoolProofServed, Alone
<1>1. CASE UNCHANGED <<pool, pc, channel, author>>
  BY <1>1, <1>S
<1>2. CASE Revalidate
  <2>1. PICK q \in pool : pool' = {[q EXCEPT !.tag = Tag]}
    BY <1>2 DEF Revalidate
  <2>2. p.seed = q.seed /\ p.by = q.by
    BY <2>1 DEF MiningInv, TypeOK
  <2>3. pc' = pc /\ channel' = channel /\ author' = author
    BY <1>2 DEF Revalidate, threadVars
  <2> QED
    BY <1>S, <2>2, <2>3
<1>3. ASSUME NEW t \in Thread, ReadHash(t) \/ ReadNumber(t) \/ GiveUp(t) \/ Find(t)
      PROVE  Served(p)'
  <2>1. pool' = pool /\ channel' = channel /\ author' = author
    BY <1>3 DEF ReadHash, ReadNumber, GiveUp, Find
  <2>2. \A u \in Thread : pc[u] \in {"mark", "notify"} => pc'[u] = pc[u]
    BY <1>3 DEF ReadHash, ReadNumber, GiveUp, Find, Restart, Goto, MiningInv, TypeOK
  <2> QED
    BY <1>S, <2>1, <2>2
<1>4. ASSUME NEW t \in Thread, SubmitProof(t) \/ StoreMark(t)
      PROVE  \E u \in Thread : pc'[u] \in {"mark", "notify"}
  <2>1. pc'[t] \in {"mark", "notify"}
    BY <1>4 DEF SubmitProof, StoreMark, Goto, MiningInv, TypeOK
  <2> QED
    BY <2>1
<1>5. ASSUME NEW t \in Thread, Notify(t) PROVE channel' > 0
  BY <1>5 DEF Notify, MiningInv, TypeOK
<1>6. CASE Receive
  BY <1>6 DEF Receive, MiningInv, TypeOK
<1>7. CASE Propose
  BY <1>7 DEF Propose, MiningInv, TypeOK
<1>8. CASE ImportOwn
  <2>1. p \in pool /\ [seed |-> p.seed, by |-> p.by] \notin author.body
    BY <1>0, <1>8, OwnBlockTakesBody
  <2>2. pc' = pc /\ channel' = channel /\ author.step = "import"
    BY <1>8 DEF ImportOwn, threadVars
  <2> QED
    BY <1>S, <2>1, <2>2
<1> QED
  BY <1>0, <1>1, <1>2, <1>3, <1>4, <1>5, <1>6, <1>7, <1>8
  DEF Alone, Next, vars, threadVars, PeerBlock, ThreadStep, SubmitFails, AuthorStep, AuthorFails

\* block_author.rs never goes back to sleep over a proof: on a node on its own
\* every proof in the pool is on its way into a block, even when the channel
\* was full and a notification was dropped.
THEOREM PoolServed == Spec => []PoolProofServed
<1>1. Init => PoolProofServed
  BY DEF Init, PoolProofServed
<1> QED
  BY <1>1, InitMining, StepMining, ServedStep, PTL DEF Spec

-----------------------------------------------------------------------------
\* The pool holds one proof, and it is for the best block.
OneProof == \E tag : pool = {[seed |-> best, by |-> 0, tag |-> tag]}

Asleep == pc[0] = "idle" /\ last_mined_hash[0] = {best}

\* The circle a node with one thread moves in.
Working    == /\ pc[0] \notin {"mark", "notify"} /\ (pc[0] # "idle" => hash[0] = best)
              /\ pool = {} /\ channel = 0 /\ author.step = "recv"
Submitted  == /\ pc[0] = "mark" /\ hash[0] = best
              /\ OneProof /\ channel = 0 /\ author.step = "recv"
Marked     == /\ pc[0] = "notify" /\ hash[0] = best
              /\ OneProof /\ channel = 0 /\ author.step = "recv"
Notified   == Asleep /\ OneProof /\ channel = 1 /\ author.step = "recv"
Waiting    == Asleep /\ OneProof /\ channel = 0 /\ author.step = "slot"
Importing  == /\ Asleep /\ OneProof /\ channel = 0 /\ author.step = "import"
              /\ author.body = {[seed |-> best, by |-> 0]}

Phase == Working \/ Submitted \/ Marked \/ Notified \/ Waiting \/ Importing

OnlyThread == \A t \in Thread \ {0} : pc[t] = "idle"

\* Every block of the path carries a proof mined on its parent.
AllMined(path) == \A i \in 1 .. Len(path) : MinedOn(path, i)

SoloInv == Solo => Phase /\ OnlyThread /\ AllMined(best)

\* A block that carries a proof of its parent extends such a path.
LEMMA MinedExtends ==
    ASSUME NEW s, IsSequence(s), AllMined(s), NEW x, \E q \in x.proofs : q.seed = s
    PROVE  AllMined(Append(s, x))
<1> DEFINE block == Append(s, x)
<1>1. /\ Len(block) = Len(s) + 1 /\ Len(s) \in Nat
      /\ block[Len(s) + 1] = x
      /\ \A i \in 1 .. Len(s) : block[i] = s[i]
  BY AppendProperties
<1>2. \A i \in 1 .. Len(s) + 1 : SubSeq(block, 1, i - 1) = SubSeq(s, 1, i - 1)
  BY PrefixOfAppend
<1>3. SubSeq(s, 1, Len(s)) = s
  BY WholePrefix
<1> HIDE DEF block
<1> SUFFICES ASSUME NEW i \in 1 .. Len(block) PROVE MinedOn(block, i)
  BY DEF block, AllMined
<1>4. CASE i = Len(s) + 1
  <2>1. SubSeq(block, 1, i - 1) = s
    BY <1>1, <1>2, <1>3, <1>4
  <2> QED
    BY <1>1, <1>4, <2>1 DEF MinedOn
<1>5. CASE i \in 1 .. Len(s)
  BY <1>1, <1>2, <1>5 DEF MinedOn, AllMined
<1> QED
  BY <1>1, <1>4, <1>5

\* The phases follow one another: one step per action and phase.
LEMMA SoloStep == MiningInv /\ SoloInv /\ [Next]_vars => SoloInv'
<1> SUFFICES ASSUME MiningInv, SoloInv, [Next]_vars, Solo'
             PROVE  Phase' /\ OnlyThread' /\ AllMined(best)'
  BY DEF SoloInv
<1> USE MiningNodeAssumption
<1>0. Solo /\ Alone
  BY DEF Solo, Alone, Next, vars, PeerBlock, Revalidate, ThreadStep, ReadHash, ReadNumber,
         SubmitProof, StoreMark, Notify, GiveUp, Find, SubmitFails, AuthorStep, Receive, Propose,
         ImportOwn, AuthorFails
<1>1. Phase /\ OnlyThread /\ AllMined(best)
  BY <1>0 DEF SoloInv
<1>2. 0 \in Thread
  BY <1>0 DEF Solo, Thread, MiningInv, TypeOK
<1>3. ASSUME best' = best PROVE AllMined(best)'
  BY <1>1, <1>3
<1>4. CASE Revalidate
  <2>1. PICK q \in pool : pool' = {[q EXCEPT !.tag = Tag]}
    BY <1>4 DEF Revalidate
  <2>2. OneProof /\ UNCHANGED <<best, pc, hash, last_mined_hash, channel, author>>
    BY <1>1, <1>4, <2>1 DEF Revalidate, threadVars, Phase, Working, Submitted, Marked, Notified,
                            Waiting, Importing
  <2>3. OneProof'
    <3>1. PICK tag : pool = {[seed |-> best, by |-> 0, tag |-> tag]}
      BY <2>2 DEF OneProof
    <3>2. [q EXCEPT !.tag = Tag] = [seed |-> best, by |-> 0, tag |-> Tag]
      BY <2>1, <3>1
    <3> QED
      BY <2>1, <2>2, <3>2 DEF OneProof
  <2>4. Phase'
    BY <1>1, <2>2, <2>3, <2>1 DEF Phase, Working, Submitted, Marked, Notified, Waiting, Importing, Asleep
  <2> QED
    BY <1>1, <1>3, <2>2, <2>4 DEF OnlyThread
<1>5. ASSUME NEW t \in Thread, ReadHash(t) \/ ReadNumber(t) \/ SubmitProof(t) \/ StoreMark(t)
                               \/ Notify(t) \/ GiveUp(t) \/ Find(t)
      PROVE  Phase' /\ OnlyThread' /\ AllMined(best)'
  <2>1. t = 0
    BY <1>0, <1>1, <1>5 DEF OnlyThread, ReadHash, ReadNumber, SubmitProof, StoreMark, Notify, GiveUp,
                            Find, Solo, Thread
  <2>2. best' = best /\ author' = author
    BY <1>5 DEF ReadHash, ReadNumber, SubmitProof, StoreMark, Notify, GiveUp, Find
  <2>3. OnlyThread'
    BY <1>1, <1>5, <2>1 DEF OnlyThread, ReadHash, ReadNumber, SubmitProof, StoreMark, Notify, GiveUp,
                            Find, Restart, Goto, MiningInv, TypeOK
  <2>4. CASE ReadHash(0)
    <3>1. Working
      BY <1>1, <2>4 DEF ReadHash, Phase, Working, Submitted, Marked, Notified, Waiting, Importing, Asleep
    <3>2. pc'[0] = "number" /\ hash'[0] = best /\ UNCHANGED <<pool, channel, author, best>>
      BY <1>2, <2>4 DEF ReadHash, MiningInv, TypeOK
    <3> QED
      BY <1>3, <2>3, <3>1, <3>2 DEF Phase, Working
  <2>5. CASE ReadNumber(0) \/ GiveUp(0) \/ Find(0)
    <3>1. Working
      BY <1>1, <2>5 DEF ReadNumber, GiveUp, Find, Phase, Working, Submitted, Marked, Notified, Waiting,
                        Importing, Asleep
    <3>2. /\ pc'[0] = "idle" \/ (pc'[0] \in {"mine", "submit"} /\ hash'[0] = hash[0] /\ pc[0] # "idle")
          /\ UNCHANGED <<pool, channel, author, best>>
      BY <1>2, <2>5 DEF ReadNumber, GiveUp, Find, Restart, Goto, MiningInv, TypeOK
    <3> QED
      BY <1>3, <2>3, <3>1, <3>2 DEF Phase, Working
  <2>6. CASE SubmitProof(0)
    <3>1. Working
      BY <1>1, <2>6 DEF SubmitProof, Phase, Working, Submitted, Marked, Notified, Waiting, Importing, Asleep
    <3>2. /\ pc'[0] = "mark" /\ hash'[0] = best /\ channel' = 0 /\ author'.step = "recv"
          /\ pool' = {[seed |-> best, by |-> 0, tag |-> Tag]}
      BY <1>2, <2>6, <3>1 DEF SubmitProof, Goto, Working, MiningInv, TypeOK
    <3>3. OneProof'
      BY <2>2, <3>2 DEF OneProof
    <3> QED
      BY <1>3, <2>2, <2>3, <3>2, <3>3 DEF Phase, Submitted
  <2>7. CASE StoreMark(0)
    <3>1. Submitted
      BY <1>1, <2>7 DEF StoreMark, Phase, Working, Submitted, Marked, Notified, Waiting,
                        Importing, Asleep
    <3>2. /\ pc'[0] = "notify" /\ hash'[0] = best /\ channel' = 0
          /\ author'.step = "recv" /\ pool' = pool
      BY <1>2, <2>7, <3>1 DEF StoreMark, Goto, Submitted, MiningInv, TypeOK
    <3>3. OneProof'
      BY <2>2, <3>1, <3>2 DEF OneProof, Submitted
    <3> QED
      BY <1>3, <2>2, <2>3, <3>2, <3>3 DEF Phase, Marked
  <2>8. CASE Notify(0)
    <3>1. Marked
      BY <1>1, <2>8 DEF Notify, Phase, Working, Submitted, Marked, Notified, Waiting,
                        Importing, Asleep
    <3>2. /\ pc'[0] = "idle" /\ last_mined_hash'[0] = {best} /\ channel' = 1
          /\ author'.step = "recv" /\ pool' = pool
      BY <1>2, <2>8, <3>1 DEF Notify, Restart, Marked, MiningInv, TypeOK
    <3>3. OneProof'
      BY <2>2, <3>1, <3>2 DEF OneProof, Marked
    <3> QED
      BY <1>3, <2>2, <2>3, <3>2, <3>3 DEF Phase, Notified, Asleep
  <2> QED
    BY <1>5, <2>1, <2>4, <2>5, <2>6, <2>7, <2>8
<1>6. CASE Receive
  <2>1. Notified
    BY <1>1, <1>6 DEF Receive, Phase, Working, Submitted, Marked, Notified, Waiting, Importing
  <2>2. /\ author'.step = "slot" /\ channel' = 0
        /\ UNCHANGED <<best, pool, pc, last_mined_hash>>
    BY <1>6, <2>1 DEF Receive, Notified, threadVars, MiningInv, TypeOK
  <2>3. OneProof' /\ Asleep'
    BY <2>1, <2>2 DEF Notified, OneProof, Asleep
  <2> QED
    BY <1>1, <1>3, <2>2, <2>3 DEF Phase, Waiting, OnlyThread
<1>7. CASE Propose
  <2>1. Waiting
    BY <1>1, <1>7 DEF Propose, Phase, Working, Submitted, Marked, Notified, Waiting, Importing
  <2>2. /\ author'.step = "import" /\ author'.body = {[seed |-> p.seed, by |-> p.by] : p \in pool}
        /\ UNCHANGED <<best, pool, pc, last_mined_hash, channel>>
    BY <1>7 DEF Propose, threadVars, MiningInv, TypeOK
  <2>3. OneProof' /\ Asleep'
    BY <2>1, <2>2 DEF Waiting, OneProof, Asleep
  <2>4. author'.body = {[seed |-> best, by |-> 0]}
    BY <2>1, <2>2 DEF Waiting, OneProof
  <2> QED
    BY <1>1, <1>3, <2>1, <2>2, <2>3, <2>4 DEF Phase, Waiting, Importing, OnlyThread
<1>8. CASE ImportOwn
  <2> DEFINE x == [own |-> TRUE, peerProof |-> FALSE, proofs |-> author.body]
  <2>1. Importing
    BY <1>1, <1>8 DEF ImportOwn, Phase, Working, Submitted, Marked, Notified, Waiting, Importing
  <2>2. /\ best' = Append(best, x) /\ pool' \subseteq pool
        /\ \A p \in pool' : [seed |-> p.seed, by |-> p.by] \notin author.body
    BY <1>0, <1>8, OwnBlockTakesBody
  <2>3. \E q \in x.proofs : q.seed = best
    <3>1. [seed |-> best, by |-> 0] \in x.proofs /\ [seed |-> best, by |-> 0].seed = best
      BY <2>1 DEF Importing
    <3> QED
      BY <3>1
  <2>4. IsSequence(best)
    BY DEF MiningInv, PathsAreSequences, TypeOK
  <2> HIDE DEF x
  <2>5. AllMined(best)'
    BY <1>1, <2>2, <2>3, <2>4, MinedExtends
  <2>6. pool' = {}
    <3>1. \A p \in pool : [seed |-> p.seed, by |-> p.by] \in author.body
      BY <2>1 DEF Importing, OneProof
    <3> QED
      BY <2>2, <3>1
  <2>7. pc' = pc /\ channel' = channel /\ author'.step = "recv"
    BY <1>8 DEF ImportOwn, Idle, threadVars
  <2> QED
    BY <1>1, <2>1, <2>5, <2>6, <2>7 DEF Phase, Working, Importing, Asleep, OnlyThread
<1>9. CASE UNCHANGED vars
  BY <1>1, <1>3, <1>9 DEF vars, threadVars, Phase, Working, Submitted, Marked, Notified, Waiting,
                          Importing, Asleep, OneProof, OnlyThread
<1> QED
  BY <1>0, <1>4, <1>5, <1>6, <1>7, <1>8, <1>9
  DEF Alone, Next, PeerBlock, ThreadStep, SubmitFails, AuthorStep, AuthorFails

\* With one thread and no peers every block carries a proof mined on its own
\* parent, and every block but the first, in which the migration moves the
\* height, advances the height by it.
THEOREM SoloAdvances == Spec => []SoloBlocksAdvance
<1>1. Init => SoloInv
  <2> SUFFICES ASSUME Init, Solo PROVE Phase /\ OnlyThread /\ AllMined(best)
    BY DEF SoloInv
  <2>1. 0 \in Thread
    BY MiningNodeAssumption DEF Init, Solo, Thread
  <2>2. Working /\ OnlyThread
    BY <2>1 DEF Init, Working, OnlyThread, Idle
  <2>3. 1 .. Len(best) = {}
    BY DEF Init, Genesis
  <2> QED
    BY <2>2, <2>3 DEF Phase, AllMined
<1>2. SoloInv => SoloBlocksAdvance
  BY DEF SoloInv, SoloBlocksAdvance, AllMined, Accepts
<1> QED
  BY <1>1, <1>2, InitMining, StepMining, SoloStep, PTL DEF Spec
=============================================================================
