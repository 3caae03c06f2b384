----------------------------- MODULE MiningNode -----------------------------
(***************************************************************************)
(* A node started with --mine: the VQE mining threads (mining/engine.rs),  *)
(* the VQE-gated block author (node/block_author.rs) and the parts of      *)
(* node/service.rs that join them: the pool the proofs are submitted to,   *)
(* the channel of notifications, and the mark last_proved_height all       *)
(* threads share.                                                          *)
(*                                                                         *)
(* A block hash commits to everything below it, so a block is its path from*)
(* genesis: the sequence of what each block on it carries.  The state a    *)
(* block leads to is abstracted to the height of qbc-utxo, which an        *)
(* accepted proof advances by one (module Consensus) and the migration of  *)
(* block 1 by HEIGHT_OFFSET (module Utxo).  The optimiser either finds a   *)
(* solution or does not.  A sleep before a retry that changes nothing is a *)
(* stutter.                                                                *)
(***************************************************************************)
EXTENDS Integers, Sequences, FiniteSets

CONSTANTS
    MaxThreads,         \* bound: mining threads a node is started with
    Configs,            \* the ways a node is started: threads, peers, faults
    CHANNEL_CAPACITY,   \* notifications the channel holds
    GENESIS_HEIGHT,     \* CurrentHeight in the genesis state of the fork
    HEIGHT_OFFSET,      \* what the migration in block 1 adds to it
    MaxHeights,         \* bound, by number of threads: nothing is mined above
    MaxPeerBlocks       \* bound: blocks that arrive from peers

ASSUME MiningNodeAssumption ==
    /\ MaxThreads \in Nat
    /\ Configs \subseteq [threads : 1 .. MaxThreads, peers : BOOLEAN, faulty : BOOLEAN]
    /\ CHANNEL_CAPACITY \in Nat \ {0}
    /\ GENESIS_HEIGHT \in Nat \ {0} /\ HEIGHT_OFFSET \in Nat
    /\ MaxHeights \in [1 .. MaxThreads -> Nat] /\ MaxPeerBlocks \in Nat

Thread == 0 .. MaxThreads - 1

VARIABLES
    node,               \* how it was started, and whether it may meet faults
    known, best,        \* the client's blocks and its best block
    pool,               \* proofs waiting in the transaction pool
    channel,            \* number of MiningProofReady notifications, whose content is only logged
    last_proved_height, \* the atomic the threads share
    last_mined_hash,    \* per thread; empty stands for H256::zero()
    pc, hash, number,   \* per thread: step, best_hash and best_number it read
    author,             \* the author's step, parent block and block body
    peerBlocks

threadVars == <<last_mined_hash, pc, hash, number>>
vars == <<node, known, best, pool, channel, last_proved_height, threadVars,
          author, peerBlocks>>

MaxHeight == MaxHeights[node.threads]

Genesis == << >>
Number(block) == Len(block)

\* One block of a path: the proofs of this node it includes, and whether it
\* includes a proof of another miner.  It carries a proof mined on its parent:
MinedOn(block, i) ==
    \/ block[i].peerProof
    \/ \E p \in block[i].proofs : p.seed = SubSeq(block, 1, i - 1)

\* The dispatch accepts a proof whose seed is that of the parent block and of
\* the next height; any other is included and fails.  A miner takes the height
\* from the state of the parent, and on_initialize of block 1 moves it before
\* the proof is dispatched.
Accepts(block, i) == MinedOn(block, i) /\ (i = 1 => HEIGHT_OFFSET = 0)

\* The height after the block: the migration, and one for every accepted proof.
CurrentHeight(block) ==
    GENESIS_HEIGHT + (IF Len(block) = 0 THEN 0 ELSE HEIGHT_OFFSET)
        + Cardinality({i \in 1 .. Len(block) : Accepts(block, i)})

Idle == [step |-> "recv", parent |-> Genesis, body |-> {}]

Init ==
    /\ node \in Configs
    /\ known = {Genesis} /\ best = Genesis
    /\ pool = {}
    /\ channel = 0
    /\ last_proved_height = 0
    /\ last_mined_hash = [t \in Thread |-> {}]
    /\ pc = [t \in Thread |-> "idle"]
    /\ hash = [t \in Thread |-> Genesis]
    /\ number = [t \in Thread |-> 0]
    /\ author = Idle
    /\ peerBlocks = 0

-----------------------------------------------------------------------------
(* The client and the pool. *)

\* Import under ForkChoiceStrategy::LongestChain: the block becomes the best
\* one when it is longer, and the pool then loses the proofs of its path.
ImportBlock(block) ==
    /\ known' = known \cup {block}
    /\ IF Number(block) > Number(best)
       THEN /\ best' = block
            /\ pool' = {p \in pool : \A i \in 1 .. Len(block) :
                                         \A q \in block[i].proofs :
                                             <<p.seed, p.by>> # <<q.seed, q.by>>}
       ELSE UNCHANGED <<best, pool>>

\* The tag validate_unsigned gives a proof of this miner: the next height.
Tag == CurrentHeight(best) + 1

\* Another miner or a plain Aura validator extends a block it knows of.  It
\* may include proofs of this node (the pool gossips them) and its own.
PeerBlock ==
    /\ node.peers /\ peerBlocks < MaxPeerBlocks
    /\ \E parent \in known, proofs \in SUBSET pool, peerProof \in BOOLEAN :
          LET block == Append(parent, [own |-> FALSE, peerProof |-> peerProof,
                                       proofs |-> {[seed |-> p.seed, by |-> p.by] : p \in proofs}])
          IN  /\ CurrentHeight(block) <= MaxHeight
              /\ block \notin known
              /\ ImportBlock(block)
    /\ peerBlocks' = peerBlocks + 1
    /\ UNCHANGED <<node, channel, last_proved_height, threadVars, author>>

\* The pool validates its proofs again at the best block.  They all get the
\* tag of the next height, so one of them stays.
Revalidate ==
    /\ \E p \in pool :
          /\ p.tag # Tag
          /\ \E q \in pool : pool' = {[q EXCEPT !.tag = Tag]}
    /\ UNCHANGED <<node, known, best, channel, last_proved_height, threadVars,
                   author, peerBlocks>>

-----------------------------------------------------------------------------
(* A mining thread: run_mining_with_notify. *)

Goto(t, step) == pc' = [pc EXCEPT ![t] = step] /\ UNCHANGED <<hash, number>>

\* The next iteration of the loop reads the head again.
Restart(t) ==
    /\ pc' = [pc EXCEPT ![t] = "idle"]
    /\ hash' = [hash EXCEPT ![t] = Genesis]
    /\ number' = [number EXCEPT ![t] = 0]

\* best_hash; a thread that already mined on it sleeps.
ReadHash(t) ==
    /\ t < node.threads /\ pc[t] = "idle"
    /\ CurrentHeight(best) < MaxHeight                              \* bound
    /\ best \notin last_mined_hash[t]
    /\ hash' = [hash EXCEPT ![t] = best]
    /\ pc' = [pc EXCEPT ![t] = "number"]
    /\ UNCHANGED <<node, known, best, pool, channel, last_proved_height,
                   last_mined_hash, number, author, peerBlocks>>

mining_height(t) == CurrentHeight(hash[t]) + 1

\* Fault: the height after the proved one counts as proved too.
ReadNumberLate(t) ==
    /\ pc[t] = "number"
    /\ IF last_proved_height + 1 >= mining_height(t)
       THEN Restart(t)
       ELSE /\ number' = [number EXCEPT ![t] = Number(best)]
            /\ pc' = [pc EXCEPT ![t] = "mine"]
            /\ UNCHANGED hash
    /\ UNCHANGED <<node, known, best, pool, channel, last_proved_height,
                   last_mined_hash, author, peerBlocks>>

\* best_number, a second read of the client.  The height already proved is
\* left alone, without remembering the block.
ReadNumber(t) ==
    /\ pc[t] = "number"
    /\ IF last_proved_height >= mining_height(t)
       THEN Restart(t)
       ELSE /\ number' = [number EXCEPT ![t] = Number(best)]
            /\ pc' = [pc EXCEPT ![t] = "mine"]
            /\ UNCHANGED hash
    /\ UNCHANGED <<node, known, best, pool, channel, last_proved_height,
                   last_mined_hash, author, peerBlocks>>

\* The attempts ended without a proof: all failed, or one failed after the
\* best number grew, or another thread proved the height in between.
GiveUp(t) ==
    /\ pc[t] = "mine"
    /\ Restart(t)
    /\ UNCHANGED <<node, known, best, pool, channel, last_proved_height,
                   last_mined_hash, author, peerBlocks>>

\* An attempt finds a solution and the second look at the mark, just before
\* submitting, still finds the height unproved.
Find(t) ==
    /\ pc[t] = "mine"
    /\ last_proved_height < mining_height(t)
    /\ Goto(t, "submit")
    /\ UNCHANGED <<node, known, best, pool, channel, last_proved_height,
                   last_mined_hash, author, peerBlocks>>

\* submit_proof: the pool validates at the block that is best now, without
\* looking at the seed.  A proof with the tag of one it holds is refused as
\* TooLowPriority, which the thread treats as success.
SubmitProof(t) ==
    /\ pc[t] = "submit"
    /\ pool' = IF \E p \in pool : p.tag = Tag THEN pool
               ELSE pool \cup {[seed |-> hash[t], by |-> t, tag |-> Tag]}
    /\ Goto(t, "mark")
    /\ UNCHANGED <<node, known, best, channel, last_proved_height,
                   last_mined_hash, author, peerBlocks>>

\* Any other refusal: the thread goes on with its attempts, unless the best
\* number grew.
SubmitFails(t) ==
    /\ node.faulty
    /\ pc[t] = "submit"
    /\ IF Number(best) > number[t] THEN Restart(t) ELSE Goto(t, "mine")
    /\ UNCHANGED <<node, known, best, pool, channel, last_proved_height,
                   last_mined_hash, author, peerBlocks>>

\* Fault: the height is computed again, at the block that is best now.
StoreHeadMark(t) ==
    /\ pc[t] = "mark"
    /\ last_proved_height' = Tag
    /\ Goto(t, "notify")
    /\ UNCHANGED <<node, known, best, pool, channel, last_mined_hash, author, peerBlocks>>

\* After the submission: a plain store of the mark.
StoreMark(t) ==
    /\ pc[t] = "mark"
    /\ last_proved_height' = mining_height(t)
    /\ Goto(t, "notify")
    /\ UNCHANGED <<node, known, best, pool, channel, last_mined_hash, author, peerBlocks>>

\* Fault: the author is not notified.
NotifyNobody(t) ==
    /\ pc[t] = "notify"
    /\ last_mined_hash' = [last_mined_hash EXCEPT ![t] = {hash[t]}]
    /\ Restart(t)
    /\ UNCHANGED <<node, known, best, pool, channel, last_proved_height, author, peerBlocks>>

\* Fault: a full channel is not noticed.
NotifyUnbounded(t) ==
    /\ pc[t] = "notify"
    /\ channel' = channel + 1
    /\ last_mined_hash' = [last_mined_hash EXCEPT ![t] = {hash[t]}]
    /\ Restart(t)
    /\ UNCHANGED <<node, known, best, pool, last_proved_height, author, peerBlocks>>

\* Then try_send, whose failure on a full channel is ignored.  The assignment
\* to last_mined_hash, a local variable of the thread, follows at once.
Notify(t) ==
    /\ pc[t] = "notify"
    /\ channel' = IF channel < CHANNEL_CAPACITY THEN channel + 1 ELSE channel
    /\ last_mined_hash' = [last_mined_hash EXCEPT ![t] = {hash[t]}]
    /\ Restart(t)
    /\ UNCHANGED <<node, known, best, pool, last_proved_height, author, peerBlocks>>

-----------------------------------------------------------------------------
(* The block author: run_vqe_block_author. *)

\* Fault: the notification stays in the channel.
ReceiveAgain ==
    /\ author.step = "recv"
    /\ channel > 0
    /\ Number(best) < MaxHeight + MaxThreads
    /\ author' = [author EXCEPT !.step = "slot", !.parent = best]
    /\ UNCHANGED <<node, known, best, pool, channel, last_proved_height, threadVars, peerBlocks>>

\* recv, then the best block is read as the parent.
Receive ==
    /\ author.step = "recv"
    /\ channel > 0
    /\ channel' = channel - 1
    /\ author' = [author EXCEPT !.step = "slot", !.parent = best]
    /\ UNCHANGED <<node, known, best, pool, last_proved_height, threadVars, peerBlocks>>

\* After the wait for a slot it owns, the author proposes a block on that
\* parent with everything the pool holds.
Propose ==
    /\ author.step = "slot"
    /\ author' = [author EXCEPT !.step = "import",
                      !.body = {[seed |-> p.seed, by |-> p.by] : p \in pool}]
    /\ UNCHANGED <<node, known, best, pool, channel, last_proved_height, threadVars, peerBlocks>>

ImportOwn ==
    /\ author.step = "import"
    /\ ImportBlock(Append(author.parent,
                          [own |-> TRUE, peerProof |-> FALSE, proofs |-> author.body]))
    /\ author' = Idle
    /\ UNCHANGED <<node, channel, last_proved_height, threadVars, peerBlocks>>

\* Every error path of the loop (no header, no authorities, no slot claimed,
\* no inherents, no proposer, no proposal, no seal, import refused) goes
\* back to recv: the notification is used up.
AuthorFails ==
    /\ node.faulty
    /\ author.step \in {"slot", "import"}
    /\ author' = Idle
    /\ UNCHANGED <<node, known, best, pool, channel, last_proved_height, threadVars, peerBlocks>>

-----------------------------------------------------------------------------
ThreadStep(t) ==
    ReadHash(t) \/ ReadNumber(t) \/ SubmitProof(t) \/ StoreMark(t) \/ Notify(t)

AuthorStep == Receive \/ Propose \/ ImportOwn

Next ==
    \/ PeerBlock
    \/ Revalidate
    \/ \E t \in Thread : \/ ThreadStep(t) \/ GiveUp(t) \/ Find(t) \/ SubmitFails(t)
    \/ AuthorStep
    \/ AuthorFails

\* The threads and the author are essential tasks the runtime keeps running.
\* An optimiser that is restarted with fresh random parameters finds a
\* solution sooner or later: strong fairness, since the attempts are
\* interrupted.  Nothing is assumed of peers, of the pool's revalidation or
\* of faults.
Fairness ==
    /\ \A t \in Thread : WF_vars(ThreadStep(t)) /\ SF_vars(Find(t))
    /\ WF_vars(AuthorStep)

Spec == Init /\ [][Next]_vars /\ Fairness

-----------------------------------------------------------------------------
Proof == [seed : known, by : Thread]

TypeOK ==
    /\ node \in Configs
    /\ best \in known
    /\ pool \subseteq [seed : known, by : Thread, tag : Nat]
    /\ channel \in 0 .. CHANNEL_CAPACITY
    /\ last_proved_height \in Nat
    /\ last_mined_hash \in [Thread -> SUBSET known]
    /\ pc \in [Thread -> {"idle", "number", "mine", "submit", "mark", "notify"}]
    /\ hash \in [Thread -> known]
    /\ number \in [Thread -> Nat]
    /\ author \in [step : {"recv", "slot", "import"}, parent : known, body : SUBSET Proof]

\* The mark is the height some thread proved last, on the block that thread
\* remembers, or is about to remember once it has notified the author.  Hence,
\* although the store is plain and a late thread can move the mark backwards,
\* the threads are never all asleep on a head whose next height is not marked
\* as proved (engine.rs: the two skips of the loop never disagree).
MarkIsRemembered ==
    last_proved_height # 0 =>
        \E t \in Thread :
            IF pc[t] = "notify" THEN last_proved_height = mining_height(t)
            ELSE \E b \in last_mined_hash[t] : last_proved_height = CurrentHeight(b) + 1

\* A proof in the pool of a node on its own is on its way into a block: a
\* thread is about to notify, a notification waits, or the author has still
\* to take the pool or holds the proof (block_author.rs relies on it: it
\* looks at the pool only when notified, and a full channel drops).
PoolProofServed ==
    ~ node.peers /\ ~ node.faulty =>
        \A p \in pool :
            \/ \E t \in Thread : pc[t] \in {"mark", "notify"}
            \/ channel > 0
            \/ author.step = "slot"
            \/ author.step = "import" /\ [seed |-> p.seed, by |-> p.by] \in author.body

Solo == node.threads = 1 /\ ~ node.peers /\ ~ node.faulty

\* With one thread and no peers no block is empty: every block the author
\* makes carries a proof mined on its own parent (service.rs: blocks are only
\* produced when a solution is found), and every block but the first advances
\* the height by it.  The proof in the first is for the height before the
\* migration and is refused.
SoloBlocksAdvance ==
    Solo => \A i \in 1 .. Len(best) : MinedOn(best, i) /\ (i > 1 => Accepts(best, i))

\* Every proof of a node on its own leaves the pool again, in a block.
PoolEmpties == ~ node.peers /\ ~ node.faulty => (pool # {} ~> pool = {})

\* A node that is not stuck goes on: when the height of the head reaches the
\* mark, whether by its own blocks or by those of its peers, a thread will
\* find a proof for the next height.
MiningResumes ==
    ~ node.faulty =>
        ((CurrentHeight(best) >= last_proved_height)
             ~> (last_proved_height > CurrentHeight(best) \/ CurrentHeight(best) >= MaxHeight))

\* A single thread without peers mines block after block.
SoloMines == Solo => <>(CurrentHeight(best) = MaxHeight)

\* engine.rs on why a thread that skips a proved height does not remember the
\* block: so that it cannot get stuck, because the proof will be included and
\* the height will advance.  For every number of threads:
HeightAdvances ==
    ~ node.peers /\ ~ node.faulty => <>(CurrentHeight(best) = MaxHeight)
=============================================================================
