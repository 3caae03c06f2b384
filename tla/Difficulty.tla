----------------------------- MODULE Difficulty -----------------------------
(***************************************************************************)
(* The difficulty retargeting of pallet qbc-consensus.  A higher difficulty*)
(* is easier: it is the energy below which a solution counts.              *)
(***************************************************************************)
EXTENDS Integers, Sequences

CONSTANTS
    INITIAL_DIFFICULTY,         \* value after a one-time reset
    GenesisDifficulty,          \* initial_difficulty of the genesis
    DIFFICULTY_FLOOR, DIFFICULTY_CEILING, DIFFICULTY_MEANINGFUL_MAX,
    DIFFICULTY_WINDOW,          \* blocks in the averaging window
    TARGET_BLOCK_TIME_MS,
    MIN_ADJUSTMENT_FACTOR, MAX_ADJUSTMENT_FACTOR,   \* percent
    DifficultyResetHeights

ASSUME DifficultyAssumption ==
    /\ DIFFICULTY_FLOOR \in Nat \ {0} /\ DIFFICULTY_CEILING \in Nat
    /\ INITIAL_DIFFICULTY \in DIFFICULTY_FLOOR .. DIFFICULTY_CEILING
    /\ GenesisDifficulty \in DIFFICULTY_FLOOR .. DIFFICULTY_CEILING
    /\ DIFFICULTY_MEANINGFUL_MAX \in Nat
    /\ DIFFICULTY_WINDOW \in Nat \ {0}
    /\ TARGET_BLOCK_TIME_MS \in Nat \ {0}
    /\ MIN_ADJUSTMENT_FACTOR \in 1 .. 100
    /\ MAX_ADJUSTMENT_FACTOR \in Nat /\ MAX_ADJUSTMENT_FACTOR >= 100
    /\ DifficultyResetHeights \subseteq Nat

VARIABLES
    CurrentDifficulty,
    BlockTimestamps         \* the last DIFFICULTY_WINDOW + 1 timestamps

difficultyVars == <<CurrentDifficulty, BlockTimestamps>>

DifficultyTypeOK ==
    /\ CurrentDifficulty \in DIFFICULTY_FLOOR .. DIFFICULTY_CEILING
    /\ BlockTimestamps \in Seq(Nat)
    /\ Len(BlockTimestamps) <= DIFFICULTY_WINDOW + 1

DifficultyInit ==
    /\ CurrentDifficulty = GenesisDifficulty
    /\ BlockTimestamps = <<>>

\* The bounded vector after a push that drops the oldest entry when full.
PushTimestamp(timestamp) ==
    IF Len(BlockTimestamps) <= DIFFICULTY_WINDOW
    THEN Append(BlockTimestamps, timestamp)
    ELSE Append(Tail(BlockTimestamps), timestamp)

Clamp(x, low, high) == IF x < low THEN low ELSE IF x > high THEN high ELSE x

\* Fault: the ratio upside down.
InverseRatioPercent(timestamps) ==
    LET len    == Len(timestamps)
        window == IF len < DIFFICULTY_WINDOW THEN len ELSE DIFFICULTY_WINDOW
        actual == timestamps[len] - timestamps[len - window + 1]
    IN  (100 * (window - 1) * TARGET_BLOCK_TIME_MS) \div (IF actual > 0 THEN actual ELSE 1)

\* Percentage by which the blocks of the window were slow.
RatioPercent(timestamps) ==
    LET len      == Len(timestamps)
        window   == IF len < DIFFICULTY_WINDOW THEN len ELSE DIFFICULTY_WINDOW
        oldest   == timestamps[len - window + 1]
        newest   == timestamps[len]
        actual   == IF newest >= oldest THEN newest - oldest ELSE 0
        expected == (window - 1) * TARGET_BLOCK_TIME_MS
    IN  (actual * 100) \div expected

\* The new difficulty: moved by the ratio, held once it is above the
\* meaningful maximum, within the step limits and the bounds.
Retargeted(timestamps) ==
    LET ratio   == RatioPercent(timestamps)
        held    == IF ratio > 100 /\ CurrentDifficulty > DIFFICULTY_MEANINGFUL_MAX
                   THEN 100 ELSE ratio
        percent == Clamp(held, MIN_ADJUSTMENT_FACTOR, MAX_ADJUSTMENT_FACTOR)
    IN  Clamp((CurrentDifficulty * percent) \div 100, DIFFICULTY_FLOOR, DIFFICULTY_CEILING)

\* There is something to average: two timestamps and a window above one.
CanRetarget(timestamps) == Len(timestamps) >= 2 /\ DIFFICULTY_WINDOW >= 2

adjust_difficulty(timestamp, height) ==
    /\ BlockTimestamps' = PushTimestamp(timestamp)
    /\ CurrentDifficulty' =
           IF height \in DifficultyResetHeights THEN INITIAL_DIFFICULTY
           ELSE IF CanRetarget(PushTimestamp(timestamp))
                THEN Retargeted(PushTimestamp(timestamp))
                ELSE CurrentDifficulty

=============================================================================
