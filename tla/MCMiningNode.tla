---------------------------- MODULE MCMiningNode ----------------------------
(***************************************************************************)
(* The nodes the runs start: alone with one or two threads, and with one   *)
(* thread among peers, each with and without faults.                       *)
(***************************************************************************)
EXTENDS MiningNode

Alone == [threads : {1, 2}, peers : {FALSE}, faulty : BOOLEAN]
AmongPeers == [threads : {1}, peers : {TRUE}, faulty : BOOLEAN]
SmallNodes == Alone \cup AmongPeers

\* Three blocks of one thread, two blocks that carry a proof of two threads.
SmallHeights == <<5, 4>>

TwoThreads == [threads : {2}, peers : {FALSE}, faulty : {FALSE}]
=============================================================================
