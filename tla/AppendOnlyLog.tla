--------------------------- MODULE AppendOnlyLog ---------------------------
(***************************************************************************)
(* What libraries/chain/include/golos/chain/block_log.hpp promises: "an     *)
(* external append only log of the blocks".  The log is a sequence of      *)
(* blocks, it grows at its end one block at a time, and the only other     *)
(* thing that ever happens to it is that an operator deletes it whole      *)
(* (database::wipe with include_blocks).                                   *)
(*                                                                         *)
(* A block of the log is identified by its number: only irreversible       *)
(* blocks are appended, and there is one irreversible block per number.    *)
(***************************************************************************)
EXTENDS Naturals, Sequences

VARIABLE log        \* the blocks in the log, oldest first

AInit == log = << >>

AAppend == log' = Append(log, Len(log) + 1)

AWipe == log' = << >>

ANext == AAppend \/ AWipe

ASpec == AInit /\ [][ANext]_log
=============================================================================
