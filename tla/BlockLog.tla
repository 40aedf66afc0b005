------------------------------ MODULE BlockLog ------------------------------
(***************************************************************************)
(* The block log (libraries/chain/block_log.cpp): a main file of block     *)
(* records, each followed by the position at which it starts, and an index *)
(* file of positions.  Both are memory mapped, so a process that is killed *)
(* leaves in them exactly the stores it made, in program order.            *)
(*                                                                         *)
(* Abstractions.  A record and its marker are one cell of main, and cell i *)
(* starts at position i - 1.  A block is its number.  A cell whose data is *)
(* not written yet holds Hole; a marker or an index entry that is not      *)
(* written yet holds 0, the value resize() fills files with, which is also *)
(* the position of the first record.  append() is cut at every store that  *)
(* a killed process can leave behind; pc says which store comes next.      *)
(***************************************************************************)
EXTENDS Integers, Sequences

CONSTANT
    MaxCells    \* bound: records the main file may come to hold

ASSUME MaxCellsAssumption == MaxCells \in Nat

VARIABLES
    main,       \* block_mapped_file: sequence of [blk, mark]
    index,      \* index_mapped_file: sequence of positions
    pc,         \* what the process that owns the files does next
    head,       \* block_log_impl::head (0: none); -1 is the all-zero block
    acked       \* highest number whose append() returned and was not wiped

vars == <<main, index, pc, head, acked>>

Hole == 0       \* the data of a record that was never completely written
ZeroBlock == -1 \* the block that a run of zero bytes at position 0 parses as

\* The points between two stores of append(); at "idle" the log is open and
\* no call is running, at "closed" no process has it open, and at "failed"
\* open() has thrown out of plugin_startup.
Stores == {"data", "mark", "isize", "ival"}
PCs == Stores \cup {"idle", "closed", "failed"}

\* block_num(): the number of a block; zero bytes are a block that follows
\* the null id, hence number 1.
NumOf(b) == IF b = ZeroBlock THEN 1 ELSE b

\* get_last_uint64 of the main file and of the index file.
LastMark == main[Len(main)].mark
LastIndex == index[Len(index)]

\* read_block(pos) succeeds: the position lies in the file and the marker
\* behind the record names the position of the record.
Readable(pos) == pos < Len(main) /\ main[pos + 1].mark = pos

\* What read_block(pos) returns when it succeeds.  An unwritten record can
\* only pass the marker check at position 0.
BlockAt(pos) == IF main[pos + 1].blk = Hole THEN ZeroBlock ELSE main[pos + 1].blk

Init ==
    /\ main = << >>
    /\ index = << >>
    /\ pc = "closed"
    /\ head = 0
    /\ acked = 0

-----------------------------------------------------------------------------
(* append(): the check of the index size, then the stores in program order *)

\* A mutated form of AppendResize: the file is cut behind the head first.
AppendResizeCutsTail ==
    /\ pc = "idle"
    /\ Len(main) < MaxCells
    /\ Len(index) = NumOf(head)
    /\ main' = Append(SubSeq(main, 1, NumOf(head)), [blk |-> Hole, mark |-> 0])
    /\ pc' = "data"
    /\ UNCHANGED <<index, head, acked>>

\* The size check, then resize() of the main file; block_log's caller always
\* appends the block that follows the head.
AppendResize ==
    /\ pc = "idle"
    /\ Len(main) < MaxCells
    /\ Len(index) = NumOf(head)
    /\ main' = Append(main, [blk |-> Hole, mark |-> 0])
    /\ pc' = "data"
    /\ UNCHANGED <<index, head, acked>>

\* The memcpy of the packed block.
AppendData ==
    /\ pc = "data"
    /\ main' = [main EXCEPT ![Len(main)] = [blk |-> NumOf(head) + 1, mark |-> 0]]
    /\ pc' = "mark"
    /\ UNCHANGED <<index, head, acked>>

\* A mutated form of AppendMark: the marker is not stored.
AppendMarkNotStored ==
    /\ pc = "mark"
    /\ pc' = "isize"
    /\ UNCHANGED <<main, index, head, acked>>

\* The store of the position marker behind the record.
AppendMark ==
    /\ pc = "mark"
    /\ main' = [main EXCEPT ![Len(main)] = [blk |-> @.blk, mark |-> Len(main) - 1]]
    /\ pc' = "isize"
    /\ UNCHANGED <<index, head, acked>>

\* The resize() of the index file.
AppendIndexResize ==
    /\ pc = "isize"
    /\ index' = Append(index, 0)
    /\ pc' = "ival"
    /\ UNCHANGED <<main, head, acked>>

\* The store of the index entry, the head and the return.
AppendIndex ==
    /\ pc = "ival"
    /\ index' = [index EXCEPT ![Len(index)] = Len(main) - 1]
    /\ head' = NumOf(head) + 1
    /\ acked' = IF NumOf(head) + 1 > acked THEN NumOf(head) + 1 ELSE acked
    /\ pc' = "idle"
    /\ UNCHANGED main

-----------------------------------------------------------------------------
(* open(), close(), and the end of the process                             *)

\* Mutant: the scan goes one record too far.
ScanPastTheEnd == \A p \in 0..(LastMark + 1) : Readable(p)

\* construct_index(): the linear scan stores the position of every record up
\* to the one the last marker names and throws at the first whose marker is
\* wrong; the rest of the resized index stays 0.
ScanSucceeds == \A p \in 0..LastMark : Readable(p)
ScannedIndex ==
    [n \in 1..NumOf(BlockAt(LastMark)) |->
        IF n <= LastMark + 1 /\ \A p \in 0..(n - 2) : Readable(p) THEN n - 1 ELSE 0]

\* Mutant: any index is taken to be up to date.
IndexAlwaysUpToDate == Len(index) > 0

\* The check of the heads of the two files.
IndexUpToDate == Len(index) > 0 /\ LastIndex = LastMark

\* Open of a log with records: the head is the record the last marker names,
\* and an index whose last entry differs, or that is empty, is rebuilt.
OpenRecords ==
    /\ Len(main) > 0
    /\ head' = BlockAt(LastMark)
    /\ \/ /\ IndexUpToDate
          /\ index' = index
          /\ pc' = "idle"
       \/ /\ ~IndexUpToDate
          /\ index' = ScannedIndex
          /\ pc' = IF ScanSucceeds THEN "idle" ELSE "failed"
    /\ UNCHANGED <<main, acked>>

\* Open of a log without records; an index without a log is deleted.
OpenEmpty ==
    /\ main = << >>
    /\ index' = << >>
    /\ pc' = "idle"
    /\ UNCHANGED <<main, head, acked>>

Open == pc = "closed" /\ (OpenRecords \/ OpenEmpty)

\* The process is killed while construct_index() stores the positions: the
\* first k entries are written, the others still 0.
RebuildKilled ==
    /\ pc = "closed"
    /\ Len(main) > 0
    /\ ~IndexUpToDate
    /\ \E k \in 0..Len(ScannedIndex) :
          index' = [n \in 1..Len(ScannedIndex) |-> IF n <= k THEN ScannedIndex[n] ELSE 0]
    /\ UNCHANGED <<main, pc, head, acked>>

\* close(): the files stay as they are.
Close ==
    /\ pc = "idle"
    /\ pc' = "closed"
    /\ head' = 0
    /\ UNCHANGED <<main, index, acked>>

\* The process is killed, between two stores of append() or outside of it.
Crash ==
    /\ pc \in Stores \cup {"idle"}
    /\ pc' = "closed"
    /\ head' = 0
    /\ UNCHANGED <<main, index, acked>>

\* database::wipe with include_blocks deletes both files (--resync).
Wipe ==
    /\ pc \in {"closed", "failed"}
    /\ main' = << >>
    /\ index' = << >>
    /\ head' = 0
    /\ acked' = 0
    /\ pc' = "closed"

Next ==
    \/ AppendResize \/ AppendData \/ AppendMark \/ AppendIndexResize \/ AppendIndex
    \/ Open \/ RebuildKilled \/ Close \/ Crash \/ Wipe

Spec == Init /\ [][Next]_vars

-----------------------------------------------------------------------------
(* Properties                                                              *)

Cell == [blk : Nat, mark : Nat]

TypeOK ==
    /\ main \in Seq(Cell)
    /\ index \in Seq(Nat)
    /\ pc \in PCs
    /\ head \in Nat \cup {ZeroBlock}
    /\ acked \in Nat

\* Random access through the index: whenever the log is open and no append
\* is running, read_block_by_num(n) succeeds for every n up to the head and
\* returns block n, whatever crashes, rebuilt indexes and abandoned tails
\* came before (block_log::read_block_by_num).
ReadsByNumber ==
    pc = "idle" =>
        /\ Len(index) = NumOf(head)
        /\ \A n \in 1..Len(index) :
              /\ Readable(index[n])
              /\ NumOf(BlockAt(index[n])) = n

\* The inductive invariant behind ReadsByNumber, in parts.

\* Every marker is unwritten or names its own record, and a record behind a
\* written marker is complete.
MarksSound ==
    \A i \in 1..Len(main) :
        /\ main[i].mark \in {0, i - 1}
        /\ main[i].mark # 0 => main[i].blk # Hole

\* As long as the scan meets no unwritten marker, record i holds block i.
MarkedUpTo(k) == \A j \in 1..k : main[j].mark = j - 1
ScanInOrder ==
    \A i \in 1..Len(main) : MarkedUpTo(i) => NumOf(BlockAt(i - 1)) = i

\* The index entry n leads to block n among the first k records.
EntryOK(n, k) ==
    /\ index[n] < k
    /\ main[index[n] + 1].mark = index[n]
    /\ NumOf(BlockAt(index[n])) = n

\* The records that were complete when the running append() began.
Settled == IF pc \in Stores THEN Len(main) - 1 ELSE Len(main)

\* While a process has the log open, the index leads to every block up to
\* the head, and an append() in progress has got as far as pc says.
OpenState ==
    pc \in Stores \cup {"idle"} =>
        /\ Settled >= 0
        /\ Settled = 0 <=> NumOf(head) = 0
        /\ Len(index) = NumOf(head) + (IF pc = "ival" THEN 1 ELSE 0)
        /\ \A n \in 1..NumOf(head) : EntryOK(n, Settled)
        /\ MarkedUpTo(Settled) => NumOf(head) = Settled
        /\ pc = "data" => main[Len(main)] = [blk |-> Hole, mark |-> 0]
        /\ pc = "mark" => main[Len(main)] = [blk |-> NumOf(head) + 1, mark |-> 0]
        /\ pc \in {"isize", "ival"} =>
              main[Len(main)] = [blk |-> NumOf(head) + 1, mark |-> Len(main) - 1]
        /\ pc = "ival" => index[Len(index)] = 0

\* A closed log whose file heads agree has a correct index.
ClosedState ==
    pc = "closed" =>
        /\ head = 0
        /\ Len(main) > 0 /\ IndexUpToDate => \A n \in 1..Len(index) : EntryOK(n, Len(main))

IndInv == TypeOK /\ MarksSound /\ ScanInOrder /\ OpenState /\ ClosedState

\* A kill between the resize of the main file and the store of the marker
\* leaves a record behind whose marker does not name it.  The next append()
\* writes after it, and nothing but a wipe removes it.
Abandoned(i) == main[i].mark # i - 1

\* Durability, whenever the process is killed: a block whose append() returned
\* stays in the main file complete, and while no record was abandoned every
\* restart finds it (open() takes the head from the last 8 bytes).  After a
\* kill before the marker it is not found: those bytes are zero and the head
\* of the log becomes the first block.
OnFile(n) == \E i \in 1..Len(main) : ~Abandoned(i) /\ NumOf(BlockAt(i - 1)) = n
Durable ==
    /\ \A n \in 1..acked : OnFile(n)
    /\ pc = "idle" /\ NumOf(head) < acked => \E i \in 1..Len(main) : Abandoned(i)

\* block_log.hpp says that the index can be reconstructed from the main file
\* alone.  open() throws, at construct_index(), only when a record was
\* abandoned and others were appended after it: no other kill, no kill while
\* the index was written and no abandoned record at the end makes it throw.
Reconstructible ==
    pc = "failed" => \E i \in 1..(Len(main) - 1) : Abandoned(i) /\ ~Abandoned(Len(main))

\* The log that a linear scan of the main file from its start reads, up to
\* the first record that was abandoned.
Stored == {i \in 1..Len(main) : \A j \in 1..i : ~Abandoned(j) /\ main[j].blk # Hole}
Abs == INSTANCE AppendOnlyLog WITH log <- [i \in Stored |-> main[i].blk]

\* Whenever the process is killed, what a scan of the main file reads is an
\* append only log: blocks are added at its end, in order, and none is lost
\* or overwritten, not even by the appends after the head was lost.
AppendOnly == Abs!ASpec
=============================================================================
