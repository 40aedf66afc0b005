---------------------------- MODULE ForkDatabase ----------------------------
(***************************************************************************)
(* fork_database (libraries/chain/fork_database.cpp): the tree of recent    *)
(* blocks a node has heard of.  A block id is a hash over the id of the    *)
(* previous block, so a block is identified with its history: a block is   *)
(* the sequence of the headers from the genesis to itself, its number is   *)
(* the length of the sequence, and its previous block is the sequence      *)
(* without the last element.                                               *)
(*                                                                         *)
(* The state of the fork database is a record:                             *)
(*   index   the blocks in _index                                          *)
(*   linked  the blocks of _index whose weak pointer prev can be locked    *)
(*   head    the block of _head, Nil for a null pointer; the item that     *)
(*           _head points to may have left the index                       *)
(*   hlinked whether the prev pointer of the item of _head can be locked   *)
(*   size    _max_size                                                     *)
(* A prev pointer can be locked as long as the item it points to is in the *)
(* index; that a local variable of push_block keeps an item alive a little *)
(* longer is left out, nothing is looked up through such an item.          *)
(* _unlinked_index is left out: nothing is ever inserted into it.          *)
(***************************************************************************)
EXTENDS Integers, Sequences, FiniteSets, SequencesExt, FiniteSetsExt

Nil == << >>    \* the null block id, and the null item

Num(b) == Len(b)                        \* block_num()
Previous(b) == SubSeq(b, 1, Len(b) - 1)
At(b, n) == SubSeq(b, 1, n)             \* the block number n on the chain of b

DefaultSize == 1024     \* the initial value of _max_size

EmptyFork == [index |-> {}, linked |-> {}, head |-> Nil, hlinked |-> FALSE,
              size |-> DefaultSize]

\* The oldest number that the database caches.
OldestNum(f) == Max({0, Num(f.head) - f.size})

\* start_block on an empty database: an item without a previous one.
StartBlock(f, b) ==
    [f EXCEPT !.index = @ \cup {b}, !.head = b, !.hlinked = FALSE]

\* _push_block succeeds: the number lies in the cached range, and the
\* previous block is known unless there is none.
CanPush(f, b) ==
    f.head # Nil =>
        /\ Num(b) > OldestNum(f)
        /\ Previous(b) # Nil => Previous(b) \in f.index

\* A mutated form of PushBlock: only a block on top of the head becomes the head.
PushBlockExtendsOnly(f, b) ==
    LET top == f.head = Nil \/ Previous(b) = f.head
    IN  [f EXCEPT
           !.index = @ \cup {b},
           !.linked = IF f.head # Nil /\ Previous(b) # Nil THEN @ \cup {b} ELSE @,
           !.head = IF top THEN b ELSE @,
           !.hlinked = IF top THEN f.head # Nil ELSE @]

\* _push_block of an acceptable block.  An item whose id is already in the
\* index is not inserted, but it can still become the head.
PushBlock(f, b) ==
    LET link == f.head # Nil /\ Previous(b) # Nil
        higher == f.head = Nil \/ Num(b) > Num(f.head)
    IN  [f EXCEPT
           !.index = @ \cup {b},
           !.linked = IF link /\ b \notin f.index THEN @ \cup {b} ELSE @,
           !.head = IF higher THEN b ELSE @,
           !.hlinked = IF higher THEN link ELSE @]

\* pop_block and its assertions.
CanPop(f) == f.head # Nil /\ f.hlinked
PopBlock(f) ==
    [f EXCEPT !.head = Previous(@), !.hlinked = Previous(f.head) \in f.linked]

\* The items R leave the index and their children lose their prev pointer.
Drop(f, R) ==
    [f EXCEPT !.index = @ \ R,
              !.linked = {b \in @ \ R : Previous(b) \notin R},
              !.hlinked = @ /\ Previous(f.head) \notin R]

\* remove, for every block of R.
RemoveBlocks(f, R) == Drop(f, R)

SetHead(f, b) == [f EXCEPT !.head = b, !.hlinked = b \in f.linked]

\* set_max_size: the new size, then everything older leaves the index.
SetMaxSize(f, s) ==
    LET g == [f EXCEPT !.size = s]
    IN  IF f.head = Nil THEN g
        ELSE Drop(g, {b \in g.index : Num(b) < OldestNum(g)})

\* fetch_branch_from(first, second), first being the higher one: the number
\* of the block that the two branches have as their last previous block.
ForkPoint(first, second) ==
    Max({n \in 0..(Num(second) - 1) : At(first, n) = At(second, n)})

\* fetch_branch_from finds both blocks and can walk back to the fork point.
CanFetchBranches(f, first, second) ==
    /\ first \in f.index /\ second \in f.index
    /\ \A b \in {first, second} : \A n \in (ForkPoint(first, second) + 2)..Num(b) :
          At(b, n) \in f.linked

\* fetch_block_by_number
BlocksAt(f, n) == {b \in f.index : Num(b) = n}

\* walk_main_branch_to_num: back from the head over prev pointers; Nil when
\* the walk falls off.
WalkMainBranch(f, n) ==
    IF /\ n <= Num(f.head)
       /\ n < Num(f.head) => f.hlinked
       /\ \A k \in (n + 1)..(Num(f.head) - 1) : At(f.head, k) \in f.linked
    THEN At(f.head, n)
    ELSE Nil

\* A mutated form of MainBranchAt: any block with the number will do.
MainBranchAny(f, n) ==
    IF BlocksAt(f, n) = {} THEN Nil ELSE CHOOSE b \in BlocksAt(f, n) : TRUE

\* fetch_block_on_main_branch_by_number
MainBranchAt(f, n) ==
    CASE Cardinality(BlocksAt(f, n)) = 0 -> Nil
      [] Cardinality(BlocksAt(f, n)) = 1 -> CHOOSE b \in BlocksAt(f, n) : TRUE
      [] OTHER -> WalkMainBranch(f, n)
=============================================================================
