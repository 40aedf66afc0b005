--------------------------- MODULE ChainDatabase ---------------------------
(***************************************************************************)
(* How a node follows the longest fork and what it makes irreversible:     *)
(* database::push_block and everything it calls to switch forks, to apply  *)
(* and to undo blocks, to advance the last irreversible block and to write *)
(* the block log (libraries/chain/database.cpp), on top of the fork        *)
(* database and of the undo stack of chainbase; and how the node comes up  *)
(* again after it stopped at any point (database::open, database::reindex, *)
(* plugins/chain/plugin.cpp).                                              *)
(*                                                                         *)
(* Abstractions.  The header of a block is [by, kind, id]: its witness,    *)
(* how its application ends, and an id that tells siblings apart.  kind is *)
(*   "ok"    the block applies,                                            *)
(*   "bad"   apply_block throws before update_last_irreversible_block,     *)
(*   "late"  apply_block throws after it (the maintenance steps, hardfork  *)
(*           actions and the observers of an applied block follow it).     *)
(* Of the state of the chain the model keeps the head, the number of the   *)
(* last irreversible block and the last block every witness confirmed; the *)
(* set of scheduled witnesses is constant.  push_block holds the write     *)
(* lock throughout, so no other call sees the steps between "idle" and     *)
(* "idle"; they are steps of the model because the process can be killed   *)
(* at each of them.                                                        *)
(***************************************************************************)
EXTENDS ForkDatabase

CONSTANTS
    Block,          \* the blocks that exist: prefix-closed, without Nil
    Witness,        \* the scheduled witnesses
    StartVoting,    \* STEEMIT_START_MINER_VOTING_BLOCK
    MaxWitnesses,   \* STEEMIT_MAX_WITNESSES
    TransitBlock,   \* transit_block_num, 0 when transit is not enabled
    CanStop,        \* whether the node may be stopped
    RevisionEvery   \* reindex calls set_revision at multiples of this number

Header == [by : Witness, kind : {"ok", "bad", "late"}, id : Nat]

ASSUME BlockAssumption ==
    /\ Nil \notin Block
    /\ Block \subseteq Seq(Header)
    /\ \A b \in Block : \A n \in 1..Num(b) : At(b, n) \in Block
ASSUME NumbersAssumption ==
    StartVoting \in Nat /\ MaxWitnesses \in Nat \ {0} /\ TransitBlock \in Nat
    /\ RevisionEvery \in Nat \ {0} /\ CanStop \in BOOLEAN
ASSUME WitnessAssumption == IsFiniteSet(Witness) /\ Witness # {}

VARIABLES
    st,     \* the chain state: [head, lib, conf]
    undo,   \* the undo stack of chainbase: the states saved by sessions
    rev,    \* the revision of chainbase
    log,    \* the blocks in the block log
    fork,   \* the fork database
    pc,     \* what the thread that holds the write lock does next
    job     \* the arguments and locals of the _push_block that is running

vars == <<st, undo, rev, log, fork, pc, job>>

NoJob == [mode |-> "none", to |-> Nil, from |-> Nil, base |-> 0]

Genesis == [head |-> Nil, lib |-> 0, conf |-> [w \in Witness |-> 0]]

Init ==
    /\ st = Genesis
    /\ undo = << >>
    /\ rev = 0
    /\ log = << >>
    /\ fork = EmptyFork
    /\ pc = "idle"
    /\ job = NoJob

-----------------------------------------------------------------------------
(* chainbase: undo sessions                                                *)

\* The state that undo() leads to: nothing happens on an empty stack.
UndoState == IF undo = << >> THEN st ELSE Last(undo)
\* A mutated form of Undo: the revision stays.
UndoKeepsRevision ==
    /\ st' = UndoState
    /\ undo' = IF undo = << >> THEN undo ELSE Front(undo)
    /\ rev' = rev

\* undo(): restores the state saved last.
Undo ==
    /\ st' = UndoState
    /\ undo' = IF undo = << >> THEN undo ELSE Front(undo)
    /\ rev' = IF undo = << >> THEN rev ELSE rev - 1

\* A mutated form of Uncommitted: the last irreversible block can be undone.
UncommittedOneMore(u, r, lib) ==
    SubSeq(u, Max({0, Min({Len(u), lib - 1 - (r - Len(u))})}) + 1, Len(u))

\* commit(lib): the sessions up to revision lib can no longer be undone.
Uncommitted(u, r, lib) ==
    SubSeq(u, Max({0, Min({Len(u), lib - (r - Len(u))})}) + 1, Len(u))

\* start_undo_session(), the changes that lead to state s, and commit().
Session(s) ==
    /\ st' = s
    /\ rev' = rev + 1
    /\ undo' = Uncommitted(Append(undo, st), rev + 1, s.lib)

\* What undo_all() leads to.
RewoundState == IF undo = << >> THEN st ELSE undo[1]
RewoundRev == rev - Len(undo)

-----------------------------------------------------------------------------
(* apply_block                                                             *)

\* The witness at the position that nth_element puts in order.
IrreversibleOffset == ((10000 - 7500) * Cardinality(Witness)) \div 10000
ConfirmedByThreshold(conf) ==
    CHOOSE n \in {conf[w] : w \in Witness} :
        /\ Cardinality({w \in Witness : conf[w] < n}) <= IrreversibleOffset
        /\ Cardinality({w \in Witness : conf[w] <= n}) > IrreversibleOffset

\* The number update_last_irreversible_block arrives at.
NewIrreversible(lib, num, conf) ==
    LET n == ConfirmedByThreshold(conf)
    IN  IF num < StartVoting
          THEN IF num > MaxWitnesses THEN num - MaxWitnesses ELSE lib
        ELSE IF n <= lib THEN lib
        ELSE IF lib < TransitBlock /\ TransitBlock <= n THEN TransitBlock
        ELSE n

\* The state after b: update_global_dynamic_data, update_signing_witness,
\* and the first half of update_last_irreversible_block.
StateAfter(s, b) ==
    LET conf == [s.conf EXCEPT ![Last(b).by] = Num(b)]
    IN  [head |-> b, conf |-> conf, lib |-> NewIrreversible(s.lib, Num(b), conf)]

\* A mutated form of Applies: the previous block is not compared.
AppliesAnywhere(s, b) == Last(b).kind # "bad"

\* validate_block_header and the transactions accept b on top of state s.
Applies(s, b) == Previous(b) = s.head /\ Last(b).kind # "bad"

\* The block of the running job that is to be applied next.
NextBlock == IF job.mode = "extend" THEN job.to ELSE At(job.to, Num(st.head) + 1)

Target == At(job.from, job.base)    \* the block both branches start from

\* A mutated form of Fail: nobody restores the old fork.
FailLeaves(s, f, b) ==
    /\ fork' = RemoveBlocks(f, {At(job.to, n) : n \in Num(b)..Num(job.to)})
    /\ pc' = "idle" /\ job' = NoJob

\* The exception handlers of _push_block, entered with the chain state s and
\* the fork database f: a block that was to extend the head is removed; a
\* fork that was to be switched to is removed from the failed block upwards
\* and the way back begins; an exception on the way back leaves _push_block.
Fail(s, f, b) ==
    \/ /\ job.mode = "extend"
       /\ fork' = RemoveBlocks(f, {b})
       /\ pc' = "idle" /\ job' = NoJob
    \/ /\ job.mode = "switch"
       /\ fork' = SetHead(RemoveBlocks(f, {At(job.to, n) : n \in Num(b)..Num(job.to)}), job.from)
       /\ job' = [job EXCEPT !.mode = "recover", !.to = job.from]
       /\ pc' = IF s.head = Target THEN "apply" ELSE "pop"
    \/ /\ job.mode = "recover"
       /\ fork' = f
       /\ pc' = "idle" /\ job' = NoJob

\* apply_block in a new undo session, up to and including commit().
ApplyBlock ==
    /\ pc = "apply"
    /\ Applies(st, NextBlock)
    /\ Session(StateAfter(st, NextBlock))
    /\ pc' = "log"
    /\ UNCHANGED <<log, fork, job>>

\* A mutated form of ApplyThrows: the session is pushed, not undone.
ApplyThrowsKeeps ==
    /\ pc = "apply"
    /\ ~Applies(st, NextBlock)
    /\ Fail(st, fork, NextBlock)
    /\ st' = [st EXCEPT !.conf[Last(NextBlock).by] = Num(NextBlock)]
    /\ UNCHANGED <<undo, rev, log>>

\* apply_block throws before it has committed anything, and the session
\* undoes what it changed.
ApplyThrows ==
    /\ pc = "apply"
    /\ ~Applies(st, NextBlock)
    /\ Fail(st, fork, NextBlock)
    /\ UNCHANGED <<st, undo, rev, log>>

\* The block that goes to the block log next.
ToLog == MainBranchAt(fork, Len(log) + 1)

\* One turn of the loop that writes irreversible blocks to the block log.
LogBlock ==
    /\ pc = "log"
    /\ Len(log) < st.lib
    /\ ToLog # Nil
    /\ log' = Append(log, ToLog)
    /\ UNCHANGED <<st, undo, rev, fork, pc, job>>

\* "Current fork in the fork database does not contain the
\* last_irreversible_block".
LogThrows ==
    /\ pc = "log"
    /\ Len(log) < st.lib
    /\ ToLog = Nil
    /\ Undo
    /\ Fail(UndoState, fork, st.head)
    /\ UNCHANGED log

\* The fork database after update_last_irreversible_block.
Resized == SetMaxSize(fork, Num(st.head) - st.lib + 1)

\* The rest of apply_block, then session.push(); the loop over the branch
\* goes on or _push_block returns.
FinishApply ==
    /\ pc = "log"
    /\ Len(log) >= st.lib
    /\ Last(st.head).kind = "ok"
    /\ fork' = Resized
    /\ pc' = IF st.head = job.to THEN "idle" ELSE "apply"
    /\ job' = IF st.head = job.to THEN NoJob ELSE job
    /\ UNCHANGED <<st, undo, rev, log>>

\* The rest of apply_block throws and the session is undone.
FinishThrows ==
    /\ pc = "log"
    /\ Len(log) >= st.lib
    /\ Last(st.head).kind # "ok"
    /\ Undo
    /\ Fail(UndoState, Resized, st.head)
    /\ UNCHANGED log

-----------------------------------------------------------------------------
(* push_block                                                              *)

\* _push_block(b), from the push into the fork database to the decision:
\* extend the head, switch to the longer fork, or leave it.
Push(b) ==
    /\ pc = "idle"
    /\ CanPush(fork, b)
    /\ LET f == PushBlock(fork, b)
           base == ForkPoint(f.head, st.head)
       IN  /\ fork' = f
           /\ \/ /\ Previous(f.head) = st.head
                 /\ job' = [mode |-> "extend", to |-> b, from |-> st.head, base |-> Num(st.head)]
                 /\ pc' = "apply"
              \/ /\ Previous(f.head) # st.head
                 /\ Num(f.head) > Num(st.head)
                 /\ CanFetchBranches(f, f.head, st.head)
                 /\ job' = [mode |-> "switch", to |-> f.head, from |-> st.head, base |-> base]
                 /\ pc' = "pop"
              \/ /\ Previous(f.head) # st.head
                 /\ Num(f.head) > Num(st.head) => ~CanFetchBranches(f, f.head, st.head)
                 /\ UNCHANGED <<job, pc>>
    /\ UNCHANGED <<st, undo, rev, log>>

\* fetch_block_by_id finds the head of the state.
HeadIsKnown ==
    \/ st.head \in fork.index
    \/ st.head # Nil /\ Num(st.head) <= Len(log) /\ log[Num(st.head)] = st.head

\* A mutated form of PopBlockOfState: the fork database is only popped when
\* there is a session to undo.
PopBlockWithSession ==
    /\ pc = "pop"
    /\ HeadIsKnown
    /\ CanPop(fork)
    /\ fork' = IF undo = << >> THEN fork ELSE PopBlock(fork)
    /\ Undo
    /\ pc' = IF UndoState.head = Target THEN "apply" ELSE "pop"
    /\ UNCHANGED <<log, job>>

\* pop_block, until the head is the block the branches start from.
PopBlockOfState ==
    /\ pc = "pop"
    /\ HeadIsKnown
    /\ CanPop(fork)
    /\ fork' = PopBlock(fork)
    /\ Undo
    /\ pc' = IF UndoState.head = Target THEN "apply" ELSE "pop"
    /\ UNCHANGED <<log, job>>

\* pop_block throws, and so does _push_block.
PopThrows ==
    /\ pc = "pop"
    /\ ~(HeadIsKnown /\ CanPop(fork))
    /\ pc' = "idle"
    /\ job' = NoJob
    /\ UNCHANGED <<st, undo, rev, log, fork>>

-----------------------------------------------------------------------------
(* Stopping and starting the node                                          *)

\* The process is killed, or database::close() is called between two calls:
\* the shared memory and the block log stay, the fork database is lost.
Stop ==
    /\ CanStop
    /\ pc \notin {"down", "stuck"}
    /\ fork' = EmptyFork
    /\ pc' = "down"
    /\ job' = NoJob
    /\ UNCHANGED <<st, undo, rev, log>>

\* The state of the chain is in the block log.
StateInLog(s) ==
    s.head # Nil => Num(s.head) <= Len(log) /\ log[Num(s.head)] = s.head

\* database::open() and plugin_startup(), when the state that undo_all()
\* leads to is the head of the block log: the node is up.
OpenDatabase ==
    /\ pc = "down"
    /\ RewoundRev = Num(RewoundState.head)
    /\ StateInLog(RewoundState)
    /\ log # << >> => RewoundRev = Len(log)
    /\ st' = RewoundState /\ rev' = RewoundRev /\ undo' = << >>
    /\ fork' = IF st'.head = Nil THEN fork ELSE StartBlock(fork, st'.head)
    /\ pc' = "idle"
    /\ UNCHANGED <<log, job>>

\* The state is in the block log but not at its head: replay_db goes on
\* from the head of the state.
OpenAndReplay ==
    /\ pc = "down"
    /\ RewoundRev = Num(RewoundState.head)
    /\ StateInLog(RewoundState)
    /\ log # << >> /\ RewoundRev # Len(log)
    /\ st' = RewoundState /\ rev' = RewoundRev /\ undo' = << >>
    /\ pc' = "reindex"
    /\ UNCHANGED <<log, fork, job>>

\* database_revision_exception: replay_db wipes the state if the revision
\* is not below the head of the state or of the log.  Only a reindex() that
\* was cut short leaves such a revision, so the log is not empty.
RevisionMismatch ==
    /\ pc = "down"
    /\ RewoundRev # Num(RewoundState.head) /\ log # << >>
    /\ undo' = << >>
    /\ \/ /\ log # << >>
          /\ RewoundRev >= Num(RewoundState.head) \/ RewoundRev >= Len(log)
          /\ st' = Genesis /\ rev' = 0
          /\ pc' = "reindex"
       \/ /\ RewoundRev < Num(RewoundState.head) /\ RewoundRev < Len(log)
          /\ st' = RewoundState /\ rev' = RewoundRev
          /\ pc' = IF Num(st'.head) < Len(log) THEN "reindex" ELSE "stuck"
    /\ UNCHANGED <<log, fork, job>>

\* "Chain state does not match block log": the state is wiped and replayed,
\* or everything is wiped when the log is empty.
LogMismatch ==
    /\ pc = "down"
    /\ RewoundRev = Num(RewoundState.head)
    /\ ~StateInLog(RewoundState)
    /\ st' = Genesis /\ rev' = 0 /\ undo' = << >>
    /\ pc' = IF log = << >> THEN "idle" ELSE "reindex"
    /\ UNCHANGED <<log, fork, job>>

\* reindex(): apply_block of the next block of the log, without an undo
\* session; the revision is set now and then.  The block has been applied
\* once: where two or more witnesses confirm, a block that is irreversible
\* has a successor that applied.  On a block that does not follow the head
\* apply_block would throw and the process end, which is a Stop.
ReindexBlock ==
    /\ pc = "reindex"
    /\ LET b == log[Num(st.head) + 1]
       IN  /\ Previous(b) = st.head
           /\ st' = StateAfter(st, b)
           /\ fork' = SetMaxSize(fork, Num(b) - st'.lib + 1)
           /\ rev' = IF Num(b) % RevisionEvery = 0 /\ Num(b) < Len(log) THEN Num(b) ELSE rev
           /\ pc' = IF Num(b) = Len(log) THEN "reindexed" ELSE "reindex"
    /\ UNCHANGED <<undo, log, job>>

\* The end of reindex().
FinishReindex ==
    /\ pc = "reindexed"
    /\ rev' = Num(st.head)
    /\ fork' = StartBlock(fork, Last(log))
    /\ pc' = "idle"
    /\ UNCHANGED <<st, undo, log, job>>

Next ==
    \/ \E b \in Block : Push(b)
    \/ PopBlockOfState \/ PopThrows
    \/ ApplyBlock \/ ApplyThrows \/ LogBlock \/ LogThrows \/ FinishApply \/ FinishThrows
    \/ Stop \/ OpenDatabase \/ OpenAndReplay \/ RevisionMismatch \/ LogMismatch
    \/ ReindexBlock \/ FinishReindex

Spec == Init /\ [][Next]_vars

\* The steps of a call that has the write lock, and of a starting node.
Internal ==
    \/ PopBlockOfState \/ PopThrows
    \/ ApplyBlock \/ ApplyThrows \/ LogBlock \/ LogThrows \/ FinishApply \/ FinishThrows
    \/ OpenDatabase \/ OpenAndReplay \/ RevisionMismatch \/ LogMismatch
    \/ ReindexBlock \/ FinishReindex

FairSpec == Spec /\ WF_vars(Internal)

-----------------------------------------------------------------------------
(* Properties                                                              *)

Running == {"pop", "apply", "log"}     \* a push_block is under way
Up == pc \in Running \cup {"idle"}

\* The states of the chain: no number is above the head.
State == {s \in [head : Block \cup {Nil}, lib : Nat, conf : [Witness -> Nat]] :
            /\ s.lib <= Num(s.head)
            /\ \A w \in Witness : s.conf[w] <= Num(s.head)}

Fork == {f \in [index : SUBSET Block, linked : SUBSET Block, head : Block \cup {Nil},
                hlinked : BOOLEAN, size : Nat] : f.linked \subseteq f.index}

Job == [mode : {"none", "extend", "switch", "recover"}, to : Block \cup {Nil},
        from : Block \cup {Nil}, base : Nat]

TypeOK ==
    /\ st \in State
    /\ undo \in Seq(State)
    /\ rev \in Nat
    /\ log \in Seq(Block)
    /\ fork \in Fork
    /\ pc \in {"idle", "pop", "apply", "log", "down", "reindex", "reindexed", "stuck"}
    /\ job \in Job

\* The undo stack holds the states of consecutive ancestors of the head, one
\* per revision, through every switch, failed switch and restart: this is
\* what makes pop_block() and undo_all() land on a block of the same chain.
UndoChain ==
    /\ Len(undo) <= rev
    /\ Up \/ undo # << >> => rev = Num(st.head)
    /\ \A i \in 1..Len(undo) : undo[i].head = At(st.head, rev - Len(undo) + i - 1)

\* The block log is a chain and the head of the state is on it or above it,
\* even in the middle of a switch (update_last_irreversible_block takes the
\* blocks it logs from the fork database, not from the state).
LogOnChain ==
    /\ \A i \in 1..Len(log) : Num(log[i]) = i /\ (i > 1 => Previous(log[i]) = log[i - 1])
    /\ Up /\ log # << >> => IsPrefix(Last(log), st.head)

\* Only blocks that can no longer be undone are in the block log
\* (block_log.hpp: "Blocks should only be written to the log after they
\* irreverisble").
LoggedIsCommitted == Up => Len(log) <= RewoundRev

\* The state that applying the blocks from the genesis to b leads to.
Replayed(b) == FoldLeft(LAMBDA s, n : StateAfter(s, At(b, n)), Genesis, [n \in 1..Num(b) |-> n])

\* Whatever was undone, switched, replayed or cut short by a crash, the
\* state is the one that applying the chain of its head from the genesis
\* leads to, and so is every state that can still be undone to.
StateIsReplayed ==
    /\ st = Replayed(st.head)
    /\ \A i \in 1..Len(undo) : undo[i] = Replayed(undo[i].head)

\* A block that was committed as irreversible stays on the chain of a
\* running node: no push, successful or not, undoes it.
IrreversibleStays ==
    [][Up /\ Up' => IsPrefix(RewoundState.head, st'.head)]_vars

\* Every push_block returns or throws, and a node that starts comes up: the
\* loops that pop blocks end although undo() does nothing on an empty stack,
\* which they meet when a fork leaves the chain below the committed block.
CallsReturn == pc \in Running ~> pc \in {"idle", "down"}

\* A fork that leaves the chain of the last committed block.
Leaves(b) == ~IsPrefix(RewoundState.head, b) /\ ~IsPrefix(b, RewoundState.head)

\* A node that is up has switched to the longest fork it holds (push_block:
\* "Only switch forks if new_head is actually higher than head"), also after
\* failed switches and restarts.  Only a fork that leaves the chain of the
\* last committed block and has come as far as the head can keep it from
\* that: the node cannot switch to it, but it stays in the fork database.
FollowsLongest ==
    pc = "idle" /\ st.head # Nil /\ (\A b \in fork.index : Leaves(b) => Num(b) < Num(st.head)) =>
        \A b \in fork.index :
            (\A n \in 1..Num(b) : b[n].kind = "ok") => Num(b) <= Num(st.head)

\* What the comment at push_block promises (database.cpp:1299, "may fail" in
\* which case every partial change is unwound): a push ends with the block it
\* was about applied, or with the head it found.
AllOrNothing ==
    [][(pc \in Running /\ pc' = "idle") => st'.head \in {job.to, job.from}]_vars

\* How far a push is unwound: to the head it found, except for a switch that
\* began below what is committed by its end.  The way back then stops where
\* there is nothing left to undo, at the last committed block.
UnwoundOrCommitted ==
    [][(pc \in Running /\ pc' = "idle") =>
          \/ st'.head \in {job.to, job.from}
          \/ job.mode # "extend" /\ job.base < RewoundRev /\ undo' = << >>]_vars

-----------------------------------------------------------------------------
(* The inductive invariant behind UndoChain, LoggedIsCommitted and          *)
(* IrreversibleStays.                                                       *)

\* What the locals of a running _push_block mean.  While blocks are logged,
\* the last irreversible block is already committed.
JobInv ==
    /\ pc = "pop" => job.mode # "extend"
    /\ pc \in Running => job.to \in Block
    /\ pc \in Running /\ job.mode # "extend" =>
          job.from \in Block /\ job.base < Num(job.from) /\ job.base < Num(job.to)
    /\ pc = "apply" /\ job.mode # "extend" => Num(st.head) < Num(job.to)
    /\ pc = "log" => /\ st.head # Nil
                     /\ st.lib <= RewoundRev
                     /\ Num(st.head) <= Num(job.to) /\ st.head = At(job.to, Num(st.head))
                     /\ job.mode = "extend" => st.head = job.to

\* A replay runs without undo sessions, over a log that goes beyond the state.
StartInv ==
    /\ pc \in {"reindex", "reindexed", "stuck"} => undo = << >>
    /\ pc = "reindex" => Num(st.head) < Len(log)
    /\ pc = "reindexed" => log # << >> /\ Num(st.head) = Len(log)

\* The block at position i of the log has number i.
LogNumbers == \A i \in 1..Len(log) : Num(log[i]) = i

IndInv == TypeOK /\ UndoChain /\ LoggedIsCommitted /\ LogNumbers /\ JobInv /\ StartInv
=============================================================================
