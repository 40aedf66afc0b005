------------------------ MODULE PendingTransactions ------------------------
(***************************************************************************)
(* The pending transactions of a node and how they survive the blocks that *)
(* are pushed, popped and generated (libraries/chain/database.cpp,         *)
(* db_with.hpp), with the thread of the network, which pushes blocks and   *)
(* transactions, and the thread of the witness plugin, which generates     *)
(* blocks and clears the pending transactions when that fails              *)
(* (plugins/witness/witness.cpp).                                          *)
(*                                                                         *)
(* A block is the sequence of headers from the genesis to itself, as in    *)
(* ForkDatabase; a header is [time, txs, id].  Of the state of the chain   *)
(* the model keeps the head, the index of known transactions (which the    *)
(* duplicate check and is_known_transaction read) and the transactions     *)
(* that took effect; undo is the stack of the states that chainbase can    *)
(* go back to.  Irreversible blocks, the bounds of the fork database and   *)
(* crashes are left to ChainDatabase: here no undo session is ever         *)
(* committed, and nothing is persistent.                                   *)
(*                                                                         *)
(* push_block holds the write lock from its start to the end of the        *)
(* restorer, so its steps exclude every other locked call, but not the     *)
(* steps that the witness thread takes without a lock.  That thread can    *)
(* therefore see the head in the middle of a fork switch.                  *)
(***************************************************************************)
EXTENDS ForkDatabase

CONSTANTS
    Tx,             \* the transactions
    Expiration,     \* [Tx -> Nat]
    Ref,            \* [Tx -> a block]: what ref_block_num and -prefix refer to
    Needs,          \* [Tx -> SUBSET Tx]: must have taken effect before
    Excludes,       \* [Tx -> SUBSET Tx]: must not have taken effect
    Size,           \* [Tx -> Nat]: the packed size
    MaxUntil,       \* STEEMIT_MAX_TIME_UNTIL_EXPIRATION
    MaxSize,        \* maximum_block_size
    HeaderRoom,     \* what _generate_block reserves for the header
    HeaderSize,     \* what the header of a block of this node takes
    HardFork9,      \* whether hardfork 9 has been applied
    Root,           \* the head when the node was opened, irreversible
    Foreign,        \* the blocks of other nodes, on top of Root
    Slots           \* the times at which this node's witness is scheduled

\* What a block adds to the blocks before it.
Header == [time : Nat, txs : Seq(Tx), id : Nat]

ASSUME TxAssumption ==
    /\ Expiration \in [Tx -> Nat] /\ Size \in [Tx -> Nat]
    /\ Needs \in [Tx -> SUBSET Tx] /\ Excludes \in [Tx -> SUBSET Tx]
    /\ Ref \in [Tx -> Foreign \cup {Root}]
    /\ {MaxUntil, MaxSize, HeaderRoom, HeaderSize} \subseteq Nat /\ HardFork9 \in BOOLEAN
ASSUME ForeignAssumption ==
    /\ {Root} \cup Foreign \subseteq Seq(Header) /\ Slots \subseteq Nat
    /\ Num(Root) = 1 /\ Root[1].txs = << >>
    /\ \A b \in Foreign : At(b, 1) = Root /\ \A n \in 2..Num(b) : At(b, n) \in Foreign

VARIABLES
    st,         \* the state: [head, known, done]
    undo,       \* the states that undo sessions saved
    fork,       \* the fork database
    pending,    \* _pending_tx
    session,    \* whether _pending_tx_session is valid (the last of undo is its own)
    popped,     \* _popped_tx
    held,       \* _pending_transactions of the restorer of a running push_block
    pc,         \* where the call that holds the write lock stands
    job,        \* the locals of the running _push_block
    gen         \* where the witness thread stands, and the block it makes

chainVars == <<st, undo, fork>>
poolVars == <<pending, session, popped, held>>
vars == <<st, undo, fork, pending, session, popped, held, pc, job, gen>>

Time(b) == Last(b).time
NoJob == [mode |-> "none", to |-> Nil, from |-> Nil, base |-> 0, by |-> "network", threw |-> FALSE]

Init ==
    /\ st = [head |-> Root, known |-> {}, done |-> {}]
    /\ undo = << >>
    /\ fork = StartBlock(EmptyFork, Root)
    /\ pending = << >> /\ session = FALSE
    /\ popped = << >> /\ held = << >>
    /\ pc = "free" /\ job = NoJob
    /\ gen = [at |-> "idle", when |-> 0, txs |-> << >>, on |-> Nil, prev |-> Nil, retry |-> 0]

-----------------------------------------------------------------------------
(* Transactions                                                            *)

\* The checks of _validate_transaction on time and TaPoS.
Valid(s, t, producing) ==
    /\ IsPrefix(Ref[t], s.head)
    /\ Expiration[t] <= Time(s.head) + MaxUntil
    /\ IF producing \/ HardFork9 THEN Time(s.head) < Expiration[t]
                                 ELSE Time(s.head) <= Expiration[t]

\* The evaluators accept the operations of t.
Evaluates(s, t) == Needs[t] \subseteq s.done /\ Excludes[t] \cap s.done = {}

\* _apply_transaction succeeds.
CanApply(s, t, producing) ==
    t \notin s.known /\ Valid(s, t, producing) /\ Evaluates(s, t)

ApplyTransaction(s, t) == [s EXCEPT !.known = @ \cup {t}, !.done = @ \cup {t}]

\* _push_transaction for every transaction of ts that is not known, with the
\* exceptions swallowed: the state, what was accepted, and whether a
\* session was started.
PushAll(s, ts) ==
    FoldLeft(LAMBDA r, t :
        IF t \in r.s.known THEN r
        ELSE IF ~CanApply(r.s, t, FALSE) THEN [r EXCEPT !.started = TRUE]
        ELSE [s |-> ApplyTransaction(r.s, t), txs |-> Append(r.txs, t), started |-> TRUE],
        [s |-> s, txs |-> << >>, started |-> FALSE], ts)

\* The state that _pending_tx_session goes back to when it is reset.
Clean == IF session THEN Last(undo) ELSE st
CleanUndo == IF session THEN Front(undo) ELSE undo

-----------------------------------------------------------------------------
(* Blocks                                                                  *)

SumSize(ts) == FoldLeft(LAMBDA n, t : n + Size[t], 0, ts)

\* The size check of _validate_block; the blocks of others are small enough.
Fits(b) == b \in Foreign \/ HeaderSize + SumSize(Last(b).txs) <= MaxSize

\* apply_transaction for all transactions of a block: they all apply or the
\* block does not.
ApplyAll(s, ts) ==
    FoldLeft(LAMBDA r, t : [ok |-> r.ok /\ CanApply(r.s, t, FALSE), s |-> ApplyTransaction(r.s, t)],
             [ok |-> TRUE, s |-> s], ts)

\* apply_block succeeds on b.
Applies(s, b) ==
    /\ Previous(b) = s.head
    /\ Time(s.head) < Time(b)
    /\ Fits(b)
    /\ ApplyAll(s, Last(b).txs).ok

\* A mutated form of Unexpired: a transaction that expires now is forgotten.
UnexpiredEarly(known, time) == {t \in known : time < Expiration[t]}

\* clear_expired_transactions
Unexpired(known, time) == {t \in known : time <= Expiration[t]}

StateAfter(s, b) ==
    LET r == ApplyAll(s, Last(b).txs).s
    IN  [head |-> b, known |-> Unexpired(r.known, Time(b)), done |-> r.done]

-----------------------------------------------------------------------------
(* push_block                                                              *)

\* push_block(b) takes the write lock; the restorer takes the pending
\* transactions; then _push_block up to its decision.
BeginPush(b, by) ==
    LET f == IF CanPush(fork, b) THEN PushBlock(fork, b) ELSE fork
        head == Clean.head
        Goto(where, mode, to, base, threw) ==
            /\ pc' = where
            /\ job' = [mode |-> mode, to |-> to, from |-> head, base |-> base, by |-> by, threw |-> threw]
    IN  /\ pc = "free"
        /\ held' = pending /\ pending' = << >>
        /\ st' = Clean /\ undo' = CleanUndo /\ session' = FALSE
        /\ fork' = f
        /\ \/ ~CanPush(fork, b) /\ Goto("restore", "none", Nil, 0, TRUE)
           \/ /\ CanPush(fork, b) /\ Previous(f.head) = head
              /\ Goto("apply", "extend", b, 0, FALSE)
           \/ /\ CanPush(fork, b) /\ Previous(f.head) # head
              /\ IF Num(f.head) > Num(head)
                 THEN IF CanFetchBranches(f, f.head, head)
                      THEN Goto("pop", "switch", f.head, ForkPoint(f.head, head), FALSE)
                      ELSE Goto("restore", "none", Nil, 0, TRUE)
                 ELSE Goto("restore", "none", Nil, 0, FALSE)
        /\ UNCHANGED popped

\* The state that undo() leads to: nothing happens on an empty stack.
UndoState == IF undo = << >> THEN st ELSE Last(undo)

\* A mutated form of PopBlockOfState: later blocks go last.
PopBlockReversed ==
    /\ pc = "pop"
    /\ CanPop(fork)
    /\ fork' = PopBlock(fork)
    /\ st' = Last(undo) /\ undo' = Front(undo)
    /\ popped' = popped \o Last(st.head).txs
    /\ pc' = IF st'.head = At(job.from, job.base) THEN "apply" ELSE "pop"
    /\ UNCHANGED <<job, pending, session, held, gen>>

\* pop_block: the transactions of the block go in front of those popped before.
PopBlockOfState ==
    /\ pc = "pop"
    /\ IF CanPop(fork)
       THEN /\ fork' = PopBlock(fork)
            /\ st' = UndoState /\ undo' = IF undo = << >> THEN undo ELSE Front(undo)
            /\ popped' = Last(st.head).txs \o popped
            /\ pc' = IF st'.head = At(job.from, job.base) THEN "apply" ELSE "pop"
            /\ UNCHANGED job
       ELSE /\ pc' = "restore" /\ job' = [job EXCEPT !.threw = TRUE]
            /\ UNCHANGED <<chainVars, popped>>
    /\ UNCHANGED <<pending, session, held, gen>>

NextBlock == IF job.mode = "extend" THEN job.to ELSE At(job.to, Num(st.head) + 1)

ApplyBlock ==
    /\ pc = "apply"
    /\ Applies(st, NextBlock)
    /\ st' = StateAfter(st, NextBlock) /\ undo' = Append(undo, st)
    /\ pc' = IF NextBlock = job.to THEN "restore" ELSE "apply"
    /\ UNCHANGED <<fork, poolVars, job, gen>>

\* The exception handlers of _push_block.
ApplyThrows ==
    /\ pc = "apply"
    /\ ~Applies(st, NextBlock)
    /\ IF job.mode = "switch"
       THEN /\ fork' = SetHead(RemoveBlocks(fork,
                          {At(job.to, n) : n \in Num(NextBlock)..Num(job.to)}), job.from)
            /\ pc' = IF st.head = At(job.from, job.base) THEN "apply" ELSE "pop"
            /\ job' = [job EXCEPT !.mode = "recover", !.to = job.from, !.threw = TRUE]
       ELSE /\ fork' = IF job.mode = "extend" THEN RemoveBlocks(fork, {NextBlock}) ELSE fork
            /\ pc' = "restore"
            /\ job' = [job EXCEPT !.threw = TRUE]
    /\ UNCHANGED <<st, undo, poolVars, gen>>

\* The destructor of the restorer: first what was popped, then what was
\* pending.  The write lock is released and push_block returns or throws.
Restore ==
    LET r == PushAll(st, popped \o held)
    IN  /\ pc = "restore"
        /\ pending' = r.txs /\ session' = r.started /\ st' = r.s
        /\ undo' = IF r.started THEN Append(undo, st) ELSE undo
        /\ popped' = << >> /\ held' = << >>
        /\ pc' = "free" /\ job' = NoJob
        /\ gen' = IF job.by = "network" THEN gen
                  ELSE [gen EXCEPT !.at = IF job.threw THEN "failed" ELSE "idle"]
        /\ UNCHANGED fork

-----------------------------------------------------------------------------
(* The network thread                                                      *)

ReceiveBlock(b) == BeginPush(b, "network") /\ UNCHANGED gen

\* A mutated form of PushTransaction: queued before it is applied.
PushTransactionEarly(t) ==
    LET ok == CanApply(st, t, TRUE)
    IN  /\ pc = "free"
        /\ session' = TRUE
        /\ undo' = IF session THEN undo ELSE Append(undo, st)
        /\ st' = IF ok THEN ApplyTransaction(st, t) ELSE st
        /\ pending' = IF t \in Range(pending) THEN pending ELSE Append(pending, t)
        /\ UNCHANGED <<fork, popped, held, pc, job, gen>>

\* push_transaction(t); a session is started even if t is rejected.
PushTransaction(t) ==
    LET ok == CanApply(st, t, TRUE)
    IN  /\ pc = "free"
        /\ session' = TRUE
        /\ undo' = IF session THEN undo ELSE Append(undo, st)
        /\ st' = IF ok THEN ApplyTransaction(st, t) ELSE st
        /\ pending' = IF ok THEN Append(pending, t) ELSE pending
        /\ UNCHANGED <<fork, popped, held, pc, job, gen>>

-----------------------------------------------------------------------------
(* The witness thread                                                      *)

\* maybe_produce_block: a slot of this witness has come that the head does
\* not yet cover.  The clock never goes back.
SlotComes(when) ==
    /\ gen.at = "idle" /\ when > gen.when /\ when > Time(st.head)
    /\ gen' = [gen EXCEPT !.at = "due", !.when = when, !.retry = 0]
    /\ UNCHANGED <<chainVars, poolVars, pc, job>>

\* The assertion at the start of _generate_block, "slot_num > 0", reads the
\* head without a lock.
GenerateCheck ==
    /\ gen.at = "due"
    /\ gen' = [gen EXCEPT !.at = IF gen.when > Time(st.head) THEN "checked" ELSE "failed",
                          !.on = st.head]
    /\ UNCHANGED <<chainVars, poolVars, pc, job>>

\* A mutated form of Selected: the size of the block is not added up.
SelectedNoSum(s) ==
    FoldLeft(LAMBDA r, t :
        IF Expiration[t] < gen.when \/ HeaderRoom + Size[t] >= MaxSize \/ ~CanApply(r.s, t, FALSE)
        THEN r
        ELSE [s |-> ApplyTransaction(r.s, t), txs |-> Append(r.txs, t), size |-> HeaderRoom],
        [s |-> s, txs |-> << >>, size |-> HeaderRoom], pending)

\* What _generate_block takes from the pending transactions.
Selected(s) ==
    FoldLeft(LAMBDA r, t :
        IF \/ Expiration[t] < gen.when
           \/ r.size + Size[t] >= MaxSize
           \/ ~CanApply(r.s, t, FALSE)
        THEN r
        ELSE [s |-> ApplyTransaction(r.s, t), txs |-> Append(r.txs, t), size |-> r.size + Size[t]],
        [s |-> s, txs |-> << >>, size |-> HeaderRoom], pending)

\* _generate_block up to the end of its locked part: the session is gone,
\* the pending transactions stay.
GenerateSelect ==
    /\ gen.at = "checked" /\ pc = "free"
    /\ st' = Clean /\ undo' = CleanUndo /\ session' = FALSE
    /\ gen' = [gen EXCEPT !.at = "selected", !.txs = Selected(Clean).txs]
    /\ UNCHANGED <<fork, pending, popped, held, pc, job>>

\* pending_block.previous = head_block_id(), without a lock.
GenerateSign ==
    /\ gen.at = "selected"
    /\ gen' = [gen EXCEPT !.at = "signed", !.prev = st.head]
    /\ UNCHANGED <<chainVars, poolVars, pc, job>>

GeneratedBlock == Append(gen.prev, [time |-> gen.when, txs |-> gen.txs, id |-> 0])

GeneratePush ==
    /\ gen.at = "signed"
    /\ BeginPush(GeneratedBlock, "witness")
    /\ gen' = [gen EXCEPT !.at = "pushing"]

\* "Clearing pending transactions and attempting again": clear_pending()
\* without a lock, then a second and last attempt.
ClearPending ==
    /\ gen.at = "failed"
    /\ pending' = << >> /\ session' = FALSE
    /\ st' = Clean /\ undo' = CleanUndo
    /\ gen' = [gen EXCEPT !.at = IF gen.retry = 0 THEN "due" ELSE "idle", !.retry = 1,
                          !.txs = << >>, !.on = Nil, !.prev = Nil]
    /\ UNCHANGED <<fork, popped, held, pc, job>>

Next ==
    \/ \E b \in Foreign : ReceiveBlock(b)
    \/ \E t \in Tx : PushTransaction(t)
    \/ PopBlockOfState \/ ApplyBlock \/ ApplyThrows \/ Restore
    \/ \E when \in Slots : SlotComes(when)
    \/ GenerateCheck \/ GenerateSelect \/ GenerateSign \/ GeneratePush \/ ClearPending

Spec == Init /\ [][Next]_vars

-----------------------------------------------------------------------------
(* Properties                                                              *)

State == [head : Seq(Header), known : SUBSET Tx, done : SUBSET Tx]

Fork == [index : SUBSET Seq(Header), linked : SUBSET Seq(Header), head : Seq(Header),
         hlinked : BOOLEAN, size : Nat]
Job == [mode : {"none", "extend", "switch", "recover"}, to : Seq(Header), from : Seq(Header),
        base : Nat, by : {"network", "witness"}, threw : BOOLEAN]
Gen == [at : {"idle", "due", "checked", "selected", "signed", "pushing", "failed"}, when : Nat,
        txs : Seq(Tx), on : Seq(Header), prev : Seq(Header), retry : {0, 1}]

TypeOK ==
    /\ st \in State
    /\ undo \in Seq(State)
    /\ fork \in Fork
    /\ session \in BOOLEAN /\ (session => undo # << >>)
    /\ pending \in Seq(Tx) /\ popped \in Seq(Tx) /\ held \in Seq(Tx)
    /\ pc \in {"free", "pop", "apply", "restore"}
    /\ job \in Job
    /\ gen \in Gen

\* The transactions on the chain of b, in order.
OnChain(b) == FoldLeft(LAMBDA ts, h : ts \o h.txs, << >>, b)

\* No transaction is on the chain twice: a transaction is forgotten by the
\* duplicate check only when it can no longer be applied on any fork.
NoReplay == \A i, j \in 1..Len(OnChain(st.head)) :
    i # j => OnChain(st.head)[i] # OnChain(st.head)[j]

\* _pending_tx_session is the result of applying _pending_tx, except in the
\* window of _generate_block between its lock and push_block (the comment
\* there: "We have temporarily broken the invariant ...").
PendingIsApplied ==
    pc = "free" /\ gen.at \notin {"selected", "signed"} =>
        /\ PushAll(Clean, pending).s = st
        /\ PushAll(Clean, pending).txs = pending

\* A push_block, successful or not, loses no transaction that was pending, on
\* the chain it left, or on the good part of a fork it had to leave again:
\* each is on the new chain, pending, or not applicable there.
NothingLost ==
    [][Restore => \A t \in Range(popped) \cup Range(held) \cup Range(OnChain(job.from)) :
          \/ t \in Range(pending') \/ t \in Range(OnChain(st'.head))
          \/ ~(Valid(st', t, FALSE) /\ Evaluates(st', t))]_vars

\* Why a generated block may be too big: only an empty header and four bytes
\* are reserved for its own header, so the block is at most as much over the
\* limit as that header, with the witness and the extensions, is longer.
HeaderTooLong(ts) ==
    /\ HeaderSize + SumSize(ts) > MaxSize
    /\ HeaderRoom + SumSize(ts) < MaxSize

\* A block that the node generates applies, unless the head changed after its
\* slot was checked, the head has been lost from the fork database, or the
\* header is longer than what was reserved for it.  No transaction of its own
\* makes it fail: "postpone transaction if it would make block too big" adds
\* up what is selected, and the selection applied it in the same state.
GeneratedApplies ==
    [][gen.at = "pushing" /\ gen'.at = "failed" =>
          \/ gen.on # gen.prev \/ gen.prev # job.from \/ job.from \notin fork.index
          \/ HeaderTooLong(gen.txs)]_vars

-----------------------------------------------------------------------------
(* The inductive invariant behind NoReplay and PendingIsApplied            *)

\* The duplicate check of a state covers the chain of its head: a transaction
\* on it is known or has expired.
Covered(s) ==
    /\ s.head # << >>
    /\ \A i, j \in 1..Len(OnChain(s.head)) :
          i # j => OnChain(s.head)[i] # OnChain(s.head)[j]
    /\ \A i \in 1..Len(OnChain(s.head)) :
          \/ OnChain(s.head)[i] \in s.known
          \/ Expiration[OnChain(s.head)[i]] < Time(s.head)

\* It does so in the state and in every state that can be undone to.
AllCovered == Covered(st) /\ \A i \in 1..Len(undo) : Covered(undo[i])

\* The locals of a _push_block that switches forks, and the session that it
\* has closed.
JobInv ==
    /\ pc # "free" => ~session
    /\ pc = "pop" => job.mode # "extend"
    /\ pc \in {"pop", "apply"} /\ job.mode # "extend" =>
          job.base < Num(job.from) /\ job.base < Num(job.to)
    /\ pc = "apply" /\ job.mode # "extend" => Num(st.head) < Num(job.to)

IndInv == TypeOK /\ AllCovered /\ JobInv /\ PendingIsApplied
=============================================================================
