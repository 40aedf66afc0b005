------------------------------ MODULE PeerSync ------------------------------
(***************************************************************************)
(* How a node gets blocks from its peers: libraries/network/node.cpp, with *)
(* the delegate of plugins/p2p.  A node asks a peer for the ids that follow *)
(* a synopsis of its own chain, asks for the blocks behind the ids (the    *)
(* sync mechanism) or for single blocks that peers advertise (the normal   *)
(* operation), and hands them to the chain on another thread.              *)
(*                                                                         *)
(* All fibers of node_impl run on one thread and give up control only when *)
(* they wait, so an action is the code between two waits: the handler of a *)
(* message, one round of a loop, or the rest of a handler after the chain  *)
(* answered.  The wait for handle_block is modelled; those for the read    *)
(* only calls (has_item, get_blockchain_synopsis, get_block_time) are not, *)
(* the calls are atomic with their handler.                                *)
(*                                                                         *)
(* A peer runs the same code.  Its answer is computed when it arrives:     *)
(* what the peer does in between it tells only later on the same           *)
(* connection.  So the wire holds the requests that wait for an answer and *)
(* the messages of the peer, in their order.  A block is the sequence of   *)
(* the ids up to itself (ForkDatabase); the two hashes of a block, that of *)
(* the block and that of its message, are told apart by the set they are   *)
(* in.  Time is left out: a timeout may come whenever a request is open.   *)
(***************************************************************************)
EXTENDS ForkDatabase

CONSTANTS
    Peer,           \* the peers
    Reliable,       \* those that answer in time, stay, and serve good blocks
    Silent,         \* those that may keep a connection and not answer
    Forgetful,      \* those that may lack a block they offered
    Header,         \* what blocks are made of
    Block,          \* the blocks that exist
    Invalid,        \* the blocks that the chain rejects
    PeerStarts,     \* the chains the peers may start with
    UndoDepth,      \* how far the last irreversible block is behind the head
    BatchIds,       \* the ids in one answer (limit of get_block_ids)
    MinIds,         \* GRAPHENE_NET_MIN_BLOCK_IDS_TO_PREFETCH
    MaxPerPeer,     \* _maximum_blocks_per_peer_during_syncing
    MaxHandled,     \* _maximum_number_of_blocks_to_handle_at_one_time
    MaxPrefetch,    \* _maximum_number_of_sync_blocks_to_prefetch
    MaxConnects     \* how often a peer that is not reliable connects

ASSUME PeersAssumption ==
    /\ IsFiniteSet(Peer) /\ "sync" \notin Peer
    /\ Reliable \cup Silent \cup Forgetful \subseteq Peer
    /\ Reliable \cap (Silent \cup Forgetful) = {}
ASSUME BlockAssumption ==
    /\ Nil \notin Block
    /\ Block \subseteq Seq(Header)
    /\ \A b \in Block : \A n \in 1..Num(b) : At(b, n) \in Block
    /\ \A heads \in PeerStarts : heads \in [Peer -> Block \cup {Nil}]
ASSUME ParametersAssumption ==
    /\ {UndoDepth, BatchIds, MinIds, MaxPerPeer, MaxHandled, MaxPrefetch, MaxConnects} \subseteq Nat
    /\ BatchIds > 1 /\ MaxPerPeer > 0 /\ MaxHandled > 0 /\ MaxPrefetch > 0
    /\ MinIds > MaxPerPeer

VARIABLES
    chain,      \* the chain behind the delegate: [head, known]
    accepted,   \* _most_recent_blocks_accepted
    peer,       \* the peer_connection of every peer and its wire
    theirs,     \* the peers' own state: [head, insync, connects, lost]
    active,     \* _active_sync_requests
    received,   \* _received_sync_items
    fresh,      \* _new_received_sync_items
    jobs,       \* the blocks handed to handle_block: [b, from, result]
    toFetch,    \* _items_to_fetch
    processed,  \* _message_ids_currently_being_processed
    news,       \* _new_inventory and what was advertised from it
    flags       \* the triggers: [sync, items, backlog, suspend, loop]

vars == <<chain, accepted, peer, theirs, active, received, fresh, jobs, toFetch,
          processed, news, flags>>

NoRequest == [open |-> FALSE, synopsis |-> << >>]

Closed == [conn |-> "closed", toGet |-> << >>, processing |-> {}, unfetched |-> 0,
           weNeed |-> TRUE, theyNeed |-> TRUE, inhibit |-> FALSE, seen |-> Nil,
           ids |-> NoRequest, sync |-> {}, items |-> {}, inv |-> {}, wire |-> << >>]

Active(pr) == {p \in Peer : pr[p].conn = "active"}
Idle(r) == r.items = {} /\ r.sync = {} /\ ~r.ids.open
Send(r, m) == [r EXCEPT !.wire = Append(@, m)]
Msg(t, b, s) == [t |-> t, b |-> b, synopsis |-> s]

-----------------------------------------------------------------------------
(* The delegate                                                            *)

Included(c, b) == Num(b) <= Num(c.head) /\ At(c.head, Num(b)) = b
LastIrreversible(c) == Max({0, Num(c.head) - UndoDepth})

\* The numbers of a synopsis from low while they do not pass top, spaced as
\* for a chain that ends at high.
Spaced(low, top, high) ==
    LET f[n \in Nat] == IF n > top THEN << >>
                        ELSE <<n>> \o f[n + (high - n + 2) \div 2]
    IN  f[low]

\* get_blockchain_synopsis(reference_point, number_of_blocks_after): the
\* reference point is Nil or a block the chain knows.
ForkOff(c, b) == Max({n \in 0..Num(b) : Included(c, At(b, n))})
BlockchainSynopsis(c, ref, after) ==
    LET high == IF ref = Nil THEN Num(c.head) ELSE Num(ref)
        low == Max({1, Min({LastIrreversible(c), high})})
        nums == IF high = 0 THEN << >> ELSE Spaced(low, high, high + after)
    IN  [i \in 1..Len(nums) |-> At(IF ref = Nil THEN c.head ELSE ref, nums[i])]
\* It throws block_older_than_undo_history.
TooOld(c, ref) == ForkOff(c, ref) < LastIrreversible(c) /\ ~Included(c, ref)

\* get_block_ids(blockchain_synopsis): what a node whose head is h answers.
Known(h, s) == {i \in 1..Len(s) : Included([head |-> h], s[i])}
BlockIds(h, s) ==
    LET from == IF s = << >> THEN 1 ELSE Num(s[Max(Known(h, s))])
        to == Min({Num(h), from + BatchIds - 1})
    IN  IF s # << >> /\ Known(h, s) = {} THEN << >>
        ELSE [i \in 1..(to + 1 - from) |-> At(h, from + i - 1)]

\* handle_block: what push_block makes of a block.
HandleBlock(c, b) ==
    CASE b \in c.known -> [result |-> "ok", chain |-> c]
      [] b \notin c.known /\ Previous(b) \notin c.known -> [result |-> "unlinkable", chain |-> c]
      [] b \notin c.known /\ Previous(b) \in c.known /\ b \in Invalid ->
           [result |-> "rejected", chain |-> c]
      [] OTHER -> [result |-> "ok",
                   chain |-> [known |-> c.known \cup {b},
                              head |-> IF Num(b) > Num(c.head) THEN b ELSE c.head]]

-----------------------------------------------------------------------------
(* Steps that several handlers take                                        *)

\* disconnect_from_peer: the peer learns of it, the connection stays open.
Disconnect(r) == [r EXCEPT !.conn = "closing"]

\* create_blockchain_synopsis_for_peer
SynopsisForPeer(c, r) ==
    LET s == BlockchainSynopsis(c, r.seen, Len(r.toGet))
        first == Num(Head(r.toGet))
        high == first + Len(r.toGet) - 1
        low == IF s = << >> THEN 1 ELSE Num(Head(s))
    IN  IF r.toGet = << >> THEN s
        ELSE FoldLeft(LAMBDA ids, n : IF n >= first THEN Append(ids, r.toGet[n + 1 - first]) ELSE ids,
                      s, Spaced(low, high, high))

\* fetch_next_batch_of_item_ids_from_peer.  The synopsis from a block that the
\* chain does not have throws, and read_loop closes the connection.
FetchIds(c, r) ==
    LET s == SynopsisForPeer(c, r)
    IN  CASE r.seen \notin c.known -> [r EXCEPT !.conn = "terminating"]
          [] r.seen \in c.known /\ TooOld(c, r.seen) -> Disconnect(r)
          [] r.seen \in c.known /\ ~TooOld(c, r.seen) ->
               Send([r EXCEPT !.ids = [open |-> TRUE, synopsis |-> s]], Msg("ids", Nil, s))

\* start_synchronizing_with_peer
StartSynchronizing(c, r) ==
    FetchIds(c, [r EXCEPT !.toGet = << >>, !.unfetched = 0, !.weNeed = TRUE,
                          !.seen = Nil, !.inhibit = FALSE])

-----------------------------------------------------------------------------
(* on_blockchain_item_ids_inventory_message                                *)

\* The answer starts with a block of the synopsis, or at the beginning.
ValidAnswer(r, ids) ==
    ids # << >> => IF r.ids.synopsis = << >> THEN Num(ids[1]) = 1
                   ELSE ids[1] \in Range(r.ids.synopsis)

\* Without the leading blocks the chain has, unless another peer waits for
\* the first of them.
DropKnown(p, ids) ==
    LET n == Min({i \in 1..(Len(ids) + 1) : i > Len(ids) \/ ids[i] \notin chain.known})
        wanted == \E q \in Active(peer) \ {p} :
                      peer[q].toGet # << >> /\ Head(peer[q].toGet) = ids[1]
    IN  IF wanted THEN ids ELSE SubSeq(ids, n, Len(ids))

\* The list r.toGet cut after the first block of ids, exclusive.
Joined(r, ids) ==
    LET at == {i \in 1..Len(r.toGet) : r.toGet[i] = ids[1]}
    IN  IF at = {} THEN << >> ELSE SubSeq(r.toGet, 1, Max(at) - 1)

\* A mutated form of MergeIds: the new ids are appended as they are.
MergeIdsBlindly(p, r, ids) == [r EXCEPT !.toGet = @ \o ids]

\* A mutated form of MergeIds: the first block that the chain lacks is taken
\* for the last that it has.
MergeIdsPast(p, r, ids) ==
    LET new == DropKnown(p, ids)
        dropped == Len(ids) - Len(new)
    IN  CASE ids = << >> -> r
          [] ids # << >> /\ r.toGet = << >> /\ new # << >> ->
               [r EXCEPT !.toGet = new, !.seen = ids[dropped + 1]]
          [] OTHER -> [r EXCEPT !.toGet = new]

\* The list of the peer with ids joined to it.
MergeIds(p, r, ids) ==
    LET new == DropKnown(p, ids)
        dropped == Len(ids) - Len(new)
        common == \E i \in 1..Len(r.toGet) : r.toGet[i] = ids[1]
    IN  CASE ids = << >> -> r
          [] ids # << >> /\ r.toGet = << >> ->
               [r EXCEPT !.toGet = new, !.seen = IF dropped = 0 THEN @ ELSE ids[dropped]]
          [] r.toGet # << >> /\ ids # << >> /\ common ->
               [r EXCEPT !.toGet = Joined(r, ids) \o ids]
          [] OTHER -> [r EXCEPT !.toGet = Tail(ids), !.seen = ids[1]]

UpToDate(r, ids, remaining) ==
    /\ remaining = 0 /\ r.toGet = << >> /\ r.unfetched = 0
    /\ ids = << >> \/ (Len(ids) = 1 /\ ids[1] \in chain.known)

\* Whether enough ids are known to fetch blocks.
EnoughIds(r) == IF r.unfetched # 0 THEN Len(r.toGet) > MinIds ELSE r.toGet # << >>

\* What the peer concludes from its own answer (on_fetch_blockchain_item_ids).
InSync(s, ids) == ids = << >> \/ (s # << >> /\ Len(ids) = 1 /\ ids[1] \in Range(s))

\* The fiber that reads from p is not in a handler.
Reads(p, t) ==
    /\ peer[p].conn \in {"active", "closing"}
    /\ peer[p].wire # << >> /\ Head(peer[p].wire).t = t
    /\ \A i \in 1..Len(jobs) : jobs[i].from # p

\* What the peer answers to the request at the head of its wire.
Answers(p) == {BlockIds(theirs[p].head, Head(peer[p].wire).synopsis)}

\* A mutated form of Remaining: one too few.
RemainingLess(p, ids) == IF ids = << >> THEN 0 ELSE Num(theirs[p].head) - Num(Last(ids)) - 1

\* How many more blocks the peer says that it has.
Remaining(p, ids) == IF ids = << >> THEN 0 ELSE Num(theirs[p].head) - Num(Last(ids))

\* The connection with the ids of an expected and valid answer.
Listed(p, ids) == 
    [MergeIds(p, [peer[p] EXCEPT !.wire = Tail(@), !.ids = NoRequest], ids)
       EXCEPT !.unfetched = Remaining(p, ids)]

OnItemIds(p) ==
    /\ Reads(p, "ids")
    /\ \E ids \in Answers(p) : \E merged \in {Listed(p, ids)} :
        LET r == [peer[p] EXCEPT !.wire = Tail(@)]
            good == r.ids.open /\ ValidAnswer(r, ids)
            uptodate == UpToDate(r, ids, Remaining(p, ids))
        IN  /\ theirs' = [theirs EXCEPT ![p].insync = InSync(Head(peer[p].wire).synopsis, ids)]
            /\ peer' = [peer EXCEPT ![p] =
                 CASE ~r.ids.open -> r
                   [] r.ids.open /\ ~good -> Disconnect(r)
                   [] good /\ uptodate -> [r EXCEPT !.ids = NoRequest, !.weNeed = FALSE]
                   [] OTHER -> IF EnoughIds(merged) THEN merged ELSE FetchIds(chain, merged)]
            /\ flags' = [flags EXCEPT !.sync = @ \/ (good /\ ~uptodate /\ EnoughIds(merged))]
    /\ UNCHANGED <<chain, accepted, active, received, fresh, jobs, toFetch, processed, news>>

-----------------------------------------------------------------------------
(* fetch_sync_items_loop and what becomes of its requests                  *)

HaveReceived(b) == b \in Range(received) \cup Range(fresh)

\* A mutated form of Wanted: what was asked for before is asked for again.
WantedAgain(r, taken) ==
    LET more(w, b) == Len(w) < MaxPerPeer /\ ~HaveReceived(b) /\ b \notin taken \cup Range(w)
    IN  IF r.conn # "active" \/ ~r.weNeed \/ ~Idle(r) \/ r.inhibit THEN << >>
        ELSE FoldLeft(LAMBDA w, b : IF more(w, b) THEN Append(w, b) ELSE w, << >>, r.toGet)

\* What a round asks a peer for, after the peers before it took theirs.
Wanted(r, taken) ==
    LET more(w, b) == /\ Len(w) < MaxPerPeer /\ ~HaveReceived(b)
                      /\ b \notin taken \cup Range(w) /\ b \notin active
    IN  IF r.conn # "active" \/ ~r.weNeed \/ ~Idle(r) \/ r.inhibit THEN << >>
        ELSE FoldLeft(LAMBDA w, b : IF more(w, b) THEN Append(w, b) ELSE w, << >>, r.toGet)

\* What a round asks for, when _active_connections is walked in an order.
Divide(order) ==
    FoldLeft(LAMBDA acc, p : LET w == Wanted(peer[p], acc.taken)
                             IN  [taken |-> acc.taken \cup Range(w), asked |-> [acc.asked EXCEPT ![p] = w]],
             [taken |-> {}, asked |-> [p \in Peer |-> << >>]], order)

\* One round.
Ask(r, w) ==
    [r EXCEPT !.sync = @ \cup Range(w), !.wire = @ \o [i \in 1..Len(w) |-> Msg("block", w[i], << >>)]]
FetchSyncItems(order) ==
    /\ flags.sync
    /\ flags' = [flags EXCEPT !.sync = FALSE]
    /\ IF flags.suspend THEN UNCHANGED <<peer, active>>
       ELSE \E d \in {Divide(order)} :
               /\ peer' = [p \in Peer |-> Ask(peer[p], d.asked[p])]
               /\ active' = active \cup d.taken
    /\ UNCHANGED <<chain, accepted, theirs, received, fresh, jobs, toFetch, processed, news>>

\* A block is accepted: the peers that offered it have it.
SeenByAll(pr, b) ==
    [p \in Peer |-> IF p \in Active(pr) /\ b \in pr[p].inv
                   THEN [pr[p] EXCEPT !.seen = b] ELSE pr[p]]

\* process_block_message, and process_block_during_normal_operation up to
\* handle_block or, for a block accepted before, to its end.
OnBlock(p) ==
    LET b == Head(peer[p].wire).b
        r == [peer[p] EXCEPT !.wire = Tail(@)]
        asNormal == b \in r.items
        normal == [r EXCEPT !.items = @ \ {b}]
        asSync == ~asNormal /\ b \in r.sync
        synced == [r EXCEPT !.sync = @ \ {b}]
        more == synced.unfetched > 0 /\ Len(synced.toGet) < MinIds
        push == asNormal /\ b \notin accepted
    IN  /\ Reads(p, "block")
        /\ peer' = IF asNormal /\ ~push THEN SeenByAll([peer EXCEPT ![p] = normal], b)
                   ELSE [peer EXCEPT ![p] =
             CASE push -> normal
               [] asSync /\ Idle(synced) /\ more -> FetchIds(chain, synced)
               [] asSync /\ ~(Idle(synced) /\ more) -> synced
               [] OTHER -> Disconnect(r)]
        /\ active' = IF asSync THEN active \ {b} ELSE active
        /\ fresh' = IF asSync THEN <<b>> \o fresh ELSE fresh
        /\ jobs' = IF push THEN Append(jobs, [b |-> b, from |-> p, result |-> "todo"]) ELSE jobs
        /\ processed' = IF push THEN processed \cup {b} ELSE processed
        /\ news' = IF asNormal /\ ~push THEN news \cup {b} ELSE news
        /\ flags' = [flags EXCEPT !.backlog = @ \/ asSync,
                                  !.items = @ \/ (asNormal /\ ~push /\ Idle(normal)),
                                  !.sync = @ \/ (asSync /\ Idle(synced) /\ ~more)]
        /\ UNCHANGED <<chain, accepted, theirs, received, toFetch>>

\* on_item_not_available_message for a block of the sync mechanism or of the
\* normal operation.
OnItemNotAvailable(p) ==
    LET b == Head(peer[p].wire).b
        r == [peer[p] EXCEPT !.wire = Tail(@)]
        asNormal == b \in r.items
        asSync == ~asNormal /\ b \in r.sync
        missing == [r EXCEPT !.items = @ \ {b}, !.inv = @ \ {b}]
        synced == [r EXCEPT !.sync = @ \ {b}]
    IN  /\ Reads(p, "block") /\ p \in Forgetful
        /\ peer' = [peer EXCEPT ![p] =
             CASE asNormal -> missing
               [] asSync /\ r.theyNeed -> [synced EXCEPT !.inhibit = TRUE]
               [] asSync /\ ~r.theyNeed -> Disconnect(synced)
               [] OTHER -> r]
        /\ toFetch' = IF asNormal /\ \E q \in Active(peer') : b \in peer'[q].inv
                      THEN toFetch \cup {b} ELSE toFetch
        /\ flags' = [flags EXCEPT !.items = @ \/ asNormal, !.sync = @ \/ asSync]
        /\ theirs' = [theirs EXCEPT ![p].lost = IF asSync THEN @ \cup {b} ELSE @]
        /\ UNCHANGED <<chain, accepted, active, received, fresh, jobs, processed, news>>

-----------------------------------------------------------------------------
(* process_backlog_of_sync_blocks                                          *)

Handled(js) == Cardinality({i \in 1..Len(js) : js[i].from = "sync"})

\* The start: enough blocks are with the delegate, or the loop begins.
ProcessBacklog ==
    /\ flags.backlog
    /\ IF Handled(jobs) >= MaxHandled
       THEN /\ flags' = [flags EXCEPT !.backlog = FALSE]
            /\ UNCHANGED <<received, fresh>>
       ELSE /\ flags' = [flags EXCEPT !.suspend = FALSE, !.loop = TRUE]
            /\ received' = Reverse(fresh) \o received /\ fresh' = << >>
    /\ UNCHANGED <<chain, accepted, peer, theirs, active, jobs, toFetch, processed, news>>

\* The first block of the backlog that heads the list of a peer leaves the
\* lists it heads and goes to the delegate.  The loop ends when there is none,
\* when the block was accepted before, or with enough blocks at the delegate.
Heads(p, b) == peer[p].conn = "active" /\ peer[p].toGet # << >> /\ Head(peer[p].toGet) = b
BacklogTurn ==
    LET at == {i \in 1..Len(received) : \E p \in Peer : Heads(p, received[i])}
        i == Min(at)
        b == received[i]
        push == at # {} /\ b \notin accepted
        full == Handled(jobs') >= MaxHandled
        on == push /\ ~full
        suspend == full /\ Len(received') >= MaxPrefetch
    IN  /\ flags.loop
        /\ peer' = [p \in Peer |-> IF at # {} /\ Heads(p, b)
             THEN [peer[p] EXCEPT !.toGet = Tail(@), !.processing = @ \cup {b}] ELSE peer[p]]
        /\ received' = IF push THEN RemoveAt(received, i) ELSE received
        /\ jobs' = IF push THEN Append(jobs, [b |-> b, from |-> "sync", result |-> "todo"])
                   ELSE jobs
        /\ flags' = [flags EXCEPT !.loop = on, !.backlog = on, !.suspend = suspend,
                                  !.sync = @ \/ ~(on \/ suspend)]
        /\ UNCHANGED <<chain, accepted, theirs, active, fresh, toFetch, processed, news>>

-----------------------------------------------------------------------------
(* handle_block on the thread of the delegate, and what follows it         *)

DelegateHandles ==
    \E i \in 1..Len(jobs) :
        /\ jobs[i].result = "todo" /\ \A j \in 1..(i - 1) : jobs[j].result # "todo"
        /\ LET h == HandleBlock(chain, jobs[i].b)
           IN  chain' = h.chain /\ jobs' = [jobs EXCEPT ![i].result = h.result]
        /\ UNCHANGED <<accepted, peer, theirs, active, received, fresh, toFetch, processed,
                       news, flags>>

\* A mutated form of AfterAccepted: a finished list asks for no more ids.
AfterAcceptedWaits(r, b) ==
    CASE r.conn # "active" -> r
      [] r.conn = "active" /\ b \in r.processing ->
           [r EXCEPT !.processing = @ \ {b}, !.seen = b]
      [] OTHER -> r

\* A peer after a sync block was accepted: the next ids are asked for when
\* its list is finished, and a peer in sync is told of the block.
AfterAccepted(r, b) ==
    LET done == [r EXCEPT !.processing = @ \ {b}, !.seen = b]
        empty == r.toGet = << >> /\ r.processing = {}
    IN  CASE r.conn # "active" -> r
          [] r.conn = "active" /\ empty /\ (r.theyNeed \/ r.weNeed) -> r
          [] r.conn = "active" /\ empty /\ ~r.theyNeed /\ ~r.weNeed -> StartSynchronizing(chain, r)
          [] r.conn = "active" /\ b \in r.processing ->
               IF done.toGet = << >> /\ done.unfetched = 0 /\ done.processing = {}
               THEN FetchIds(chain, done) ELSE done
          [] OTHER -> r

\* The rest of send_sync_block_to_node_delegate.
SyncBlockHandled ==
    LET job == Head(jobs)
        b == job.b
        offered(p) == peer[p].conn = "active" /\ b \in peer[p].processing
    IN  /\ jobs # << >> /\ job.from = "sync" /\ job.result # "todo"
        /\ jobs' = Tail(jobs)
        /\ peer' = [p \in Peer |->
             IF job.result = "ok" THEN AfterAccepted(peer[p], b)
             ELSE IF offered(p) THEN Disconnect(peer[p]) ELSE peer[p]]
        /\ accepted' = IF job.result = "ok" THEN accepted \cup {b} ELSE accepted
        /\ flags' = [flags EXCEPT !.backlog = TRUE]
        /\ UNCHANGED <<chain, theirs, active, received, fresh, toFetch, processed, news>>

\* The rest of process_block_during_normal_operation and of
\* process_block_message.
NormalBlockHandled ==
    LET job == Head(jobs)
        p == job.from
        b == job.b
        first(q) == peer[q].conn = "active" /\ peer[q].toGet # << >> /\ Head(peer[q].toGet) = b
    IN  /\ jobs # << >> /\ p \in Peer /\ job.result # "todo"
        /\ jobs' = Tail(jobs)
        /\ peer' =
             CASE job.result = "ok" -> SeenByAll(peer, b)
               [] job.result = "unlinkable" ->
                    [peer EXCEPT ![p] = StartSynchronizing(chain, @)]
               [] job.result = "rejected" ->
                    [q \in Peer |-> IF q = p \/ first(q) THEN Disconnect(peer[q]) ELSE peer[q]]
        /\ accepted' = IF job.result = "ok" THEN accepted \cup {b} ELSE accepted
        /\ processed' = IF job.result = "ok" THEN processed \ {b} ELSE processed
        /\ news' = IF job.result = "ok" THEN news \cup {b} ELSE news
        /\ flags' = [flags EXCEPT !.items = @ \/ Idle(peer'[p])]
        /\ UNCHANGED <<chain, theirs, active, received, fresh, toFetch>>

-----------------------------------------------------------------------------
(* The normal operation                                                    *)

\* on_item_ids_inventory_message
OnInventory(p) ==
    LET b == Head(peer[p].wire).b
        have == b \in processed \cup news
        requested == \E q \in Active(peer) : b \in peer[q].items
        new == ~have /\ ~requested /\ b \notin toFetch
    IN  /\ Reads(p, "inv")
        /\ peer' = [peer EXCEPT ![p].wire = Tail(@),
                                ![p].inv = IF have THEN @ ELSE @ \cup {b}]
        /\ toFetch' = IF new THEN toFetch \cup {b} ELSE toFetch
        /\ flags' = [flags EXCEPT !.items = @ \/ new]
        /\ UNCHANGED <<chain, accepted, theirs, active, received, fresh, jobs, processed, news>>

\* fetch_items_loop: every item goes to an idle peer that offered it, one
\* item to a peer, which is a choice of peers for some of the items.
Source(p, b) == p \in Active(peer) /\ Idle(peer[p]) /\ b \in peer[p].inv
FetchItems ==
    \E got \in SUBSET toFetch : \E from \in [got -> Peer] :
        /\ flags.items
        /\ \A b \in got : Source(from[b], b) /\ \A c \in got \ {b} : from[c] # from[b]
        /\ \A b \in toFetch \ got : \A p \in Peer : Source(p, b) => \E c \in got : from[c] = p
        /\ peer' = [p \in Peer |-> IF \E b \in got : from[b] = p
                      THEN LET b == CHOOSE b \in got : from[b] = p
                           IN  Send([peer[p] EXCEPT !.items = @ \cup {b}], Msg("block", b, << >>))
                      ELSE peer[p]]
        /\ toFetch' = toFetch \ got
        /\ flags' = [flags EXCEPT !.items = FALSE]
        /\ UNCHANGED <<chain, accepted, theirs, active, received, fresh, jobs, processed, news>>

\* on_fetch_blockchain_item_ids_message: the peer asks what follows its chain.
OnFetchItemIds(p) ==
    LET s == Head(peer[p].wire).synopsis
        r == [peer[p] EXCEPT !.wire = Tail(@)]
        ids == BlockIds(chain.head, s)
        even == ids # << >> /\ InSync(s, ids)
        told == [r EXCEPT !.theyNeed = ~InSync(s, ids)]
        missing == ~r.weNeed /\ s # << >> /\ Last(s) \notin chain.known
        started == IF missing THEN StartSynchronizing(chain, told) ELSE told
    IN  /\ Reads(p, "ask")
        /\ peer' = [peer EXCEPT ![p] =
             IF even /\ r.inhibit THEN Disconnect(started) ELSE started]
        /\ UNCHANGED <<chain, accepted, theirs, active, received, fresh, jobs, toFetch,
                       processed, news, flags>>

-----------------------------------------------------------------------------
(* Connections                                                             *)

\* move_peer_to_active_list and new_peer_just_added; the peer does the same.
Connected(p, c) == StartSynchronizing(c, [Closed EXCEPT !.conn = "active"])

\* The reliable peers and some of the others have just connected to a node
\* without blocks.
Init ==
    /\ chain = [head |-> Nil, known |-> {Nil}]
    /\ accepted = {Nil}
    /\ \E heads \in PeerStarts, late \in SUBSET (Peer \ Reliable) :
          /\ peer = [p \in Peer |-> IF p \in late THEN Closed ELSE Connected(p, chain)]
          /\ theirs = [p \in Peer |-> [head |-> heads[p], insync |-> FALSE,
                                      lost |-> {},
                                      connects |-> IF p \in late THEN 0 ELSE 1]]
    /\ active = {} /\ received = << >> /\ fresh = << >> /\ jobs = << >>
    /\ toFetch = {} /\ processed = {} /\ news = {}
    /\ flags = [sync |-> FALSE, items |-> FALSE, backlog |-> FALSE, suspend |-> FALSE,
                loop |-> FALSE]

Connect(p) ==
    /\ peer[p].conn = "closed"
    /\ p \in Reliable \/ theirs[p].connects < MaxConnects
    /\ theirs' = [theirs EXCEPT ![p].insync = FALSE,
                               ![p].connects = IF p \in Reliable THEN @ ELSE @ + 1]
    /\ peer' = [peer EXCEPT ![p] =
         Send(Connected(p, chain),
              Msg("ask", Nil, BlockchainSynopsis(theirs[p], Nil, 0)))]
    /\ UNCHANGED <<chain, accepted, active, received, fresh, jobs, toFetch, processed, news, flags>>

\* terminate_inactive_connections_loop: an answer is overdue.  The loop is
\* left when a request for sync items is.
RequestTimeout(p) ==
    /\ p \notin Reliable /\ peer[p].conn = "active"
    /\ peer[p].sync = {} /\ ~Idle(peer[p])
    /\ peer' = [peer EXCEPT ![p].conn = "terminating"]
    /\ UNCHANGED <<chain, accepted, theirs, active, received, fresh, jobs, toFetch, processed,
                   news, flags>>

\* The same loop, for a peer that was asked to close its connection.
ClosingTimeout(p) ==
    /\ peer[p].conn = "closing"
    /\ peer' = [peer EXCEPT ![p].conn = "terminating"]
    /\ UNCHANGED <<chain, accepted, theirs, active, received, fresh, jobs, toFetch, processed,
                   news, flags>>

\* A mutated form of OnConnectionClosed: the requests are not given back.
ConnectionClosedForgets(p) ==
    /\ peer[p].conn = "terminating" \/ (p \notin Reliable /\ peer[p].conn # "closed")
    /\ \A i \in 1..Len(jobs) : jobs[i].from # p
    /\ peer' = [peer EXCEPT ![p] = Closed]
    /\ flags' = [flags EXCEPT !.sync = TRUE]
    /\ UNCHANGED <<chain, accepted, theirs, active, received, fresh, jobs, toFetch, processed, news>>

\* on_connection_closed: the socket is closed, by the node or by the peer.
OnConnectionClosed(p) ==
    /\ peer[p].conn = "terminating" \/ (p \notin Reliable /\ peer[p].conn # "closed")
    /\ \A i \in 1..Len(jobs) : jobs[i].from # p
    /\ peer' = [peer EXCEPT ![p] = Closed]
    /\ active' = active \ peer[p].sync
    /\ toFetch' = toFetch \cup {b \in peer[p].items : \E q \in Active(peer') : b \in peer[q].inv}
    /\ flags' = [flags EXCEPT !.sync = @ \/ peer[p].sync # {}, !.items = @ \/ peer[p].items # {}]
    /\ UNCHANGED <<chain, accepted, theirs, received, fresh, jobs, processed, news>>

\* The chain of a peer grows or switches to a longer fork.  It advertises the
\* block, or it asks for ids again if it got the block from its own sync
\* mechanism; it does neither while it believes that the node will ask.
PeerAdvances(p, b) ==
    /\ Num(b) > Num(theirs[p].head)
    /\ p \in Reliable => b \notin Invalid
    /\ theirs' = [theirs EXCEPT ![p].head = b]
    /\ \/ /\ peer[p].conn = "active" /\ theirs[p].insync
          /\ \/ peer' = [peer EXCEPT ![p] = Send(@, Msg("inv", b, << >>))]
             \/ peer' = [peer EXCEPT ![p] =
                  Send(@, Msg("ask", Nil, BlockchainSynopsis([head |-> b], Nil, 0)))]
       \/ ~(peer[p].conn = "active" /\ theirs[p].insync) /\ UNCHANGED peer
    /\ UNCHANGED <<chain, accepted, active, received, fresh, jobs, toFetch, processed, news, flags>>

Orders == SetToSeqs(Peer)

\* Nothing waits inside process_backlog_of_sync_blocks.
Next ==
    \/ BacklogTurn
    \/ /\ ~flags.loop
       /\ \/ \E o \in Orders : FetchSyncItems(o)
          \/ ProcessBacklog \/ DelegateHandles \/ SyncBlockHandled \/ NormalBlockHandled
          \/ FetchItems
          \/ \E p \in Peer :
                \/ OnItemIds(p) \/ OnBlock(p) \/ OnItemNotAvailable(p) \/ OnInventory(p)
                \/ OnFetchItemIds(p)
                \/ Connect(p) \/ RequestTimeout(p) \/ ClosingTimeout(p)
                \/ OnConnectionClosed(p)
                \/ \E b \in Block : PeerAdvances(p, b)

Spec == Init /\ [][Next]_vars

\* The node and its peers do not all stop while the node has something to do,
\* an answer of a peer that is not silent is awaited, a timeout is near, or a
\* reliable peer can be connected.
Answer(p) ==
    OnItemIds(p) \/ OnBlock(p) \/ OnItemNotAvailable(p) \/ OnInventory(p) \/ OnFetchItemIds(p)
NodeStep ==
    \/ \E o \in Orders : FetchSyncItems(o)
    \/ ProcessBacklog \/ BacklogTurn \/ DelegateHandles \/ SyncBlockHandled \/ NormalBlockHandled
    \/ FetchItems
Timeout(p) ==
    RequestTimeout(p) \/ ClosingTimeout(p) \/ (peer[p].conn = "terminating" /\ OnConnectionClosed(p))
Fairness ==
    WF_vars(\/ NodeStep
            \/ \E p \in Peer : Timeout(p)
            \/ \E p \in Peer \ Silent : Answer(p)
            \/ \E p \in Reliable : Connect(p))
FairSpec == Spec /\ Fairness

-----------------------------------------------------------------------------
(* Properties                                                              *)

PeerRecord(r) ==
    /\ r.conn \in {"active", "closing", "terminating", "closed"}
    /\ Range(r.toGet) \cup r.processing \cup r.sync \cup r.items \cup r.inv \subseteq Block
    /\ r.seen \in Block \cup {Nil} /\ r.unfetched \in Nat

\* The type invariant.
TypeOK ==
    /\ \A p \in Peer : PeerRecord(peer[p]) /\ theirs[p].head \in Block \cup {Nil}
    /\ chain.head \in chain.known /\ chain.known \subseteq Block \cup {Nil}
    /\ active \cup toFetch \cup processed \cup news \subseteq Block
    /\ Range(received) \cup Range(fresh) \subseteq Block

\* No block is asked for through the sync mechanism from two peers at a time,
\* and none that waits in the backlog: fetch_sync_items_loop divides the
\* blocks among the peers.
RequestedOnce ==
    \A p, q \in Peer : \A b \in peer[p].sync :
        /\ p # q => b \notin peer[q].sync
        /\ ~HaveReceived(b)

\* What is in _active_sync_requests, and is not asked for by anybody else while
\* it is there, is requested from a connected peer, whose closing gives it
\* back, or has been refused: on_item_not_available_message erases the id from
\* the requests of the peer only, so that nobody is asked for it again through
\* the sync mechanism.  It says that this happens to what was refused, all of
\* it, and to nothing else.
Orphans == active \ UNION {peer[p].sync : p \in Peer}
RequestsOwned == Orphans = UNION {theirs[p].lost : p \in Peer}

\* The list of a peer is a part of one branch, in order: the blocks can be
\* pushed one after the other.
ListsAreBranches ==
    \A p \in Peer : \A i \in 1..(Len(peer[p].toGet) - 1) :
        peer[p].toGet[i] = Previous(peer[p].toGet[i + 1])

\* The reference point of a synopsis is a block of the chain, or one that the
\* chain is about to get.  The assertion of
\* on_blockchain_item_ids_inventory_message expects the first: "it is a block
\* that we knew about because it should be one of the blocks we sent in the
\* initial synopsis" (node.cpp:2728).  It does not hold for a block of the
\* synopsis that left the list for the delegate while the answer was awaited;
\* the property says that this is the only way for it to fail.
AtDelegate == {jobs[i].b : i \in {j \in 1..Len(jobs) : jobs[j].from = "sync"}}
SeenIsHandled == \A p \in Active(peer) : peer[p].seen \in chain.known \cup AtDelegate

\* A request is made once and belongs to somebody: what is late, answered twice
\* or given up by a closed connection can be asked for again; what a peer
\* refused cannot (RequestsOwned).
RequestsSound == TypeOK /\ RequestedOnce /\ RequestsOwned

\* What is asked for next follows what the node has: lists and the reference
\* points of synopses are branches of blocks, from a block of the chain or one
\* at the delegate on.
ListsSound == ListsAreBranches /\ SeenIsHandled

\* While one reliable peer is the only one and advertises no single blocks,
\* the node gets all of its blocks through the sync mechanism: one of the
\* triggers, the answer awaited or the block being handled always leads on.
LonePeerIsFollowed ==
    \A p \in Reliable :
        []((\A q \in Peer \ {p} : peer[q].conn = "closed") /\ peer[p].items = {})
            => <>[](theirs[p].head \in chain.known)
-----------------------------------------------------------------------------
(* The inductive invariant behind RequestsSound and ListsSound              *)

Blocks == Block \cup {Nil}
Message == [t : {"ids", "ask"}, b : {Nil}, synopsis : Seq(Block)]
             \cup [t : {"block", "inv"}, b : Block, synopsis : {<< >>}]
Connection == [conn : {"active", "closing", "terminating", "closed"}, toGet : Seq(Block),
               processing : SUBSET Block, unfetched : Nat, weNeed : BOOLEAN, theyNeed : BOOLEAN,
               inhibit : BOOLEAN, seen : Blocks, ids : [open : BOOLEAN, synopsis : Seq(Block)],
               sync : SUBSET Block, items : SUBSET Block, inv : SUBSET Block, wire : Seq(Message)]
Job == [b : Block, from : Peer \cup {"sync"}, result : {"todo", "ok", "unlinkable", "rejected"}]

IsBranch(seq) == \A i \in 1..(Len(seq) - 1) : seq[i] = Previous(seq[i + 1])

\* A connection, when the chain has the blocks of known, and those of working
\* are at the delegate: what left the list is in one of the two, and a
\* synopsis on its way holds nothing else but blocks of the list.
Tracked(r, known, working) ==
    /\ r \in Connection
    /\ IsBranch(r.toGet)
    /\ r.conn = "closed" => r.sync = {}
    /\ r.ids.open /\ r.ids.synopsis = << >> => r.toGet = << >>
    /\ r.conn = "active" =>
         /\ r.processing \subseteq known \cup working
         /\ r.seen \in known \cup r.processing
         /\ r.ids.open => Range(r.ids.synopsis) \subseteq known \cup r.processing \cup Range(r.toGet)

\* The chain behind the delegate has every block with its history.
ChainInv ==
    /\ chain \in [head : Blocks, known : SUBSET Blocks]
    /\ chain.head \in chain.known /\ Nil \in chain.known
    /\ \A b \in chain.known : \A n \in 0..Num(b) : At(b, n) \in chain.known
JobsInv ==
    /\ jobs \in Seq(Job) /\ accepted \subseteq chain.known
    /\ \A i \in 1..Len(jobs) : jobs[i].result = "ok" => jobs[i].b \in chain.known
OwnTypes ==
    /\ theirs \in [Peer -> [head : Blocks, insync : BOOLEAN, connects : Nat, lost : SUBSET Block]]
    /\ active \cup toFetch \cup processed \cup news \subseteq Block
    /\ received \in Seq(Block) /\ fresh \in Seq(Block)
    /\ flags \in [sync : BOOLEAN, items : BOOLEAN, backlog : BOOLEAN, suspend : BOOLEAN, loop : BOOLEAN]
PeersInv ==
    peer \in [Peer -> Connection] /\ \A p \in Peer : Tracked(peer[p], chain.known, AtDelegate)
RequestsInv ==
    /\ RequestedOnce /\ RequestsOwned
    /\ \A p \in Peer : peer[p].sync \subseteq active
IndInv == ChainInv /\ JobsInv /\ OwnTypes /\ PeersInv /\ RequestsInv
=============================================================================
