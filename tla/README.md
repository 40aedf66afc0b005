# A TLA+ model of the Golos chain node

The repository holds `golosd`, the node of the Golos blockchain (a fork of
Steem), written in C++. The specifications here model the core of that program:
how a node gets blocks from its peers, stores them, follows forks and makes
blocks irreversible; how it keeps pending transactions and generates blocks;
who may produce a block and who may act for an account; and what the
operations on stake, market, escrows, subscriptions and tokens do to the
balances. TLC checks the models on small instances; TLAPS proves the most
important invariants of block log, chain database and witness schedule for
every value of their constants.

Paths below are relative to the root of the repository; line numbers are in
`PROJECT.json`, whose `map` names, for every definition that models code, the
lines it stands for.

## 1. Inventory

| Component | State | Operations | Interacts with | Modelled in |
|---|---|---|---|---|
| Block log (`chain/block_log.cpp`) | two memory mapped files: records with position markers, index of positions; `head` | `open`, `construct_index`, `append`, `read_block_by_num`, `close` | written by `update_last_irreversible_block`, read by `open`, `reindex`, the P2P plugin | BlockLog, AppendOnlyLog |
| Fork database (`chain/fork_database.cpp`) | tree of recent blocks with weak `prev` pointers, `_head`, `_max_size` | `push_block`, `pop_block`, `remove`, `set_head`, `set_max_size`, `fetch_branch_from`, lookups | only used by the chain database, under its lock | ForkDatabase |
| Chain database, forks (`chain/database.cpp`) | state in shared memory with a stack of undo sessions and a revision; last irreversible block | `push_block`, `pop_block`, `apply_block`, `update_last_irreversible_block`, `open`, `reindex`, `close`, `wipe` | fork database, block log, chainbase, chain plugin | ChainDatabase |
| Chain database, pending transactions (`chain/database.cpp`, `db_with.hpp`) and the witness plugin | `_pending_tx`, `_pending_tx_session`, `_popped_tx`, the index of known transactions; the slot the plugin works on | `push_transaction`, the restorer around `push_block`, `generate_block`, `clear_pending`, `block_production_loop` | called by the network thread and by the witness thread | PendingTransactions |
| P2P network (`libraries/network`, `plugins/p2p`) | connections, lists of ids, requests, backlog, inventory | synchronisation, exchange of single blocks, timeouts | chain database on another thread | PeerSync |
| Witness schedule and slots | schedule, slots missed, virtual times, keys | `update_witness_schedule`, `get_slot_at_time`, `update_global_dynamic_data` | block validation, irreversibility | WitnessSchedule |
| Hardfork voting | votes of witnesses, next hardfork | `process_header_extensions`, `process_hardforks` | witness schedule | HardforkVoting |
| Stake: vesting, delegations, proxies, witness votes | shares, routes, delegations with expiration, running sums of votes | power up and down, delegation and its return, voting | balances, witness schedule | Stake, WitnessVotes |
| Authorities, recovery of accounts | authorities, owner history, requests with expiration | `sign_state`, `account_update`, request, confirm, expire | every operation | Authorities, AccountRecovery |
| Proposed transactions | proposals and their approvals | create, update, execute, expire | authorities | Governance |
| Internal market | limit orders, market balances, pair depths | create, match, fill, cancel, expire | balances, asset fees | Market, Ledger |
| Conversions, savings, escrow | requests with a date, counters, escrows with approvals | their operations; the maintenance steps of `_apply_block` | balances, supplies, price feed | Ledger |
| Paid subscriptions | plans, subscribers, prepaid amounts | create, update, pay, cancel; payments of a block | balances | Subscriptions, Sales |
| NFT | collections, tokens, orders, bets, auctions | their operations; the end of auctions in a block | balances | Nft, Sales |
| Content, votes, rewards | posts, bills (how a post is to be paid), votes, reward fund, `total_reward_shares2` | comment, options, delete, vote, claim; emission and payouts of a block | stake, balances | Posts, Rewards, Content |
| Workers | requests on posts, ballots | create, edit, delete, vote; counting and payment in a block | posts, stake, worker fund | Workers, Content |
| Invites, freezing | objects of their own | their operations | balances | - |
| Protocol library, apart from authorities | none (pure) | validation, serialisation | all evaluators | - |
| Broadcast callbacks | callbacks by transaction id and expiration | broadcast, on applied block | chain database, RPC | - |
| Observers and API plugins, RPC, exporters, wallet | derived indices, I/O | queries | chain database | - |

What is hard in these components, and what makes them correct:

* **Crashes.** Shared memory and block log survive a killed process at
  whatever store it had reached. A restart must find a state of the chain, and
  a log that is a prefix of the chain.
* **Forks that fail half-way.** `_push_block` pops blocks, applies others, and
  takes everything back when one of them throws. Meanwhile `apply_block`
  commits sessions and writes the block log, which cannot be taken back. Undo
  stack, revision, state, fork database and log must stay in step.
* **Two threads.** The network thread pushes blocks and transactions; the
  witness thread generates blocks, and holds the write lock only for parts of
  that. Pending transactions must neither get lost nor be applied twice.
* **Peers that refuse, disconnect and change their minds.** A dozen fibers
  share the lists of what is wanted, requested, received and being handled, and
  wake each other by flags. Nothing may be asked for twice, and something must
  always lead on.
* **Running sums.** The stake behind proxies and witnesses, what is delegated,
  held, bet or on the market is kept as totals that many pieces of code change
  by differences.
* **Recursion with shared state.** The check of authorities follows references
  between accounts with one growing set of approvals and a limit on the depth,
  and is used in three ways.
* **Deadlines and rounding.** Requests are finished by the maintenance of later
  blocks, in a fixed order, with different comparisons and with integer
  division. Nothing may be created, lost, or overlooked.

`hazards` in `PROJECT.json` lists these at the lines where they bite, with the
properties that watch over each.

## 2. Modules

```
AppendOnlyLog <== BlockLog --- BlockLog_proofs
                                   FoldFacts (lemmas of the proofs)
ForkDatabase --- ChainDatabase --- MCChain, ChainDatabase_proofs
     |---------- PendingTransactions --- MCPending, PendingTransactions_proofs
     \---------- PeerSync --- MCPeerSync, PeerSync_proofs
HardforkVoting - WitnessSchedule --- MCWitnessSchedule, WitnessSchedule_proofs
WitnessVotes --- Stake --- MCStake
Authorities ---- AccountRecovery --- Governance --- MCGovernance, Governance_proofs
Market --------- Ledger --- MCLedger, Ledger_proofs
Purse ---------- Subscriptions, Nft --- Sales --- MCSales
Posts ---------- Rewards --- Workers --- Content --- MCContent
```

(`<==`: is implemented by; `---`: is extended by.) Definitions whose comment
calls them a mutated form of another one are plausible bugs; nothing in the
specifications refers to them. Each is put in the place of the definition it
mutates to see that the property it is listed with in `PROJECT.json` notices.

The models fall in two groups. BlockLog, ChainDatabase, PendingTransactions and
PeerSync are about steps of a process: an action is what runs between two
stores a kill can separate, two locks or two waits of a fiber. The others are
about the state of the chain, which blocks change in sequence: an action is a
whole operation, or the whole maintenance of a block. In these an operation that throws is
no step, because its transaction is undone, and all hardforks are in force.

### BlockLog, AppendOnlyLog

`main` is the block file, `index` the index file. A record with its marker is a
cell, so the position of a record is the number of cells before it. `append()`
is five actions, one for every store a killed process can leave behind:
`AppendResize`, `AppendData`, `AppendMark`, `AppendIndexResize`, `AppendIndex`.
`resize()` fills with zeros, and zero is also the position of the first record;
the model keeps that coincidence because the failure described in section 5 is
made of it. `Open` is `block_log_impl::open` with `construct_index`. `Crash`
may happen at any store, `RebuildKilled` after any number of entries of an
index that is being rebuilt.

`AppendOnlyLog` says what the log promises: complete records are only ever
added at the end, or everything is deleted. `AppendOnly` states that `BlockLog`
implements it, with what a linear scan of the main file reads, up to the first
record that a kill abandoned, as the abstract log.

### ForkDatabase

Operators on a record that stands for the object: the blocks in the index, the
ones whose weak `prev` pointer is still alive, the head (which may have left
the index) and `_max_size`. Since a block id is a hash over its history, a
block *is* the sequence of headers from the genesis to itself; equality of ids
is equality of histories. The unlinked cache is left out: nothing is ever
inserted into it.

### ChainDatabase

`st` is the state of the chain (head, last irreversible block, last block each
witness confirmed), `undo` the stack of states that chainbase sessions saved,
`rev` its revision, `log` the block log (append-only here: the module above
looks inside), `fork` the fork database, `pc`/`job` the place and the locals of
the `_push_block` that holds the write lock. The actions follow the code:

| Action | Code |
|---|---|
| `Push` | `push_block`, `_push_block` up to the decision to extend, switch or leave |
| `PopBlockOfState`, `PopThrows` | `pop_block` in the loops that leave a fork |
| `ApplyBlock`, `ApplyThrows` | `apply_block` in a session, up to `commit()` in `update_last_irreversible_block` |
| `LogBlock`, `LogThrows` | the loop that writes the block log, and its assertion |
| `FinishApply`, `FinishThrows` | `set_max_size`, the rest of the block, `session.push()`, or an exception in that rest |
| `Stop` | a kill at any step, or `close()` |
| `OpenDatabase`, `OpenAndReplay`, `RevisionMismatch`, `LogMismatch` | the four ways through `database::open` and `plugin_startup` |
| `ReindexBlock`, `FinishReindex` | `reindex` |

`Fail` holds the exception handlers: drop the block, or drop the failed part of
the fork and go back, or give up on the way back. What a block does to accounts
is abstracted to whether it applies, fails before, or fails after the last
irreversible block was updated.

### PendingTransactions

Adds to the same fork switches the transactions. The state keeps the known
transactions (duplicate check) and those that took effect; a transaction has an
expiration, a block it refers to (TaPoS), a size, transactions it needs and
transactions it excludes. `BeginPush` takes the write lock and moves the
pending transactions into the restorer; `Restore` is the destructor of the
restorer. The witness thread takes the steps `SlotComes`, `GenerateCheck` (no
lock), `GenerateSelect` (locked), `GenerateSign` (no lock; reads the head, even
in the middle of a fork switch), `GeneratePush`, and `ClearPending` (no lock)
with one retry. Both threads interleave freely otherwise, since
`single-write-thread` is off by default.

The model starts with an opened node whose head `Root` is irreversible. Nothing
becomes irreversible later and the process does not crash: ChainDatabase is
about that. Data races inside an unlocked call are not broken up further:
`clear_pending` is one step.

### PeerSync

One node and its peers. All fibers of `node_impl` share one thread and yield
only when they wait, so an action is the code between two waits: the handler of
a message (`OnItemIds`, `OnBlock`, `OnItemNotAvailable`, `OnInventory`,
`OnFetchItemIds`), one round of a loop (`FetchSyncItems`, `FetchItems`,
`ProcessBacklog` and `BacklogTurn`), or the rest of a handler after the chain,
on its own thread, has taken a block (`DelegateHandles`, then
`SyncBlockHandled` or `NormalBlockHandled`). `flags` are the promises that
wake the loops. `Connect`, `RequestTimeout`, `ClosingTimeout` and
`OnConnectionClosed` are the life of a connection.

A peer runs the same code and is described by what the node can see of it: an
answer is computed, with the operators of the node's own code (`BlockIds`,
`BlockchainSynopsis`), when it arrives, and `PeerAdvances` lets a
peer's chain grow or switch. Messages of one connection keep their order;
connections are independent. A peer may be reliable, silent, or lack a block it
has offered.

### HardforkVoting, WitnessSchedule

`WitnessSchedule` has one kind of step that makes time pass: a block of the
witness whose slot it is, at any time within that slot and after any number of
missed slots, with nothing else in it, with a change of votes, or with a change of a signing
key (`PlainBlock`, `VoteBlock`, `KeyBlock`). `ApplyBlock` is everything
`_apply_block` does about witnesses: missed turns, keys that are taken from a
witness that missed for too long, the ring of filled slots, confirmation, and
in the last block of a round `update_witness_schedule` with the witnesses by votes,
the one by virtual time, the shuffle (an arbitrary permutation), the median of
the reset time, and the tally of hardfork votes, followed by
`process_hardforks`. `Upgrade` and `TimeComes` are what happens outside the
chain. Behaviours are endless, so what grows for ever is kept modulo a
constant, and virtual times have a small width, so that their overflow happens.

### WitnessVotes, Stake

`WitnessVotes` holds the operators that carry a change of stake through the
proxies to the witnesses; `Stake` the operations, with every check of their
evaluators, and `Block`, the maintenance in the order of `_apply_block`: idle
witnesses and accounts, delegations that are returned, withdrawals with their
routes, declined voting rights. An assertion that fails inside a block sets
`halted`: the block and all after it are refused.

### Authorities, AccountRecovery, Governance

`Authorities` is `sign_state` and `verify_authority`: a fold with the shared
sets of approved accounts, marked approvals and used signatures, the limit on the depth,
and the exceptions on missing, unused and irrelevant signatures. Next to it
stands the plain meaning of an authority (`Satisfied`, a least fixpoint), which
the properties use as the reference. `AccountRecovery` has `account_update`,
the recovery operations and their processing as operators on the accounts;
`Governance` composes the two: transactions signed by sets of keys, proposals
with the four parts of their approvals, their immediate execution, their
expiry, and `Block`. `ran` records what a step executed, on which authorities
and approvals, for the properties only.

### Market, Ledger

`Market` has the matching engine as operators on the state of the ledger:
`Match`, `FillOrder`, `CancelOrder`, `ApplyOrder`, with the rounding of the
code, the refund of dust, the fee of issued assets and the updates of market
balances and pair depths. `Ledger` has one action per operation, each with the
checks of its evaluator, and `ApplyBlock`, the maintenance of a block in the
order of `_apply_block`: expired orders, median feed with the forced minimum
price, due conversions, forced conversion of SBD debt, due savings withdrawals,
unratified escrows. Interest, issuance, vesting and rewards are left out.
`Against` is the orders that a new one can trade with, as the index `by_price`
holds them: the best price first, the oldest first among equals.
The forced conversion is `Converted`, from what becomes of one account, one
escrow (`EscrowAfter`), one pending fee (`ToAgent`) and one withdrawal
(`WithdrawalAfter`, `ToReceiver`). A block is applied only while there is
STEEM, because `update_virtual_supply` divides by its supply.

### Purse, Subscriptions, Nft, Sales

`Purse` has the balances both share. `Subscriptions` has plans, subscribers
that pay at once, in advance or repeatedly out of a balance or a tip balance,
and the payments of a block; `Nft` collections, tokens, orders to sell and to
buy (for one token or any of a collection), bets and auctions, and what a block
does with auctions that are over. `Sales` composes them: `Block` pays the
subscriptions and then ends the auctions, out of the same balances. Statistics
of the market are left out. `mixed` is a history, for `NothingStale` only: the
tokens of an `nft_buy` that named one token and served the order of another.

### Posts, Rewards, Workers, Content

`Posts` has the operations on posts and votes: the counters of replies up to
the root, the bill with its options and beneficiaries, the votes in their order
with what each changes in `total_reward_shares2`. `Rewards` has pure operators
on `money`, the record of balances, delegations, funds and supplies: the
weights of curators under each curve, `PayClaim` and `PayCurators` with the
loop that stops at the first empty claim, `Payout` and `Cashout` of a post,
`ProcessFunds` and `ProcessAccumulative` with the new tokens of a block, and
the operation `Claim`. `Workers` has requests and the ballots on them. `Content`
composes them in the order of `_apply_block`: funds, accumulative distribution,
payouts of posts, votes on requests, payments of requests. The curve is chosen
anew for every block because the witnesses may change it.

Simplifications: a share costs one token and prices are one to one; the weight
of a vote is its rshares; delegations are fixed but for the compounding of
interest; the emission of a block is a constant for each fund. Voting power,
limits on how often one may post and vote, the depth of replies, edits,
donations and votes that only touch reputation are left out.

## 3. Runs

All runs use the modules as they are; the configurations only give values to
constants. A property that is a conjunction of named parts is checked as one
and has mutated definitions for its parts.

**`blocklog_kills`** (BlockLog, 5 588 states). The process may be killed at
every store of `append()` and of the rebuild of the index. Where a kill before
the marker leaves a record without one, which nothing removes, the code does
lose the head (section 5); the properties say exactly what remains then. An
acknowledged block stays in the main file complete, and every restart finds it
as long as no record was abandoned (`Durable`). The index can be rebuilt unless
others were appended behind an abandoned record (`Reconstructible`). Block *n*
is found under number *n* (`ReadsByNumber`). What a scan of the main file reads
is an append-only log, also when a node that lost its head appends again
(`AppendOnly`). Six cells allow several abandoned records and rebuilds, each
followed by more appends, and wiping.

**`chain_crashes`** (MCChain, 18 789 states, `FairSpec`). Two forks which the
same two witnesses confirm, one of five and one of four blocks, plus a block
that fails early and one that fails late, delivered in any order and any number
of times to a node that may be killed at every step. `UndoChain`, `LogOnChain`,
`LoggedIsCommitted`, `StateIsReplayed` relate undo stack, revision, log, state
and the chain of the head; `IrreversibleStays` says what no step may do. The
node ends on the longest good fork it holds, unless one that leaves the
committed chain has come as far as its head (`FollowsLongest`). Every
`push_block` returns (`CallsReturn`), although pops meet an empty undo stack
here; and it ends with its block, with the head it found, or on the last
committed block when it switched below that (`UnwoundOrCommitted`). With
two witnesses the threshold is reached by either of them, so blocks become
irreversible within the tree and forks arrive that leave what is committed.

**`chain_partition`** (violation of `AllOrNothing`). Four witnesses, one of
which is cut off and builds three blocks of its own. A node that took them for
its chain gets the longer chain of the majority. When the switch makes a block
irreversible, that block is looked up along the head of the fork database,
which the pops have moved along the old fork; it is not found, and the
assertion throws, after `commit()`. What is committed cannot be undone, so the
push ends neither with its block nor with the head it found, against the
comment at `push_block`, "every partial change is unwound".

**`pending_forks`** (MCPending, 278 416 states). Two good forks, and a third
whose block repeats a transaction that has just expired; `pay` funds `spend`,
`other` spends the same funds and refers to a block of one fork only; blocks
have no room for all three. The pending session is always the result of
`_pending_tx` outside the window of `_generate_block` (`PendingIsApplied`), a
push loses no transaction that still applies (`NothingLost`), and no transaction
is on the chain twice (`NoReplay`), although the index of known transactions
drops it on expiration. `HeaderSize` is larger than `HeaderRoom`, as the header
with its witness and extensions is larger than the empty one for which
`_generate_block` makes room: a block that is too big for this reason is
generated and fails. `GeneratedApplies` says that no other does, if the head
did not change.

**`peersync_download`** (MCPeerSync, 204 778 states, `FairSpec`). Two peers. One
is reliable: it answers, stays connected, and its chain is good. The other
lacks a block it has offered, sends bad blocks, disconnects or comes back, and
leaves its branch for a longer one after it has told the node of two blocks.
`RequestsSound`: no block is requested from two peers at once, and the
shared set of requests holds those of open connections and, beyond them,
exactly the blocks that a peer refused: a closed peer has given its requests
back, while `on_item_not_available_message` never erases the block from the
shared set, so that nobody is asked for it again (section 5). `ListsSound`: what
is wanted from a peer is a piece of one branch, and the reference point of a
synopsis is a block of the chain or, in the only case in which the assertion at
`node.cpp:2727` fails (section 5), one that the delegate is about to push. `LonePeerIsFollowed`: a node whose only peer is the reliable one,
and that is advertised no single blocks, gets to that peer's head (section 5
tells what may stop it otherwise).

**`schedule_turns`** (MCWitnessSchedule, 29 984 states, with fairness). One
elected witness and two that take turns, changes of votes and keys, missed slots, and a hardfork.
`ScheduleSound` bundles what must agree: slots with time, the count of
participation with the ring of bits, the turns in a round, virtual times that
are neither in the past nor beyond a lap though they overflow. No hardfork
happens without the programs that know it (`HardforkSupported`). Every witness
with votes and a key is scheduled again and again (`VotedTakeTurns`), and a
hardfork whose time has come and that all know does happen
(`HardforkHappens`).

**`stake_upkeep`** (MCStake, 53 931 states). Power downs with routes,
delegations and their delayed return, proxies over two levels, votes, declined
voting rights and idle accounts, four operations in any order over three
blocks. Shares and tokens are conserved at the price of shares
(`StakeConserved`), the sums behind proxies and witnesses, the delegated and
received shares and the withdrawals covered by shares match the objects
(`SumsMatch`), and a power down that is due goes on or ends
(`WithdrawalProgresses`).

**`governance_consent`** (MCGovernance, 61 813 states). Three accounts whose
authorities refer to each other, one stolen key, recovery by a partner, and
proposals. Everything that was executed had the consent of each account it
needed, by the plain meaning of authorities (`OnlyByConsent`); a proposal that
is due and has it is executed (`RunsWhenDue`); who owned an account when it
asked for another recovery partner can take it back until the change is made
(`RecoverableUntilChanged`); nothing overdue and no orphan is left
(`NothingLeftBehind`).

**`ledger_maintenance`** (MCLedger, 52 562 states). Orders in two markets with
prices that do not divide, conversions both ways, savings, one withdrawal and
one escrow, and the maintenance of three blocks with two feeds, one of which
triggers the forced conversion of SBD. `ValidateInvariants` is the assertion of
`database::validate_invariants` on the supplies, which only tests call;
`BookSound` compares market balances and depths with the orders, none of which
may cross; `MakerGetsPrice` is about matching; `RequestsServed` about counters
and deadlines.

**`sales_upkeep`** (MCSales, 398 614 states). Subscriptions with and without
prepayment, orders to sell and to buy, one purchase that names another token
than its order is for, transfers, burning and one auction over four blocks. `Conserved`: the supplies are what purses, prepaid amounts, orders
and bets add up to. `CountersMatch`: counters and held balances are those of
the objects. `NothingStale`: an order to sell belongs to the owner of its
token, a bet to a running auction, a payment to a block to come; only the two
tokens of such a purchase are excepted from the first (section 5).
`AuctionGoesToBest`: an auction that ends goes to the highest of its own bets
(here only one token is auctioned; what bets on another do is the subject of
`sales_auctions`).

**`sales_auctions`** (violation of `Conserved`). `process_nft_bets` takes the
first bet whose token is not below the one of the auction that ends, and checks
only that there is one. Two auctions, of which only the second has a bet: the
first ends, its token goes to the bettor of the second, its owner is credited
with the price, and the bet pays again when the second auction ends. The total
of `validate_invariants` no longer equals the supply.

**`content_rewards`** (MCContent, 149 975 states). A post with a reply, more
posts, options, votes that are changed, votes against, deletions, claims, and
requests of workers; four blocks, each under any of three curves. `ContentSound`:
no balance is negative, the supplies are what accounts and funds add up to,
`total_reward_shares2` is what the waiting posts are worth, the counters of
replies and the references of bills and requests hold, the sums of a request
are those of its ballots, and nothing is overdue. `PayoutsFair`: a block pays
the posts that are due, once, and counts the requests whose time is over;
nobody gains who is not author, beneficiary, standing curator, one who delegates to these,
worker or producer; and nobody loses.

### Bounds

`MaxCells` bounds the block file, the sets of blocks bound the trees, `Slots`
the times at which the witness is scheduled, `MaxConnects` and the parameters
in `PeerSync_download.cfg` the connections and the requests at a time. In the
models of the state, `MaxOps`, `BlockOps` and `Budgets` bound the operations
between or over the blocks, and `MaxTime` the blocks. `Width` and `Cycle` bound
numbers that wrap around or are kept modulo. The bounds were chosen so that
every action and every disjunct of the next-state relations happens, and so
that each mutated definition is noticed; every deadline and every limit of the
code (`MaxRoutes`, `MaxVotes`, `MaxDepth`, `MaxChanges`, `MaxPerPeer`,
`MaxCanceled`) is small enough to be reached. What the instances leave out: in `pending_forks` the
witness has a single slot; in `sales_upkeep` only the first token is auctioned,
one collection is never deleted and has no
offers for any token; in `stake_upkeep` routes do not lead to voters;
in `content_rewards` no upvote is turned into a downvote (section 5 tells why). For
what the proofs cover, the bounds do not matter.

`CHECK_DEADLOCK FALSE` stands where the system or the bounded instance may
stop: `chain_crashes` (a node that cannot start has no step), `pending_forks`
(its slots and blocks are finitely many), `peersync_download` (a node that has
everything waits), `schedule_turns` (too few witnesses with keys: the assertion
of `update_witness_schedule` refuses every block), and the runs on the state of
the chain (at the last block and with no operations left).

### Fairness

* `chain_crashes`: weak fairness of `Internal`, the steps of a call that holds
  the write lock and of a starting node. Such a thread waits for nothing and
  runs on. Nothing is assumed about pushes or kills.
* `peersync_download`: one weak fairness condition for all of: a fiber of the
  node that can run, an answer of a peer that is not silent, an elapsed
  timeout, the connection of a reliable peer. It says only that not everything
  stops while one of them is possible; no fiber is preferred. Nothing is
  assumed about the other peers and their connections.
* `schedule_turns`: blocks keep coming while the schedule has a witness that
  can produce one. Which witness does, after how many missed slots, and what
  the block contains is free.

## 4. Proofs

Seven modules hold theorems about the specifications that the runs check, for
every value of the constants under the named assumptions:

* `BlockLog_proofs`: `MaxCellsAssumption` (a type);
* `ChainDatabase_proofs`: `BlockAssumption` (blocks are non-empty sequences of
  headers, closed under prefixes - every block tree), `NumbersAssumption`
  (types) and `WitnessAssumption` (a finite, non-empty set of witnesses);
* `WitnessSchedule_proofs`: `HardforkAssumption`, `ScheduleAssumption`,
  `LapAssumption` and `ClockAssumption` (types, positive periods, and a schedule
  with more places than elected witnesses or as many);
* `PendingTransactions_proofs`: `TxAssumption` (types) and
  `ForeignAssumption` (a tree of blocks over the root, which is block 1 and
  empty);
* `Governance_proofs`: `AuthorityAssumption` (finitely many accounts, positive
  thresholds), `PeriodAssumption` (positive periods), `StartAssumption` (no
  request, change or history at the start) and `InputAssumption` (types);
* `PeerSync_proofs`: `PeersAssumption` (finitely many peers), `BlockAssumption`
  (every block tree) and `ParametersAssumption` (types; limits above zero);
* `Ledger_proofs`: `AccountAssumption` (finitely many accounts),
  `BalanceAssumption`, `AssetAssumption` and `LimitAssumption` (types), `TimeAssumption` (requests
  wait for at least one block), `RateAssumption` (rates of fees; the forced
  conversion takes less than everything, see section 5) and `InputAssumption`
  (what `validate()` of the operations and of the feeds lets through: positive
  amounts and prices, two different assets in an order).

**`ReadsByNumberHolds`**: `Spec => []ReadsByNumber`, for kills at any point,
also while the main file is written: the log may forget blocks but never
returns a wrong one. `ReadsByNumber` speaks only of an open log; to carry it
through a kill one must know what a closed file may look like. `IndInv` adds:
`MarksSound` (a marker is unwritten or names its own record), `ScanInOrder` (as
long as the scan meets no unwritten marker, record *i* is block *i*),
`OpenState` (how far the running append has got) and `ClosedState` (if the last
words of the two files agree, the index is right - which is the check that
`open` relies on).

**`DurableHolds`**, **`ReconstructibleHolds`**, **`AppendOnlyHolds`**:
`Spec` implies `[]Durable`, `[]Reconstructible` and `AppendOnly`, for a log of
any size and kills at any store. `MainStep` says what a step does to the main
file: nothing, one more cell at its end, a store into the cell of the running
append, or a wipe. So a complete record stays as it is (`FileKeeps`), and with
it what was acknowledged (`Kept`); and where no record was abandoned `OpenState`
says that the head is the last record and `ScanInOrder` that this is the
highest number. `open` throws at a wrong marker before the record that the last
one names, and by `MarksSound` that is the last record or the first. For the
refinement, `StoredInOrder` shows that a scan reads blocks 1, 2, ... in order,
and `StoredStep` that a step leaves what it reads, adds the next block to it or
empties it. That an append after a lost head adds nothing to it is the case
that needs `Abandoned`: the new record lies behind the abandoned one.

**`UndoChainHolds`**, **`LoggedIsCommittedHolds`**, **`IrreversibleStaysHolds`**:
the undo stack holds the states of consecutive ancestors of the head, one per
revision; only committed blocks are logged; no push of a running node leaves
the chain of the last committed block. These hold even in the failures of the chain
database that section 5 describes. The inductive invariant is
`TypeOK /\ UndoChain /\ LoggedIsCommitted /\ LogNumbers /\ JobInv /\ StartInv`.
`UndoChain` alone is not inductive: that the session for a block is pushed on
the state of its parent depends on what `job` means at each `pc` (`JobInv`),
that a logged block is committed depends on `commit()` having run before the
loop (`JobInv` at `"log"`), and a replay works without sessions on a log whose
numbers are its positions (`StartInv`, `LogNumbers`). The step from
`ConfirmedByThreshold`, a `CHOOSE` over the confirmed numbers, to a number not
above the head rests on lemmas of `FoldFacts` about the least and the greatest
element of a set of naturals.

**`StateIsReplayedHolds`**: `Spec => []StateIsReplayed`: after any pushes,
switches, failed switches, kills and replays the state, and every state that
can still be undone to, is the one that applying the blocks of its chain from
the genesis leads to. The property is inductive on top of `IndInv`, which
supplies that the next block follows the head (`NextBlockFacts`).
`ReplayedStep` is the heart of it: what a replay up to a block computes is one
`StateAfter` on what it computes up to the block before, for which the fold of
`Replayed` goes through `FoldFacts`. A replay compares the previous block with
the head, as every `apply_block` does: that is why this holds even of a log
whose blocks were not one chain.

**`HardforkSupportedHolds`**: `Spec => []HardforkSupported`. Votes are given in
headers, counted at the end of a round among the witnesses of the schedule, and
take effect at the first block after the hardfork's time, so the property alone
is far from inductive. `VoteInv` adds: the *next* hardfork, once counted, has
support as well (`Enough`); a witness never votes for more than its last block
knew, which holds because a program older than the last hardfork cannot produce
a block (`VotesSound`, from `Able`); and a schedule holds a witness once
(`Distinct`), so that a majority of places is as many witnesses
(`MajorityKnows`).

**`QueueInOrder`**: `Spec => [](NeverInThePast /\ WithinLap)`, two parts of
`ScheduleSound`, for any width of the virtual times. `RunInv` says of every
witness that its scheduled time is not later than the end of its lap at its
present speed. Together with "not in the past" that bounds the way it has run,
with rounding and the two overflows that the code handles (`AdjustVoteRuns`,
`NextLapRuns`). That nobody is left behind when virtual time goes on rests on
`PassedFirst`: the walk passes everyone scheduled earlier than one it passed.

**`SlotsCounted`**: `Spec => [](SlotsFollowTime /\ ParticipationCounts)`, two
more parts of `ScheduleSound`, for any interval, window and cycle. `SlotAtFacts`
says that `get_slot_at_time` counts whole slots wherever in its slot the head
block came, `QuotientOfRemainder` that this survives the cycle after which the
model counts from 0 again, and `FillSlotsFacts` that the bits that leave the
window are those that are subtracted, also when more slots are missed than the
window holds.

**`ScheduleSoundHolds`**: `Spec => []ScheduleSound`, the two theorems above with
the remaining parts, for every instance with at least as many witnesses as the
schedule has places; **`TypeCorrect`**, `Spec => []TypeOK`, does without that
condition. With fewer witnesses a round has more blocks than the schedule has
witnesses, so `TurnsAreShared` cannot hold. `TurnInv` speaks of every suffix of
the round and not only of the whole of it, because a slot missed in the middle
of a round leaves the latest `j` slots filled all the same: while they are, the
witnesses with a block among the last `j` are those whose turns these slots
were. It rests on three facts. A schedule is full: `ActiveSize` shows that the
walk in the order of virtual time, elected witnesses included, stops at
`MaxWitnesses` and not before. Turns go round: `NextPositions` and
`PositionFacts` show that the slots of a round fall on different places of the
schedule, also where the model's slots start again at 0. And a bit at the end of
the window was set by the slot next to the head block (`ConsecutiveFacts`).
`PlaceInv` has the types for that, among them that the middle of the witnesses'
proposals exists (`MedianFacts`) and that a round begins with a block that makes
a new schedule (`BlockPlaces`).

**`NoReplayHolds`**: `Spec => []NoReplay` of PendingTransactions, for any tree
of blocks, any transactions and any interleaving of the threads. `NoReplay`
speaks of the chain of the state; a switch of forks goes back to states that
were saved long ago, with their own index of known transactions, so `AllCovered`
says it of the state and of every saved one: a transaction on the chain is in
the index or has expired. Why that suffices is a matter of one step
(`ApplyGoodStep`, `BlockOnTop`): who is not in the index has expired
before the head, and `validate_transaction` refuses what has.

**`PendingIsAppliedHolds`**: `Spec => []PendingIsApplied`: outside the window
of `_generate_block` the session on top of the head is the result of `_pending_tx`.
`JobInv` adds that no session is open while a push runs, and what its locals
mean. `PushGood` is the invariant of the loop that pushes the old pending
transactions again: what it has kept so far, applied from the start, gives the
state it has reached - the sequence it keeps is not the one it walks over.

**`RecoverableUntilChangedHolds`**: `Spec => []RecoverableUntilChanged` of
Governance: who owned the account when it asked for another recovery partner
can take the account back until the change is made. What makes it inductive is
`Outlives`: the authority that asked is the owner's, or is in the history until
after the change, because `remove_expired_owner_history` and
`account_recovery_processing` measure with the same period, and the entry is
made later than the request. It must hold between any two operations of a
proposal, and between the proposals of a block, so the lemmas are about one
operation on any database (`AppliedKeeps`) and go along the two folds.

**`NothingLeftBehindHolds`**: `Spec => []NothingLeftBehind`: the table of
required approvals is that of the proposals that exist, and nothing is overdue
between blocks. `ProposalsInv` adds that ids are unique, without which removing
the rows of one proposal could take those of another.

**`RequestsSoundHolds`**, **`ListsSoundHolds`**: `RequestsSound` and
`ListsSound` of PeerSync, for any number of peers, any tree of blocks and any
limits. The invariant, `IndInv`, ties together what a dozen handlers keep apart:
`Tracked` says of a connection that its list is a branch, that what left the
list is in the chain or with the delegate, that the last block it is known to
have seen is too, and that an open request for ids asked with nothing but such
blocks. The last one is what makes the answer, which comes any number of steps
later, safe to be merged (`MergeIdsFacts`): it starts with a block of the
request, so what the node has seen of the peer stays behind what it wants from
it. `RequestsInv` adds that the shared set holds every request of a peer and
everything a peer refused;
`Division` is the invariant of the walk of `fetch_sync_items_loop` over the
peers, `SpacedFacts` says of the numbers in a synopsis, a recursion that jumps
half of the rest, that they grow and end at the top. An attempt to prove the
assertion at `node.cpp:2733` in the place of `SeenIsHandled` failed, and TLC
found why (section 5).

**`SuppliesAddUp`**, **`Served`**: `Spec => []ValidateInvariants` and
`Spec => []RequestsServed`, for any accounts, assets, prices, rates and
operations. The invariant, `IInv`, is `Sound(db)` with the deadlines (`OnTime`).
Besides the balance of the supplies (`Balanced`), `Sound` says:

* every owner's ids are unique (`Keyed`). The model's tables are sets of
  records, so two equal rows would be one, and an amount would vanish from the
  sum;
* an escrow that both sides have approved has no pending fee (`FeesPaid`).
  `escrow_release` deletes the row without a look at the fee, so this alone
  keeps a fee from being lost;
* `savings_withdraw_requests` is the number of withdrawals (`Counted`).

Every operator on the ledger comes with a lemma that says which amounts it moves
(`FillOrderDoes`, `MatchDoes`, `CreatedDoes`, `AdjustTotal`...), and every action
with one that says that it keeps `IInv`. `FillOrderDoes` shows that the dust of
an order which can buy nothing any more goes back to its owner, `MatchDoes` that
what one side pays is what the other gets and the fee, whatever the roundings
are, `ApplyOrderDoes` takes this along the orders that the new one meets. The
forced conversion changes each row by itself and the supplies by sums over the
same rows (`DebtDoes`). It needs that a sum of sums is the sum over both
(`SumOfSums`), that what every owner gets adds up to the whole (`SumOfShares`),
and that changing every row of a table by a map that merges none changes a sum
row by row (`SumOfImage`), where `Keyed` is needed once more. The proof found the
model wrong in one place: it applied blocks when all STEEM was gone, where the
code divides by zero.

**`BookStaysSound`**: `Spec => []BookSound`. What is added to `IInv` is
`Booked(db)`, of which every part needs the others:

* market balances and depths have no gap to the sums over the orders
  (`NoGaps`). A depth is kept for a pair by amounts that are computed again
  from each changed order, with their own rounding, and while an order is
  matched its own depth is not yet added; the lemmas speak of the gap, which
  operators leave as it is (`SameGaps`), so that `CreatedGaps` can open it and
  close it again;
* no balance is negative and every order sells something and buys something
  (`Solvent`). That a match takes no more than an order has left, and that the
  fee is no more than what it is taken from (`PaysBelow`, `TradeFeeBelow`), are
  bounds on quotients of products;
* no two orders could trade (`Uncrossed`): an order that the new one met is used
  up or the new one is (`UsedUp`, `GoneStays`), because the one that is worth
  less is paid whole and its dust goes back;
* savings, conversions, withdrawals and escrows owe nothing (`Funded`). The
  forced conversion leaves something of what is more than nothing, as its rate
  is below the whole (`PartBelow`).

That the supplies are not negative then follows from their balance
(`TotalIsNat`).

**`MakerPaid`**: `Spec => MakerGetsPrice`, the action property, from the same
`BookInv`. In one match the book pays no more than its price but for the
rounding of one unit (`TradePrice`), both fees are taken from what is received
and go to nobody's loss (`MatchTrades`), and dust that is refunded moves from the
market balance to the balance (`CancelOrderHas`). A new order meets several
orders, so the proof goes along the loop of `apply_order`: before the order of
the seller is met, its seller has at least what it had (`Untouched`); when it is
met, the price holds (`MatchOfMaker`); afterwards the trades of others, whose
fees the seller may even get as the creator of an asset, only add to it
(`PriceStands`). That each order is met once, and is then still as it was in the
book, comes from `Applied`.

Sums are `SumFunction` of the community modules, which is a fold over a set.
`FoldFacts` says of such a fold, for any operator, what it does for the empty
set and for a set without one element (`FoldOverStep`), and proves induction on
finite sets for a set of sets (`SetInduction`), because the theorem of the
library takes an operator; the first part of `Ledger_proofs` derives from these
what is known of sums.

The loops of the code are folds in the models (`FoldLeft`). A theorem by
induction over their length takes the loop's body as an operator, which the
provers cannot instantiate; `FoldFacts` therefore has the body as a constant
`op` of the module, proves induction along a fold from the definition
(`FoldRow`, `FoldAlong`, `FoldKeeps`, `FoldAppend`, `FoldOfContext`), and a proof takes
`INSTANCE FoldFacts WITH op <- ...` for each of its loops. `SetToSortSeq` and
`SelectSeq` are folds or recursions that the prover cannot look into, so what
is proved about does not use them: an order is a member of the set of orders
(`SetToSeqs`), and a selection is a fold.

Only model-checked: all liveness (`CallsReturn`, `LonePeerIsFollowed`,
`VotedTakeTurns`, `HardforkHappens`), which under fairness is out of the prover's
reach; `FollowsLongest` and `UnwoundOrCommitted`, which depend on how the fork
database is trimmed and where a switch can fail; `NothingLost`, which a
transaction that is pushed before one it needs would break, and
`GeneratedApplies`; `OnlyByConsent` and `RunsWhenDue`, which compare the walk over signatures
and authorities with a least fixpoint; `TurnsAreShared` is proved under the
condition that it needs, enough witnesses for the schedule.
`LogOnChain` and the properties of Stake, Sales and Content are not proved yet; most of the last ones speak of
sums, for which the lemmas of `Ledger_proofs` are there now.

## 5. Observations

Met while the code was read or while TLC ran. Entries marked (run) happen in a
run of section 3, whose property is violated or says exactly what the code
does in that case. The others were met in instances that the final
configurations do not keep; where an instance avoids one, section 3 says so.

Storage and pending transactions:

* (run: `blocklog_kills`, `Durable`) A process killed between `resize()` of the
  main file and the store of the marker leaves zeros in its last eight bytes, which reads as "the head starts
  at position 0": the reopened log has block 1 as its head (`block_log.cpp:221`;
  the header says "The head block of the file can be found by seeking to the
  position contained in the last 8 bytes"). The blocks are still in the file,
  and the next ones are appended behind them under the numbers from 2 on.
* (run: `blocklog_kills`, `Reconstructible`) Once an abandoned record lies in the middle of the main file, an index that
  has to be rebuilt cannot be: `construct_index` scans linearly and throws at
  the unwritten marker.
* (run: `chain_partition`, `AllOrNothing`) A minority fork of three blocks
  keeps a push from being unwound. In the switch back to
  the majority `pop_block` has moved the head of the *fork database* along the
  old fork, so the block that is to be logged is not on its main branch and the
  assertion in `update_last_irreversible_block` throws - after `commit()`
  (`database.cpp:5464`). The comment at `push_block` says that "every partial
  change is unwound".
* A node killed between the last `apply_block` of `reindex` and its
  `set_revision` has a revision below its head and a head equal to the head of
  the log. The next start does not wipe the state, begins the replay behind the
  last block and reads a block that does not exist, and so does every later
  start (`database.cpp:326`).
* (run: `pending_forks`, `GeneratedApplies`) `_generate_block` reserves for the
  header the size of an empty header and four
  bytes, but the header it signs holds the witness name and extensions
  (`database.cpp:1511`). A full block is too big for its own node.
* A block that arrives between the selection and the signature makes the
  generated block fail; its removal leaves the head of the fork database on a
  removed block, a second delivery of the chain's head is removed from the
  index too, and the next block cannot be linked. `fork_database::remove`
  leaves `_head` as it is.

Network:

* (run: `peersync_download`, `ListsSound`) The assertion in
  `on_blockchain_item_ids_inventory_message` "all we can expect
  is that it is a block that we knew about" (`node.cpp:2727` ff) does not hold:
  a block that another peer delivered leaves the list for the delegate
  while the ids are awaited, and if the peer has switched at that block,
  the block becomes the reference point before the chain has it. (In the
  run: two ids of the first branch listed, the reliable peer delivers block 1,
  the other peer switches and answers.) If the ids that follow do not suffice
  either, the next synopsis throws on the unknown block and the connection is
  closed (`conn = "terminating"` in `FetchIds`). With answers of 2000 ids that
  needs a deep fork.
* A backlog block that was accepted in another way is never removed from the
  backlog and ends the loop (`node.cpp:3377`), so with two reliable peers the
  node may stop below their heads until something else wakes it.
* `item_ids_requested_from_peer` is overwritten by a second request, so an
  honest peer's answer to the first counts as invalid (`node.cpp:2561` ff).
* A round of the loop for sync items that runs while a single block is
  requested from the peer is never triggered again when that request is over
  (`node.cpp:3593`); a backlog left by a closed peer wakes nobody.
* (run: `peersync_download`, `RequestsSound`) `on_item_not_available_message`
  erases a block from the requests of the peer but not from
  `_active_sync_requests`, so `fetch_sync_items_loop` asks nobody for it again
  (`node.cpp:2917`).
* `terminate_inactive_connections_loop` leaves the loop over the requests with
  a `break`; exceptions of `handle_block` other than the ones it catches leave
  the block in the set of blocks being handled.

Stake and schedule:

* Routes that vest add votes of the receiver before the votes of the source are
  taken; with votes near the total the assertion in `adjust_witness_vote`
  refuses the block (`database.cpp:2713`).
* `reject_vesting_shares_delegation` passes the payout strategy in the place of
  `is_emission`; a delegation of zero where there is none reads through a null
  pointer; routes to the account with id 0 are skipped; a loop of proxies is
  detected through a pointer to a copy that is gone. Integer division of votes
  over several witnesses drifts.
* The assertion on the size of the schedule stops the chain when too few
  witnesses have keys (`database.cpp:2199`); a participation of 75 % as in
  `config.hpp:383` is not guaranteed by anything; a missed block is not counted
  if the producer of the next one is the witness that missed it.

Authorities:

* `remove_vesting_routes`, part of account recovery, starts at the upper bound of
  the account's routes and removes none (`steem_evaluator.cpp:2866`).
* A proposal approved through `account_auths` alone never marks the approval as
  used, so it is refused as irrelevant when there is no review period, and
  approvals that an account gave under an authority that was replaced by
  recovery still count.

Sales:

* (run: `sales_auctions`, `Conserved`) The end of an auction without bets takes
  a bet on another token (`database_nft_objects.cpp:168`).
* (run: `sales_upkeep`, `NothingStale`) `nft_buy` finds its order by the token and the number that the operation
  names, serves the token of the order, but clears the orders of the token in
  the operation.
* `nft_auction` does not check that a token is burnt; the auction of a burnt
  token of a deleted collection makes `process_nft_bets` throw in every block.
* Orders for any token of a collection outlive the collection, can then not be
  cancelled, and their counter can drop below zero. A bet that is cancelled
  extends an auction each time.

Rewards and workers:

* With the curve `linear`, the default, an upvote that was changed into a
  downvote enters the weight as an unsigned number and wraps around
  (`curation_info.cpp:28`), although `curation_info.hpp` says "0 if a negative
  vote or changed votes".
* `delete_comment` does not remove the bill, and `comment_options` on an
  archived post makes a new one; neither is ever removed.
* With `worker_request_approve_min_percent` at 0, which the median properties
  permit, and no votes, counting divides by zero in the block
  (`WorkersAssumption` excludes it). An edit may set the end of voting in the
  past; the next block counts then, which `PayoutsFair` allows for.
* `clear_worker_request_votes` reads an enumerator where it means the post.

Ledger:

* In `process_sbd_debt_conversions` a conversion rate of 100 % removes a
  withdrawal and then reads it (`RateAssumption` excludes that rate). The same
  code pays a part of the pending fee of an escrow at once, while the fee is
  meant to be paid on approval of all parties (`database.cpp:3900`).

## 6. Not modelled

* Of the network: checks on implausible numbers of blocks, disconnects around
  hardforks, handshake, addresses, transactions as items.
* Of schedule and hardforks: miners, the scheduling before hardfork 4, median
  properties, `majority_version`.
* Of authorities and proposals: nested proposals, the account "temp", a
  threshold of 0, challenging and proving authority.
* Of content: voting power and bandwidth, edits, reputation, emission
  delegations, donations, the removal of old ballots; hardforks below 0.30.
* Invites and the freezing of accounts, and broadcast callbacks: small, and not
  reached yet.
* API plugins and exporters derive data and write nothing back. Serialisation,
  sockets, encryption, HTTP and the wallet are I/O.
* chainbase, fc and appbase are submodules that are not in the repository; undo
  sessions are modelled from how `database.cpp` uses them and are marked
  external in the map. A kill in the middle of one `apply_block` of a replay,
  which has no session, leaves a torn state that the models cannot represent.

Most of the repository's lines are tables of words, reflection macros, API
plugins, exporters, the wallet and tests of single operations; the map covers
about a tenth of the rest.

## 7. Plan

Done, in this order: (1) block log with its abstract specification and proof;
(2) fork and chain database with proof; (3) pending transactions; (4) market
and ledger; (5) P2P synchronisation; (6) witness schedule and hardforks;
(7) stake; (8) authorities, recovery and proposals; (9) subscriptions and
tokens; (10) content, rewards and workers.

Next: invites and freezing; broadcast callbacks; several nodes over one block
tree, with an abstract "irreversible chain" that the composition implements as
long as no switch crosses the last irreversible block; the composition of
`Stake` and `Content`, so that delegations change while posts are paid.

Theorems to come: `LogOnChain` under the condition that no switch crosses the
last irreversible block; the sums of Stake and Sales;
`OnlyByConsent`.

## 8. Running

In this directory, `tlc -workers 2 -config <file>.cfg <module>` checks a run
(`PROJECT.json` names the module of each), and `tlapm <module>.tla` checks the
proofs of `BlockLog_proofs` (1164 obligations), `ChainDatabase_proofs` (1574),
`WitnessSchedule_proofs` (2443), `PendingTransactions_proofs` (1068),
`Governance_proofs` (900), `PeerSync_proofs` (3171), `Ledger_proofs` (6894)
and `FoldFacts` (480): some minutes for the larger ones.
