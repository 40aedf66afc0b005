--------------------------- MODULE WitnessSchedule ---------------------------
(***************************************************************************)
(* Who produces the next block: slots, the schedule of the witnesses with  *)
(* its virtual time, the signing keys of witnesses that miss their turns,  *)
(* the median of their chain properties and the votes for a hardfork       *)
(* (libraries/chain/database.cpp after hardfork 0.28, without miners).     *)
(*                                                                         *)
(* Behaviours never end, so what grows for ever is kept modulo a number:   *)
(* the block number modulo MaxWitnesses, the time and current_aslot modulo *)
(* Cycle slots, the number of blocks since the last one of a witness up to *)
(* a limit.                                                                *)
(***************************************************************************)
EXTENDS HardforkVoting, SequencesExt

CONSTANTS
    Witnesses,      \* the number of witnesses
    MaxVoted,       \* STEEMIT_MAX_VOTED_WITNESSES
    MaxWitnesses,   \* STEEMIT_MAX_WITNESSES
    Interval,       \* STEEMIT_BLOCK_INTERVAL, in units of the clock
    Window,         \* the bits of recent_slots_filled
    Width,          \* the bits of a virtual time
    Cycle,          \* slots after which the model counts from 0 again
    ResetBlocks,    \* witness_skipping_reset_time each witness proposes, in blocks
    InitVotes,      \* the votes of the witnesses at first
    MaxVotes,       \* bound of the votes of a witness
    MaxGap,         \* bound of the time between two blocks
    Budgets         \* bounds: how often votes, keys and binaries change, slots are missed

Witness == 1..Witnesses         \* in the order of their ids and of their names

ASSUME ScheduleAssumption ==
    /\ Witnesses \in Nat \ {0}
    /\ MaxWitnesses \in Nat \ {0, 1} /\ MaxVoted \in 1..MaxWitnesses
    /\ MaxGap >= Interval * MaxWitnesses
    /\ \A n \in 1..MaxWitnesses : Cycle % n = 0
    /\ ResetBlocks \in [Witness -> Nat]
    /\ InitVotes \in [Witness -> 0..MaxVotes]
ASSUME ClockAssumption == Interval \in Nat \ {0} /\ Cycle \in Nat \ {0} /\ Window \in Nat

VARIABLES
    wit,            \* the witness_objects: votes, key (signing_key is set), pos, upd and
                    \* vst (virtual_position, _last_update, _scheduled_time), age (blocks
                    \* since last_confirmed_block_num), running, hfVote
    vt,             \* current_virtual_time
    shuffled,       \* current_shuffled_witnesses
    resetBlocks,    \* median_props.witness_skipping_reset_time in blocks
    round,          \* head_block_num modulo MaxWitnesses
    time,           \* the time of the head block
    aslot,          \* current_aslot
    filled,         \* recent_slots_filled, the latest bit last
    participation,  \* participation_count
    hf,             \* the hardfork_property_object
    binary,         \* the newest hardfork each witness's program knows
    due,            \* the last hardfork whose time has come
    budget          \* what is left of a member of Budgets

schedule == <<wit, vt, shuffled, resetBlocks, round>>
slots == <<time, aslot, filled, participation>>
vars == <<schedule, slots, hf, binary, due, budget>>

Lap == 2^Width - 1              \* VIRTUAL_SCHEDULE_LAP_LENGTH2, max_value() of the type
ASSUME LapAssumption == Lap \in Nat
AgeLimit == Max({ResetBlocks[w] : w \in Witness} \cup {MaxWitnesses}) + 1
Bit == {0, 1}
Num(s) == Max({Len(s), 1})      \* num_scheduled_witnesses
-----------------------------------------------------------------------------
\* Virtual time

\* A mutated form of AdjustVote: a time that overflows is left in the past.
AdjustVoteWraps(ws, w, delta) ==
    LET votes == Max({ws[w].votes + delta, 0})
        pos == ws[w].pos + ws[w].votes * (vt - ws[w].upd)
        vst == (vt + (Lap - pos) \div (votes + 1)) % (Lap + 1)
    IN  [ws EXCEPT ![w].votes = votes, ![w].pos = pos, ![w].upd = vt, ![w].vst = vst]

\* A mutated form of AdjustVote: the way run since the last update is lost.
AdjustVoteStands(ws, w, delta) ==
    LET votes == Max({ws[w].votes + delta, 0})
        pos == ws[w].pos + votes * (vt - ws[w].upd)
        vst == (vt + (Lap - pos) \div (votes + 1)) % (Lap + 1)
    IN  [ws EXCEPT ![w].votes = votes, ![w].pos = pos, ![w].upd = vt,
                   ![w].vst = IF vst < vt THEN Lap ELSE vst]

\* adjust_witness_vote, as far as the virtual time goes.
AdjustVote(ws, w, delta) ==
    LET votes == Max({ws[w].votes + delta, 0})
        pos == ws[w].pos + ws[w].votes * (vt - ws[w].upd)
        vst == (vt + (Lap - pos) \div (votes + 1)) % (Lap + 1)
    IN  [ws EXCEPT ![w].votes = votes, ![w].pos = pos, ![w].upd = vt,
                   ![w].vst = IF vst < vt THEN Lap ELSE vst]

\* reset_virtual_schedule_time
Reset(ws) ==
    [w \in Witness |-> [ws[w] EXCEPT !.pos = 0, !.upd = 0, !.vst = Lap \div (ws[w].votes + 1)]]
-----------------------------------------------------------------------------
\* update_witness_schedule4

\* The order of the index by_vote_name
MoreVotes(ws, a, b) == ws[a].votes > ws[b].votes \/ (ws[a].votes = ws[b].votes /\ a < b)

\* The order of the index by_schedule_time
Earlier(ws, a, b) == ws[a].vst < ws[b].vst \/ (ws[a].vst = ws[b].vst /\ a < b)

Keyed(ws) == {w \in Witness : ws[w].key}

\* The highest voted witnesses that have a signing key.
Elected(ws) == {w \in Keyed(ws) : Cardinality({x \in Keyed(ws) : MoreVotes(ws, x, w)}) < MaxVoted}

\* The witnesses the walk in the order of virtual time passes until the
\* schedule is full, those it skips included.
Processed(ws) ==
    {w \in Witness :
        Cardinality(Elected(ws) \cup {x \in Keyed(ws) : Earlier(ws, x, w)}) < MaxWitnesses}

Active(ws, passed) == Elected(ws) \cup (passed \cap Keyed(ws))

\* The virtual time after the walk: "everyone advances to at least this time".
Reached(ws, passed) == IF passed = {} THEN vt ELSE Max({ws[w].vst : w \in passed})

\* A witness that was passed starts a new lap; one overflow resets them all.
Overflows(ws, passed) ==
    \E w \in passed : Reached(ws, passed) + Lap \div (ws[w].votes + 1) > Lap

\* A mutated form of NextLap: a witness that had its turn does not start again.
NextLapStays(ws, passed) == IF Overflows(ws, passed) THEN Reset(ws) ELSE ws

NextLap(ws, passed) ==
    LET now == Reached(ws, passed)
    IN  IF Overflows(ws, passed) THEN Reset(ws)
        ELSE [w \in Witness |->
                IF w \in passed
                THEN [ws[w] EXCEPT !.pos = 0, !.upd = now, !.vst = now + Lap \div (ws[w].votes + 1)]
                ELSE ws[w]]

NextTime(ws, passed) == IF Overflows(ws, passed) THEN 0 ELSE Reached(ws, passed)

\* update_median_witness_props, for one property: what nth_element puts in the
\* middle of the active witnesses.
MedianProps(active) ==
    LET middle == Cardinality(active) \div 2
    IN  CHOOSE n \in {ResetBlocks[w] : w \in active} :
            /\ Cardinality({w \in active : ResetBlocks[w] < n}) <= middle
            /\ Cardinality({w \in active : ResetBlocks[w] <= n}) > middle

\* update_witness_schedule4.  The assertion that as many witnesses are active as
\* there could be fails the block.  The shuffle is any permutation.
NewSchedule(ws) ==
    \E passed \in {Processed(ws)} : \E active \in {Active(ws, passed)} :
        /\ Cardinality(active) = Min({MaxWitnesses, Witnesses})
        /\ wit' = NextLap(ws, passed)
        /\ vt' = NextTime(ws, passed)
        /\ shuffled' \in SetToSeqs(active)
        /\ resetBlocks' = MedianProps(active)

\* update_witness_schedule, every MaxWitnesses blocks.
UpdateSchedule(ws) ==
    \/ round' = 0 /\ NewSchedule(ws)
    \/ round' # 0 /\ wit' = ws /\ UNCHANGED <<vt, shuffled, resetBlocks>>
-----------------------------------------------------------------------------
\* Slots

\* A mutated form of SlotAt: slots are counted from the time of the head block,
\* not from the slot it is in.
SlotAtUnaligned(t) == IF t < time + Interval THEN 0 ELSE (t - time) \div Interval

\* get_slot_at_time and get_slot_time: 0 before the first slot after the head block.
SlotAt(t) ==
    LET first == (time \div Interval) * Interval + Interval
    IN  IF t < first THEN 0 ELSE (t - first) \div Interval + 1

\* get_scheduled_witness
Turn(n) == shuffled[((aslot + n) % Num(shuffled)) + 1]

\* The slots missed before slot n cost witnesses their key when they have not
\* confirmed a block for too long; w signs the block of slot n.
MissTurns(ws, w, n) ==
    LET missed == {Turn(i) : i \in 1..(n - 1)} \ {w}
    IN  [x \in Witness |->
            [ws[x] EXCEPT !.key = @ /\ ~(x \in missed /\ ws[x].age > resetBlocks)]]

Sum(bits) == Cardinality({i \in DOMAIN bits : bits[i] = 1})

\* A mutated form of FillSlots: bits leave the window uncounted.
FillSlotsOnly(n) ==
    LET all == filled \o <<1>> \o [i \in 1..(n - 1) |-> 0]
    IN  /\ filled' = SubSeq(all, n + 1, n + Window)
        /\ participation' = participation + 1

\* A mutated form of FillSlots: only one bit that leaves is counted.
FillSlotsOnce(n) ==
    LET all == filled \o <<1>> \o [i \in 1..(n - 1) |-> 0]
    IN  /\ filled' = SubSeq(all, n + 1, n + Window)
        /\ participation' = participation + 1 - Head(filled)

\* The loop of update_global_dynamic_data over the slots up to n.
FillSlots(n) ==
    LET all == filled \o <<1>> \o [i \in 1..(n - 1) |-> 0]
    IN  /\ filled' = SubSeq(all, n + 1, n + Window)
        /\ participation' = participation + 1 - Sum(SubSeq(all, 1, n))

\* update_signing_witness; the numbers of the blocks are relative to the head.
Confirm(ws, w) ==
    [x \in Witness |-> [ws[x] EXCEPT !.age = IF x = w THEN 0 ELSE Min({@ + 1, AgeLimit})]]
-----------------------------------------------------------------------------
Able(w) == wit[w].key /\ binary[w] >= hf.last

\* The turns up to slot n that somebody who could have taken them misses.
Missable(n) == {i \in 1..(n - 1) : Able(Turn(i))}

\* The witnesses after the header of a block of witness w.
Header(w) == ProcessHeader(wit, w, binary[w], hf)

\* _apply_block for a block of witness w at time t; ws are the witnesses after
\* its header and its transactions.
ApplyBlock(w, t, ws) ==
    LET n == SlotAt(t)
    IN  \E signed \in {Confirm(MissTurns(ws, w, n), w)} :
        /\ time' = t % (Interval * Cycle)
        /\ aslot' = (aslot + n) % Cycle
        /\ FillSlots(n)
        /\ round' = (round + 1) % MaxWitnesses
        /\ UpdateSchedule(signed)
        /\ hf' = ProcessHardforks(IF round' = 0 THEN CountVotes(hf, signed, shuffled) ELSE hf, due)
        /\ UNCHANGED <<binary, due>>

\* The budget after the turns missed up to time t and one more change of kind k.
Spend(t, k) ==
    LET missed == Cardinality(Missable(SlotAt(t)))
    IN  /\ budget.misses >= missed
        /\ k # "none" => budget[k] > 0
        /\ budget' = [f \in DOMAIN budget |->
                        budget[f] - (IF f = "misses" THEN missed ELSE IF f = k THEN 1 ELSE 0)]

\* validate_block_header: the times at which w may sign a block.
Times(w) ==
    {t \in (time + 1)..(time + MaxGap) : SlotAt(t) > 0 /\ w = Turn(SlotAt(t)) /\ Able(w)}

\* A block that changes no witness.
PlainBlock(w) ==
    \E t \in Times(w) : Spend(t, "none") /\ ApplyBlock(w, t, Header(w))

\* A block in which the votes of a witness change to v.
VoteBlock(w) ==
    \E t \in Times(w), x \in Witness, v \in 0..MaxVotes :
        /\ v # wit[x].votes
        /\ Spend(t, "votes")
        /\ ApplyBlock(w, t, AdjustVote(Header(w), x, v - wit[x].votes))

\* A block with a witness_update_operation that sets or removes a signing key.
KeyBlock(w) ==
    \E t \in Times(w), x \in Witness :
        /\ Spend(t, "keys")
        /\ ApplyBlock(w, t, [Header(w) EXCEPT ![x].key = ~@])

\* A witness installs a newer program.
Upgrade(w) ==
    /\ binary[w] < LastHardfork /\ budget.upgrades > 0
    /\ binary' = [binary EXCEPT ![w] = @ + 1]
    /\ budget' = [budget EXCEPT !.upgrades = @ - 1]
    /\ UNCHANGED <<schedule, slots, hf, due>>

\* The time of the next hardfork comes.
TimeComes ==
    /\ due < LastHardfork
    /\ due' = due + 1
    /\ UNCHANGED <<schedule, slots, hf, binary, budget>>

\* Just after a reset of the virtual time.
Init ==
    LET fresh == [w \in Witness |->
                    [votes |-> InitVotes[w], key |-> TRUE, pos |-> 0, upd |-> 0, vst |-> 0,
                     age |-> 0, running |-> 0, hfVote |-> 0]]
    IN  /\ vt = 0
        /\ wit = Reset(fresh)
        /\ shuffled \in SetToSeqs(Active(wit, Processed(wit)))
        /\ resetBlocks = MedianProps(Active(wit, Processed(wit)))
        /\ round = 0 /\ time = 0 /\ aslot = 0
        /\ filled = [i \in 1..Window |-> 1] /\ participation = Window
        /\ hf = [last |-> 0, next |-> 0] /\ due = 0
        /\ binary = [w \in Witness |-> 0]
        /\ budget \in Budgets

Next ==
    \/ \E w \in Witness : PlainBlock(w) \/ VoteBlock(w) \/ KeyBlock(w) \/ Upgrade(w)
    \/ TimeComes

\* A block can be produced: somebody of the schedule is able to, and its missed
\* slots leave enough keys to fill the next schedule.
CanProduce ==
    LET N == {n \in 1..MaxWitnesses : Able(Turn(n))}
    IN  /\ N # {}
        /\ Cardinality({w \in Witness : MissTurns(wit, Turn(Min(N)), Min(N))[w].key})
             >= Min({MaxWitnesses, Witnesses})

\* The step of a block; only blocks change round.
BlockComes == CanProduce /\ round' = (round + 1) % MaxWitnesses

\* Blocks keep coming: a witness with a key and a current program produces one
\* when its slot comes (schedule_production_loop of the witness plugin).
Fairness == WF_round(BlockComes)

Spec == Init /\ [][Next]_vars /\ Fairness
-----------------------------------------------------------------------------
\* Properties

\* Type invariant; participation_count stays a count of the window and no
\* virtual time leaves its type.
TypeOK ==
    /\ wit \in [Witness -> [votes : 0..MaxVotes, key : BOOLEAN, pos : 0..Lap, upd : 0..Lap,
                            vst : 0..Lap, age : 0..AgeLimit, running : Hardfork,
                            hfVote : Hardfork]]
    /\ vt \in 0..Lap
    /\ shuffled \in Seq(Witness) /\ Len(shuffled) <= MaxWitnesses
    /\ resetBlocks \in Nat
    /\ round \in 0..(MaxWitnesses - 1)
    /\ time \in 0..(Interval * Cycle - 1) /\ aslot \in 0..(Cycle - 1)
    /\ filled \in [1..Window -> Bit] /\ participation \in 0..Window
    /\ hf \in [last : Hardfork, next : Hardfork]
    /\ binary \in [Witness -> Hardfork] /\ due \in Hardfork

\* current_aslot is "the total number of slots since genesis", whatever the
\* offsets of the blocks in their slots and however many slots were missed.
SlotsFollowTime == aslot = time \div Interval

\* participation_count, kept step by step, is the number of filled slots in
\* recent_slots_filled, also when more slots are missed than the window holds.
ParticipationCounts == participation = Sum(filled)

\* While no slot is missed, the blocks of a round come from different scheduled
\* witnesses, although the rounds count blocks and the turns count slots.
TurnsAreShared ==
    (round <= Window /\ \A i \in (Window - round + 1)..Window : filled[i] = 1) =>
        Cardinality({w \in ToSet(shuffled) : wit[w].age < round}) = round

\* No witness is scheduled for a virtual time that has passed: the overflow of
\* adjust_witness_vote and the reset of the schedule keep the queue in order.
NeverInThePast == \A w \in Witness : wit[w].vst >= vt

\* A witness never runs further than its lap, so that LAP_LENGTH2 minus its
\* position, unsigned in adjust_witness_vote, cannot wrap around.
WithinLap == \A w \in Witness : wit[w].pos + wit[w].votes * (vt - wit[w].upd) <= Lap

\* Slots, participation and turns are what the times of the blocks say, and the
\* virtual times keep their types, their order and their lap.
ScheduleSound ==
    /\ TypeOK /\ SlotsFollowTime /\ ParticipationCounts /\ TurnsAreShared
    /\ NeverInThePast /\ WithinLap

\* A hardfork is applied only when as many witnesses as required run a program
\* that knows it, although votes are counted a round later than they are given.
HardforkSupported ==
    hf.last > 0 => Cardinality({w \in Witness : wit[w].running >= hf.last}) >= Required

EnoughKeys == Cardinality({w \in Witness : wit[w].key}) >= MaxWitnesses

\* "every one else takes turns": a witness with votes and a key is scheduled
\* again and again, as long as the schedule can be filled.
VotedTakeTurns ==
    \A w \in Witness :
        <>[](EnoughKeys /\ wit[w].key /\ wit[w].votes > 0) => []<>(w \in ToSet(shuffled))

\* Once every witness runs a program that knows the hardfork and its time has
\* come, the votes in the headers bring it about.
HardforkHappens ==
    <>[](EnoughKeys /\ due = LastHardfork /\ \A w \in Witness : binary[w] = LastHardfork)
        => <>(hf.last = LastHardfork)
=============================================================================
