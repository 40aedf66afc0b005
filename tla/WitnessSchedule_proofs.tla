----------------------- MODULE WitnessSchedule_proofs -----------------------
(***************************************************************************)
(* Proofs about WitnessSchedule: for any number of witnesses, whatever     *)
(* their votes, keys and programs and whatever slots they miss, a hardfork *)
(* is applied only when enough of them run a program that knows it; the    *)
(* queue of witnesses by virtual time stays in order; slots and the        *)
(* participation are counted right; every number keeps its type; and, with *)
(* enough witnesses to fill a schedule, the turns of a round are shared.   *)
(***************************************************************************)
EXTENDS WitnessSchedule, TLAPS, FiniteSetTheorems

\* No loop here is a fold: of FoldFacts only the lemmas about numbers are cited.
Same(c, a, e) == a
N == INSTANCE FoldFacts WITH op <- Same

\* The fields of the witness_objects that hardforks are about.
Voters(ws) ==
    /\ DOMAIN ws = Witness
    /\ \A w \in Witness : {"running", "hfVote"} \subseteq DOMAIN ws[w]

\* A step from ws to vs that leaves these fields alone.
SameVotes(ws, vs) ==
    /\ Voters(vs)
    /\ \A w \in Witness : vs[w].running = ws[w].running /\ vs[w].hfVote = ws[w].hfVote

\* No witness votes for a hardfork that its last block did not know, and no
\* program is ever older than its last block.
VotesSound(ws) ==
    /\ Voters(ws)
    /\ \A w \in Witness :
          /\ ws[w].running \in Hardfork /\ ws[w].hfVote \in Hardfork
          /\ ws[w].hfVote <= ws[w].running
          /\ ws[w].running <= binary[w]

\* The witnesses whose last block knew hardfork v
Knowing(ws, v) == {w \in Witness : ws[w].running >= v}
Enough(ws, v) == v > 0 => Cardinality(Knowing(ws, v)) >= Required

\* The schedule: a sequence of different witnesses.
Distinct(s) ==
    \E S \in SUBSET Witness :
        /\ s \in [1..Cardinality(S) -> S]
        /\ \A i, j \in 1..Cardinality(S) : i # j => s[i] # s[j]

\* The inductive invariant.  That the last hardfork has support depends on the
\* support of the next one, which is counted a round earlier; and that depends
\* on what the votes of different witnesses say of their programs.
VoteInv ==
    /\ binary \in [Witness -> Hardfork] /\ due \in Hardfork
    /\ hf \in [last : Hardfork, next : Hardfork]
    /\ VotesSound(wit)
    /\ Distinct(shuffled)
    /\ Enough(wit, hf.last) /\ Enough(wit, hf.next)

-----------------------------------------------------------------------------
(* Operators                                                               *)

LEMMA HardforkFacts == /\ Hardfork \subseteq Nat
                       /\ 0 \in Hardfork
                       /\ \A v \in Hardfork : v <= LastHardfork
  BY HardforkAssumption DEF Hardfork

\* The set of all witnesses is finite.
LEMMA WitnessesFinite == IsFiniteSet(Witness)
  BY ScheduleAssumption, FS_Interval DEF Witness

\* Everything a block does to the witnesses but for its header leaves the
\* fields alone.
LEMMA ConfirmSame ==
  ASSUME NEW ws, Voters(ws), NEW w \in Witness
  PROVE  SameVotes(ws, Confirm(ws, w))
  BY DEF Voters, SameVotes, Confirm

LEMMA MissTurnsSame ==
  ASSUME NEW ws, Voters(ws), NEW w \in Witness, NEW n
  PROVE  SameVotes(ws, MissTurns(ws, w, n))
  BY DEF Voters, SameVotes, MissTurns

LEMMA AdjustVoteSame ==
  ASSUME NEW ws, Voters(ws), NEW w \in Witness, NEW delta
  PROVE  SameVotes(ws, AdjustVote(ws, w, delta))
  BY DEF Voters, SameVotes, AdjustVote

LEMMA ResetSame ==
  ASSUME NEW ws, Voters(ws)
  PROVE  SameVotes(ws, Reset(ws))
  BY DEF Voters, SameVotes, Reset

LEMMA NextLapSame ==
  ASSUME NEW ws, Voters(ws), NEW passed
  PROVE  SameVotes(ws, NextLap(ws, passed))
  BY DEF Voters, SameVotes, NextLap, Reset

LEMMA SameVotesTransitive ==
  ASSUME NEW us, NEW vs, NEW ws, SameVotes(us, vs), SameVotes(vs, ws)
  PROVE  SameVotes(us, ws)
  BY DEF SameVotes, Voters

\* A program that is able to produce a block knows the last hardfork, so the
\* vote in its header is for one it knows, and no older program signs later.
LEMMA HeaderVotes ==
  ASSUME VoteInv, NEW w \in Witness, Able(w)
  PROVE  /\ VotesSound(Header(w))
         /\ \A x \in Witness : Header(w)[x].running >= wit[x].running
<1> DEFINE vote == VoteOfBinary(binary[w], hf, wit[w].hfVote)
<1>1. /\ binary[w] \in Nat /\ hf.last \in Nat /\ wit[w].hfVote \in Nat /\ wit[w].running \in Nat
      /\ hf.last <= binary[w] /\ binary[w] <= LastHardfork /\ wit[w].running <= binary[w]
      /\ binary[w] \in Hardfork /\ wit[w].hfVote \in Hardfork /\ hf.last \in Hardfork
  BY HardforkFacts DEF VoteInv, VotesSound, Able
<1>2. vote \in Hardfork /\ vote <= binary[w]
  BY <1>1, HardforkAssumption DEF VoteOfBinary, Hardfork
<1>3. Voters(wit)
  BY DEF VoteInv, VotesSound
<1>4. /\ Voters(Header(w))
      /\ Header(w)[w].running = binary[w] /\ Header(w)[w].hfVote = vote
      /\ \A x \in Witness \ {w} : Header(w)[x] = wit[x]
  <2> HIDE DEF vote
  <2>1. Header(w) = [wit EXCEPT ![w].running = binary[w], ![w].hfVote = vote]
    BY DEF Header, ProcessHeader, vote
  <2> QED BY <2>1, <1>3 DEF Voters
<1>5. \A x \in Witness : /\ wit[x].running \in Hardfork /\ wit[x].hfVote \in Hardfork
                         /\ wit[x].hfVote <= wit[x].running /\ wit[x].running <= binary[x]
                         /\ wit[x].running \in Nat
  BY HardforkFacts DEF VoteInv, VotesSound
<1> HIDE DEF vote
<1>6. VotesSound(Header(w))
  BY <1>1, <1>2, <1>4, <1>5 DEF VotesSound
<1>7. ASSUME NEW x \in Witness PROVE Header(w)[x].running >= wit[x].running
  <2>1. CASE x = w  BY <2>1, <1>1, <1>4
  <2>2. CASE x # w  BY <2>2, <1>4, <1>5
  <2> QED BY <2>1, <2>2
<1> QED BY <1>6, <1>7

\* Votes stay sound and hardforks keep their support in every step that leaves
\* programs and votes of the witnesses alone.
LEMMA SameVotesSound ==
  ASSUME NEW ws, NEW vs, VotesSound(ws), SameVotes(ws, vs)
  PROVE  VotesSound(vs)
  BY DEF VotesSound, SameVotes

LEMMA EnoughGrows ==
  ASSUME NEW ws, NEW vs, NEW v \in Hardfork, Enough(ws, v),
         \A w \in Witness : ws[w].running \in Hardfork /\ vs[w].running \in Hardfork
                            /\ vs[w].running >= ws[w].running
  PROVE  Enough(vs, v)
<1>1. \A w \in Witness : ws[w].running \in Nat /\ vs[w].running \in Nat
  BY HardforkFacts
<1>2. v \in Nat
  BY HardforkFacts
<1>3. Knowing(ws, v) \subseteq Knowing(vs, v)
  BY <1>1, <1>2 DEF Knowing
<1>4. Knowing(vs, v) \subseteq Witness
  BY DEF Knowing
<1>5. IsFiniteSet(Knowing(vs, v))
  BY <1>4, WitnessesFinite, FS_Subset
<1>6. /\ Cardinality(Knowing(ws, v)) <= Cardinality(Knowing(vs, v))
      /\ IsFiniteSet(Knowing(ws, v))
  BY <1>3, <1>5, FS_Subset
<1>7. Cardinality(Knowing(ws, v)) \in Nat /\ Cardinality(Knowing(vs, v)) \in Nat
  BY <1>5, <1>6, FS_CardinalityType
<1> QED BY <1>6, <1>7, HardforkAssumption DEF Enough

-----------------------------------------------------------------------------
(* Counting votes                                                          *)

\* The hardfork that gets the majority of a schedule of different witnesses
\* is known to as many of them.
LEMMA MajorityKnows ==
  ASSUME NEW ws, VotesSound(ws), NEW s, Distinct(s), NEW v \in Majorities(ws, s)
  PROVE  Enough(ws, v)
<1> DEFINE For == {i \in DOMAIN s : ws[s[i]].hfVote = v}
           F == [i \in For |-> s[i]]
<1>1. PICK S \in SUBSET Witness :
        /\ s \in [1..Cardinality(S) -> S]
        /\ \A i, j \in 1..Cardinality(S) : i # j => s[i] # s[j]
  BY DEF Distinct
<1>2. v \in Hardfork /\ Cardinality(For) >= Required
  BY DEF Majorities
<1>3. IsFiniteSet(Knowing(ws, v))
  <2>1. Knowing(ws, v) \subseteq Witness
    BY DEF Knowing
  <2> QED BY <2>1, WitnessesFinite, FS_Subset
<1>4. \A i \in For : s[i] \in Knowing(ws, v)
  <2>1. ASSUME NEW i \in For PROVE s[i] \in Knowing(ws, v)
    <3>1. s[i] \in Witness /\ ws[s[i]].hfVote = v
      BY <1>1
    <3>2. v <= ws[s[i]].running /\ v \in Nat /\ ws[s[i]].running \in Nat
      BY <3>1, <1>2, HardforkFacts DEF VotesSound
    <3> QED BY <3>1, <3>2 DEF Knowing
  <2> QED BY <2>1
<1>5. F \in Injection(For, Knowing(ws, v))
  <2>1. F \in [For -> Knowing(ws, v)]
    BY <1>4
  <2>2. \A i, j \in For : F[i] = F[j] => i = j
    <3>1. For \subseteq 1..Cardinality(S)
      BY <1>1
    <3> QED BY <3>1, <1>1
  <2> HIDE DEF F, For
  <2> QED BY <2>1, <2>2 DEF Injection, IsInjective
<1>6. IsFiniteSet(For) /\ Cardinality(For) <= Cardinality(Knowing(ws, v))
  <2> HIDE DEF F, For
  <2> QED BY <1>3, <1>5, FS_Injection
<1>7. Cardinality(For) \in Nat /\ Cardinality(Knowing(ws, v)) \in Nat
  BY <1>3, <1>6, FS_CardinalityType
<1> HIDE DEF For
<1> QED BY <1>2, <1>6, <1>7, HardforkAssumption DEF Enough

\* So does the next hardfork when the votes are counted.
LEMMA CountVotesSound ==
  ASSUME NEW ws, VotesSound(ws), NEW s, Distinct(s),
         NEW h \in [last : Hardfork, next : Hardfork], Enough(ws, h.last)
  PROVE  /\ CountVotes(h, ws, s) \in [last : Hardfork, next : Hardfork]
         /\ CountVotes(h, ws, s).last = h.last
         /\ Enough(ws, CountVotes(h, ws, s).next)
<1> DEFINE M == Majorities(ws, s)
           next == IF M = {} THEN h.last ELSE Min(M)
<1>1. CountVotes(h, ws, s) = [h EXCEPT !.next = next]
  BY DEF CountVotes
<1>2. CASE M = {}
  <2>1. next = h.last /\ h.last \in Hardfork
    BY <1>2
  <2> HIDE DEF next
  <2> QED BY <1>1, <2>1
<1>3. CASE M # {}
  <2>1. M \subseteq Nat
    BY HardforkFacts DEF Majorities
  <2>2. PICK x \in M : \A y \in M : x <= y
    BY <1>3, <2>1, N!SmallestOf
  <2>3. Min(M) \in M
    BY <2>2 DEF Min
  <2>4. next \in Hardfork
    BY <1>3, <2>3 DEF Majorities
  <2>5. Enough(ws, next)
    BY <1>3, <2>3, MajorityKnows
  <2> HIDE DEF next
  <2> QED BY <1>1, <2>4, <2>5
<1> QED BY <1>2, <1>3

-----------------------------------------------------------------------------
(* Steps                                                                   *)

\* A shuffled set of witnesses is a schedule.
LEMMA ShuffleDistinct ==
  ASSUME NEW ws, NEW passed, NEW s \in SetToSeqs(Active(ws, passed))
  PROVE  Distinct(s)
<1>1. Active(ws, passed) \in SUBSET Witness
  BY DEF Active, Elected, Keyed
<1> QED BY <1>1 DEF SetToSeqs, Distinct

\* What a block that knows its witnesses ws, after header and transactions,
\* keeps.
LEMMA BlockKeeps ==
  ASSUME VoteInv, NEW w \in Witness, NEW t, NEW ws, VotesSound(ws),
         \A x \in Witness : ws[x].running >= wit[x].running,
         ApplyBlock(w, t, ws)
  PROVE  VoteInv'
<1>1. PICK signed \in {Confirm(MissTurns(ws, w, SlotAt(t)), w)} :
        /\ UpdateSchedule(signed)
        /\ hf' = ProcessHardforks(IF round' = 0 THEN CountVotes(hf, signed, shuffled) ELSE hf, due)
        /\ UNCHANGED <<binary, due>>
  BY DEF ApplyBlock
<1>2. SameVotes(ws, signed)
  <2>1. Voters(ws)
    BY DEF VotesSound
  <2>2. SameVotes(ws, MissTurns(ws, w, SlotAt(t)))
    BY <2>1, MissTurnsSame
  <2>3. SameVotes(MissTurns(ws, w, SlotAt(t)), signed)
    BY <2>2, <1>1, ConfirmSame DEF SameVotes
  <2> QED BY <2>2, <2>3, SameVotesTransitive
<1>3. VotesSound(signed)
  BY <1>2, SameVotesSound
<1>4. SameVotes(signed, wit')
  <2>1. CASE round' = 0
    <3>1. PICK passed \in {Processed(signed)} : wit' = NextLap(signed, passed)
      BY <2>1, <1>1 DEF UpdateSchedule, NewSchedule
    <3> QED BY <3>1, <1>3, NextLapSame DEF VotesSound
  <2>2. CASE round' # 0
    BY <2>2, <1>1, <1>3 DEF UpdateSchedule, VotesSound, SameVotes
  <2> QED BY <2>1, <2>2
<1>5. VotesSound(wit)'
  BY <1>1, <1>3, <1>4, SameVotesSound DEF VotesSound
<1>6. Distinct(shuffled)'
  <2>1. CASE round' = 0
    <3>1. \E passed \in {Processed(signed)} : \E active \in {Active(signed, passed)} :
             shuffled' \in SetToSeqs(active)
      BY <2>1, <1>1 DEF UpdateSchedule, NewSchedule
    <3> QED BY <3>1, ShuffleDistinct DEF Distinct
  <2>2. CASE round' # 0
    BY <2>2, <1>1 DEF UpdateSchedule, VoteInv, Distinct
  <2> QED BY <2>1, <2>2
<1>7. \A v \in Hardfork : Enough(wit, v) => Enough(signed, v)
  <2>1. \A x \in Witness : /\ wit[x].running \in Hardfork /\ signed[x].running \in Hardfork
                           /\ signed[x].running >= wit[x].running
    BY <1>2, <1>3 DEF VoteInv, VotesSound, SameVotes
  <2> QED BY <2>1, EnoughGrows
<1>8. \A v : Enough(signed, v) => Enough(wit, v)'
  <2>1. \A v : Knowing(wit', v) = Knowing(signed, v)
    BY <1>4 DEF SameVotes, Knowing
  <2> QED BY <2>1 DEF Enough, Knowing
<1> DEFINE counted == IF round' = 0 THEN CountVotes(hf, signed, shuffled) ELSE hf
<1>9. /\ counted \in [last : Hardfork, next : Hardfork]
      /\ Enough(signed, counted.last) /\ Enough(signed, counted.next)
  <2>1. /\ hf \in [last : Hardfork, next : Hardfork] /\ Distinct(shuffled)
        /\ Enough(wit, hf.last) /\ Enough(wit, hf.next)
    BY DEF VoteInv
  <2>2. Enough(signed, hf.last) /\ Enough(signed, hf.next)
    BY <2>1, <1>7
  <2>3. CASE round' = 0
    <3>1. /\ CountVotes(hf, signed, shuffled) \in [last : Hardfork, next : Hardfork]
          /\ CountVotes(hf, signed, shuffled).last = hf.last
          /\ Enough(signed, CountVotes(hf, signed, shuffled).next)
      BY <2>1, <2>2, <1>3, CountVotesSound
    <3> QED BY <3>1, <2>2, <2>3
  <2>4. CASE round' # 0
    BY <2>1, <2>2, <2>4
  <2> QED BY <2>3, <2>4
<1>10. hf' = ProcessHardforks(counted, due)
  BY <1>1
<1> HIDE DEF counted
<1>11. /\ hf' \in [last : Hardfork, next : Hardfork]
       /\ hf'.next = counted.next
       /\ hf'.last \in {counted.last, counted.next}
  BY <1>9, <1>10 DEF ProcessHardforks
<1>12. Enough(wit', hf'.last) /\ Enough(wit', hf'.next)
  BY <1>8, <1>9, <1>11
<1> QED BY <1>1, <1>5, <1>6, <1>11, <1>12 DEF VoteInv

LEMMA InitEstablishes == Init => VoteInv
<1> SUFFICES ASSUME Init PROVE VoteInv
  OBVIOUS
<1>1. Hardfork \subseteq Nat /\ 0 \in Hardfork
  BY HardforkFacts
<1>2. /\ binary = [w \in Witness |-> 0] /\ due = 0 /\ hf = [last |-> 0, next |-> 0]
      /\ shuffled \in SetToSeqs(Active(wit, Processed(wit)))
  BY DEF Init
<1> DEFINE fresh == [w \in Witness |->
                       [votes |-> InitVotes[w], key |-> TRUE, pos |-> 0, upd |-> 0, vst |-> 0,
                        age |-> 0, running |-> 0, hfVote |-> 0]]
<1>3. VotesSound(wit)
  <2>1. wit = Reset(fresh)
    BY DEF Init
  <2>2. \A w \in Witness : /\ {"running", "hfVote"} \subseteq DOMAIN fresh[w]
                           /\ fresh[w].running = 0 /\ fresh[w].hfVote = 0
    OBVIOUS
  <2>3. Voters(fresh)
    BY <2>2 DEF Voters
  <2> HIDE DEF fresh
  <2>4. VotesSound(fresh)
    BY <1>1, <1>2, <2>2, <2>3 DEF VotesSound
  <2> QED BY <2>1, <2>3, <2>4, ResetSame, SameVotesSound
<1>4. Distinct(shuffled)
  BY <1>2, ShuffleDistinct
<1> QED BY <1>1, <1>2, <1>3, <1>4 DEF VoteInv, Enough

LEMMA NextKeeps == VoteInv /\ [Next]_vars => VoteInv'
<1> SUFFICES ASSUME VoteInv, [Next]_vars PROVE VoteInv'
  OBVIOUS
<1>1. ASSUME NEW w \in Witness, PlainBlock(w) PROVE VoteInv'
  <2>1. PICK t \in Times(w) : ApplyBlock(w, t, Header(w))
    BY <1>1 DEF PlainBlock
  <2>2. Able(w)
    BY <2>1 DEF Times
  <2> QED BY <2>1, <2>2, HeaderVotes, BlockKeeps
<1>2. ASSUME NEW w \in Witness, VoteBlock(w) PROVE VoteInv'
  <2>1. PICK t \in Times(w), x \in Witness, v \in 0..MaxVotes :
          ApplyBlock(w, t, AdjustVote(Header(w), x, v - wit[x].votes))
    BY <1>2 DEF VoteBlock
  <2>2. Able(w)
    BY <2>1 DEF Times
  <2> DEFINE ws == AdjustVote(Header(w), x, v - wit[x].votes)
  <2>3. VotesSound(Header(w)) /\ \A y \in Witness : Header(w)[y].running >= wit[y].running
    BY <2>2, HeaderVotes
  <2>4. SameVotes(Header(w), ws)
    BY <2>3, AdjustVoteSame DEF VotesSound
  <2> HIDE DEF ws
  <2>5. VotesSound(ws) /\ \A y \in Witness : ws[y].running >= wit[y].running
    BY <2>3, <2>4, SameVotesSound DEF SameVotes
  <2>6. ApplyBlock(w, t, ws)
    BY <2>1 DEF ws
  <2> QED BY <2>5, <2>6, BlockKeeps
<1>3. ASSUME NEW w \in Witness, KeyBlock(w) PROVE VoteInv'
  <2>1. PICK t \in Times(w), x \in Witness : ApplyBlock(w, t, [Header(w) EXCEPT ![x].key = ~@])
    BY <1>3 DEF KeyBlock
  <2>2. Able(w)
    BY <2>1 DEF Times
  <2> DEFINE ws == [Header(w) EXCEPT ![x].key = ~@]
  <2>3. VotesSound(Header(w)) /\ \A y \in Witness : Header(w)[y].running >= wit[y].running
    BY <2>2, HeaderVotes
  <2>4. SameVotes(Header(w), ws)
    BY <2>3 DEF VotesSound, Voters, SameVotes
  <2>5. ApplyBlock(w, t, ws)
    BY <2>1
  <2> HIDE DEF ws
  <2>6. VotesSound(ws) /\ \A y \in Witness : ws[y].running >= wit[y].running
    BY <2>3, <2>4, SameVotesSound DEF SameVotes
  <2> QED BY <2>5, <2>6, BlockKeeps
<1>4. ASSUME NEW w \in Witness, Upgrade(w) PROVE VoteInv'
  <2>1. /\ binary' = [binary EXCEPT ![w] = @ + 1] /\ binary[w] < LastHardfork
        /\ UNCHANGED <<wit, shuffled, hf, due>>
    BY <1>4 DEF Upgrade, schedule
  <2>2. binary' \in [Witness -> Hardfork] /\ \A x \in Witness : binary[x] \in Nat /\ binary'[x] >= binary[x]
    BY <2>1, HardforkAssumption DEF VoteInv, Hardfork
  <2>3. VotesSound(wit)'
    <3>1. \A x \in Witness : wit[x].running \in Nat /\ binary[x] \in Nat /\ binary'[x] \in Nat
      BY <2>2, HardforkFacts DEF VoteInv, VotesSound
    <3> QED BY <2>1, <2>2, <3>1 DEF VoteInv, VotesSound, Voters
  <2> QED BY <2>1, <2>2, <2>3 DEF VoteInv, Distinct, Enough, Knowing
<1>5. ASSUME TimeComes PROVE VoteInv'
  <2>1. due' \in Hardfork /\ UNCHANGED <<wit, shuffled, hf, binary>>
    BY <1>5, HardforkAssumption DEF TimeComes, schedule, VoteInv, Hardfork
  <2> QED BY <2>1 DEF VoteInv, VotesSound, Voters, Distinct, Enough, Knowing
<1>6. ASSUME UNCHANGED vars PROVE VoteInv'
  BY <1>6 DEF vars, schedule, VoteInv, VotesSound, Voters, Distinct, Enough, Knowing
<1> QED BY <1>1, <1>2, <1>3, <1>4, <1>5, <1>6 DEF Next

-----------------------------------------------------------------------------
\* The invariant holds in every state of the specification.
THEOREM VoteInvHolds == Spec => []VoteInv
<1> QED BY InitEstablishes, NextKeeps, PTL DEF Spec

\* A hardfork that is in force (process_hardforks) is known to as many
\* witnesses as are required, though the votes of their headers are counted a
\* round later and only among the witnesses of that round's schedule.
THEOREM HardforkSupportedHolds == Spec => []HardforkSupported
<1>1. VoteInv => HardforkSupported
  BY DEF VoteInv, Enough, Knowing, HardforkSupported
<1> QED BY <1>1, VoteInvHolds, PTL

-----------------------------------------------------------------------------
(* Virtual time                                                            *)

\* The fields that virtual time is made of
Runners(ws) ==
    /\ DOMAIN ws = Witness
    /\ \A w \in Witness : {"votes", "pos", "upd", "vst"} \subseteq DOMAIN ws[w]

SameRuns(ws, vs) ==
    /\ Runners(vs)
    /\ \A w \in Witness : /\ vs[w].votes = ws[w].votes /\ vs[w].pos = ws[w].pos
                          /\ vs[w].upd = ws[w].upd /\ vs[w].vst = ws[w].vst

\* The run of one witness at virtual time now: its scheduled time has not
\* passed, and is not later than the end of its lap.
Runs(r, now) ==
    /\ r.votes \in Nat /\ r.pos \in 0..Lap /\ r.upd \in 0..now /\ r.vst \in now..Lap
    /\ r.vst <= r.upd + (Lap - r.pos) \div (r.votes + 1)

\* The inductive invariant of the virtual time.
RunInv == vt \in 0..Lap /\ Runners(wit) /\ \A w \in Witness : Runs(wit[w], vt)

\* Integer division
LEMMA Division ==
  ASSUME NEW a \in Nat, NEW n \in Nat \ {0}
  PROVE  a \div n \in Nat /\ (a \div n) * n <= a /\ a \div n <= a
  BY SMT

LEMMA Product ==
  ASSUME NEW n \in Nat, NEW d \in Nat, NEW q \in Nat, d <= q
  PROVE  n * d \in Nat /\ n * d <= q * (n + 1)
  BY SMT

\* A witness never runs further than its lap.
LEMMA RunsWithinLap ==
  ASSUME NEW r, NEW now \in 0..Lap, Runs(r, now)
  PROVE  /\ r.votes * (now - r.upd) \in Nat
         /\ r.pos + r.votes * (now - r.upd) <= Lap
<1> DEFINE q == (Lap - r.pos) \div (r.votes + 1)
<1>1. /\ r.votes \in Nat /\ r.pos \in Nat /\ r.upd \in Nat /\ r.vst \in Nat
      /\ r.pos <= Lap /\ r.upd <= now /\ now <= r.vst /\ r.vst <= r.upd + q
      /\ Lap - r.pos \in Nat /\ r.votes + 1 \in Nat \ {0} /\ now \in Nat /\ Lap \in Nat
  BY LapAssumption DEF Runs
<1>2. q \in Nat /\ q * (r.votes + 1) <= Lap - r.pos
  BY <1>1, Division
<1> HIDE DEF q
<1>3. now - r.upd \in Nat /\ now - r.upd <= q
  BY <1>1, <1>2
<1>4. r.votes * (now - r.upd) \in Nat /\ r.votes * (now - r.upd) <= q * (r.votes + 1)
  BY <1>1, <1>2, <1>3, Product
<1> QED BY <1>1, <1>2, <1>4

\* The larger of a number and zero
LEMMA AtLeastZero ==
  ASSUME NEW n \in Nat
  PROVE  Max({n, 0}) = n
<1>1. n \in {n, 0} /\ \A y \in {n, 0} : n >= y
  OBVIOUS
<1>2. \A x \in {n, 0} : (\A y \in {n, 0} : x >= y) => x = n
  OBVIOUS
<1> QED BY <1>1, <1>2 DEF Max

\* adjust_witness_vote: a new part of the lap, at another speed.
LEMMA AdjustVoteRuns ==
  ASSUME NEW ws, Runners(ws), vt \in 0..Lap, \A y \in Witness : Runs(ws[y], vt),
         NEW x \in Witness, NEW v \in Nat
  PROVE  /\ Runners(AdjustVote(ws, x, v - ws[x].votes))
         /\ \A y \in Witness : Runs(AdjustVote(ws, x, v - ws[x].votes)[y], vt)
<1> DEFINE pos == ws[x].pos + ws[x].votes * (vt - ws[x].upd)
           q == (Lap - pos) \div (v + 1)
           vst == (vt + q) % (Lap + 1)
           new == IF vst < vt THEN Lap ELSE vst
           vs == AdjustVote(ws, x, v - ws[x].votes)
<1>1. /\ ws[x].votes \in Nat /\ ws[x].pos \in Nat /\ vt \in Nat /\ vt <= Lap /\ Lap \in Nat
  BY LapAssumption DEF Runs
<1>2. Max({ws[x].votes + (v - ws[x].votes), 0}) = v
  <2>1. ws[x].votes + (v - ws[x].votes) = v
    BY <1>1
  <2> QED BY <2>1, AtLeastZero
<1>3. pos \in 0..Lap
  <2>1. /\ ws[x].votes * (vt - ws[x].upd) \in Nat
        /\ ws[x].pos + ws[x].votes * (vt - ws[x].upd) <= Lap
    BY RunsWithinLap
  <2> QED BY <2>1, <1>1
<1> HIDE DEF pos
<1>4. q \in Nat /\ q <= Lap
  <2>1. Lap - pos \in Nat /\ v + 1 \in Nat \ {0} /\ Lap - pos <= Lap
    BY <1>1, <1>3
  <2>2. q \in Nat /\ q <= Lap - pos
    BY <2>1, Division
  <2> HIDE DEF q
  <2> QED BY <1>1, <1>3, <2>1, <2>2
<1>5. /\ vs = [ws EXCEPT ![x].votes = v, ![x].pos = pos, ![x].upd = vt, ![x].vst = new]
  BY <1>2 DEF AdjustVote, pos
<1> HIDE DEF vs
<1>6. /\ DOMAIN vs = Witness /\ \A y \in Witness : DOMAIN vs[y] = DOMAIN ws[y]
      /\ vs[x].votes = v /\ vs[x].pos = pos /\ vs[x].upd = vt /\ vs[x].vst = new
      /\ \A y \in Witness \ {x} : vs[y] = ws[y]
  <2> HIDE DEF new
  <2> QED BY <1>5 DEF Runners
<1>7. new \in vt..Lap /\ new <= vt + q
  <2> HIDE DEF q
  <2>1. CASE vt + q <= Lap
    <3>1. vst = vt + q
      BY <2>1, <1>1, <1>4
    <3> HIDE DEF vst
    <3> QED BY <3>1, <2>1, <1>1, <1>4
  <2>2. CASE vt + q > Lap
    <3>1. vst = vt + q - (Lap + 1)
      BY <2>2, <1>1, <1>4
    <3> HIDE DEF vst
    <3> QED BY <3>1, <2>2, <1>1, <1>4
  <2> QED BY <2>1, <2>2, <1>1, <1>4
<1> HIDE DEF new
<1>8. Runs(vs[x], vt)
  BY <1>1, <1>3, <1>6, <1>7 DEF Runs
<1>9. Runners(vs)
  BY <1>6 DEF Runners
<1>10. \A y \in Witness : Runs(vs[y], vt)
  BY <1>6, <1>8
<1> QED BY <1>9, <1>10 DEF vs

\* Everything else that a block does before its schedule leaves them alone.
LEMMA SameRunsKeep ==
  ASSUME NEW ws, Runners(ws), NEW w \in Witness, NEW n
  PROVE  /\ SameRuns(ws, Confirm(ws, w))
         /\ SameRuns(ws, MissTurns(ws, w, n))
         /\ SameRuns(ws, ProcessHeader(ws, w, binary[w], hf))
         /\ SameRuns(ws, [ws EXCEPT ![w].key = ~@])
<1>1. SameRuns(ws, Confirm(ws, w))
  BY DEF Runners, SameRuns, Confirm
<1>2. SameRuns(ws, MissTurns(ws, w, n))
  BY DEF Runners, SameRuns, MissTurns
<1>3. SameRuns(ws, ProcessHeader(ws, w, binary[w], hf))
  BY DEF Runners, SameRuns, ProcessHeader
<1>4. SameRuns(ws, [ws EXCEPT ![w].key = ~@])
  BY DEF Runners, SameRuns
<1> QED BY <1>1, <1>2, <1>3, <1>4

LEMMA SameRunsSound ==
  ASSUME NEW ws, NEW vs, NEW now, SameRuns(ws, vs), \A y \in Witness : Runs(ws[y], now)
  PROVE  Runners(vs) /\ \A y \in Witness : Runs(vs[y], now)
  BY DEF SameRuns, Runs

\* The walk in the order of virtual time passes no witness over: whoever is
\* scheduled for an earlier time than one that was passed was passed too.
LEMMA PassedFirst ==
  ASSUME NEW ws, NEW now, \A y \in Witness : Runs(ws[y], now), now \in 0..Lap,
         NEW p \in Processed(ws), NEW w \in Witness, ws[w].vst < ws[p].vst
  PROVE  w \in Processed(ws)
<1> DEFINE Before(y) == Elected(ws) \cup {x \in Keyed(ws) : Earlier(ws, x, y)}
<1>1. \A y \in Witness : ws[y].vst \in Int /\ y \in Int
  BY LapAssumption DEF Runs, Witness
<1>2. p \in Witness /\ Cardinality(Before(p)) < MaxWitnesses
  BY DEF Processed
<1>3. Before(w) \subseteq Before(p)
  BY <1>1, <1>2 DEF Earlier, Keyed
<1>4. Before(p) \subseteq Witness
  BY DEF Elected, Keyed
<1> HIDE DEF Before
<1>5. IsFiniteSet(Before(p))
  BY <1>4, WitnessesFinite, FS_Subset
<1>6. IsFiniteSet(Before(w)) /\ Cardinality(Before(w)) <= Cardinality(Before(p))
  BY <1>3, <1>5, FS_Subset
<1>7. Cardinality(Before(w)) \in Nat /\ Cardinality(Before(p)) \in Nat /\ MaxWitnesses \in Nat
  BY <1>5, <1>6, FS_CardinalityType, ScheduleAssumption
<1>8. Cardinality(Before(w)) < MaxWitnesses
  BY <1>2, <1>6, <1>7
<1> QED BY <1>8 DEF Processed, Before

\* So virtual time goes on to a time that no other witness is behind.
LEMMA ReachedFacts ==
  ASSUME NEW ws, vt \in 0..Lap, \A y \in Witness : Runs(ws[y], vt)
  PROVE  /\ Reached(ws, Processed(ws)) \in vt..Lap
         /\ \A w \in Witness \ Processed(ws) : ws[w].vst >= Reached(ws, Processed(ws))
<1> DEFINE passed == Processed(ws)
           T == {ws[w].vst : w \in passed}
<1>1. \A y \in Witness : ws[y].vst \in vt..Lap /\ ws[y].vst \in Nat
  BY LapAssumption DEF Runs
<1>2. passed \subseteq Witness /\ vt \in Nat /\ Lap \in Nat /\ vt <= Lap
  BY LapAssumption DEF Processed
<1>3. CASE passed = {}
  BY <1>1, <1>2, <1>3 DEF Reached
<1>4. CASE passed # {}
  <2>1. T \subseteq Nat /\ T # {} /\ \A y \in T : y <= Lap
    BY <1>1, <1>2, <1>4
  <2>2. PICK m \in T : \A y \in T : y <= m
    BY <1>2, <2>1, N!LargestOf
  <2>3. Max(T) \in T /\ \A y \in T : Max(T) >= y
    <3>1. \A y \in T : m >= y
      BY <2>1, <2>2
    <3> QED BY <3>1 DEF Max
  <2>4. Reached(ws, passed) = Max(T)
    BY <1>4 DEF Reached
  <2>5. PICK p \in passed : Max(T) = ws[p].vst
    BY <2>3
  <2>6. ASSUME NEW w \in Witness \ passed PROVE ws[w].vst >= ws[p].vst
    <3>1. ~(ws[w].vst < ws[p].vst)
      BY <2>6, <1>2, PassedFirst
    <3> QED BY <3>1, <1>1, <1>2
  <2> QED BY <1>1, <1>2, <2>4, <2>5, <2>6
<1> QED BY <1>3, <1>4

\* A new schedule starts new laps, or resets all of them on an overflow.
LEMMA NextLapRuns ==
  ASSUME NEW ws, Runners(ws), vt \in 0..Lap, \A y \in Witness : Runs(ws[y], vt)
  PROVE  /\ NextTime(ws, Processed(ws)) \in 0..Lap
         /\ Runners(NextLap(ws, Processed(ws)))
         /\ \A y \in Witness : Runs(NextLap(ws, Processed(ws))[y], NextTime(ws, Processed(ws)))
<1> DEFINE passed == Processed(ws)
           now == Reached(ws, passed)
           vs == NextLap(ws, passed)
           lap(y) == Lap \div (ws[y].votes + 1)
<1>1. \A y \in Witness : lap(y) \in Nat /\ lap(y) <= Lap
  BY Division, LapAssumption DEF Runs
<1>2. /\ now \in Nat /\ now <= Lap /\ vt <= now /\ vt \in Nat /\ Lap \in Nat
      /\ \A w \in Witness \ passed : ws[w].vst >= now
  BY ReachedFacts, LapAssumption
<1>3. \A y \in Witness : ws[y].votes \in Nat
  BY DEF Runs
<1>4. CASE Overflows(ws, passed)
  <2>1. vs = Reset(ws) /\ NextTime(ws, passed) = 0
    BY <1>4 DEF NextLap, NextTime
  <2> HIDE DEF vs, passed, now
  <2>2. /\ Runners(vs)
        /\ \A y \in Witness : /\ vs[y].votes = ws[y].votes /\ vs[y].pos = 0 /\ vs[y].upd = 0
                              /\ vs[y].vst = lap(y)
    BY <2>1 DEF Reset, Runners
  <2> HIDE DEF lap
  <2>3. \A y \in Witness : Runs(vs[y], 0)
    <3>1. ASSUME NEW y \in Witness PROVE Runs(vs[y], 0)
      <4>1. Lap - 0 = Lap /\ 0 + lap(y) = lap(y)
        BY <1>1, <1>2
      <4> QED BY <4>1, <2>2, <1>1, <1>2, <1>3 DEF Runs, lap
    <3> QED BY <3>1
  <2> QED BY <2>1, <2>2, <2>3, <1>2 DEF vs, passed
<1>5. CASE ~Overflows(ws, passed)
  <2>1. /\ vs = [w \in Witness |->
                   IF w \in passed
                   THEN [ws[w] EXCEPT !.pos = 0, !.upd = now, !.vst = now + lap(w)]
                   ELSE ws[w]]
        /\ NextTime(ws, passed) = now
    BY <1>5 DEF NextLap, NextTime
  <2>2. \A y \in passed : now + lap(y) <= Lap
    <3>1. \A y \in passed : ~(now + lap(y) > Lap)
      BY <1>5 DEF Overflows
    <3>2. \A y \in passed : y \in Witness
      BY DEF Processed
    <3> QED BY <3>1, <3>2, <1>1, <1>2
  <2> HIDE DEF vs, now
  <2>3. /\ Runners(vs)
        /\ \A y \in Witness \ passed : vs[y] = ws[y]
        /\ \A y \in Witness : y \in passed =>
             /\ vs[y].votes = ws[y].votes /\ vs[y].pos = 0 /\ vs[y].upd = now
             /\ vs[y].vst = now + lap(y)
    <3> HIDE DEF passed, lap
    <3> QED BY <2>1 DEF Runners
  <2>4. ASSUME NEW y \in Witness PROVE Runs(vs[y], now)
    <3>1. CASE y \in passed
      <4>1. Lap - 0 = Lap
        BY <1>2
      <4> HIDE DEF passed
      <4>2. /\ vs[y].votes = ws[y].votes /\ vs[y].pos = 0 /\ vs[y].upd = now
            /\ vs[y].vst = now + lap(y) /\ now + lap(y) <= Lap
        BY <3>1, <2>2, <2>3
      <4>3. (Lap - vs[y].pos) \div (vs[y].votes + 1) = lap(y)
        BY <4>1, <4>2
      <4> HIDE DEF lap
      <4> QED BY <4>2, <4>3, <1>1, <1>2, <1>3 DEF Runs
    <3>2. CASE y \notin passed
      <4>1. vs[y] = ws[y] /\ ws[y].vst >= now
        BY <3>2, <2>3, <1>2
      <4>2. /\ ws[y].votes \in Nat /\ ws[y].pos \in 0..Lap /\ ws[y].upd \in 0..vt
            /\ ws[y].vst \in vt..Lap
            /\ ws[y].vst <= ws[y].upd + (Lap - ws[y].pos) \div (ws[y].votes + 1)
        BY DEF Runs
      <4>3. ws[y].upd \in 0..now /\ ws[y].vst \in now..Lap
        BY <4>1, <4>2, <1>2
      <4> QED BY <4>1, <4>2, <4>3 DEF Runs
    <3> QED BY <3>1, <3>2
  <2>5. /\ NextTime(ws, passed) \in 0..Lap
        /\ Runners(vs) /\ \A y \in Witness : Runs(vs[y], NextTime(ws, passed))
    <3> HIDE DEF passed
    <3>1. NextTime(ws, passed) = now
      BY <2>1
    <3> QED BY <3>1, <2>3, <2>4, <1>2
  <2> QED BY <2>5 DEF vs
<1> QED BY <1>4, <1>5

\* A block keeps the runs, whatever its header and its transactions did.
LEMMA BlockRuns ==
  ASSUME vt \in 0..Lap, NEW w \in Witness, NEW t, NEW ws, Runners(ws),
         \A y \in Witness : Runs(ws[y], vt), ApplyBlock(w, t, ws)
  PROVE  RunInv'
<1>1. PICK signed \in {Confirm(MissTurns(ws, w, SlotAt(t)), w)} : UpdateSchedule(signed)
  BY DEF ApplyBlock
<1>2. Runners(signed) /\ \A y \in Witness : Runs(signed[y], vt)
  <2> DEFINE missed == MissTurns(ws, w, SlotAt(t))
  <2>1. SameRuns(ws, missed)
    BY SameRunsKeep
  <2> HIDE DEF missed
  <2>2. Runners(missed) /\ \A y \in Witness : Runs(missed[y], vt)
    BY <2>1, SameRunsSound
  <2>3. SameRuns(missed, Confirm(missed, w))
    BY <2>2, SameRunsKeep
  <2>4. signed = Confirm(missed, w)
    BY <1>1 DEF missed
  <2> QED BY <2>2, <2>3, <2>4, SameRunsSound
<1>3. CASE round' = 0
  <2>1. /\ wit' = NextLap(signed, Processed(signed))
        /\ vt' = NextTime(signed, Processed(signed))
    BY <1>1, <1>3 DEF UpdateSchedule, NewSchedule
  <2> QED BY <1>2, <2>1, NextLapRuns DEF RunInv, Runners, Runs
<1>4. CASE round' # 0
  <2>1. wit' = signed /\ vt' = vt
    BY <1>1, <1>4 DEF UpdateSchedule
  <2> QED BY <1>2, <2>1 DEF RunInv, Runners, Runs
<1> QED BY <1>3, <1>4

LEMMA InitRuns == Init => RunInv
<1> SUFFICES ASSUME Init PROVE RunInv
  OBVIOUS
<1> DEFINE fresh == [w \in Witness |->
                       [votes |-> InitVotes[w], key |-> TRUE, pos |-> 0, upd |-> 0, vst |-> 0,
                        age |-> 0, running |-> 0, hfVote |-> 0]]
<1>1. vt = 0 /\ wit = Reset(fresh)
  BY DEF Init
<1>2. \A w \in Witness : InitVotes[w] \in Nat
  BY ScheduleAssumption
<1>3. /\ Runners(wit)
      /\ \A w \in Witness : /\ wit[w].votes = InitVotes[w] /\ wit[w].pos = 0 /\ wit[w].upd = 0
                            /\ wit[w].vst = Lap \div (InitVotes[w] + 1)
  <2>1. Runners(fresh) /\ \A w \in Witness : fresh[w].votes = InitVotes[w]
    BY DEF Runners
  <2> HIDE DEF fresh
  <2> QED BY <1>1, <2>1 DEF Reset, Runners
<1>4. ASSUME NEW w \in Witness PROVE Runs(wit[w], 0)
  <2> DEFINE q == Lap \div (InitVotes[w] + 1)
  <2>1. q \in Nat /\ q <= Lap
    BY <1>2, Division, LapAssumption
  <2>2. Lap - 0 = Lap /\ 0 + q = q
    BY <2>1, LapAssumption
  <2>3. wit[w].vst = q /\ (Lap - wit[w].pos) \div (wit[w].votes + 1) = q
    BY <1>3, <2>2
  <2> HIDE DEF q
  <2> QED BY <1>2, <1>3, <2>1, <2>2, <2>3, LapAssumption DEF Runs
<1> QED BY <1>1, <1>3, <1>4, LapAssumption DEF RunInv

LEMMA NextRuns == RunInv /\ [Next]_vars => RunInv'
<1> SUFFICES ASSUME RunInv, [Next]_vars PROVE RunInv'
  OBVIOUS
<1>1. vt \in 0..Lap /\ Runners(wit) /\ \A y \in Witness : Runs(wit[y], vt)
  BY DEF RunInv
<1>2. ASSUME NEW w \in Witness
      PROVE  /\ Runners(Header(w)) /\ \A y \in Witness : Runs(Header(w)[y], vt)
             /\ \A y \in Witness : Header(w)[y].votes = wit[y].votes
  <2>1. SameRuns(wit, Header(w))
    BY <1>1, SameRunsKeep DEF Header
  <2> QED BY <1>1, <2>1, SameRunsSound DEF SameRuns
<1>3. ASSUME NEW w \in Witness, PlainBlock(w) PROVE RunInv'
  <2>1. PICK t \in Times(w) : ApplyBlock(w, t, Header(w))
    BY <1>3 DEF PlainBlock
  <2> QED BY <1>1, <1>2, <2>1, BlockRuns
<1>4. ASSUME NEW w \in Witness, VoteBlock(w) PROVE RunInv'
  <2>1. PICK t \in Times(w), x \in Witness, v \in 0..MaxVotes :
          ApplyBlock(w, t, AdjustVote(Header(w), x, v - wit[x].votes))
    BY <1>4 DEF VoteBlock
  <2> DEFINE ws == AdjustVote(Header(w), x, v - Header(w)[x].votes)
  <2>2. v \in Nat
    OBVIOUS
  <2>3. Runners(ws) /\ \A y \in Witness : Runs(ws[y], vt)
    BY <1>1, <1>2, <2>2, AdjustVoteRuns
  <2>4. ApplyBlock(w, t, ws)
    BY <1>2, <2>1
  <2> HIDE DEF ws
  <2> QED BY <1>1, <2>3, <2>4, BlockRuns
<1>5. ASSUME NEW w \in Witness, KeyBlock(w) PROVE RunInv'
  <2>1. PICK t \in Times(w), x \in Witness : ApplyBlock(w, t, [Header(w) EXCEPT ![x].key = ~@])
    BY <1>5 DEF KeyBlock
  <2> DEFINE ws == [Header(w) EXCEPT ![x].key = ~@]
  <2>2. SameRuns(Header(w), ws)
    BY <1>2, SameRunsKeep
  <2>3. ApplyBlock(w, t, ws)
    BY <2>1
  <2> HIDE DEF ws
  <2>4. Runners(ws) /\ \A y \in Witness : Runs(ws[y], vt)
    BY <1>2, <2>2, SameRunsSound
  <2> QED BY <1>1, <2>3, <2>4, BlockRuns
<1>6. ASSUME UNCHANGED <<wit, vt>> PROVE RunInv'
  BY <1>6 DEF RunInv, Runners, Runs
<1>7. ASSUME NEW w \in Witness, Upgrade(w) PROVE RunInv'
  BY <1>6, <1>7 DEF Upgrade, schedule
<1>8. ASSUME TimeComes PROVE RunInv'
  BY <1>6, <1>8 DEF TimeComes, schedule
<1>9. ASSUME UNCHANGED vars PROVE RunInv'
  BY <1>6, <1>9 DEF vars, schedule
<1> QED BY <1>3, <1>4, <1>5, <1>7, <1>8, <1>9 DEF Next

\* The queue of witnesses stays in order, whatever the width of its numbers:
\* nobody is scheduled for a virtual time that has passed, and nobody runs
\* beyond the lap, so neither subtraction in adjust_witness_vote, unsigned in
\* the code, wraps around, although the addition there and the one in
\* update_witness_schedule4 do.
THEOREM QueueInOrder == Spec => [](NeverInThePast /\ WithinLap)
<1>1. RunInv => NeverInThePast /\ WithinLap
  <2> SUFFICES ASSUME RunInv, NEW w \in Witness
               PROVE  /\ wit[w].vst >= vt
                      /\ wit[w].pos + wit[w].votes * (vt - wit[w].upd) <= Lap
    BY DEF NeverInThePast, WithinLap
  <2>1. vt \in 0..Lap /\ Runs(wit[w], vt)
    BY DEF RunInv
  <2> QED BY <2>1, RunsWithinLap, LapAssumption DEF Runs
<1>2. Spec => []RunInv
  BY InitRuns, NextRuns, PTL DEF Spec
<1> QED BY <1>1, <1>2, PTL

-----------------------------------------------------------------------------
(* Slots and participation                                                 *)

\* Quotient and remainder
LEMMA Quotient ==
  ASSUME NEW d \in Nat \ {0}, NEW a \in Nat
  PROVE  a \div d \in Nat /\ a % d \in 0..(d - 1) /\ a = d * (a \div d) + (a % d)
OBVIOUS

\* A product of a sum
LEMMA Distributes ==
  ASSUME NEW d \in Int, NEW p \in Int, NEW q \in Int
  PROVE  d * (p + q) = d * p + d * q /\ d * p \in Int /\ d * q \in Int
OBVIOUS

\* A product of positive numbers
LEMMA PositiveProduct ==
  ASSUME NEW d \in Nat \ {0}, NEW p \in Nat \ {0}
  PROVE  d * p >= d
OBVIOUS

\* There is only one quotient and one remainder.
LEMMA OneQuotient ==
  ASSUME NEW d \in Nat \ {0}, NEW q \in Nat, NEW r \in 0..(d - 1), NEW a \in Nat, a = d * q + r
  PROVE  a \div d = q /\ a % d = r
<1> DEFINE x == a \div d
           y == a % d
<1>1. x \in Nat /\ y \in 0..(d - 1) /\ a = d * x + y
  BY Quotient
<1> HIDE DEF x, y
<1>2. CASE x = q
  BY <1>1, <1>2 DEF x, y
<1>3. CASE x > q
  <2> DEFINE z == x - q
  <2>1. z \in Nat \ {0} /\ x = q + z
    BY <1>1, <1>3
  <2> HIDE DEF z
  <2>2. d * x = d * q + d * z /\ d * z >= d /\ d * q \in Int /\ d * z \in Int
    BY <2>1, Distributes, PositiveProduct
  <2> QED BY <1>1, <2>2
<1>4. CASE x < q
  <2> DEFINE z == q - x
  <2>1. z \in Nat \ {0} /\ q = x + z
    BY <1>1, <1>4
  <2> HIDE DEF z
  <2>2. d * q = d * x + d * z /\ d * z >= d /\ d * x \in Int /\ d * z \in Int
    BY <1>1, <2>1, Distributes, PositiveProduct
  <2> QED BY <1>1, <2>2
<1> QED BY <1>1, <1>2, <1>3, <1>4

\* A remainder by a product: the quotients agree up to the second factor.
LEMMA QuotientOfRemainder ==
  ASSUME NEW d \in Nat \ {0}, NEW c \in Nat \ {0}, NEW a \in Nat
  PROVE  /\ d * c \in Nat \ {0} /\ a % (d * c) \in Nat
         /\ (a % (d * c)) \div d = (a \div d) % c
<1> DEFINE s == a \div d
           r == a % d
           u == s \div c
           v == s % c
<1>1. s \in Nat /\ r \in 0..(d - 1) /\ a = d * s + r
  BY Quotient
<1> HIDE DEF s, r
<1>2. u \in Nat /\ v \in 0..(c - 1) /\ s = c * u + v
  BY <1>1, Quotient
<1> HIDE DEF u, v
<1>3. d * s = d * (c * u) + d * v /\ d * (c * u) = (d * c) * u
  BY <1>1, <1>2
<1>4. d * c \in Nat \ {0} /\ d * v + r \in 0..(d * c - 1) /\ d * v \in Nat
  <2> DEFINE z == c - v
  <2>1. z \in Nat \ {0} /\ c = v + z
    BY <1>2
  <2> HIDE DEF z
  <2>2. d * c = d * v + d * z /\ d * z >= d /\ d * v \in Int /\ d * z \in Int
    BY <1>2, <2>1, Distributes, PositiveProduct
  <2>3. d * v \in Nat
    BY <1>2
  <2> QED BY <1>1, <2>2, <2>3
<1>5. a % (d * c) = d * v + r
  <2> DEFINE m == d * c
             w == d * v + r
  <2>1. m \in Nat \ {0} /\ w \in 0..(m - 1) /\ a = m * u + w
    BY <1>1, <1>2, <1>3, <1>4
  <2> HIDE DEF m, w
  <2>2. a % m = w
    BY <1>2, <2>1, OneQuotient
  <2> QED BY <2>2 DEF m, w
<1>6. (d * v + r) \div d = v
  BY <1>1, <1>2, <1>4, OneQuotient
<1> QED BY <1>4, <1>5, <1>6 DEF s, v

\* The slot of a later time is as many slots after the one of the head block as
\* get_slot_at_time says.
LEMMA SlotAtFacts ==
  ASSUME time \in Nat, NEW t \in Int, SlotAt(t) > 0
  PROVE  /\ t \in Nat /\ SlotAt(t) \in Nat \ {0}
         /\ t \div Interval = time \div Interval + SlotAt(t)
<1> DEFINE k == time \div Interval
           first == k * Interval + Interval
           a == t - first
           m == a \div Interval
           r == a % Interval
<1>1. Interval \in Nat \ {0} /\ k \in Nat
  BY ClockAssumption, Quotient
<1> HIDE DEF k
<1>2. k * Interval = Interval * k /\ Interval * k \in Nat
  BY <1>1
<1>3. SlotAt(t) = (IF t < first THEN 0 ELSE m + 1)
  BY DEF SlotAt, k
<1>4. a \in Nat /\ t = first + a /\ t \in Nat
  BY <1>1, <1>2, <1>3
<1> HIDE DEF a
<1>5. m \in Nat /\ r \in 0..(Interval - 1) /\ a = Interval * m + r
  BY <1>1, <1>4, Quotient
<1>6. SlotAt(t) = m + 1
  BY <1>1, <1>2, <1>3, <1>4
<1> HIDE DEF m, r
<1>7. Interval * (k + (m + 1)) = Interval * k + Interval * m + Interval
  <2>1. Interval * (k + (m + 1)) = Interval * k + Interval * (m + 1)
    BY <1>1, <1>5, Distributes
  <2>2. Interval * (m + 1) = Interval * m + Interval /\ Interval * m \in Nat
    BY <1>1, <1>5
  <2> QED BY <1>1, <1>2, <2>1, <2>2
<1>8. t = Interval * (k + (m + 1)) + r
  BY <1>1, <1>2, <1>4, <1>5, <1>7
<1>9. t \div Interval = k + (m + 1)
  <2> DEFINE q == k + (m + 1)
  <2>1. q \in Nat /\ t = Interval * q + r
    BY <1>1, <1>5, <1>8
  <2> HIDE DEF q
  <2>2. t \div Interval = q
    BY <1>1, <1>4, <1>5, <2>1, OneQuotient
  <2> QED BY <2>2 DEF q
<1> QED BY <1>4, <1>5, <1>6, <1>9 DEF k

\* A set of positions and the same set elsewhere have as many elements.
LEMMA ShiftedSet ==
  ASSUME NEW A \in SUBSET Int, NEW B \in SUBSET Int, IsFiniteSet(A), NEW n \in Int,
         \A x \in Int : x \in A <=> x - n \in B
  PROVE  IsFiniteSet(B) /\ Cardinality(B) = Cardinality(A)
<1> DEFINE f == [x \in A |-> x - n]
<1>1. f \in [A -> B]
  OBVIOUS
<1>2. \A x, y \in A : f[x] = f[y] => x = y
  OBVIOUS
<1>3. ASSUME NEW y \in B PROVE \E x \in A : f[x] = y
  <2>1. y + n \in Int /\ y + n - n = y
    OBVIOUS
  <2>2. y + n \in A
    BY <2>1
  <2> QED BY <2>1, <2>2
<1>4. f \in Bijection(A, B)
  <2> HIDE DEF f
  <2> QED BY <1>1, <1>2, <1>3 DEF Bijection, Injection, Surjection, IsInjective
<1> QED BY <1>4, FS_Bijection DEF ExistsBijection

\* A piece of a sequence.
LEMMA PieceFacts ==
  ASSUME NEW S, NEW seq \in Seq(S), NEW a \in Nat, NEW k \in Nat, a + k <= Len(seq)
  PROVE  /\ SubSeq(seq, a + 1, a + k) \in [1..k -> S]
         /\ \A i \in 1..k : SubSeq(seq, a + 1, a + k)[i] = seq[a + i]
<1> DEFINE t == SubSeq(seq, a + 1, a + k)
<1>1. t = [i \in 1..k |-> seq[a + i]]
  <2>1. a + k - (a + 1) + 1 = k /\ \A i \in 1..k : i + (a + 1) - 1 = a + i
    OBVIOUS
  <2> QED BY <2>1
<1>2. ASSUME NEW i \in 1..k PROVE seq[a + i] \in S
  <2>1. a + i \in 1..Len(seq)
    OBVIOUS
  <2> QED BY <2>1
<1> HIDE DEF t
<1>3. t \in [1..k -> S] /\ \A i \in 1..k : t[i] = seq[a + i]
  BY <1>1, <1>2
<1> QED BY <1>3 DEF t

\* The bits of recent_slots_filled and their count after the slots up to n.
LEMMA FillSlotsFacts ==
  ASSUME filled \in [1..Window -> Bit], participation = Sum(filled), NEW n \in Nat \ {0},
         FillSlots(n)
  PROVE  /\ filled' \in [1..Window -> Bit] /\ participation' = Sum(filled')
         /\ \A i \in 1..Window : filled'[i] = IF n + i <= Window THEN filled[n + i]
                                             ELSE IF n + i = Window + 1 THEN 1 ELSE 0
<1> DEFINE all == filled \o <<1>> \o [i \in 1..(n - 1) |-> 0]
<1>1. /\ Window \in Nat /\ filled \in Seq(Bit) /\ Len(filled) = Window
      /\ <<1>> \in Seq(Bit) /\ [i \in 1..(n - 1) |-> 0] \in Seq(Bit)
  BY ClockAssumption DEF Bit
<1>2. /\ all \in Seq(Bit) /\ Len(all) = Window + n
      /\ \A i \in 1..Window : all[i] = filled[i]
      /\ all[Window + 1] = 1
      /\ \A i \in (Window + 2)..(Window + n) : all[i] = 0
  <2> DEFINE u == filled \o <<1>>
             zeros == [i \in 1..(n - 1) |-> 0]
  <2>1. zeros \in Seq(Bit) /\ Len(zeros) = n - 1 /\ \A i \in 1..(n - 1) : zeros[i] = 0
    BY DEF Bit
  <2>2. /\ u \in Seq(Bit) /\ Len(u) = Window + 1 /\ u[Window + 1] = 1
        /\ \A i \in 1..Window : u[i] = filled[i]
    BY <1>1
  <2> HIDE DEF u, zeros
  <2>3. /\ u \o zeros \in Seq(Bit) /\ Len(u \o zeros) = Window + n
        /\ \A i \in 1..(Window + 1) : (u \o zeros)[i] = u[i]
        /\ \A i \in (Window + 2)..(Window + n) : (u \o zeros)[i] = 0
    <3>1. u \o zeros \in Seq(Bit) /\ Len(u \o zeros) = Window + n
      BY <1>1, <2>1, <2>2
    <3>2. ASSUME NEW i \in 1..(Window + 1) PROVE (u \o zeros)[i] = u[i]
      BY <1>1, <2>1, <2>2
    <3>3. ASSUME NEW i \in (Window + 2)..(Window + n) PROVE (u \o zeros)[i] = 0
      <4>1. i - (Window + 1) \in 1..(n - 1) /\ i \in Int /\ Window \in Nat
        BY <1>1
      <4>2. (u \o zeros)[i] = zeros[i - (Window + 1)]
        BY <2>1, <2>2, <4>1
      <4> QED BY <2>1, <4>1, <4>2
    <3> QED BY <3>1, <3>2, <3>3
  <2>4. all = u \o zeros
    BY DEF u, zeros
  <2> HIDE DEF all
  <2>5. ASSUME NEW i \in 1..Window PROVE all[i] = filled[i]
    BY <1>1, <2>2, <2>3, <2>4
  <2>6. all[Window + 1] = 1
    BY <1>1, <2>2, <2>3, <2>4
  <2> QED BY <2>3, <2>4, <2>5, <2>6
<1>3. filled' = SubSeq(all, n + 1, n + Window) /\ participation' = participation + 1 - Sum(SubSeq(all, 1, n))
  BY DEF FillSlots
<1> HIDE DEF all
<1>4. /\ filled' \in [1..Window -> Bit]
      /\ \A i \in 1..Window : filled'[i] = all[n + i]
  <2>1. Window \in Nat /\ n \in Nat /\ n + Window <= Len(all)
    BY <1>1, <1>2
  <2>2. /\ SubSeq(all, n + 1, n + Window) \in [1..Window -> Bit]
        /\ \A i \in 1..Window : SubSeq(all, n + 1, n + Window)[i] = all[n + i]
    BY <1>2, <2>1, PieceFacts
  <2> QED BY <1>3, <2>2
<1>5. /\ SubSeq(all, 1, n) \in [1..n -> Bit]
      /\ \A i \in 1..n : SubSeq(all, 1, n)[i] = all[i]
  <2>1. 0 \in Nat /\ n \in Nat /\ 0 + n <= Len(all) /\ 0 + 1 = 1 /\ 0 + n = n
    BY <1>1, <1>2
  <2>2. /\ SubSeq(all, 0 + 1, 0 + n) \in [1..n -> Bit]
        /\ \A i \in 1..n : SubSeq(all, 0 + 1, 0 + n)[i] = all[0 + i]
    BY <1>2, <2>1, PieceFacts
  <2> QED BY <2>1, <2>2
<1> DEFINE Ones == {i \in 1..(Window + n) : all[i] = 1}
           Old == {i \in 1..Window : filled[i] = 1}
           Gone == {i \in 1..n : all[i] = 1}
           Kept == {i \in (n + 1)..(n + Window) : all[i] = 1}
           New == {i \in 1..Window : filled'[i] = 1}
<1>6. IsFiniteSet(Old) /\ IsFiniteSet(Gone) /\ IsFiniteSet(Kept)
  <2>1. IsFiniteSet(1..Window) /\ IsFiniteSet(1..n) /\ IsFiniteSet((n + 1)..(n + Window))
    BY <1>1, FS_Interval
  <2>2. Old \in SUBSET (1..Window) /\ Gone \in SUBSET (1..n) /\ Kept \in SUBSET ((n + 1)..(n + Window))
    OBVIOUS
  <2> HIDE DEF Old, Gone, Kept
  <2> QED BY <2>1, <2>2, FS_Subset
<1>7. Sum(filled) = Cardinality(Old) /\ Sum(SubSeq(all, 1, n)) = Cardinality(Gone)
      /\ Sum(filled') = Cardinality(New)
  <2>1. {i \in DOMAIN filled : filled[i] = 1} = Old
    BY <1>1
  <2>2. {i \in DOMAIN SubSeq(all, 1, n) : SubSeq(all, 1, n)[i] = 1} = Gone
    BY <1>5
  <2>3. {i \in DOMAIN filled' : filled'[i] = 1} = New
    BY <1>4
  <2> HIDE DEF Old, Gone, New
  <2> QED BY <2>1, <2>2, <2>3 DEF Sum
<1>8. Cardinality(Ones) = Cardinality(Old) + 1
  <2>1. Ones = Old \cup {Window + 1} /\ Window + 1 \notin Old
    BY <1>1, <1>2
  <2> HIDE DEF Ones, Old
  <2> QED BY <1>6, <2>1, FS_AddElement
<1>9. Cardinality(Ones) = Cardinality(Gone) + Cardinality(Kept)
  <2>1. Ones = Gone \cup Kept /\ Gone \cap Kept = {}
    BY <1>1
  <2>2. Cardinality({}) = 0
    BY FS_EmptySet
  <2>3. Cardinality(Gone) \in Nat /\ Cardinality(Kept) \in Nat
    <3> HIDE DEF Gone, Kept
    <3> QED BY <1>6, FS_CardinalityType
  <2> HIDE DEF Ones, Gone, Kept
  <2>4. Cardinality(Gone \cup Kept)
          = Cardinality(Gone) + Cardinality(Kept) - Cardinality(Gone \cap Kept)
    BY <1>6, FS_Union
  <2>5. Cardinality(Ones) = Cardinality(Gone \cup Kept)
    BY <2>1
  <2>6. Cardinality(Gone \cap Kept) = 0
    BY <2>1, <2>2
  <2> QED BY <2>3, <2>4, <2>5, <2>6
<1>10. Cardinality(New) = Cardinality(Kept)
  <2>1. Kept \in SUBSET Int /\ New \in SUBSET Int
    OBVIOUS
  <2>2. ASSUME NEW x \in Int PROVE x \in Kept <=> x - n \in New
    <3>1. x \in (n + 1)..(n + Window) <=> x - n \in 1..Window
      BY <1>1
    <3>2. CASE x - n \in 1..Window
      <4>1. filled'[x - n] = all[n + (x - n)] /\ n + (x - n) = x
        BY <1>4, <3>2
      <4> QED BY <3>1, <3>2, <4>1
    <3> QED BY <3>1, <3>2
  <2>3. \A x \in Int : x \in Kept <=> x - n \in New
    BY <2>2
  <2>4. n \in Int
    OBVIOUS
  <2> HIDE DEF Kept, New
  <2> QED BY <1>6, <2>1, <2>3, <2>4, ShiftedSet
<1>11. Cardinality(Old) \in Nat /\ Cardinality(Gone) \in Nat /\ Cardinality(Kept) \in Nat
  <2> HIDE DEF Old, Gone, Kept
  <2> QED BY <1>6, FS_CardinalityType
<1> HIDE DEF Ones, Old, Gone, Kept, New
<1>12. participation' = Sum(filled')
  BY <1>3, <1>7, <1>8, <1>9, <1>10, <1>11
<1>13. ASSUME NEW i \in 1..Window
       PROVE  filled'[i] = IF n + i <= Window THEN filled[n + i]
                           ELSE IF n + i = Window + 1 THEN 1 ELSE 0
  <2>1. filled'[i] = all[n + i] /\ n + i \in 1..(Window + n)
    BY <1>1, <1>4
  <2> QED BY <1>1, <1>2, <2>1
<1> QED BY <1>4, <1>12, <1>13

\* The inductive invariant of the slots.
SlotInv ==
    /\ time \in Nat /\ aslot = time \div Interval
    /\ filled \in [1..Window -> Bit] /\ participation = Sum(filled)

\* A block keeps it, however many slots were missed before it.
LEMMA BlockSlots ==
  ASSUME SlotInv, NEW w, NEW t \in Times(w), NEW ws, ApplyBlock(w, t, ws)
  PROVE  SlotInv'
<1> DEFINE n == SlotAt(t)
<1>1. /\ time' = t % (Interval * Cycle) /\ aslot' = (aslot + n) % Cycle /\ FillSlots(n)
  BY DEF ApplyBlock
<1>2. t \in Int /\ n > 0
  BY DEF Times
<1>3. t \in Nat /\ n \in Nat \ {0} /\ t \div Interval = time \div Interval + n
  BY <1>2, SlotAtFacts DEF SlotInv
<1> HIDE DEF n
<1>4. time' \in Nat /\ time' \div Interval = (t \div Interval) % Cycle
  BY <1>1, <1>3, ClockAssumption, QuotientOfRemainder
<1>5. aslot' = time' \div Interval
  BY <1>1, <1>3, <1>4 DEF SlotInv
<1>6. filled' \in [1..Window -> Bit] /\ participation' = Sum(filled')
  BY <1>1, <1>3, FillSlotsFacts DEF SlotInv
<1> QED BY <1>4, <1>5, <1>6 DEF SlotInv, Sum

\* The invariant holds at first.
LEMMA InitSlots == Init => SlotInv
<1> SUFFICES ASSUME Init PROVE SlotInv
  OBVIOUS
<1>1. /\ time = 0 /\ aslot = 0 /\ filled = [i \in 1..Window |-> 1] /\ participation = Window
  BY DEF Init
<1>2. 0 \div Interval = 0
  BY ClockAssumption
<1>3. {i \in DOMAIN filled : filled[i] = 1} = 1..Window
  BY <1>1
<1>4. Cardinality(1..Window) = Window
  BY ClockAssumption, FS_Interval
<1> QED BY <1>1, <1>2, <1>3, <1>4 DEF SlotInv, Sum, Bit

\* Every step keeps it.
LEMMA NextSlots == SlotInv /\ [Next]_vars => SlotInv'
<1> SUFFICES ASSUME SlotInv, [Next]_vars PROVE SlotInv'
  OBVIOUS
<1>1. ASSUME NEW w \in Witness, PlainBlock(w) \/ VoteBlock(w) \/ KeyBlock(w) PROVE SlotInv'
  <2>1. \E t \in Times(w) : \E ws : ApplyBlock(w, t, ws)
    BY <1>1 DEF PlainBlock, VoteBlock, KeyBlock
  <2> QED BY <2>1, BlockSlots
<1>2. CASE UNCHANGED slots
  BY <1>2 DEF slots, SlotInv, Sum
<1>3. ASSUME NEW w \in Witness, Upgrade(w) PROVE SlotInv'
  BY <1>2, <1>3 DEF Upgrade
<1>4. CASE TimeComes
  BY <1>2, <1>4 DEF TimeComes
<1>5. CASE UNCHANGED vars
  BY <1>2, <1>5 DEF vars
<1> QED BY <1>1, <1>3, <1>4, <1>5 DEF Next

\* current_aslot counts the slots since the genesis and participation_count the
\* filled ones of the window, wherever in their slots the blocks come and
\* however many are missed, more than the window holds included.
THEOREM SlotsCounted == Spec => [](SlotsFollowTime /\ ParticipationCounts)
<1>1. SlotInv => SlotsFollowTime /\ ParticipationCounts
  BY DEF SlotInv, SlotsFollowTime, ParticipationCounts
<1>2. Spec => []SlotInv
  BY InitSlots, NextSlots, PTL DEF Spec
<1> QED BY <1>1, <1>2, PTL

-----------------------------------------------------------------------------
(* The size of a schedule                                                  *)

\* A strict linear order on S, as a set of pairs.
Linear(R, S) ==
    /\ \A x \in S : <<x, x>> \notin R
    /\ \A x, y \in S : x # y => <<x, y>> \in R \/ <<y, x>> \in R
    /\ \A x, y, z \in S : <<x, y>> \in R /\ <<y, z>> \in R => <<x, z>> \in R

\* FoldFacts has the same notion of a finite set.
LEMMA FiniteThere == ASSUME NEW S, IsFiniteSet(S) PROVE N!IsFiniteSet(S)
BY DEF IsFiniteSet, N!IsFiniteSet

\* Finitely many elements have a last one.
LEMMA LastOf ==
  ASSUME NEW S, IsFiniteSet(S), S # {}, NEW R, Linear(R, S)
  PROVE  \E e \in S : \A x \in S : x = e \/ <<x, e>> \in R
<1> DEFINE G == {T \in SUBSET S : T = {} \/ \E e \in T : \A x \in T : x = e \/ <<x, e>> \in R}
<1>1. ASSUME NEW T \in SUBSET S, \A x \in T : T \ {x} \in G PROVE T \in G
  <2>1. CASE T = {}
    BY <2>1
  <2>2. CASE T # {}
    <3>1. PICK y \in T : T \ {y} \in G
      BY <1>1, <2>2
    <3>2. CASE T \ {y} = {}
      BY <3>2
    <3>3. CASE T \ {y} # {}
      <4>1. PICK e \in T \ {y} : \A x \in T \ {y} : x = e \/ <<x, e>> \in R
        BY <3>1, <3>3
      <4>2. CASE <<y, e>> \in R
        BY <4>1, <4>2
      <4>3. CASE <<e, y>> \in R
        <5>1. \A x \in T : x = y \/ <<x, y>> \in R
          BY <4>1, <4>3 DEF Linear
        <5> QED BY <5>1
      <4> QED BY <4>1, <4>2, <4>3 DEF Linear
    <3> QED BY <3>2, <3>3
  <2> QED BY <2>1, <2>2
<1>2. S \in G
  <2> HIDE DEF G
  <2>1. \A T \in SUBSET S : (\A x \in T : T \ {x} \in G) => T \in G
    BY <1>1
  <2>2. \A T \in SUBSET S : T \in G
    BY <2>1, FiniteThere, N!SetInduction
  <2> QED BY <2>2
<1> QED BY <1>2

\* And a first one.
LEMMA FirstOf ==
  ASSUME NEW S, IsFiniteSet(S), S # {}, NEW R, Linear(R, S)
  PROVE  \E e \in S : \A x \in S : x = e \/ <<e, x>> \in R
<1> DEFINE Q == {p \in S \X S : <<p[2], p[1]>> \in R}
<1>1. \A x, y \in S : <<x, y>> \in Q <=> <<y, x>> \in R
  OBVIOUS
<1> HIDE DEF Q
<1>2. Linear(Q, S)
  BY <1>1 DEF Linear
<1>3. PICK e \in S : \A x \in S : x = e \/ <<x, e>> \in Q
  BY <1>2, LastOf
<1> QED BY <1>1, <1>3

\* The witness_objects as far as the orders of their indices need them.
Ordered(ws) == \A w \in Witness : ws[w].votes \in Int /\ ws[w].vst \in Int

\* The two orders, as sets of pairs.
ByVotes(ws) == {p \in Witness \X Witness : MoreVotes(ws, p[1], p[2])}
ByTime(ws) == {p \in Witness \X Witness : Earlier(ws, p[1], p[2])}

LEMMA OrdersAreLinear ==
  ASSUME NEW ws, Ordered(ws), NEW S \in SUBSET Witness
  PROVE  Linear(ByVotes(ws), S) /\ Linear(ByTime(ws), S)
<1>1. /\ \A x, y \in S : <<x, y>> \in ByVotes(ws) <=> MoreVotes(ws, x, y)
      /\ \A x, y \in S : <<x, y>> \in ByTime(ws) <=> Earlier(ws, x, y)
  BY DEF ByVotes, ByTime
<1>2. \A x \in S : x \in Int /\ ws[x].votes \in Int /\ ws[x].vst \in Int
  BY DEF Ordered, Witness
<1>3. Linear(ByVotes(ws), S)
  BY <1>1, <1>2 DEF Linear, MoreVotes
<1>4. Linear(ByTime(ws), S)
  BY <1>1, <1>2 DEF Linear, Earlier
<1> QED BY <1>3, <1>4

\* The size of a set that is one larger than another at most.
LEMMA OneMore ==
  ASSUME NEW S, NEW T \in SUBSET Witness, NEW e \in Witness, S \subseteq T \cup {e}
  PROVE  Cardinality(S) \in Nat /\ Cardinality(T) \in Nat /\ Cardinality(S) <= Cardinality(T) + 1
<1>1. IsFiniteSet(T) /\ IsFiniteSet(T \cup {e}) /\ Cardinality(T) \in Nat
      /\ Cardinality(T \cup {e}) \in Nat
  BY WitnessesFinite, FS_Subset, FS_CardinalityType
<1>2. Cardinality(T \cup {e}) <= Cardinality(T) + 1
  BY <1>1, FS_AddElement
<1>3. IsFiniteSet(S) /\ Cardinality(S) <= Cardinality(T \cup {e}) /\ Cardinality(S) \in Nat
  BY <1>1, FS_Subset, FS_CardinalityType
<1> QED BY <1>1, <1>2, <1>3

\* No more witnesses are elected than STEEMIT_MAX_VOTED_WITNESSES.
LEMMA ElectedSize ==
  ASSUME NEW ws, Ordered(ws)
  PROVE  Cardinality(Elected(ws)) \in Nat /\ Cardinality(Elected(ws)) <= MaxVoted
<1> DEFINE E == Elected(ws)
           Before(y) == {x \in Keyed(ws) : MoreVotes(ws, x, y)}
<1>1. E \in SUBSET Witness /\ E \subseteq Keyed(ws) /\ \A e \in E : Cardinality(Before(e)) < MaxVoted
  BY DEF Elected, Keyed
<1>2. IsFiniteSet(E) /\ Cardinality(E) \in Nat /\ MaxVoted \in Nat
  BY <1>1, WitnessesFinite, FS_Subset, FS_CardinalityType, ScheduleAssumption
<1>3. CASE E = {}
  BY <1>2, <1>3, FS_EmptySet
<1>4. CASE E # {}
  <2> HIDE DEF E
  <2>1. Linear(ByVotes(ws), E)
    BY <1>1, OrdersAreLinear
  <2>2. PICK e \in E : \A x \in E : x = e \/ <<x, e>> \in ByVotes(ws)
    BY <1>2, <1>4, <2>1, LastOf
  <2>3. E \subseteq Before(e) \cup {e}
    BY <1>1, <2>2 DEF ByVotes
  <2>4. Before(e) \in SUBSET Witness /\ e \in Witness
    BY <1>1 DEF Keyed
  <2>5. Cardinality(Before(e)) < MaxVoted
    BY <1>1
  <2> HIDE DEF Before
  <2>6. Cardinality(Before(e)) \in Nat /\ Cardinality(E) <= Cardinality(Before(e)) + 1
    BY <2>3, <2>4, OneMore
  <2> QED BY <1>2, <2>5, <2>6 DEF E
<1> QED BY <1>3, <1>4

\* The elected ones and those that are passed never overfill the schedule, and
\* fill it when there are enough witnesses with keys.
LEMMA ActiveSize ==
  ASSUME NEW ws, Ordered(ws)
  PROVE  LET active == Active(ws, Processed(ws))
         IN  /\ active \in SUBSET Witness /\ IsFiniteSet(active) /\ Cardinality(active) \in Nat
             /\ Cardinality(active) <= MaxWitnesses
             /\ Keyed(ws) = Witness /\ Witnesses >= MaxWitnesses =>
                  Cardinality(active) = MaxWitnesses
<1> DEFINE E == Elected(ws)
           K == Keyed(ws)
           P == Processed(ws)
           Before(y) == E \cup {x \in K : Earlier(ws, x, y)}
           A == Active(ws, P)
<1>0. MaxVoted \in Nat /\ MaxWitnesses \in Nat /\ MaxVoted <= MaxWitnesses /\ Witnesses \in Nat
  BY ScheduleAssumption
<1>1. /\ E \in SUBSET Witness /\ K \in SUBSET Witness /\ P \in SUBSET Witness /\ E \subseteq K
      /\ \A y \in Witness : y \in P <=> Cardinality(Before(y)) < MaxWitnesses
      /\ A = E \cup (P \cap K)
  BY DEF Elected, Keyed, Processed, Active
<1>2. A \in SUBSET Witness /\ IsFiniteSet(A) /\ Cardinality(A) \in Nat
  BY <1>1, WitnessesFinite, FS_Subset, FS_CardinalityType
<1>3. \A y : Before(y) \in SUBSET Witness
  BY <1>1
<1>4. Cardinality(E) <= MaxVoted /\ Cardinality(E) \in Nat
  BY ElectedSize
<1> HIDE DEF E, K, P, A
<1>5. Cardinality(A) <= MaxWitnesses
  <2> DEFINE D == (P \cap K) \ E
  <2>1. CASE D = {}
    <3>1. A = E
      BY <1>1, <2>1
    <3> QED BY <1>0, <1>4, <3>1
  <2>2. CASE D # {}
    <3>1. D \in SUBSET Witness /\ IsFiniteSet(D)
      BY <1>1, WitnessesFinite, FS_Subset
    <3>2. Linear(ByTime(ws), D)
      BY <3>1, OrdersAreLinear
    <3>3. PICK e \in D : \A x \in D : x = e \/ <<x, e>> \in ByTime(ws)
      <4> HIDE DEF D
      <4> QED BY <2>2, <3>1, <3>2, LastOf
    <3>4. A \subseteq Before(e) \cup {e} /\ e \in P /\ e \in Witness
      BY <1>1, <3>3 DEF ByTime
    <3>5. Cardinality(Before(e)) < MaxWitnesses
      BY <1>1, <3>4
    <3> HIDE DEF Before
    <3>6. Cardinality(Before(e)) \in Nat /\ Cardinality(A) <= Cardinality(Before(e)) + 1
      BY <1>3, <3>4, OneMore
    <3> QED BY <1>0, <1>2, <3>5, <3>6
  <2> QED BY <2>1, <2>2
<1>6. ASSUME K = Witness, Witnesses >= MaxWitnesses PROVE Cardinality(A) = MaxWitnesses
  <2> DEFINE D == Witness \ P
  <2>1. CASE D = {}
    <3>1. A = Witness
      BY <1>1, <1>6, <2>1
    <3>2. Cardinality(A) = Witnesses
      BY <1>0, <3>1, FS_Interval, ScheduleAssumption DEF Witness
    <3> QED BY <1>0, <1>5, <1>6, <3>2
  <2>2. CASE D # {}
    <3>1. D \in SUBSET Witness /\ IsFiniteSet(D)
      BY <1>1, WitnessesFinite, FS_Subset
    <3>2. Linear(ByTime(ws), D) /\ Linear(ByTime(ws), Witness)
      BY <3>1, OrdersAreLinear
    <3>3. PICK e \in D : \A x \in D : x = e \/ <<e, x>> \in ByTime(ws)
      <4> HIDE DEF D
      <4> QED BY <2>2, <3>1, <3>2, FirstOf
    <3>4. ASSUME NEW x \in Witness, Earlier(ws, x, e) PROVE x \in P
      <4>1. <<x, e>> \in ByTime(ws) /\ e \in Witness
        BY <3>4 DEF ByTime
      <4>2. x \notin D
        <5>1. ~(<<e, x>> \in ByTime(ws)) /\ x # e
          BY <3>2, <4>1 DEF Linear
        <5> QED BY <3>3, <5>1
      <4> QED BY <4>2
    <3>5. Before(e) \subseteq A
      BY <1>1, <1>6, <3>4
    <3>6. ~(Cardinality(Before(e)) < MaxWitnesses) /\ e \in Witness
      BY <1>1, <3>3
    <3> HIDE DEF Before
    <3>7. Cardinality(Before(e)) <= Cardinality(A) /\ Cardinality(Before(e)) \in Nat
      BY <1>2, <1>3, <3>5, WitnessesFinite, FS_Subset, FS_CardinalityType
    <3> QED BY <1>0, <1>2, <1>5, <3>6, <3>7
  <2> QED BY <2>1, <2>2
<1> QED BY <1>2, <1>5, <1>6 DEF A, K, P

\* There are witnesses.
LEMMA SomeWitness == Witness # {}
<1>1. 1 \in 1..Witnesses
  BY ScheduleAssumption
<1> QED BY <1>1 DEF Witness

\* Somebody is active, if everyone has a key.
LEMMA SomeoneActive ==
  ASSUME NEW ws, Ordered(ws), Keyed(ws) = Witness
  PROVE  Active(ws, Processed(ws)) # {}
<1>1. Witness # {} /\ MaxVoted \in Nat \ {0}
  BY SomeWitness, ScheduleAssumption
<1>2. Linear(ByVotes(ws), Witness)
  BY OrdersAreLinear
<1>3. PICK e \in Witness : \A x \in Witness : x = e \/ <<e, x>> \in ByVotes(ws)
  BY <1>1, <1>2, WitnessesFinite, FirstOf
<1>4. ASSUME NEW x \in Witness PROVE ~MoreVotes(ws, x, e)
  <2>1. <<x, e>> \in ByVotes(ws) <=> MoreVotes(ws, x, e)
    BY DEF ByVotes
  <2> QED BY <1>2, <1>3, <2>1 DEF Linear
<1>5. {x \in Keyed(ws) : MoreVotes(ws, x, e)} = {}
  BY <1>4
<1>6. Cardinality({x \in Keyed(ws) : MoreVotes(ws, x, e)}) < MaxVoted
  BY <1>1, <1>5, FS_EmptySet
<1>7. e \in Elected(ws)
  BY <1>6 DEF Elected
<1> QED BY <1>7 DEF Active

-----------------------------------------------------------------------------
(* Types                                                                   *)

\* The lower of two numbers
LEMMA LowerOf ==
  ASSUME NEW a \in Int, NEW b \in Int
  PROVE  Min({a, b}) = IF a <= b THEN a ELSE b
<1>1. \E x \in {a, b} : \A y \in {a, b} : x <= y
  BY DEF Min
<1>2. Min({a, b}) \in {a, b} /\ \A y \in {a, b} : Min({a, b}) <= y
  BY <1>1 DEF Min
<1> QED BY <1>2

\* A set of numbers up to k has a greatest one.
LEMMA GreatestOf ==
  ASSUME NEW T, T \subseteq Nat, T # {}, NEW k \in Nat, \A y \in T : y <= k
  PROVE  Max(T) \in T /\ \A y \in T : y <= Max(T)
<1>1. PICK x \in T : \A y \in T : y <= x
  BY N!LargestOf
<1>2. \A y \in T : x >= y
  BY <1>1
<1>3. Max(T) \in T /\ \A y \in T : Max(T) >= y
  BY <1>2 DEF Max
<1> QED BY <1>3

\* The times that witnesses propose have a bound.
LEMMA ResetsAreBounded == \E b \in Nat : \A w \in Witness : ResetBlocks[w] <= b
<1> DEFINE G == {k \in 0..Witnesses : \E b \in Nat : \A w \in 1..k : ResetBlocks[w] <= b}
<1>0. Witnesses \in Nat /\ ResetBlocks \in [1..Witnesses -> Nat]
  BY ScheduleAssumption DEF Witness
<1>1. 0 \in G
  BY <1>0
<1>2. ASSUME NEW k \in 1..Witnesses, k - 1 \in G PROVE k \in G
  <2>1. PICK b \in Nat : \A w \in 1..(k - 1) : ResetBlocks[w] <= b
    BY <1>2
  <2>2. ResetBlocks[k] \in Nat /\ \A w \in 1..k : w = k \/ w \in 1..(k - 1)
    BY <1>0
  <2> DEFINE c == b + ResetBlocks[k]
  <2>3. ASSUME NEW w \in 1..k PROVE ResetBlocks[w] <= c
    <3>1. ResetBlocks[w] \in Nat /\ (w = k \/ ResetBlocks[w] <= b)
      BY <1>0, <2>1, <2>2
    <3> QED BY <2>2, <3>1
  <2>4. c \in Nat /\ k \in 0..Witnesses
    BY <1>0, <2>2
  <2> HIDE DEF c
  <2> QED BY <2>3, <2>4
<1>3. Witnesses \in G
  <2> HIDE DEF G
  <2>1. \A k \in 0..Witnesses : k \in G
    BY <1>0, <1>1, <1>2, N!UpTo
  <2> QED BY <1>0, <2>1
<1> QED BY <1>3 DEF Witness

LEMMA AgeLimitFacts == AgeLimit \in Nat /\ AgeLimit > MaxWitnesses
<1> DEFINE T == {ResetBlocks[w] : w \in Witness} \cup {MaxWitnesses}
<1>1. PICK b \in Nat : \A w \in Witness : ResetBlocks[w] <= b
  BY ResetsAreBounded
<1>2. MaxWitnesses \in Nat /\ \A w \in Witness : ResetBlocks[w] \in Nat
  BY ScheduleAssumption
<1>3. T \subseteq Nat /\ T # {} /\ MaxWitnesses \in T /\ b + MaxWitnesses \in Nat
      /\ \A y \in T : y <= b + MaxWitnesses
  BY <1>1, <1>2
<1> HIDE DEF T
<1>4. Max(T) \in Nat /\ MaxWitnesses <= Max(T)
  BY <1>3, GreatestOf
<1>5. AgeLimit = Max(T) + 1
  BY DEF AgeLimit, T
<1> QED BY <1>2, <1>4, <1>5

\* What update_median_witness_props finds is a time some active witness proposes.
LEMMA MedianFacts ==
  ASSUME NEW active \in SUBSET Witness, active # {}
  PROVE  MedianProps(active) \in Nat
<1> DEFINE S == {ResetBlocks[w] : w \in active}
           Upto(n) == {w \in active : ResetBlocks[w] <= n}
           Below(n) == {w \in active : ResetBlocks[w] < n}
           middle == Cardinality(active) \div 2
           T == {n \in S : Cardinality(Upto(n)) > middle}
<1>1. PICK k \in Nat : \A w \in Witness : ResetBlocks[w] <= k
  BY ResetsAreBounded
<1>2. S \subseteq Nat /\ S # {} /\ \A y \in S : y <= k
  BY <1>1, ScheduleAssumption
<1>3. IsFiniteSet(active) /\ Cardinality(active) \in Nat \ {0}
  BY WitnessesFinite, FS_Subset, FS_CardinalityType, FS_EmptySet
<1>4. middle \in Nat /\ middle < Cardinality(active)
  BY <1>3
<1>5. \A n : IsFiniteSet(Upto(n)) /\ Cardinality(Upto(n)) \in Nat
  BY <1>3, FS_Subset, FS_CardinalityType
<1>6. T # {}
  <2>1. PICK m \in S : \A y \in S : y <= m
    BY <1>2, N!LargestOf
  <2>2. Upto(m) = active
    BY <2>1
  <2> QED BY <1>4, <2>1, <2>2
<1>7. PICK n \in T : \A m \in T : n <= m
  <2>1. T \subseteq Nat
    BY <1>2
  <2> QED BY <1>6, <2>1, N!SmallestOf
<1>8. Cardinality(Below(n)) <= middle
  <2>1. CASE Below(n) = {}
    BY <1>4, <2>1, FS_EmptySet
  <2>2. CASE Below(n) # {}
    <3> DEFINE V == {y \in S : y < n}
    <3>1. V # {} /\ V \subseteq Nat /\ \A y \in V : y <= k
      BY <1>2, <2>2
    <3>2. PICK m \in V : \A y \in V : y <= m
      BY <1>1, <3>1, N!LargestOf
    <3>3. m \in Nat /\ n \in Nat /\ m \in S /\ m < n
      BY <1>2, <1>7, <3>2
    <3>4. Below(n) = Upto(m)
      <4>1. ASSUME NEW w \in active PROVE ResetBlocks[w] < n <=> ResetBlocks[w] <= m
        <5>1. ResetBlocks[w] \in Nat /\ ResetBlocks[w] \in S
          BY <1>2
        <5>2. ResetBlocks[w] < n => ResetBlocks[w] <= m
          BY <3>2, <5>1
        <5> QED BY <3>3, <5>1, <5>2
      <4> QED BY <4>1
    <3>5. m \notin T
      <4>1. m \in T => n <= m
        BY <1>7
      <4> QED BY <3>3, <4>1
    <3>6. ~(Cardinality(Upto(m)) > middle)
      BY <3>3, <3>5
    <3>7. Cardinality(Upto(m)) \in Nat
      BY <1>5
    <3> HIDE DEF Upto, Below, middle
    <3> QED BY <1>4, <3>4, <3>6, <3>7
  <2> QED BY <2>1, <2>2
<1>9. \E x \in S : Cardinality(Below(x)) <= middle /\ Cardinality(Upto(x)) > middle
  BY <1>7, <1>8
<1>10. MedianProps(active) \in S
  BY <1>9 DEF MedianProps
<1> QED BY <1>2, <1>10

\* The witness_objects, but for the bounds of the virtual time.
Object == [votes : 0..MaxVotes, key : BOOLEAN, pos : Int, upd : Int, vst : Int,
           age : 0..AgeLimit, running : Hardfork, hfVote : Hardfork]
Objects == [Witness -> Object]

LEMMA ObjectFacts ==
  ASSUME NEW r \in Object
  PROVE  /\ r.votes \in 0..MaxVotes /\ r.key \in BOOLEAN /\ r.pos \in Int /\ r.upd \in Int
         /\ r.vst \in Int /\ r.age \in 0..AgeLimit /\ r.running \in Hardfork
         /\ r.hfVote \in Hardfork
BY DEF Object

\* A witness_object whose virtual time is changed.
Moved(r, p, u, t) == [r EXCEPT !.pos = p, !.upd = u, !.vst = t]

LEMMA ObjectMoved ==
  ASSUME NEW r \in Object, NEW p \in Int, NEW u \in Int, NEW t \in Int
  PROVE  Moved(r, p, u, t) \in Object /\ Moved(r, p, u, t).age = r.age
         /\ Moved(r, p, u, t).key = r.key
<1> DEFINE a == [r EXCEPT !.pos = p]
           b == [a EXCEPT !.upd = u]
<1>1. a \in Object /\ a.age = r.age /\ a.key = r.key
  BY DEF Object
<1> HIDE DEF a
<1>2. b \in Object /\ b.age = r.age /\ b.key = r.key
  BY <1>1 DEF Object
<1> HIDE DEF b
<1>3. [b EXCEPT !.vst = t] \in Object /\ [b EXCEPT !.vst = t].age = r.age
      /\ [b EXCEPT !.vst = t].key = r.key
  BY <1>2 DEF Object
<1> QED BY <1>3 DEF Moved, a, b

\* What a block does to them, step by step.
LEMMA ConfirmObjects ==
  ASSUME NEW ws \in Objects, NEW w \in Witness
  PROVE  /\ Confirm(ws, w) \in Objects
         /\ \A x \in Witness : Confirm(ws, w)[x].age =
              IF x = w THEN 0 ELSE IF ws[x].age + 1 <= AgeLimit THEN ws[x].age + 1 ELSE AgeLimit
<1> DEFINE age(x) == IF x = w THEN 0 ELSE Min({ws[x].age + 1, AgeLimit})
<1>1. ASSUME NEW x \in Witness
      PROVE  /\ age(x) \in 0..AgeLimit
             /\ age(x) = IF x = w THEN 0
                         ELSE IF ws[x].age + 1 <= AgeLimit THEN ws[x].age + 1 ELSE AgeLimit
  <2>1. ws[x].age \in 0..AgeLimit /\ AgeLimit \in Nat
    BY AgeLimitFacts, ObjectFacts DEF Objects
  <2>2. ws[x].age + 1 \in Int /\ AgeLimit \in Int
    BY <2>1
  <2>3. Min({ws[x].age + 1, AgeLimit}) = IF ws[x].age + 1 <= AgeLimit THEN ws[x].age + 1 ELSE AgeLimit
    BY <2>2, LowerOf
  <2> QED BY <2>1, <2>3
<1>2. Confirm(ws, w) = [x \in Witness |-> [ws[x] EXCEPT !.age = age(x)]]
  BY DEF Confirm
<1> HIDE DEF age
<1>3. ASSUME NEW x \in Witness
      PROVE  /\ [ws[x] EXCEPT !.age = age(x)].age = age(x)
             /\ [ws[x] EXCEPT !.age = age(x)] \in Object
  BY <1>1 DEF Objects, Object
<1> QED BY <1>1, <1>2, <1>3 DEF Objects

LEMMA MissTurnsObjects ==
  ASSUME NEW ws \in Objects, NEW w \in Witness, NEW n
  PROVE  /\ MissTurns(ws, w, n) \in Objects
         /\ \A x \in Witness : MissTurns(ws, w, n)[x].age = ws[x].age
<1> DEFINE missed == {Turn(i) : i \in 1..(n - 1)} \ {w}
           key(x) == ws[x].key /\ ~(x \in missed /\ ws[x].age > resetBlocks)
<1>1. MissTurns(ws, w, n) = [x \in Witness |-> [ws[x] EXCEPT !.key = key(x)]]
  BY DEF MissTurns
<1>2. \A x \in Witness : key(x) \in BOOLEAN
  OBVIOUS
<1> HIDE DEF key
<1>3. \A x \in Witness : [ws[x] EXCEPT !.key = key(x)] \in Object
                         /\ [ws[x] EXCEPT !.key = key(x)].age = ws[x].age
  BY <1>2 DEF Objects, Object
<1> QED BY <1>1, <1>3 DEF Objects

LEMMA KeyObjects ==
  ASSUME NEW ws \in Objects, NEW w \in Witness
  PROVE  /\ [ws EXCEPT ![w].key = ~@] \in Objects
         /\ \A x \in Witness : [ws EXCEPT ![w].key = ~@][x].age = ws[x].age
BY DEF Objects, Object

LEMMA AdjustVoteObjects ==
  ASSUME NEW ws \in Objects, vt \in Int, NEW w \in Witness, NEW v \in 0..MaxVotes
  PROVE  /\ AdjustVote(ws, w, v - ws[w].votes) \in Objects
         /\ \A x \in Witness : AdjustVote(ws, w, v - ws[w].votes)[x].age = ws[x].age
<1> DEFINE pos == ws[w].pos + ws[w].votes * (vt - ws[w].upd)
           vst == (vt + (Lap - pos) \div (v + 1)) % (Lap + 1)
           new == IF vst < vt THEN Lap ELSE vst
<1>1. ws[w].votes \in Nat /\ ws[w].pos \in Int /\ ws[w].upd \in Int /\ v \in Nat /\ Lap \in Nat
  BY LapAssumption, ObjectFacts DEF Objects
<1>2. Max({ws[w].votes + (v - ws[w].votes), 0}) = v
  <2>1. ws[w].votes + (v - ws[w].votes) = v
    BY <1>1
  <2> QED BY <1>1, <2>1, AtLeastZero
<1>3. pos \in Int
  BY <1>1
<1>4. new \in Int
  <2> HIDE DEF pos
  <2>1. vst \in Int
    BY <1>1, <1>3
  <2> QED BY <1>1, <2>1
<1>5. AdjustVote(ws, w, v - ws[w].votes) =
        [ws EXCEPT ![w].votes = v, ![w].pos = pos, ![w].upd = vt, ![w].vst = new]
  BY <1>2 DEF AdjustVote
<1> HIDE DEF pos, new
<1> DEFINE r == [ws[w] EXCEPT !.votes = v]
<1>6. r \in Object /\ r.age = ws[w].age
  BY DEF Objects, Object
<1> HIDE DEF r
<1>7. Moved(r, pos, vt, new) \in Object /\ Moved(r, pos, vt, new).age = ws[w].age
  BY <1>3, <1>4, <1>6, ObjectMoved
<1>8. AdjustVote(ws, w, v - ws[w].votes) =
        [ws EXCEPT ![w] = Moved(r, pos, vt, new)]
  BY <1>5 DEF Objects, Moved, r
<1> QED BY <1>7, <1>8 DEF Objects

LEMMA NextLapObjects ==
  ASSUME NEW ws \in Objects, vt \in 0..Lap, \A y \in Witness : Runs(ws[y], vt)
  PROVE  /\ NextLap(ws, Processed(ws)) \in Objects
         /\ \A x \in Witness : NextLap(ws, Processed(ws))[x].age = ws[x].age
<1> DEFINE passed == Processed(ws)
           now == Reached(ws, passed)
           lap(y) == Lap \div (ws[y].votes + 1)
<1>1. \A y \in Witness : lap(y) \in Int
  <2>1. \A y \in Witness : ws[y].votes \in Nat
    BY ObjectFacts DEF Objects
  <2> QED BY <2>1, LapAssumption
<1>2. now \in Int
  <2>1. now \in vt..Lap
    BY ReachedFacts
  <2> QED BY <2>1
<1> HIDE DEF passed, now
<1>3. CASE Overflows(ws, passed)
  <2>1. NextLap(ws, passed) =
          [w \in Witness |-> Moved(ws[w], 0, 0, lap(w))]
    BY <1>3 DEF NextLap, Reset, Moved
  <2> HIDE DEF lap
  <2>2. \A w \in Witness : Moved(ws[w], 0, 0, lap(w)) \in Object
                            /\ Moved(ws[w], 0, 0, lap(w)).age = ws[w].age
    BY <1>1, ObjectMoved DEF Objects
  <2> QED BY <2>1, <2>2 DEF Objects, passed
<1>4. CASE ~Overflows(ws, passed)
  <2>1. NextLap(ws, passed) =
          [w \in Witness |-> IF w \in passed
                             THEN Moved(ws[w], 0, now, now + lap(w))
                             ELSE ws[w]]
    BY <1>4 DEF NextLap, now, Moved
  <2>2. \A y \in Witness : now + lap(y) \in Int
    BY <1>1, <1>2
  <2> HIDE DEF lap
  <2>3. \A w \in Witness : Moved(ws[w], 0, now, now + lap(w)) \in Object
                            /\ Moved(ws[w], 0, now, now + lap(w)).age = ws[w].age
    BY <1>2, <2>2, ObjectMoved DEF Objects
  <2> QED BY <2>1, <2>3 DEF Objects, passed
<1> QED BY <1>3, <1>4

\* The header of a block.
LEMMA HeaderObjects ==
  ASSUME VoteInv, wit \in Objects, NEW w \in Witness, Able(w)
  PROVE  /\ Header(w) \in Objects
         /\ \A x \in Witness : Header(w)[x].age = wit[x].age /\ Header(w)[x].votes = wit[x].votes
<1> DEFINE vote == VoteOfBinary(binary[w], hf, wit[w].hfVote)
<1>1. VotesSound(Header(w))
  BY HeaderVotes
<1>2. Header(w) = [wit EXCEPT ![w].running = binary[w], ![w].hfVote = vote]
  BY DEF Header, ProcessHeader
<1>3. binary[w] \in Hardfork
  BY DEF VoteInv
<1>4. vote \in Hardfork
  <2> HIDE DEF vote
  <2>1. Header(w)[w].hfVote = vote
    BY <1>2 DEF Objects, Object
  <2> QED BY <1>1, <2>1 DEF VotesSound
<1> HIDE DEF vote
<1> DEFINE r == [wit[w] EXCEPT !.running = binary[w]]
<1>5. r \in Object /\ r.age = wit[w].age /\ r.votes = wit[w].votes
  BY <1>3 DEF Objects, Object
<1> HIDE DEF r
<1>6. [r EXCEPT !.hfVote = vote] \in Object /\ [r EXCEPT !.hfVote = vote].age = wit[w].age
      /\ [r EXCEPT !.hfVote = vote].votes = wit[w].votes
  BY <1>4, <1>5 DEF Object
<1>7. Header(w) = [wit EXCEPT ![w] = [r EXCEPT !.hfVote = vote]]
  BY <1>2 DEF Objects, r
<1> QED BY <1>6, <1>7 DEF Objects

\* The inductive invariant of the types: those that VoteInv, RunInv and SlotInv
\* do not give.
PlaceInv ==
    /\ wit \in Objects
    /\ shuffled \in Seq(Witness) /\ Len(shuffled) <= MaxWitnesses
    /\ resetBlocks \in Nat
    /\ round \in 0..(MaxWitnesses - 1)
    /\ time \in 0..(Interval * Cycle - 1) /\ aslot \in 0..(Cycle - 1)

\* A block that has the witnesses ws after its header and its transactions.
Blocks(w, t, ws) ==
    /\ w \in Witness /\ t \in Times(w)
    /\ ws \in Objects /\ Runners(ws) /\ \A y \in Witness : Runs(ws[y], vt)
    /\ \A y \in Witness : ws[y].age = wit[y].age
    /\ ApplyBlock(w, t, ws)

\* The witnesses when the block has been counted: their ages, and what the
\* schedule is made of.
LEMMA SignedFacts ==
  ASSUME VoteInv, RunInv, SlotInv, PlaceInv, NEW w, NEW t, NEW ws, Blocks(w, t, ws)
  PROVE  \E signed \in Objects :
            /\ \A y \in Witness : Runs(signed[y], vt)
            /\ UpdateSchedule(signed)
            /\ \A x \in Witness : signed[x].age =
                 IF x = w THEN 0
                 ELSE IF wit[x].age + 1 <= AgeLimit THEN wit[x].age + 1 ELSE AgeLimit
<1> DEFINE missed == MissTurns(ws, w, SlotAt(t))
           signed == Confirm(missed, w)
<1>1. /\ w \in Witness /\ ws \in Objects /\ Runners(ws) /\ \A y \in Witness : Runs(ws[y], vt)
      /\ \A y \in Witness : ws[y].age = wit[y].age
  BY DEF Blocks
<1>2. UpdateSchedule(signed)
  BY DEF Blocks, ApplyBlock
<1>3. /\ missed \in Objects /\ \A x \in Witness : missed[x].age = wit[x].age
      /\ SameRuns(ws, missed)
  <2>1. SameRuns(ws, missed)
    BY <1>1, SameRunsKeep
  <2>2. missed \in Objects /\ \A x \in Witness : missed[x].age = ws[x].age
    BY <1>1, MissTurnsObjects
  <2> HIDE DEF missed
  <2> QED BY <1>1, <2>1, <2>2
<1> HIDE DEF missed
<1>4. Runners(missed) /\ \A y \in Witness : Runs(missed[y], vt)
  BY <1>1, <1>3, SameRunsSound
<1>5. SameRuns(missed, signed)
  BY <1>1, <1>4, SameRunsKeep
<1>6. /\ signed \in Objects
      /\ \A x \in Witness : signed[x].age =
           IF x = w THEN 0
           ELSE IF missed[x].age + 1 <= AgeLimit THEN missed[x].age + 1 ELSE AgeLimit
  BY <1>1, <1>3, ConfirmObjects
<1> HIDE DEF signed
<1>7. \A y \in Witness : Runs(signed[y], vt)
  BY <1>4, <1>5, SameRunsSound
<1>8. \A x \in Witness : signed[x].age =
         IF x = w THEN 0 ELSE IF wit[x].age + 1 <= AgeLimit THEN wit[x].age + 1 ELSE AgeLimit
  BY <1>3, <1>6
<1> QED BY <1>2, <1>6, <1>7, <1>8

\* The orders of the indices are on numbers.
LEMMA ObjectsAreOrdered == ASSUME NEW ws \in Objects PROVE Ordered(ws)
<1>1. \A w \in Witness : ws[w].votes \in 0..MaxVotes /\ ws[w].vst \in Int
  BY ObjectFacts DEF Objects
<1> QED BY <1>1 DEF Ordered

\* A shuffle is a sequence of different witnesses, all of them active.
LEMMA ShuffleFacts ==
  ASSUME NEW active \in SUBSET Witness, Cardinality(active) \in Nat, NEW s \in SetToSeqs(active)
  PROVE  /\ s \in Seq(Witness) /\ Len(s) = Cardinality(active)
         /\ s \in [1..Cardinality(active) -> Witness]
         /\ \A i, j \in 1..Cardinality(active) : s[i] = s[j] => i = j
<1>1. /\ s \in [1..Cardinality(active) -> active]
      /\ \A i, j \in 1..Cardinality(active) : i # j => s[i] # s[j]
  BY DEF SetToSeqs
<1>2. s \in [1..Cardinality(active) -> Witness]
  BY <1>1
<1> QED BY <1>1, <1>2

\* What a new schedule looks like.
LEMMA NewScheduleFacts ==
  ASSUME NEW ws \in Objects, NewSchedule(ws)
  PROVE  /\ wit' = NextLap(ws, Processed(ws)) /\ vt' = NextTime(ws, Processed(ws))
         /\ shuffled' \in Seq(Witness) /\ Len(shuffled') <= MaxWitnesses
         /\ resetBlocks' \in Nat
         /\ Witnesses >= MaxWitnesses =>
              /\ shuffled' \in [1..MaxWitnesses -> Witness]
              /\ \A i, j \in 1..MaxWitnesses : shuffled'[i] = shuffled'[j] => i = j
<1> DEFINE active == Active(ws, Processed(ws))
<1>1. /\ Cardinality(active) = Min({MaxWitnesses, Witnesses})
      /\ wit' = NextLap(ws, Processed(ws)) /\ vt' = NextTime(ws, Processed(ws))
      /\ shuffled' \in SetToSeqs(active) /\ resetBlocks' = MedianProps(active)
  BY DEF NewSchedule
<1>2. /\ active \in SUBSET Witness /\ Cardinality(active) \in Nat
      /\ Cardinality(active) <= MaxWitnesses
  BY ObjectsAreOrdered, ActiveSize
<1> HIDE DEF active
<1>3. MaxWitnesses \in Nat \ {0} /\ Witnesses \in Nat \ {0}
  BY ScheduleAssumption
<1>4. Cardinality(active) = IF MaxWitnesses <= Witnesses THEN MaxWitnesses ELSE Witnesses
  BY <1>1, <1>3, LowerOf
<1>5. resetBlocks' \in Nat
  <2>1. active # {}
    BY <1>3, <1>4, FS_EmptySet
  <2> QED BY <1>1, <1>2, <2>1, MedianFacts
<1>6. /\ shuffled' \in Seq(Witness) /\ Len(shuffled') = Cardinality(active)
      /\ shuffled' \in [1..Cardinality(active) -> Witness]
      /\ \A i, j \in 1..Cardinality(active) : shuffled'[i] = shuffled'[j] => i = j
  BY <1>1, <1>2, ShuffleFacts
<1>7. Witnesses >= MaxWitnesses => Cardinality(active) = MaxWitnesses
  BY <1>3, <1>4
<1> QED BY <1>1, <1>2, <1>5, <1>6, <1>7

\* A block keeps the types.
LEMMA BlockPlaces ==
  ASSUME VoteInv, RunInv, SlotInv, PlaceInv, NEW w, NEW t, NEW ws, Blocks(w, t, ws)
  PROVE  PlaceInv'
<1>1. PICK signed \in Objects : /\ \A y \in Witness : Runs(signed[y], vt)
                                /\ UpdateSchedule(signed)
  BY SignedFacts
<1>0. Witness # {} /\ vt \in 0..Lap
  BY SomeWitness DEF RunInv
<1>2. /\ time' = t % (Interval * Cycle) /\ aslot' = (aslot + SlotAt(t)) % Cycle
      /\ round' = (round + 1) % MaxWitnesses
  BY DEF Blocks, ApplyBlock
<1>3. t \in Nat /\ SlotAt(t) \in Nat
  <2>1. t \in Int /\ SlotAt(t) > 0
    BY DEF Blocks, Times
  <2> QED BY <2>1, SlotAtFacts DEF SlotInv
<1>4. Interval * Cycle \in Nat \ {0} /\ Cycle \in Nat \ {0} /\ MaxWitnesses \in Nat \ {0}
  BY ClockAssumption, ScheduleAssumption, QuotientOfRemainder
<1>5. time' \in 0..(Interval * Cycle - 1)
  <2> DEFINE d == Interval * Cycle
  <2>1. d \in Nat \ {0} /\ time' = t % d
    BY <1>2, <1>4
  <2> HIDE DEF d
  <2>2. time' \in 0..(d - 1)
    BY <1>3, <2>1, Quotient
  <2> QED BY <2>2 DEF d
<1>6. aslot' \in 0..(Cycle - 1) /\ round' \in 0..(MaxWitnesses - 1)
  <2>1. aslot + SlotAt(t) \in Nat /\ round + 1 \in Nat
    BY <1>3 DEF PlaceInv
  <2> QED BY <1>2, <1>4, <2>1, Quotient
<1>7. CASE round' = 0
  <2>1. NewSchedule(signed)
    BY <1>0, <1>1, <1>7 DEF UpdateSchedule
  <2>2. wit' \in Objects
    BY <1>0, <1>1, <2>1, NewScheduleFacts, NextLapObjects
  <2> QED BY <1>5, <1>6, <2>1, <2>2, NewScheduleFacts DEF PlaceInv
<1>8. CASE round' # 0
  <2>1. wit' = signed /\ shuffled' = shuffled /\ resetBlocks' = resetBlocks
    BY <1>0, <1>1, <1>8 DEF UpdateSchedule
  <2> QED BY <1>1, <1>5, <1>6, <2>1 DEF PlaceInv
<1> QED BY <1>7, <1>8

\* The blocks of the specification are such blocks.
LEMMA BlocksAre ==
  ASSUME VoteInv, RunInv, PlaceInv, NEW w \in Witness,
         PlainBlock(w) \/ VoteBlock(w) \/ KeyBlock(w)
  PROVE  \E t, ws : Blocks(w, t, ws)
<1> DEFINE h == Header(w)
<1>1. vt \in 0..Lap /\ vt \in Int /\ Runners(wit) /\ \A y \in Witness : Runs(wit[y], vt)
  BY DEF RunInv
<1>2. Able(w)
  BY DEF PlainBlock, VoteBlock, KeyBlock, Times
<1>3. h \in Objects /\ \A x \in Witness : h[x].age = wit[x].age /\ h[x].votes = wit[x].votes
  BY <1>2, HeaderObjects DEF PlaceInv
<1>4. Runners(h) /\ \A y \in Witness : Runs(h[y], vt)
  <2>1. SameRuns(wit, h)
    BY <1>1, SameRunsKeep DEF Header
  <2> QED BY <1>1, <2>1, SameRunsSound
<1>5. CASE PlainBlock(w)
  <2>1. PICK t \in Times(w) : ApplyBlock(w, t, h)
    BY <1>5 DEF PlainBlock
  <2> HIDE DEF h
  <2>2. Blocks(w, t, h)
    BY <1>3, <1>4, <2>1 DEF Blocks
  <2> QED BY <2>2
<1>6. CASE VoteBlock(w)
  <2>1. PICK t \in Times(w), x \in Witness, v \in 0..MaxVotes :
          ApplyBlock(w, t, AdjustVote(h, x, v - wit[x].votes))
    BY <1>6 DEF VoteBlock
  <2> HIDE DEF h
  <2> DEFINE ws == AdjustVote(h, x, v - h[x].votes)
  <2>2. ApplyBlock(w, t, ws)
    BY <1>3, <2>1
  <2>3. ws \in Objects /\ \A y \in Witness : ws[y].age = wit[y].age
    BY <1>1, <1>3, AdjustVoteObjects
  <2>4. Runners(ws) /\ \A y \in Witness : Runs(ws[y], vt)
    BY <1>1, <1>4, AdjustVoteRuns
  <2> HIDE DEF ws
  <2>5. Blocks(w, t, ws)
    BY <2>1, <2>2, <2>3, <2>4 DEF Blocks
  <2> QED BY <2>5
<1>7. CASE KeyBlock(w)
  <2>1. PICK t \in Times(w), x \in Witness : ApplyBlock(w, t, [h EXCEPT ![x].key = ~@])
    BY <1>7 DEF KeyBlock
  <2> HIDE DEF h
  <2> DEFINE ws == [h EXCEPT ![x].key = ~@]
  <2>2. ws \in Objects /\ \A y \in Witness : ws[y].age = wit[y].age
    BY <1>3, KeyObjects
  <2>3. SameRuns(h, ws)
    BY <1>4, SameRunsKeep
  <2>4. Runners(ws) /\ \A y \in Witness : Runs(ws[y], vt)
    BY <1>4, <2>3, SameRunsSound
  <2>5. ApplyBlock(w, t, ws)
    BY <2>1
  <2> HIDE DEF ws
  <2>6. Blocks(w, t, ws)
    BY <2>1, <2>2, <2>4, <2>5 DEF Blocks
  <2> QED BY <2>6
<1> QED BY <1>5, <1>6, <1>7

\* The witnesses at first.
LEMMA InitObjects ==
  ASSUME Init
  PROVE  wit \in Objects /\ Keyed(wit) = Witness /\ \A w \in Witness : wit[w].age = 0
<1> DEFINE lap(w) == Lap \div (InitVotes[w] + 1)
           r(w) == [votes |-> InitVotes[w], key |-> TRUE, pos |-> 0, upd |-> 0, vst |-> 0,
                    age |-> 0, running |-> 0, hfVote |-> 0]
           fresh == [w \in Witness |-> r(w)]
<1>1. \A w \in Witness : InitVotes[w] \in 0..MaxVotes /\ lap(w) \in Int
  <2>1. \A w \in Witness : InitVotes[w] \in 0..MaxVotes /\ InitVotes[w] \in Nat
    BY ScheduleAssumption
  <2> QED BY <2>1, LapAssumption
<1>2. 0 \in 0..AgeLimit /\ 0 \in Hardfork
  BY AgeLimitFacts, HardforkFacts
<1>3. \A w \in Witness : r(w) \in Object /\ r(w).age = 0 /\ r(w).key = TRUE /\ r(w).votes = InitVotes[w]
  BY <1>1, <1>2 DEF Object
<1>4. wit = Reset(fresh)
  BY DEF Init
<1> HIDE DEF r
<1>5. wit = [w \in Witness |-> Moved(r(w), 0, 0, lap(w))]
  BY <1>3, <1>4 DEF Reset, Moved
<1> HIDE DEF lap, fresh
<1>6. ASSUME NEW w \in Witness
      PROVE  /\ Moved(r(w), 0, 0, lap(w)) \in Object
             /\ Moved(r(w), 0, 0, lap(w)).age = 0 /\ Moved(r(w), 0, 0, lap(w)).key = TRUE
  <2>1. r(w) \in Object /\ lap(w) \in Int /\ 0 \in Int
    BY <1>1, <1>3
  <2>2. /\ Moved(r(w), 0, 0, lap(w)) \in Object
        /\ Moved(r(w), 0, 0, lap(w)).age = r(w).age
        /\ Moved(r(w), 0, 0, lap(w)).key = r(w).key
    BY <2>1, ObjectMoved
  <2> QED BY <1>3, <2>2
<1> QED BY <1>5, <1>6 DEF Objects, Keyed

LEMMA InitPlaces == Init => PlaceInv
<1> SUFFICES ASSUME Init PROVE PlaceInv
  OBVIOUS
<1> DEFINE active == Active(wit, Processed(wit))
<1>1. /\ shuffled \in SetToSeqs(active) /\ resetBlocks = MedianProps(active)
      /\ round = 0 /\ time = 0 /\ aslot = 0
  BY DEF Init
<1>2. wit \in Objects /\ Keyed(wit) = Witness
  BY InitObjects
<1>3. active \in SUBSET Witness /\ Cardinality(active) \in Nat /\ Cardinality(active) <= MaxWitnesses
  BY <1>2, ObjectsAreOrdered, ActiveSize
<1>4. active # {}
  BY <1>2, ObjectsAreOrdered, SomeoneActive
<1> HIDE DEF active
<1>5. resetBlocks \in Nat /\ shuffled \in Seq(Witness) /\ Len(shuffled) <= MaxWitnesses
  BY <1>1, <1>3, <1>4, MedianFacts, ShuffleFacts
<1>6. Interval * Cycle \in Nat \ {0} /\ Cycle \in Nat \ {0} /\ MaxWitnesses \in Nat \ {0}
  BY ClockAssumption, ScheduleAssumption, QuotientOfRemainder
<1>7. time \in 0..(Interval * Cycle - 1)
  <2> DEFINE d == Interval * Cycle
  <2>1. d \in Nat \ {0} /\ time = 0
    BY <1>1, <1>6
  <2> HIDE DEF d
  <2>2. time \in 0..(d - 1)
    BY <2>1
  <2> QED BY <2>2 DEF d
<1> QED BY <1>1, <1>2, <1>5, <1>6, <1>7 DEF PlaceInv

LEMMA NextPlaces == VoteInv /\ RunInv /\ SlotInv /\ PlaceInv /\ [Next]_vars => PlaceInv'
<1> SUFFICES ASSUME VoteInv, RunInv, SlotInv, PlaceInv, [Next]_vars PROVE PlaceInv'
  OBVIOUS
<1>1. ASSUME NEW w \in Witness, PlainBlock(w) \/ VoteBlock(w) \/ KeyBlock(w) PROVE PlaceInv'
  BY <1>1, BlocksAre, BlockPlaces
<1>2. CASE UNCHANGED <<schedule, slots>>
  BY <1>2 DEF schedule, slots, PlaceInv
<1>3. ASSUME NEW w \in Witness, Upgrade(w) PROVE PlaceInv'
  BY <1>2, <1>3 DEF Upgrade
<1>4. CASE TimeComes
  BY <1>2, <1>4 DEF TimeComes
<1>5. CASE UNCHANGED vars
  BY <1>2, <1>5 DEF vars
<1> QED BY <1>1, <1>3, <1>4, <1>5 DEF Next

-----------------------------------------------------------------------------
(* Turns                                                                   *)

\* Multiples do not change a remainder.
LEMMA ModShift ==
  ASSUME NEW m \in Nat \ {0}, NEW c \in Nat, c % m = 0, NEW a \in Nat
  PROVE  (c + a) % m = a % m
<1> DEFINE p == c \div m
           q == a \div m
           r == a % m
<1>1. p \in Nat /\ c = m * p
  BY Quotient
<1>2. q \in Nat /\ r \in 0..(m - 1) /\ a = m * q + r
  BY Quotient
<1> HIDE DEF p, q, r
<1>3. m * (p + q) = m * p + m * q /\ m * p \in Int /\ m * q \in Int
  BY <1>1, <1>2, Distributes
<1>4. p + q \in Nat /\ c + a \in Nat /\ c + a = m * (p + q) + r
  BY <1>1, <1>2, <1>3
<1>5. (c + a) % m = r
  <2> DEFINE z == p + q
             b == c + a
  <2>1. z \in Nat /\ b \in Nat /\ b = m * z + r
    BY <1>4
  <2> HIDE DEF z, b
  <2>2. b % m = r
    BY <1>2, <2>1, OneQuotient
  <2> QED BY <2>2 DEF b
<1> QED BY <1>5 DEF r

\* Different numbers with the same remainder are far apart.
LEMMA SameRemainder ==
  ASSUME NEW m \in Nat \ {0}, NEW x \in Nat, NEW y \in Nat, x % m = y % m, x < y
  PROVE  y - x >= m
<1> DEFINE p == x \div m
           q == y \div m
           r == x % m
<1>1. p \in Nat /\ r \in 0..(m - 1) /\ x = m * p + r
  BY Quotient
<1>2. q \in Nat /\ y = m * q + r
  BY Quotient
<1> HIDE DEF p, q, r
<1>3. CASE q <= p
  <2> DEFINE z == p - q
  <2>1. z \in Nat /\ p = q + z
    BY <1>1, <1>2, <1>3
  <2> HIDE DEF z
  <2>2. m * p = m * q + m * z /\ m * q \in Int /\ m * z \in Nat
    BY <1>2, <2>1, Distributes
  <2> QED BY <1>1, <1>2, <2>2
<1>4. CASE q > p
  <2> DEFINE z == q - p
  <2>1. z \in Nat \ {0} /\ q = p + z
    BY <1>1, <1>2, <1>4
  <2> HIDE DEF z
  <2>2. m * q = m * p + m * z /\ m * p \in Int /\ m * z >= m /\ m * z \in Int
    BY <1>1, <2>1, Distributes, PositiveProduct
  <2> QED BY <1>1, <1>2, <2>2
<1> QED BY <1>1, <1>2, <1>3, <1>4

\* Turns do not notice that current_aslot is kept modulo Cycle.
LEMMA TurnsOfSlots ==
  ASSUME NEW a \in 0..(Cycle - 1), NEW b \in Nat
  PROVE  (((a + 1) % Cycle) + b) % MaxWitnesses = (a + 1 + b) % MaxWitnesses
<1>1. /\ MaxWitnesses \in Nat \ {0} /\ Cycle \in Nat \ {0} /\ MaxWitnesses \in 1..MaxWitnesses
      /\ a + 1 \in 0..Cycle /\ a + 1 \in Nat
  BY ScheduleAssumption, ClockAssumption
<1>2. Cycle % MaxWitnesses = 0
  BY <1>1, ScheduleAssumption
<1>3. CASE a + 1 < Cycle
  <2>1. a + 1 \in 0..(Cycle - 1) /\ a + 1 = Cycle * 0 + (a + 1)
    BY <1>1, <1>3
  <2>2. (a + 1) % Cycle = a + 1
    BY <1>1, <2>1, OneQuotient
  <2> QED BY <2>2
<1>4. CASE a + 1 = Cycle
  <2>1. 0 \in 0..(Cycle - 1) /\ a + 1 = Cycle * 1 + 0
    BY <1>1, <1>4
  <2>2. (a + 1) % Cycle = 0
    BY <1>1, <2>1, OneQuotient
  <2>3. (Cycle + b) % MaxWitnesses = b % MaxWitnesses
    BY <1>1, <1>2, ModShift
  <2> QED BY <1>4, <2>2, <2>3
<1> QED BY <1>1, <1>3, <1>4

\* The position in the schedule whose turn was i slots before the head block.
Position(i) == ((aslot + (MaxWitnesses - i)) % MaxWitnesses) + 1

\* Positions of different slots of a round differ.
LEMMA PositionFacts ==
  ASSUME aslot \in Nat
  PROVE  /\ \A i \in 0..(MaxWitnesses - 1) : Position(i) \in 1..MaxWitnesses
         /\ \A i, k \in 0..(MaxWitnesses - 1) : Position(i) = Position(k) => i = k
<1> DEFINE at(i) == aslot + (MaxWitnesses - i)
<1>1. MaxWitnesses \in Nat \ {0}
  BY ScheduleAssumption
<1>2. \A i \in 0..(MaxWitnesses - 1) : at(i) \in Nat
  BY <1>1
<1>3. \A i \in 0..(MaxWitnesses - 1) : at(i) % MaxWitnesses \in 0..(MaxWitnesses - 1)
  <2> HIDE DEF at
  <2> QED BY <1>1, <1>2, Quotient
<1>4. ASSUME NEW i \in 0..(MaxWitnesses - 1), NEW k \in 0..(MaxWitnesses - 1),
             at(i) % MaxWitnesses = at(k) % MaxWitnesses
      PROVE  ~(i < k)
  <2> SUFFICES ASSUME i < k PROVE FALSE
    OBVIOUS
  <2>1. at(k) < at(i) /\ at(i) - at(k) < MaxWitnesses
    BY <1>1
  <2> HIDE DEF at
  <2>2. at(i) - at(k) >= MaxWitnesses
    BY <1>1, <1>2, <1>4, <2>1, SameRemainder
  <2> QED BY <1>1, <1>2, <2>1, <2>2
<1>5. \A i \in 0..(MaxWitnesses - 1) : Position(i) = (at(i) % MaxWitnesses) + 1
  BY DEF Position
<1> HIDE DEF at
<1>6. \A i \in 0..(MaxWitnesses - 1) : Position(i) \in 1..MaxWitnesses
  BY <1>1, <1>3, <1>5
<1>7. ASSUME NEW i \in 0..(MaxWitnesses - 1), NEW k \in 0..(MaxWitnesses - 1),
             Position(i) = Position(k)
      PROVE  i = k
  <2>1. at(i) % MaxWitnesses = at(k) % MaxWitnesses
    BY <1>3, <1>5, <1>7
  <2>2. ~(i < k) /\ ~(k < i)
    BY <1>4, <2>1
  <2> QED BY <1>1, <2>2
<1> QED BY <1>6, <1>7

\* The positions of a round after the next slot: each one slot further back.
LEMMA NextPositions ==
  ASSUME aslot \in 0..(Cycle - 1), aslot' = (aslot + 1) % Cycle
  PROVE  /\ Position(0)' = ((aslot + 1) % MaxWitnesses) + 1
         /\ \A i \in 1..(MaxWitnesses - 1) : Position(i)' = Position(i - 1)
<1>1. MaxWitnesses \in Nat \ {0} /\ aslot \in Nat /\ aslot + 1 \in Nat
  BY ScheduleAssumption
<1>2. Position(0)' = ((aslot + 1) % MaxWitnesses) + 1
  <2>1. Position(0)' = ((aslot' + MaxWitnesses) % MaxWitnesses) + 1
    <3>1. MaxWitnesses - 0 = MaxWitnesses
      BY <1>1
    <3> QED BY <3>1 DEF Position
  <2>2. (aslot' + MaxWitnesses) % MaxWitnesses = (aslot + 1 + MaxWitnesses) % MaxWitnesses
    BY <1>1, TurnsOfSlots
  <2>3. MaxWitnesses % MaxWitnesses = 0
    <3>1. 0 \in 0..(MaxWitnesses - 1) /\ MaxWitnesses = MaxWitnesses * 1 + 0
      BY <1>1
    <3> QED BY <1>1, <3>1, OneQuotient
  <2>4. (MaxWitnesses + (aslot + 1)) % MaxWitnesses = (aslot + 1) % MaxWitnesses
    BY <1>1, <2>3, ModShift
  <2>5. aslot + 1 + MaxWitnesses = MaxWitnesses + (aslot + 1)
    BY <1>1
  <2> QED BY <2>1, <2>2, <2>4, <2>5
<1>3. ASSUME NEW i \in 1..(MaxWitnesses - 1) PROVE Position(i)' = Position(i - 1)
  <2>1. MaxWitnesses - i \in Nat
    BY <1>1
  <2>2. (aslot' + (MaxWitnesses - i)) % MaxWitnesses = (aslot + 1 + (MaxWitnesses - i)) % MaxWitnesses
    BY <1>1, <2>1, TurnsOfSlots
  <2>3. aslot + 1 + (MaxWitnesses - i) = aslot + (MaxWitnesses - (i - 1))
    BY <1>1
  <2> QED BY <2>2, <2>3 DEF Position
<1> QED BY <1>2, <1>3

\* The latest j slots are filled.
Consecutive(j) == j <= Window /\ \A i \in (Window - j + 1)..Window : filled[i] = 1

\* The witnesses whose turns the j slots up to the head block were.
Signed(j) == {shuffled[Position(i)] : i \in 0..(j - 1)}

\* The inductive invariant of the turns: the schedule is full of different
\* witnesses, and while no slot of the latest j of this round was missed, their
\* blocks are those of the witnesses whose turns they were.
TurnInv ==
    /\ shuffled \in [1..MaxWitnesses -> Witness]
    /\ \A i, j \in 1..MaxWitnesses : shuffled[i] = shuffled[j] => i = j
    /\ \A j \in 0..round :
          Consecutive(j) => \A x \in Witness : wit[x].age < j <=> x \in Signed(j)

\* A filled window is the work of the slot after the head block.
LEMMA ConsecutiveFacts ==
  ASSUME SlotInv, NEW n \in Nat \ {0}, FillSlots(n), NEW j \in Nat \ {0}, Consecutive(j)'
  PROVE  n = 1 /\ Consecutive(j - 1)
<1>1. Window \in Nat /\ j <= Window /\ \A i \in (Window - j + 1)..Window : filled'[i] = 1
  BY ClockAssumption DEF Consecutive
<1>2. \A i \in 1..Window : filled'[i] = IF n + i <= Window THEN filled[n + i]
                                       ELSE IF n + i = Window + 1 THEN 1 ELSE 0
  BY FillSlotsFacts DEF SlotInv
<1>3. n = 1
  <2>1. Window \in (Window - j + 1)..Window /\ Window \in 1..Window
    BY <1>1
  <2>2. filled'[Window] = 1
    BY <1>1, <2>1
  <2>3. ~(n + Window <= Window)
    BY <1>1
  <2>4. n + Window = Window + 1
    BY <1>2, <2>1, <2>2, <2>3
  <2> QED BY <1>1, <2>4
<1>4. ASSUME NEW i \in (Window - (j - 1) + 1)..Window PROVE filled[i] = 1
  <2>1. i - 1 \in (Window - j + 1)..Window /\ i - 1 \in 1..Window /\ n + (i - 1) = i /\ i <= Window
    BY <1>1, <1>3
  <2>2. filled'[i - 1] = 1
    BY <1>1, <2>1
  <2>3. filled'[i - 1] = filled[i]
    BY <1>2, <2>1
  <2> QED BY <2>2, <2>3
<1>5. j - 1 <= Window
  BY <1>1
<1> QED BY <1>3, <1>4, <1>5 DEF Consecutive

\* A block keeps it: a new round begins with no turns, and within a round the
\* block is the one of the witness whose turn it is.
LEMMA BlockTurns ==
  ASSUME Witnesses >= MaxWitnesses, VoteInv, RunInv, SlotInv, PlaceInv, TurnInv,
         NEW w, NEW t, NEW ws, Blocks(w, t, ws)
  PROVE  TurnInv'
<1> DEFINE n == SlotAt(t)
           older(x) == IF x = w THEN 0
                       ELSE IF wit[x].age + 1 <= AgeLimit THEN wit[x].age + 1 ELSE AgeLimit
<1>1. PICK signed \in Objects : /\ UpdateSchedule(signed)
                                /\ \A x \in Witness : signed[x].age = older(x)
  BY SignedFacts
<1>2. /\ w \in Witness /\ t \in Int /\ n > 0 /\ w = Turn(n)
      /\ aslot' = (aslot + n) % Cycle /\ round' = (round + 1) % MaxWitnesses /\ FillSlots(n)
  BY DEF Blocks, ApplyBlock, Times
<1>3. n \in Nat \ {0}
  BY <1>2, SlotAtFacts DEF SlotInv
<1> HIDE DEF n
<1>4. /\ MaxWitnesses \in Nat \ {0} /\ round \in 0..(MaxWitnesses - 1) /\ aslot \in 0..(Cycle - 1)
      /\ wit \in Objects /\ wit' \in Objects
  BY ScheduleAssumption, BlockPlaces DEF PlaceInv
<1>5. \A x \in Witness : wit[x].age \in Nat /\ wit'[x].age \in Nat
  BY <1>4, ObjectFacts, AgeLimitFacts DEF Objects
<1>6. CASE round' = 0
  <2>1. NewSchedule(signed)
    BY <1>1, <1>6 DEF UpdateSchedule
  <2>2. /\ shuffled' \in [1..MaxWitnesses -> Witness]
        /\ \A i, j \in 1..MaxWitnesses : shuffled'[i] = shuffled'[j] => i = j
    BY <2>1, NewScheduleFacts
  <2>3. ASSUME NEW j \in 0..round', NEW x \in Witness PROVE ~(wit'[x].age < j) /\ x \notin Signed(j)'
    <3>1. j = 0
      BY <1>6
    <3>2. 0..(j - 1) = {}
      BY <3>1
    <3> QED BY <1>5, <3>1, <3>2 DEF Signed
  <2> QED BY <2>2, <2>3 DEF TurnInv
<1>7. CASE round' # 0
  <2>1. wit' = signed /\ shuffled' = shuffled
    BY <1>1, <1>7 DEF UpdateSchedule
  <2>2. round' = round + 1 /\ round + 1 <= MaxWitnesses - 1
    <3>1. CASE round + 1 = MaxWitnesses
      <4>1. 0 \in 0..(MaxWitnesses - 1) /\ MaxWitnesses = MaxWitnesses * 1 + 0
        BY <1>4
      <4>2. MaxWitnesses % MaxWitnesses = 0
        BY <1>4, <4>1, OneQuotient
      <4> QED BY <1>2, <1>7, <3>1, <4>2
    <3>2. CASE round + 1 # MaxWitnesses
      <4> DEFINE a == round + 1
      <4>1. a \in 0..(MaxWitnesses - 1) /\ a \in Nat /\ a = MaxWitnesses * 0 + a
        BY <1>4, <3>2
      <4> HIDE DEF a
      <4>2. a % MaxWitnesses = a
        BY <1>4, <4>1, OneQuotient
      <4>3. round' = a
        BY <1>2, <4>2 DEF a
      <4> QED BY <1>4, <4>1, <4>3 DEF a
    <3> QED BY <3>1, <3>2
  <2>3. ASSUME NEW j \in 0..round', Consecutive(j)', NEW x \in Witness
        PROVE  wit'[x].age < j <=> x \in Signed(j)'
    <3>1. CASE j = 0
      <4>1. 0..(j - 1) = {}
        BY <3>1
      <4> QED BY <1>5, <3>1, <4>1 DEF Signed
    <3>2. CASE j # 0
      <4>1. j \in Nat \ {0} /\ j - 1 \in 0..round /\ j <= MaxWitnesses - 1
        BY <1>4, <2>2, <3>2
      <4>2. n = 1 /\ Consecutive(j - 1)
        BY <1>2, <1>3, <2>3, <4>1, ConsecutiveFacts
      <4>3. wit[x].age < j - 1 <=> x \in Signed(j - 1)
        BY <4>1, <4>2 DEF TurnInv
      <4>4. /\ Position(0)' = ((aslot + 1) % MaxWitnesses) + 1
            /\ \A i \in 1..(MaxWitnesses - 1) : Position(i)' = Position(i - 1)
        BY <1>2, <1>4, <4>2, NextPositions
      <4>5. w = shuffled[Position(0)']
        <5>1. Len(shuffled) = MaxWitnesses
          BY <1>4 DEF TurnInv
        <5>2. Num(shuffled) = MaxWitnesses
          <6>1. Max({MaxWitnesses, 1}) \in {MaxWitnesses, 1} /\ \A y \in {MaxWitnesses, 1} : y <= Max({MaxWitnesses, 1})
            <7>1. {MaxWitnesses, 1} \subseteq Nat /\ \A y \in {MaxWitnesses, 1} : y <= MaxWitnesses
              BY <1>4
            <7> QED BY <1>4, <7>1, GreatestOf
          <6> QED BY <1>4, <5>1, <6>1 DEF Num
        <5> QED BY <1>2, <4>2, <4>4, <5>2 DEF Turn
      <4>6. x \in Signed(j)' <=> x = w \/ x \in Signed(j - 1)
        <5>1. x \in Signed(j)' <=> \E i \in 0..(j - 1) : x = shuffled[Position(i)']
          BY <2>1 DEF Signed
        <5>2. x \in Signed(j - 1) <=> \E i \in 0..(j - 2) : x = shuffled[Position(i)]
          <6>1. j - 1 - 1 = j - 2
            BY <4>1
          <6> QED BY <6>1 DEF Signed
        <5>3. ASSUME NEW i \in 0..(j - 1), x = shuffled[Position(i)']
              PROVE  x = w \/ x \in Signed(j - 1)
          <6>1. CASE i = 0
            BY <4>5, <5>3, <6>1
          <6>2. CASE i # 0
            <7>1. i \in 1..(MaxWitnesses - 1) /\ i - 1 \in 0..(j - 2)
              BY <1>4, <4>1, <6>2
            <7> QED BY <4>4, <5>2, <5>3, <7>1
          <6> QED BY <6>1, <6>2
        <5>4. ASSUME NEW i \in 0..(j - 2), x = shuffled[Position(i)]
              PROVE  x \in Signed(j)'
          <6>1. i + 1 \in 1..(MaxWitnesses - 1) /\ i + 1 \in 0..(j - 1) /\ i + 1 - 1 = i
            BY <1>4, <4>1
          <6>2. Position(i + 1)' = Position(i)
            BY <4>4, <6>1
          <6> QED BY <5>1, <5>4, <6>1, <6>2
        <5>5. 0 \in 0..(j - 1)
          BY <4>1
        <5> QED BY <4>5, <5>1, <5>2, <5>3, <5>4, <5>5
      <4>7. wit'[x].age < j <=> x = w \/ wit[x].age < j - 1
        <5>1. wit'[x].age = older(x)
          BY <1>1, <2>1
        <5>2. AgeLimit \in Nat /\ AgeLimit > MaxWitnesses /\ wit[x].age \in Nat
          BY <1>5, AgeLimitFacts
        <5> QED BY <1>4, <4>1, <5>1, <5>2
      <4> QED BY <4>3, <4>6, <4>7
    <3> QED BY <3>1, <3>2
  <2> QED BY <2>1, <2>3 DEF TurnInv
<1> QED BY <1>6, <1>7

LEMMA InitTurns == Witnesses >= MaxWitnesses /\ Init => TurnInv
<1> SUFFICES ASSUME Witnesses >= MaxWitnesses, Init PROVE TurnInv
  OBVIOUS
<1> DEFINE active == Active(wit, Processed(wit))
<1>1. shuffled \in SetToSeqs(active) /\ round = 0
  BY DEF Init
<1>2. wit \in Objects /\ Keyed(wit) = Witness /\ \A w \in Witness : wit[w].age = 0
  BY InitObjects
<1>3. active \in SUBSET Witness /\ Cardinality(active) \in Nat /\ Cardinality(active) = MaxWitnesses
  BY <1>2, ObjectsAreOrdered, ActiveSize
<1> HIDE DEF active
<1>4. /\ shuffled \in [1..MaxWitnesses -> Witness]
      /\ \A i, j \in 1..MaxWitnesses : shuffled[i] = shuffled[j] => i = j
  BY <1>1, <1>3, ShuffleFacts
<1>5. ASSUME NEW j \in 0..round, NEW x \in Witness PROVE ~(wit[x].age < j) /\ x \notin Signed(j)
  <2>1. j = 0
    BY <1>1
  <2>2. 0..(j - 1) = {}
    BY <2>1
  <2> QED BY <1>2, <2>1, <2>2 DEF Signed
<1> QED BY <1>4, <1>5 DEF TurnInv

LEMMA NextTurns ==
  Witnesses >= MaxWitnesses /\ VoteInv /\ RunInv /\ SlotInv /\ PlaceInv /\ TurnInv /\ [Next]_vars
    => TurnInv'
<1> SUFFICES ASSUME Witnesses >= MaxWitnesses, VoteInv, RunInv, SlotInv, PlaceInv, TurnInv,
                    [Next]_vars
             PROVE  TurnInv'
  OBVIOUS
<1>1. ASSUME NEW w \in Witness, PlainBlock(w) \/ VoteBlock(w) \/ KeyBlock(w) PROVE TurnInv'
  BY <1>1, BlocksAre, BlockTurns
<1>2. CASE UNCHANGED <<schedule, slots>>
  BY <1>2 DEF schedule, slots, TurnInv, Consecutive, Signed, Position
<1>3. ASSUME NEW w \in Witness, Upgrade(w) PROVE TurnInv'
  BY <1>2, <1>3 DEF Upgrade
<1>4. CASE TimeComes
  BY <1>2, <1>4 DEF TimeComes
<1>5. CASE UNCHANGED vars
  BY <1>2, <1>5 DEF vars
<1> QED BY <1>1, <1>3, <1>4, <1>5 DEF Next

\* As many witnesses of the schedule as the round has blocks signed them.
LEMMA TurnsShared ==
  ASSUME PlaceInv, TurnInv
  PROVE  TurnsAreShared
<1> SUFFICES ASSUME Consecutive(round)
             PROVE  Cardinality({w \in ToSet(shuffled) : wit[w].age < round}) = round
  BY DEF TurnsAreShared, Consecutive
<1>1. /\ MaxWitnesses \in Nat \ {0} /\ round \in 0..(MaxWitnesses - 1) /\ aslot \in Nat
      /\ round \in 0..round
  BY ScheduleAssumption DEF PlaceInv
<1>2. \A x \in Witness : wit[x].age < round <=> x \in Signed(round)
  BY <1>1 DEF TurnInv
<1>3. ToSet(shuffled) = {shuffled[i] : i \in 1..MaxWitnesses} /\ ToSet(shuffled) \subseteq Witness
  BY DEF TurnInv, ToSet
<1>4. /\ \A i \in 0..(MaxWitnesses - 1) : Position(i) \in 1..MaxWitnesses
      /\ \A i, k \in 0..(MaxWitnesses - 1) : Position(i) = Position(k) => i = k
  BY <1>1, PositionFacts
<1>5. \A i \in 0..(round - 1) : i \in 0..(MaxWitnesses - 1)
  BY <1>1
<1>6. Signed(round) \subseteq ToSet(shuffled)
  BY <1>3, <1>4, <1>5 DEF Signed
<1>7. {w \in ToSet(shuffled) : wit[w].age < round} = Signed(round)
  BY <1>2, <1>3, <1>6
<1>8. Cardinality(Signed(round)) = round
  <2> DEFINE f == [i \in 0..(round - 1) |-> shuffled[Position(i)]]
  <2>1. f \in [0..(round - 1) -> Signed(round)]
    BY DEF Signed
  <2>2. ASSUME NEW i \in 0..(round - 1), NEW k \in 0..(round - 1), f[i] = f[k] PROVE i = k
    <3>1. Position(i) = Position(k)
      BY <1>4, <1>5, <2>2 DEF TurnInv
    <3> QED BY <1>4, <1>5, <3>1
  <2>3. \A y \in Signed(round) : \E i \in 0..(round - 1) : f[i] = y
    BY DEF Signed
  <2>4. f \in Bijection(0..(round - 1), Signed(round))
    <3> HIDE DEF f
    <3> QED BY <2>1, <2>2, <2>3 DEF Bijection, Injection, Surjection, IsInjective
  <2>5. IsFiniteSet(0..(round - 1)) /\ Cardinality(0..(round - 1)) = round
    BY <1>1, FS_Interval
  <2> QED BY <2>4, <2>5, FS_Bijection DEF ExistsBijection
<1> QED BY <1>7, <1>8

-----------------------------------------------------------------------------
(* All together                                                            *)

\* The type invariant, from the parts that keep it.
LEMMA TypesAre ==
  ASSUME VoteInv, RunInv, SlotInv, PlaceInv
  PROVE  TypeOK
<1>1. ASSUME NEW w \in Witness
      PROVE  /\ wit[w].pos \in 0..Lap /\ wit[w].upd \in 0..Lap /\ wit[w].vst \in 0..Lap
  <2>1. vt \in 0..Lap /\ Runs(wit[w], vt)
    BY DEF RunInv
  <2>2. wit[w].pos \in 0..Lap /\ wit[w].upd \in 0..vt /\ wit[w].vst \in vt..Lap
    BY <2>1 DEF Runs
  <2> QED BY <2>1, <2>2, LapAssumption
<1>2. wit \in [Witness -> [votes : 0..MaxVotes, key : BOOLEAN, pos : 0..Lap, upd : 0..Lap,
                           vst : 0..Lap, age : 0..AgeLimit, running : Hardfork,
                           hfVote : Hardfork]]
  BY <1>1 DEF PlaceInv, Objects, Object
<1>3. participation \in 0..Window
  <2> DEFINE ones == {i \in 1..Window : filled[i] = 1}
  <2>1. participation = Cardinality(ones)
    <3>1. {i \in DOMAIN filled : filled[i] = 1} = ones
      BY DEF SlotInv
    <3> QED BY <3>1 DEF SlotInv, Sum
  <2>2. IsFiniteSet(1..Window) /\ Cardinality(1..Window) = Window /\ Window \in Nat
    BY ClockAssumption, FS_Interval
  <2>3. ones \in SUBSET (1..Window)
    OBVIOUS
  <2> HIDE DEF ones
  <2>4. Cardinality(ones) \in Nat /\ Cardinality(ones) <= Cardinality(1..Window)
    BY <2>2, <2>3, FS_Subset, FS_CardinalityType
  <2> QED BY <2>1, <2>2, <2>4
<1> QED BY <1>2, <1>3 DEF TypeOK, RunInv, SlotInv, PlaceInv, VoteInv

LEMMA PlaceInvHolds == Spec => [](VoteInv /\ RunInv /\ SlotInv /\ PlaceInv)
<1>1. Spec => []VoteInv
  BY VoteInvHolds
<1>2. Spec => []RunInv
  BY InitRuns, NextRuns, PTL DEF Spec
<1>3. Spec => []SlotInv
  BY InitSlots, NextSlots, PTL DEF Spec
<1> QED BY <1>1, <1>2, <1>3, InitPlaces, NextPlaces, PTL DEF Spec

\* No number of the schedule, of the slots or of the votes for a hardfork leaves
\* its type, whatever blocks come and whoever misses them.
THEOREM TypeCorrect == Spec => []TypeOK
<1>1. VoteInv /\ RunInv /\ SlotInv /\ PlaceInv => TypeOK
  BY TypesAre
<1> QED BY <1>1, PlaceInvHolds, PTL

\* If there are as many witnesses as a schedule has places, the turns of a round
\* are shared: while no slot is missed, as many different witnesses have signed
\* as the round has blocks, although rounds count blocks and turns count slots.
THEOREM ScheduleSoundHolds ==
  ASSUME Witnesses >= MaxWitnesses
  PROVE  Spec => []ScheduleSound
<1>1. Init => TurnInv
  BY InitTurns
<1>2. (VoteInv /\ RunInv /\ SlotInv /\ PlaceInv) /\ TurnInv /\ [Next]_vars => TurnInv'
  BY NextTurns
<1>3. Spec => []TurnInv
  BY <1>1, <1>2, PlaceInvHolds, PTL DEF Spec
<1>4. PlaceInv /\ TurnInv => TurnsAreShared
  BY TurnsShared
<1>5. Spec => []TurnsAreShared
  BY <1>3, <1>4, PlaceInvHolds, PTL
<1>6. Spec => [](TypeOK /\ SlotsFollowTime /\ ParticipationCounts /\ NeverInThePast /\ WithinLap)
  BY TypeCorrect, SlotsCounted, QueueInOrder, PTL
<1>7. TurnsAreShared /\ (TypeOK /\ SlotsFollowTime /\ ParticipationCounts /\ NeverInThePast
                          /\ WithinLap) => ScheduleSound
  BY DEF ScheduleSound
<1> QED BY <1>5, <1>6, <1>7, PTL
=============================================================================
