--------------------------- MODULE HardforkVoting ---------------------------
(***************************************************************************)
(* How the witnesses vote for a hardfork and how the chain applies it      *)
(* (database.cpp and the header extensions of a block).                    *)
(*                                                                         *)
(* A hardfork is a number, its version and its index alike.  The operators *)
(* work on                                                                 *)
(*   hf   the hardfork_property_object: last is last_hardfork, which is    *)
(*        also current_hardfork_version, and next is next_hardfork;        *)
(*   ws   the witness_objects, of which they use running (running_version) *)
(*        and hfVote (hardfork_version_vote).                              *)
(* The times of the hardforks are part of the configuration of a binary,   *)
(* the same in all of them, so a vote for a version is one for its time.   *)
(***************************************************************************)
EXTENDS Integers, FiniteSets, FiniteSetsExt, Sequences

CONSTANTS
    LastHardfork,   \* the newest hardfork any binary knows
    Required        \* STEEMIT_HARDFORK_REQUIRED_WITNESSES

ASSUME HardforkAssumption ==
    /\ LastHardfork \in Nat
    /\ Required \in Nat \ {0}

Hardfork == 0..LastHardfork

\* The vote a binary leaves in the header of its block: for the hardfork after
\* the last one when it knows a newer one, against one it does not know.
VoteOfBinary(binary, hf, vote) ==
    IF hf.last < binary THEN hf.last + 1
    ELSE IF vote > binary THEN hf.last
    ELSE vote

\* process_header_extensions for a block that witness w generates.
ProcessHeader(ws, w, binary, hf) ==
    [ws EXCEPT ![w].running = binary,
               ![w].hfVote = VoteOfBinary(binary, hf, @)]

\* The versions that enough of the scheduled witnesses vote for.
Majorities(ws, scheduled) ==
    {v \in Hardfork :
        Cardinality({i \in DOMAIN scheduled : ws[scheduled[i]].hfVote = v}) >= Required}

\* A mutated form of CountVotes: the newest version with a vote wins.
CountVotesNewest(hf, ws, scheduled) ==
    [hf EXCEPT !.next = Max({ws[scheduled[i]].hfVote : i \in DOMAIN scheduled})]

\* The votes are counted: the first version with a majority, or "We no longer
\* have a majority".
CountVotes(hf, ws, scheduled) ==
    LET M == Majorities(ws, scheduled)
    IN  [hf EXCEPT !.next = IF M = {} THEN hf.last ELSE Min(M)]

\* A mutated form of ProcessHardforks: the last hardfork itself is expected to
\* be newer than the one voted for.
HardforksStay(hf, due) ==
    [hf EXCEPT !.last = IF @ > hf.next /\ hf.next <= due THEN hf.next ELSE @]

\* process_hardforks: the time of the hardfork that was voted for decides, and
\* then every one up to it is applied.  due is the last one whose time has come.
ProcessHardforks(hf, due) ==
    [hf EXCEPT !.last = IF @ < hf.next /\ hf.next <= due THEN hf.next ELSE @]
=============================================================================
