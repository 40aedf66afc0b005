-------------------------- MODULE MCWitnessSchedule --------------------------
(***************************************************************************)
(* An instance of WitnessSchedule for TLC: one elected witness and two     *)
(* that take turns for the other place.                                    *)
(***************************************************************************)
EXTENDS WitnessSchedule

MCResetBlocks == <<2, 1, 3>>
MCInitVotes == <<2, 1, 0>>

\* Some slots are missed; votes change, or keys change, or a hardfork is voted
\* for.
MCBudgets ==
    {[votes |-> 1, keys |-> 0, misses |-> 1, upgrades |-> 0],
     [votes |-> 0, keys |-> 1, misses |-> 2, upgrades |-> 0],
     [votes |-> 0, keys |-> 0, misses |-> 1, upgrades |-> 3]}
=============================================================================
