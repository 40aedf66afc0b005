------------------------------ MODULE MCChain ------------------------------
(***************************************************************************)
(* Small block trees for ChainDatabase.                                    *)
(***************************************************************************)
EXTENDS ChainDatabase

\* A header: witness, how its block applies, and an id.
H(w, k, i) == [by |-> w, kind |-> k, id |-> i]

PrefixClosure(leaves) == UNION {{At(b, n) : n \in 1..Num(b)} : b \in leaves}

\* Two witnesses that confirm both of two forks, with a block that fails
\* early and one that fails late.
Forks == PrefixClosure({
    <<H("A", "ok", 0), H("A", "ok", 0), H("A", "ok", 0), H("A", "ok", 0)>>,
    <<H("A", "ok", 0), H("A", "ok", 1), H("B", "ok", 1), H("A", "ok", 1), H("B", "ok", 1)>>,
    <<H("A", "ok", 0), H("A", "ok", 0), H("B", "bad", 2)>>,
    <<H("A", "ok", 0), H("A", "ok", 1), H("B", "late", 3)>>})

\* Four witnesses of which D is cut off from the others and produces a fork
\* of its own, n blocks long.  Every block is good.
Majority == <<H("A", "ok", 0), H("B", "ok", 0), H("C", "ok", 0), H("A", "ok", 0), H("B", "ok", 0)>>
Partition(n) == PrefixClosure({
    Majority, <<H("A", "ok", 0)>> \o [i \in 1..n |-> H("D", "ok", 1)]})
LongPartition == Partition(3)
=============================================================================
