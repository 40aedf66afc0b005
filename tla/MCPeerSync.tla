----------------------------- MODULE MCPeerSync -----------------------------
(***************************************************************************)
(* Small networks for PeerSync.                                            *)
(***************************************************************************)
EXTENDS PeerSync

Closure(leaves) == UNION {{At(b, n) : n \in 1..Num(b)} : b \in leaves}

Straight(n) == [i \in 1..n |-> "a"]
Letters == {"a", "b", "c"}

\* A reliable peer whose chain grows by a block, and another that leaves a
\* branch of three blocks, when two of them have been told, for a longer one;
\* the chain rejects both of its branches.
Short == <<"a", "b", "b">>
Long == <<"a", "c", "c", "c">>
Switching == Closure({Straight(2), Short, Long})
BadOnes == {b \in Switching : Num(b) > 1 /\ b[2] # "a"}
StartApart == {[p \in Peer |-> IF p \in Reliable THEN Straight(1) ELSE Short]}
=============================================================================
