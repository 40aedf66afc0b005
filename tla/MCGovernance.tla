---------------------------- MODULE MCGovernance ----------------------------
(***************************************************************************)
(* Three accounts with references in a circle, a key that is stolen and    *)
(* three proposals for Governance.                                         *)
(***************************************************************************)
EXTENDS Governance

OneKey(k) == [threshold |-> 1, keys |-> <<<<k, 1>>>>, accounts |-> << >>]
OneAccount(a) == [threshold |-> 1, keys |-> << >>, accounts |-> <<<<a, 1>>>>]
Joint == [threshold |-> 2, keys |-> <<<<"k1", 1>>>>, accounts |-> <<<<2, 1>>, <<3, 1>>>>]
Either == [threshold |-> 1, keys |-> <<<<"k3", 1>>>>, accounts |-> <<<<1, 1>>>>]
MCKeys == {"k1", "k2", "k3", "new", "thief"}
\* Other sets of keys lead to no further states.
MCSignatures == {{k} : k \in MCKeys} \cup {{"k1", "k3"}, {"k1", "k2"}, {"k1", "new"}, {"k2", "k3"}}
MCAuthorities == {OneKey(k) : k \in MCKeys} \cup {OneAccount(a) : a \in 1..3} \cup {Joint, Either}

Three(owner, active, posting) == [owner |-> owner, active |-> active, posting |-> posting]
AtStart ==
    [auth |-> <<Three(OneKey("k1"), Joint, OneAccount(2)),
                Three(OneKey("k2"), OneAccount(3), OneAccount(3)),
                Three(OneKey("k3"), Either, Either)>>,
     ownerAt |-> [a \in 1..3 |-> LongAgo], recoveredAt |-> [a \in 1..3 |-> LongAgo],
     partner |-> <<2, 3, 2>>, history |-> {}, request |-> << >>, change |-> << >>,
     power |-> [a \in 1..3 |-> [on |-> a = 1, routes |-> IF a = 1 THEN {3} ELSE {}]]]

Update(a, role, x) == [op |-> "update", account |-> a, role |-> role, auth |-> x]
AskFor(p, a, x, cancel) == [op |-> "request", partner |-> p, account |-> a, auth |-> x, cancel |-> cancel]
Recover(a, x, y) == [op |-> "recover", account |-> a, auth |-> x, recent |-> y]
MoveTo(a, p) == [op |-> "change", account |-> a, partner |-> p]
Stolen == Update(1, "owner", OneKey("thief"))
MCOps == {Stolen, Update(3, "active", OneAccount(1)), AskFor(2, 1, OneKey("new"), FALSE),
          AskFor(2, 1, OneKey("new"), TRUE), AskFor(3, 1, OneKey("thief"), FALSE),
          Recover(1, OneKey("new"), OneKey("k1")), MoveTo(1, 3), MoveTo(1, 2)}

MCDrafts ==
    {[author |-> 3, title |-> "owner", life |-> 2, review |-> 0,
      ops |-> <<Update(1, "active", OneKey("k1")), Update(1, "owner", OneKey("k3"))>>],
     [author |-> 3, title |-> "active", life |-> 1, review |-> 0,
      ops |-> <<Update(1, "active", OneKey("k2")), Update(2, "active", OneKey("k2"))>>],
     [author |-> 3, title |-> "posting", life |-> 3, review |-> 1,
      ops |-> <<[op |-> "metadata", account |-> 1]>>],
     [author |-> 2, title |-> "long", life |-> 4, review |-> 0,
      ops |-> <<Update(2, "active", OneKey("k2"))>>]}

Only(part, S) == [q \in Parts |-> IF q = part THEN S ELSE {}]
Add(title, part, S) == [title |-> title, add |-> Only(part, S), remove |-> NoApprovals]
Withdraw(title, part, S) == [title |-> title, add |-> NoApprovals, remove |-> Only(part, S)]
MCChanges ==
    {Add("owner", "owner", {1}), Add("owner", "keys", {"k1"}), Add("owner", "active", {1}),
     Add("active", "active", {1}), Add("active", "active", {2}), Add("active", "keys", {"k1"}),
     Add("active", "keys", {"k3"}), Add("active", "owner", {1}),
     Withdraw("active", "keys", {"k1"}),
     Add("posting", "posting", {1}), Add("posting", "posting", {2}), Add("posting", "keys", {"k3"}),
     Withdraw("posting", "posting", {1}), Withdraw("posting", "keys", {"k3"})}
=============================================================================
