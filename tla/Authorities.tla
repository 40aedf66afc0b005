---------------------------- MODULE Authorities ----------------------------
(***************************************************************************)
(* The check of authorities: sign_state of sign_state.cpp and              *)
(* verify_authority of transaction.cpp.                                    *)
(*                                                                         *)
(* Accounts are numbers, in the order of their names.  An authority is a   *)
(* record of a threshold and two sequences of pairs: keys and accounts     *)
(* with their weights, in their order.  A sign state is a record of        *)
(*   approved   the accounts of approved_by,                               *)
(*   marked     those among them whose flag is set,                        *)
(*   used       the provided signatures whose flag is set.                 *)
(* The account "temp", which approves everything, is left out.             *)
(***************************************************************************)
EXTENDS Integers, FiniteSets, Sequences, SequencesExt

CONSTANTS
    Account,        \* the accounts
    Key,            \* the keys
    Authority,      \* the authorities that occur
    MaxDepth        \* STEEMIT_MAX_SIG_CHECK_DEPTH

ASSUME AuthorityAssumption ==
    /\ Account \subseteq Nat /\ IsFiniteSet(Account)
    /\ MaxDepth \in Nat
    /\ \A x \in Authority : x.threshold \in Nat \ {0}

SignState == [approved : SUBSET Account, marked : SUBSET Account, used : SUBSET Key]
InNameOrder(S) == SetToSortSeq(S, <)

\* The keys of an authority that signed, counted until they suffice.
CountKeys(x, sigs, st) ==
    LET count(acc, e) ==
          IF acc.total >= x.threshold \/ e[1] \notin sigs THEN acc
          ELSE [total |-> acc.total + e[2], st |-> [acc.st EXCEPT !.used = @ \cup {e[1]}]]
    IN  FoldLeft(count, [total |-> 0, st |-> st], x.keys)

\* A mutated form of CheckAuthority: an account is taken for approved before
\* its own authority has been checked.
CheckAuthorityEarly(get, sigs, x0, st0) ==
    LET check[left \in 0..MaxDepth] == [x \in Authority, st \in SignState |->
          LET count(acc, e) ==
                IF acc.total >= x.threshold THEN acc
                ELSE IF e[1] \in acc.st.approved THEN [acc EXCEPT !.total = @ + e[2]]
                ELSE IF left = 0 THEN acc
                ELSE LET sub == check[left - 1][get[e[1]],
                                  [acc.st EXCEPT !.approved = @ \cup {e[1]}, !.marked = @ \cup {e[1]}]]
                     IN  [total |-> acc.total + (IF sub.ok THEN e[2] ELSE 0), st |-> sub.st]
              all == FoldLeft(count, CountKeys(x, sigs, st), x.accounts)
          IN  [ok |-> all.total >= x.threshold, st |-> all.st]]
    IN  check[MaxDepth][x0, st0]

\* sign_state::check_authority of an authority.  left counts the levels down
\* to max_recursion.  What a level below has approved stays approved, whether
\* that level succeeds or not.
CheckAuthority(get, sigs, x0, st0) ==
    LET check[left \in 0..MaxDepth] == [x \in Authority, st \in SignState |->
          LET count(acc, e) ==
                IF acc.total >= x.threshold THEN acc
                ELSE IF e[1] \in acc.st.approved THEN [acc EXCEPT !.total = @ + e[2]]
                ELSE IF left = 0 THEN acc
                ELSE LET sub == check[left - 1][get[e[1]], acc.st]
                     IN  IF ~sub.ok THEN [acc EXCEPT !.st = sub.st]
                         ELSE [total |-> acc.total + e[2],
                               st |-> [sub.st EXCEPT !.approved = @ \cup {e[1]},
                                                     !.marked = @ \cup {e[1]}]]
              all == FoldLeft(count, CountKeys(x, sigs, st), x.accounts)
          IN  [ok |-> all.total >= x.threshold, st |-> all.st]]
    IN  check[MaxDepth][x0, st0]

\* check_authority with one authority after the other, until one is satisfied.
CheckOneOf(get, sigs, seq, st) ==
    FoldLeft(LAMBDA r, x : IF r.ok THEN r ELSE CheckAuthority(get, sigs, x, r.st),
             [ok |-> FALSE, st |-> st], seq)

\* The exception that ends verify_authority, or "ok": the kind of authority
\* that is missing, or what is irrelevant.  The unused approvals matter only
\* when no signature is unused.
Verdict(kind, r) == [kind |-> kind, missing |-> r.missing, used |-> r.st.used, unused |-> {}]
Unused(sigs, approvals, r) ==
    LET idle == approvals \ r.st.marked
    IN  IF sigs # r.st.used THEN [Verdict("irrelevant_sig", r) EXCEPT !.unused = sigs \ r.st.used]
        ELSE IF idle # {} THEN [Verdict("irrelevant_approval", r) EXCEPT !.unused = idle]
        ELSE Verdict("ok", r)

\* What is tried for a required account, or for a required authority itself.
Alternatives(auth, kind, x) ==
    CASE kind = "posting" -> <<auth[x].posting, auth[x].active, auth[x].owner>>
      [] kind = "active" -> <<auth[x].active, auth[x].owner>>
      [] kind = "owner" -> <<auth[x].owner>>
      [] kind = "other" -> <<x>>

\* What is required, in the order of the check: either posting authorities or
\* all the others.
Requirements(need) ==
    LET each(kind, seq) == [i \in DOMAIN seq |-> [kind |-> kind, of |-> seq[i]]]
    IN  each("posting", InNameOrder(need.posting)) \o each("other", need.other)
          \o each("active", InNameOrder(need.active)) \o each("owner", InNameOrder(need.owner))

\* verify_authority: need has the accounts that are required and the other
\* authorities; by has the approvals of accounts, and keys that signed.  Only
\* an approval that a required account gave, or a reference that was followed,
\* is marked.  The first kind of which something is missing ends the check.
VerifyAuthority(auth, need, by) ==
    LET posting == need.posting # {}
        yes == IF posting THEN by.posting ELSE by.active \cup by.owner
        get == [a \in Account |-> IF posting THEN auth[a].posting ELSE auth[a].active]
        given(q, st) == CASE q.kind = "other" -> FALSE
                          [] q.kind = "owner" -> q.of \in by.owner
                          [] OTHER -> q.of \in st.approved
        marks(q, r, asked) ==
            IF asked \/ (q.kind = "owner" /\ r.ok)
            THEN [r EXCEPT !.ok = TRUE, !.st.approved = @ \cup {q.of}, !.st.marked = @ \cup {q.of}]
            ELSE r
        one(q, st) == marks(q, CheckOneOf(get, by.keys, IF given(q, st) THEN << >>
                                                        ELSE Alternatives(auth, q.kind, q.of), st),
                            given(q, st))
        step(acc, q) ==
            IF acc.kind \notin {"ok", q.kind} THEN acc
            ELSE FoldLeft(LAMBDA a, r : [kind |-> IF r.ok THEN a.kind ELSE q.kind, st |-> r.st,
                                         missing |-> a.missing \cup (IF r.ok THEN {} ELSE {q.of})],
                          acc, <<one(q, acc.st)>>)
        all == FoldLeft(step, [kind |-> "ok", missing |-> {},
                               st |-> [approved |-> yes, marked |-> {}, used |-> {}]],
                        Requirements(need))
    IN  IF posting /\ (need.active # {} \/ need.owner # {} \/ need.other # << >>)
        THEN [kind |-> "mixed", missing |-> {}, used |-> {}, unused |-> {}]
        ELSE IF all.kind = "ok" THEN Unused(by.keys, yes, all) ELSE Verdict(all.kind, all)

-----------------------------------------------------------------------------
(* What the check should compute                                           *)

Weight(x, sigs, S) ==
    FoldLeft(LAMBDA n, e : IF e[1] \in sigs THEN n + e[2] ELSE n, 0, x.keys)
      + FoldLeft(LAMBDA n, e : IF e[1] \in S THEN n + e[2] ELSE n, 0, x.accounts)

\* The accounts that signatures and approvals speak for, when authorities may
\* refer to others n times in a row.
Speaking(get, sigs, approved, n) ==
    LET level[k \in 0..n] ==
          IF k = 0 THEN approved
          ELSE level[k - 1] \cup {a \in Account : Weight(get[a], sigs, level[k - 1]) >= get[a].threshold}
    IN  level[n]

Satisfied(get, sigs, approved, x, n) == Weight(x, sigs, Speaking(get, sigs, approved, n)) >= x.threshold

\* No reference is followed more often than there are accounts.
SatisfiedAtAll(get, sigs, approved, x) == Satisfied(get, sigs, approved, x, Cardinality(Account))
=============================================================================
