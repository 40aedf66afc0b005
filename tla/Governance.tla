----------------------------- MODULE Governance -----------------------------
(***************************************************************************)
(* Who may act for an account: signed transactions and proposed            *)
(* transactions (proposal_evaluator.cpp, proposal_object.cpp,              *)
(* database_proposal_object.cpp) over the authorities of the accounts,     *)
(* which they change (module AccountRecovery) and by which they are judged *)
(* (module Authorities).                                                   *)
(*                                                                         *)
(* A transaction has one operation.  Proposals hold operations of          *)
(* AccountRecovery, or one of account_metadata, which asks for a posting   *)
(* authority and has no effect here; proposals about proposals are left    *)
(* out.  An operation that throws changes nothing.  One block is one unit  *)
(* of time, and operations see the time of the block before.               *)
(***************************************************************************)
EXTENDS AccountRecovery, FiniteSetsExt

CONSTANTS
    Start,          \* db at the start
    Ops,            \* the operations of AccountRecovery that are sent
    Drafts,         \* the proposals that are made: [author, title, ops, life, review]
    Signatures,     \* the sets of keys that sign transactions
    Changes,        \* the proposal_update operations that are sent
    MaxLifetime,    \* STEEMIT_MAX_PROPOSAL_LIFETIME_SEC
    MaxOps,         \* bound: operations
    MaxTime         \* bound: number of the last block

NoApprovals == [active |-> {}, owner |-> {}, posting |-> {}, keys |-> {}]
Parts == DOMAIN NoApprovals
Approvals == [active : SUBSET Account, owner : SUBSET Account, posting : SUBSET Account, keys : SUBSET Key]
OpSet == RecoveryOp \cup [op : {"metadata"}, account : Account]

\* At the start no recovery is under way.
ASSUME StartAssumption ==
    IsDatabase(Start) /\ Start.history = {} /\ DOMAIN Start.request = {} /\ DOMAIN Start.change = {}
ASSUME InputAssumption ==
    /\ Ops \subseteq OpSet /\ MaxLifetime \in Nat
    /\ \A d \in Drafts : d.author \in Account /\ d.ops \in Seq(OpSet) /\ d.life \in Int /\ d.review \in Int
    /\ \A u \in Changes : u.add \in Approvals /\ u.remove \in Approvals

VARIABLES
    db,         \* the accounts: see AccountRecovery
    prop,       \* the proposal_objects, by title
    required,   \* the required_approval_objects: <<account, id>>
    now,        \* head_block_time()
    serial,     \* the id of the next proposal
    ops,        \* operations so far
    ran         \* what the last step executed and on whose authority

vars == <<db, prop, required, now, serial, ops, ran>>

-----------------------------------------------------------------------------
(* The operations of other modules                                         *)

\* operation_get_required_authorities
Nobody == [active |-> {}, owner |-> {}, posting |-> {}, other |-> << >>]
NeedOf(o) ==
    CASE o.op = "update" -> IF o.role = "owner" THEN [Nobody EXCEPT !.owner = {o.account}]
                            ELSE [Nobody EXCEPT !.active = {o.account}]
      [] o.op = "request" -> [Nobody EXCEPT !.active = {o.partner}]
      [] o.op = "recover" -> [Nobody EXCEPT !.other = <<o.auth, o.recent>>]
      [] o.op = "change" -> [Nobody EXCEPT !.owner = {o.account}]
      [] o.op = "metadata" -> [Nobody EXCEPT !.posting = {o.account}]
NeedOfAll(seq) ==
    FoldLeft(LAMBDA n, o : LET m == NeedOf(o)
                           IN  [active |-> n.active \cup m.active, owner |-> n.owner \cup m.owner,
                                posting |-> n.posting \cup m.posting, other |-> n.other \o m.other],
             Nobody, seq)

\* The evaluators: whether one throws, and what it does.
Applies(d, o, t) ==
    CASE o.op = "update" -> CanUpdate(d, o, t)
      [] o.op = "request" -> CanRequest(d, o)
      [] o.op = "recover" -> CanRecover(d, o, t)
      [] OTHER -> TRUE
Applied(d, o, t) ==
    CASE o.op = "update" -> AccountUpdate(d, o, t)
      [] o.op = "request" -> RequestRecovery(d, o, t)
      [] o.op = "recover" -> RecoverAccount(d, o, t)
      [] o.op = "change" -> ChangeRecoveryAccount(d, o, t)
      [] o.op = "metadata" -> d

\* All operations of a transaction in one session, or none.
ApplyAll(d, seq, t) ==
    FoldLeft(LAMBDA r, o : IF r.ok /\ Applies(r.db, o, t) THEN [ok |-> TRUE, db |-> Applied(r.db, o, t)]
                           ELSE [r EXCEPT !.ok = FALSE],
             [ok |-> TRUE, db |-> d], seq)

-----------------------------------------------------------------------------
(* Transactions                                                            *)

Init ==
    /\ db = Start
    /\ prop = << >> /\ required = {} /\ now = 0 /\ serial = 0 /\ ops = 0 /\ ran = << >>

\* A transaction is valid with exactly the signatures that it needs.
Signed(need) ==
    \E keys \in Signatures :
        VerifyAuthority(db.auth, need, [NoApprovals EXCEPT !.keys = keys]).kind = "ok"

Operation == ops < MaxOps /\ ops' = ops + 1 /\ now' = now

Execute(o) ==
    /\ Operation
    /\ Applies(db, o, now)
    /\ \E keys \in Signatures :
        LET by == [NoApprovals EXCEPT !.keys = keys]
        IN  /\ VerifyAuthority(db.auth, NeedOf(o), by).kind = "ok"
            /\ ran' = <<[ops |-> <<o>>, by |-> by, auth |-> db.auth]>>
    /\ db' = Applied(db, o, now)
    /\ UNCHANGED <<prop, required, serial>>

-----------------------------------------------------------------------------
(* Proposals                                                               *)

\* A mutated form of TimesAllowed: a proposal may stay for ever.
TimesForever(d) == d.life > 0 /\ (d.review # 0 => d.review > 0 /\ d.review < d.life)

\* The times of a proposal, from now; a review of 0 is none.
TimesAllowed(d) ==
    /\ d.life > 0 /\ d.life <= MaxLifetime
    /\ d.review # 0 => d.review > 0 /\ d.review < d.life

\* proposal_create: the required approvals are those of the operations, an
\* owner's instead of an active one, and the operations have to apply.
ProposalCreate(d) ==
    LET all == NeedOfAll(d.ops)
        need == [all EXCEPT !.active = @ \ all.owner]
        total == need.active \cup need.owner
    IN  /\ Operation
        /\ d.title \notin DOMAIN prop
        /\ TimesAllowed(d)
        /\ need.other = << >> /\ (need.posting = {}) # (total = {})
        /\ ApplyAll(db, d.ops, now).ok
        /\ Signed([Nobody EXCEPT !.active = {d.author}])
        /\ prop' = Put(prop, d.title,
             [id |-> serial, author |-> d.author, ops |-> d.ops, need |-> need, by |-> NoApprovals,
              expires |-> now + d.life, review |-> IF d.review = 0 THEN 0 ELSE now + d.review])
        /\ required' = required \cup {<<a, serial>> : a \in total \cup need.posting}
        /\ serial' = serial + 1
        /\ ran' = << >> /\ UNCHANGED db

\* A mutated form of Authorized: an approval too many is an error.
AuthorizedStrict(d, p) == VerifyAuthority(d.auth, NeedOfAll(p.ops), p.by).kind = "ok"

\* proposal_object::is_authorized_to_execute
Authorized(d, p) ==
    VerifyAuthority(d.auth, NeedOfAll(p.ops), p.by).kind
        \in {"ok", "irrelevant_sig", "irrelevant_approval"}

\* assert_irrelevant_proposal_authority: the missing accounts are supposed to
\* approve, until what is left over shows; it must not come from add.
Relevant(p, add) ==
    LET verify(x) == VerifyAuthority(db.auth, NeedOfAll(p.ops), [part \in Parts |-> p.by[part] \cup x[part]])
        Supposed == [active : SUBSET Account, owner : SUBSET Account, posting : SUBSET Account,
                     keys : {{}}, used : SUBSET Key]
        loop[n \in 0..3] == [x \in Supposed |->
          \A v \in {verify(x)} :
              CASE n = 0 \/ v.kind = "ok" -> TRUE
                [] n > 0 /\ v.kind = "irrelevant_sig" -> (v.unused \cap add.keys) \ x.used = {}
                [] n > 0 /\ v.kind = "irrelevant_approval"
                     -> v.unused \cap (add.active \cup add.owner \cup add.posting) = {}
                [] n > 0 /\ v.kind \in {"active", "owner", "posting"}
                     -> x[v.kind] = {} /\ loop[n - 1][[x EXCEPT ![v.kind] = v.missing, !.used = @ \cup v.used]]
                [] OTHER -> FALSE]
    IN  loop[3][[active |-> {}, owner |-> {}, posting |-> {}, keys |-> {}, used |-> {}]]

\* A mutated form of RequiredOf: the posting approvals stay.
RequiredPart(p) == {<<a, p.id>> : a \in p.need.active \cup p.need.owner}

\* The required_approval_objects that database::remove removes with p.
RequiredOf(p) == {<<a, p.id>> : a \in p.need.active \cup p.need.owner \cup p.need.posting}

Removed(title) == prop' = Without(prop, title) /\ required' = required \ RequiredOf(prop[title])

\* What of the approvals a proposal_update asks its signers for.
NeedOfChange(u) ==
    LET keys == SetToSeq(u.add.keys \cup u.remove.keys)
    IN  [active |-> u.add.active \cup u.remove.active, owner |-> u.add.owner \cup u.remove.owner,
         posting |-> u.add.posting \cup u.remove.posting,
         other |-> IF keys = << >> THEN << >>
                   ELSE <<[threshold |-> Len(keys), keys |-> [i \in DOMAIN keys |-> <<keys[i], 1>>],
                           accounts |-> << >>]>>]

\* No approvals are added from the review on.
InReview(p) == p.review # 0 /\ now >= p.review

\* proposal_update.  A proposal with a review period is executed when it
\* expires; any other as soon as it can be, and if that fails it stays.
ProposalUpdate(u) ==
    LET old == prop[u.title]
        p == [old EXCEPT !.by = [part \in Parts |-> (@[part] \cup u.add[part]) \ u.remove[part]]]
        r == ApplyAll(db, p.ops, now)
        keep == prop' = [prop EXCEPT ![u.title] = p] /\ UNCHANGED required
    IN  /\ Operation
        /\ u.title \in DOMAIN prop
        /\ InReview(old) => u.add = NoApprovals
        /\ \A part \in Parts : u.remove[part] \subseteq old.by[part] /\ u.add[part] \cap old.by[part] = {}
        /\ Signed(NeedOfChange(u))
        /\ p.review = 0 => Relevant(p, u.add)
        /\ \/ /\ p.review # 0
              /\ IF InReview(p) /\ p.by = NoApprovals THEN Removed(u.title) ELSE keep
              /\ ran' = << >> /\ UNCHANGED db
           \/ /\ p.review = 0 /\ Authorized(db, p) /\ r.ok
              /\ db' = r.db /\ Removed(u.title)
              /\ ran' = <<[ops |-> p.ops, by |-> p.by, auth |-> db.auth]>>
           \/ /\ p.review = 0 /\ ~(Authorized(db, p) /\ r.ok)
              /\ keep /\ ran' = << >> /\ UNCHANGED db
        /\ UNCHANGED serial

ProposalDelete(title, requester) ==
    LET p == prop[title]
    IN  /\ Operation
        /\ title \in DOMAIN prop
        /\ requester \in {p.author} \cup p.need.active \cup p.need.owner \cup p.need.posting
        /\ Signed([Nobody EXCEPT !.active = {requester}])
        /\ Removed(title)
        /\ ran' = << >> /\ UNCHANGED <<db, serial>>

-----------------------------------------------------------------------------
(* The steps of a block                                                    *)

\* clear_expired_proposals, in the order of the index: a last attempt, then
\* the proposal is gone.
Due(t) == {title \in DOMAIN prop : prop[title].expires <= t}
InOrder(t) == {s \in SetToSeqs({prop[title] : title \in Due(t)}) :
                 \A i, j \in DOMAIN s : i < j => \/ s[i].expires < s[j].expires
                                                 \/ s[i].expires = s[j].expires /\ s[i].id < s[j].id}
ClearExpired(order, t) ==
    LET try(acc, p) ==
            LET r == ApplyAll(acc.db, p.ops, t)
            IN  IF Authorized(acc.db, p) /\ r.ok
                THEN [db |-> r.db, ran |-> Append(acc.ran,
                        [ops |-> p.ops, by |-> p.by, auth |-> acc.db.auth])]
                ELSE acc
    IN  FoldLeft(try, [db |-> db, ran |-> << >>], order)

Block ==
    \E order \in InOrder(now + 1) :
        LET cleared == ClearExpired(order, now + 1)
        IN  /\ now < MaxTime /\ now' = now + 1
            /\ db' = RecoveryProcessing(cleared.db, now + 1)
            /\ ran' = cleared.ran
            /\ prop' = Restrict(prop, DOMAIN prop \ Due(now + 1))
            /\ required' = required \ UNION {RequiredOf(prop[title]) : title \in Due(now + 1)}
            /\ UNCHANGED <<serial, ops>>

Next ==
    \/ \E o \in Ops : Execute(o)
    \/ \E d \in Drafts : ProposalCreate(d)
    \/ \E u \in Changes : ProposalUpdate(u)
    \/ \E title \in DOMAIN prop, a \in Account : ProposalDelete(title, a)
    \/ Block

Spec == Init /\ [][Next]_vars

-----------------------------------------------------------------------------
(* Properties                                                              *)

\* The type invariant.
TypeOK ==
    /\ \A a \in Account : /\ db.partner[a] \in Account
                          /\ \A role \in DOMAIN db.auth[a] : db.auth[a][role] \in Authority
    /\ \A title \in DOMAIN prop :
          LET p == prop[title]
          IN  /\ p.expires \in 1..(now + MaxLifetime) /\ p.review < p.expires
              /\ p.id < serial
              /\ p.by.active \cup p.by.owner \cup p.by.posting \subseteq Account /\ p.by.keys \subseteq Key

\* Nothing is executed without the consent of every account that it needs:
\* its approval, or signatures and approvals that speak for it by any number
\* of references; for an owner also those owners that were found before.  The
\* check works on a shared, growing set of approvals and
\* stops early; this is its plain meaning.
Consent(r) ==
    LET need == NeedOfAll(r.ops)
        active == [a \in Account |-> r.auth[a].active]
        posting == [a \in Account |-> r.auth[a].posting]
        yes == r.by.active \cup r.by.owner
        own(a) == \/ SatisfiedAtAll(active, r.by.keys, yes \cup {b \in need.owner : b < a},
                                    r.auth[a].owner)
                  \/ a \in r.by.owner
    IN  /\ \A a \in need.posting :
              a \in r.by.posting \/ \E x \in {r.auth[a].posting, r.auth[a].active, r.auth[a].owner} :
                                       SatisfiedAtAll(posting, r.by.keys, r.by.posting, x)
        /\ \A a \in need.active :
              a \in yes \/ \E x \in {r.auth[a].active, r.auth[a].owner} :
                              SatisfiedAtAll(active, r.by.keys, yes, x)
        /\ \A a \in need.owner : own(a)
        /\ \A i \in DOMAIN need.other : SatisfiedAtAll(active, r.by.keys, yes, need.other[i])
OnlyByConsent == \A i \in DOMAIN ran : Consent(ran[i])

\* A proposal that expires with the approvals it needs, its accounts' own or
\* signatures for them within the depth of the check, is executed if it can
\* be; approvals that nobody asked for do not prevent it.
Enough(p) ==
    LET need == NeedOfAll(p.ops)
        active == [a \in Account |-> db.auth[a].active]
        posting == [a \in Account |-> db.auth[a].posting]
        yes == p.by.active \cup p.by.owner
    IN  /\ \A a \in need.posting : a \in p.by.posting
              \/ Satisfied(posting, p.by.keys, p.by.posting, db.auth[a].posting, MaxDepth)
        /\ \A a \in need.active : a \in yes
              \/ Satisfied(active, p.by.keys, yes, db.auth[a].active, MaxDepth)
        /\ \A a \in need.owner : a \in p.by.owner
              \/ Satisfied(active, p.by.keys, yes, db.auth[a].owner, MaxDepth)
RunsWhenDue ==
    [][\A title \in DOMAIN prop :
         now' > now /\ Due(now') = {title} /\ Enough(prop[title])
             /\ ApplyAll(db, prop[title].ops, now').ok
           => Len(ran') = 1]_vars

\* Between blocks nothing is left that should be over: proposals, requests,
\* changes of the recovery account, old owner authorities.
NothingOverdue ==
    /\ \A title \in DOMAIN prop : prop[title].expires > now
    /\ \A a \in DOMAIN db.request : db.request[a].expires > now
    /\ \A a \in DOMAIN db.change : db.change[a].at > now
    /\ \A h \in db.history : h.until + RecoveryPeriod >= now

\* As long as a change of the recovery account waits, the authority that
\* owned the account when it was asked for can take the account back: it is
\* still the owner, or in the history.
RecoverableUntilChanged ==
    \A a \in DOMAIN db.change :
        \/ db.auth[a].owner = db.change[a].by
        \/ \E h \in db.history : h.account = a /\ h.auth = db.change[a].by

\* The required_approval_objects are those of the proposals.
RequiredMatches ==
    /\ \A title \in DOMAIN prop, a \in Account :
          <<a, prop[title].id>> \in required
            <=> \E part \in {"active", "owner", "posting"} : a \in prop[title].need[part]
    /\ \A r \in required : \E title \in DOMAIN prop : prop[title].id = r[2]

\* Blocks, operations and executions leave nothing behind that is over, and
\* nothing that belongs to a proposal which is gone.
NothingLeftBehind == TypeOK /\ NothingOverdue /\ RequiredMatches

-----------------------------------------------------------------------------
(* The inductive invariant behind RecoverableUntilChanged and               *)
(* NothingLeftBehind                                                        *)

\* The authority that asked for a change outlives the change: it owns the
\* account, or will stay in the history until the change has been made.
Outlives(d, t) ==
    \A a \in DOMAIN d.change :
        /\ d.change[a].at <= t + RecoveryPeriod
        /\ \/ d.auth[a].owner = d.change[a].by
           \/ \E h \in d.history : /\ h.account = a /\ h.auth = d.change[a].by
                                   /\ h.until + RecoveryPeriod >= d.change[a].at

\* Nothing in db is over at time t.
Current(d, t) ==
    /\ \A a \in DOMAIN d.request : d.request[a].expires > t
    /\ \A a \in DOMAIN d.change : d.change[a].at > t
    /\ \A h \in d.history : h.until + RecoveryPeriod >= t

Need == [active : SUBSET Account, owner : SUBSET Account, posting : SUBSET Account,
         other : Seq(Authority)]
Proposal == [id : Nat, author : Account, ops : Seq(OpSet), need : Need, by : Approvals,
             expires : Int, review : Int]

\* Proposals are told apart by their ids.
ProposalsInv ==
    /\ IsFiniteSet(DOMAIN prop) /\ now \in Nat /\ serial \in Nat
    /\ required \subseteq Account \X Nat
    /\ \A x \in DOMAIN prop : prop[x] \in Proposal
    /\ \A x, y \in DOMAIN prop : prop[x].id = prop[y].id => x = y

IndInv ==
    /\ IsDatabase(db) /\ Outlives(db, now) /\ Current(db, now)
    /\ ProposalsInv /\ NothingLeftBehind
=============================================================================
