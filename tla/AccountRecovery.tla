-------------------------- MODULE AccountRecovery --------------------------
(***************************************************************************)
(* The operations that change the authorities of an account: account_update *)
(* and the recovery of an account (steem_evaluator.cpp), and the steps of   *)
(* _apply_block that finish them (account_recovery_processing).             *)
(*                                                                         *)
(* The operators work on db, a record of                                   *)
(*   auth        the account_authority_object: owner, active, posting,     *)
(*   ownerAt     last_owner_update,                                        *)
(*   recoveredAt last_account_recovery,                                    *)
(*   partner     recovery_account,                                         *)
(*   history     the owner_authority_history_objects,                      *)
(*   request     account_recovery_request_objects by account,              *)
(*   change      change_recovery_account_request_objects by account; by is *)
(*               the owner authority at that time, for a property only,    *)
(*   power       of every account, whether a power down is under way, and  *)
(*               the receivers of its routes.                              *)
(* Every operation o is a record with a field op.  All accounts exist and  *)
(* have a partner.  The other fields of account_update are left out.       *)
(***************************************************************************)
EXTENDS Authorities, Functions

CONSTANTS
    UpdateLimit,        \* STEEMIT_OWNER_UPDATE_LIMIT
    RecoveryPeriod,     \* STEEMIT_OWNER_AUTH_RECOVERY_PERIOD
    RequestPeriod       \* STEEMIT_ACCOUNT_RECOVERY_REQUEST_EXPIRATION_PERIOD

ASSUME PeriodAssumption == {UpdateLimit, RecoveryPeriod, RequestPeriod} \subseteq Nat \ {0}

LongAgo == -UpdateLimit - 1     \* time_point_sec(): before every limit

\* The types of db and of the operations.
Auths == [owner : Authority, active : Authority, posting : Authority]
Past == [account : Account, auth : Authority, until : Int]
Request == [auth : Authority, expires : Int]
Change == [to : Account, at : Int, by : Authority]
IsByAccount(f, V) == DOMAIN f \subseteq Account /\ f \in [DOMAIN f -> V]
IsDatabase(d) ==
    /\ d \in [auth : [Account -> Auths], ownerAt : [Account -> Int], recoveredAt : [Account -> Int],
               partner : [Account -> Account], history : SUBSET Past,
               request : {d.request}, change : {d.change},
               power : [Account -> [on : BOOLEAN, routes : SUBSET Account]]]
    /\ IsByAccount(d.request, Request) /\ IsByAccount(d.change, Change)
RecoveryOp ==
    [op : {"update"}, account : Account, role : {"owner", "active", "posting"}, auth : Authority]
      \cup [op : {"request"}, partner : Account, account : Account, auth : Authority, cancel : BOOLEAN]
      \cup [op : {"recover"}, account : Account, auth : Authority, recent : Authority]
      \cup [op : {"change"}, account : Account, partner : Account]

\* f with x mapped to v
Put(f, x, v) == [y \in DOMAIN f \cup {x} |-> IF y = x THEN v ELSE f[y]]
Without(f, x) == Restrict(f, DOMAIN f \ {x})

\* update_owner_authority
UpdateOwner(db, a, x, t) ==
    [db EXCEPT !.history = @ \cup {[account |-> a, auth |-> db.auth[a].owner, until |-> t]},
               !.auth[a].owner = x, !.ownerAt[a] = t]

\* account_update of one authority.
CanUpdate(db, o, t) == o.role = "owner" => t > db.ownerAt[o.account] + UpdateLimit
AccountUpdate(db, o, t) ==
    IF o.role = "owner" THEN UpdateOwner(db, o.account, o.auth, t)
    ELSE [db EXCEPT !.auth[o.account] = [@ EXCEPT ![o.role] = o.auth]]

\* request_account_recovery: cancel stands for an open authority.
CanRequest(db, o) ==
    /\ db.partner[o.account] = o.partner
    /\ o.account \notin DOMAIN db.request => ~o.cancel
RequestRecovery(db, o, t) ==
    [db EXCEPT !.request = IF o.cancel THEN Without(@, o.account)
                           ELSE Put(@, o.account, [auth |-> o.auth, expires |-> t + RequestPeriod])]

\* recover_account: the authority of the request, and one of the history.
CanRecover(db, o, t) ==
    /\ o.auth # o.recent
    /\ t > db.recoveredAt[o.account] + UpdateLimit
    /\ o.account \in DOMAIN db.request
    /\ db.request[o.account].auth = o.auth
    /\ \E h \in db.history : h.account = o.account /\ h.auth = o.recent

\* reset_vesting_withdraw: remove_vesting_routes starts behind the last route
\* of the account, the upper bound of a key that names only the account, so
\* that no route is removed.
ResetVestingWithdraw(p) == [p EXCEPT !.on = FALSE]

RecoverAccount(db, o, t) ==
    LET updated == UpdateOwner([db EXCEPT !.request = Without(@, o.account)], o.account, o.auth, t)
    IN  [updated EXCEPT !.recoveredAt[o.account] = t, !.power[o.account] = ResetVestingWithdraw(@)]

\* change_recovery_account: a request for the present partner takes a request
\* back, if there is one.
ChangeRecoveryAccount(db, o, t) ==
    LET a == o.account
        asked == [to |-> o.partner, at |-> t + RecoveryPeriod, by |-> db.auth[a].owner]
        back == a \in DOMAIN db.change /\ db.partner[a] = o.partner
    IN  [db EXCEPT !.change = IF back THEN Without(@, a) ELSE Put(@, a, asked)]

\* A mutated form of RecoveryProcessing: history ends with its requests.
RecoveryProcessingSoon(db, t) ==
    LET due == {a \in DOMAIN db.change : db.change[a].at <= t}
    IN  [db EXCEPT
           !.request = Restrict(@, {a \in DOMAIN @ : @[a].expires > t}),
           !.history = {h \in @ : h.until + RequestPeriod >= t},
           !.partner = [a \in Account |-> IF a \in due THEN db.change[a].to ELSE @[a]],
           !.change = Restrict(@, DOMAIN @ \ due)]

\* A mutated form of RecoveryProcessing: a change stays one block longer.
RecoveryProcessingLate(db, t) ==
    LET due == {a \in DOMAIN db.change : db.change[a].at < t}
    IN  [db EXCEPT
           !.request = Restrict(@, {a \in DOMAIN @ : @[a].expires > t}),
           !.history = {h \in @ : h.until + RecoveryPeriod >= t},
           !.partner = [a \in Account |-> IF a \in due THEN db.change[a].to ELSE @[a]],
           !.change = Restrict(@, DOMAIN @ \ due)]

\* account_recovery_processing
RecoveryProcessing(db, t) ==
    LET due == {a \in DOMAIN db.change : db.change[a].at <= t}
    IN  [db EXCEPT
           !.request = Restrict(@, {a \in DOMAIN @ : @[a].expires > t}),
           !.history = {h \in @ : h.until + RecoveryPeriod >= t},
           !.partner = [a \in Account |-> IF a \in due THEN db.change[a].to ELSE @[a]],
           !.change = Restrict(@, DOMAIN @ \ due)]
=============================================================================
