------------------------------- MODULE Accounts -------------------------------
(***************************************************************************)
(* The rows of the user table and what the user service makes of them.     *)
(* Every change reads the row, changes its copy, reads the row once more   *)
(* (repository Update) and writes all of the copy's columns: two changes   *)
(* that overlap undo each other's columns, and a write that overlaps a     *)
(* deletion brings the row back (gorm inserts when the UPDATE finds none). *)
(***************************************************************************)
EXTENDS AuthStore

CONSTANTS Local,   \* the account that exists from the start
          Words    \* passwords, secrets and nicknames

VARIABLES users,      \* the row of every account
          identity    \* the account the external identity belongs to

acvars == <<users, identity>>

Disabled == 0
Active == 1
NoSecret == "no"

ASSUME AccountsAssumption ==
    /\ Local \in Users /\ Users # {Local}
    /\ {"", "pw1", "opaque", "old", NoSecret} \subseteq Words

Rows == [there : BOOLEAN, status : {Disabled, Active}, password : Words, mfa : BOOLEAN,
         secret : Words, nickname : Words]
NoRow == [there |-> FALSE, status |-> Disabled, password |-> "", mfa |-> FALSE,
          secret |-> NoSecret, nickname |-> "old"]
NewRow(pw) == [NoRow EXCEPT !.there = TRUE, !.status = Active, !.password = pw]

Enabled(u) == users[u].there /\ users[u].status = Active

\* normalizeStatus: a request that names no status keeps the one that was read.
DefaultActive(want, was) == IF want \in {Disabled, Active} THEN want ELSE Active  \* mutant
NormalizeStatus(want, was) == IF want \in {Disabled, Active} THEN want ELSE was

\* A code of a secret for a time step; it is taken one step early or late.
Valid(secret, code) == /\ secret # NoSecret /\ code.secret = secret
                       /\ code.at <= now + 1 /\ now <= code.at + 1

\* May the operation go on with the row it has read?
Admits(o, row) ==
    CASE o.op \in {"updateCurrent", "updatePassword"} ->
             /\ row.status = Active
             /\ o.op = "updatePassword" => row.password # "" /\ row.password = o.old
      [] o.op = "confirmMFA" -> Valid(row.secret, o.code)
      [] o.op = "disableMFA" -> row.password = o.old /\ Valid(row.secret, o.code)
      [] OTHER -> TRUE

\* The copy with the operation's own columns changed.
UpdateUser(o, row) ==
    [row EXCEPT !.status = NormalizeStatus(o.status, @),
                !.password = IF o.pw = "" THEN @ ELSE o.pw,
                !.nickname = o.nickname]
UpdateCurrent(o, row) == [row EXCEPT !.nickname = o.nickname]
UpdateCurrentPassword(o, row) == [row EXCEPT !.password = o.pw]
EnableMFA(o, row) == [row EXCEPT !.secret = o.secret, !.mfa = FALSE]
ConfirmMFA(row) == [row EXCEPT !.mfa = TRUE]
DisableMFA(row) == [row EXCEPT !.mfa = FALSE, !.secret = NoSecret]
ResetAdmin(o, row) == [row EXCEPT !.password = o.pw,
                                  !.mfa = @ /\ ~o.resetMFA,
                                  !.secret = IF o.resetMFA THEN NoSecret ELSE @]

Changed(o, row) ==
    CASE o.op = "update" -> UpdateUser(o, row)
      [] o.op = "updateCurrent" -> UpdateCurrent(o, row)
      [] o.op = "updatePassword" -> UpdateCurrentPassword(o, row)
      [] o.op = "enableMFA" -> EnableMFA(o, row)
      [] o.op = "confirmMFA" -> ConfirmMFA(row)
      [] o.op = "disableMFA" -> DisableMFA(row)
      [] o.op = "adminReset" -> ResetAdmin(o, row)

\* Save: UPDATE of the row, or INSERT when it has been deleted meanwhile.
Save(u, copy) == [users EXCEPT ![u] = [copy EXCEPT !.there = TRUE]]
Deleted(u) == [users EXCEPT ![u].there = FALSE]

\* The insert of a user with its identity: the username and the identity are unique.
Free == CHOOSE u \in Users \ {Local} : TRUE
IdentityFree == identity = NoUser /\ ~users[Free].there
CreateWithExternalIdentity(pw) ==
    /\ users' = [users EXCEPT ![Free] = NewRow(pw)]
    /\ identity' = Free

AccountsInit == /\ users = [u \in Users |-> IF u = Local THEN NewRow("pw1") ELSE NoRow]
                /\ identity = NoUser

AccountsTypeOK == /\ users \in [Users -> Rows]
                  /\ identity \in Users \cup {NoUser}
=============================================================================
