--------------------------------- MODULE Iam ---------------------------------
(***************************************************************************)
(* Requests on the identity service, each a sequence of store calls that   *)
(* the calls of other requests come between: sign-in by password or by an  *)
(* OIDC provider, exchange of a refresh token, sign-out of one or all      *)
(* sessions, the check of an access token, changes of the account, and the *)
(* reset of the administrator's password from the command line.            *)
(*                                                                         *)
(* What a client does is a script, so that TLC explores every interleaving *)
(* of a few telling combinations.  Tokens are presented after they were    *)
(* handed out.  The identity provider and the captcha are external: their  *)
(* answer is a choice.                                                     *)
(***************************************************************************)
EXTENDS Accounts, Sequences

CONSTANTS Clients,
          Workloads,     \* what the clients do, and the ticks, failures and losses it may meet:
                         \* [script : [Clients -> Seq of operations], ticks, faults, losses]
          CaptchaAt,     \* CaptchaFailureTrigger
          Codes,         \* one-time codes that are presented
          States         \* OIDC states, 1..n

\* A one-time code of a secret for a time step, and what a request asks for.
NoCode == [secret |-> NoSecret, at |-> 0]
Claims == Users \X (Codes \cup {NoCode})
Changing == {"update", "updateCurrent", "updatePassword", "enableMFA", "confirmMFA", "disableMFA", "adminReset"}
Account == Changing \cup {"delete"}
Operations == [op : Account \cup {"login", "refresh", "use", "logout", "logoutAll", "oidcLogin", "oidcCallback"},
               user : Users, pw : Words, ip : Keys, code : Codes \cup {NoCode}, old : Words, status : 0..2,
               nickname : Words, secret : Words, resetMFA : BOOLEAN, gives : {"access", "refresh", "both"}]

ASSUME IamAssumption ==
    /\ CaptchaAt \in Nat /\ States \subseteq Nat \ {0} /\ "user" \in Keys
    /\ Codes \subseteq [secret : Words, at : Nat]
    /\ \A w \in Workloads : /\ w.script \in [Clients -> Seq(Operations)]
                            /\ w.ticks \in 0..MaxNow /\ w.faults \in Nat /\ w.losses \in Nat

VARIABLES script, req,
          access, given, states,   \* what clients hold: access tokens, refresh tokens, OIDC states
          seen                     \* what has happened, for the properties only

rqvars == <<script, req, access, given, states, seen>>
vars == <<stvars, acvars, rqvars>>

NoOp == [op |-> "none"]
Base == [op |-> "none", user |-> Local, pw |-> "", ip |-> "ip1", code |-> NoCode, old |-> "",
         status |-> 2, nickname |-> "old", secret |-> NoSecret, resetMFA |-> FALSE, gives |-> "access"]

Idle == [o |-> NoOp, at |-> "idle", user |-> NoUser, sid |-> 0, tok |-> 0, new |-> 0, end |-> 0,
         row |-> NoRow, keys |-> {}, sids |-> {}, toks |-> {}, bad |-> FALSE, state |-> 0,
         \* for the properties: the sessions open at the start, the promises and
         \* locks given before it, whether the row is still as it was read
         before |-> {}, late |-> FALSE, spent |-> FALSE, told |-> {}, locked |-> {}, past |-> FALSE, same |-> TRUE]

R(p) == req[p]
At(p, x) == req[p].at = x
Is(p, ops) == req[p].o.op \in ops
Go(p, r) == req' = [req EXCEPT ![p] = r]
To(p, x) == [req[p] EXCEPT !.at = x]
CanFail == faults > 0

\* A call to a store: it succeeds, or fails having been carried out or not.
RedisDo(p, new, good, bad) ==
    /\ \/ /\ redis' = IF redisOn THEN new ELSE redis
          /\ Go(p, good)
          /\ UNCHANGED faults
       \/ /\ redisOn /\ CanFail
          /\ redis' \in {redis, new}
          /\ Go(p, bad)
          /\ faults' = faults - 1
    /\ UNCHANGED pg
PgDo(p, new, good, bad) ==
    /\ \/ pg' = new /\ Go(p, good) /\ UNCHANGED faults
       \/ /\ CanFail
          /\ pg' \in {pg, new}
          /\ Go(p, bad)
          /\ faults' = faults - 1
    /\ UNCHANGED redis

\* The stores that do not answer a read, and what that costs.
Reads(failed) == /\ failed \in {{}, {"redis"}, {"pg"}} /\ ("redis" \in failed => redisOn)
                 /\ failed # {} => CanFail
                 /\ faults' = IF failed = {} THEN faults ELSE faults - 1

Unmoved == UNCHANGED <<now, redisOn, losses, ticks>>
SameStore == UNCHANGED <<redis, pg, session, token>>
SameHands == UNCHANGED <<access, given, states>>

------------------------------------------------------------------------------
(* A request starts.                                                       *)

Begin(p, r) ==
    /\ At(p, "idle") /\ script[p] # <<>>
    /\ Go(p, [r EXCEPT !.o = Head(script[p]),
                       !.before = {a.sid : a \in access},
                       !.late = r.sid \in seen.out,
                       !.spent = r.tok \in seen.outTok,
                       !.told = IF r.user = NoUser THEN {} ELSE seen.promised[r.user],
                       !.locked = {k \in Keys : Alive(seen.lock[k])}])
    /\ script' = [script EXCEPT ![p] = Tail(@)]
    /\ Unmoved /\ SameStore /\ SameHands /\ UNCHANGED <<users, identity, faults, seen>>

\* The state comes back in the cookie OIDCLogin set.
StartOIDC(p, o) ==
    \/ o.op = "oidcLogin" /\ Begin(p, [Idle EXCEPT !.at = "saveState"])
    \/ /\ o.op = "oidcCallback"
       /\ \E st \in states : Begin(p, [Idle EXCEPT !.at = "hasState", !.state = st, !.user = identity])

Start(p) ==
    LET o == Head(script[p]) IN
    /\ script[p] # <<>>
    /\ \/ /\ o.op = "login"
          /\ Begin(p, [Idle EXCEPT !.at = "captcha", !.user = o.user])
       \/ /\ o.op = "refresh" \/ (o.op \in {"logout", "logoutAll"} /\ o.gives = "refresh")
          /\ \E t \in given : Begin(p, [Idle EXCEPT !.at = "verify", !.tok = t, !.sid = token[t].sid,
                                          !.user = session[token[t].sid].user, !.end = token[t].end])
       \/ /\ o.op = "use" \/ (o.op \in {"logout", "logoutAll"} /\ o.gives # "refresh")
          /\ \E a \in access : Begin(p, [Idle EXCEPT !.at = "verify", !.sid = a.sid,
                                           !.user = session[a.sid].user, !.end = a.end])
       \/ /\ o.op \in Account
          /\ Begin(p, [Idle EXCEPT !.at = "read", !.user = o.user])
       \/ StartOIDC(p, o)

------------------------------------------------------------------------------
(* verifyToken: the signature, the end, then the two revocation lists.     *)

Accepts(r, failed) ==
    /\ Alive(r.end)
    /\ r.tok # 0 => ReadBool(RedisTokenRevoked(r.tok), PgTokenRevoked(r.tok), failed) = "false"
    /\ ReadBool(RedisSessionRevoked(r.sid), PgSessionRevoked(r.sid), failed) = "false"

AfterVerify(p) == CASE Is(p, {"use", "refresh"}) /\ At(p, "verify") -> "resolve"
                    [] At(p, "verifyAgain") -> "rotate"
                    [] At(p, "verifyOther") \/ (Is(p, {"logout"}) /\ R(p).o.gives = "refresh") -> "revTokenRedis"
                    [] OTHER -> "getSession"

VerifyToken(p) ==
    /\ \/ At(p, "verify") \/ At(p, "verifyAgain") \/ At(p, "verifyOther")
    /\ \E failed \in SUBSET {"redis", "pg"} :
          /\ Reads(failed)
          /\ Go(p, To(p, IF Accepts(R(p), failed) THEN AfterVerify(p) ELSE "denied"))
    /\ Unmoved /\ SameStore /\ SameHands /\ UNCHANGED <<users, identity, script, seen>>

\* resolveUser and the status, for a refresh; ResolvePrincipal, for a use.
Resolve(p) ==
    /\ At(p, "resolve")
    /\ Go(p, To(p, IF ~Enabled(R(p).user) THEN "denied"
                   ELSE IF Is(p, {"use"}) THEN "ok" ELSE "verifyAgain"))
    /\ Unmoved /\ SameStore /\ SameHands /\ UNCHANGED <<users, identity, script, seen, faults>>

------------------------------------------------------------------------------
(* Refresh: Postgres decides the rotation, Redis follows at best.          *)

\* Identifiers are never used twice; Toks, Sids and States bound how many there are.
TokLeft == \E t \in Toks : token[t].sid = 0
NextTok == CHOOSE t \in Toks : token[t].sid = 0
SidLeft == \E s \in Sids : session[s].end = 0
NextSid == CHOOSE s \in Sids : session[s].end = 0
NewState(st) == st \in States /\ st \notin states /\ \A q \in Clients : R(q).state # st
StateLeft == \E st \in States : NewState(st)
NextState == CHOOSE st \in States : NewState(st)

Rotate(p) ==
    LET t == R(p).tok n == NextTok
        moved == [To(p, "rotateRedis") EXCEPT !.new = n, !.end = now + AccessTTL]
    IN /\ At(p, "rotate") /\ TokLeft
       /\ token' = [token EXCEPT ![n] = [sid |-> R(p).sid, end |-> now + RefreshTTL]]
       /\ IF PgRotates(pg, t) THEN PgDo(p, PgRotate(pg, t, n), moved, To(p, "denied"))
                              ELSE PgDo(p, pg, To(p, "denied"), To(p, "denied"))
       /\ Unmoved /\ SameHands /\ UNCHANGED <<session, users, identity, script, seen>>

RotateMirror(p) ==
    LET t == R(p).tok IN
    /\ At(p, "rotateRedis")
    /\ RedisDo(p, IF RedisRotates(redis, t) THEN RedisRotate(redis, t, R(p).new) ELSE redis,
               To(p, "ok"), To(p, "ok"))
    /\ Unmoved /\ SameHands /\ UNCHANGED <<session, token, users, identity, script, seen>>

------------------------------------------------------------------------------
(* Sign-out: the session's end is looked up, then both stores are told;    *)
(* the last error is returned when both have been tried.                   *)

GetSession(p) ==
    /\ At(p, "getSession")
    /\ \E failed \in SUBSET {"redis", "pg"} :
          /\ Reads(failed)
          /\ Go(p, [To(p, IF Is(p, {"logoutAll"}) THEN "members" ELSE "revRedis")
                      EXCEPT !.end = SessionEnd(R(p).sid, failed)])
    /\ Unmoved /\ SameStore /\ SameHands /\ UNCHANGED <<users, identity, script, seen>>

RevokeSessionRedis(p) ==
    /\ At(p, "revRedis")
    /\ RedisDo(p, RedisRevokeSession(redis, R(p).sid, R(p).end),
               To(p, "revPg"), [To(p, "revPg") EXCEPT !.bad = TRUE])
    /\ Unmoved /\ SameHands /\ UNCHANGED <<session, token, users, identity, script, seen>>

\* A sign-out that names the refresh token too goes on to revoke it.
RevokeSessionPg(p) ==
    LET told == ~R(p).bad
        next == IF ~told THEN To(p, "failed") ELSE To(p, "signedOut")
    IN /\ At(p, "revPg")
       /\ PgDo(p, PgRevokeSession(pg, R(p).sid, R(p).end), next, To(p, "failed"))
       /\ Unmoved /\ SameHands /\ UNCHANGED <<session, token, users, identity, script, seen>>

RevokeOtherToken(p) ==
    /\ At(p, "signedOut")
    /\ seen' = [seen EXCEPT !.out = @ \cup {R(p).sid}]
    /\ IF R(p).o.gives = "both"
         THEN \E t \in {x \in given : token[x].sid = R(p).sid} :
                 Go(p, [To(p, "verifyOther") EXCEPT !.tok = t, !.end = token[t].end])
         ELSE Go(p, To(p, "ok"))
    /\ Unmoved /\ SameStore /\ SameHands /\ UNCHANGED <<users, identity, script, faults>>

RevokeTokenRedis(p) ==
    /\ At(p, "revTokenRedis")
    /\ RedisDo(p, RedisRevokeToken(redis, R(p).tok),
               To(p, "revTokenPg"), [To(p, "revTokenPg") EXCEPT !.bad = TRUE])
    /\ Unmoved /\ SameHands /\ UNCHANGED <<session, token, users, identity, script, seen>>

RevokeTokenPg(p) ==
    /\ At(p, "revTokenPg")
    /\ PgDo(p, PgRevokeToken(pg, R(p).tok), To(p, IF R(p).bad THEN "failed" ELSE "revoked"), To(p, "failed"))
    /\ Unmoved /\ SameHands /\ UNCHANGED <<session, token, users, identity, script, seen>>

\* All sessions of a subject: Redis reads its two sets first, and knows
\* nothing of what is added to them before it writes.
ReadMembers(p) ==
    LET u == R(p).user IN
    /\ At(p, "members")
    /\ \/ /\ Go(p, [To(p, "allRedis") EXCEPT !.sids = SubjectSessions(redis, u),
                                             !.toks = SubjectRefreshTokens(redis, u)])
          /\ UNCHANGED faults
       \/ /\ redisOn /\ CanFail
          /\ Go(p, [To(p, "allPg") EXCEPT !.bad = TRUE])
          /\ faults' = faults - 1
    /\ Unmoved /\ SameStore /\ SameHands /\ UNCHANGED <<users, identity, script, seen>>

RevokeAllRedis(p) ==
    /\ At(p, "allRedis")
    /\ RedisDo(p, RedisRevokeSubjectSessions(redis, R(p).sids, R(p).toks, R(p).end),
               To(p, "allPg"), [To(p, "allPg") EXCEPT !.bad = TRUE])
    /\ Unmoved /\ SameHands /\ UNCHANGED <<session, token, users, identity, script, seen>>

RevokeAllPg(p) ==
    LET next == IF R(p).bad THEN "failed" ELSE IF Is(p, {"adminReset"}) THEN "clearReset" ELSE "ok"
    IN /\ At(p, "allPg")
       /\ PgDo(p, PgRevokeSubjectSessions(pg, R(p).user), To(p, next), To(p, "failed"))
       /\ seen' = IF /\ ~R(p).bad /\ req'[p].at # "failed"
                  THEN [seen EXCEPT !.out = @ \cup {s \in R(p).before : session[s].user = R(p).user}]
                  ELSE seen
       /\ Unmoved /\ SameHands /\ UNCHANGED <<session, token, users, identity, script>>

------------------------------------------------------------------------------
(* Sign-in by password.                                                    *)

LoginKeys(o) == {o.ip, "user"}

RequiresCaptcha(p) ==
    LET o == R(p).o IN
    /\ At(p, "captcha")
    /\ \E failed \in {{}, {"redis"}} :
         /\ Reads(failed)
         /\ \E solved \in BOOLEAN :
              Go(p, To(p, IF /\ CaptchaAt > 0 /\ ~solved
                             /\ \E k \in LoginKeys(o) : LoginFailure(k, failed).n >= CaptchaAt
                          THEN "denied" ELSE "lock"))
    /\ Unmoved /\ SameStore /\ SameHands /\ UNCHANGED <<users, identity, script, seen>>

LockedByAddress(o, failed) == Alive(LoginFailure(o.ip, failed).lock)  \* mutant
LoginLocked(o, failed) == \E k \in LoginKeys(o) : Alive(LoginFailure(k, failed).lock)

\* Redis counts under the key, but fewer failures than Postgres does, or
\* after a copy of one failed.
MirrorBehind(k) == /\ redisOn /\ Alive(redis.fail[k].end)
                   /\ redis.fail[k].n < pg.fail[k].n \/ k \in seen.missed

LoginLock(p) ==
    LET o == R(p).o IN
    /\ At(p, "lock")
    /\ \E failed \in {{}, {"redis"}} :
         /\ Reads(failed)
         /\ Go(p, IF LoginLocked(o, failed) THEN To(p, "denied")
                  ELSE [To(p, "user") EXCEPT
                          !.past = \E k \in LoginKeys(o) \cap R(p).locked :
                                       Alive(seen.lock[k]) /\ ~MirrorBehind(k)])
    /\ Unmoved /\ SameStore /\ SameHands /\ UNCHANGED <<users, identity, script, seen>>

\* The row, its status, the password, and whether a code is asked for.
CheckPassword(p) ==
    LET o == R(p).o row == users[o.user]
        next == CASE ~row.there -> "failUserPg"
                  [] row.there /\ row.status # Active -> "denied"
                  [] row.there /\ row.status = Active /\ row.password # o.pw -> "failUserPg"
                  [] OTHER -> IF ~row.mfa THEN "sessRedis"
                              ELSE IF o.code = NoCode \/ row.secret = NoSecret THEN "denied"
                              ELSE IF Valid(row.secret, o.code) THEN "claim" ELSE "failUserPg"
    IN /\ At(p, "user")
       /\ Go(p, IF next = "failUserPg" THEN [To(p, "failPg") EXCEPT !.keys = LoginKeys(o)]
                ELSE [To(p, next) EXCEPT !.row = row])
       /\ Unmoved /\ SameStore /\ SameHands /\ UNCHANGED <<users, identity, script, seen, faults>>

\* validateTOTP: the code is claimed; when the claim cannot be made the code
\* is good all the same.
ClaimOnce(p) ==
    LET key == <<R(p).user, R(p).o.code>> IN
    /\ At(p, "claim")
    /\ \/ /\ pg' = PgClaim(pg, key) /\ UNCHANGED faults
          /\ Go(p, IF Claimed(pg, key)
                   THEN IF Is(p, {"login"}) THEN [To(p, "failPg") EXCEPT !.keys = LoginKeys(R(p).o)]
                                            ELSE To(p, "denied")
                   ELSE To(p, IF Is(p, {"login"}) THEN "sessRedis" ELSE "first"))
          /\ seen' = IF Claimed(pg, key) THEN seen ELSE [seen EXCEPT !.uses[key] = @ + 1]
       \/ /\ CanFail /\ pg' \in {pg, PgClaim(pg, key)} /\ faults' = faults - 1
          /\ Go(p, To(p, IF Is(p, {"login"}) THEN "sessRedis" ELSE "first"))
          /\ seen' = [seen EXCEPT !.uses[key] = @ + 1, !.slack[key] = @ + 1]
    /\ Unmoved /\ SameHands /\ UNCHANGED <<redis, session, token, users, identity, script>>

\* recordLoginFailure: the address's key, then the username's; Postgres
\* counts, Redis copies.
FailKey(p) == IF R(p).o.ip \in R(p).keys THEN R(p).o.ip ELSE "user"

CountFailurePg(p) ==
    LET k == FailKey(p) IN
    /\ At(p, "failPg")
    /\ \/ pg' = PgIncrement(pg, k, 2) /\ UNCHANGED faults /\ Go(p, To(p, "failRedis"))
       \/ /\ CanFail /\ faults' = faults - 1
          /\ \E done \in 0..2 : pg' = PgIncrement(pg, k, done)
          /\ Go(p, To(p, "failed"))
    /\ Unmoved /\ SameHands /\ UNCHANGED <<redis, session, token, users, identity, script, seen>>

CountFailureRedis(p) ==
    LET k == FailKey(p) rest == R(p).keys \ {k}
        next == [To(p, IF rest = {} THEN "refused" ELSE "failPg") EXCEPT !.keys = rest]
    IN /\ At(p, "failRedis")
       /\ \/ redis' = (IF redisOn THEN RedisIncrement(redis, k, 3) ELSE redis) /\ UNCHANGED <<faults, seen>>
          \/ /\ redisOn /\ CanFail /\ faults' = faults - 1
             /\ seen' = [seen EXCEPT !.missed = @ \cup {k}]
             /\ \E done \in 0..3 : redis' = RedisIncrement(redis, k, done)
       /\ Go(p, next)
       /\ Unmoved /\ SameHands /\ UNCHANGED <<pg, session, token, users, identity, script>>

------------------------------------------------------------------------------
(* IssueTokenPair: the session, then its refresh token, in both stores.    *)

CreateSessionRedis(p) ==
    LET s == NextSid IN
    /\ At(p, "sessRedis") /\ SidLeft
    /\ session' = [session EXCEPT ![s] = [user |-> R(p).user, end |-> now + RefreshTTL]]
    /\ RedisDo(p, RedisCreateSession(redis, s), [To(p, "sessPg") EXCEPT !.sid = s],
               [To(p, "sessPg") EXCEPT !.sid = s, !.bad = TRUE])
    /\ Unmoved /\ SameHands /\ UNCHANGED <<token, users, identity, script, seen>>

CreateSessionPg(p) ==
    /\ At(p, "sessPg")
    /\ PgDo(p, PgCreateSession(pg, R(p).sid, session[R(p).sid].end),
            To(p, IF R(p).bad THEN "failed" ELSE "tokRedis"), To(p, "failed"))
    /\ Unmoved /\ SameHands /\ UNCHANGED <<session, token, users, identity, script, seen>>

StoreTokenRedis(p) ==
    LET t == NextTok IN
    /\ At(p, "tokRedis") /\ TokLeft
    /\ token' = [token EXCEPT ![t] = [sid |-> R(p).sid, end |-> now + RefreshTTL]]
    /\ RedisDo(p, RedisStoreRefreshToken(redis, t), [To(p, "tokPg") EXCEPT !.new = t, !.end = now + AccessTTL],
               [To(p, "tokPg") EXCEPT !.new = t, !.bad = TRUE])
    /\ Unmoved /\ SameHands /\ UNCHANGED <<session, users, identity, script, seen>>

StoreTokenPg(p) ==
    /\ At(p, "tokPg")
    /\ PgDo(p, PgStoreRefreshToken(pg, R(p).new),
            To(p, IF R(p).bad THEN "failed" ELSE IF Is(p, {"login"}) THEN "clear" ELSE "ok"), To(p, "failed"))
    /\ Unmoved /\ SameHands /\ UNCHANGED <<session, token, users, identity, script, seen>>

\* clearLoginFailures, after a sign-in (errors are dropped) and before the
\* administrator's new password (an error ends the reset).  A fault loses
\* one of the deletions.
ClearFailures(p) ==
    LET ks == IF At(p, "clear") THEN LoginKeys(R(p).o) ELSE {"user"}
        next == IF At(p, "clear") THEN "ok" ELSE "first"
    IN /\ At(p, "clear") \/ At(p, "clearReset")
       /\ \/ /\ redis' = (IF redisOn THEN RedisClear(redis, ks) ELSE redis) /\ pg' = PgClear(pg, ks)
             /\ UNCHANGED faults /\ Go(p, To(p, next))
          \/ /\ CanFail /\ faults' = faults - 1
             /\ \E k \in ks : \/ /\ redisOn /\ redis' = RedisClear(redis, ks \ {k}) /\ pg' = PgClear(pg, ks)
                              \/ /\ redis' = (IF redisOn THEN RedisClear(redis, ks) ELSE redis)
                                 /\ pg' = PgClear(pg, ks \ {k})
             /\ Go(p, To(p, IF At(p, "clear") THEN next ELSE "failed"))
       /\ seen' = [seen EXCEPT !.lock = [k \in Keys |-> IF k \in ks THEN 0 ELSE @[k]]]
       /\ Unmoved /\ SameHands /\ UNCHANGED <<session, token, users, identity, script>>

------------------------------------------------------------------------------
(* Sign-in by the identity provider.                                       *)

LoginURL(p) ==
    /\ At(p, "saveState") /\ StateLeft
    /\ PgDo(p, PgSaveState(pg, NextState), [To(p, "ok") EXCEPT !.state = NextState], To(p, "failed"))
    /\ Unmoved /\ SameHands /\ UNCHANGED <<session, token, users, identity, script, seen>>

HasOIDCState(p) ==
    /\ At(p, "hasState")
    /\ Go(p, To(p, IF HasState(pg, R(p).state) THEN "exchange" ELSE "denied"))
    /\ Unmoved /\ SameStore /\ SameHands /\ UNCHANGED <<users, identity, script, seen, faults>>

\* External: the provider exchanges the code for a token that verifies, or not.
Exchange(p) ==
    /\ At(p, "exchange")
    /\ Go(p, To(p, "consume")) \/ Go(p, To(p, "denied"))
    /\ Unmoved /\ SameStore /\ SameHands /\ UNCHANGED <<users, identity, script, seen, faults>>

ConsumeState(p) ==
    LET st == R(p).state IN
    /\ At(p, "consume")
    /\ PgDo(p, PgConsumeState(pg, st), To(p, IF HasState(pg, st) THEN "findUser" ELSE "denied"), To(p, "failed"))
    /\ Unmoved /\ SameHands /\ UNCHANGED <<session, token, users, identity, script, seen>>

\* resolveOrCreateUser: the identity's account, if it may sign in; otherwise
\* a new one.  A creation that meets another's looks the identity up again.
FindUser(p) ==
    /\ At(p, "findUser")
    /\ Go(p, IF identity = NoUser THEN To(p, "createUser")
             ELSE [To(p, IF Enabled(identity) THEN "sessRedis" ELSE "denied") EXCEPT !.user = identity])
    /\ Unmoved /\ SameStore /\ SameHands /\ UNCHANGED <<users, identity, script, seen, faults>>

CreateUser(p) ==
    /\ At(p, "createUser")
    /\ IF IdentityFree THEN /\ CreateWithExternalIdentity("opaque")
                            /\ Go(p, [To(p, "sessRedis") EXCEPT !.user = Free])
                       ELSE /\ UNCHANGED <<users, identity>>
                            /\ Go(p, To(p, IF identity = NoUser THEN "denied" ELSE "findUser"))
    /\ Unmoved /\ SameStore /\ SameHands /\ UNCHANGED <<script, seen, faults>>

------------------------------------------------------------------------------
(* Changes of the account.                                                 *)

Others(p, u, r) == [q \in Clients |-> IF q # p /\ req[q].user = u THEN [req[q] EXCEPT !.same = FALSE]
                                      ELSE IF q = p THEN r ELSE req[q]]

ReadUser(p) ==
    LET o == R(p).o u == R(p).user row == users[u]
        next == CASE o.op \in {"confirmMFA", "disableMFA"} -> "claim"
                  [] o.op = "delete" -> "delete"
                  [] o.op = "adminReset" -> "members"
                  [] OTHER -> "first"
    IN /\ At(p, "read")
       /\ Go(p, [To(p, IF row.there /\ Admits(o, row) THEN next ELSE "denied") EXCEPT
                    !.row = row, !.same = TRUE, !.end = now + RefreshTTL])
       /\ Unmoved /\ SameStore /\ SameHands /\ UNCHANGED <<users, identity, script, seen, faults>>

\* repository Update: the row must be there when it is read again ...
ReadAgain(p) ==
    /\ At(p, "first")
    /\ Go(p, To(p, IF users[R(p).user].there THEN "save" ELSE "denied"))
    /\ Unmoved /\ SameStore /\ SameHands /\ UNCHANGED <<users, identity, script, seen, faults>>

\* What a change of the row takes back of what earlier requests were told.
Undone(p, new) ==
    LET u == R(p).user
        back == (IF new.there /\ new.status = Active THEN {"shut"} ELSE {})
                \cup (IF ~new.mfa THEN {"mfa"} ELSE {})
        meant == R(p).o.op \in {"enableMFA", "disableMFA", "adminReset"}
                 \/ (R(p).o.op = "update" /\ R(p).o.status = Active)
    IN IF ~R(p).same \/ meant THEN back ELSE {}

Forget(rs, u, gone) == [q \in Clients |-> IF rs[q].user = u THEN [rs[q] EXCEPT !.told = @ \ gone] ELSE rs[q]]

\* ... and all columns of the copy are written.
SaveUser(p) ==
    LET u == R(p).user new == Changed(R(p).o, R(p).row) gone == Undone(p, [new EXCEPT !.there = TRUE])
    IN /\ At(p, "save")
       /\ users' = Save(u, new)
       /\ req' = Forget(Others(p, u, To(p, "ok")), u, gone)
       /\ seen' = [seen EXCEPT !.promised[u] = @ \ gone]
       /\ Unmoved /\ SameStore /\ SameHands /\ UNCHANGED <<identity, script, faults>>

DeleteUser(p) ==
    LET u == R(p).user IN
    /\ At(p, "delete")
    /\ users' = Deleted(u)
    /\ req' = Others(p, u, To(p, IF users[u].there THEN "ok" ELSE "denied"))
    /\ Unmoved /\ SameStore /\ SameHands /\ UNCHANGED <<identity, script, seen, faults>>

------------------------------------------------------------------------------
(* A request ends: with an answer in hand, refused, or with an error.      *)

Promises(r) ==
    IF r.o.op = "delete" \/ (r.o.op = "update" /\ r.o.status = Disabled) THEN {"shut"}
    ELSE IF r.o.op = "confirmMFA" THEN {"mfa"} ELSE {}

\* What a request was told holds only while the row says so: an overlapping
\* write may have come before the answer.
StillSo(u) == (IF ~Enabled(u) THEN {"shut"} ELSE {}) \cup (IF users[u].mfa THEN {"mfa"} ELSE {})

Answer(p) ==
    LET r == R(p) tokens == r.new # 0 IN
    /\ At(p, "ok") \/ At(p, "revoked")
    /\ access' = IF tokens THEN access \cup {[sid |-> r.sid, end |-> r.end]} ELSE access
    /\ given' = IF tokens THEN given \cup {r.new} ELSE given
    /\ states' = IF r.o.op = "oidcLogin" THEN states \cup {r.state} ELSE states
    /\ seen' = [seen EXCEPT
                  !.outTok = IF At(p, "revoked") THEN @ \cup {r.tok} ELSE @,
                  !.spent = IF r.o.op = "refresh" THEN [seen.spent EXCEPT ![r.tok] = @ + 1] ELSE @,
                  !.signIns = IF r.o.op = "oidcCallback" THEN [seen.signIns EXCEPT ![r.state] = @ + 1] ELSE @,
                  !.promised = IF Promises(r) = {} THEN @
                               ELSE [seen.promised EXCEPT ![r.user] = @ \cup (Promises(r) \cap StillSo(r.user))]]
    /\ Go(p, Idle)
    /\ Unmoved /\ SameStore /\ UNCHANGED <<users, identity, script, faults>>

Refuse(p) ==
    LET r == R(p) IN
    /\ At(p, "denied") \/ At(p, "failed") \/ At(p, "refused")
    /\ seen' = IF At(p, "refused")
               THEN [seen EXCEPT !.lock = [k \in Keys |-> IF k \in LoginKeys(r.o) /\ Alive(pg.fail[k].lock)
                                                          THEN pg.fail[k].lock ELSE @[k]]]
               ELSE seen
    /\ Go(p, Idle)
    /\ Unmoved /\ SameStore /\ SameHands /\ UNCHANGED <<users, identity, script, faults>>

------------------------------------------------------------------------------
Step(p) ==
    \/ Start(p) \/ VerifyToken(p) \/ Resolve(p) \/ Rotate(p) \/ RotateMirror(p)
    \/ GetSession(p) \/ RevokeSessionRedis(p) \/ RevokeSessionPg(p) \/ RevokeOtherToken(p)
    \/ RevokeTokenRedis(p) \/ RevokeTokenPg(p)
    \/ ReadMembers(p) \/ RevokeAllRedis(p) \/ RevokeAllPg(p)
    \/ RequiresCaptcha(p) \/ LoginLock(p) \/ CheckPassword(p) \/ ClaimOnce(p)
    \/ CountFailurePg(p) \/ CountFailureRedis(p)
    \/ CreateSessionRedis(p) \/ CreateSessionPg(p) \/ StoreTokenRedis(p) \/ StoreTokenPg(p)
    \/ ClearFailures(p)
    \/ LoginURL(p) \/ HasOIDCState(p) \/ Exchange(p) \/ ConsumeState(p) \/ FindUser(p) \/ CreateUser(p)
    \/ ReadUser(p) \/ ReadAgain(p) \/ SaveUser(p) \/ DeleteUser(p)
    \/ Answer(p) \/ Refuse(p)

\* The cleanup takes away claims of codes that are still good.
Cleanup == /\ CleanupExpired
           /\ seen' = [seen EXCEPT !.slack = [k \in Claims |->
                          @[k] + IF \E x \in pg.once : x.key = k /\ ~Alive(x.end) THEN 1 ELSE 0]]
           /\ UNCHANGED <<acvars, script, req, access, given, states>>

Init == /\ \E w \in Workloads : script = w.script /\ ticks = w.ticks /\ faults = w.faults /\ losses = w.losses
        /\ StoreInit /\ AccountsInit
        /\ req = [p \in Clients |-> Idle]
        /\ access = {} /\ given = {} /\ states = {}
        /\ seen = [out |-> {}, outTok |-> {}, missed |-> {}, spent |-> [t \in Toks |-> 0], signIns |-> [st \in States |-> 0],
                   uses |-> [k \in Claims |-> 0], slack |-> [k \in Claims |-> 0],
                   promised |-> [u \in Users |-> {}], lock |-> [k \in Keys |-> 0]]

Next == \/ \E p \in Clients : Step(p)
        \/ (Tick \/ RedisLosesAll) /\ UNCHANGED <<acvars, rqvars>>
        \/ Cleanup

Spec == Init /\ [][Next]_vars

------------------------------------------------------------------------------
Places ==    \* where a request can be
    {"idle", "ok", "denied", "failed", "refused", "revoked",
     "captcha", "lock", "user", "claim", "failPg", "failRedis", "clear",
     "sessRedis", "sessPg", "tokRedis", "tokPg",
     "verify", "resolve", "verifyAgain", "rotate", "rotateRedis",
     "getSession", "revRedis", "revPg", "signedOut", "verifyOther", "revTokenRedis", "revTokenPg",
     "members", "allRedis", "allPg", "clearReset",
     "saveState", "hasState", "exchange", "consume", "findUser", "createUser",
     "read", "first", "save", "delete"}
Requests ==
    [o : Operations \cup {NoOp}, at : Places, user : Users \cup {NoUser}, sid : Sids \cup {0}, tok : Toks \cup {0},
     new : Toks \cup {0}, end : Nat, row : Rows, keys : SUBSET Keys, sids : SUBSET Sids, toks : SUBSET Toks,
     bad : BOOLEAN, state : States \cup {0}, before : SUBSET Sids, late : BOOLEAN, spent : BOOLEAN, told : SUBSET {"shut", "mfa"},
     locked : SUBSET Keys, past : BOOLEAN, same : BOOLEAN]
Histories ==
    [out : SUBSET Sids, outTok : SUBSET Toks, missed : SUBSET Keys, spent : [Toks -> Nat], signIns : [States -> Nat],
     uses : [Claims -> Nat], slack : [Claims -> Nat], promised : [Users -> SUBSET {"shut", "mfa"}], lock : [Keys -> Nat]]

TypeOK == /\ StoreTypeOK(Claims, States) /\ AccountsTypeOK
          /\ script \in [Clients -> Seq(Operations)]
          /\ req \in [Clients -> Requests]
          /\ access \subseteq [sid : Sids, end : Nat] /\ given \subseteq Toks /\ states \subseteq States
          /\ seen \in Histories

\* A refresh token is exchanged for a new pair at most once, whichever
\* exchanges race, whichever store fails and whatever Redis forgets: the
\* rotation is one conditional transaction of Postgres.
RefreshedOnce == \A t \in Toks : seen.spent[t] <= 1

\* Once a sign-out of a session has reached both stores (RevokeSession, or
\* RevokeSubjectSessions for every session opened before), no check of a
\* token that starts later accepts it, with a store out of reach or Redis
\* emptied; but for a session past its own end, whose revocation is recorded
\* no longer than that while a late exchange gave its tokens a later one.  And
\* a refresh token that was signed out by itself is not exchanged.
SignedOutStaysOut ==
    \A p \in Clients : At(p, "ok") /\ Is(p, {"use", "refresh"}) =>
        /\ R(p).late => ~Alive(session[R(p).sid].end)
        /\ ~R(p).spent

\* The same without the exception does not hold: a session is exchanged late
\* and signed out, and is accepted again once its first end has passed.
SignedOutForGood ==
    \A p \in Clients : At(p, "ok") /\ Is(p, {"use", "refresh"}) => ~R(p).late

\* Nor is a sign-out that has reached both stores always answered so: given
\* both tokens of a session it then finds the second one revoked with it.
SignOutAnswered ==
    \A p \in Clients : At(p, "denied") /\ Is(p, {"logout"}) => R(p).sid \notin seen.out \/ R(p).late

\* Nothing is signed in, exchanged or let through for an account whose
\* disabling or deletion was answered before, and no sign-in goes without a
\* code after the confirmation of the second factor was: unless a request
\* asked for it, or one that had read the row before wrote its old copy back.
PromisesKept ==
    \A p \in Clients : At(p, "ok") =>
        /\ Is(p, {"use", "refresh", "login", "oidcCallback"}) => "shut" \notin R(p).told
        /\ Is(p, {"login"}) /\ "mfa" \in R(p).told => R(p).o.code # NoCode

\* A sign-in that starts after a failure was answered with the key locked
\* gets no further than the look at the lock while it lasts, from any
\* address; unless what Redis counts under the key has fallen behind.
LockHolds == \A p \in Clients : ~R(p).past

\* A one-time code is good once, and once more for each claim that could not
\* be made and each that was cleaned up while the code was still valid.
CodeGoodOnce == \A k \in Claims : seen.uses[k] <= 1 + seen.slack[k]

\* An OIDC state brings one sign-in, however many callbacks carry it at once.
StateGoodOnce == \A st \in States : seen.signIns[st] <= 1

\* Refresh tokens, one-time codes and states: none is good a second time.
GoodOnce == RefreshedOnce /\ CodeGoodOnce /\ StateGoodOnce
=============================================================================
