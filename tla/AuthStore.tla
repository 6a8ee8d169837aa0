------------------------------ MODULE AuthStore ------------------------------
(***************************************************************************)
(* The state that makes signed tokens revocable: the Redis store, the      *)
(* Postgres repository, and the failover store that writes both and reads  *)
(* either.  A revocation, a session and a refresh token are kept in both;  *)
(* a rotation, a count of failed logins, a claimed code and an OIDC state  *)
(* are decided by Postgres and copied to Redis at best.                    *)
(*                                                                         *)
(* One command, pipeline, statement or transaction is one step.  A call    *)
(* that fails may have been carried out or not.  Redis may lose all it     *)
(* holds.  What Redis copies of claims and OIDC states is never read while *)
(* a database is there (users live in it), so it is left out; so is        *)
(* ConsumeRefreshToken, which nothing calls.                               *)
(***************************************************************************)
EXTENDS Naturals, FiniteSets

CONSTANTS Users,        \* accounts
          Sids,         \* sessions, 1..n, numbered as they are opened
          Toks,         \* refresh tokens, 1..n, numbered as they are issued
          Keys,         \* keys login failures are counted under
          RefreshTTL, AccessTTL, Lockout, ClaimTTL, StateTTL,  \* in ticks
          LockAfter,    \* MaxFailedAttempts
          MaxNow        \* the last tick

NoUser == "none"

ASSUME AuthStoreAssumption ==
    /\ {RefreshTTL, AccessTTL, Lockout, ClaimTTL, StateTTL, LockAfter} \subseteq Nat \ {0}
    /\ MaxNow \in Nat
    /\ Sids \subseteq Nat \ {0} /\ Toks \subseteq Nat \ {0}
    /\ NoUser \notin Users

VARIABLES now,
          redisOn,      \* Redis is configured
          redis, pg,    \* the two stores
          session,      \* what is signed into the tokens of a session: user and end
          token,        \* what is signed into a refresh token: session and end
          faults, losses, ticks  \* failures, losses of Redis and ticks still to come

stvars == <<now, redisOn, redis, pg, session, token, faults, losses, ticks>>

Forever == MaxNow + RefreshTTL + Lockout + 1   \* a key whose Expire never came
Alive(end) == now < end
Later(a, b) == IF a > b THEN a ELSE b

EmptyRedis == [sess    |-> {},                        \* session payloads, and the subjects' sets
               revoked |-> [s \in Sids |-> 0],        \* end of the revoked-session key
               tok     |-> [t \in Toks |-> "none"],   \* refresh token payloads
               revT    |-> {},                        \* revoked-token keys
               fail    |-> [k \in Keys |-> [n |-> 0, end |-> 0]],
               lock    |-> [k \in Keys |-> 0]]

NoFailure == [n |-> 0, lock |-> 0, end |-> 0]
EmptyPg == [sess |-> [s \in Sids |-> [end |-> 0, revoked |-> FALSE]],   \* end 0: no row
            tok  |-> [t \in Toks |-> "none"],
            revT |-> {},
            fail |-> [k \in Keys |-> NoFailure],
            once |-> {},                              \* claims [key, end]
            oidc |-> {}]                              \* states [state, end]

Holds(d, s) == d.sess[s].end # 0

------------------------------------------------------------------------------
(* Sessions.                                                               *)

\* SAdd to a set that has run out starts a new one.
RedisCreateSession(r, s) ==
    [r EXCEPT !.sess = {x \in @ : \E y \in @ : /\ session[y].user = session[x].user
                                               /\ Alive(session[y].end)} \cup {s}]
PgCreateSession(d, s, end) ==
    [d EXCEPT !.sess[s] = [end |-> end, revoked |-> FALSE]]

\* The end of the session, from whichever store has it; otherwise a whole TTL.
\* failed: the stores that did not answer.
SessionEnd(s, failed) ==
    IF "redis" \notin failed /\ redisOn /\ s \in redis.sess /\ Alive(session[s].end) THEN session[s].end
    ELSE IF "pg" \notin failed /\ Holds(pg, s) /\ Alive(pg.sess[s].end) THEN pg.sess[s].end
    ELSE now + RefreshTTL

RedisRevokeSession(r, s, end) == [r EXCEPT !.revoked[s] = end]
PgRevokeSession(d, s, end) ==
    [d EXCEPT !.sess[s] = [end |-> Later(@.end, end), revoked |-> TRUE]]

\* What the first two reads of a logout-all find in Redis.
SubjectSessions(r, u) ==
    {s \in r.sess : session[s].user = u /\ \E x \in r.sess : session[x].user = u /\ Alive(session[x].end)}
SubjectRefreshTokens(r, u) ==
    {t \in Toks : r.tok[t] # "none" /\ session[token[t].sid].user = u}

RedisRevokeSubjectSessions(r, sids, toks, end) ==
    LET held == {t \in toks : r.tok[t] # "none" /\ Alive(token[t].end)}
    IN [r EXCEPT !.revoked = [s \in Sids |-> IF s \notin sids THEN @[s]
                                             ELSE IF s \in r.sess /\ Alive(session[s].end)
                                                  THEN session[s].end ELSE end],
                 !.revT = @ \cup held,
                 !.tok = [t \in Toks |-> IF t \in held THEN "revoked" ELSE @[t]]]
PgRevokeSubjectSessions(d, u) ==
    [d EXCEPT !.sess = [s \in Sids |-> IF session[s].user = u /\ Holds(d, s) /\ Alive(@[s].end)
                                       THEN [end |-> @[s].end, revoked |-> TRUE] ELSE @[s]],
              !.tok = [t \in Toks |-> IF /\ @[t] = "live" /\ Alive(token[t].end)
                                         /\ session[token[t].sid].user = u
                                      THEN "revoked" ELSE @[t]]]

RedisSessionRevoked(s) == redisOn /\ Alive(redis.revoked[s])
PgSessionRevoked(s) == pg.sess[s].revoked

------------------------------------------------------------------------------
(* Tokens.                                                                 *)

RedisRevokeToken(r, t) == [r EXCEPT !.revT = @ \cup {t}]
PgRevokeToken(d, t) == [d EXCEPT !.revT = @ \cup {t}]
RedisTokenRevoked(t) == redisOn /\ t \in redis.revT /\ Alive(token[t].end)
PgTokenRevoked(t) == t \in pg.revT /\ Alive(token[t].end)

RedisStoreRefreshToken(r, t) == [r EXCEPT !.tok[t] = "live"]
PgStoreRefreshToken(d, t) == [d EXCEPT !.tok[t] = "live"]

\* The WATCHed transaction: it aborts when either key has changed.
RedisRotates(r, t) == t \notin r.revT /\ r.tok[t] = "live" /\ Alive(token[t].end)
RedisRotate(r, t, n) == [r EXCEPT !.revT = @ \cup {t}, !.tok[t] = "revoked", !.tok[n] = "live"]

PgRotatesAny(d, t) == d.tok[t] # "none" /\ Alive(token[t].end)   \* mutant
\* The UPDATE ... WHERE revoked_at IS NULL and the two INSERTs of one transaction.
PgRotates(d, t) == d.tok[t] = "live" /\ Alive(token[t].end)
PgRotate(d, t, n) == [d EXCEPT !.tok[t] = "revoked", !.revT = @ \cup {t}, !.tok[n] = "live"]

TrustRedis(inRedis, inPg, failed) ==                         \* mutant
    IF "redis" \notin failed /\ redisOn THEN (IF inRedis THEN "true" ELSE "false")
    ELSE IF inPg THEN "true" ELSE "false"

\* A yes from any store is a yes; a store that failed leaves no clear no.
ReadBool(inRedis, inPg, failed) ==
    IF (inRedis /\ "redis" \notin failed) \/ (inPg /\ "pg" \notin failed) THEN "true"
    ELSE IF failed # {} THEN "error" ELSE "false"

------------------------------------------------------------------------------
(* Failed logins.                                                          *)

\* INCR; EXPIRE on the first; SET of the lock at the limit.  A failure after
\* any of the three leaves what was done: done counts the commands.
RedisIncrement(r, k, done) ==
    LET fresh == ~Alive(r.fail[k].end)
        n == IF fresh THEN 1 ELSE r.fail[k].n + 1
        end == IF ~fresh THEN r.fail[k].end ELSE IF done > 1 THEN now + Lockout ELSE Forever
    IN [r EXCEPT !.fail[k] = IF done > 0 THEN [n |-> n, end |-> end] ELSE @,
                 !.lock[k] = IF done > 2 /\ n >= LockAfter THEN now + Lockout ELSE @]

\* The upsert counts, or starts again once the row has expired; the lock is
\* set by a second statement, which a failure may leave undone.
PgIncrement(d, k, done) ==
    LET row == d.fail[k]
        n == IF Alive(row.end) THEN row.n + 1 ELSE 1
        kept == IF Alive(row.end) THEN row.lock ELSE now
        lock == IF done > 1 /\ n >= LockAfter /\ ~Alive(kept) THEN now + Lockout ELSE kept
    IN [d EXCEPT !.fail[k] = IF done > 0 THEN [n |-> n, lock |-> lock, end |-> now + Lockout] ELSE @]

\* Redis answers while it counts anything under the key; otherwise Postgres.
\* A lock key that is gone reads as a lock that has just ended.
LoginFailure(k, failed) ==
    IF redisOn /\ "redis" \notin failed /\ Alive(redis.fail[k].end)
      THEN [n |-> redis.fail[k].n, lock |-> redis.lock[k]]
      ELSE IF Alive(pg.fail[k].end) THEN [n |-> pg.fail[k].n, lock |-> pg.fail[k].lock]
                                    ELSE [n |-> 0, lock |-> 0]

RedisClear(r, ks) == [r EXCEPT !.fail = [k \in Keys |-> IF k \in ks THEN [n |-> 0, end |-> 0] ELSE @[k]],
                               !.lock = [k \in Keys |-> IF k \in ks THEN 0 ELSE @[k]]]
PgClear(d, ks) == [d EXCEPT !.fail = [k \in Keys |-> IF k \in ks THEN NoFailure ELSE @[k]]]

------------------------------------------------------------------------------
(* One-time things, decided by Postgres.                                   *)

\* INSERT ... ON CONFLICT DO NOTHING: an expired claim holds until it is cleaned up.
Claimed(d, key) == \E c \in d.once : c.key = key
PgClaim(d, key) == IF Claimed(d, key) THEN d
                   ELSE [d EXCEPT !.once = @ \cup {[key |-> key, end |-> now + ClaimTTL]}]

PgSaveState(d, st) == [d EXCEPT !.oidc = @ \cup {[state |-> st, end |-> now + StateTTL]}]
HasState(d, st) == \E x \in d.oidc : x.state = st /\ Alive(x.end)
PgConsumeState(d, st) == [d EXCEPT !.oidc = {x \in @ : ~(x.state = st /\ Alive(x.end))}]

------------------------------------------------------------------------------
(* The clock, the hourly cleanup of what has expired, and Redis losing all. *)

Tick == /\ ticks > 0
        /\ now' = now + 1
        /\ ticks' = ticks - 1
        /\ UNCHANGED <<redisOn, redis, pg, session, token, faults, losses>>

Expired(d) ==
    [d EXCEPT !.revT = {t \in @ : Alive(token[t].end)},
              !.tok = [t \in Toks |-> IF Alive(token[t].end) THEN @[t] ELSE "none"],
              !.sess = [s \in Sids |-> IF Alive(@[s].end) THEN @[s] ELSE [end |-> 0, revoked |-> FALSE]],
              !.fail = [k \in Keys |-> IF Alive(@[k].end) THEN @[k] ELSE NoFailure],
              !.once = {c \in @ : Alive(c.end)},
              !.oidc = {x \in @ : Alive(x.end)}]

CleanupExpired == /\ Expired(pg) # pg
                  /\ pg' = Expired(pg)
                  /\ UNCHANGED <<now, redisOn, redis, session, token, faults, losses, ticks>>

RedisLosesAll == /\ redisOn /\ losses > 0 /\ redis # EmptyRedis
                 /\ redis' = EmptyRedis
                 /\ losses' = losses - 1
                 /\ UNCHANGED <<now, redisOn, pg, session, token, faults, ticks>>

\* Postgres is always there: the users live in it.
ResolveAuthStateStore == redisOn \in BOOLEAN

TokenSessions == [user : Users \cup {NoUser}, end : Nat]
RefreshTokenRecords == [sid : Sids \cup {0}, end : Nat]
TokenStates == {"none", "live", "revoked"}

\* What the stores hold; claims and states are the keys one-time things have.
RedisStates ==
    [sess : SUBSET Sids, revoked : [Sids -> Nat], tok : [Toks -> TokenStates], revT : SUBSET Toks,
     fail : [Keys -> [n : Nat, end : Nat]], lock : [Keys -> Nat]]
PgStates(claims, states) ==
    [sess : [Sids -> [end : Nat, revoked : BOOLEAN]], tok : [Toks -> TokenStates], revT : SUBSET Toks,
     fail : [Keys -> [n : Nat, lock : Nat, end : Nat]],
     once : SUBSET [key : claims, end : Nat], oidc : SUBSET [state : states, end : Nat]]

StoreInit == /\ now = 0
             /\ ResolveAuthStateStore
             /\ redis = EmptyRedis
             /\ pg = EmptyPg
             /\ session = [s \in Sids |-> [user |-> NoUser, end |-> 0]]
             /\ token = [t \in Toks |-> [sid |-> 0, end |-> 0]]

StoreTypeOK(claims, states) ==
    /\ now \in Nat /\ ticks \in Nat /\ ticks + now <= MaxNow /\ redisOn \in BOOLEAN
    /\ faults \in Nat /\ losses \in Nat
    /\ session \in [Sids -> TokenSessions]
    /\ token \in [Toks -> RefreshTokenRecords]
    /\ redis \in RedisStates
    /\ pg \in PgStates(claims, states)
=============================================================================
