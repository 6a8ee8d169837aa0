------------------------------ MODULE IamProofs ------------------------------
(***************************************************************************)
(* Proofs about Iam for every set of clients, users, sessions, tokens,     *)
(* states and codes, whatever the clients ask and in whatever order, with  *)
(* any number of failed calls and of losses of Redis.                      *)
(*                                                                         *)
(* One inductive invariant carries them all.  Its parts say: which         *)
(* operations come to which place (Routes); that a token is handed out     *)
(* once it is signed (Handed) and spent once (SpentOnce); that a federated *)
(* state and a one-time code are used up once (StateOnce, ClaimedOnce);    *)
(* who opened which session (Owned); what Postgres still knows of each     *)
(* session and each revocation (Revoked); what is true of accounts and of  *)
(* the copies that requests hold of them (Promised, Copied, Unborn); and   *)
(* what the counted failures are worth next to the locks that clients were *)
(* told of (Counted).                                                      *)
(*                                                                         *)
(* The proof first says what each action does (...Effect, ...Thinks), then *)
(* from where to where it takes a request and what it leaves alone         *)
(* (Onward, Framed), and then proves the parts one by one from these.      *)
(***************************************************************************)
EXTENDS Iam, TLAPS

------------------------------------------------------------------------------
Issuing == {"login", "oidcCallback"}     \* operations that open a session

\* Which operations come to which place.
Route(r) ==
    /\ r.at = "idle" => r = Idle
    /\ r.at # "idle" => r.o \in Operations
    /\ r.at = "verify" => r.o.op \in {"use", "refresh", "logout", "logoutAll"}
    /\ r.at = "resolve" => r.o.op \in {"use", "refresh"}
    /\ r.at \in {"verifyAgain", "rotate", "rotateRedis"} => r.o.op = "refresh"
    /\ r.at = "getSession" => r.o.op \in {"logout", "logoutAll"}
    /\ r.at \in {"revRedis", "revPg", "signedOut", "verifyOther", "revTokenRedis", "revTokenPg", "revoked"} => r.o.op = "logout"
    /\ r.at \in {"members", "allRedis", "allPg"} => r.o.op \in {"logoutAll", "adminReset"}
    /\ r.at = "clearReset" => r.o.op = "adminReset"
    /\ r.at \in {"captcha", "lock", "user", "failPg", "failRedis", "refused", "clear"} => r.o.op = "login"
    /\ r.at \in {"sessRedis", "sessPg", "tokRedis", "tokPg"} => r.o.op \in Issuing
    /\ r.at \in {"hasState", "exchange", "consume", "findUser", "createUser"} => r.o.op = "oidcCallback"
    /\ r.at = "saveState" => r.o.op = "oidcLogin"
    /\ r.at = "read" => r.o.op \in Account
    /\ r.at = "claim" => r.o.op \in {"login", "confirmMFA", "disableMFA"}
    /\ r.at \in {"first", "save"} => r.o.op \in Changing
    /\ r.at = "delete" => r.o.op = "delete"
    /\ r.o.op \in {"login"} \cup Account => r.user = r.o.user

Routes == \A p \in Clients : Route(R(p))

------------------------------------------------------------------------------
(* Tokens.                                                                 *)
Spending(p, t) == Is(p, {"refresh"}) /\ R(p).tok = t /\ R(p).at \in {"rotateRedis", "ok"}

\* The tokens a request has at the places where it uses them.
Carries(r) ==
    /\ r.new # 0 => r.at \in {"rotateRedis", "tokPg", "clear", "ok", "denied", "failed"}
    /\ r.at \in {"rotateRedis", "tokPg", "clear"} => r.new # 0
    /\ r.o.op = "refresh" /\ r.at \in {"verify", "resolve", "verifyAgain", "rotate", "rotateRedis", "ok"} => r.tok # 0
    /\ r.at \in {"verifyOther", "revTokenRedis", "revTokenPg", "revoked"} => r.tok # 0
    /\ r.at = "verify" /\ r.o.op = "logout" /\ r.o.gives = "refresh" => r.tok # 0

Handed ==
    /\ \A t \in given : token[t].sid # 0
    /\ \A p \in Clients : R(p).tok # 0 => R(p).tok \in given
    /\ \A p \in Clients : R(p).new # 0 => /\ R(p).new \notin given /\ token[R(p).new].sid # 0
                                          /\ token[R(p).new].sid = R(p).sid
                                          /\ \A q \in Clients \ {p} : R(q).new # R(p).new
    /\ \A p \in Clients : Carries(R(p))

SpentOnce ==
    \A t \in Toks :
        /\ seen.spent[t] <= 1
        /\ seen.spent[t] # 0 => t \in given
        /\ pg.tok[t] = "live" => seen.spent[t] = 0 /\ \A p \in Clients : ~Spending(p, t)
        /\ \A p \in Clients : Spending(p, t) => /\ seen.spent[t] = 0
                                                /\ \A q \in Clients \ {p} : ~Spending(q, t)

------------------------------------------------------------------------------
(* OIDC states and codes.                                                  *)
Passing(p, st) == /\ Is(p, {"oidcCallback"}) /\ R(p).state = st
                  /\ R(p).at \in {"findUser", "createUser", "sessRedis", "sessPg", "tokRedis", "tokPg", "ok"}

StateOnce ==
    /\ \A p \in Clients : Is(p, {"oidcCallback"}) => R(p).state \in states
    /\ \A p \in Clients : Is(p, {"oidcLogin"}) /\ R(p).at = "ok" => R(p).state # 0
    /\ \A st \in States :
        /\ seen.signIns[st] <= 1
        /\ seen.signIns[st] # 0 => st \in states
        /\ HasState(pg, st) => seen.signIns[st] = 0 /\ \A p \in Clients : ~Passing(p, st)
        /\ \A p \in Clients : Passing(p, st) => /\ seen.signIns[st] = 0
                                                /\ \A q \in Clients \ {p} : ~Passing(q, st)

ClaimedOnce ==
    \A k \in Claims : seen.uses[k] <= seen.slack[k] + (IF Claimed(pg, k) THEN 1 ELSE 0)

------------------------------------------------------------------------------
(* Sessions.                                                               *)
Known == {a.sid : a \in access}
Opened(p) == Is(p, Issuing) /\ R(p).sid # 0
Verified == {"resolve", "verifyAgain", "rotate", "rotateRedis", "ok"}

\* The session a request has at the places where it uses it.
Bears(r) ==
    /\ r.o.op \in Issuing /\ r.sid # 0 => r.at \in {"sessPg", "tokRedis", "tokPg", "clear", "ok", "denied", "failed"}
    /\ r.at \in {"sessPg", "tokRedis", "tokPg", "clear"} => r.sid # 0
    /\ r.o.op \in {"use", "refresh", "logout", "logoutAll"} => r.sid # 0

Owned ==
    /\ \A s \in Known : session[s].end # 0
    /\ \A t \in given : token[t].sid \in Known
    /\ \A p \in Clients : ~Is(p, Issuing) /\ R(p).sid # 0 => R(p).sid \in Known
    /\ \A p \in Clients : Opened(p) => /\ R(p).sid \notin Known /\ session[R(p).sid].end # 0
                                       /\ \A q \in Clients \ {p} : Opened(q) => R(q).sid # R(p).sid
    /\ \A p \in Clients : Bears(R(p))
    /\ \A p \in Clients : R(p).before \subseteq Known

Kept(s) == Alive(session[s].end) => pg.sess[s].end >= session[s].end
Dead(s) == ~Alive(session[s].end) \/ pg.sess[s].revoked
Gone(t) == ~Alive(token[t].end) \/ t \in pg.revT

Revoked ==
    /\ \A s \in Known : Kept(s)
    /\ \A p \in Clients : Opened(p) /\ R(p).at \in {"tokRedis", "tokPg", "clear", "ok"} => Kept(R(p).sid)
    /\ seen.out \subseteq Known /\ \A s \in seen.out : Dead(s)
    /\ \A p \in Clients : R(p).at = "signedOut" => Dead(R(p).sid)
    /\ seen.outTok \subseteq given /\ \A t \in seen.outTok : Gone(t)
    /\ \A p \in Clients : R(p).at = "revoked" => Gone(R(p).tok)
    /\ \A p \in Clients : R(p).late => R(p).sid \in seen.out
    /\ \A p \in Clients : R(p).spent /\ Is(p, {"use", "refresh"}) => R(p).tok \in seen.outTok
    /\ \A p \in Clients : R(p).at \in {"verify", "resolve", "verifyAgain"} /\ R(p).tok # 0 => R(p).end = token[R(p).tok].end
    /\ \A p \in Clients : Is(p, {"use", "refresh"}) /\ R(p).at \in Verified =>
          (R(p).late => ~Alive(session[R(p).sid].end)) /\ ~R(p).spent

------------------------------------------------------------------------------
(* Accounts.                                                               *)
Serves(row) == row.there /\ row.status = Active
Says(row, what) == ("shut" \in what => ~Serves(row)) /\ ("mfa" \in what => row.mfa)

\* The account was found to be enabled; and to ask for no code, or the code was there.
Vetted(r) == \/ r.o.op \in {"use", "refresh"} /\ r.at \in Verified \ {"resolve"}
             \/ r.o.op \in Issuing /\ r.at \in {"claim", "sessRedis", "sessPg", "tokRedis", "tokPg", "clear", "ok"}
Coded(r) == r.o.op = "login" /\ r.at \in {"claim", "sessRedis", "sessPg", "tokRedis", "tokPg", "clear", "ok"}
\* The request has read the row it is going to change.
ReadBy(r) == r.o.op \in Account /\ r.at \notin {"read", "denied"}

Honest(us, id, r) ==
    /\ IF r.user = NoUser THEN r.told = {} ELSE Says(us[r.user], r.told)
    /\ r.o.op = "oidcCallback" /\ r.user # NoUser => r.user = id
    /\ Vetted(r) => "shut" \notin r.told
    /\ Coded(r) /\ "mfa" \in r.told => r.o.code # NoCode
Fresh(us, r) == ReadBy(r) /\ r.same /\ r.at \notin {"ok", "failed"} => r.row = us[r.user] /\ r.row.there

Promised == /\ \A u \in Users : Says(users[u], seen.promised[u])
            /\ \A p \in Clients : Honest(users, identity, R(p))
Copied == \A p \in Clients : Fresh(users, R(p))
Unborn == identity = NoUser => \A u \in Users \ {Local} :
    /\ ~users[u].there /\ seen.promised[u] = {}
    /\ \A p \in Clients : R(p).user = u => ~ReadBy(R(p)) /\ R(p).told = {}

------------------------------------------------------------------------------
(* Locks.                                                                  *)
\* What Postgres counts under a key, next to the lock clients were told of;
\* and what Redis does, as long as it has missed nothing.
PgCount(row, told, at) ==
    /\ row.end <= at + Lockout /\ row.lock <= row.end
    /\ at < row.lock => row.n >= LockAfter
    /\ at < told => row.lock >= told
RedisCount(row, lock, at) == row.end <= at + Lockout /\ (row.n >= LockAfter => lock >= row.end)

Counted == \A k \in Keys : /\ PgCount(pg.fail[k], seen.lock[k], now)
                           /\ k \notin seen.missed => RedisCount(redis.fail[k], redis.lock[k], now)

IInv == TypeOK /\ Routes /\ Handed /\ SpentOnce /\ StateOnce /\ ClaimedOnce /\ Owned /\ Revoked
        /\ Promised /\ Copied /\ Unborn /\ Counted /\ LockHolds

------------------------------------------------------------------------------
(* What a step does to the requests: the shape of each way to go on, and the *)
(* effects of the thinking steps.                                          *)

(* What a step does to the requests.                                       *)

Alone(p) == \A q \in Clients : q # p => req'[q] = req[q]
\* What is fixed when the request starts, and what it names.
Asked(r, s) == /\ s.o = r.o /\ s.before = r.before /\ s.late = r.late /\ s.spent = r.spent
               /\ s.told = r.told /\ s.locked = r.locked
Held(r, s) == /\ Asked(r, s) /\ s.user = r.user /\ s.sid = r.sid /\ s.tok = r.tok /\ s.new = r.new
              /\ s.state = r.state
Rest(r, s) == s.end = r.end /\ s.row = r.row /\ s.past = r.past /\ s.same = r.same
Typed == req \in [Clients -> Requests]
Went(p, x) == Typed' /\ Alone(p) /\ Held(req[p], req'[p]) /\ req'[p].at = x

\* A request goes where Go says, and no other one moves.
LEMMA GoTyped ==
  ASSUME Typed, NEW p \in Clients, NEW r \in Requests, Go(p, r)
  PROVE  Typed' /\ Alone(p) /\ req'[p] = r
BY DEF Go, Alone, Typed

\* The request at another place is still one, and keeps what it holds.
LEMMA ToTyped ==
  ASSUME Typed, NEW p \in Clients, NEW x \in Places
  PROVE  To(p, x) \in Requests /\ To(p, x).at = x /\ Held(req[p], To(p, x)) /\ Rest(req[p], To(p, x))
BY DEF To, Requests, Held, Asked, Rest, Typed

\* Going on with nothing but the place changed.
LEMMA GoTo ==
  ASSUME Typed, NEW p \in Clients, NEW x \in Places, Go(p, To(p, x))
  PROVE  Went(p, x) /\ Rest(req[p], req'[p])
BY ToTyped, GoTyped DEF Went

\* Going on with a failure noted.
LEMMA GoBad ==
  ASSUME Typed, NEW p \in Clients, NEW x \in Places, 
         Go(p, [To(p, x) EXCEPT !.bad = TRUE])
  PROVE  Went(p, x) /\ Rest(req[p], req'[p])
<1> DEFINE s(r) == [r EXCEPT !.bad = TRUE]
<1>1. ASSUME NEW r \in Requests
      PROVE  s(r) \in Requests /\ s(r).at = r.at /\ Held(r, s(r)) /\ Rest(r, s(r))
    BY DEF Requests, Held, Asked, Rest
<1> HIDE DEF s
<1>2. /\ s(To(p, x)) \in Requests 
      /\ s(To(p, x)).at = x /\ Held(req[p], s(To(p, x))) /\ Rest(req[p], s(To(p, x)))
    BY <1>1, ToTyped, SMTT(30) DEF Held, Asked, Rest
<1>3. Go(p, s(To(p, x)))  BY DEF s
<1> QED  BY <1>2, <1>3, GoTyped DEF Went

\* Going on with the keys to count under.
LEMMA GoKeys ==
  ASSUME Typed, NEW p \in Clients, NEW x \in Places, NEW ks \in SUBSET Keys, 
         Go(p, [To(p, x) EXCEPT !.keys = ks])
  PROVE  Went(p, x) /\ Rest(req[p], req'[p])
<1> DEFINE s(r) == [r EXCEPT !.keys = ks]
<1>1. ASSUME NEW r \in Requests
      PROVE  s(r) \in Requests /\ s(r).at = r.at /\ Held(r, s(r)) /\ Rest(r, s(r))
    BY DEF Requests, Held, Asked, Rest
<1> HIDE DEF s
<1>2. /\ s(To(p, x)) \in Requests 
      /\ s(To(p, x)).at = x /\ Held(req[p], s(To(p, x))) /\ Rest(req[p], s(To(p, x)))
    BY <1>1, ToTyped, SMTT(30) DEF Held, Asked, Rest
<1>3. Go(p, s(To(p, x)))  BY DEF s
<1> QED  BY <1>2, <1>3, GoTyped DEF Went

\* Going on with the sessions and tokens of a user.
LEMMA GoLists ==
  ASSUME Typed, NEW p \in Clients, NEW x \in Places, NEW ss \in SUBSET Sids, NEW ts \in SUBSET Toks, 
         Go(p, [To(p, x) EXCEPT !.sids = ss, !.toks = ts])
  PROVE  Went(p, x) /\ Rest(req[p], req'[p])
<1> DEFINE s(r) == [r EXCEPT !.sids = ss, !.toks = ts]
<1>1. ASSUME NEW r \in Requests
      PROVE  s(r) \in Requests /\ s(r).at = r.at /\ Held(r, s(r)) /\ Rest(r, s(r))
    BY DEF Requests, Held, Asked, Rest
<1> HIDE DEF s
<1>2. /\ s(To(p, x)) \in Requests 
      /\ s(To(p, x)).at = x /\ Held(req[p], s(To(p, x))) /\ Rest(req[p], s(To(p, x)))
    BY <1>1, ToTyped, SMTT(30) DEF Held, Asked, Rest
<1>3. Go(p, s(To(p, x)))  BY DEF s
<1> QED  BY <1>2, <1>3, GoTyped DEF Went

\* Going on with the expiry that was read.
LEMMA GoEnd ==
  ASSUME Typed, NEW p \in Clients, NEW x \in Places, NEW e \in Nat, 
         Go(p, [To(p, x) EXCEPT !.end = e])
  PROVE  Went(p, x) /\ req'[p].end = e /\ req'[p].past = req[p].past
<1> DEFINE s(r) == [r EXCEPT !.end = e]
<1>1. ASSUME NEW r \in Requests
      PROVE  s(r) \in Requests /\ s(r).at = r.at /\ Held(r, s(r)) /\ s(r).end = e /\ s(r).past = r.past
    BY DEF Requests, Held, Asked, Rest
<1> HIDE DEF s
<1>2. /\ s(To(p, x)) \in Requests 
      /\ s(To(p, x)).at = x /\ Held(req[p], s(To(p, x))) /\ s(To(p, x)).end = e /\ s(To(p, x)).past = req[p].past
    BY <1>1, ToTyped, SMTT(30) DEF Held, Asked, Rest
<1>3. Go(p, s(To(p, x)))  BY DEF s
<1> QED  BY <1>2, <1>3, GoTyped DEF Went

\* Going on with what the lock said.
LEMMA GoPast ==
  ASSUME Typed, NEW p \in Clients, NEW x \in Places, NEW b \in BOOLEAN, 
         Go(p, [To(p, x) EXCEPT !.past = b])
  PROVE  Went(p, x) /\ req'[p].past = b
<1> DEFINE s(r) == [r EXCEPT !.past = b]
<1>1. ASSUME NEW r \in Requests
      PROVE  s(r) \in Requests /\ s(r).at = r.at /\ Held(r, s(r)) /\ s(r).past = b
    BY DEF Requests, Held, Asked, Rest
<1> HIDE DEF s
<1>2. /\ s(To(p, x)) \in Requests 
      /\ s(To(p, x)).at = x /\ Held(req[p], s(To(p, x))) /\ s(To(p, x)).past = b
    BY <1>1, ToTyped, SMTT(30) DEF Held, Asked, Rest
<1>3. Go(p, s(To(p, x)))  BY DEF s
<1> QED  BY <1>2, <1>3, GoTyped DEF Went

\* Going on with a changed copy of the row.
LEMMA GoRow ==
  ASSUME Typed, NEW p \in Clients, NEW x \in Places, NEW w \in Rows, 
         Go(p, [To(p, x) EXCEPT !.row = w])
  PROVE  Went(p, x) /\ req'[p].past = req[p].past
<1> DEFINE s(r) == [r EXCEPT !.row = w]
<1>1. ASSUME NEW r \in Requests
      PROVE  s(r) \in Requests /\ s(r).at = r.at /\ Held(r, s(r)) /\ s(r).past = r.past
    BY DEF Requests, Held, Asked, Rest
<1> HIDE DEF s
<1>2. /\ s(To(p, x)) \in Requests 
      /\ s(To(p, x)).at = x /\ Held(req[p], s(To(p, x))) /\ s(To(p, x)).past = req[p].past
    BY <1>1, ToTyped, SMTT(30) DEF Held, Asked, Rest
<1>3. Go(p, s(To(p, x)))  BY DEF s
<1> QED  BY <1>2, <1>3, GoTyped DEF Went

\* Going on with the row as it was just read.
LEMMA GoRead ==
  ASSUME Typed, NEW p \in Clients, NEW x \in Places, NEW w \in Rows, NEW e \in Nat, 
         Go(p, [To(p, x) EXCEPT !.row = w, !.same = TRUE, !.end = e])
  PROVE  Went(p, x) /\ req'[p].past = req[p].past /\ req'[p].row = w /\ req'[p].same
<1> DEFINE s(r) == [r EXCEPT !.row = w, !.same = TRUE, !.end = e]
<1>1. ASSUME NEW r \in Requests
      PROVE  s(r) \in Requests /\ s(r).at = r.at /\ Held(r, s(r)) /\ s(r).past = r.past /\ s(r).row = w /\ s(r).same
    BY DEF Requests, Held, Asked, Rest
<1> HIDE DEF s
<1>2. /\ s(To(p, x)) \in Requests 
      /\ s(To(p, x)).at = x /\ Held(req[p], s(To(p, x))) /\ s(To(p, x)).past = req[p].past /\ s(To(p, x)).row = w /\ s(To(p, x)).same
    BY <1>1, ToTyped, SMTT(30) DEF Held, Asked, Rest
<1>3. Go(p, s(To(p, x)))  BY DEF s
<1> QED  BY <1>2, <1>3, GoTyped DEF Went

\* Going on with a session.
LEMMA GoSid ==
  ASSUME Typed, NEW p \in Clients, NEW x \in Places, NEW i \in Sids, 
         Go(p, [To(p, x) EXCEPT !.sid = i])
  PROVE  Typed' /\ Alone(p) /\ req'[p].at = x /\ Asked(req[p], req'[p]) /\ req'[p].past = req[p].past
         /\ req'[p].sid = i /\ req'[p].user = req[p].user /\ req'[p].tok = req[p].tok /\ req'[p].new = req[p].new /\ req'[p].state = req[p].state
<1> DEFINE s(r) == [r EXCEPT !.sid = i]
<1>1. ASSUME NEW r \in Requests
      PROVE  s(r) \in Requests /\ TRUE /\ s(r).at = r.at /\ Asked(r, s(r)) /\ s(r).past = r.past
         /\ s(r).sid = i /\ s(r).user = r.user /\ s(r).tok = r.tok /\ s(r).new = r.new /\ s(r).state = r.state
    BY DEF Requests, Held, Asked, Rest
<1> HIDE DEF s
<1>2. /\ s(To(p, x)) \in Requests 
      /\ TRUE /\ s(To(p, x)).at = x /\ Asked(req[p], s(To(p, x))) /\ s(To(p, x)).past = req[p].past
         /\ s(To(p, x)).sid = i /\ s(To(p, x)).user = req[p].user /\ s(To(p, x)).tok = req[p].tok /\ s(To(p, x)).new = req[p].new /\ s(To(p, x)).state = req[p].state
    BY <1>1, ToTyped, SMTT(30) DEF Held, Asked, Rest
<1>3. Go(p, s(To(p, x)))  BY DEF s
<1> QED  BY <1>2, <1>3, GoTyped DEF Went

WithSidBad(r, i) == [r EXCEPT !.sid = i, !.bad = TRUE]
\* Going on with a session that Redis did not take.
LEMMA GoSidBad ==
  ASSUME Typed, NEW p \in Clients, NEW x \in Places, NEW i \in Sids, 
         Go(p, WithSidBad(To(p, x), i))
  PROVE  Typed' /\ Alone(p) /\ req'[p].at = x /\ Asked(req[p], req'[p]) /\ req'[p].past = req[p].past
         /\ req'[p].sid = i /\ req'[p].user = req[p].user /\ req'[p].tok = req[p].tok /\ req'[p].new = req[p].new /\ req'[p].state = req[p].state
<1> DEFINE s(r) == WithSidBad(r, i)
<1>1. ASSUME NEW r \in Requests
      PROVE  s(r) \in Requests /\ TRUE /\ s(r).at = r.at /\ Asked(r, s(r)) /\ s(r).past = r.past
         /\ s(r).sid = i /\ s(r).user = r.user /\ s(r).tok = r.tok /\ s(r).new = r.new /\ s(r).state = r.state
    BY DEF Requests, Held, Asked, Rest, WithSidBad
<1> HIDE DEF s
<1>2. /\ s(To(p, x)) \in Requests 
      /\ TRUE /\ s(To(p, x)).at = x /\ Asked(req[p], s(To(p, x))) /\ s(To(p, x)).past = req[p].past
         /\ s(To(p, x)).sid = i /\ s(To(p, x)).user = req[p].user /\ s(To(p, x)).tok = req[p].tok /\ s(To(p, x)).new = req[p].new /\ s(To(p, x)).state = req[p].state
    BY <1>1, ToTyped, SMTT(30) DEF Held, Asked, Rest
<1>3. Go(p, s(To(p, x)))  BY DEF s
<1> QED  BY <1>2, <1>3, GoTyped DEF Went

WithTok(r, t, e) == [r EXCEPT !.tok = t, !.end = e]
\* Going on with a token that the client sent.
LEMMA GoTok ==
  ASSUME Typed, NEW p \in Clients, NEW x \in Places, NEW t \in Toks, NEW e \in Nat, 
         Go(p, WithTok(To(p, x), t, e))
  PROVE  Typed' /\ Alone(p) /\ req'[p].at = x /\ Asked(req[p], req'[p]) /\ req'[p].past = req[p].past
         /\ req'[p].tok = t /\ req'[p].end = e /\ req'[p].user = req[p].user /\ req'[p].sid = req[p].sid /\ req'[p].new = req[p].new /\ req'[p].state = req[p].state
<1> DEFINE s(r) == WithTok(r, t, e)
<1>1. ASSUME NEW r \in Requests
      PROVE  s(r) \in Requests /\ TRUE /\ s(r).at = r.at /\ Asked(r, s(r)) /\ s(r).past = r.past
         /\ s(r).tok = t /\ s(r).end = e /\ s(r).user = r.user /\ s(r).sid = r.sid /\ s(r).new = r.new /\ s(r).state = r.state
    BY DEF Requests, Held, Asked, Rest, WithTok
<1> HIDE DEF s
<1>2. /\ s(To(p, x)) \in Requests 
      /\ TRUE /\ s(To(p, x)).at = x /\ Asked(req[p], s(To(p, x))) /\ s(To(p, x)).past = req[p].past
         /\ s(To(p, x)).tok = t /\ s(To(p, x)).end = e /\ s(To(p, x)).user = req[p].user /\ s(To(p, x)).sid = req[p].sid /\ s(To(p, x)).new = req[p].new /\ s(To(p, x)).state = req[p].state
    BY <1>1, ToTyped, SMTT(30) DEF Held, Asked, Rest
<1>3. Go(p, s(To(p, x)))  BY DEF s
<1> QED  BY <1>2, <1>3, GoTyped DEF Went

WithNew(r, n, e) == [r EXCEPT !.new = n, !.end = e]
\* Going on with a new token.
LEMMA GoNew ==
  ASSUME Typed, NEW p \in Clients, NEW x \in Places, NEW n \in Toks, NEW e \in Nat, 
         Go(p, WithNew(To(p, x), n, e))
  PROVE  Typed' /\ Alone(p) /\ req'[p].at = x /\ Asked(req[p], req'[p]) /\ req'[p].past = req[p].past
         /\ req'[p].new = n /\ req'[p].user = req[p].user /\ req'[p].sid = req[p].sid /\ req'[p].tok = req[p].tok /\ req'[p].state = req[p].state
<1> DEFINE s(r) == WithNew(r, n, e)
<1>1. ASSUME NEW r \in Requests
      PROVE  s(r) \in Requests /\ TRUE /\ s(r).at = r.at /\ Asked(r, s(r)) /\ s(r).past = r.past
         /\ s(r).new = n /\ s(r).user = r.user /\ s(r).sid = r.sid /\ s(r).tok = r.tok /\ s(r).state = r.state
    BY DEF Requests, Held, Asked, Rest, WithNew
<1> HIDE DEF s
<1>2. /\ s(To(p, x)) \in Requests 
      /\ TRUE /\ s(To(p, x)).at = x /\ Asked(req[p], s(To(p, x))) /\ s(To(p, x)).past = req[p].past
         /\ s(To(p, x)).new = n /\ s(To(p, x)).user = req[p].user /\ s(To(p, x)).sid = req[p].sid /\ s(To(p, x)).tok = req[p].tok /\ s(To(p, x)).state = req[p].state
    BY <1>1, ToTyped, SMTT(30) DEF Held, Asked, Rest
<1>3. Go(p, s(To(p, x)))  BY DEF s
<1> QED  BY <1>2, <1>3, GoTyped DEF Went

WithNewBad(r, n) == [r EXCEPT !.new = n, !.bad = TRUE]
\* Going on with a new token that Redis did not take.
LEMMA GoNewBad ==
  ASSUME Typed, NEW p \in Clients, NEW x \in Places, NEW n \in Toks, 
         Go(p, WithNewBad(To(p, x), n))
  PROVE  Typed' /\ Alone(p) /\ req'[p].at = x /\ Asked(req[p], req'[p]) /\ req'[p].past = req[p].past
         /\ req'[p].new = n /\ req'[p].user = req[p].user /\ req'[p].sid = req[p].sid /\ req'[p].tok = req[p].tok /\ req'[p].state = req[p].state
<1> DEFINE s(r) == WithNewBad(r, n)
<1>1. ASSUME NEW r \in Requests
      PROVE  s(r) \in Requests /\ TRUE /\ s(r).at = r.at /\ Asked(r, s(r)) /\ s(r).past = r.past
         /\ s(r).new = n /\ s(r).user = r.user /\ s(r).sid = r.sid /\ s(r).tok = r.tok /\ s(r).state = r.state
    BY DEF Requests, Held, Asked, Rest, WithNewBad
<1> HIDE DEF s
<1>2. /\ s(To(p, x)) \in Requests 
      /\ TRUE /\ s(To(p, x)).at = x /\ Asked(req[p], s(To(p, x))) /\ s(To(p, x)).past = req[p].past
         /\ s(To(p, x)).new = n /\ s(To(p, x)).user = req[p].user /\ s(To(p, x)).sid = req[p].sid /\ s(To(p, x)).tok = req[p].tok /\ s(To(p, x)).state = req[p].state
    BY <1>1, ToTyped, SMTT(30) DEF Held, Asked, Rest
<1>3. Go(p, s(To(p, x)))  BY DEF s
<1> QED  BY <1>2, <1>3, GoTyped DEF Went

\* Going on with a federated state.
LEMMA GoState ==
  ASSUME Typed, NEW p \in Clients, NEW x \in Places, NEW st \in States, 
         Go(p, [To(p, x) EXCEPT !.state = st])
  PROVE  Typed' /\ Alone(p) /\ req'[p].at = x /\ Asked(req[p], req'[p]) /\ req'[p].past = req[p].past
         /\ req'[p].state = st /\ req'[p].user = req[p].user /\ req'[p].sid = req[p].sid /\ req'[p].tok = req[p].tok /\ req'[p].new = req[p].new
<1> DEFINE s(r) == [r EXCEPT !.state = st]
<1>1. ASSUME NEW r \in Requests
      PROVE  s(r) \in Requests /\ TRUE /\ s(r).at = r.at /\ Asked(r, s(r)) /\ s(r).past = r.past
         /\ s(r).state = st /\ s(r).user = r.user /\ s(r).sid = r.sid /\ s(r).tok = r.tok /\ s(r).new = r.new
    BY DEF Requests, Held, Asked, Rest
<1> HIDE DEF s
<1>2. /\ s(To(p, x)) \in Requests 
      /\ TRUE /\ s(To(p, x)).at = x /\ Asked(req[p], s(To(p, x))) /\ s(To(p, x)).past = req[p].past
         /\ s(To(p, x)).state = st /\ s(To(p, x)).user = req[p].user /\ s(To(p, x)).sid = req[p].sid /\ s(To(p, x)).tok = req[p].tok /\ s(To(p, x)).new = req[p].new
    BY <1>1, ToTyped, SMTT(30) DEF Held, Asked, Rest
<1>3. Go(p, s(To(p, x)))  BY DEF s
<1> QED  BY <1>2, <1>3, GoTyped DEF Went

\* Going on with the user who was found.
LEMMA GoUser ==
  ASSUME Typed, NEW p \in Clients, NEW x \in Places, NEW u \in Users, 
         Go(p, [To(p, x) EXCEPT !.user = u])
  PROVE  Typed' /\ Alone(p) /\ req'[p].at = x /\ Asked(req[p], req'[p]) /\ req'[p].past = req[p].past
         /\ req'[p].user = u /\ req'[p].sid = req[p].sid /\ req'[p].tok = req[p].tok /\ req'[p].new = req[p].new /\ req'[p].state = req[p].state
<1> DEFINE s(r) == [r EXCEPT !.user = u]
<1>1. ASSUME NEW r \in Requests
      PROVE  s(r) \in Requests /\ TRUE /\ s(r).at = r.at /\ Asked(r, s(r)) /\ s(r).past = r.past
         /\ s(r).user = u /\ s(r).sid = r.sid /\ s(r).tok = r.tok /\ s(r).new = r.new /\ s(r).state = r.state
    BY DEF Requests, Held, Asked, Rest
<1> HIDE DEF s
<1>2. /\ s(To(p, x)) \in Requests 
      /\ TRUE /\ s(To(p, x)).at = x /\ Asked(req[p], s(To(p, x))) /\ s(To(p, x)).past = req[p].past
         /\ s(To(p, x)).user = u /\ s(To(p, x)).sid = req[p].sid /\ s(To(p, x)).tok = req[p].tok /\ s(To(p, x)).new = req[p].new /\ s(To(p, x)).state = req[p].state
    BY <1>1, ToTyped, SMTT(30) DEF Held, Asked, Rest
<1>3. Go(p, s(To(p, x)))  BY DEF s
<1> QED  BY <1>2, <1>3, GoTyped DEF Went

------------------------------------------------------------------------------
(* Steps that only think: they move one request on, and copy to Redis at    *)
(* best what no count of failed logins is about.                           *)

Lets(r) == \E failed \in SUBSET {"redis", "pg"} : Accepts(r, failed)

Hop(p, r, s) ==
    \/ s.at = "denied"
    \/ /\ Lets(r) /\ s.end = r.end
       /\ \/ r.at = "verify" /\ s.at = "resolve" /\ r.o.op \in {"use", "refresh"}
          \/ r.at = "verify" /\ s.at = "revTokenRedis" /\ r.o.op = "logout" /\ r.o.gives = "refresh"
          \/ r.at = "verify" /\ s.at = "getSession" /\ r.o.op \notin {"use", "refresh"}
          \/ r.at = "verifyAgain" /\ s.at = "rotate"
          \/ r.at = "verifyOther" /\ s.at = "revTokenRedis"
    \/ /\ r.at = "resolve" /\ Enabled(r.user) /\ s.end = r.end
       /\ s.at = IF r.o.op = "use" THEN "ok" ELSE "verifyAgain"
    \/ r.at = "rotateRedis" /\ s.at = "ok"
    \/ r.at = "getSession" /\ s.at = IF r.o.op = "logoutAll" THEN "members" ELSE "revRedis"
    \/ r.at = "revRedis" /\ s.at = "revPg"
    \/ r.at = "revTokenRedis" /\ s.at = "revTokenPg"
    \/ /\ (r.at = "members" /\ s.at \in {"allRedis", "allPg"}) \/ (r.at = "allRedis" /\ s.at = "allPg")
       /\ s.row = r.row /\ s.same = r.same
    \/ r.at = "captcha" /\ s.at = "lock"
    \/ r.at = "lock" /\ s.at = "user"
    \/ r.at = "user" /\ s.at = "failPg"
    \/ /\ r.at = "user" /\ s.at \in {"sessRedis", "claim"}
       /\ Enabled(r.o.user) /\ (users[r.o.user].mfa => r.o.code # NoCode)
    \/ r.at = "hasState" /\ s.at = "exchange"
    \/ r.at = "exchange" /\ s.at = "consume"
    \/ /\ r.at = "read" /\ s.row = users[r.user] /\ s.row.there
       /\ \/ s.at = "claim" /\ r.o.op \in {"confirmMFA", "disableMFA"}
          \/ s.at = "delete" /\ r.o.op = "delete"
          \/ s.at = "members" /\ r.o.op = "adminReset"
          \/ s.at = "first" /\ r.o.op \notin {"confirmMFA", "disableMFA", "delete", "adminReset"}
    \/ r.at = "first" /\ s.at = "save" /\ s.row = r.row /\ s.same = r.same

\* What Redis copies of sessions and tokens leaves its counts alone.
SameCounts(r, s) == s \in RedisStates /\ s.fail = r.fail /\ s.lock = r.lock
World == <<now, redisOn, pg, session, token, access, given, states, users, identity, script, seen>>
Thinks(p) == /\ Typed' /\ Alone(p) /\ Held(req[p], req'[p]) /\ Hop(p, req[p], req'[p])
             /\ UNCHANGED World /\ SameCounts(redis, redis')

\* Where VerifyToken leads, from each place it is called at.
LEMMA AfterVerifyIs ==
  ASSUME Routes, NEW p \in Clients, R(p).at \in {"verify", "verifyAgain", "verifyOther"}
  PROVE  \/ R(p).at = "verify" /\ AfterVerify(p) = "resolve" /\ R(p).o.op \in {"use", "refresh"}
         \/ R(p).at = "verify" /\ AfterVerify(p) = "revTokenRedis" /\ R(p).o.op = "logout" /\ R(p).o.gives = "refresh"
         \/ R(p).at = "verify" /\ AfterVerify(p) = "getSession" /\ R(p).o.op \notin {"use", "refresh"}
         \/ R(p).at = "verifyAgain" /\ AfterVerify(p) = "rotate"
         \/ R(p).at = "verifyOther" /\ AfterVerify(p) = "revTokenRedis"
BY DEF AfterVerify, At, Is, R, Routes, Route

\* Verify only thinks.
LEMMA VerifyThinks == ASSUME TypeOK, Routes, NEW p \in Clients, VerifyToken(p)
                      PROVE  Thinks(p) /\ req'[p].past = req[p].past
<1> USE DEF World
<1>0. Typed /\ redis \in RedisStates  BY DEF TypeOK, StoreTypeOK, Typed
<1>1. PICK failed \in SUBSET {"redis", "pg"} :
         Go(p, To(p, IF Accepts(R(p), failed) THEN AfterVerify(p) ELSE "denied"))
    BY DEF VerifyToken
<1>2. R(p).at \in {"verify", "verifyAgain", "verifyOther"}
    BY DEF VerifyToken, At, R
<1>3. UNCHANGED World /\ UNCHANGED redis
    BY DEF VerifyToken, Unmoved, SameStore, SameHands
<1>4. CASE Accepts(R(p), failed)
    <2>1. AfterVerify(p) \in Places  BY <1>2, AfterVerifyIs DEF Places
    <2>2. Went(p, AfterVerify(p)) /\ Rest(req[p], req'[p])  BY <1>0, <1>1, <1>4, <2>1, GoTo
    <2>3. Lets(req[p])  BY <1>4 DEF Lets, R
    <2>4. Hop(p, req[p], req'[p])  BY <1>2, <2>2, <2>3, AfterVerifyIs DEF Hop, Went, Rest, R
    <2> QED  BY <1>0, <1>3, <2>2, <2>4 DEF Thinks, Went, Rest, SameCounts
<1>5. CASE ~Accepts(R(p), failed)
    <2>1. Went(p, "denied") /\ Rest(req[p], req'[p])  BY <1>0, <1>1, <1>5, GoTo DEF Places
    <2> QED  BY <1>0, <1>3, <2>1 DEF Thinks, Went, Rest, Hop, SameCounts
<1> QED  BY <1>4, <1>5

\* Resolve only thinks.
LEMMA ResolveThinks == ASSUME TypeOK, NEW p \in Clients, Resolve(p)
                       PROVE  Thinks(p) /\ req'[p].past = req[p].past
<1>0. Typed /\ redis \in RedisStates  BY DEF TypeOK, StoreTypeOK, Typed
<1>1. UNCHANGED World /\ UNCHANGED redis /\ R(p).at = "resolve"
    BY DEF Resolve, Unmoved, SameStore, SameHands, World, At, R
<1> DEFINE x == IF ~Enabled(R(p).user) THEN "denied" ELSE IF Is(p, {"use"}) THEN "ok" ELSE "verifyAgain"
<1>2. Go(p, To(p, x))  BY DEF Resolve
<1>3. x \in Places  BY DEF Places
<1>4. Hop(p, req[p], req'[p])
    <2>1. Went(p, x) /\ Rest(req[p], req'[p])
        <3> HIDE DEF x
        <3> QED  BY <1>0, <1>2, <1>3, GoTo
    <2> QED  BY <1>1, <2>1 DEF Hop, Went, Rest, R, Is
<1> HIDE DEF x
<1> QED  BY <1>0, <1>1, <1>2, <1>3, <1>4, GoTo DEF Thinks, Went, Rest, SameCounts

\* An expiry, whichever store it is read from, is a time.
LEMMA SessionEndTyped ==
  ASSUME TypeOK, NEW s \in Sids, NEW failed
  PROVE  SessionEnd(s, failed) \in Nat
<1>1. /\ now + RefreshTTL \in Nat /\ redis.sess \subseteq Sids
      /\ \A x \in Sids : session[x].end \in Nat /\ pg.sess[x].end \in Nat
    BY AuthStoreAssumption DEF TypeOK, StoreTypeOK, RedisStates, TokenSessions, PgStates
<1> QED  BY <1>1 DEF SessionEnd, Holds

\* What a request has at the places where it is used.
LEMMA Needs ==
  ASSUME Routes, Handed, Owned, NEW p \in Clients
  PROVE  /\ R(p).at \in {"verify", "resolve", "verifyAgain", "rotate", "rotateRedis", "getSession", "revRedis", "revPg", "signedOut",
                          "sessPg", "tokRedis", "tokPg", "clear"} => R(p).sid # 0
         /\ R(p).at \in {"rotate", "rotateRedis", "verifyOther", "revTokenRedis", "revTokenPg", "revoked"} => R(p).tok # 0
         /\ R(p).at \in {"rotateRedis", "tokPg", "clear"} => R(p).new # 0
         /\ R(p).o.op = "refresh" /\ R(p).at = "ok" => R(p).tok # 0
<1>1. Route(R(p)) /\ Carries(R(p)) /\ Bears(R(p))  BY DEF Routes, Handed, Owned
<1> DEFINE r == R(p)
<1> HIDE DEF r
<1>2. Route(r) /\ Carries(r) /\ Bears(r)  BY <1>1 DEF r
<1>3. /\ r.at \in {"verify", "resolve", "verifyAgain", "rotate", "rotateRedis", "getSession", "revRedis", "revPg", "signedOut",
                    "sessPg", "tokRedis", "tokPg", "clear"} => r.sid # 0
      /\ r.at \in {"rotate", "rotateRedis", "verifyOther", "revTokenRedis", "revTokenPg", "revoked"} => r.tok # 0
      /\ r.at \in {"rotateRedis", "tokPg", "clear"} => r.new # 0
      /\ r.o.op = "refresh" /\ r.at = "ok" => r.tok # 0
    BY <1>2 DEF Route, Carries, Bears
<1> QED  BY <1>3 DEF r

\* GetSession only thinks.
LEMMA GetSessionThinks == ASSUME TypeOK, Routes, Handed, Owned, NEW p \in Clients, GetSession(p)
                          PROVE  Thinks(p) /\ req'[p].past = req[p].past
<1>1. UNCHANGED World /\ UNCHANGED redis /\ R(p).at = "getSession"
    BY DEF GetSession, Unmoved, SameStore, SameHands, World, At, R
<1> DEFINE x == IF Is(p, {"logoutAll"}) THEN "members" ELSE "revRedis"
<1>2. PICK failed \in SUBSET {"redis", "pg"} : Go(p, [To(p, x) EXCEPT !.end = SessionEnd(R(p).sid, failed)])
    BY DEF GetSession
<1>3. x \in Places  BY DEF Places
<1>4. Typed /\ redis \in RedisStates  BY DEF TypeOK, StoreTypeOK, Typed
<1>5. SessionEnd(R(p).sid, failed) \in Nat
    <2>1. R(p).sid \in Sids  BY <1>1, <1>4, Needs DEF Typed, R, Requests
    <2> QED  BY <2>1, SessionEndTyped
<1>6. Went(p, x) /\ req'[p].past = req[p].past
    <2> HIDE DEF x
    <2> QED  BY <1>2, <1>3, <1>4, <1>5, GoEnd
<1>7. Hop(p, req[p], req'[p])  BY <1>1, <1>6 DEF Hop, Went, R, Is
<1> HIDE DEF x
<1> QED  BY <1>1, <1>4, <1>6, <1>7 DEF Thinks, Went, SameCounts

------------------------------------------------------------------------------
(* Redis keeps counts and claims through every change of its copies of     *)
(* sessions and tokens.                                                    *)

\* The writes of sessions and tokens leave the counts in Redis alone.
LEMMA RedisCopies ==
  ASSUME NEW r \in RedisStates
  PROVE  /\ \A s \in Sids : SameCounts(r, RedisCreateSession(r, s))
         /\ \A s \in Sids, e \in Nat : SameCounts(r, RedisRevokeSession(r, s, e))
         /\ \A t \in Toks : SameCounts(r, RedisRevokeToken(r, t)) /\ SameCounts(r, RedisStoreRefreshToken(r, t))
         /\ \A t, n \in Toks : SameCounts(r, RedisRotate(r, t, n))
<1> USE DEF SameCounts, RedisStates, TokenStates
<1>1. ASSUME NEW s \in Sids PROVE SameCounts(r, RedisCreateSession(r, s))  BY DEF RedisCreateSession
<1>2. ASSUME NEW s \in Sids, NEW e \in Nat PROVE SameCounts(r, RedisRevokeSession(r, s, e))  BY DEF RedisRevokeSession
<1>3. ASSUME NEW t \in Toks PROVE SameCounts(r, RedisRevokeToken(r, t))  BY DEF RedisRevokeToken
<1>4. ASSUME NEW t \in Toks PROVE SameCounts(r, RedisStoreRefreshToken(r, t))  BY DEF RedisStoreRefreshToken
<1>5. ASSUME NEW t \in Toks, NEW n \in Toks PROVE SameCounts(r, RedisRotate(r, t, n))  BY DEF RedisRotate
<1> HIDE DEF SameCounts, RedisStates, TokenStates
<1> QED  BY <1>1, <1>2, <1>3, <1>4, <1>5

\* So does the one that revokes all sessions of a user.
LEMMA RedisCopiesAll ==
  ASSUME TypeOK, NEW r \in RedisStates, NEW ss \in SUBSET Sids, NEW ts \in SUBSET Toks, NEW e \in Nat
  PROVE  SameCounts(r, RedisRevokeSubjectSessions(r, ss, ts, e))
<1>1. \A s \in Sids : session[s].end \in Nat  BY DEF TypeOK, StoreTypeOK, TokenSessions
<1> DEFINE held == {t \in ts : r.tok[t] # "none" /\ Alive(token[t].end)}
           revoked == [s \in Sids |-> IF s \notin ss THEN r.revoked[s]
                                      ELSE IF s \in r.sess /\ Alive(session[s].end) THEN session[s].end ELSE e]
           toks == [t \in Toks |-> IF t \in held THEN "revoked" ELSE r.tok[t]]
<1>2. revoked \in [Sids -> Nat]  BY <1>1 DEF RedisStates
<1>3. r.revT \cup held \subseteq Toks  BY DEF RedisStates
<1>4. toks \in [Toks -> TokenStates]
    <2> HIDE DEF held
    <2> QED  BY DEF RedisStates, TokenStates
<1>5. RedisRevokeSubjectSessions(r, ss, ts, e) = [r EXCEPT !.revoked = revoked, !.revT = r.revT \cup held, !.tok = toks]
    BY DEF RedisRevokeSubjectSessions, RedisStates
<1> HIDE DEF revoked, toks, held
<1> QED  BY <1>2, <1>3, <1>4, <1>5 DEF SameCounts, RedisStates

\* A write to Redis that only copies leaves its counts and Postgres alone.
LEMMA RedisDone ==
  ASSUME TypeOK, NEW p \in Clients, NEW new, NEW good, NEW bad, RedisDo(p, new, good, bad), SameCounts(redis, new)
  PROVE  /\ SameCounts(redis, redis') /\ pg' = pg
         /\ Go(p, good) \/ Go(p, bad)
         /\ faults' \in Nat
BY DEF RedisDo, SameCounts, TypeOK, StoreTypeOK, CanFail

\* A step that goes on and changes nothing that lasts is one that thinks.
LEMMA Thinking ==
  ASSUME NEW p \in Clients, NEW x \in Places, Went(p, x), req'[p].past = req[p].past,
         Hop(p, req[p], req'[p]), UNCHANGED World, SameCounts(redis, redis')
  PROVE  Thinks(p) /\ req'[p].past = req[p].past
BY DEF Thinks, Went, SameCounts

\* RotateMirror only thinks.
LEMMA RotateMirrorThinks == ASSUME TypeOK, Routes, Handed, Owned, NEW p \in Clients, RotateMirror(p)
                            PROVE  Thinks(p) /\ req'[p].past = req[p].past
<1>1. Typed /\ redis \in RedisStates  BY DEF TypeOK, StoreTypeOK, Typed
<1>2. R(p).at = "rotateRedis" /\ R(p).tok \in Toks /\ R(p).new \in Toks
    BY <1>1, Needs DEF RotateMirror, At, R, Typed, Requests
<1> DEFINE copy == IF RedisRotates(redis, R(p).tok) THEN RedisRotate(redis, R(p).tok, R(p).new) ELSE redis
<1>3. SameCounts(redis, copy)  BY <1>1, <1>2, RedisCopies DEF SameCounts, AuthStoreAssumption
<1>4. RedisDo(p, copy, To(p, "ok"), To(p, "ok"))  BY DEF RotateMirror
<1> HIDE DEF copy
<1>5. SameCounts(redis, redis') /\ pg' = pg /\ Go(p, To(p, "ok"))  BY <1>3, <1>4, RedisDone
<1>6. UNCHANGED World  BY <1>5 DEF RotateMirror, World, Unmoved, SameHands
<1>7. Went(p, "ok") /\ Rest(req[p], req'[p])  BY <1>1, <1>5, GoTo DEF Places
<1>8. Hop(p, req[p], req'[p])  BY <1>2, <1>7 DEF Hop, Went, R
<1> QED  BY <1>5, <1>6, <1>7, <1>8, Thinking DEF Places, Rest

\* RevokeSessionRedis only thinks.
LEMMA RevokeSessionRedisThinks == ASSUME TypeOK, Routes, Handed, Owned, NEW p \in Clients, RevokeSessionRedis(p)
                                  PROVE  Thinks(p) /\ req'[p].past = req[p].past
<1>1. Typed /\ redis \in RedisStates  BY DEF TypeOK, StoreTypeOK, Typed
<1>2. R(p).at = "revRedis" /\ R(p).sid \in Sids /\ R(p).end \in Nat
    BY <1>1, Needs DEF RevokeSessionRedis, At, R, Typed, Requests
<1> DEFINE copy == RedisRevokeSession(redis, R(p).sid, R(p).end)
           bad == [To(p, "revPg") EXCEPT !.bad = TRUE]
<1>3. SameCounts(redis, copy)  BY <1>1, <1>2, RedisCopies
<1>4. RedisDo(p, copy, To(p, "revPg"), bad)  BY DEF RevokeSessionRedis
<1> HIDE DEF copy, bad
<1>5. SameCounts(redis, redis') /\ pg' = pg /\ (Go(p, To(p, "revPg")) \/ Go(p, bad))  BY <1>3, <1>4, RedisDone
<1>6. UNCHANGED World  BY <1>5 DEF RevokeSessionRedis, World, Unmoved, SameHands
<1>7. Went(p, "revPg") /\ Rest(req[p], req'[p])  BY <1>1, <1>5, GoTo, GoBad DEF Places, bad
<1>8. Hop(p, req[p], req'[p])  BY <1>2, <1>7 DEF Hop, Went, R
<1> QED  BY <1>5, <1>6, <1>7, <1>8, Thinking DEF Places, Rest

\* RevokeTokenRedis only thinks.
LEMMA RevokeTokenRedisThinks == ASSUME TypeOK, Routes, Handed, Owned, NEW p \in Clients, RevokeTokenRedis(p)
                                PROVE  Thinks(p) /\ req'[p].past = req[p].past
<1>1. Typed /\ redis \in RedisStates  BY DEF TypeOK, StoreTypeOK, Typed
<1>2. R(p).at = "revTokenRedis" /\ R(p).tok \in Toks
    BY <1>1, Needs DEF RevokeTokenRedis, At, R, Typed, Requests
<1> DEFINE copy == RedisRevokeToken(redis, R(p).tok)
           bad == [To(p, "revTokenPg") EXCEPT !.bad = TRUE]
<1>3. SameCounts(redis, copy)  BY <1>1, <1>2, RedisCopies
<1>4. RedisDo(p, copy, To(p, "revTokenPg"), bad)  BY DEF RevokeTokenRedis
<1> HIDE DEF copy, bad
<1>5. SameCounts(redis, redis') /\ pg' = pg /\ (Go(p, To(p, "revTokenPg")) \/ Go(p, bad))  BY <1>3, <1>4, RedisDone
<1>6. UNCHANGED World  BY <1>5 DEF RevokeTokenRedis, World, Unmoved, SameHands
<1>7. Went(p, "revTokenPg") /\ Rest(req[p], req'[p])  BY <1>1, <1>5, GoTo, GoBad DEF Places, bad
<1>8. Hop(p, req[p], req'[p])  BY <1>2, <1>7 DEF Hop, Went, R
<1> QED  BY <1>5, <1>6, <1>7, <1>8, Thinking DEF Places, Rest

\* RevokeAllRedis only thinks.
LEMMA RevokeAllRedisThinks == ASSUME TypeOK, NEW p \in Clients, RevokeAllRedis(p)
                              PROVE  Thinks(p) /\ req'[p].past = req[p].past
<1>1. Typed /\ redis \in RedisStates  BY DEF TypeOK, StoreTypeOK, Typed
<1>2. /\ R(p).at = "allRedis" /\ R(p).end \in Nat
      /\ R(p).sids \in SUBSET Sids /\ R(p).toks \in SUBSET Toks
    BY <1>1 DEF RevokeAllRedis, At, R, Typed, Requests
<1> DEFINE copy == RedisRevokeSubjectSessions(redis, R(p).sids, R(p).toks, R(p).end)
           bad == [To(p, "allPg") EXCEPT !.bad = TRUE]
<1>3. SameCounts(redis, copy)  BY <1>1, <1>2, RedisCopiesAll
<1>4. RedisDo(p, copy, To(p, "allPg"), bad)  BY DEF RevokeAllRedis
<1> HIDE DEF copy, bad
<1>5. SameCounts(redis, redis') /\ pg' = pg /\ (Go(p, To(p, "allPg")) \/ Go(p, bad))  BY <1>3, <1>4, RedisDone
<1>6. UNCHANGED World  BY <1>5 DEF RevokeAllRedis, World, Unmoved, SameHands
<1>7. Went(p, "allPg") /\ Rest(req[p], req'[p])  BY <1>1, <1>5, GoTo, GoBad DEF Places, bad
<1>8. Hop(p, req[p], req'[p])  BY <1>2, <1>7 DEF Hop, Went, R, Rest
<1> QED  BY <1>5, <1>6, <1>7, <1>8, Thinking DEF Places, Rest

\* ReadMembers only thinks.
LEMMA ReadMembersThinks == ASSUME TypeOK, NEW p \in Clients, ReadMembers(p)
                           PROVE  Thinks(p) /\ req'[p].past = req[p].past
<1>1. Typed /\ redis \in RedisStates  BY DEF TypeOK, StoreTypeOK, Typed
<1>2. R(p).at = "members" /\ UNCHANGED World /\ redis' = redis
    BY DEF ReadMembers, At, R, World, Unmoved, SameStore, SameHands
<1> DEFINE ss == SubjectSessions(redis, R(p).user)
           ts == SubjectRefreshTokens(redis, R(p).user)
<1>3. ss \in SUBSET Sids /\ ts \in SUBSET Toks
    BY <1>1 DEF SubjectSessions, SubjectRefreshTokens, RedisStates
<1>4. \/ Go(p, [To(p, "allRedis") EXCEPT !.sids = ss, !.toks = ts])
      \/ Go(p, [To(p, "allPg") EXCEPT !.bad = TRUE])
    BY DEF ReadMembers
<1> HIDE DEF ss, ts
<1>5. \E x \in {"allRedis", "allPg"} : Went(p, x) /\ Rest(req[p], req'[p])
    BY <1>1, <1>3, <1>4, GoLists, GoBad DEF Places
<1>6. Hop(p, req[p], req'[p])  BY <1>2, <1>5 DEF Hop, Went, R, Rest
<1> QED  BY <1>1, <1>2, <1>5, <1>6, Thinking DEF Places, Rest, SameCounts

\* RequiresCaptcha only thinks.
LEMMA RequiresCaptchaThinks == ASSUME TypeOK, NEW p \in Clients, RequiresCaptcha(p)
                               PROVE  Thinks(p) /\ req'[p].past = req[p].past
<1>1. Typed /\ redis \in RedisStates  BY DEF TypeOK, StoreTypeOK, Typed
<1>2. R(p).at = "captcha" /\ UNCHANGED World /\ redis' = redis
    BY DEF RequiresCaptcha, At, R, World, Unmoved, SameStore, SameHands
<1>3. Go(p, To(p, "denied")) \/ Go(p, To(p, "lock"))
    BY Zenon DEF RequiresCaptcha
<1>4. \E x \in {"denied", "lock"} : Went(p, x) /\ Rest(req[p], req'[p])  BY <1>1, <1>3, GoTo DEF Places
<1>5. Hop(p, req[p], req'[p])  BY <1>2, <1>4 DEF Hop, Went, R
<1> QED  BY <1>1, <1>2, <1>4, <1>5, Thinking DEF Places, Rest, SameCounts

\* The look at the lock is where a sign-in can be found past one.
PastNow(p) == \E k \in LoginKeys(R(p).o) \cap R(p).locked : Alive(seen.lock[k]) /\ ~MirrorBehind(k)

\* LoginLock only thinks.
LEMMA LoginLockThinks == ASSUME TypeOK, NEW p \in Clients, LoginLock(p)
                         PROVE  /\ Thinks(p) /\ R(p).at = "lock"
                                /\ \/ req'[p].past = req[p].past
                                   \/ /\ req'[p].past = PastNow(p)
                                      /\ \E failed \in {{}, {"redis"}} : ("redis" \in failed => redisOn) /\ ~LoginLocked(R(p).o, failed)
<1>1. Typed /\ redis \in RedisStates  BY DEF TypeOK, StoreTypeOK, Typed
<1>2. R(p).at = "lock" /\ UNCHANGED World /\ redis' = redis
    BY DEF LoginLock, At, R, World, Unmoved, SameStore, SameHands
<1>3. PICK failed \in {{}, {"redis"}} :
         /\ "redis" \in failed => redisOn
         /\ Go(p, IF LoginLocked(R(p).o, failed) THEN To(p, "denied") ELSE [To(p, "user") EXCEPT !.past = PastNow(p)])
    BY DEF LoginLock, PastNow, Reads
<1>4. CASE LoginLocked(R(p).o, failed)
    <2>1. Went(p, "denied") /\ Rest(req[p], req'[p])  BY <1>1, <1>3, <1>4, GoTo DEF Places
    <2>2. Hop(p, req[p], req'[p])  BY <2>1 DEF Hop, Went
    <2> QED  BY <1>1, <1>2, <2>1, <2>2, Thinking DEF Places, Rest, SameCounts
<1>5. CASE ~LoginLocked(R(p).o, failed)
    <2>1. PastNow(p) \in BOOLEAN  BY DEF PastNow
    <2>2. Went(p, "user") /\ req'[p].past = PastNow(p)  BY <1>1, <1>3, <1>5, <2>1, GoPast DEF Places
    <2>3. Hop(p, req[p], req'[p])  BY <1>2, <2>2 DEF Hop, Went, R
    <2>4. Thinks(p)  BY <1>1, <1>2, <2>2, <2>3 DEF Thinks, Went, SameCounts
    <2> QED  BY <1>2, <1>3, <1>5, <2>2, <2>4
<1> QED  BY <1>4, <1>5

\* CheckPassword only thinks.
LEMMA CheckPasswordThinks == ASSUME TypeOK, NEW p \in Clients, R(p).o \in Operations, CheckPassword(p)
                             PROVE  Thinks(p) /\ req'[p].past = req[p].past
<1>1. Typed /\ redis \in RedisStates  BY DEF TypeOK, StoreTypeOK, Typed
<1>2. R(p).at = "user" /\ UNCHANGED World /\ redis' = redis
    BY DEF CheckPassword, At, R, World, Unmoved, SameStore, SameHands
<1> DEFINE row == users[R(p).o.user]
<1>3. row \in Rows /\ LoginKeys(R(p).o) \in SUBSET Keys
    BY IamAssumption DEF TypeOK, AccountsTypeOK, Operations, LoginKeys
<1>4. \/ Go(p, [To(p, "failPg") EXCEPT !.keys = LoginKeys(R(p).o)])
      \/ Go(p, [To(p, "denied") EXCEPT !.row = row])
      \/ /\ \E x \in {"sessRedis", "claim"} : Go(p, [To(p, x) EXCEPT !.row = row])
         /\ Enabled(R(p).o.user) /\ (row.mfa => R(p).o.code # NoCode)
    BY DEF CheckPassword, Enabled
<1> HIDE DEF row
<1>5. CASE Go(p, [To(p, "failPg") EXCEPT !.keys = LoginKeys(R(p).o)])
    <2>1. Went(p, "failPg") /\ Rest(req[p], req'[p])  BY <1>1, <1>3, <1>5, GoKeys DEF Places
    <2>2. Hop(p, req[p], req'[p])  BY <1>2, <2>1 DEF Hop, Went, R
    <2> QED  BY <1>1, <1>2, <2>1, <2>2, Thinking DEF Places, Rest, SameCounts
<1>6. CASE Go(p, [To(p, "denied") EXCEPT !.row = row])
    <2>1. Went(p, "denied") /\ req'[p].past = req[p].past  BY <1>1, <1>3, <1>6, GoRow DEF Places
    <2>2. Hop(p, req[p], req'[p])  BY <1>2, <2>1 DEF Hop, Went, R
    <2> QED  BY <1>1, <1>2, <2>1, <2>2, Thinking DEF Places, SameCounts
<1>7. ASSUME NEW x \in {"sessRedis", "claim"}, Go(p, [To(p, x) EXCEPT !.row = row]),
             Enabled(R(p).o.user), row.mfa => R(p).o.code # NoCode
      PROVE  Thinks(p) /\ req'[p].past = req[p].past
    <2>1. Went(p, x) /\ req'[p].past = req[p].past  BY <1>1, <1>3, <1>7, GoRow DEF Places
    <2>2. Hop(p, req[p], req'[p])  BY <1>2, <1>7, <2>1 DEF Hop, Went, R, row
    <2> QED  BY <1>1, <1>2, <2>1, <2>2, Thinking DEF Places, SameCounts
<1> QED  BY <1>4, <1>5, <1>6, <1>7

\* The reads of a federated sign-in only think.
LEMMA CallbackThinks == ASSUME TypeOK, NEW p \in Clients, HasOIDCState(p) \/ Exchange(p) \/ ReadAgain(p)
                        PROVE  Thinks(p) /\ req'[p].past = req[p].past
<1>1. Typed /\ redis \in RedisStates  BY DEF TypeOK, StoreTypeOK, Typed
<1>2. UNCHANGED World /\ redis' = redis
    BY DEF HasOIDCState, Exchange, ReadAgain, World, Unmoved, SameStore, SameHands
<1>3. \E x \in {"exchange", "consume", "save", "denied"} :
         /\ Go(p, To(p, x))
         /\ x = "exchange" => R(p).at = "hasState"
         /\ x = "consume" => R(p).at = "exchange"
         /\ x = "save" => R(p).at = "first"
    BY DEF HasOIDCState, Exchange, ReadAgain, At, R
<1>4. PICK x \in {"exchange", "consume", "save", "denied"} :
         /\ Went(p, x) /\ Rest(req[p], req'[p])
         /\ x = "exchange" => R(p).at = "hasState"
         /\ x = "consume" => R(p).at = "exchange"
         /\ x = "save" => R(p).at = "first"
    BY <1>1, <1>3, GoTo DEF Places
<1>5. Hop(p, req[p], req'[p])  BY <1>4 DEF Hop, Went, R, Rest
<1> QED  BY <1>1, <1>2, <1>4, <1>5, Thinking DEF Places, Rest, SameCounts

\* Reading the row of a user only thinks, and takes the row as it is.
LEMMA ReadUserThinks == ASSUME TypeOK, NEW p \in Clients, R(p).user \in Users, ReadUser(p)
                        PROVE  Thinks(p) /\ req'[p].past = req[p].past /\ R(p).at = "read" /\ req'[p].same /\ req'[p].row = users[R(p).user]
<1>1. Typed /\ redis \in RedisStates  BY DEF TypeOK, StoreTypeOK, Typed
<1>2. R(p).at = "read" /\ UNCHANGED World /\ redis' = redis
    BY DEF ReadUser, At, R, World, Unmoved, SameStore, SameHands
<1> DEFINE row == users[R(p).user]
           op == R(p).o.op
           next == CASE op \in {"confirmMFA", "disableMFA"} -> "claim"
                     [] op = "delete" -> "delete"
                     [] op = "adminReset" -> "members"
                     [] OTHER -> "first"
           x == IF row.there /\ Admits(R(p).o, row) THEN next ELSE "denied"
<1>3. row \in Rows /\ now + RefreshTTL \in Nat
    BY AuthStoreAssumption DEF TypeOK, AccountsTypeOK, StoreTypeOK
<1>4. Go(p, [To(p, x) EXCEPT !.row = row, !.same = TRUE, !.end = now + RefreshTTL])
    BY DEF ReadUser
<1>5. x \in Places  BY DEF Places
<1>6. Went(p, x) /\ req'[p].past = req[p].past /\ req'[p].row = row /\ req'[p].same
    <2> HIDE DEF x, row
    <2> QED  BY <1>1, <1>3, <1>4, <1>5, GoRead
<1>7. Hop(p, req[p], req'[p])  BY <1>2, <1>6 DEF Hop, Went, R
<1> HIDE DEF x
<1> QED  BY <1>1, <1>2, <1>5, <1>6, <1>7, Thinking DEF SameCounts

------------------------------------------------------------------------------
(* The other steps, one by one: what becomes of the request, next to what  *)
(* becomes of the stores.                                                  *)

(* The other steps, one by one: what becomes of the request, next to what  *)
(* becomes of the stores.                                                  *)

Steps(p, x) == Went(p, x) /\ req'[p].past = req[p].past
Fixed(p) == /\ Typed' /\ Alone(p) /\ Asked(req[p], req'[p]) /\ req'[p].past = req[p].past
            /\ req'[p].state = req[p].state
Around == <<now, redisOn, access, given, states, users, identity, script>>

\* A write to Postgres is done, or fails done or not.
LEMMA PgDone ==
  ASSUME NEW p \in Clients, NEW new, NEW good, NEW bad, PgDo(p, new, good, bad), faults \in Nat
  PROVE  /\ redis' = redis /\ faults' \in Nat
         /\ (pg' = new /\ Go(p, good)) \/ (pg' \in {pg, new} /\ Go(p, bad))
BY DEF PgDo, CanFail

\* What FindUser does.
LEMMA FindUserEffect ==
  ASSUME TypeOK, NEW p \in Clients, FindUser(p)
  PROVE  /\ Fixed(p) /\ UNCHANGED World /\ redis' = redis
         /\ req'[p].sid = req[p].sid /\ req'[p].tok = req[p].tok /\ req'[p].new = req[p].new
         /\ R(p).at = "findUser"
         /\ \/ identity = NoUser /\ req'[p].user = req[p].user /\ req'[p].at = "createUser"
            \/ /\ identity # NoUser /\ req'[p].user = identity
               /\ req'[p].at = IF Enabled(identity) THEN "sessRedis" ELSE "denied"
<1>1. Typed  BY DEF TypeOK, Typed
<1>2. R(p).at = "findUser" /\ UNCHANGED World /\ redis' = redis
    BY DEF FindUser, At, R, World, Unmoved, SameStore, SameHands
<1>3. CASE identity = NoUser
    <2>1. Went(p, "createUser") /\ Rest(req[p], req'[p])  BY <1>1, <1>3, GoTo DEF FindUser, Places
    <2> QED  BY <1>2, <1>3, <2>1 DEF Fixed, Went, Held, Rest
<1>4. CASE identity # NoUser
    <2> DEFINE x == IF Enabled(identity) THEN "sessRedis" ELSE "denied"
    <2>1. Go(p, [To(p, x) EXCEPT !.user = identity])  BY <1>4 DEF FindUser
    <2>2. x \in Places /\ identity \in Users  BY <1>4 DEF Places, TypeOK, AccountsTypeOK
    <2>3. req'[p].user = identity /\ req'[p].at = x /\ Fixed(p)
          /\ req'[p].sid = req[p].sid /\ req'[p].tok = req[p].tok /\ req'[p].new = req[p].new
        <3> HIDE DEF x
        <3> QED  BY <1>1, <2>1, <2>2, GoUser DEF Fixed
    <2> QED  BY <1>2, <1>4, <2>3
<1> QED  BY <1>3, <1>4

\* The next token is a fresh one.
LEMMA NextTokIs == ASSUME TokLeft PROVE NextTok \in Toks /\ token[NextTok].sid = 0
BY DEF TokLeft, NextTok
\* The next session is a fresh one.
LEMMA NextSidIs == ASSUME SidLeft PROVE NextSid \in Sids /\ session[NextSid].end = 0
BY DEF SidLeft, NextSid
\* The next federated state is a fresh one.
LEMMA NextStateIs == ASSUME StateLeft PROVE NewState(NextState)
BY DEF StateLeft, NextState

\* What Rotate does.
LEMMA RotateEffect ==
  ASSUME TypeOK, NEW p \in Clients, Rotate(p)
  PROVE  /\ Fixed(p) /\ R(p).at = "rotate" /\ redis' = redis /\ UNCHANGED <<Around, session, seen>>
         /\ req'[p].sid = req[p].sid /\ req'[p].tok = req[p].tok /\ req'[p].user = req[p].user
         /\ NextTok \in Toks /\ token[NextTok].sid = 0
         /\ token' = [token EXCEPT ![NextTok] = [sid |-> R(p).sid, end |-> now + RefreshTTL]]
         /\ \/ /\ req'[p].at = "rotateRedis" /\ req'[p].new = NextTok
               /\ PgRotates(pg, R(p).tok) /\ pg' = PgRotate(pg, R(p).tok, NextTok)
            \/ /\ req'[p].at = "denied" /\ req'[p].new = req[p].new
               /\ pg' = pg \/ (PgRotates(pg, R(p).tok) /\ pg' = PgRotate(pg, R(p).tok, NextTok))
<1>1. Typed /\ faults \in Nat  BY DEF TypeOK, StoreTypeOK, Typed
<1>2. /\ R(p).at = "rotate" /\ UNCHANGED <<Around, session, seen>>
      /\ token' = [token EXCEPT ![NextTok] = [sid |-> R(p).sid, end |-> now + RefreshTTL]]
    BY DEF Rotate, At, R, Around, Unmoved, SameHands
<1>3. NextTok \in Toks /\ token[NextTok].sid = 0  BY NextTokIs DEF Rotate
<1> DEFINE moved == WithNew(To(p, "rotateRedis"), NextTok, now + AccessTTL)
           new == PgRotate(pg, R(p).tok, NextTok)
<1>4. \/ PgRotates(pg, R(p).tok) /\ PgDo(p, new, moved, To(p, "denied"))
      \/ PgDo(p, pg, To(p, "denied"), To(p, "denied"))
    BY DEF Rotate, WithNew
<1>5. now + AccessTTL \in Nat  BY AuthStoreAssumption DEF TypeOK, StoreTypeOK
<1>6. Go(p, moved) => /\ Fixed(p) /\ req'[p].at = "rotateRedis" /\ req'[p].new = NextTok
                      /\ req'[p].sid = req[p].sid /\ req'[p].tok = req[p].tok /\ req'[p].user = req[p].user
    BY <1>1, <1>3, <1>5, GoNew DEF Fixed, Places
<1>7. Go(p, To(p, "denied")) => /\ Fixed(p) /\ req'[p].at = "denied" /\ req'[p].new = req[p].new
                      /\ req'[p].sid = req[p].sid /\ req'[p].tok = req[p].tok /\ req'[p].user = req[p].user
    BY <1>1, GoTo DEF Fixed, Places, Went, Held, Rest
<1> HIDE DEF moved, new
<1>8. redis' = redis /\ \/ PgRotates(pg, R(p).tok) /\ pg' = new /\ Go(p, moved)
                        \/ (pg' = pg \/ (PgRotates(pg, R(p).tok) /\ pg' = new)) /\ Go(p, To(p, "denied"))
    BY <1>1, <1>4, PgDone
<1> QED  BY <1>2, <1>3, <1>6, <1>7, <1>8 DEF new

\* What RevokeSessionPg does.
LEMMA RevokeSessionPgEffect ==
  ASSUME TypeOK, NEW p \in Clients, RevokeSessionPg(p)
  PROVE  /\ UNCHANGED <<Around, session, token, seen>> /\ redis' = redis /\ R(p).at = "revPg"
         /\ \/ Steps(p, "signedOut") /\ pg' = PgRevokeSession(pg, R(p).sid, R(p).end)
            \/ Steps(p, "failed") /\ pg' \in {pg, PgRevokeSession(pg, R(p).sid, R(p).end)}
<1>1. Typed /\ faults \in Nat  BY DEF TypeOK, StoreTypeOK, Typed
<1>2. R(p).at = "revPg" /\ UNCHANGED <<Around, session, token, seen>>
    BY DEF RevokeSessionPg, At, R, Around, Unmoved, SameHands
<1> DEFINE new == PgRevokeSession(pg, R(p).sid, R(p).end)
<1>3. \E x \in {"signedOut", "failed"} : PgDo(p, new, To(p, x), To(p, "failed"))
    BY DEF RevokeSessionPg
<1> HIDE DEF new
<1>4. redis' = redis /\ ((Go(p, To(p, "signedOut")) /\ pg' = new) \/ (Go(p, To(p, "failed")) /\ pg' \in {pg, new}))
    BY <1>1, <1>3, PgDone
<1>5. \A x \in {"signedOut", "failed"} : Go(p, To(p, x)) => Steps(p, x)
    BY <1>1, GoTo DEF Steps, Places, Rest
<1> QED  BY <1>2, <1>4, <1>5 DEF new

\* What RevokeOtherToken does.
LEMMA RevokeOtherTokenEffect ==
  ASSUME TypeOK, NEW p \in Clients, RevokeOtherToken(p)
  PROVE  /\ Fixed(p) /\ UNCHANGED <<Around, pg, session, token>> /\ redis' = redis /\ R(p).at = "signedOut"
         /\ seen' = [seen EXCEPT !.out = @ \cup {R(p).sid}]
         /\ req'[p].sid = req[p].sid /\ req'[p].new = req[p].new /\ req'[p].user = req[p].user
         /\ \/ /\ req'[p].at = "verifyOther" /\ req'[p].tok \in given /\ token[req'[p].tok].sid = R(p).sid
               /\ req'[p].end = token[req'[p].tok].end
            \/ req'[p].at = "ok" /\ req'[p].tok = req[p].tok
<1>1. Typed /\ faults \in Nat  BY DEF TypeOK, StoreTypeOK, Typed
<1>2. R(p).at = "signedOut" /\ UNCHANGED <<Around, pg, session, token>> /\ redis' = redis
      /\ seen' = [seen EXCEPT !.out = @ \cup {R(p).sid}]
    BY DEF RevokeOtherToken, At, R, Around, Unmoved, SameHands, SameStore
<1>3. CASE Go(p, To(p, "ok"))
    <2>1. Went(p, "ok") /\ Rest(req[p], req'[p])  BY <1>1, <1>3, GoTo DEF Places
    <2> QED  BY <1>2, <2>1 DEF Fixed, Went, Held, Rest
<1>4. ASSUME NEW t \in given, token[t].sid = R(p).sid,
             Go(p, [To(p, "verifyOther") EXCEPT !.tok = t, !.end = token[t].end])
      PROVE  /\ Fixed(p) /\ req'[p].at = "verifyOther" /\ req'[p].tok = t /\ req'[p].end = token[t].end
             /\ req'[p].sid = req[p].sid /\ req'[p].new = req[p].new /\ req'[p].user = req[p].user
    <2>1. t \in Toks /\ token[t].end \in Nat  BY DEF TypeOK, StoreTypeOK, RefreshTokenRecords
    <2> DEFINE e == token[t].end
    <2>2. e \in Nat /\ Go(p, WithTok(To(p, "verifyOther"), t, e))  BY <1>4, <2>1 DEF WithTok
    <2> HIDE DEF e
    <2>3. "verifyOther" \in Places  BY DEF Places
    <2>4. /\ Fixed(p) /\ req'[p].at = "verifyOther" /\ req'[p].tok = t /\ req'[p].end = e
          /\ req'[p].sid = req[p].sid /\ req'[p].new = req[p].new /\ req'[p].user = req[p].user
        BY <1>1, <2>1, <2>2, <2>3, GoTok DEF Fixed
    <2> QED  BY <2>4 DEF e
<1> QED  BY <1>2, <1>3, <1>4 DEF RevokeOtherToken

\* What RevokeTokenPg does.
LEMMA RevokeTokenPgEffect ==
  ASSUME TypeOK, NEW p \in Clients, RevokeTokenPg(p)
  PROVE  /\ UNCHANGED <<Around, session, token, seen>> /\ redis' = redis /\ R(p).at = "revTokenPg"
         /\ \/ Steps(p, "revoked") /\ pg' = PgRevokeToken(pg, R(p).tok)
            \/ Steps(p, "failed") /\ pg' \in {pg, PgRevokeToken(pg, R(p).tok)}
<1>1. Typed /\ faults \in Nat  BY DEF TypeOK, StoreTypeOK, Typed
<1>2. R(p).at = "revTokenPg" /\ UNCHANGED <<Around, session, token, seen>>
    BY DEF RevokeTokenPg, At, R, Around, Unmoved, SameHands
<1> DEFINE new == PgRevokeToken(pg, R(p).tok)
<1>3. \E x \in {"revoked", "failed"} : PgDo(p, new, To(p, x), To(p, "failed"))
    BY DEF RevokeTokenPg
<1> HIDE DEF new
<1>4. redis' = redis /\ ((Go(p, To(p, "revoked")) /\ pg' = new) \/ (Go(p, To(p, "failed")) /\ pg' \in {pg, new}))
    BY <1>1, <1>3, PgDone
<1>5. \A x \in {"revoked", "failed"} : Go(p, To(p, x)) => Steps(p, x)
    BY <1>1, GoTo DEF Steps, Places, Rest
<1> QED  BY <1>2, <1>4, <1>5 DEF new

\* A sign-out of all sessions counts once it is past Postgres.
LEMMA RevokeAllPgEffect ==
  ASSUME TypeOK, NEW p \in Clients, RevokeAllPg(p)
  PROVE  /\ UNCHANGED <<Around, session, token>> /\ redis' = redis /\ R(p).at = "allPg"
         /\ \/ \E x \in {"clearReset", "ok"} :
                 /\ Steps(p, x) /\ Rest(req[p], req'[p]) /\ pg' = PgRevokeSubjectSessions(pg, R(p).user)
                 /\ x = "ok" => R(p).o.op # "adminReset"
                 /\ x = "clearReset" => R(p).o.op = "adminReset"
                 /\ \/ seen' = seen
                    \/ seen' = [seen EXCEPT !.out = @ \cup {s \in R(p).before : session[s].user = R(p).user}]
            \/ Steps(p, "failed") /\ pg' \in {pg, PgRevokeSubjectSessions(pg, R(p).user)} /\ seen' = seen
<1>1. Typed /\ faults \in Nat  BY DEF TypeOK, StoreTypeOK, Typed
<1>2. R(p).at = "allPg" /\ UNCHANGED <<Around, session, token>>
    BY DEF RevokeAllPg, At, R, Around, Unmoved, SameHands
<1> DEFINE new == PgRevokeSubjectSessions(pg, R(p).user)
           out == [seen EXCEPT !.out = @ \cup {s \in R(p).before : session[s].user = R(p).user}]
<1>3. /\ \E x \in {"clearReset", "ok", "failed"} :
            /\ PgDo(p, new, To(p, x), To(p, "failed"))
            /\ x = "ok" => R(p).o.op # "adminReset"
            /\ x = "clearReset" => R(p).o.op = "adminReset"
      /\ seen' \in {seen, out} /\ (seen' # seen => req'[p].at # "failed")
    BY DEF RevokeAllPg, Is, R
<1> HIDE DEF new, out
<1>4. redis' = redis /\ \/ \E x \in {"clearReset", "ok"} :
                             /\ Go(p, To(p, x)) /\ pg' = new
                             /\ x = "ok" => R(p).o.op # "adminReset"
                             /\ x = "clearReset" => R(p).o.op = "adminReset"
                        \/ Go(p, To(p, "failed")) /\ pg' \in {pg, new}
    BY <1>1, <1>3, PgDone
<1>5. \A x \in {"clearReset", "ok", "failed"} : Go(p, To(p, x)) => Steps(p, x) /\ Rest(req[p], req'[p]) /\ req'[p].at = x
    BY <1>1, GoTo DEF Steps, Places, Rest, Went
<1> QED  BY <1>2, <1>3, <1>4, <1>5 DEF new, out

------------------------------------------------------------------------------
(* The steps on claims and counted failures.                               *)

Key(p) == <<R(p).user, R(p).o.code>>
\* What ClaimOnce does.
LEMMA ClaimOnceEffect ==
  ASSUME TypeOK, NEW p \in Clients, R(p).o \in Operations, ClaimOnce(p)
  PROVE  /\ UNCHANGED <<Around, session, token>> /\ redis' = redis /\ R(p).at = "claim"
         /\ \/ /\ Claimed(pg, Key(p)) /\ pg' = pg /\ seen' = seen
               /\ Steps(p, IF R(p).o.op = "login" THEN "failPg" ELSE "denied") /\ Rest(req[p], req'[p])
            \/ /\ ~Claimed(pg, Key(p)) /\ pg' = PgClaim(pg, Key(p)) /\ seen' = [seen EXCEPT !.uses[Key(p)] = @ + 1]
               /\ Steps(p, IF R(p).o.op = "login" THEN "sessRedis" ELSE "first") /\ Rest(req[p], req'[p])
            \/ /\ pg' \in {pg, PgClaim(pg, Key(p))}
               /\ seen' = [seen EXCEPT !.uses[Key(p)] = @ + 1, !.slack[Key(p)] = @ + 1]
               /\ Steps(p, IF R(p).o.op = "login" THEN "sessRedis" ELSE "first") /\ Rest(req[p], req'[p])
<1>1. Typed /\ faults \in Nat  BY DEF TypeOK, StoreTypeOK, Typed
<1>2. R(p).at = "claim" /\ UNCHANGED <<Around, session, token>> /\ redis' = redis
    BY DEF ClaimOnce, At, R, Around, Unmoved, SameHands
<1> DEFINE on == IF R(p).o.op = "login" THEN "sessRedis" ELSE "first"
           off == [To(p, "failPg") EXCEPT !.keys = LoginKeys(R(p).o)]
           good == [seen EXCEPT !.uses[Key(p)] = @ + 1]
           poor == [seen EXCEPT !.uses[Key(p)] = @ + 1, !.slack[Key(p)] = @ + 1]
<1>3. \/ /\ Claimed(pg, Key(p)) /\ pg' = PgClaim(pg, Key(p)) /\ seen' = seen
         /\ IF R(p).o.op = "login" THEN Go(p, off) ELSE Go(p, To(p, "denied"))
      \/ ~Claimed(pg, Key(p)) /\ pg' = PgClaim(pg, Key(p)) /\ seen' = good /\ Go(p, To(p, on))
      \/ pg' \in {pg, PgClaim(pg, Key(p))} /\ seen' = poor /\ Go(p, To(p, on))
    BY DEF ClaimOnce, Key, Is, R
<1>4. Claimed(pg, Key(p)) => PgClaim(pg, Key(p)) = pg  BY DEF PgClaim
<1>5. LoginKeys(R(p).o) \in SUBSET Keys  BY IamAssumption DEF Operations, LoginKeys
<1>6. Go(p, off) => Steps(p, "failPg") /\ Rest(req[p], req'[p])
    BY <1>1, <1>5, GoKeys DEF Steps, Places, Rest
<1>7. Go(p, To(p, "denied")) => Steps(p, "denied") /\ Rest(req[p], req'[p])
    BY <1>1, GoTo DEF Steps, Places, Rest
<1>8. Go(p, To(p, on)) => Steps(p, on) /\ Rest(req[p], req'[p])
    <2>1. on \in Places  BY DEF Places
    <2> HIDE DEF on
    <2> QED  BY <1>1, <2>1, GoTo DEF Steps, Rest
<1> HIDE DEF on, off, good, poor
<1>9. \/ /\ Claimed(pg, Key(p)) /\ pg' = pg /\ seen' = seen
         /\ Steps(p, IF R(p).o.op = "login" THEN "failPg" ELSE "denied") /\ Rest(req[p], req'[p])
      \/ /\ ~Claimed(pg, Key(p)) /\ pg' = PgClaim(pg, Key(p)) /\ seen' = good /\ Steps(p, on) /\ Rest(req[p], req'[p])
      \/ pg' \in {pg, PgClaim(pg, Key(p))} /\ seen' = poor /\ Steps(p, on) /\ Rest(req[p], req'[p])
    BY <1>3, <1>4, <1>6, <1>7, <1>8
<1> QED  BY <1>2, <1>9 DEF on, good, poor

\* Failures are counted under a key.
LEMMA FailKeyIn ==
  ASSUME TypeOK, NEW p \in Clients, R(p).o \in Operations
  PROVE  FailKey(p) \in Keys
BY IamAssumption DEF FailKey, Operations

\* What CountFailurePg does.
LEMMA CountFailurePgEffect ==
  ASSUME TypeOK, NEW p \in Clients, CountFailurePg(p)
  PROVE  /\ UNCHANGED <<Around, session, token, seen>> /\ redis' = redis /\ R(p).at = "failPg"
         /\ \E done \in 0..2 : pg' = PgIncrement(pg, FailKey(p), done)
         /\ Steps(p, "failRedis") \/ Steps(p, "failed")
<1>1. Typed  BY DEF TypeOK, Typed
<1>2. R(p).at = "failPg" /\ UNCHANGED <<Around, session, token, seen>> /\ redis' = redis
    BY DEF CountFailurePg, At, R, Around, Unmoved, SameHands
<1>3. \E done \in 0..2 : pg' = PgIncrement(pg, FailKey(p), done)
    BY DEF CountFailurePg
<1>4. Go(p, To(p, "failRedis")) \/ Go(p, To(p, "failed"))
    BY DEF CountFailurePg
<1> QED  BY <1>1, <1>2, <1>3, <1>4, GoTo DEF Steps, Places, Rest

\* What CountFailureRedis does.
LEMMA CountFailureRedisEffect ==
  ASSUME TypeOK, NEW p \in Clients, CountFailureRedis(p)
  PROVE  /\ UNCHANGED <<Around, session, token, pg>> /\ R(p).at = "failRedis"
         /\ \/ redis' = redis /\ ~redisOn /\ seen' = seen
            \/ redis' = RedisIncrement(redis, FailKey(p), 3) /\ seen' = seen
            \/ /\ \E done \in 0..3 : redis' = RedisIncrement(redis, FailKey(p), done)
               /\ seen' = [seen EXCEPT !.missed = @ \cup {FailKey(p)}]
         /\ Steps(p, "refused") \/ Steps(p, "failPg")
<1>1. Typed  BY DEF TypeOK, Typed
<1>2. R(p).at = "failRedis" /\ UNCHANGED <<Around, session, token, pg>>
    BY DEF CountFailureRedis, At, R, Around, Unmoved, SameHands
<1> DEFINE ks == R(p).keys \ {FailKey(p)}
<1>3. /\ \/ redis' = redis /\ ~redisOn /\ seen' = seen
         \/ redis' = RedisIncrement(redis, FailKey(p), 3) /\ seen' = seen
         \/ /\ \E done \in 0..3 : redis' = RedisIncrement(redis, FailKey(p), done)
            /\ seen' = [seen EXCEPT !.missed = @ \cup {FailKey(p)}]
      /\ \/ Go(p, [To(p, "refused") EXCEPT !.keys = ks])
         \/ Go(p, [To(p, "failPg") EXCEPT !.keys = ks])
    BY DEF CountFailureRedis
<1>4. ks \in SUBSET Keys  BY <1>1 DEF Typed, R, Requests
<1> HIDE DEF ks
<1>5. Steps(p, "refused") \/ Steps(p, "failPg")  BY <1>1, <1>3, <1>4, GoKeys DEF Steps, Places, Rest
<1> QED  BY <1>2, <1>3, <1>5

\* What CreateSessionRedis does.
LEMMA CreateSessionRedisEffect ==
  ASSUME TypeOK, NEW p \in Clients, CreateSessionRedis(p)
  PROVE  /\ Fixed(p) /\ R(p).at = "sessRedis" /\ UNCHANGED <<Around, pg, token, seen>> /\ SameCounts(redis, redis')
         /\ NextSid \in Sids /\ session[NextSid].end = 0
         /\ session' = [session EXCEPT ![NextSid] = [user |-> R(p).user, end |-> now + RefreshTTL]]
         /\ req'[p].at = "sessPg" /\ req'[p].sid = NextSid
         /\ req'[p].tok = req[p].tok /\ req'[p].user = req[p].user /\ req'[p].new = req[p].new
<1>1. Typed /\ redis \in RedisStates  BY DEF TypeOK, StoreTypeOK, Typed
<1>2. /\ R(p).at = "sessRedis" /\ UNCHANGED <<Around, token, seen>>
      /\ session' = [session EXCEPT ![NextSid] = [user |-> R(p).user, end |-> now + RefreshTTL]]
    BY DEF CreateSessionRedis, At, R, Around, Unmoved, SameHands
<1>3. NextSid \in Sids /\ session[NextSid].end = 0  BY NextSidIs DEF CreateSessionRedis
<1> DEFINE copy == RedisCreateSession(redis, NextSid)
           good == [To(p, "sessPg") EXCEPT !.sid = NextSid]
           bad == WithSidBad(To(p, "sessPg"), NextSid)
<1>4. RedisDo(p, copy, good, bad)  BY DEF CreateSessionRedis, WithSidBad
<1>5. SameCounts(redis, copy)  BY <1>1, <1>3, RedisCopies
<1>6. \/ Go(p, good) \/ Go(p, bad)
      => /\ Fixed(p) /\ req'[p].at = "sessPg" /\ req'[p].sid = NextSid
         /\ req'[p].tok = req[p].tok /\ req'[p].user = req[p].user /\ req'[p].new = req[p].new
    BY <1>1, <1>3, GoSid, GoSidBad DEF Fixed, Places
<1> HIDE DEF copy, good, bad
<1>7. SameCounts(redis, redis') /\ pg' = pg /\ (Go(p, good) \/ Go(p, bad))  BY <1>4, <1>5, RedisDone
<1> QED  BY <1>2, <1>3, <1>6, <1>7

\* What CreateSessionPg does.
LEMMA CreateSessionPgEffect ==
  ASSUME TypeOK, NEW p \in Clients, CreateSessionPg(p)
  PROVE  /\ UNCHANGED <<Around, session, token, seen>> /\ redis' = redis /\ R(p).at = "sessPg"
         /\ \/ Steps(p, "tokRedis") /\ pg' = PgCreateSession(pg, R(p).sid, session[R(p).sid].end)
            \/ Steps(p, "failed") /\ pg' \in {pg, PgCreateSession(pg, R(p).sid, session[R(p).sid].end)}
<1>1. Typed /\ faults \in Nat  BY DEF TypeOK, StoreTypeOK, Typed
<1>2. R(p).at = "sessPg" /\ UNCHANGED <<Around, session, token, seen>>
    BY DEF CreateSessionPg, At, R, Around, Unmoved, SameHands
<1> DEFINE new == PgCreateSession(pg, R(p).sid, session[R(p).sid].end)
<1>3. \E x \in {"tokRedis", "failed"} : PgDo(p, new, To(p, x), To(p, "failed"))
    BY DEF CreateSessionPg
<1> HIDE DEF new
<1>4. redis' = redis /\ ((Go(p, To(p, "tokRedis")) /\ pg' = new) \/ (Go(p, To(p, "failed")) /\ pg' \in {pg, new}))
    BY <1>1, <1>3, PgDone
<1>5. \A x \in {"tokRedis", "failed"} : Go(p, To(p, x)) => Steps(p, x)
    BY <1>1, GoTo DEF Steps, Places, Rest
<1> QED  BY <1>2, <1>4, <1>5 DEF new

\* What StoreTokenRedis does.
LEMMA StoreTokenRedisEffect ==
  ASSUME TypeOK, NEW p \in Clients, StoreTokenRedis(p)
  PROVE  /\ Fixed(p) /\ R(p).at = "tokRedis" /\ UNCHANGED <<Around, pg, session, seen>> /\ SameCounts(redis, redis')
         /\ NextTok \in Toks /\ token[NextTok].sid = 0
         /\ token' = [token EXCEPT ![NextTok] = [sid |-> R(p).sid, end |-> now + RefreshTTL]]
         /\ req'[p].at = "tokPg" /\ req'[p].new = NextTok
         /\ req'[p].tok = req[p].tok /\ req'[p].user = req[p].user /\ req'[p].sid = req[p].sid
<1>1. Typed /\ redis \in RedisStates  BY DEF TypeOK, StoreTypeOK, Typed
<1>2. /\ R(p).at = "tokRedis" /\ UNCHANGED <<Around, session, seen>>
      /\ token' = [token EXCEPT ![NextTok] = [sid |-> R(p).sid, end |-> now + RefreshTTL]]
    BY DEF StoreTokenRedis, At, R, Around, Unmoved, SameHands
<1>3. NextTok \in Toks /\ token[NextTok].sid = 0  BY NextTokIs DEF StoreTokenRedis
<1> DEFINE copy == RedisStoreRefreshToken(redis, NextTok)
           good == WithNew(To(p, "tokPg"), NextTok, now + AccessTTL)
           bad == WithNewBad(To(p, "tokPg"), NextTok)
<1>4. RedisDo(p, copy, good, bad)  BY DEF StoreTokenRedis, WithNew, WithNewBad
<1>5. SameCounts(redis, copy)  BY <1>1, <1>3, RedisCopies
<1>6. now + AccessTTL \in Nat  BY AuthStoreAssumption DEF TypeOK, StoreTypeOK
<1>7. \/ Go(p, good) \/ Go(p, bad)
      => /\ Fixed(p) /\ req'[p].at = "tokPg" /\ req'[p].new = NextTok
         /\ req'[p].tok = req[p].tok /\ req'[p].user = req[p].user /\ req'[p].sid = req[p].sid
    BY <1>1, <1>3, <1>6, GoNew, GoNewBad DEF Fixed, Places
<1> HIDE DEF copy, good, bad
<1>8. SameCounts(redis, redis') /\ pg' = pg /\ (Go(p, good) \/ Go(p, bad))  BY <1>4, <1>5, RedisDone
<1> QED  BY <1>2, <1>3, <1>7, <1>8

\* What StoreTokenPg does.
LEMMA StoreTokenPgEffect ==
  ASSUME TypeOK, NEW p \in Clients, StoreTokenPg(p)
  PROVE  /\ UNCHANGED <<Around, session, token, seen>> /\ redis' = redis /\ R(p).at = "tokPg"
         /\ \/ /\ Steps(p, IF R(p).o.op = "login" THEN "clear" ELSE "ok")
               /\ pg' = PgStoreRefreshToken(pg, R(p).new)
            \/ Steps(p, "failed") /\ pg' \in {pg, PgStoreRefreshToken(pg, R(p).new)}
<1>1. Typed /\ faults \in Nat  BY DEF TypeOK, StoreTypeOK, Typed
<1>2. R(p).at = "tokPg" /\ UNCHANGED <<Around, session, token, seen>>
    BY DEF StoreTokenPg, At, R, Around, Unmoved, SameHands
<1> DEFINE new == PgStoreRefreshToken(pg, R(p).new)
           on == IF R(p).o.op = "login" THEN "clear" ELSE "ok"
<1>3. \E x \in {on, "failed"} : PgDo(p, new, To(p, x), To(p, "failed"))
    BY DEF StoreTokenPg, Is, R
<1>4. on \in Places /\ "failed" \in Places  BY DEF Places
<1> HIDE DEF new, on
<1>5. redis' = redis /\ ((Go(p, To(p, on)) /\ pg' = new) \/ (Go(p, To(p, "failed")) /\ pg' \in {pg, new}))
    BY <1>1, <1>3, PgDone
<1>6. \A x \in {on, "failed"} : Go(p, To(p, x)) => Steps(p, x)
    BY <1>1, <1>4, GoTo DEF Steps, Rest
<1> QED  BY <1>2, <1>5, <1>6 DEF new, on

------------------------------------------------------------------------------
(* The steps on federated states and on rows of users.                     *)

ClearKeys(p) == IF R(p).at = "clear" THEN LoginKeys(R(p).o) ELSE {"user"}
\* What ClearFailures does.
LEMMA ClearFailuresEffect ==
  ASSUME TypeOK, NEW p \in Clients, ClearFailures(p)
  PROVE  /\ UNCHANGED <<Around, session, token>>
         /\ \E a, b \in SUBSET ClearKeys(p) :
               redis' \in {redis, RedisClear(redis, a)} /\ pg' = PgClear(pg, b)
         /\ seen' = [seen EXCEPT !.lock = [k \in Keys |-> IF k \in ClearKeys(p) THEN 0 ELSE @[k]]]
         /\ \/ R(p).at = "clear" /\ Steps(p, "ok")
            \/ R(p).at = "clearReset" /\ \E x \in {"first", "failed"} : Steps(p, x) /\ Rest(req[p], req'[p])
<1>1. Typed  BY DEF TypeOK, Typed
<1>2. /\ UNCHANGED <<Around, session, token>>
      /\ seen' = [seen EXCEPT !.lock = [k \in Keys |-> IF k \in ClearKeys(p) THEN 0 ELSE @[k]]]
    BY DEF ClearFailures, At, R, Around, Unmoved, SameHands, ClearKeys
<1>3. \E a, b \in SUBSET ClearKeys(p) : redis' \in {redis, RedisClear(redis, a)} /\ pg' = PgClear(pg, b)
  <2> DEFINE ks == ClearKeys(p)
  <2>1. \/ (redis' = redis \/ redis' = RedisClear(redis, ks)) /\ pg' = PgClear(pg, ks)
        \/ \E k \in ks : \/ redis' = RedisClear(redis, ks \ {k}) /\ pg' = PgClear(pg, ks)
                         \/ (redis' = redis \/ redis' = RedisClear(redis, ks)) /\ pg' = PgClear(pg, ks \ {k})
      BY DEF ClearFailures, ClearKeys, At, R
  <2> HIDE DEF ks
  <2>2. \E a, b \in SUBSET ks : redis' \in {redis, RedisClear(redis, a)} /\ pg' = PgClear(pg, b)
    <3>1. CASE (redis' = redis \/ redis' = RedisClear(redis, ks)) /\ pg' = PgClear(pg, ks)
        BY <3>1
    <3>2. ASSUME NEW k \in ks, redis' = RedisClear(redis, ks \ {k}), pg' = PgClear(pg, ks)
          PROVE  \E a, b \in SUBSET ks : redis' \in {redis, RedisClear(redis, a)} /\ pg' = PgClear(pg, b)
        BY <3>2
    <3>3. ASSUME NEW k \in ks, redis' = redis \/ redis' = RedisClear(redis, ks), pg' = PgClear(pg, ks \ {k})
          PROVE  \E a, b \in SUBSET ks : redis' \in {redis, RedisClear(redis, a)} /\ pg' = PgClear(pg, b)
        BY <3>3
    <3> QED  BY <2>1, <3>1, <3>2, <3>3
  <2> QED  BY <2>2 DEF ks
<1>4. \/ R(p).at = "clear" /\ Go(p, To(p, "ok"))
      \/ R(p).at = "clearReset" /\ (Go(p, To(p, "first")) \/ Go(p, To(p, "failed")))
    BY DEF ClearFailures, At, R
<1>5. \A x \in {"ok", "first", "failed"} : Go(p, To(p, x)) => Steps(p, x) /\ Rest(req[p], req'[p])
    BY <1>1, GoTo DEF Steps, Places, Rest
<1> QED  BY <1>2, <1>3, <1>4, <1>5

\* What LoginURL does.
LEMMA LoginURLEffect ==
  ASSUME TypeOK, NEW p \in Clients, LoginURL(p)
  PROVE  /\ UNCHANGED <<Around, session, token, seen>> /\ redis' = redis /\ R(p).at = "saveState"
         /\ Typed' /\ Alone(p) /\ Asked(req[p], req'[p]) /\ req'[p].past = req[p].past
         /\ req'[p].user = req[p].user /\ req'[p].sid = req[p].sid /\ req'[p].tok = req[p].tok /\ req'[p].new = req[p].new
         /\ NewState(NextState)
         /\ \/ req'[p].at = "ok" /\ req'[p].state = NextState /\ pg' = PgSaveState(pg, NextState)
            \/ req'[p].at = "failed" /\ req'[p].state = req[p].state /\ pg' \in {pg, PgSaveState(pg, NextState)}
<1>1. Typed /\ faults \in Nat  BY DEF TypeOK, StoreTypeOK, Typed
<1>2. R(p).at = "saveState" /\ UNCHANGED <<Around, session, token, seen>>
    BY DEF LoginURL, At, R, Around, Unmoved, SameHands
<1>3. NewState(NextState)  BY NextStateIs DEF LoginURL
<1> DEFINE new == PgSaveState(pg, NextState)
           good == [To(p, "ok") EXCEPT !.state = NextState]
<1>4. PgDo(p, new, good, To(p, "failed"))  BY DEF LoginURL
<1>5. Go(p, good) => 
         /\ Typed' /\ Alone(p) /\ Asked(req[p], req'[p]) /\ req'[p].past = req[p].past
         /\ req'[p].user = req[p].user /\ req'[p].sid = req[p].sid /\ req'[p].tok = req[p].tok /\ req'[p].new = req[p].new
         /\ req'[p].at = "ok" /\ req'[p].state = NextState
    BY <1>1, <1>3, GoState DEF Places, NewState
<1>6. Go(p, To(p, "failed")) =>
         /\ Typed' /\ Alone(p) /\ Asked(req[p], req'[p]) /\ req'[p].past = req[p].past
         /\ req'[p].user = req[p].user /\ req'[p].sid = req[p].sid /\ req'[p].tok = req[p].tok /\ req'[p].new = req[p].new
         /\ req'[p].at = "failed" /\ req'[p].state = req[p].state
    BY <1>1, GoTo DEF Places, Went, Held, Rest
<1> HIDE DEF new, good
<1>7. redis' = redis /\ ((Go(p, good) /\ pg' = new) \/ (Go(p, To(p, "failed")) /\ pg' \in {pg, new}))
    BY <1>1, <1>4, PgDone
<1> QED  BY <1>2, <1>3, <1>5, <1>6, <1>7 DEF new

\* What ConsumeState does.
LEMMA ConsumeStateEffect ==
  ASSUME TypeOK, NEW p \in Clients, ConsumeState(p)
  PROVE  /\ UNCHANGED <<Around, session, token, seen>> /\ redis' = redis /\ R(p).at = "consume"
         /\ \/ Steps(p, "findUser") /\ HasState(pg, R(p).state) /\ pg' = PgConsumeState(pg, R(p).state)
            \/ /\ \E x \in {"denied", "failed"} : Steps(p, x)
               /\ pg' \in {pg, PgConsumeState(pg, R(p).state)}
<1>1. Typed /\ faults \in Nat  BY DEF TypeOK, StoreTypeOK, Typed
<1>2. R(p).at = "consume" /\ UNCHANGED <<Around, session, token, seen>>
    BY DEF ConsumeState, At, R, Around, Unmoved, SameHands
<1> DEFINE new == PgConsumeState(pg, R(p).state)
<1>3. \E x \in {"findUser", "denied"} : /\ PgDo(p, new, To(p, x), To(p, "failed"))
                                        /\ x = "findUser" => HasState(pg, R(p).state)
    BY DEF ConsumeState
<1> HIDE DEF new
<1>4. /\ redis' = redis
      /\ \/ \E x \in {"findUser", "denied"} : Go(p, To(p, x)) /\ pg' = new /\ (x = "findUser" => HasState(pg, R(p).state))
         \/ Go(p, To(p, "failed")) /\ pg' \in {pg, new}
    BY <1>1, <1>3, PgDone
<1>5. \A x \in {"findUser", "denied", "failed"} : Go(p, To(p, x)) => Steps(p, x)
    BY <1>1, GoTo DEF Steps, Places, Rest
<1> QED  BY <1>2, <1>4, <1>5 DEF new

\* The account that a federated sign-in creates is not the local one.
LEMMA FreeIs == Free \in Users \ {Local}
BY AccountsAssumption DEF Free

\* What CreateUser does.
LEMMA CreateUserEffect ==
  ASSUME TypeOK, NEW p \in Clients, CreateUser(p)
  PROVE  /\ Fixed(p) /\ UNCHANGED <<now, redisOn, redis, pg, session, token, access, given, states, script, seen>>
         /\ req'[p].sid = req[p].sid /\ req'[p].tok = req[p].tok /\ req'[p].new = req[p].new
         /\ R(p).at = "createUser"
         /\ \/ /\ identity = NoUser /\ ~users[Free].there /\ identity' = Free
               /\ users' = [users EXCEPT ![Free] = NewRow("opaque")]
               /\ req'[p].user = Free /\ req'[p].at = "sessRedis"
            \/ /\ UNCHANGED <<users, identity>> /\ req'[p].user = req[p].user
               /\ req'[p].at \in {"denied", "findUser"}
<1>1. Typed  BY DEF TypeOK, Typed
<1>2. R(p).at = "createUser" /\ UNCHANGED <<now, redisOn, redis, pg, session, token, access, given, states, script, seen>>
    BY DEF CreateUser, At, R, Unmoved, SameStore, SameHands
<1>3. CASE IdentityFree
    <2>1. Go(p, [To(p, "sessRedis") EXCEPT !.user = Free])  BY <1>3 DEF CreateUser
    <2>2. Free \in Users  BY FreeIs
    <2>3. /\ req'[p].user = Free /\ req'[p].at = "sessRedis" /\ Fixed(p)
          /\ req'[p].sid = req[p].sid /\ req'[p].tok = req[p].tok /\ req'[p].new = req[p].new
        BY <1>1, <2>1, <2>2, GoUser DEF Fixed, Places
    <2> QED  BY <1>2, <1>3, <2>3 DEF CreateUser, IdentityFree, CreateWithExternalIdentity
<1>4. CASE ~IdentityFree
    <2>1. Go(p, To(p, "denied")) \/ Go(p, To(p, "findUser"))  BY <1>4 DEF CreateUser
    <2>2. \E x \in {"denied", "findUser"} : Went(p, x) /\ Rest(req[p], req'[p])  BY <1>1, <2>1, GoTo DEF Places
    <2>3. UNCHANGED <<users, identity>>  BY <1>4 DEF CreateUser
    <2> QED  BY <1>2, <2>2, <2>3 DEF Fixed, Went, Held, Rest
<1> QED  BY <1>3, <1>4

\* A write of the row tells every other request on the account that it has
\* changed, and takes back what the requests on it were told.
Like(r, s) == /\ s.o = r.o /\ s.user = r.user /\ s.sid = r.sid /\ s.tok = r.tok /\ s.new = r.new /\ s.state = r.state
              /\ s.before = r.before /\ s.late = r.late /\ s.spent = r.spent /\ s.locked = r.locked
              /\ s.end = r.end /\ s.row = r.row /\ s.past = r.past

\* A request that was told less is one.
LEMMA ForgetTyped ==
  ASSUME NEW r \in Requests, NEW gone
  PROVE  /\ [r EXCEPT !.told = @ \ gone] \in Requests
         /\ Like(r, [r EXCEPT !.told = @ \ gone])
         /\ [r EXCEPT !.told = @ \ gone].at = r.at
         /\ [r EXCEPT !.told = @ \ gone].told = r.told \ gone
         /\ [r EXCEPT !.told = @ \ gone].same = r.same
BY DEF Requests, Like

\* So is one whose copy of the row has been overtaken.
LEMMA UnlikeTyped ==
  ASSUME NEW r \in Requests
  PROVE  /\ [r EXCEPT !.same = FALSE] \in Requests
         /\ Like(r, [r EXCEPT !.same = FALSE])
         /\ [r EXCEPT !.same = FALSE].at = r.at
         /\ [r EXCEPT !.same = FALSE].told = r.told
         /\ ~[r EXCEPT !.same = FALSE].same
BY DEF Requests, Like

Rewritten(p, u, gone) ==
    /\ Typed'
    /\ \A q \in Clients : Like(req[q], req'[q]) /\ req'[q].told = IF req[q].user = u THEN req[q].told \ gone ELSE req[q].told
    /\ \A q \in Clients : q # p => /\ req'[q].at = req[q].at
                                   /\ req'[q].same => req[q].same /\ req[q].user # u
                                   /\ req[q].user # u => req'[q] = req[q]

\* A write of a row unsettles the copies others have read of it, and nothing else of them.
LEMMA OthersTyped ==
  ASSUME Typed, NEW p \in Clients, NEW u, NEW x \in Places
  PROVE  /\ Others(p, u, To(p, x)) \in [Clients -> Requests]
         /\ \A q \in Clients : Like(req[q], Others(p, u, To(p, x))[q]) /\ Others(p, u, To(p, x))[q].told = req[q].told
         /\ \A q \in Clients : q # p => /\ Others(p, u, To(p, x))[q].at = req[q].at
                                        /\ Others(p, u, To(p, x))[q].same => req[q].same /\ req[q].user # u
                                        /\ req[q].user # u => Others(p, u, To(p, x))[q] = req[q]
         /\ Others(p, u, To(p, x))[p].at = x
<1> DEFINE rs == Others(p, u, To(p, x))
<1>1. rs = [q \in Clients |-> IF q # p /\ req[q].user = u THEN [req[q] EXCEPT !.same = FALSE]
                              ELSE IF q = p THEN To(p, x) ELSE req[q]]
    BY DEF Others
<1> HIDE DEF rs
<1>2. ASSUME NEW q \in Clients
      PROVE  /\ rs[q] \in Requests /\ Like(req[q], rs[q]) /\ rs[q].told = req[q].told
             /\ q # p => rs[q].at = req[q].at /\ (rs[q].same => req[q].same /\ req[q].user # u) /\ (req[q].user # u => rs[q] = req[q])
             /\ q = p => rs[q].at = x
    <2>1. req[q] \in Requests  BY DEF Typed
    <2>2. CASE q = p
        <3>1. rs[q] = To(p, x)  BY <1>1, <2>2
        <3> QED  BY <2>2, <3>1, ToTyped DEF Held, Asked, Rest, Like
    <2>3. CASE q # p /\ req[q].user = u
        <3>1. rs[q] = [req[q] EXCEPT !.same = FALSE]  BY <1>1, <2>3
        <3> QED  BY <2>1, <2>3, <3>1, UnlikeTyped
    <2>4. CASE q # p /\ req[q].user # u
        <3>1. rs[q] = req[q]  BY <1>1, <2>4
        <3> QED  BY <2>1, <2>4, <3>1 DEF Like
    <2> QED  BY <2>2, <2>3, <2>4
<1>3. rs \in [Clients -> Requests]  BY <1>1, <1>2
<1> QED  BY <1>2, <1>3 DEF rs

\* What SaveUser does.
LEMMA SaveUserEffect ==
  ASSUME TypeOK, NEW p \in Clients, SaveUser(p)
  PROVE  \E new, gone :
           /\ new = Changed(R(p).o, R(p).row) /\ gone = Undone(p, [new EXCEPT !.there = TRUE])
           /\ Rewritten(p, R(p).user, gone) /\ R(p).at = "save" /\ req'[p].at = "ok"
           /\ users' = Save(R(p).user, new)
           /\ seen' = [seen EXCEPT !.promised[R(p).user] = @ \ gone]
           /\ UNCHANGED <<now, redisOn, redis, pg, session, token, access, given, states, identity, script>>
<1> DEFINE u == R(p).user
           new == Changed(R(p).o, R(p).row)
           gone == Undone(p, [new EXCEPT !.there = TRUE])
           rs == Others(p, u, To(p, "ok"))
<1>1. /\ R(p).at = "save" /\ users' = Save(u, new) /\ seen' = [seen EXCEPT !.promised[u] = @ \ gone]
      /\ UNCHANGED <<now, redisOn, redis, pg, session, token, access, given, states, identity, script>>
    BY DEF SaveUser, At, R, Unmoved, SameStore, SameHands
<1>2. req' = Forget(rs, u, gone)  BY DEF SaveUser
<1> HIDE DEF new, gone, u
<1>3. Typed /\ "ok" \in Places  BY DEF TypeOK, Typed, Places
<1>4. /\ rs \in [Clients -> Requests] /\ rs[p].at = "ok"
      /\ \A q \in Clients : Like(req[q], rs[q]) /\ rs[q].told = req[q].told
      /\ \A q \in Clients : q # p => rs[q].at = req[q].at /\ (rs[q].same => req[q].same /\ req[q].user # u) /\ (req[q].user # u => rs[q] = req[q])
    BY <1>3, OthersTyped
<1> HIDE DEF rs
<1>5. ASSUME NEW q \in Clients
      PROVE  /\ req'[q] \in Requests /\ Like(req[q], req'[q]) /\ req'[q].at = rs[q].at
             /\ req'[q].told = IF req[q].user = u THEN req[q].told \ gone ELSE req[q].told
             /\ req'[q].same => rs[q].same
             /\ req[q].user # u => req'[q] = rs[q]
    <2>1. rs[q] \in Requests /\ rs[q].user = req[q].user  BY <1>4 DEF Like
    <2>2. CASE req[q].user = u
        <3>1. req'[q] = [rs[q] EXCEPT !.told = @ \ gone]  BY <1>2, <2>1, <2>2 DEF Forget
        <3> QED  BY <1>4, <2>1, <2>2, <3>1, ForgetTyped DEF Like
    <2>3. CASE req[q].user # u
        <3>1. req'[q] = rs[q]  BY <1>2, <2>1, <2>3 DEF Forget
        <3> QED  BY <1>4, <2>1, <2>3, <3>1
    <2> QED  BY <2>2, <2>3
<1>6. req' \in [Clients -> Requests]  BY <1>2, <1>5 DEF Forget
<1>7. Rewritten(p, u, gone) /\ req'[p].at = "ok"  BY <1>4, <1>5, <1>6 DEF Rewritten, Typed
<1> QED  BY <1>1, <1>7 DEF new, gone, u

\* What DeleteUser does.
LEMMA DeleteUserEffect ==
  ASSUME TypeOK, NEW p \in Clients, DeleteUser(p)
  PROVE  /\ Rewritten(p, R(p).user, {}) /\ R(p).at = "delete"
         /\ users' = Deleted(R(p).user) /\ req'[p].at \in {"ok", "denied"}
         /\ UNCHANGED <<now, redisOn, redis, pg, session, token, access, given, states, identity, script, seen>>
<1> DEFINE u == R(p).user
           x == IF users[u].there THEN "ok" ELSE "denied"
           rs == Others(p, u, To(p, x))
<1>1. /\ R(p).at = "delete" /\ users' = Deleted(u) /\ req' = rs
      /\ UNCHANGED <<now, redisOn, redis, pg, session, token, access, given, states, identity, script, seen>>
    BY DEF DeleteUser, At, R, Unmoved, SameStore, SameHands
<1>2. Typed /\ x \in Places /\ x \in {"ok", "denied"}  BY DEF TypeOK, Typed, Places
<1> HIDE DEF x, u
<1>3. /\ rs \in [Clients -> Requests] /\ rs[p].at = x
      /\ \A q \in Clients : Like(req[q], rs[q]) /\ rs[q].told = req[q].told
      /\ \A q \in Clients : q # p => rs[q].at = req[q].at /\ (rs[q].same => req[q].same /\ req[q].user # u) /\ (req[q].user # u => rs[q] = req[q])
    BY <1>2, OthersTyped
<1> HIDE DEF rs
<1>4. Rewritten(p, u, {})  BY <1>1, <1>3 DEF Rewritten, Typed
<1> QED  BY <1>1, <1>2, <1>3, <1>4 DEF u

------------------------------------------------------------------------------
(* The answer of a request.                                                *)

\* No row at all is a row.
LEMMA NoRowTyped == NoRow \in Rows
BY AccountsAssumption DEF NoRow, Rows, Disabled, Active

\* An idle client is a request.
LEMMA IdleTyped == Idle \in Requests
<1>1. NoRow \in Rows  BY NoRowTyped
<1>2. "idle" \in Places  BY DEF Places
<1>3. NoOp \in Operations \cup {NoOp}  OBVIOUS
<1> HIDE DEF NoOp
<1> QED  BY <1>1, <1>2, <1>3 DEF Idle, Requests

\* What Answer does.
LEMMA AnswerEffect ==
  ASSUME TypeOK, NEW p \in Clients, Answer(p)
  PROVE  /\ Typed' /\ Alone(p) /\ req'[p] = Idle /\ R(p).at \in {"ok", "revoked"}
         /\ UNCHANGED <<now, redisOn, redis, pg, session, token, users, identity, script>>
         /\ access' = IF R(p).new # 0 THEN access \cup {[sid |-> R(p).sid, end |-> R(p).end]} ELSE access
         /\ given' = IF R(p).new # 0 THEN given \cup {R(p).new} ELSE given
         /\ states' = IF R(p).o.op = "oidcLogin" THEN states \cup {R(p).state} ELSE states
         /\ seen'.out = seen.out /\ seen'.missed = seen.missed /\ seen'.uses = seen.uses
         /\ seen'.slack = seen.slack /\ seen'.lock = seen.lock
         /\ seen'.outTok = IF R(p).at = "revoked" THEN seen.outTok \cup {R(p).tok} ELSE seen.outTok
         /\ seen'.spent = IF R(p).o.op = "refresh" THEN [seen.spent EXCEPT ![R(p).tok] = @ + 1] ELSE seen.spent
         /\ seen'.signIns = IF R(p).o.op = "oidcCallback" THEN [seen.signIns EXCEPT ![R(p).state] = @ + 1] ELSE seen.signIns
         /\ seen'.promised = IF Promises(R(p)) = {} THEN seen.promised
                             ELSE [seen.promised EXCEPT ![R(p).user] = @ \cup (Promises(R(p)) \cap StillSo(R(p).user))]
<1>1. Typed /\ seen \in Histories  BY DEF TypeOK, Typed
<1>2. Typed' /\ Alone(p) /\ req'[p] = Idle  BY <1>1, IdleTyped, GoTyped DEF Answer
<1>3. /\ R(p).at \in {"ok", "revoked"}
      /\ UNCHANGED <<now, redisOn, redis, pg, session, token, users, identity, script>>
      /\ access' = IF R(p).new # 0 THEN access \cup {[sid |-> R(p).sid, end |-> R(p).end]} ELSE access
      /\ given' = IF R(p).new # 0 THEN given \cup {R(p).new} ELSE given
      /\ states' = IF R(p).o.op = "oidcLogin" THEN states \cup {R(p).state} ELSE states
    BY DEF Answer, At, R, Unmoved, SameStore
<1> DEFINE a == IF R(p).at = "revoked" THEN seen.outTok \cup {R(p).tok} ELSE seen.outTok
           b == IF R(p).o.op = "refresh" THEN [seen.spent EXCEPT ![R(p).tok] = @ + 1] ELSE seen.spent
           c == IF R(p).o.op = "oidcCallback" THEN [seen.signIns EXCEPT ![R(p).state] = @ + 1] ELSE seen.signIns
           d == IF Promises(R(p)) = {} THEN seen.promised
                ELSE [seen.promised EXCEPT ![R(p).user] = @ \cup (Promises(R(p)) \cap StillSo(R(p).user))]
<1>4. seen' = [seen EXCEPT !.outTok = a, !.spent = IF R(p).o.op = "refresh" THEN b ELSE @,
                           !.signIns = IF R(p).o.op = "oidcCallback" THEN c ELSE @,
                           !.promised = IF Promises(R(p)) = {} THEN @ ELSE d]
    BY <1>1 DEF Answer, At, R, Histories
<1>5. /\ seen'.out = seen.out /\ seen'.missed = seen.missed /\ seen'.uses = seen.uses
      /\ seen'.slack = seen.slack /\ seen'.lock = seen.lock
      /\ seen'.outTok = a /\ seen'.spent = b /\ seen'.signIns = c /\ seen'.promised = d
  <2>1. (R(p).o.op = "refresh" \/ b = seen.spent) /\ (R(p).o.op = "oidcCallback" \/ c = seen.signIns)
        /\ (Promises(R(p)) # {} \/ d = seen.promised)
      OBVIOUS
  <2> HIDE DEF a, b, c, d
  <2> QED  BY <1>1, <1>4, <2>1 DEF Histories
<1> QED  BY <1>2, <1>3, <1>5 DEF a, b, c, d

\* What Refuse does.
LEMMA RefuseEffect ==
  ASSUME TypeOK, NEW p \in Clients, Refuse(p)
  PROVE  /\ Typed' /\ Alone(p) /\ req'[p] = Idle /\ R(p).at \in {"denied", "failed", "refused"}
         /\ UNCHANGED <<Around, redis, pg, session, token>>
         /\ \/ seen' = seen
            \/ seen' = [seen EXCEPT !.lock = [k \in Keys |-> IF k \in LoginKeys(R(p).o) /\ Alive(pg.fail[k].lock)
                                                             THEN pg.fail[k].lock ELSE @[k]]]
<1>1. Typed  BY DEF TypeOK, Typed
<1>2. Typed' /\ Alone(p) /\ req'[p] = Idle  BY <1>1, IdleTyped, GoTyped DEF Refuse
<1>3. /\ R(p).at \in {"denied", "failed", "refused"}
      /\ UNCHANGED <<Around, redis, pg, session, token>>
         /\ \/ seen' = seen
            \/ seen' = [seen EXCEPT !.lock = [k \in Keys |-> IF k \in LoginKeys(R(p).o) /\ Alive(pg.fail[k].lock)
                                                             THEN pg.fail[k].lock ELSE @[k]]]
    BY DEF Refuse, At, R, Unmoved, SameStore, SameHands, Around
<1> QED  BY <1>2, <1>3

------------------------------------------------------------------------------
(* A request starts.                                                       *)

Begun(p, r, s) ==
    /\ s.o = Head(script[p]) /\ s.before = {a.sid : a \in access}
    /\ s.late <=> r.sid \in seen.out
    /\ s.spent <=> r.tok \in seen.outTok
    /\ s.told = (IF r.user = NoUser THEN {} ELSE seen.promised[r.user])
    /\ s.locked = {k \in Keys : Alive(seen.lock[k])}
    /\ s.at = r.at /\ s.user = r.user /\ s.sid = r.sid /\ s.tok = r.tok /\ s.new = r.new /\ s.state = r.state
    /\ s.end = r.end /\ s.past = r.past

\* What Begin does.
LEMMA BeginEffect ==
  ASSUME TypeOK, NEW p \in Clients, NEW r \in Requests, Begin(p, r)
  PROVE  /\ Typed' /\ Alone(p) /\ Begun(p, r, req'[p]) /\ R(p).at = "idle"
         /\ Head(script[p]) \in Operations /\ script' \in [Clients -> Seq(Operations)]
         /\ UNCHANGED <<now, redisOn, redis, pg, session, token, access, given, states, users, identity, seen>>
<1> DEFINE o == Head(script[p])
           before == {a.sid : a \in access}
           late == r.sid \in seen.out
           spent == r.tok \in seen.outTok
           told == IF r.user = NoUser THEN {} ELSE seen.promised[r.user]
           locked == {k \in Keys : Alive(seen.lock[k])}
           s == [r EXCEPT !.o = o, !.before = before, !.late = late, !.spent = spent, !.told = told, !.locked = locked]
<1>1. /\ R(p).at = "idle" /\ script[p] # <<>> /\ Go(p, s)
      /\ script' = [script EXCEPT ![p] = Tail(@)]
      /\ UNCHANGED <<now, redisOn, redis, pg, session, token, access, given, states, users, identity, seen>>
    BY DEF Begin, At, R, Unmoved, SameStore, SameHands
<1>2. Typed /\ script \in [Clients -> Seq(Operations)]  BY DEF TypeOK, Typed
<1>3. o \in Operations /\ Tail(script[p]) \in Seq(Operations)  BY <1>1, <1>2
<1>4. script' \in [Clients -> Seq(Operations)]  BY <1>1, <1>2, <1>3
<1>5. before \in SUBSET Sids  BY DEF TypeOK
<1>6. late \in BOOLEAN /\ spent \in BOOLEAN  OBVIOUS
<1>7. told \in SUBSET {"shut", "mfa"}
    <2>1. r.user \in Users \cup {NoUser} /\ seen.promised \in [Users -> SUBSET {"shut", "mfa"}]
        BY DEF Requests, TypeOK, Histories
    <2> QED  BY <2>1
<1>8. locked \in SUBSET Keys  OBVIOUS
<1>9. s \in Requests /\ Begun(p, r, s)
    <2>1. /\ s \in Requests /\ s.o = o /\ s.before = before /\ s.told = told /\ s.locked = locked
          /\ (s.late <=> late) /\ (s.spent <=> spent)
          /\ s.at = r.at /\ s.user = r.user /\ s.sid = r.sid /\ s.tok = r.tok /\ s.new = r.new /\ s.state = r.state
          /\ s.end = r.end /\ s.past = r.past
        <3> HIDE DEF o, before, late, spent, told, locked
        <3> QED  BY <1>3, <1>5, <1>6, <1>7, <1>8 DEF Requests
    <2> HIDE DEF s
    <2> QED  BY <2>1 DEF Begun
<1> HIDE DEF s
<1>10. Typed' /\ Alone(p) /\ req'[p] = s  BY <1>1, <1>2, <1>9, GoTyped
<1> QED  BY <1>1, <1>3, <1>4, <1>9, <1>10

------------------------------------------------------------------------------
(* The start of a request.                                                 *)

\* Where each kind of request starts, and with what.
Starts(o, r) ==
    /\ r.new = 0 /\ ~r.past
    /\ \/ /\ o.op = "login" /\ r.at = "captcha" /\ r.user = o.user /\ r.sid = 0 /\ r.tok = 0 /\ r.state = 0
       \/ /\ o.op = "refresh" \/ (o.op \in {"logout", "logoutAll"} /\ o.gives = "refresh")
          /\ r.at = "verify" /\ r.tok \in given /\ r.sid = token[r.tok].sid /\ r.end = token[r.tok].end /\ r.state = 0
          /\ r.user = session[r.sid].user
       \/ /\ o.op = "use" \/ (o.op \in {"logout", "logoutAll"} /\ o.gives # "refresh")
          /\ r.at = "verify" /\ r.tok = 0 /\ (\E a \in access : r.sid = a.sid /\ r.end = a.end) /\ r.state = 0
          /\ r.user = session[r.sid].user
       \/ /\ o.op \in Account /\ r.at = "read" /\ r.user = o.user /\ r.sid = 0 /\ r.tok = 0 /\ r.state = 0
       \/ /\ o.op = "oidcLogin" /\ r.at = "saveState" /\ r.user = NoUser /\ r.sid = 0 /\ r.tok = 0 /\ r.state = 0
       \/ /\ o.op = "oidcCallback" /\ r.at = "hasState" /\ r.user = identity /\ r.sid = 0 /\ r.tok = 0
          /\ r.state \in states

\* A request that starts is one of those Starts lists.
LEMMA StartEffect ==
  ASSUME TypeOK, Handed, NEW p \in Clients, Start(p)
  PROVE  \E r \in Requests : Begin(p, r) /\ Starts(Head(script[p]), r)
<1> DEFINE o == Head(script[p])
           Goal == \E r \in Requests : Begin(p, r) /\ Starts(o, r)
<1>1. script[p] # <<>> /\ script \in [Clients -> Seq(Operations)]  BY DEF Start, TypeOK
<1>2. o \in Operations  BY <1>1
<1>3. o.user \in Users /\ identity \in Users \cup {NoUser}  BY <1>2 DEF Operations, TypeOK, AccountsTypeOK
<1>4. Idle \in Requests /\ Idle.new = 0 /\ ~Idle.past /\ Idle.sid = 0 /\ Idle.tok = 0 /\ Idle.state = 0 /\ Idle.user = NoUser
    BY IdleTyped DEF Idle
<1>5. {"captcha", "verify", "read", "saveState", "hasState"} \subseteq Places  BY DEF Places
<1>6. \A s \in Sids : session[s].user \in Users \cup {NoUser}
    BY DEF TypeOK, StoreTypeOK, TokenSessions
<1> HIDE DEF o, Goal
<1> DEFINE a == [Idle EXCEPT !.at = "captcha", !.user = o.user]
           d == [Idle EXCEPT !.at = "read", !.user = o.user]
           e == [Idle EXCEPT !.at = "saveState"]
           b(t) == [Idle EXCEPT !.at = "verify", !.tok = t, !.sid = token[t].sid,
                                !.user = session[token[t].sid].user, !.end = token[t].end]
           c(x) == [Idle EXCEPT !.at = "verify", !.sid = x.sid, !.user = session[x.sid].user, !.end = x.end]
           f(st) == [Idle EXCEPT !.at = "hasState", !.state = st, !.user = identity]
<1>7. \/ o.op = "login" /\ Begin(p, a)
      \/ /\ o.op = "refresh" \/ (o.op \in {"logout", "logoutAll"} /\ o.gives = "refresh")
         /\ \E t \in given : Begin(p, b(t))
      \/ /\ o.op = "use" \/ (o.op \in {"logout", "logoutAll"} /\ o.gives # "refresh")
         /\ \E x \in access : Begin(p, c(x))
      \/ o.op \in Account /\ Begin(p, d)
      \/ o.op = "oidcLogin" /\ Begin(p, e)
      \/ o.op = "oidcCallback" /\ \E st \in states : Begin(p, f(st))
    BY DEF Start, StartOIDC, o
<1> HIDE DEF a, b, c, d, e, f
<1>8. ASSUME o.op = "login", Begin(p, a) PROVE Goal
    <2>1. a \in Requests /\ Starts(o, a)  BY <1>3, <1>4, <1>5, <1>8 DEF Requests, Starts, a
    <2> QED  BY <1>8, <2>1 DEF Goal
<1>9. ASSUME o.op \in Account, Begin(p, d) PROVE Goal
    <2>1. d \in Requests /\ Starts(o, d)  BY <1>3, <1>4, <1>5, <1>9 DEF Requests, Starts, d
    <2> QED  BY <1>9, <2>1 DEF Goal
<1>10. ASSUME o.op = "oidcLogin", Begin(p, e) PROVE Goal
    <2>1. e \in Requests /\ Starts(o, e)  BY <1>4, <1>5, <1>10 DEF Requests, Starts, e
    <2> QED  BY <1>10, <2>1 DEF Goal
<1>11. ASSUME o.op = "oidcCallback", NEW st \in states, Begin(p, f(st)) PROVE Goal
    <2>1. st \in States  BY DEF TypeOK
    <2>2. f(st) \in Requests /\ Starts(o, f(st))  BY <1>3, <1>4, <1>5, <1>11, <2>1 DEF Requests, Starts, f
    <2> QED  BY <1>11, <2>2 DEF Goal
<1>12. ASSUME o.op = "refresh" \/ (o.op \in {"logout", "logoutAll"} /\ o.gives = "refresh"),
              NEW t \in given, Begin(p, b(t)) PROVE Goal
    <2>1. t \in Toks /\ token[t].sid \in Sids /\ token[t].end \in Nat
        BY DEF TypeOK, StoreTypeOK, RefreshTokenRecords, Handed
    <2>2. /\ b(t) \in Requests /\ b(t).new = 0 /\ ~b(t).past /\ b(t).at = "verify" /\ b(t).tok = t
          /\ b(t).sid = token[t].sid /\ b(t).end = token[t].end /\ b(t).state = 0
          /\ b(t).user = session[token[t].sid].user
        <3> DEFINE s == token[t].sid
                   x == token[t].end
                   u == session[s].user
        <3>1. s \in Sids /\ x \in Nat /\ u \in Users \cup {NoUser}  BY <1>6, <2>1
        <3>2. b(t) = [Idle EXCEPT !.at = "verify", !.tok = t, !.sid = s, !.user = u, !.end = x]  BY DEF b
        <3> HIDE DEF s, x, u
        <3>3. /\ b(t) \in Requests /\ b(t).new = 0 /\ ~b(t).past /\ b(t).at = "verify" /\ b(t).tok = t
              /\ b(t).sid = s /\ b(t).end = x /\ b(t).state = 0 /\ b(t).user = u
            BY <1>4, <1>5, <2>1, <3>1, <3>2 DEF Requests
        <3> QED  BY <3>3 DEF s, x, u
    <2>3. Starts(o, b(t))  BY <1>12, <2>2 DEF Starts
    <2> QED  BY <1>12, <2>2, <2>3 DEF Goal
<1>13. ASSUME o.op = "use" \/ (o.op \in {"logout", "logoutAll"} /\ o.gives # "refresh"),
              NEW x \in access, Begin(p, c(x)) PROVE Goal
    <2>1. x.sid \in Sids /\ x.end \in Nat  BY DEF TypeOK
    <2>2. /\ c(x) \in Requests /\ c(x).new = 0 /\ ~c(x).past /\ c(x).at = "verify" /\ c(x).tok = 0
          /\ c(x).sid = x.sid /\ c(x).end = x.end /\ c(x).state = 0 /\ c(x).user = session[x.sid].user
        <3> DEFINE s == x.sid
                   y == x.end
                   u == session[s].user
        <3>1. s \in Sids /\ y \in Nat /\ u \in Users \cup {NoUser}  BY <1>6, <2>1
        <3>2. c(x) = [Idle EXCEPT !.at = "verify", !.sid = s, !.user = u, !.end = y]  BY DEF c
        <3> HIDE DEF s, y, u
        <3>3. /\ c(x) \in Requests /\ c(x).new = 0 /\ ~c(x).past /\ c(x).at = "verify" /\ c(x).tok = 0
              /\ c(x).sid = s /\ c(x).end = y /\ c(x).state = 0 /\ c(x).user = u
            BY <1>4, <1>5, <3>1, <3>2 DEF Requests
        <3> QED  BY <3>3 DEF s, y, u
    <2>3. Starts(o, c(x))  BY <1>13, <2>2 DEF Starts
    <2> QED  BY <1>13, <2>2, <2>3 DEF Goal
<1>14. Goal  BY <1>7, <1>8, <1>9, <1>10, <1>11, <1>12, <1>13
<1> QED  BY <1>14 DEF Goal, o

------------------------------------------------------------------------------
(* What the operations of the stores keep: the types of both.              *)

PgTyped == PgStates(Claims, States)

\* A count in Postgres replaced by another keeps the types.
LEMMA PgFailTyped ==
  ASSUME NEW d \in PgTyped, NEW k \in Keys, NEW x \in [n : Nat, lock : Nat, end : Nat]
  PROVE  [d EXCEPT !.fail[k] = x] \in PgTyped
BY DEF PgTyped, PgStates

\* The operations of Postgres keep its types.
LEMMA PgOps ==
  ASSUME AuthStoreAssumption, now \in Nat, NEW d \in PgTyped
  PROVE  /\ \A s \in Sids, e \in Nat : PgCreateSession(d, s, e) \in PgTyped /\ PgRevokeSession(d, s, e) \in PgTyped
         /\ \A t \in Toks : PgRevokeToken(d, t) \in PgTyped /\ PgStoreRefreshToken(d, t) \in PgTyped
         /\ \A t, n \in Toks : PgRotate(d, t, n) \in PgTyped
         /\ \A k \in Keys, done \in 0..2 : PgIncrement(d, k, done) \in PgTyped
         /\ \A ks \in SUBSET Keys : PgClear(d, ks) \in PgTyped
         /\ \A key \in Claims : PgClaim(d, key) \in PgTyped
         /\ \A st \in States : PgSaveState(d, st) \in PgTyped /\ PgConsumeState(d, st) \in PgTyped
<1> USE DEF PgTyped, PgStates, TokenStates
<1>1. ASSUME NEW s \in Sids, NEW e \in Nat PROVE PgCreateSession(d, s, e) \in PgTyped  BY DEF PgCreateSession
<1>2. ASSUME NEW s \in Sids, NEW e \in Nat PROVE PgRevokeSession(d, s, e) \in PgTyped  BY DEF PgRevokeSession, Later
<1>3. ASSUME NEW t \in Toks PROVE PgRevokeToken(d, t) \in PgTyped  BY DEF PgRevokeToken
<1>4. ASSUME NEW t \in Toks PROVE PgStoreRefreshToken(d, t) \in PgTyped  BY DEF PgStoreRefreshToken
<1>5. ASSUME NEW t \in Toks, NEW n \in Toks PROVE PgRotate(d, t, n) \in PgTyped  BY DEF PgRotate
<1>6. ASSUME NEW k \in Keys, NEW done \in 0..2 PROVE PgIncrement(d, k, done) \in PgTyped
  <2> DEFINE row == d.fail[k]
             n == IF Alive(row.end) THEN row.n + 1 ELSE 1
             kept == IF Alive(row.end) THEN row.lock ELSE now
             lock == IF done > 1 /\ n >= LockAfter /\ ~Alive(kept) THEN now + Lockout ELSE kept
             new == IF done > 0 THEN [n |-> n, lock |-> lock, end |-> now + Lockout] ELSE row
  <2>1. row \in [n : Nat, lock : Nat, end : Nat]  OBVIOUS
  <2>2. now + Lockout \in Nat  BY DEF AuthStoreAssumption
  <2>3. n \in Nat /\ kept \in Nat  BY <2>1
  <2>4. lock \in Nat
      <3> HIDE DEF n, kept
      <3> QED  BY <2>2, <2>3
  <2>5. new \in [n : Nat, lock : Nat, end : Nat]
      <3> HIDE DEF n, lock, row
      <3> QED  BY <2>1, <2>2, <2>3, <2>4
  <2>6. PgIncrement(d, k, done) = [d EXCEPT !.fail[k] = new]  BY DEF PgIncrement
  <2> HIDE DEF new, PgTyped, PgStates, TokenStates
  <2> QED  BY <2>5, <2>6, PgFailTyped
<1>7. ASSUME NEW ks \in SUBSET Keys PROVE PgClear(d, ks) \in PgTyped  BY DEF PgClear, NoFailure
<1>8. ASSUME NEW key \in Claims PROVE PgClaim(d, key) \in PgTyped
    <2>1. now + ClaimTTL \in Nat  BY DEF AuthStoreAssumption
    <2>2. [key |-> key, end |-> now + ClaimTTL] \in [key : Claims, end : Nat]  BY <2>1
    <2> QED  BY <2>2 DEF PgClaim
<1>9. ASSUME NEW st \in States PROVE PgSaveState(d, st) \in PgTyped
    <2>1. now + StateTTL \in Nat  BY DEF AuthStoreAssumption
    <2>2. [state |-> st, end |-> now + StateTTL] \in [state : States, end : Nat]  BY <2>1
    <2> QED  BY <2>2 DEF PgSaveState
<1>10. ASSUME NEW st \in States PROVE PgConsumeState(d, st) \in PgTyped  BY DEF PgConsumeState
<1> HIDE DEF PgTyped, PgStates, TokenStates
<1> QED  BY <1>1, <1>2, <1>3, <1>4, <1>5, <1>6, <1>7, <1>8, <1>9, <1>10

\* So do those on many rows.
LEMMA PgSweeps ==
  ASSUME NEW d \in PgTyped, NEW u
  PROVE  Expired(d) \in PgTyped /\ PgRevokeSubjectSessions(d, u) \in PgTyped
<1> USE DEF PgTyped, PgStates, TokenStates
<1>1. Expired(d) \in PgTyped  BY DEF Expired, NoFailure
<1>2. PgRevokeSubjectSessions(d, u) \in PgTyped
  <2> DEFINE ss == [s \in Sids |-> IF session[s].user = u /\ Holds(d, s) /\ Alive(d.sess[s].end)
                                   THEN [end |-> d.sess[s].end, revoked |-> TRUE] ELSE d.sess[s]]
             ts == [t \in Toks |-> IF d.tok[t] = "live" /\ Alive(token[t].end) /\ session[token[t].sid].user = u
                                      THEN "revoked" ELSE d.tok[t]]
  <2>1. ss \in [Sids -> [end : Nat, revoked : BOOLEAN]]  OBVIOUS
  <2>2. ts \in [Toks -> TokenStates]  OBVIOUS
  <2>3. PgRevokeSubjectSessions(d, u) = [d EXCEPT !.sess = ss, !.tok = ts]  BY DEF PgRevokeSubjectSessions
  <2> HIDE DEF ss, ts
  <2> QED  BY <2>1, <2>2, <2>3
<1> QED  BY <1>1, <1>2

WithCount(r, k, x, y) == [r EXCEPT !.fail[k] = x, !.lock[k] = y]
\* A count in Redis replaced by another keeps the types.
LEMMA RedisFailTyped ==
  ASSUME NEW r \in RedisStates, NEW k \in Keys, NEW x \in [n : Nat, end : Nat], NEW y \in Nat
  PROVE  WithCount(r, k, x, y) \in RedisStates
BY DEF RedisStates, WithCount

\* The counts in Redis keep its types.
LEMMA RedisCounts ==
  ASSUME AuthStoreAssumption, now \in Nat, NEW r \in RedisStates
  PROVE  /\ \A k \in Keys, done \in 0..3 : RedisIncrement(r, k, done) \in RedisStates
         /\ \A ks \in SUBSET Keys : RedisClear(r, ks) \in RedisStates
         /\ EmptyRedis \in RedisStates
<1> USE DEF RedisStates, TokenStates
<1>1. ASSUME NEW k \in Keys, NEW done \in 0..3 PROVE RedisIncrement(r, k, done) \in RedisStates
  <2> DEFINE n == IF ~Alive(r.fail[k].end) THEN 1 ELSE r.fail[k].n + 1
             end == IF Alive(r.fail[k].end) THEN r.fail[k].end ELSE IF done > 1 THEN now + Lockout ELSE Forever
             fail == IF done > 0 THEN [n |-> n, end |-> end] ELSE r.fail[k]
             lock == IF done > 2 /\ n >= LockAfter THEN now + Lockout ELSE r.lock[k]
  <2>1. n \in Nat /\ end \in Nat /\ now + Lockout \in Nat  BY DEF AuthStoreAssumption, Forever
  <2>2. fail \in [n : Nat, end : Nat] /\ lock \in Nat
      <3> HIDE DEF n, end
      <3> QED  BY <2>1
  <2>3. RedisIncrement(r, k, done) = WithCount(r, k, fail, lock)  BY DEF RedisIncrement, WithCount
  <2> HIDE DEF fail, lock, RedisStates, TokenStates
  <2> QED  BY <2>2, <2>3, RedisFailTyped
<1>2. ASSUME NEW ks \in SUBSET Keys PROVE RedisClear(r, ks) \in RedisStates  BY DEF RedisClear
<1>3. EmptyRedis \in RedisStates  BY DEF EmptyRedis
<1> HIDE DEF RedisStates, TokenStates
<1> QED  BY <1>1, <1>2, <1>3

------------------------------------------------------------------------------
(* The budgets of the environment, and the steps that only think, together. *)

\* A step of a client leaves the budgets of time and losses alone.
LEMMA Budget ==
  ASSUME NEW p \in Clients, Step(p), faults \in Nat
  PROVE  faults' \in Nat /\ ticks' = ticks /\ losses' = losses
<1> USE DEF Unmoved, Reads, CanFail, PgDo, RedisDo
<1>1. CASE Start(p)  BY <1>1 DEF Start, StartOIDC, Begin
<1>2. CASE VerifyToken(p)  BY <1>2 DEF VerifyToken
<1>3. CASE Resolve(p) \/ Rotate(p) \/ RotateMirror(p)  BY <1>3 DEF Resolve, Rotate, RotateMirror
<1>4. CASE GetSession(p)  BY <1>4 DEF GetSession
<1>5. CASE RevokeSessionRedis(p) \/ RevokeSessionPg(p)  BY <1>5 DEF RevokeSessionRedis, RevokeSessionPg
<1>14. CASE RevokeOtherToken(p)
    <2>1. faults' = faults /\ ticks' = ticks /\ losses' = losses  BY <1>14, Zenon DEF RevokeOtherToken
    <2> QED  BY <2>1
<1>6. CASE RevokeTokenRedis(p) \/ RevokeTokenPg(p) \/ ReadMembers(p) \/ RevokeAllRedis(p) \/ RevokeAllPg(p)
    BY <1>6 DEF RevokeTokenRedis, RevokeTokenPg, ReadMembers, RevokeAllRedis, RevokeAllPg
<1>7. CASE RequiresCaptcha(p)  BY <1>7 DEF RequiresCaptcha
<1>8. CASE LoginLock(p)  BY <1>8 DEF LoginLock
<1>9. CASE CheckPassword(p)
    <2>1. UNCHANGED faults /\ Unmoved  BY <1>9, Zenon DEF CheckPassword
    <2> QED  BY <2>1
<1>17. CASE ClaimOnce(p)
    <2>1. (UNCHANGED faults \/ (CanFail /\ faults' = faults - 1)) /\ Unmoved  BY <1>17, Zenon DEF ClaimOnce
    <2> QED  BY <2>1
<1>15. CASE CountFailurePg(p)  BY <1>15 DEF CountFailurePg
<1>16. CASE CountFailureRedis(p)  BY <1>16 DEF CountFailureRedis
<1>10. CASE CreateSessionRedis(p) \/ CreateSessionPg(p) \/ StoreTokenRedis(p) \/ StoreTokenPg(p)
    BY <1>10 DEF CreateSessionRedis, CreateSessionPg, StoreTokenRedis, StoreTokenPg
<1>11. CASE ClearFailures(p) \/ LoginURL(p) \/ ConsumeState(p)
    BY <1>11 DEF ClearFailures, LoginURL, ConsumeState
<1>12. CASE HasOIDCState(p) \/ Exchange(p) \/ FindUser(p) \/ CreateUser(p) \/ ReadUser(p) \/ ReadAgain(p)
    BY <1>12 DEF HasOIDCState, Exchange, FindUser, CreateUser, ReadUser, ReadAgain
<1>13. CASE SaveUser(p) \/ DeleteUser(p) \/ Answer(p) \/ Refuse(p)
    BY <1>13 DEF SaveUser, DeleteUser, Answer, Refuse
<1> QED  BY <1>1, <1>2, <1>3, <1>4, <1>5, <1>6, <1>7, <1>8, <1>9, <1>10, <1>11, <1>12, <1>13, <1>14, <1>15, <1>16, <1>17 DEF Step

\* The steps of a client that only think, all together.
Thinking0(p) == \/ VerifyToken(p) \/ Resolve(p) \/ GetSession(p) \/ RotateMirror(p) \/ RevokeSessionRedis(p)
                \/ RevokeTokenRedis(p) \/ RevokeAllRedis(p) \/ ReadMembers(p) \/ RequiresCaptcha(p) \/ LoginLock(p)
                \/ CheckPassword(p) \/ HasOIDCState(p) \/ Exchange(p) \/ ReadAgain(p) \/ ReadUser(p)

\* The thinking steps, together.
LEMMA AllThink ==
  ASSUME TypeOK, Routes, Handed, Owned, NEW p \in Clients, Thinking0(p)
  PROVE  Thinks(p) /\ (LoginLock(p) \/ req'[p].past = req[p].past)
<1>1. Typed  BY DEF TypeOK, Typed
<1>2. R(p).at = "user" => R(p).o \in Operations  BY DEF Routes, Route
<1>3. R(p).at = "read" => R(p).user \in Users
    BY DEF Routes, Route, Operations
<1>4. CASE CheckPassword(p)  BY <1>2, <1>4, CheckPasswordThinks DEF CheckPassword, At, R
<1>5. CASE ReadUser(p)  BY <1>3, <1>5, ReadUserThinks DEF ReadUser, At, R
<1> QED  BY <1>1, <1>4, <1>5, VerifyThinks, ResolveThinks, GetSessionThinks, RotateMirrorThinks, RevokeSessionRedisThinks,
            RevokeTokenRedisThinks, RevokeAllRedisThinks, ReadMembersThinks, RequiresCaptchaThinks, LoginLockThinks,
            CallbackThinks DEF Thinking0

\* A count that goes up is still one.
LEMMA NatCount == ASSUME NEW S, NEW f \in [S -> Nat], NEW x \in S PROVE [f EXCEPT ![x] = @ + 1] \in [S -> Nat]
OBVIOUS

\* What is remembered for the properties keeps its types.
LEMMA SeenTyped ==
  ASSUME seen \in Histories
  PROVE  /\ \A X \in SUBSET Sids : [seen EXCEPT !.out = @ \cup X] \in Histories
         /\ \A k \in Claims : [seen EXCEPT !.uses[k] = @ + 1] \in Histories
         /\ \A k \in Claims : [seen EXCEPT !.uses[k] = @ + 1, !.slack[k] = @ + 1] \in Histories
         /\ \A k \in Keys : [seen EXCEPT !.missed = @ \cup {k}] \in Histories
         /\ \A u \in Users : \A gone : [seen EXCEPT !.promised[u] = @ \ gone] \in Histories
         /\ \A f \in [Keys -> Nat] : [seen EXCEPT !.lock = f] \in Histories
         /\ \A f \in [Claims -> Nat] : [seen EXCEPT !.slack = f] \in Histories
<1> USE DEF Histories
<1>1. ASSUME NEW X \in SUBSET Sids PROVE [seen EXCEPT !.out = @ \cup X] \in Histories  OBVIOUS
<1>2. ASSUME NEW k \in Claims PROVE [seen EXCEPT !.uses[k] = @ + 1] \in Histories  OBVIOUS
<1>3. ASSUME NEW k \in Claims PROVE [seen EXCEPT !.uses[k] = @ + 1, !.slack[k] = @ + 1] \in Histories
    <2>1. [seen EXCEPT !.uses[k] = @ + 1] \in Histories /\ [seen EXCEPT !.uses[k] = @ + 1].slack = seen.slack  BY <1>2
    <2>2. ASSUME NEW h \in Histories PROVE [h EXCEPT !.slack[k] = @ + 1] \in Histories  OBVIOUS
    <2>3. [[seen EXCEPT !.uses[k] = @ + 1] EXCEPT !.slack[k] = @ + 1] \in Histories
        <3> DEFINE h == [seen EXCEPT !.uses[k] = @ + 1]
        <3>1. h \in Histories  BY <2>1
        <3> HIDE DEF h, Histories
        <3>2. [h EXCEPT !.slack[k] = @ + 1] \in Histories  BY <2>2, <3>1
        <3> QED  BY <3>2 DEF h
    <2> QED  BY <2>3
<1>4. ASSUME NEW k \in Keys PROVE [seen EXCEPT !.missed = @ \cup {k}] \in Histories  OBVIOUS
<1>5. ASSUME NEW u \in Users, NEW gone PROVE [seen EXCEPT !.promised[u] = @ \ gone] \in Histories  OBVIOUS
<1>6. ASSUME NEW f \in [Keys -> Nat] PROVE [seen EXCEPT !.lock = f] \in Histories  OBVIOUS
<1>7. ASSUME NEW f \in [Claims -> Nat] PROVE [seen EXCEPT !.slack = f] \in Histories  OBVIOUS
<1> HIDE DEF Histories
<1> QED  BY <1>1, <1>2, <1>3, <1>4, <1>5, <1>6, <1>7

------------------------------------------------------------------------------
(* Typing: what TypeOK says of each variable.                              *)

Stored == /\ session \in [Sids -> TokenSessions] /\ token \in [Toks -> RefreshTokenRecords]
          /\ redis \in RedisStates /\ pg \in PgTyped
          /\ users \in [Users -> Rows] /\ identity \in Users \cup {NoUser}
          /\ script \in [Clients -> Seq(Operations)] /\ Typed
          /\ access \subseteq [sid : Sids, end : Nat] /\ given \subseteq Toks /\ states \subseteq States
          /\ seen \in Histories

\* TypeOK, with what is stored taken apart.
LEMMA TypeIs == TypeOK <=> /\ Stored
                           /\ now \in Nat /\ ticks \in Nat /\ ticks + now <= MaxNow /\ redisOn \in BOOLEAN
                           /\ faults \in Nat /\ losses \in Nat
BY DEF TypeOK, StoreTypeOK, AccountsTypeOK, Stored, Typed, PgTyped

\* What a request names at the places where it is used.
LEMMA Named ==
  ASSUME TypeOK, Routes, Handed, Owned, NEW p \in Clients
  PROVE  /\ R(p).at # "idle" => R(p).o \in Operations
         /\ R(p).sid # 0 => R(p).sid \in Sids
         /\ R(p).tok # 0 => R(p).tok \in Toks
         /\ R(p).new # 0 => R(p).new \in Toks /\ R(p).sid \in Sids
         /\ R(p).end \in Nat
         /\ R(p).o.op \in {"login"} \cup Account /\ R(p).at # "idle" => R(p).user \in Users
         /\ R(p).user \in Users \cup {NoUser}
         /\ R(p).state \in States \cup {0}
         /\ R(p).row \in Rows
         /\ R(p).before \subseteq Sids
<1>1. R(p) \in Requests  BY DEF TypeOK, R
<1>2. /\ R(p).sid \in Sids \cup {0} /\ R(p).tok \in Toks \cup {0} /\ R(p).new \in Toks \cup {0} /\ R(p).end \in Nat
      /\ R(p).user \in Users \cup {NoUser} /\ R(p).state \in States \cup {0} /\ R(p).row \in Rows /\ R(p).before \subseteq Sids
    BY <1>1 DEF Requests
<1>3. Route(R(p))  BY DEF Routes
<1>4. /\ R(p).at # "idle" => R(p).o \in Operations
      /\ R(p).o.op \in {"login"} \cup Account /\ R(p).at # "idle" => R(p).user \in Users
    BY <1>3 DEF Route, Operations
<1>5. R(p).new # 0 => R(p).sid # 0
    <2>1. R(p).new # 0 => token[R(p).new].sid # 0 /\ token[R(p).new].sid = R(p).sid  BY DEF Handed
    <2> QED  BY <2>1
<1> QED  BY <1>2, <1>4, <1>5

\* A changed row is a row.
LEMMA ChangedTyped ==
  ASSUME NEW o \in Operations, o.op \in Changing, NEW row \in Rows
  PROVE  [Changed(o, row) EXCEPT !.there = TRUE] \in Rows
<1> USE DEF Operations, Rows, Disabled, Active
<1>1. CASE o.op = "update"
    <2>1. UpdateUser(o, row) \in Rows  BY DEF UpdateUser, NormalizeStatus
    <2>2. Changed(o, row) = UpdateUser(o, row)  BY <1>1 DEF Changed
    <2> QED  BY <2>1, <2>2
<1>2. CASE o.op = "updateCurrent"
    <2>1. UpdateCurrent(o, row) \in Rows  BY DEF UpdateCurrent
    <2>2. Changed(o, row) = UpdateCurrent(o, row)  BY <1>2 DEF Changed
    <2> QED  BY <2>1, <2>2
<1>3. CASE o.op = "updatePassword"
    <2>1. UpdateCurrentPassword(o, row) \in Rows  BY DEF UpdateCurrentPassword
    <2>2. Changed(o, row) = UpdateCurrentPassword(o, row)  BY <1>3 DEF Changed
    <2> QED  BY <2>1, <2>2
<1>4. CASE o.op = "enableMFA"
    <2>1. EnableMFA(o, row) \in Rows  BY DEF EnableMFA
    <2>2. Changed(o, row) = EnableMFA(o, row)  BY <1>4 DEF Changed
    <2> QED  BY <2>1, <2>2
<1>5. CASE o.op = "confirmMFA"
    <2>1. ConfirmMFA(row) \in Rows  BY DEF ConfirmMFA
    <2>2. Changed(o, row) = ConfirmMFA(row)  BY <1>5 DEF Changed
    <2> QED  BY <2>1, <2>2
<1>6. CASE o.op = "disableMFA"
    <2>1. DisableMFA(row) \in Rows  BY AccountsAssumption DEF DisableMFA
    <2>2. Changed(o, row) = DisableMFA(row)  BY <1>6 DEF Changed
    <2> QED  BY <2>1, <2>2
<1>7. CASE o.op = "adminReset"
    <2>1. ResetAdmin(o, row) \in Rows  BY AccountsAssumption DEF ResetAdmin
    <2>2. Changed(o, row) = ResetAdmin(o, row)  BY <1>7 DEF Changed
    <2> QED  BY <2>1, <2>2
<1> QED  BY <1>1, <1>2, <1>3, <1>4, <1>5, <1>6, <1>7 DEF Changing

------------------------------------------------------------------------------
(* Typing is kept by every step.                                           *)

Kept0 == TypeOK /\ Routes /\ Handed /\ Owned

\* The steps of a client that do not just think, grouped by what they change.
LEMMA ThinkStored ==
  ASSUME Kept0, NEW p \in Clients, Thinking0(p)
  PROVE  Stored' /\ UNCHANGED <<now, redisOn>>
<1>1. Thinks(p) /\ Stored  BY AllThink, TypeIs DEF Kept0
<1> QED  BY <1>1 DEF Thinks, World, Stored, SameCounts, Typed, PgTyped

\* Postgres alone, and the request.
LEMMA PgStored ==
  ASSUME TypeOK, redis' = redis, UNCHANGED <<Around, session, token>>, Typed', pg' \in PgTyped, seen' \in Histories
  PROVE  Stored' /\ UNCHANGED <<now, redisOn>>
BY TypeIs DEF Stored, Around, Typed, PgTyped

\* Signing out keeps what is stored typed.
LEMMA SessionStored ==
  ASSUME Kept0, NEW p \in Clients, RevokeSessionPg(p) \/ RevokeTokenPg(p) \/ RevokeAllPg(p) \/ RevokeOtherToken(p)
  PROVE  Stored' /\ UNCHANGED <<now, redisOn>>
<1>0. /\ Stored /\ now \in Nat /\ pg \in PgTyped /\ seen \in Histories
      /\ TypeOK /\ Routes /\ Handed /\ Owned
    BY TypeIs DEF Stored, Kept0
<1>1. CASE RevokeSessionPg(p)
    <2>1. R(p).at = "revPg"  BY <1>1 DEF RevokeSessionPg, At, R
    <2>2. R(p).sid \in Sids /\ R(p).end \in Nat  BY <1>0, <2>1, Named, Needs
    <2>3. PgRevokeSession(pg, R(p).sid, R(p).end) \in PgTyped  BY <1>0, <2>2, PgOps, AuthStoreAssumption
    <2> QED  BY <1>0, <1>1, <2>3, RevokeSessionPgEffect, PgStored DEF Steps, Went
<1>2. CASE RevokeTokenPg(p)
    <2>1. R(p).at = "revTokenPg"  BY <1>2 DEF RevokeTokenPg, At, R
    <2>2. R(p).tok \in Toks  BY <1>0, <2>1, Named, Needs
    <2>3. PgRevokeToken(pg, R(p).tok) \in PgTyped  BY <1>0, <2>2, PgOps, AuthStoreAssumption
    <2> QED  BY <1>0, <1>2, <2>3, RevokeTokenPgEffect, PgStored DEF Steps, Went
<1>3. CASE RevokeAllPg(p)
    <2>1. PgRevokeSubjectSessions(pg, R(p).user) \in PgTyped  BY <1>0, PgSweeps
    <2>2. R(p).before \subseteq Sids  BY <1>0, Named
    <2>3. [seen EXCEPT !.out = @ \cup {s \in R(p).before : session[s].user = R(p).user}] \in Histories
        BY <1>0, <2>2, SeenTyped
    <2> QED  BY <1>0, <1>3, <2>1, <2>3, RevokeAllPgEffect, PgStored DEF Steps, Went
<1>4. CASE RevokeOtherToken(p)
    <2>1. R(p).at = "signedOut"  BY <1>4 DEF RevokeOtherToken, At, R
    <2>2. R(p).sid \in Sids  BY <1>0, <2>1, Named, Needs
    <2>3. [seen EXCEPT !.out = @ \cup {R(p).sid}] \in Histories  BY <1>0, <2>2, SeenTyped
    <2> QED  BY <1>0, <1>4, <2>3, RevokeOtherTokenEffect, PgStored DEF Fixed
<1> QED  BY <1>1, <1>2, <1>3, <1>4

\* So do claims, counts and federated states.
LEMMA OnceStored ==
  ASSUME Kept0, NEW p \in Clients, ClaimOnce(p) \/ CountFailurePg(p) \/ LoginURL(p) \/ ConsumeState(p)
  PROVE  Stored' /\ UNCHANGED <<now, redisOn>>
<1>0. /\ Stored /\ now \in Nat /\ pg \in PgTyped /\ seen \in Histories
      /\ TypeOK /\ Routes /\ Handed /\ Owned
    BY TypeIs DEF Stored, Kept0
<1>1. CASE ClaimOnce(p)
    <2>1. R(p).at = "claim"  BY <1>1 DEF ClaimOnce, At, R
    <2>2. R(p).o \in Operations  BY <1>0, <2>1, Named
    <2>3. R(p).o.op \in {"login"} \cup Account  BY <1>0, <2>1 DEF Routes, Route, Account, Changing
    <2>4. R(p).user \in Users /\ R(p).o.code \in Codes \cup {NoCode}  BY <1>0, <2>1, <2>2, <2>3, Named DEF Operations
    <2>5. Key(p) \in Claims  BY <2>4 DEF Key, Claims
    <2>6. PgClaim(pg, Key(p)) \in PgTyped  BY <1>0, <2>5, PgOps, AuthStoreAssumption
    <2>7. /\ [seen EXCEPT !.uses[Key(p)] = @ + 1] \in Histories
          /\ [seen EXCEPT !.uses[Key(p)] = @ + 1, !.slack[Key(p)] = @ + 1] \in Histories
        BY <1>0, <2>5, SeenTyped
    <2> QED  BY <1>0, <1>1, <2>2, <2>6, <2>7, ClaimOnceEffect, PgStored DEF Steps, Went
<1>2. CASE CountFailurePg(p)
    <2>1. R(p).at = "failPg"  BY <1>2 DEF CountFailurePg, At, R
    <2>2. FailKey(p) \in Keys  BY <1>0, <2>1, Named, FailKeyIn
    <2>3. \A done \in 0..2 : PgIncrement(pg, FailKey(p), done) \in PgTyped  BY <1>0, <2>2, PgOps, AuthStoreAssumption
    <2> QED  BY <1>0, <1>2, <2>3, CountFailurePgEffect, PgStored DEF Steps, Went
<1>3. CASE LoginURL(p)
    <2>1. NextState \in States  BY <1>0, <1>3, LoginURLEffect DEF NewState
    <2>2. PgSaveState(pg, NextState) \in PgTyped  BY <1>0, <2>1, PgOps, AuthStoreAssumption
    <2> QED  BY <1>0, <1>3, <2>2, LoginURLEffect, PgStored
<1>4. CASE ConsumeState(p)
    <2>1. PgConsumeState(pg, R(p).state) \in PgTyped  BY <1>0 DEF PgConsumeState, PgTyped, PgStates
    <2> QED  BY <1>0, <1>4, <2>1, ConsumeStateEffect, PgStored DEF Steps, Went
<1> QED  BY <1>1, <1>2, <1>3, <1>4

\* So does issuing a session or a token.
LEMMA IssueStored ==
  ASSUME Kept0, NEW p \in Clients, Rotate(p) \/ CreateSessionRedis(p) \/ CreateSessionPg(p) \/ StoreTokenRedis(p) \/ StoreTokenPg(p)
  PROVE  Stored' /\ UNCHANGED <<now, redisOn>>
<1>0. /\ Stored /\ now \in Nat /\ pg \in PgTyped /\ seen \in Histories /\ redis \in RedisStates
      /\ token \in [Toks -> RefreshTokenRecords] /\ session \in [Sids -> TokenSessions]
      /\ TypeOK /\ Routes /\ Handed /\ Owned
    BY TypeIs DEF Stored, Kept0
<1>6. now + RefreshTTL \in Nat  BY <1>0, AuthStoreAssumption
<1>1. CASE Rotate(p)
    <2>1. R(p).at = "rotate"  BY <1>1 DEF Rotate, At, R
    <2>2. R(p).sid \in Sids  BY <1>0, <2>1, Named, Needs
    <2>3. NextTok \in Toks  BY <1>0, <1>1, RotateEffect
    <2>4. token' \in [Toks -> RefreshTokenRecords]
        <3>1. token' = [token EXCEPT ![NextTok] = [sid |-> R(p).sid, end |-> now + RefreshTTL]]  BY <1>0, <1>1, RotateEffect
        <3>2. [sid |-> R(p).sid, end |-> now + RefreshTTL] \in RefreshTokenRecords  BY <1>0, <1>6, <2>2 DEF RefreshTokenRecords
        <3> QED  BY <1>0, <3>1, <3>2
    <2>6. R(p).tok \in Toks
        BY <1>0, <2>1, Named, Needs
    <2>7. PgRotate(pg, R(p).tok, NextTok) \in PgTyped  BY <1>0, <2>3, <2>6, PgOps, AuthStoreAssumption
    <2> QED  BY <1>0, <1>1, <2>4, <2>7, RotateEffect DEF Stored, Around, Fixed, Typed, PgTyped
<1>2. CASE CreateSessionRedis(p)
    <2>1. session' \in [Sids -> TokenSessions]
        <3>1. session' = [session EXCEPT ![NextSid] = [user |-> R(p).user, end |-> now + RefreshTTL]]  BY <1>0, <1>2, CreateSessionRedisEffect
        <3>2. [user |-> R(p).user, end |-> now + RefreshTTL] \in TokenSessions  BY <1>0, <1>6, Named DEF TokenSessions
        <3> QED  BY <1>0, <3>1, <3>2
    <2> QED  BY <1>0, <1>2, <2>1, CreateSessionRedisEffect DEF Stored, Around, Fixed, Typed, PgTyped, SameCounts
<1>3. CASE CreateSessionPg(p)
    <2>1. R(p).at = "sessPg"  BY <1>3 DEF CreateSessionPg, At, R
    <2>2. R(p).sid \in Sids /\ session[R(p).sid].end \in Nat  BY <1>0, <2>1, Named, Needs DEF TokenSessions
    <2>3. PgCreateSession(pg, R(p).sid, session[R(p).sid].end) \in PgTyped  BY <1>0, <2>2, PgOps, AuthStoreAssumption
    <2> QED  BY <1>0, <1>3, <2>3, CreateSessionPgEffect, PgStored DEF Steps, Went
<1>4. CASE StoreTokenRedis(p)
    <2>1. R(p).at = "tokRedis"  BY <1>4 DEF StoreTokenRedis, At, R
    <2>2. R(p).sid \in Sids  BY <1>0, <2>1, Named, Needs
    <2>3. token' \in [Toks -> RefreshTokenRecords]
        <3>1. token' = [token EXCEPT ![NextTok] = [sid |-> R(p).sid, end |-> now + RefreshTTL]]  BY <1>0, <1>4, StoreTokenRedisEffect
        <3>2. [sid |-> R(p).sid, end |-> now + RefreshTTL] \in RefreshTokenRecords  BY <1>0, <1>6, <2>2 DEF RefreshTokenRecords
        <3> QED  BY <1>0, <3>1, <3>2
    <2> QED  BY <1>0, <1>4, <2>3, StoreTokenRedisEffect DEF Stored, Around, Fixed, Typed, PgTyped, SameCounts
<1>5. CASE StoreTokenPg(p)
    <2>1. R(p).at = "tokPg"  BY <1>5 DEF StoreTokenPg, At, R
    <2>2. R(p).new \in Toks  BY <1>0, <2>1, Named, Needs
    <2>3. PgStoreRefreshToken(pg, R(p).new) \in PgTyped  BY <1>0, <2>2, PgOps, AuthStoreAssumption
    <2> QED  BY <1>0, <1>5, <2>3, StoreTokenPgEffect, PgStored DEF Steps, Went
<1> QED  BY <1>1, <1>2, <1>3, <1>4, <1>5

\* So do the counted failures.
LEMMA CountStored ==
  ASSUME Kept0, NEW p \in Clients, CountFailureRedis(p) \/ ClearFailures(p) \/ Refuse(p)
  PROVE  Stored' /\ UNCHANGED <<now, redisOn>>
<1>0. /\ Stored /\ now \in Nat /\ pg \in PgTyped /\ seen \in Histories /\ redis \in RedisStates
      /\ TypeOK /\ Routes /\ Handed /\ Owned
    BY TypeIs DEF Stored, Kept0
<1>1. CASE CountFailureRedis(p)
    <2>1. R(p).at = "failRedis"  BY <1>1 DEF CountFailureRedis, At, R
    <2>2. FailKey(p) \in Keys  BY <1>0, <2>1, Named, FailKeyIn
    <2>3. \A done \in 0..3 : RedisIncrement(redis, FailKey(p), done) \in RedisStates  BY <1>0, <2>2, RedisCounts, AuthStoreAssumption
    <2>4. redis' \in RedisStates  BY <1>0, <1>1, <2>3, CountFailureRedisEffect
    <2>5. seen' \in Histories  BY <1>0, <1>1, <2>2, CountFailureRedisEffect, SeenTyped
    <2> QED  BY <1>0, <1>1, <2>4, <2>5, CountFailureRedisEffect DEF Stored, Around, Steps, Went, Typed, PgTyped
<1>2. CASE ClearFailures(p)
    <2>1. R(p).at \in {"clear", "clearReset"}  BY <1>2 DEF ClearFailures, At, R
    <2>2. ClearKeys(p) \subseteq Keys  BY <1>0, <2>1, Named, IamAssumption DEF ClearKeys, LoginKeys, Operations
    <2>3. \A a \in SUBSET Keys : RedisClear(redis, a) \in RedisStates /\ PgClear(pg, a) \in PgTyped
        BY <1>0, RedisCounts, PgOps, AuthStoreAssumption
    <2>4. redis' \in RedisStates /\ pg' \in PgTyped
        <3>1. PICK a, b \in SUBSET ClearKeys(p) : redis' \in {redis, RedisClear(redis, a)} /\ pg' = PgClear(pg, b)
            BY <1>0, <1>2, ClearFailuresEffect
        <3> QED  BY <1>0, <2>2, <2>3, <3>1
    <2>5. seen' \in Histories
        <3> DEFINE f == [k \in Keys |-> IF k \in ClearKeys(p) THEN 0 ELSE seen.lock[k]]
        <3>1. f \in [Keys -> Nat]  BY <1>0 DEF Histories
        <3>2. seen' = [seen EXCEPT !.lock = f]  BY <1>0, <1>2, ClearFailuresEffect
        <3> HIDE DEF f
        <3> QED  BY <1>0, <3>1, <3>2, SeenTyped
    <2> QED  BY <1>0, <1>2, <2>4, <2>5, ClearFailuresEffect DEF Stored, Around, Steps, Went, Typed, PgTyped
<1>3. CASE Refuse(p)
    <2>1. seen' \in Histories
        <3> DEFINE f == [k \in Keys |-> IF k \in LoginKeys(R(p).o) /\ Alive(pg.fail[k].lock) THEN pg.fail[k].lock ELSE seen.lock[k]]
        <3>1. f \in [Keys -> Nat]  BY <1>0 DEF Histories, PgTyped, PgStates
        <3>2. seen' = seen \/ seen' = [seen EXCEPT !.lock = f]  BY <1>0, <1>3, RefuseEffect
        <3> HIDE DEF f
        <3> QED  BY <1>0, <3>1, <3>2, SeenTyped
    <2> QED  BY <1>0, <1>3, <2>1, RefuseEffect, PgStored
<1> QED  BY <1>1, <1>2, <1>3

\* So do the steps on users, and the start of a request.
LEMMA UserStored ==
  ASSUME Kept0, NEW p \in Clients, FindUser(p) \/ CreateUser(p) \/ SaveUser(p) \/ DeleteUser(p) \/ Start(p)
  PROVE  Stored' /\ UNCHANGED <<now, redisOn>>
<1>0. /\ Stored /\ pg \in PgTyped /\ seen \in Histories /\ users \in [Users -> Rows]
      /\ TypeOK /\ Routes /\ Handed /\ Owned
    BY TypeIs DEF Stored, Kept0
<1>1. CASE FindUser(p)
    BY <1>0, <1>1, FindUserEffect DEF Stored, World, Fixed, Typed, PgTyped
<1>2. CASE CreateUser(p)
    <2>1. NewRow("opaque") \in Rows  BY AccountsAssumption DEF NewRow, NoRow, Rows, Active, Disabled
    <2>2. Free \in Users  BY FreeIs
    <2>3. users' \in [Users -> Rows] /\ identity' \in Users \cup {NoUser}
        BY <1>0, <1>2, <2>1, <2>2, CreateUserEffect DEF Stored
    <2> QED  BY <1>0, <1>2, <2>3, CreateUserEffect DEF Stored, Fixed, Typed, PgTyped
<1>3. CASE SaveUser(p)
    <2>1. R(p).at = "save"  BY <1>3 DEF SaveUser, At, R
    <2>2. R(p).o \in Operations /\ R(p).o.op \in Changing /\ R(p).row \in Rows /\ R(p).user \in Users
        BY <1>0, <2>1, Named DEF Routes, Route, Account
    <2>3. PICK new, gone :
            /\ new = Changed(R(p).o, R(p).row) /\ users' = Save(R(p).user, new) /\ Rewritten(p, R(p).user, gone)
            /\ seen' = [seen EXCEPT !.promised[R(p).user] = @ \ gone]
            /\ UNCHANGED <<now, redisOn, redis, pg, session, token, access, given, states, identity, script>>
        BY <1>0, <1>3, SaveUserEffect
    <2>4. users' \in [Users -> Rows]  BY <1>0, <2>2, <2>3, ChangedTyped DEF Save
    <2>5. seen' \in Histories  BY <1>0, <2>2, <2>3, SeenTyped
    <2> QED  BY <1>0, <2>3, <2>4, <2>5 DEF Stored, Rewritten, Typed, PgTyped
<1>4. CASE DeleteUser(p)
    <2>1. users' = Deleted(R(p).user)  BY <1>0, <1>4, DeleteUserEffect
    <2>2. users' \in [Users -> Rows]  BY <1>0, <2>1 DEF Deleted, Rows
    <2> QED  BY <1>0, <1>4, <2>2, DeleteUserEffect DEF Stored, Rewritten, Typed, PgTyped
<1>5. CASE Start(p)
    <2>1. PICK r \in Requests : Begin(p, r)  BY <1>0, <1>5, StartEffect
    <2> QED  BY <1>0, <2>1, BeginEffect DEF Stored, Typed, PgTyped
<1> QED  BY <1>1, <1>2, <1>3, <1>4, <1>5

\* So does an answer: what clients learn was signed, or is theirs.
LEMMA AnswerStored ==
  ASSUME Kept0, SpentOnce, StateOnce, NEW p \in Clients, Answer(p)
  PROVE  Stored' /\ UNCHANGED <<now, redisOn>>
<1>0. /\ Stored /\ seen \in Histories /\ TypeOK /\ Routes /\ Handed /\ Owned
      /\ access \subseteq [sid : Sids, end : Nat] /\ given \subseteq Toks /\ states \subseteq States
    BY TypeIs DEF Stored, Kept0
<1>1. R(p).at \in {"ok", "revoked"} /\ R(p).o \in Operations  BY <1>0, AnswerEffect, Named
<1>2. access' \subseteq [sid : Sids, end : Nat] /\ given' \subseteq Toks
    <2>1. CASE R(p).new # 0
        <3>1. R(p).new \in Toks /\ R(p).sid \in Sids /\ R(p).end \in Nat  BY <1>0, <2>1, Named
        <3>2. access' = access \cup {[sid |-> R(p).sid, end |-> R(p).end]} /\ given' = given \cup {R(p).new}
            BY <1>0, <2>1, AnswerEffect
        <3> QED  BY <1>0, <3>1, <3>2
    <2>2. CASE R(p).new = 0  BY <1>0, <2>2, AnswerEffect
    <2> QED  BY <2>1, <2>2
<1>3. states' \subseteq States
    <2>1. CASE R(p).o.op = "oidcLogin"
        <3>1. R(p).at = "ok"  BY <1>0, <1>1, <2>1 DEF Routes, Route
        <3>2. R(p).state \in States  BY <1>0, <2>1, <3>1, Named DEF StateOnce, Is, R
        <3> QED  BY <1>0, <2>1, <3>2, AnswerEffect
    <2>2. CASE R(p).o.op # "oidcLogin"  BY <1>0, <2>2, AnswerEffect
    <2> QED  BY <2>1, <2>2
<1>4. seen' \in Histories
    <2>1. seen'.outTok \in SUBSET Toks
        <3>1. CASE R(p).at = "revoked"
            <4>1. R(p).tok \in Toks  BY <1>0, <3>1, Named, Needs
            <4>2. seen'.outTok = seen.outTok \cup {R(p).tok}  BY <1>0, <3>1, AnswerEffect
            <4> QED  BY <1>0, <4>1, <4>2 DEF Histories
        <3>2. CASE R(p).at # "revoked"
            <4>1. seen'.outTok = seen.outTok  BY <1>0, <3>2, AnswerEffect
            <4> QED  BY <1>0, <4>1 DEF Histories
        <3> QED  BY <3>1, <3>2
    <2>2. seen'.spent \in [Toks -> Nat]
        <3>1. CASE R(p).o.op = "refresh"
            <4>1. R(p).at = "ok"  BY <1>0, <1>1, <3>1 DEF Routes, Route
            <4>2. R(p).tok \in Toks  BY <1>0, <3>1, <4>1, Named, Needs
            <4>3. seen.spent \in [Toks -> Nat]  BY <1>0 DEF Histories
            <4>4. seen'.spent = [seen.spent EXCEPT ![R(p).tok] = @ + 1]  BY <1>0, <3>1, AnswerEffect
            <4> QED  BY <4>2, <4>3, <4>4, NatCount
        <3>2. CASE R(p).o.op # "refresh"
            <4>1. seen'.spent = seen.spent  BY <1>0, <3>2, AnswerEffect
            <4> QED  BY <1>0, <4>1 DEF Histories
        <3> QED  BY <3>1, <3>2
    <2>3. seen'.signIns \in [States -> Nat]
        <3>1. CASE R(p).o.op = "oidcCallback"
            <4>2. R(p).state \in States  BY <1>0, <3>1 DEF StateOnce, Is, R
            <4>3. seen.signIns \in [States -> Nat]  BY <1>0 DEF Histories
            <4>4. seen'.signIns = [seen.signIns EXCEPT ![R(p).state] = @ + 1]  BY <1>0, <3>1, AnswerEffect
            <4> QED  BY <4>2, <4>3, <4>4, NatCount
        <3>2. CASE R(p).o.op # "oidcCallback"
            <4>1. seen'.signIns = seen.signIns  BY <1>0, <3>2, AnswerEffect
            <4> QED  BY <1>0, <4>1 DEF Histories
        <3> QED  BY <3>1, <3>2
    <2>4. seen'.promised \in [Users -> SUBSET {"shut", "mfa"}]
        <3>1. seen.promised \in [Users -> SUBSET {"shut", "mfa"}]  BY <1>0 DEF Histories
        <3>2. CASE Promises(R(p)) = {}  BY <1>0, <3>1, <3>2, AnswerEffect
        <3>3. CASE Promises(R(p)) # {}
            <4>1. Promises(R(p)) \subseteq {"shut", "mfa"}  BY DEF Promises
            <4>2. seen'.promised = [seen.promised EXCEPT ![R(p).user] = @ \cup (Promises(R(p)) \cap StillSo(R(p).user))]
                BY <1>0, <3>3, AnswerEffect
            <4> QED  BY <3>1, <4>1, <4>2
        <3> QED  BY <3>2, <3>3
    <2>5. PICK a, b, c, d : seen' = [seen EXCEPT !.outTok = a, !.spent = b, !.signIns = c, !.promised = d]
        BY Zenon DEF Answer
    <2>6. seen'.outTok = a /\ seen'.spent = b /\ seen'.signIns = c /\ seen'.promised = d
        BY <1>0, <2>5 DEF Histories
    <2> QED  BY <1>0, <2>1, <2>2, <2>3, <2>4, <2>5, <2>6 DEF Histories
<1> QED  BY <1>0, <1>2, <1>3, <1>4, AnswerEffect DEF Stored, Typed, PgTyped

\* Every step of a client keeps the types.
LEMMA StepStored ==
  ASSUME Kept0, SpentOnce, StateOnce, NEW p \in Clients, Step(p)
  PROVE  TypeOK' /\ UNCHANGED <<now, redisOn>>
<1>1. Stored' /\ UNCHANGED <<now, redisOn>>
    BY ThinkStored, SessionStored, OnceStored, IssueStored, CountStored, UserStored, AnswerStored DEF Step, Thinking0
<1>2. faults' \in Nat /\ ticks' = ticks /\ losses' = losses  BY TypeIs, Budget DEF Kept0
<1>3. /\ now' \in Nat /\ ticks' \in Nat /\ ticks' + now' <= MaxNow /\ redisOn' \in BOOLEAN
      /\ faults' \in Nat /\ losses' \in Nat
    BY <1>1, <1>2, TypeIs DEF Kept0
<1>4. TypeOK'  BY <1>1, <1>3 DEF TypeOK, StoreTypeOK, AccountsTypeOK, Stored, Typed, PgTyped
<1> QED  BY <1>1, <1>4

------------------------------------------------------------------------------
(* Paths: from where to where a request goes.                              *)

\* From where to where a request goes, whatever else the step does.
Path(r, s) ==
    /\ r.at # "idle" /\ s.o = r.o
    /\ \/ s.at \in {"denied", "failed"}
       \/ r.at = "verify" /\ s.at = "resolve" /\ r.o.op \in {"use", "refresh"}
       \/ r.at = "verify" /\ s.at = "revTokenRedis" /\ r.o.op = "logout" /\ r.o.gives = "refresh"
       \/ r.at = "verify" /\ s.at = "getSession" /\ r.o.op \notin {"use", "refresh"}
       \/ r.at = "resolve" /\ s.at = IF r.o.op = "use" THEN "ok" ELSE "verifyAgain"
       \/ r.at = "verifyAgain" /\ s.at = "rotate"
       \/ r.at = "rotate" /\ s.at = "rotateRedis"
       \/ r.at = "rotateRedis" /\ s.at = "ok"
       \/ r.at = "getSession" /\ s.at = IF r.o.op = "logoutAll" THEN "members" ELSE "revRedis"
       \/ r.at = "revRedis" /\ s.at = "revPg"
       \/ r.at = "revPg" /\ s.at = "signedOut"
       \/ r.at = "signedOut" /\ s.at \in {"verifyOther", "ok"}
       \/ r.at = "verifyOther" /\ s.at = "revTokenRedis"
       \/ r.at = "revTokenRedis" /\ s.at = "revTokenPg"
       \/ r.at = "revTokenPg" /\ s.at = "revoked"
       \/ r.at = "members" /\ s.at \in {"allRedis", "allPg"}
       \/ r.at = "allRedis" /\ s.at = "allPg"
       \/ r.at = "allPg" /\ s.at = IF r.o.op = "adminReset" THEN "clearReset" ELSE "ok"
       \/ r.at = "captcha" /\ s.at = "lock"
       \/ r.at = "lock" /\ s.at = "user"
       \/ r.at = "user" /\ s.at \in {"failPg", "sessRedis", "claim"}
       \/ r.at = "claim" /\ IF r.o.op = "login" THEN s.at \in {"failPg", "sessRedis"} ELSE s.at = "first"
       \/ r.at = "failPg" /\ s.at = "failRedis"
       \/ r.at = "failRedis" /\ s.at \in {"refused", "failPg"}
       \/ r.at = "sessRedis" /\ s.at = "sessPg"
       \/ r.at = "sessPg" /\ s.at = "tokRedis"
       \/ r.at = "tokRedis" /\ s.at = "tokPg"
       \/ r.at = "tokPg" /\ s.at = IF r.o.op = "login" THEN "clear" ELSE "ok"
       \/ r.at = "clear" /\ s.at = "ok"
       \/ r.at = "clearReset" /\ s.at = "first"
       \/ r.at = "saveState" /\ s.at = "ok"
       \/ r.at = "hasState" /\ s.at = "exchange"
       \/ r.at = "exchange" /\ s.at = "consume"
       \/ r.at = "consume" /\ s.at = "findUser"
       \/ r.at = "findUser" /\ s.at \in {"createUser", "sessRedis"}
       \/ r.at = "createUser" /\ s.at \in {"sessRedis", "findUser"}
       \/ /\ r.at = "read"
          /\ s.at = CASE r.o.op \in {"confirmMFA", "disableMFA"} -> "claim"
                      [] r.o.op = "delete" -> "delete"
                      [] r.o.op = "adminReset" -> "members"
                      [] OTHER -> "first"
       \/ r.at = "first" /\ s.at = "save"
       \/ r.at \in {"save", "delete"} /\ s.at = "ok"

\* What a step of p does to the others: at most it unsettles what they have read.
Beside(p) == \A q \in Clients \ {p} : /\ Like(req[q], req'[q]) /\ req'[q].at = req[q].at
                                      /\ req[q].at = "idle" => req'[q] = req[q]
Onward(p) == /\ Beside(p) /\ Path(req[p], req'[p])
             /\ req'[p].user = req[p].user \/ req[p].o.op = "oidcCallback"

\* A step that moves one request leaves the others as they are.
LEMMA AloneBeside == ASSUME NEW p \in Clients, Alone(p) PROVE Beside(p)
BY DEF Alone, Beside, Like

\* The thinking steps follow the paths.
LEMMA ThinkOnward ==
  ASSUME Kept0, NEW p \in Clients, Thinking0(p)
  PROVE  Onward(p)
<1> DEFINE r == req[p]
           s == req'[p]
<1>1. Thinks(p)  BY AllThink DEF Kept0
<1>2. Alone(p) /\ s.o = r.o /\ s.user = r.user /\ Hop(p, r, s)  BY <1>1 DEF Thinks, Held, Asked
<1>3. r.at # "idle"
    BY DEF Thinking0, At, VerifyToken, Resolve, GetSession, RotateMirror, RevokeSessionRedis, RevokeTokenRedis, RevokeAllRedis,
           ReadMembers, RequiresCaptcha, LoginLock, CheckPassword, HasOIDCState, Exchange, ReadAgain, ReadUser
<1>4. Path(r, s)
    <2> HIDE DEF r, s
    <2> QED  BY <1>2, <1>3 DEF Path, Hop
<1> QED  BY <1>2, <1>4, AloneBeside DEF Onward

\* So do the steps of a sign-out and of a rotation.
LEMMA SignOutOnward ==
  ASSUME Kept0, NEW p \in Clients, Rotate(p) \/ RevokeSessionPg(p) \/ RevokeOtherToken(p) \/ RevokeTokenPg(p) \/ RevokeAllPg(p)
  PROVE  Onward(p)
<1> DEFINE r == req[p]
           s == req'[p]
<1>a. TypeOK /\ Route(r)  BY DEF Kept0, Routes, R
<1>1. CASE Rotate(p)
    <2>1. Alone(p) /\ s.o = r.o /\ s.user = r.user
        BY <1>a, <1>1, RotateEffect DEF Steps, Went, Held, Asked, Fixed, R
    <2>2. r.at = "rotate" /\ (s.at \in {"rotateRedis", "denied"})
        BY <1>a, <1>1, RotateEffect DEF Steps, Went, R
    <2>3. Path(r, s)
        <3> HIDE DEF r, s
        <3> QED  BY <2>1, <2>2 DEF Path
    <2> QED  BY <2>1, <2>3, AloneBeside DEF Onward
<1>2. CASE RevokeSessionPg(p)
    <2>1. Alone(p) /\ s.o = r.o /\ s.user = r.user
        BY <1>a, <1>2, RevokeSessionPgEffect DEF Steps, Went, Held, Asked, Fixed, R
    <2>2. r.at = "revPg" /\ (s.at \in {"signedOut", "failed"})
        BY <1>a, <1>2, RevokeSessionPgEffect DEF Steps, Went, R
    <2>3. Path(r, s)
        <3> HIDE DEF r, s
        <3> QED  BY <2>1, <2>2 DEF Path
    <2> QED  BY <2>1, <2>3, AloneBeside DEF Onward
<1>3. CASE RevokeOtherToken(p)
    <2>1. Alone(p) /\ s.o = r.o /\ s.user = r.user
        BY <1>a, <1>3, RevokeOtherTokenEffect DEF Steps, Went, Held, Asked, Fixed, R
    <2>2. r.at = "signedOut" /\ (s.at \in {"verifyOther", "ok"})
        BY <1>a, <1>3, RevokeOtherTokenEffect DEF Steps, Went, R
    <2>3. Path(r, s)
        <3> HIDE DEF r, s
        <3> QED  BY <2>1, <2>2 DEF Path
    <2> QED  BY <2>1, <2>3, AloneBeside DEF Onward
<1>4. CASE RevokeTokenPg(p)
    <2>1. Alone(p) /\ s.o = r.o /\ s.user = r.user
        BY <1>a, <1>4, RevokeTokenPgEffect DEF Steps, Went, Held, Asked, Fixed, R
    <2>2. r.at = "revTokenPg" /\ (s.at \in {"revoked", "failed"})
        BY <1>a, <1>4, RevokeTokenPgEffect DEF Steps, Went, R
    <2>3. Path(r, s)
        <3> HIDE DEF r, s
        <3> QED  BY <2>1, <2>2 DEF Path
    <2> QED  BY <2>1, <2>3, AloneBeside DEF Onward
<1>5. CASE RevokeAllPg(p)
    <2>1. Alone(p) /\ s.o = r.o /\ s.user = r.user
        BY <1>a, <1>5, RevokeAllPgEffect DEF Steps, Went, Held, Asked, Fixed, R
    <2>2. r.at = "allPg" /\ (s.at = "failed" \/ s.at = IF r.o.op = "adminReset" THEN "clearReset" ELSE "ok")
        BY <1>a, <1>5, RevokeAllPgEffect DEF Steps, Went, R
    <2>3. Path(r, s)
        <3> HIDE DEF r, s
        <3> QED  BY <2>1, <2>2 DEF Path
    <2> QED  BY <2>1, <2>3, AloneBeside DEF Onward
<1> QED  BY <1>1, <1>2, <1>3, <1>4, <1>5

\* So do those of a sign-in.
LEMMA SignInOnward ==
  ASSUME Kept0, NEW p \in Clients, ClaimOnce(p) \/ CountFailurePg(p) \/ CountFailureRedis(p) \/ CreateSessionRedis(p) \/ CreateSessionPg(p) \/ StoreTokenRedis(p) \/ StoreTokenPg(p)
  PROVE  Onward(p)
<1> DEFINE r == req[p]
           s == req'[p]
<1>a. TypeOK /\ Route(r)  BY DEF Kept0, Routes, R
<1>1. CASE ClaimOnce(p)
    <2>0. R(p).o \in Operations  BY <1>a, <1>1 DEF Route, ClaimOnce, At, R
    <2>1. Alone(p) /\ s.o = r.o /\ s.user = r.user
        BY <1>a, <1>1, <2>0, ClaimOnceEffect DEF Steps, Went, Held, Asked, Fixed, R
    <2>2. r.at = "claim" /\ (s.at = "denied" \/ IF r.o.op = "login" THEN s.at \in {"failPg", "sessRedis"} ELSE s.at = "first")
        BY <1>a, <1>1, <2>0, ClaimOnceEffect DEF Steps, Went, R
    <2>3. Path(r, s)
        <3> HIDE DEF r, s
        <3> QED  BY <2>1, <2>2 DEF Path
    <2> QED  BY <2>1, <2>3, AloneBeside DEF Onward
<1>2. CASE CountFailurePg(p)
    <2>1. Alone(p) /\ s.o = r.o /\ s.user = r.user
        BY <1>a, <1>2, CountFailurePgEffect DEF Steps, Went, Held, Asked, Fixed, R
    <2>2. r.at = "failPg" /\ (s.at \in {"failRedis", "failed"})
        BY <1>a, <1>2, CountFailurePgEffect DEF Steps, Went, R
    <2>3. Path(r, s)
        <3> HIDE DEF r, s
        <3> QED  BY <2>1, <2>2 DEF Path
    <2> QED  BY <2>1, <2>3, AloneBeside DEF Onward
<1>3. CASE CountFailureRedis(p)
    <2>1. Alone(p) /\ s.o = r.o /\ s.user = r.user
        BY <1>a, <1>3, CountFailureRedisEffect DEF Steps, Went, Held, Asked, Fixed, R
    <2>2. r.at = "failRedis" /\ (s.at \in {"refused", "failPg"})
        BY <1>a, <1>3, CountFailureRedisEffect DEF Steps, Went, R
    <2>3. Path(r, s)
        <3> HIDE DEF r, s
        <3> QED  BY <2>1, <2>2 DEF Path
    <2> QED  BY <2>1, <2>3, AloneBeside DEF Onward
<1>4. CASE CreateSessionRedis(p)
    <2>1. Alone(p) /\ s.o = r.o /\ s.user = r.user
        BY <1>a, <1>4, CreateSessionRedisEffect DEF Steps, Went, Held, Asked, Fixed, R
    <2>2. r.at = "sessRedis" /\ (s.at = "sessPg")
        BY <1>a, <1>4, CreateSessionRedisEffect DEF Steps, Went, R
    <2>3. Path(r, s)
        <3> HIDE DEF r, s
        <3> QED  BY <2>1, <2>2 DEF Path
    <2> QED  BY <2>1, <2>3, AloneBeside DEF Onward
<1>5. CASE CreateSessionPg(p)
    <2>1. Alone(p) /\ s.o = r.o /\ s.user = r.user
        BY <1>a, <1>5, CreateSessionPgEffect DEF Steps, Went, Held, Asked, Fixed, R
    <2>2. r.at = "sessPg" /\ (s.at \in {"tokRedis", "failed"})
        BY <1>a, <1>5, CreateSessionPgEffect DEF Steps, Went, R
    <2>3. Path(r, s)
        <3> HIDE DEF r, s
        <3> QED  BY <2>1, <2>2 DEF Path
    <2> QED  BY <2>1, <2>3, AloneBeside DEF Onward
<1>6. CASE StoreTokenRedis(p)
    <2>1. Alone(p) /\ s.o = r.o /\ s.user = r.user
        BY <1>a, <1>6, StoreTokenRedisEffect DEF Steps, Went, Held, Asked, Fixed, R
    <2>2. r.at = "tokRedis" /\ (s.at = "tokPg")
        BY <1>a, <1>6, StoreTokenRedisEffect DEF Steps, Went, R
    <2>3. Path(r, s)
        <3> HIDE DEF r, s
        <3> QED  BY <2>1, <2>2 DEF Path
    <2> QED  BY <2>1, <2>3, AloneBeside DEF Onward
<1>7. CASE StoreTokenPg(p)
    <2>1. Alone(p) /\ s.o = r.o /\ s.user = r.user
        BY <1>a, <1>7, StoreTokenPgEffect DEF Steps, Went, Held, Asked, Fixed, R
    <2>2. r.at = "tokPg" /\ (s.at = "failed" \/ s.at = IF r.o.op = "login" THEN "clear" ELSE "ok")
        BY <1>a, <1>7, StoreTokenPgEffect DEF Steps, Went, R
    <2>3. Path(r, s)
        <3> HIDE DEF r, s
        <3> QED  BY <2>1, <2>2 DEF Path
    <2> QED  BY <2>1, <2>3, AloneBeside DEF Onward
<1> QED  BY <1>1, <1>2, <1>3, <1>4, <1>5, <1>6, <1>7

\* So do those of a federated sign-in.
LEMMA CallbackOnward ==
  ASSUME Kept0, NEW p \in Clients, ClearFailures(p) \/ LoginURL(p) \/ ConsumeState(p) \/ FindUser(p) \/ CreateUser(p)
  PROVE  Onward(p)
<1> DEFINE r == req[p]
           s == req'[p]
<1>a. TypeOK /\ Route(r)  BY DEF Kept0, Routes, R
<1>1. CASE ClearFailures(p)
    <2>1. Alone(p) /\ s.o = r.o /\ s.user = r.user
        BY <1>a, <1>1, ClearFailuresEffect DEF Steps, Went, Held, Asked, Fixed, R
    <2>2. (r.at = "clear" /\ s.at = "ok") \/ (r.at = "clearReset" /\ s.at \in {"first", "failed"})
        BY <1>a, <1>1, ClearFailuresEffect DEF Steps, Went, R
    <2>3. Path(r, s)
        <3> HIDE DEF r, s
        <3> QED  BY <2>1, <2>2 DEF Path
    <2> QED  BY <2>1, <2>3, AloneBeside DEF Onward
<1>2. CASE LoginURL(p)
    <2>1. Alone(p) /\ s.o = r.o /\ s.user = r.user
        BY <1>a, <1>2, LoginURLEffect DEF Steps, Went, Held, Asked, Fixed, R
    <2>2. r.at = "saveState" /\ (s.at \in {"ok", "failed"})
        BY <1>a, <1>2, LoginURLEffect DEF Steps, Went, R
    <2>3. Path(r, s)
        <3> HIDE DEF r, s
        <3> QED  BY <2>1, <2>2 DEF Path
    <2> QED  BY <2>1, <2>3, AloneBeside DEF Onward
<1>3. CASE ConsumeState(p)
    <2>1. Alone(p) /\ s.o = r.o /\ s.user = r.user
        BY <1>a, <1>3, ConsumeStateEffect DEF Steps, Went, Held, Asked, Fixed, R
    <2>2. r.at = "consume" /\ (s.at \in {"findUser", "denied", "failed"})
        BY <1>a, <1>3, ConsumeStateEffect DEF Steps, Went, R
    <2>3. Path(r, s)
        <3> HIDE DEF r, s
        <3> QED  BY <2>1, <2>2 DEF Path
    <2> QED  BY <2>1, <2>3, AloneBeside DEF Onward
<1>4. CASE FindUser(p)
    <2>1. Alone(p) /\ s.o = r.o /\ r.at \in {"findUser", "createUser"}
        BY <1>a, <1>4, FindUserEffect DEF Steps, Went, Held, Asked, Fixed, R
    <2>2. r.at = "findUser" /\ (s.at \in {"createUser", "sessRedis", "denied"})
        BY <1>a, <1>4, FindUserEffect DEF Steps, Went, R
    <2>3. Path(r, s)
        <3> HIDE DEF r, s
        <3> QED  BY <2>1, <2>2 DEF Path
    <2>4. r.o.op = "oidcCallback"  BY <1>a, <2>2 DEF Route
    <2> QED  BY <2>1, <2>3, <2>4, AloneBeside DEF Onward
<1>5. CASE CreateUser(p)
    <2>1. Alone(p) /\ s.o = r.o /\ r.at \in {"findUser", "createUser"}
        BY <1>a, <1>5, CreateUserEffect DEF Steps, Went, Held, Asked, Fixed, R
    <2>2. r.at = "createUser" /\ (s.at \in {"sessRedis", "findUser", "denied"})
        BY <1>a, <1>5, CreateUserEffect DEF Steps, Went, R
    <2>3. Path(r, s)
        <3> HIDE DEF r, s
        <3> QED  BY <2>1, <2>2 DEF Path
    <2>4. r.o.op = "oidcCallback"  BY <1>a, <2>2 DEF Route
    <2> QED  BY <2>1, <2>3, <2>4, AloneBeside DEF Onward
<1> QED  BY <1>1, <1>2, <1>3, <1>4, <1>5

\* So do those that write the row of a user.
LEMMA RowOnward ==
  ASSUME Kept0, NEW p \in Clients, SaveUser(p) \/ DeleteUser(p)
  PROVE  Onward(p)
<1>1. /\ req[p].at \in {"save", "delete"} /\ req'[p].at \in {"ok", "denied"}
      /\ \E gone : Rewritten(p, R(p).user, gone)
    BY SaveUserEffect, DeleteUserEffect DEF Kept0, R
<1>2. Path(req[p], req'[p]) /\ req'[p].user = req[p].user  BY <1>1 DEF Rewritten, Like, Path
<1>3. R(p).user \in Users
    <2>1. req[p].o.op \in Account /\ R(p).at # "idle"  BY <1>1 DEF Kept0, Routes, Route, R, Account
    <2> QED  BY <2>1, Named DEF Kept0, R
<1>4. ASSUME NEW q \in Clients \ {p} PROVE /\ Like(req[q], req'[q]) /\ req'[q].at = req[q].at
                                           /\ req[q].at = "idle" => req'[q] = req[q]
    <2>1. Like(req[q], req'[q]) /\ req'[q].at = req[q].at  BY <1>1 DEF Rewritten
    <2>2. ASSUME req[q].at = "idle" PROVE req'[q] = req[q]
        <3>1. req[q] = Idle  BY <2>2 DEF Kept0, Routes, Route, R
        <3>2. req[q].user # R(p).user  BY <1>3, <3>1, AuthStoreAssumption DEF Idle
        <3> QED  BY <1>1, <3>2 DEF Rewritten
    <2> QED  BY <2>1, <2>2
<1> QED  BY <1>2, <1>4 DEF Onward, Beside

Starting(p) == \E r \in Requests : /\ Begun(p, r, req'[p]) /\ Starts(Head(script[p]), r)
                                   /\ req[p].at = "idle" /\ Head(script[p]) \in Operations
\* A step of a client moves its request on, starts one, or ends it.
LEMMA StepKinds ==
  ASSUME Kept0, NEW p \in Clients, Step(p)
  PROVE  /\ Beside(p)
         /\ \/ Onward(p)
            \/ Start(p) /\ Starting(p)
            \/ (Answer(p) \/ Refuse(p)) /\ req'[p] = Idle
<1>1. CASE Answer(p) \/ Refuse(p)
    BY <1>1, AnswerEffect, RefuseEffect, AloneBeside DEF Kept0
<1>2. CASE Start(p)
    <2>1. PICK r \in Requests : Begin(p, r) /\ Starts(Head(script[p]), r)  BY <1>2, StartEffect DEF Kept0
    <2> QED  BY <1>2, <2>1, BeginEffect, AloneBeside DEF Kept0, Starting, R
<1>3. CASE ~(Answer(p) \/ Refuse(p) \/ Start(p))
    <2>1. Onward(p)
        BY <1>3, ThinkOnward, SignOutOnward, SignInOnward, CallbackOnward, RowOnward DEF Step, Thinking0
    <2> QED  BY <2>1 DEF Onward
<1> QED  BY <1>1, <1>2, <1>3

------------------------------------------------------------------------------
\* A request that follows a path stays among its places.
LEMMA RouteOn ==
  ASSUME NEW r, NEW s, Route(r), Path(r, s), s.user = r.user \/ r.o.op = "oidcCallback"
  PROVE  Route(s)
<1> USE DEF Account, Changing, Issuing
<1>1. /\ s.o = r.o /\ r.o \in Operations
      /\ s.o.op \in {"login"} \cup Account => s.user = s.o.user
    BY DEF Route, Path
<1>2. CASE s.at \in {"denied", "failed", "ok"}  BY <1>1, <1>2 DEF Route
<1>3. CASE r.at \in {"verify", "resolve", "verifyAgain", "rotate", "getSession", "revRedis", "revPg", "signedOut",
                     "verifyOther", "revTokenRedis", "revTokenPg"} /\ s.at \notin {"denied", "failed", "ok"}
    <2>1. r.o.op \in {"use", "refresh", "logout", "logoutAll"}  BY <1>3 DEF Route
    <2>2. /\ s.at \in {"resolve", "verifyAgain", "rotate", "rotateRedis", "getSession", "members", "revRedis", "revPg", "signedOut",
                       "verifyOther", "revTokenRedis", "revTokenPg", "revoked"}
          /\ s.at = "resolve" => r.o.op \in {"use", "refresh"}
          /\ s.at \in {"verifyAgain", "rotate", "rotateRedis"} => r.o.op = "refresh"
          /\ s.at = "getSession" => r.o.op \in {"logout", "logoutAll"}
          /\ s.at = "members" => r.o.op = "logoutAll"
          /\ s.at \in {"revRedis", "revPg", "signedOut", "verifyOther", "revTokenRedis", "revTokenPg", "revoked"} => r.o.op = "logout"
        BY <1>3 DEF Route, Path
    <2> QED  BY <1>1, <2>1, <2>2 DEF Route
<1>4. CASE r.at \in {"members", "allRedis", "allPg", "clearReset", "read", "first"} /\ s.at \notin {"denied", "failed", "ok"}
    <2>1. /\ s.at \in {"allRedis", "allPg", "clearReset", "first", "claim", "delete", "members", "save"}
          /\ s.at \in {"members", "allRedis", "allPg"} => r.o.op \in {"logoutAll", "adminReset"}
          /\ s.at = "clearReset" => r.o.op = "adminReset"
          /\ s.at = "claim" => r.o.op \in {"confirmMFA", "disableMFA"}
          /\ s.at \in {"first", "save"} => r.o.op \in Changing
          /\ s.at = "delete" => r.o.op = "delete"
        BY <1>4 DEF Route, Path
    <2> QED  BY <1>1, <2>1 DEF Route
<1>5. CASE r.at \in {"captcha", "lock", "user", "claim", "failPg", "failRedis", "sessRedis", "sessPg", "tokRedis", "tokPg"}
           /\ s.at \notin {"denied", "failed", "ok"}
    <2>1. /\ s.at \in {"lock", "user", "failPg", "failRedis", "refused", "claim", "first", "sessRedis", "sessPg", "tokRedis", "tokPg", "clear"}
          /\ s.at \in {"lock", "user", "failPg", "failRedis", "refused", "clear"} => r.o.op = "login"
          /\ s.at \in {"sessRedis", "sessPg", "tokRedis", "tokPg"} => r.o.op \in Issuing
          /\ s.at = "claim" => r.o.op = "login"
          /\ s.at = "first" => r.o.op \in Changing
        BY <1>5 DEF Route, Path
    <2> QED  BY <1>1, <2>1 DEF Route
<1>6. CASE r.at \in {"hasState", "exchange", "consume", "findUser", "createUser"} /\ s.at \notin {"denied", "failed", "ok"}
    <2>1. /\ s.at \in {"exchange", "consume", "findUser", "createUser", "sessRedis"} /\ r.o.op = "oidcCallback"
        BY <1>6 DEF Route, Path
    <2> QED  BY <1>1, <2>1 DEF Route
<1> QED  BY <1>2, <1>3, <1>4, <1>5, <1>6 DEF Path

\* Every step keeps requests among their places.
LEMMA RoutesKept ==
  ASSUME Kept0, NEW p \in Clients, Step(p)
  PROVE  Routes'
<1>1. ASSUME NEW q \in Clients PROVE Route(req'[q])
    <2>1. Route(req[q])  BY DEF Kept0, Routes, R
    <2>2. CASE q # p
        <3>1. Like(req[q], req'[q]) /\ req'[q].at = req[q].at /\ (req[q].at = "idle" => req'[q] = req[q])
            BY <2>2, StepKinds DEF Beside
        <3>2. CASE req[q].at = "idle"  BY <2>1, <3>1, <3>2
        <3>3. CASE req[q].at # "idle"
            <4> DEFINE r == req[q]
                       s == req'[q]
            <4>1. s.at = r.at /\ s.o = r.o /\ s.user = r.user /\ Route(r) /\ r.at # "idle"  BY <2>1, <3>1, <3>3 DEF Like
            <4> HIDE DEF r, s
            <4>2. Route(s)  BY <4>1 DEF Route
            <4> QED  BY <4>2 DEF s
        <3> QED  BY <3>2, <3>3
    <2>3. CASE q = p
        <3>1. CASE Onward(p)  BY <2>1, <2>3, <3>1, RouteOn DEF Onward
        <3>2. CASE Starting(p)
            <4> DEFINE o == Head(script[p])
                       s == req'[p]
            <4>1. PICK r : s.o = o /\ s.at = r.at /\ s.user = r.user /\ o \in Operations /\ Starts(o, r)
                BY <3>2 DEF Starting, Begun
            <4> HIDE DEF o, s
            <4>2. Route(s)  BY <4>1 DEF Starts, Route, Account, Changing
            <4> QED  BY <2>3, <4>2 DEF s
        <3>3. CASE req'[p] = Idle
            <4>1. Route(Idle)  BY DEF Route, Idle, NoOp, Account, Changing
            <4> QED  BY <2>3, <3>3, <4>1
        <3> QED  BY <3>1, <3>2, <3>3, StepKinds
    <2> QED  BY <2>2, <2>3
<1> QED  BY <1>1 DEF Routes, R, Route

------------------------------------------------------------------------------
(* Frames: what each step leaves alone.                                    *)

\* Where a request is decides which action is next.
LEMMA Guards ==
  ASSUME NEW p \in Clients, Step(p)
  PROVE  /\ R(p).at = "idle" <=> Start(p)
         /\ R(p).at \in {"verify", "verifyAgain", "verifyOther"} <=> VerifyToken(p)
         /\ R(p).at = "resolve" <=> Resolve(p)
         /\ R(p).at = "rotate" <=> Rotate(p)
         /\ R(p).at = "rotateRedis" <=> RotateMirror(p)
         /\ R(p).at = "getSession" <=> GetSession(p)
         /\ R(p).at = "revRedis" <=> RevokeSessionRedis(p)
         /\ R(p).at = "revPg" <=> RevokeSessionPg(p)
         /\ R(p).at = "signedOut" <=> RevokeOtherToken(p)
         /\ R(p).at = "revTokenRedis" <=> RevokeTokenRedis(p)
         /\ R(p).at = "revTokenPg" <=> RevokeTokenPg(p)
         /\ R(p).at = "members" <=> ReadMembers(p)
         /\ R(p).at = "allRedis" <=> RevokeAllRedis(p)
         /\ R(p).at = "allPg" <=> RevokeAllPg(p)
         /\ R(p).at = "captcha" <=> RequiresCaptcha(p)
         /\ R(p).at = "lock" <=> LoginLock(p)
         /\ R(p).at = "user" <=> CheckPassword(p)
         /\ R(p).at = "claim" <=> ClaimOnce(p)
         /\ R(p).at = "failPg" <=> CountFailurePg(p)
         /\ R(p).at = "failRedis" <=> CountFailureRedis(p)
         /\ R(p).at = "sessRedis" <=> CreateSessionRedis(p)
         /\ R(p).at = "sessPg" <=> CreateSessionPg(p)
         /\ R(p).at = "tokRedis" <=> StoreTokenRedis(p)
         /\ R(p).at = "tokPg" <=> StoreTokenPg(p)
         /\ R(p).at \in {"clear", "clearReset"} <=> ClearFailures(p)
         /\ R(p).at = "saveState" <=> LoginURL(p)
         /\ R(p).at = "hasState" <=> HasOIDCState(p)
         /\ R(p).at = "exchange" <=> Exchange(p)
         /\ R(p).at = "consume" <=> ConsumeState(p)
         /\ R(p).at = "findUser" <=> FindUser(p)
         /\ R(p).at = "createUser" <=> CreateUser(p)
         /\ R(p).at = "read" <=> ReadUser(p)
         /\ R(p).at = "first" <=> ReadAgain(p)
         /\ R(p).at = "save" <=> SaveUser(p)
         /\ R(p).at = "delete" <=> DeleteUser(p)
         /\ R(p).at \in {"ok", "revoked"} <=> Answer(p)
         /\ R(p).at \in {"denied", "failed", "refused"} <=> Refuse(p)
<1> USE DEF At, R
<1>0. Start(p) => R(p).at = "idle"  BY DEF Start, StartOIDC, Begin
<1>1. VerifyToken(p) => R(p).at \in {"verify", "verifyAgain", "verifyOther"}  BY DEF VerifyToken
<1>2. Resolve(p) => R(p).at = "resolve"  BY DEF Resolve
<1>3. Rotate(p) => R(p).at = "rotate"  BY DEF Rotate
<1>4. RotateMirror(p) => R(p).at = "rotateRedis"  BY DEF RotateMirror
<1>5. GetSession(p) => R(p).at = "getSession"  BY DEF GetSession
<1>6. RevokeSessionRedis(p) => R(p).at = "revRedis"  BY DEF RevokeSessionRedis
<1>7. RevokeSessionPg(p) => R(p).at = "revPg"  BY DEF RevokeSessionPg
<1>8. RevokeOtherToken(p) => R(p).at = "signedOut"  BY DEF RevokeOtherToken
<1>9. RevokeTokenRedis(p) => R(p).at = "revTokenRedis"  BY DEF RevokeTokenRedis
<1>10. RevokeTokenPg(p) => R(p).at = "revTokenPg"  BY DEF RevokeTokenPg
<1>11. ReadMembers(p) => R(p).at = "members"  BY DEF ReadMembers
<1>12. RevokeAllRedis(p) => R(p).at = "allRedis"  BY DEF RevokeAllRedis
<1>13. RevokeAllPg(p) => R(p).at = "allPg"  BY DEF RevokeAllPg
<1>14. RequiresCaptcha(p) => R(p).at = "captcha"  BY DEF RequiresCaptcha
<1>15. LoginLock(p) => R(p).at = "lock"  BY DEF LoginLock
<1>16. CheckPassword(p) => R(p).at = "user"  BY DEF CheckPassword
<1>17. ClaimOnce(p) => R(p).at = "claim"  BY DEF ClaimOnce
<1>18. CountFailurePg(p) => R(p).at = "failPg"  BY DEF CountFailurePg
<1>19. CountFailureRedis(p) => R(p).at = "failRedis"  BY DEF CountFailureRedis
<1>20. CreateSessionRedis(p) => R(p).at = "sessRedis"  BY DEF CreateSessionRedis
<1>21. CreateSessionPg(p) => R(p).at = "sessPg"  BY DEF CreateSessionPg
<1>22. StoreTokenRedis(p) => R(p).at = "tokRedis"  BY DEF StoreTokenRedis
<1>23. StoreTokenPg(p) => R(p).at = "tokPg"  BY DEF StoreTokenPg
<1>24. ClearFailures(p) => R(p).at \in {"clear", "clearReset"}  BY DEF ClearFailures
<1>25. LoginURL(p) => R(p).at = "saveState"  BY DEF LoginURL
<1>26. HasOIDCState(p) => R(p).at = "hasState"  BY DEF HasOIDCState
<1>27. Exchange(p) => R(p).at = "exchange"  BY DEF Exchange
<1>28. ConsumeState(p) => R(p).at = "consume"  BY DEF ConsumeState
<1>29. FindUser(p) => R(p).at = "findUser"  BY DEF FindUser
<1>30. CreateUser(p) => R(p).at = "createUser"  BY DEF CreateUser
<1>31. ReadUser(p) => R(p).at = "read"  BY DEF ReadUser
<1>32. ReadAgain(p) => R(p).at = "first"  BY DEF ReadAgain
<1>33. SaveUser(p) => R(p).at = "save"  BY DEF SaveUser
<1>34. DeleteUser(p) => R(p).at = "delete"  BY DEF DeleteUser
<1>35. Answer(p) => R(p).at \in {"ok", "revoked"}  BY DEF Answer
<1>36. Refuse(p) => R(p).at \in {"denied", "failed", "refused"}  BY DEF Refuse
<1> HIDE DEF At, R
<1> QED  BY <1>0, <1>1, <1>2, <1>3, <1>4, <1>5, <1>6, <1>7, <1>8, <1>9, <1>10, <1>11, <1>12, <1>13, <1>14, <1>15, <1>16, <1>17, <1>18, <1>19, <1>20, <1>21, <1>22, <1>23, <1>24, <1>25, <1>26, <1>27, <1>28, <1>29, <1>30, <1>31, <1>32, <1>33, <1>34, <1>35, <1>36 DEF Step

------------------------------------------------------------------------------
(* What a step leaves alone: next to each thing, the actions that change it. *)

FrameReq(p) ==
    /\ Asked(req[p], req'[p]) \/ SaveUser(p)
    /\ req'[p].o = req[p].o /\ req'[p].before = req[p].before /\ req'[p].locked = req[p].locked
    /\ req'[p].late = req[p].late /\ req'[p].spent = req[p].spent
    /\ req'[p].sid = req[p].sid \/ CreateSessionRedis(p)
    /\ req'[p].tok = req[p].tok \/ RevokeOtherToken(p)
    /\ req'[p].new = req[p].new \/ Rotate(p) \/ StoreTokenRedis(p)
    /\ req'[p].user = req[p].user \/ FindUser(p) \/ CreateUser(p)
    /\ req'[p].state = req[p].state \/ LoginURL(p)
    /\ req'[p].past = req[p].past \/ LoginLock(p)

FrameWorld(p) ==
    /\ UNCHANGED <<now, redisOn>>
    /\ session' = session \/ CreateSessionRedis(p)
    /\ token' = token \/ Rotate(p) \/ StoreTokenRedis(p)
    /\ UNCHANGED <<access, given, states>> \/ Answer(p)
    /\ users' = users \/ CreateUser(p) \/ SaveUser(p) \/ DeleteUser(p)
    /\ identity' = identity \/ CreateUser(p)
    /\ (redis'.fail = redis.fail /\ redis'.lock = redis.lock) \/ CountFailureRedis(p) \/ ClearFailures(p)

FramePg(p) ==
    /\ pg'.tok = pg.tok \/ Rotate(p) \/ RevokeAllPg(p) \/ StoreTokenPg(p)
    /\ pg'.revT = pg.revT \/ Rotate(p) \/ RevokeTokenPg(p)
    /\ pg'.sess = pg.sess \/ RevokeSessionPg(p) \/ RevokeAllPg(p) \/ CreateSessionPg(p)
    /\ pg'.fail = pg.fail \/ CountFailurePg(p) \/ ClearFailures(p)
    /\ pg'.once = pg.once \/ ClaimOnce(p)
    /\ pg'.oidc = pg.oidc \/ LoginURL(p) \/ ConsumeState(p)

FrameSeen(p) ==
    /\ seen'.out = seen.out \/ RevokeOtherToken(p) \/ RevokeAllPg(p)
    /\ (seen'.outTok = seen.outTok /\ seen'.spent = seen.spent /\ seen'.signIns = seen.signIns) \/ Answer(p)
    /\ seen'.promised = seen.promised \/ Answer(p) \/ SaveUser(p)
    /\ seen'.lock = seen.lock \/ Refuse(p) \/ ClearFailures(p)
    /\ seen'.missed = seen.missed \/ CountFailureRedis(p)
    /\ (seen'.uses = seen.uses /\ seen'.slack = seen.slack) \/ ClaimOnce(p)

Framed(p) == FrameWorld(p) /\ FramePg(p) /\ FrameSeen(p)

\* A step that changes neither Postgres nor what is remembered frames both.
LEMMA Untouched ==
  ASSUME NEW p \in Clients, UNCHANGED <<pg, seen>>
  PROVE  FramePg(p) /\ FrameSeen(p)
BY DEF FramePg, FrameSeen

\* What the thinking steps leave alone.
LEMMA ThinkFrame ==
  ASSUME Kept0, NEW p \in Clients, Thinking0(p)
  PROVE  FrameReq(p) /\ Framed(p)
<1>1. Thinks(p) /\ (LoginLock(p) \/ req'[p].past = req[p].past)  BY AllThink DEF Kept0
<1>2. FrameReq(p)  BY <1>1 DEF Thinks, Held, Asked, FrameReq
<1>3. FrameWorld(p)  BY <1>1 DEF Thinks, World, SameCounts, FrameWorld
<1> QED  BY <1>1, <1>2, <1>3, Untouched DEF Thinks, World, Framed

\* What the steps of a sign-out and of a rotation leave alone.
LEMMA SignOutFrame ==
  ASSUME Kept0, NEW p \in Clients, Rotate(p) \/ RevokeSessionPg(p) \/ RevokeOtherToken(p) \/ RevokeTokenPg(p) \/ RevokeAllPg(p)
  PROVE  FrameReq(p) /\ Framed(p)
<1>a. TypeOK /\ Route(R(p)) /\ pg \in PgTyped /\ seen \in Histories /\ redis \in RedisStates  BY TypeIs DEF Kept0, Routes, Stored
<1>1. CASE Rotate(p)
    <2>1. FrameReq(p)  BY <1>a, <1>1, RotateEffect DEF FrameReq, Steps, Went, Held, Asked, Fixed
    <2>2. FrameWorld(p)  BY <1>a, <1>1, RotateEffect DEF FrameWorld, Around, World, SameCounts
    <2>3. FramePg(p)  BY <1>a, <1>1, RotateEffect DEF FramePg, PgRotate, PgTyped, PgStates
    <2>4. FrameSeen(p)  BY <1>a, <1>1, RotateEffect DEF FrameSeen, Histories, World
    <2> QED  BY <2>1, <2>2, <2>3, <2>4 DEF Framed
<1>2. CASE RevokeSessionPg(p)
    <2>1. FrameReq(p)  BY <1>a, <1>2, RevokeSessionPgEffect DEF FrameReq, Steps, Went, Held, Asked, Fixed
    <2>2. FrameWorld(p)  BY <1>a, <1>2, RevokeSessionPgEffect DEF FrameWorld, Around, World, SameCounts
    <2>3. FramePg(p)  BY <1>a, <1>2, RevokeSessionPgEffect DEF FramePg, PgRevokeSession, PgTyped, PgStates
    <2>4. FrameSeen(p)  BY <1>a, <1>2, RevokeSessionPgEffect DEF FrameSeen, Histories, World
    <2> QED  BY <2>1, <2>2, <2>3, <2>4 DEF Framed
<1>3. CASE RevokeOtherToken(p)
    <2>1. FrameReq(p)  BY <1>a, <1>3, RevokeOtherTokenEffect DEF FrameReq, Steps, Went, Held, Asked, Fixed
    <2>2. FrameWorld(p)  BY <1>a, <1>3, RevokeOtherTokenEffect DEF FrameWorld, Around, World, SameCounts
    <2>3. FramePg(p)  BY <1>a, <1>3, RevokeOtherTokenEffect DEF FramePg, World
    <2>4. FrameSeen(p)  BY <1>a, <1>3, RevokeOtherTokenEffect DEF FrameSeen, Histories, World
    <2> QED  BY <2>1, <2>2, <2>3, <2>4 DEF Framed
<1>4. CASE RevokeTokenPg(p)
    <2>1. FrameReq(p)  BY <1>a, <1>4, RevokeTokenPgEffect DEF FrameReq, Steps, Went, Held, Asked, Fixed
    <2>2. FrameWorld(p)  BY <1>a, <1>4, RevokeTokenPgEffect DEF FrameWorld, Around, World, SameCounts
    <2>3. FramePg(p)  BY <1>a, <1>4, RevokeTokenPgEffect DEF FramePg, PgRevokeToken, PgTyped, PgStates
    <2>4. FrameSeen(p)  BY <1>a, <1>4, RevokeTokenPgEffect DEF FrameSeen, Histories, World
    <2> QED  BY <2>1, <2>2, <2>3, <2>4 DEF Framed
<1>5. CASE RevokeAllPg(p)
    <2>1. FrameReq(p)  BY <1>a, <1>5, RevokeAllPgEffect DEF FrameReq, Steps, Went, Held, Asked, Fixed
    <2>2. FrameWorld(p)  BY <1>a, <1>5, RevokeAllPgEffect DEF FrameWorld, Around, World, SameCounts
    <2>3. FramePg(p)  BY <1>a, <1>5, RevokeAllPgEffect DEF FramePg, PgRevokeSubjectSessions, PgTyped, PgStates
    <2>4. FrameSeen(p)  BY <1>a, <1>5, RevokeAllPgEffect DEF FrameSeen, Histories, World
    <2> QED  BY <2>1, <2>2, <2>3, <2>4 DEF Framed
<1> QED  BY <1>1, <1>2, <1>3, <1>4, <1>5

\* What those of a sign-in leave alone.
LEMMA SignInFrame ==
  ASSUME Kept0, NEW p \in Clients, ClaimOnce(p) \/ CountFailurePg(p) \/ CountFailureRedis(p) \/ CreateSessionRedis(p) \/ CreateSessionPg(p) \/ StoreTokenRedis(p) \/ StoreTokenPg(p)
  PROVE  FrameReq(p) /\ Framed(p)
<1>a. TypeOK /\ Route(R(p)) /\ pg \in PgTyped /\ seen \in Histories /\ redis \in RedisStates  BY TypeIs DEF Kept0, Routes, Stored
<1>1. CASE ClaimOnce(p)
    <2>0. R(p).o \in Operations  BY <1>a, <1>1 DEF Route, ClaimOnce, At, R
    <2>1. FrameReq(p)  BY <1>a, <1>1, <2>0, ClaimOnceEffect DEF FrameReq, Steps, Went, Held, Asked, Fixed
    <2>2. FrameWorld(p)  BY <1>a, <1>1, <2>0, ClaimOnceEffect DEF FrameWorld, Around, World, SameCounts
    <2>3. FramePg(p)  BY <1>a, <1>1, <2>0, ClaimOnceEffect DEF FramePg, PgClaim, PgTyped, PgStates
    <2>4. FrameSeen(p)  BY <1>a, <1>1, <2>0, ClaimOnceEffect DEF FrameSeen, Histories, World
    <2> QED  BY <2>1, <2>2, <2>3, <2>4 DEF Framed
<1>2. CASE CountFailurePg(p)
    <2>1. FrameReq(p)  BY <1>a, <1>2, CountFailurePgEffect DEF FrameReq, Steps, Went, Held, Asked, Fixed
    <2>2. FrameWorld(p)  BY <1>a, <1>2, CountFailurePgEffect DEF FrameWorld, Around, World, SameCounts
    <2>3. FramePg(p)  BY <1>a, <1>2, CountFailurePgEffect DEF FramePg, PgIncrement, PgTyped, PgStates
    <2>4. FrameSeen(p)  BY <1>a, <1>2, CountFailurePgEffect DEF FrameSeen, Histories, World
    <2> QED  BY <2>1, <2>2, <2>3, <2>4 DEF Framed
<1>3. CASE CountFailureRedis(p)
    <2>1. FrameReq(p)  BY <1>a, <1>3, CountFailureRedisEffect DEF FrameReq, Steps, Went, Held, Asked, Fixed
    <2>2. FrameWorld(p)  BY <1>a, <1>3, CountFailureRedisEffect DEF FrameWorld, Around, World, SameCounts
    <2>3. FramePg(p)  BY <1>a, <1>3, CountFailureRedisEffect DEF FramePg, World
    <2>4. FrameSeen(p)  BY <1>a, <1>3, CountFailureRedisEffect DEF FrameSeen, Histories, World
    <2> QED  BY <2>1, <2>2, <2>3, <2>4 DEF Framed
<1>4. CASE CreateSessionRedis(p)
    <2>1. FrameReq(p)  BY <1>a, <1>4, CreateSessionRedisEffect DEF FrameReq, Steps, Went, Held, Asked, Fixed
    <2>2. FrameWorld(p)  BY <1>a, <1>4, CreateSessionRedisEffect DEF FrameWorld, Around, World, SameCounts
    <2>3. FramePg(p)  BY <1>a, <1>4, CreateSessionRedisEffect DEF FramePg, World
    <2>4. FrameSeen(p)  BY <1>a, <1>4, CreateSessionRedisEffect DEF FrameSeen, Histories, World
    <2> QED  BY <2>1, <2>2, <2>3, <2>4 DEF Framed
<1>5. CASE CreateSessionPg(p)
    <2>1. FrameReq(p)  BY <1>a, <1>5, CreateSessionPgEffect DEF FrameReq, Steps, Went, Held, Asked, Fixed
    <2>2. FrameWorld(p)  BY <1>a, <1>5, CreateSessionPgEffect DEF FrameWorld, Around, World, SameCounts
    <2>3. FramePg(p)  BY <1>a, <1>5, CreateSessionPgEffect DEF FramePg, PgCreateSession, PgTyped, PgStates
    <2>4. FrameSeen(p)  BY <1>a, <1>5, CreateSessionPgEffect DEF FrameSeen, Histories, World
    <2> QED  BY <2>1, <2>2, <2>3, <2>4 DEF Framed
<1>6. CASE StoreTokenRedis(p)
    <2>1. FrameReq(p)  BY <1>a, <1>6, StoreTokenRedisEffect DEF FrameReq, Steps, Went, Held, Asked, Fixed
    <2>2. FrameWorld(p)  BY <1>a, <1>6, StoreTokenRedisEffect DEF FrameWorld, Around, World, SameCounts
    <2>3. FramePg(p)  BY <1>a, <1>6, StoreTokenRedisEffect DEF FramePg, World
    <2>4. FrameSeen(p)  BY <1>a, <1>6, StoreTokenRedisEffect DEF FrameSeen, Histories, World
    <2> QED  BY <2>1, <2>2, <2>3, <2>4 DEF Framed
<1>7. CASE StoreTokenPg(p)
    <2>1. FrameReq(p)  BY <1>a, <1>7, StoreTokenPgEffect DEF FrameReq, Steps, Went, Held, Asked, Fixed
    <2>2. FrameWorld(p)  BY <1>a, <1>7, StoreTokenPgEffect DEF FrameWorld, Around, World, SameCounts
    <2>3. FramePg(p)  BY <1>a, <1>7, StoreTokenPgEffect DEF FramePg, PgStoreRefreshToken, PgTyped, PgStates
    <2>4. FrameSeen(p)  BY <1>a, <1>7, StoreTokenPgEffect DEF FrameSeen, Histories, World
    <2> QED  BY <2>1, <2>2, <2>3, <2>4 DEF Framed
<1> QED  BY <1>1, <1>2, <1>3, <1>4, <1>5, <1>6, <1>7

\* What those of a federated sign-in leave alone.
LEMMA CallbackFrame ==
  ASSUME Kept0, NEW p \in Clients, ClearFailures(p) \/ LoginURL(p) \/ ConsumeState(p) \/ FindUser(p) \/ CreateUser(p)
  PROVE  FrameReq(p) /\ Framed(p)
<1>a. TypeOK /\ Route(R(p)) /\ pg \in PgTyped /\ seen \in Histories /\ redis \in RedisStates  BY TypeIs DEF Kept0, Routes, Stored
<1>1. CASE ClearFailures(p)
    <2>1. FrameReq(p)  BY <1>a, <1>1, ClearFailuresEffect DEF FrameReq, Steps, Went, Held, Asked, Fixed
    <2>2. FrameWorld(p)  BY <1>a, <1>1, ClearFailuresEffect DEF FrameWorld, Around, World, SameCounts
    <2>3. FramePg(p)  BY <1>a, <1>1, ClearFailuresEffect DEF FramePg, PgClear, PgTyped, PgStates
    <2>4. FrameSeen(p)  BY <1>a, <1>1, ClearFailuresEffect DEF FrameSeen, Histories, World
    <2> QED  BY <2>1, <2>2, <2>3, <2>4 DEF Framed
<1>2. CASE LoginURL(p)
    <2>1. FrameReq(p)  BY <1>a, <1>2, LoginURLEffect DEF FrameReq, Steps, Went, Held, Asked, Fixed
    <2>2. FrameWorld(p)  BY <1>a, <1>2, LoginURLEffect DEF FrameWorld, Around, World, SameCounts
    <2>3. FramePg(p)  BY <1>a, <1>2, LoginURLEffect DEF FramePg, PgSaveState, PgTyped, PgStates
    <2>4. FrameSeen(p)  BY <1>a, <1>2, LoginURLEffect DEF FrameSeen, Histories, World
    <2> QED  BY <2>1, <2>2, <2>3, <2>4 DEF Framed
<1>3. CASE ConsumeState(p)
    <2>1. FrameReq(p)  BY <1>a, <1>3, ConsumeStateEffect DEF FrameReq, Steps, Went, Held, Asked, Fixed
    <2>2. FrameWorld(p)  BY <1>a, <1>3, ConsumeStateEffect DEF FrameWorld, Around, World, SameCounts
    <2>3. FramePg(p)  BY <1>a, <1>3, ConsumeStateEffect DEF FramePg, PgConsumeState, PgTyped, PgStates
    <2>4. FrameSeen(p)  BY <1>a, <1>3, ConsumeStateEffect DEF FrameSeen, Histories, World
    <2> QED  BY <2>1, <2>2, <2>3, <2>4 DEF Framed
<1>4. CASE FindUser(p)
    <2>1. FrameReq(p)  BY <1>a, <1>4, FindUserEffect DEF FrameReq, Steps, Went, Held, Asked, Fixed
    <2>2. FrameWorld(p)  BY <1>a, <1>4, FindUserEffect DEF FrameWorld, Around, World, SameCounts
    <2>3. FramePg(p)  BY <1>a, <1>4, FindUserEffect DEF FramePg, World
    <2>4. FrameSeen(p)  BY <1>a, <1>4, FindUserEffect DEF FrameSeen, Histories, World
    <2> QED  BY <2>1, <2>2, <2>3, <2>4 DEF Framed
<1>5. CASE CreateUser(p)
    <2>1. FrameReq(p)  BY <1>a, <1>5, CreateUserEffect DEF FrameReq, Steps, Went, Held, Asked, Fixed
    <2>2. FrameWorld(p)  BY <1>a, <1>5, CreateUserEffect DEF FrameWorld, Around, World, SameCounts
    <2>3. FramePg(p)  BY <1>a, <1>5, CreateUserEffect DEF FramePg, World
    <2>4. FrameSeen(p)  BY <1>a, <1>5, CreateUserEffect DEF FrameSeen, Histories, World
    <2> QED  BY <2>1, <2>2, <2>3, <2>4 DEF Framed
<1> QED  BY <1>1, <1>2, <1>3, <1>4, <1>5

\* What those that write the row of a user leave alone.
LEMMA RowFrame ==
  ASSUME Kept0, NEW p \in Clients, SaveUser(p) \/ DeleteUser(p)
  PROVE  FrameReq(p) /\ Framed(p)
<1>a. TypeOK /\ seen \in Histories  BY TypeIs DEF Kept0, Stored
<1>1. CASE SaveUser(p)
    <2>1. FrameReq(p)  BY <1>a, <1>1, SaveUserEffect DEF FrameReq, Rewritten, Like
    <2>2. FrameWorld(p) /\ FramePg(p)  BY <1>a, <1>1, SaveUserEffect DEF FrameWorld, FramePg
    <2>3. FrameSeen(p)
        <3>1. PICK gone : seen' = [seen EXCEPT !.promised[R(p).user] = @ \ gone]  BY <1>a, <1>1, SaveUserEffect
        <3> QED  BY <1>a, <1>1, <3>1 DEF FrameSeen, Histories
    <2> QED  BY <2>1, <2>2, <2>3 DEF Framed
<1>2. CASE DeleteUser(p)
    <2>1. Rewritten(p, R(p).user, {}) /\ UNCHANGED <<now, redisOn, redis, pg, session, token, access, given, states, identity, script, seen>>
        BY <1>a, <1>2, DeleteUserEffect
    <2>2. FrameReq(p)
        <3>1. Like(req[p], req'[p]) /\ req'[p].told = req[p].told  BY <2>1 DEF Rewritten
        <3> QED  BY <3>1 DEF FrameReq, Like, Asked
    <2>3. FrameWorld(p)  BY <1>2, <2>1 DEF FrameWorld
    <2> QED  BY <2>1, <2>2, <2>3, Untouched DEF Framed
<1> QED  BY <1>1, <1>2

\* What the start and the end of a request leave alone.
LEMMA EndFrame ==
  ASSUME Kept0, NEW p \in Clients, Answer(p) \/ Refuse(p) \/ Start(p)
  PROVE  Framed(p)
<1>a. TypeOK /\ Handed /\ seen \in Histories  BY TypeIs DEF Kept0, Stored
<1>1. CASE Answer(p)
    <2>1. FrameWorld(p) /\ FramePg(p)  BY <1>a, <1>1, AnswerEffect DEF FrameWorld, FramePg
    <2>2. FrameSeen(p)  BY <1>a, <1>1, AnswerEffect DEF FrameSeen
    <2> QED  BY <2>1, <2>2 DEF Framed
<1>2. CASE Refuse(p)
    <2>1. FrameWorld(p) /\ FramePg(p)  BY <1>a, <1>2, RefuseEffect DEF FrameWorld, FramePg, Around
    <2>2. FrameSeen(p)
        <3>1. PICK f : seen' = seen \/ seen' = [seen EXCEPT !.lock = f]  BY <1>a, <1>2, RefuseEffect
        <3> QED  BY <1>a, <1>2, <3>1 DEF FrameSeen, Histories
    <2> QED  BY <2>1, <2>2 DEF Framed
<1>3. CASE Start(p)
    <2>1. PICK r \in Requests : Begin(p, r)  BY <1>a, <1>3, StartEffect
    <2>2. UNCHANGED <<now, redisOn, redis, pg, session, token, access, given, states, users, identity, seen>>
        BY <1>a, <2>1, BeginEffect
    <2> QED  BY <2>2, Untouched DEF FrameWorld, Framed
<1> QED  BY <1>1, <1>2, <1>3

\* What every step leaves alone.
LEMMA StepFrame ==
  ASSUME Kept0, NEW p \in Clients, Step(p)
  PROVE  /\ Framed(p)
         /\ FrameReq(p) \/ Start(p) \/ Answer(p) \/ Refuse(p)
<1>1. CASE Answer(p) \/ Refuse(p) \/ Start(p)  BY <1>1, EndFrame
<1>2. CASE ~(Answer(p) \/ Refuse(p) \/ Start(p))
    BY <1>2, ThinkFrame, SignOutFrame, SignInFrame, CallbackFrame, RowFrame DEF Step, Thinking0
<1> QED  BY <1>1, <1>2

------------------------------------------------------------------------------
(* Tokens: what a request carries, and where they are handed out.          *)

\* A request on its path carries the tokens it needs.
LEMMA CarriesOn ==
  ASSUME NEW r, NEW s, Carries(r), Route(r), Path(r, s),
         s.tok = r.tok \/ s.tok # 0,
         s.new = r.new \/ s.at \in {"rotateRedis", "tokPg", "denied", "failed"},
         s.at \in {"rotateRedis", "tokPg"} => s.new # 0,
         s.at = "verifyOther" => s.tok # 0
  PROVE  Carries(s)
<1>1. s.o = r.o  BY DEF Path
<1>2. s.new # 0 => s.at \in {"rotateRedis", "tokPg", "clear", "ok", "denied", "failed"}
    <2>1. CASE s.new = r.new
        <3>1. r.new # 0 => r.at \in {"rotateRedis", "tokPg", "clear", "ok", "denied", "failed"}  BY DEF Carries
        <3>2. ASSUME r.at \in {"rotateRedis", "tokPg", "clear", "ok", "denied", "failed"}
              PROVE  s.at \in {"clear", "ok", "denied", "failed"}
            BY <3>2 DEF Path
        <3> QED  BY <2>1, <3>1, <3>2
    <2>2. CASE s.new # r.new  BY <2>2
    <2> QED  BY <2>1, <2>2
<1>3. s.at = "clear" => s.new # 0
    <2>1. s.at = "clear" => r.at = "tokPg" /\ s.new = r.new  BY DEF Path
    <2> QED  BY <2>1 DEF Carries
<1>4. s.o.op = "refresh" /\ s.at \in {"verify", "resolve", "verifyAgain", "rotate", "rotateRedis", "ok"} => s.tok # 0
    <2>1. SUFFICES ASSUME s.o.op = "refresh", s.at \in {"verify", "resolve", "verifyAgain", "rotate", "rotateRedis", "ok"}
                   PROVE  s.tok # 0
        OBVIOUS
    <2>2. r.at \in {"verify", "resolve", "verifyAgain", "rotate", "rotateRedis"}
        <3>1. CASE s.at # "ok"  BY <1>1, <2>1, <3>1 DEF Path
        <3>2. CASE s.at = "ok"
            <4>1. r.at \in {"resolve", "rotateRedis", "signedOut", "allPg", "tokPg", "clear", "saveState", "save", "delete"}
                BY <3>2 DEF Path
            <4>2. r.at \notin {"signedOut", "allPg", "tokPg", "clear", "saveState", "save", "delete"}
                BY <1>1, <2>1 DEF Route, Issuing, Changing
            <4> QED  BY <4>1, <4>2
        <3> QED  BY <3>1, <3>2
    <2> QED  BY <1>1, <2>1, <2>2 DEF Carries
<1>5. s.at \in {"verifyOther", "revTokenRedis", "revTokenPg", "revoked"} => s.tok # 0
    <2>1. CASE s.at = "verifyOther"  BY <2>1
    <2>2. CASE s.at = "revTokenRedis"
        <3>1. r.at = "verifyOther" \/ (r.at = "verify" /\ r.o.op = "logout" /\ r.o.gives = "refresh")  BY <2>2 DEF Path
        <3> QED  BY <3>1 DEF Carries
    <2>3. CASE s.at \in {"revTokenPg", "revoked"}
        <3>1. r.at \in {"revTokenRedis", "revTokenPg"}  BY <2>3 DEF Path
        <3> QED  BY <3>1 DEF Carries
    <2> QED  BY <2>1, <2>2, <2>3
<1>6. s.at # "verify"  BY DEF Path
<1> QED  BY <1>2, <1>3, <1>4, <1>5, <1>6 DEF Carries

\* The tokens that come with a step forward of p.
LEMMA MintEffect ==
  ASSUME Kept0, NEW p \in Clients, Rotate(p) \/ StoreTokenRedis(p)
  PROVE  \E n \in Toks :
           /\ token[n].sid = 0 /\ R(p).sid # 0 /\ R(p).new = 0
           /\ token' = [token EXCEPT ![n] = [sid |-> R(p).sid, end |-> now + RefreshTTL]]
           /\ req'[p].sid = R(p).sid /\ req'[p].tok = R(p).tok
           /\ req'[p].new = n \/ (req'[p].new = 0 /\ req'[p].at = "denied")
           /\ req'[p].at \in {"rotateRedis", "tokPg"} => req'[p].new = n
<1>1. R(p).at \in {"rotate", "tokRedis"}  BY RotateEffect, StoreTokenRedisEffect DEF Kept0
<1>2. R(p).new = 0  BY <1>1 DEF Kept0, Handed, Carries
<1>3. R(p).sid # 0
    <2>1. Bears(R(p)) /\ Route(R(p))  BY DEF Kept0, Owned, Routes
    <2> QED  BY <1>1, <2>1 DEF Bears, Route
<1>4. NextTok \in Toks /\ token[NextTok].sid = 0  BY RotateEffect, StoreTokenRedisEffect DEF Kept0
<1>5. CASE Rotate(p)
    <2>1. /\ token' = [token EXCEPT ![NextTok] = [sid |-> R(p).sid, end |-> now + RefreshTTL]]
          /\ req'[p].sid = R(p).sid /\ req'[p].tok = R(p).tok
          /\ \/ req'[p].at = "rotateRedis" /\ req'[p].new = NextTok
             \/ req'[p].at = "denied" /\ req'[p].new = 0
        BY <1>2, <1>5, RotateEffect DEF Kept0, R
    <2> QED  BY <1>2, <1>3, <1>4, <2>1
<1>6. CASE StoreTokenRedis(p)
    <2>1. /\ token' = [token EXCEPT ![NextTok] = [sid |-> R(p).sid, end |-> now + RefreshTTL]]
          /\ req'[p].sid = R(p).sid /\ req'[p].tok = R(p).tok
          /\ req'[p].at = "tokPg" /\ req'[p].new = NextTok
        BY <1>6, StoreTokenRedisEffect DEF Kept0, R
    <2> QED  BY <1>2, <1>3, <1>4, <2>1
<1> QED  BY <1>5, <1>6

\* So it does after a step forward.
LEMMA TokenFrame ==
  ASSUME Kept0, NEW p \in Clients, Step(p), Onward(p), FrameReq(p)
  PROVE  Carries(req'[p])
<1>1. /\ Carries(req[p]) /\ Route(req[p]) /\ Path(req[p], req'[p]) /\ Carries(R(p)) /\ TypeOK
      /\ Handed
    BY DEF Kept0, Handed, Routes, R, Onward
<1>2. CASE RevokeOtherToken(p)
    <2>1. \/ req'[p].at = "verifyOther" /\ req'[p].tok \in given
          \/ req'[p].at = "ok" /\ req'[p].tok = req[p].tok
        BY <1>1, <1>2, RevokeOtherTokenEffect
    <2>2. 0 \notin given  BY AuthStoreAssumption DEF Kept0, TypeOK
    <2>3. req'[p].new = req[p].new  BY <1>1, <1>2, RevokeOtherTokenEffect
    <2> QED  BY <1>1, <2>1, <2>2, <2>3, CarriesOn
<1>3. CASE Rotate(p) \/ StoreTokenRedis(p)
    <2>1. PICK n \in Toks :
            /\ req'[p].tok = R(p).tok
            /\ req'[p].new = n \/ (req'[p].new = 0 /\ req'[p].at = "denied")
            /\ req'[p].at \in {"rotateRedis", "tokPg"} => req'[p].new = n
        BY <1>3, MintEffect
    <2>2. n # 0  BY AuthStoreAssumption
    <2>3. req'[p].at \in {"rotateRedis", "tokPg", "denied"}  BY <1>1, <1>3, RotateEffect, StoreTokenRedisEffect
    <2> QED  BY <1>1, <2>1, <2>2, <2>3, CarriesOn DEF R
<1>4. CASE ~(RevokeOtherToken(p) \/ Rotate(p) \/ StoreTokenRedis(p))
    <2>1. req'[p].tok = req[p].tok /\ req'[p].new = req[p].new  BY <1>4 DEF FrameReq
    <2>2. req'[p].at = "rotateRedis" => R(p).at = "rotate"  BY <1>1 DEF Path, R
    <2>3. req'[p].at = "tokPg" => R(p).at = "tokRedis"  BY <1>1 DEF Path, R
    <2>4. req'[p].at = "verifyOther" => R(p).at = "signedOut"  BY <1>1 DEF Path, R
    <2>5. req'[p].at \notin {"rotateRedis", "tokPg", "verifyOther"}  BY <1>4, <2>2, <2>3, <2>4, Guards
    <2> QED  BY <1>1, <2>1, <2>5, CarriesOn
<1> QED  BY <1>2, <1>3, <1>4

\* An idle client carries none.
LEMMA IdleCarries == Carries(Idle)
BY DEF Carries, Idle, NoOp

\* A request that starts carries what its client was given.
LEMMA StartCarries ==
  ASSUME Kept0, NEW p \in Clients, Starting(p)
  PROVE  Carries(req'[p])
<1>1. PICK r \in Requests : Begun(p, r, req'[p]) /\ Starts(Head(script[p]), r)  BY DEF Starting
<1> DEFINE o == Head(script[p])
           s == req'[p]
<1>2. 0 \notin given  BY AuthStoreAssumption DEF Kept0, TypeOK
<1>3. s.o = o /\ s.at = r.at /\ s.tok = r.tok /\ s.new = r.new /\ Starts(o, r)  BY <1>1 DEF Begun
<1> HIDE DEF o, s
<1>4. Carries(s)  BY <1>2, <1>3 DEF Carries, Starts, Account, Changing
<1> QED  BY <1>4 DEF s

\* A step forward ends no request.
LEMMA OnwardFrame ==
  ASSUME Kept0, NEW p \in Clients, Step(p), Onward(p)
  PROVE  FrameReq(p)
<1>1. req[p].at # "idle" /\ req'[p].at # "idle" /\ (Start(p) \/ Answer(p) \/ Refuse(p) \/ FrameReq(p))
    BY StepFrame DEF Onward, Path
<1>2. ~Start(p)  BY <1>1, Guards DEF R
<1>3. ASSUME Answer(p) \/ Refuse(p) PROVE FALSE
    <2>1. TypeOK /\ Handed  BY DEF Kept0
    <2>2. req'[p] = Idle  BY <1>3, <2>1, AnswerEffect, RefuseEffect
    <2> QED  BY <1>1, <2>2 DEF Idle
<1> QED  BY <1>1, <1>2, <1>3

\* Every step keeps the tokens carried.
LEMMA CarriesKept ==
  ASSUME Kept0, NEW p \in Clients, Step(p), NEW q \in Clients
  PROVE  Carries(req'[q])
<1>1. CASE q # p
    <2>1. Like(req[q], req'[q]) /\ req'[q].at = req[q].at  BY <1>1, StepKinds DEF Beside
    <2>2. Carries(req[q])  BY DEF Kept0, Handed, R
    <2> QED  BY <2>1, <2>2 DEF Like, Carries
<1>2. CASE q = p
    <2>1. CASE Onward(p)
        <3>1. FrameReq(p)  BY <2>1, OnwardFrame
        <3> QED  BY <1>2, <2>1, <3>1, TokenFrame
    <2>2. CASE Starting(p)  BY <1>2, <2>2, StartCarries
    <2>3. CASE req'[p] = Idle  BY <1>2, <2>3, IdleCarries
    <2> QED  BY <2>1, <2>2, <2>3, StepKinds
<1> QED  BY <1>1, <1>2

------------------------------------------------------------------------------
(* Tokens: a signed one stays as it is, and is held by one request.        *)

\* What clients hold grows only by an answer.
LEMMA GivenSteps ==
  ASSUME Kept0, NEW p \in Clients, Step(p)
  PROVE  \/ given' = given /\ access' = access
         \/ /\ R(p).new # 0 /\ given' = given \cup {R(p).new} /\ req'[p] = Idle /\ token' = token
            /\ access' = access \cup {[sid |-> R(p).sid, end |-> R(p).end]} /\ session' = session
<1>1. CASE Answer(p)
    <2>1. TypeOK  BY DEF Kept0
    <2>2. req'[p] = Idle /\ token' = token /\ session' = session  BY <1>1, <2>1, AnswerEffect
    <2>3. CASE R(p).new # 0
        <3>1. given' = given \cup {R(p).new} /\ access' = access \cup {[sid |-> R(p).sid, end |-> R(p).end]}
            BY <1>1, <2>1, <2>3, AnswerEffect
        <3> QED  BY <2>2, <2>3, <3>1
    <2>4. CASE R(p).new = 0
        <3>1. given' = given /\ access' = access  BY <1>1, <2>1, <2>4, AnswerEffect
        <3> QED  BY <3>1
    <2> QED  BY <2>3, <2>4
<1>2. CASE ~Answer(p)
    <2>1. FrameWorld(p)  BY StepFrame DEF Framed
    <2> QED  BY <1>2, <2>1 DEF FrameWorld
<1> QED  BY <1>1, <1>2

\* A token that was signed stays as it is.
LEMMA TokenSteps ==
  ASSUME Kept0, NEW p \in Clients, Step(p)
  PROVE  \A t \in Toks : token[t].sid # 0 => token'[t] = token[t]
<1>1. token \in [Toks -> RefreshTokenRecords]  BY DEF Kept0, TypeOK, StoreTypeOK
<1>2. CASE Rotate(p) \/ StoreTokenRedis(p)
    <2>1. PICK n \in Toks : /\ token[n].sid = 0
                            /\ token' = [token EXCEPT ![n] = [sid |-> R(p).sid, end |-> now + RefreshTTL]]
        BY <1>2, MintEffect
    <2> QED  BY <1>1, <2>1
<1>3. CASE ~(Rotate(p) \/ StoreTokenRedis(p))
    <2>1. FrameWorld(p)  BY StepFrame DEF Framed
    <2> QED  BY <1>3, <2>1 DEF FrameWorld
<1> QED  BY <1>2, <1>3

\* A request has no new token, the one it had, or one signed now.
LEMMA NewSteps ==
  ASSUME Kept0, NEW p \in Clients, Step(p)
  PROVE  \/ req'[p].new = 0
         \/ req'[p].new = R(p).new /\ req'[p].sid = R(p).sid /\ given' = given
         \/ /\ req'[p].new \in Toks /\ token[req'[p].new].sid = 0 /\ given' = given /\ R(p).sid # 0
            /\ token'[req'[p].new].sid = R(p).sid /\ req'[p].sid = R(p).sid
<1> DEFINE n == req'[p].new
<1>1. token \in [Toks -> RefreshTokenRecords]  BY DEF Kept0, TypeOK, StoreTypeOK
<1>2. CASE Starting(p)
    <2>1. PICK r \in Requests : Begun(p, r, req'[p]) /\ Starts(Head(script[p]), r)  BY <1>2 DEF Starting
    <2> QED  BY <2>1 DEF Begun, Starts
<1>3. CASE req'[p] = Idle  BY <1>3 DEF Idle
<1>4. CASE Onward(p)
    <2>1. FrameReq(p) /\ FrameWorld(p)  BY <1>4, OnwardFrame, StepFrame DEF Framed
    <2>2. given' = given
        <3>1. req'[p] # Idle  BY <1>4 DEF Onward, Path, Idle
        <3> QED  BY <3>1, GivenSteps
    <2>3. CASE Rotate(p) \/ StoreTokenRedis(p)
        <3>1. PICK m \in Toks :
                /\ token[m].sid = 0 /\ R(p).sid # 0
                /\ token' = [token EXCEPT ![m] = [sid |-> R(p).sid, end |-> now + RefreshTTL]]
                /\ req'[p].sid = R(p).sid
                /\ req'[p].new = m \/ (req'[p].new = 0 /\ req'[p].at = "denied")
            BY <2>3, MintEffect
        <3>2. token'[m].sid = R(p).sid  BY <1>1, <3>1
        <3> QED  BY <2>2, <3>1, <3>2
    <2>4. CASE CreateSessionRedis(p)
        <3>1. R(p).at = "sessRedis"  BY <2>4, Guards
        <3>2. R(p).new = 0  BY <3>1 DEF Kept0, Handed, Carries
        <3>3. ~Rotate(p) /\ ~StoreTokenRedis(p)  BY <3>1, Guards
        <3> QED  BY <2>1, <3>2, <3>3 DEF FrameReq, R
    <2>5. CASE ~(Rotate(p) \/ StoreTokenRedis(p) \/ CreateSessionRedis(p))
        BY <2>1, <2>2, <2>5 DEF FrameReq, R
    <2> QED  BY <2>3, <2>4, <2>5
<1> QED  BY <1>2, <1>3, <1>4, StepKinds

\* The refresh token a request names was handed out.
LEMMA TokSteps ==
  ASSUME Kept0, NEW p \in Clients, Step(p)
  PROVE  req'[p].tok # 0 => req'[p].tok \in given
<1>1. R(p).tok # 0 => R(p).tok \in given  BY DEF Kept0, Handed
<1>2. CASE Starting(p)
    <2>1. PICK r \in Requests : Begun(p, r, req'[p]) /\ Starts(Head(script[p]), r)  BY <1>2 DEF Starting
    <2> QED  BY <2>1 DEF Begun, Starts
<1>3. CASE req'[p] = Idle  BY <1>3 DEF Idle
<1>4. CASE Onward(p)
    <2>1. FrameReq(p)  BY <1>4, OnwardFrame
    <2>2. CASE RevokeOtherToken(p)
        <3>1. TypeOK  BY DEF Kept0
        <3>2. req'[p].tok \in given \/ req'[p].tok = req[p].tok  BY <2>2, <3>1, RevokeOtherTokenEffect
        <3> QED  BY <1>1, <3>2 DEF R
    <2>3. CASE ~RevokeOtherToken(p)  BY <1>1, <2>1, <2>3 DEF FrameReq, R
    <2> QED  BY <2>2, <2>3
<1> QED  BY <1>2, <1>3, <1>4, StepKinds

\* Every step keeps tokens apart until they are handed out.
LEMMA HandedKept ==
  ASSUME Kept0, NEW p \in Clients, Step(p)
  PROVE  Handed'
<1>1. /\ \A t \in given : token[t].sid # 0
      /\ \A q \in Clients : req[q].tok # 0 => req[q].tok \in given
      /\ \A q \in Clients : req[q].new # 0 => /\ req[q].new \notin given /\ token[req[q].new].sid # 0
                                              /\ token[req[q].new].sid = req[q].sid
                                              /\ \A o \in Clients \ {q} : req[o].new # req[q].new
    BY DEF Kept0, Handed, R
<1>2. given \subseteq Toks /\ \A q \in Clients : req[q].new # 0 => req[q].new \in Toks
    <2>1. given \subseteq Toks  BY DEF Kept0, TypeOK
    <2>2. \A q \in Clients : req[q].new # 0 => req[q].new \in Toks  BY Named DEF Kept0, R
    <2> QED  BY <2>1, <2>2
<1>3. \A t \in Toks : token[t].sid # 0 => token'[t] = token[t]  BY TokenSteps
<1>4. \A q \in Clients \ {p} : req'[q].new = req[q].new /\ req'[q].tok = req[q].tok /\ req'[q].sid = req[q].sid
    BY StepKinds DEF Beside, Like
<1>5. given \subseteq given'  BY GivenSteps
<1>6. \A t \in given' : token'[t].sid # 0
    <2>1. CASE given' = given  BY <1>1, <1>2, <1>3, <2>1
    <2>2. CASE R(p).new # 0 /\ given' = given \cup {R(p).new} /\ token' = token  BY <1>1, <2>2 DEF R
    <2> QED  BY <2>1, <2>2, GivenSteps
<1>7. \A q \in Clients : req'[q].tok # 0 => req'[q].tok \in given'
    BY <1>1, <1>4, <1>5, TokSteps
<1>8. ASSUME NEW q \in Clients, req'[q].new # 0
      PROVE  req'[q].new \notin given' /\ token'[req'[q].new].sid # 0 /\ token'[req'[q].new].sid = req'[q].sid
    <2>1. CASE q # p
        <3>1. req'[q].new = req[q].new /\ req'[q].sid = req[q].sid /\ req[q].new # 0  BY <1>4, <1>8, <2>1
        <3>2. req[q].new \notin given'
            <4>1. CASE given' = given  BY <1>1, <3>1, <4>1
            <4>2. CASE R(p).new # 0 /\ given' = given \cup {R(p).new}  BY <1>1, <2>1, <3>1, <4>2 DEF R
            <4> QED  BY <4>1, <4>2, GivenSteps
        <3> QED  BY <1>1, <1>2, <1>3, <3>1, <3>2
    <2>2. CASE q = p
        <3>1. CASE req'[p].new = R(p).new /\ req'[p].sid = R(p).sid /\ given' = given
            BY <1>1, <1>2, <1>3, <1>8, <2>2, <3>1 DEF R
        <3>2. CASE /\ req'[p].new \in Toks /\ token[req'[p].new].sid = 0 /\ given' = given /\ R(p).sid # 0
                   /\ token'[req'[p].new].sid = R(p).sid /\ req'[p].sid = R(p).sid
            BY <1>1, <2>2, <3>2
        <3> QED  BY <1>8, <2>2, <3>1, <3>2, NewSteps
    <2> QED  BY <2>1, <2>2
<1>9. ASSUME NEW q \in Clients, req'[q].new # 0, NEW o \in Clients \ {q}
      PROVE  req'[o].new # req'[q].new
    <2>1. CASE q # p /\ o # p  BY <1>1, <1>4, <1>9, <2>1
    <2>2. ASSUME NEW x \in Clients \ {p}, req[x].new # 0
          PROVE  req'[p].new # req[x].new
        <3>1. CASE req'[p].new = 0  BY <2>2, <3>1
        <3>2. CASE req'[p].new = R(p).new  BY <1>1, <2>2, <3>2 DEF R
        <3>3. CASE token[req'[p].new].sid = 0  BY <1>1, <2>2, <3>3
        <3> QED  BY <3>1, <3>2, <3>3, NewSteps
    <2>3. CASE q = p /\ o # p
        <3>1. req'[o].new = req[o].new  BY <1>4, <2>3
        <3>2. req[o].new = 0 \/ req'[p].new # req[o].new  BY <2>2, <2>3
        <3> QED  BY <1>9, <2>3, <3>1, <3>2
    <2>4. CASE o = p /\ q # p
        <3>1. req'[q].new = req[q].new  BY <1>4, <2>4
        <3> QED  BY <1>9, <2>2, <2>4, <3>1
    <2> QED  BY <2>1, <2>3, <2>4
<1>10. \A q \in Clients : Carries(req'[q])  BY CarriesKept
<1> QED  BY <1>6, <1>7, <1>8, <1>9, <1>10 DEF Handed, R

------------------------------------------------------------------------------
(* Tokens: one is spent once.                                              *)

\* Spending(p, t), of the request itself.
Spends(r, t) == r.o.op = "refresh" /\ r.tok = t /\ r.at \in {"rotateRedis", "ok"}

\* A request comes to spend a token only by the rotation of Postgres.
LEMMA SpendSteps ==
  ASSUME Kept0, NEW p \in Clients, Step(p), NEW t \in Toks, Spends(req'[p], t)
  PROVE  \/ Spends(req[p], t)
         \/ pg.tok[t] = "live" /\ pg'.tok[t] # "live"
<1>1. CASE Starting(p)
    <2>1. PICK r \in Requests : Begun(p, r, req'[p]) /\ Starts(Head(script[p]), r)  BY <1>1 DEF Starting
    <2> QED  BY <2>1 DEF Begun, Starts, Spends
<1>2. CASE req'[p] = Idle  BY <1>2 DEF Idle, Spends
<1>3. CASE Onward(p)
    <2>1. FrameReq(p)  BY <1>3, OnwardFrame
    <2>2. Path(req[p], req'[p]) /\ Route(req[p])  BY <1>3 DEF Onward, Kept0, Routes, R
    <2>3. req[p].o.op = "refresh" /\ req'[p].tok = t /\ req'[p].at \in {"rotateRedis", "ok"}
        BY <2>2 DEF Spends, Path
    <2>4. req[p].at \in {"rotate", "rotateRedis"}
        <3>1. CASE req'[p].at = "rotateRedis"  BY <2>2, <3>1 DEF Path
        <3>2. CASE req'[p].at = "ok"
            <4>1. req[p].at \in {"resolve", "rotateRedis", "signedOut", "allPg", "tokPg", "clear", "saveState", "save", "delete"}
                  /\ (req[p].at = "resolve" => req[p].o.op = "use")
                BY <2>2, <3>2 DEF Path
            <4>2. req[p].at \notin {"signedOut", "allPg", "tokPg", "clear", "saveState", "save", "delete"}
                BY <2>2, <2>3 DEF Route, Issuing, Changing
            <4> QED  BY <2>3, <4>1, <4>2
        <3> QED  BY <2>3, <3>1, <3>2
    <2>5. CASE req[p].at = "rotateRedis"
        <3>1. ~RevokeOtherToken(p)  BY <2>5, Guards DEF R
        <3> QED  BY <2>1, <2>3, <2>5, <3>1 DEF FrameReq, Spends
    <2>6. CASE req[p].at = "rotate"
        <3>1. Rotate(p) /\ TypeOK /\ req'[p].at # "denied"  BY <2>3, <2>6, Guards DEF R, Kept0
        <3>2. /\ req'[p].tok = req[p].tok /\ NextTok \in Toks /\ token[NextTok].sid = 0
              /\ PgRotates(pg, R(p).tok) /\ pg' = PgRotate(pg, R(p).tok, NextTok)
            BY <3>1, RotateEffect
        <3>3. R(p).tok = t  BY <2>3, <3>2 DEF R
        <3>4. t \in given /\ token[t].sid # 0  BY <3>3, AuthStoreAssumption DEF Kept0, Handed
        <3>5. pg.tok \in [Toks -> TokenStates] /\ pg \in PgStates(Claims, States)
            BY DEF Kept0, TypeOK, StoreTypeOK, PgStates
        <3>6. pg'.tok = [pg.tok EXCEPT ![t] = "revoked", ![NextTok] = "live"]  BY <3>2, <3>3, <3>5 DEF PgRotate, PgStates
        <3> QED  BY <3>2, <3>3, <3>4, <3>5, <3>6 DEF PgRotates
    <2> QED  BY <2>4, <2>5, <2>6
<1> QED  BY <1>1, <1>2, <1>3, StepKinds

\* A token comes to life in Postgres before it is handed out.
LEMMA LiveSteps ==
  ASSUME Kept0, NEW p \in Clients, Step(p), NEW t \in Toks, pg'.tok[t] = "live"
  PROVE  pg.tok[t] = "live" \/ (t \notin given /\ given' = given)
<1>0. /\ pg.tok \in [Toks -> TokenStates] /\ pg \in PgStates(Claims, States) /\ TypeOK
      /\ \A x \in given : token[x].sid # 0
      /\ R(p).new # 0 => R(p).new \notin given
    BY DEF Kept0, Handed, TypeOK, StoreTypeOK, PgStates
<1>1. CASE Rotate(p)
    <2>1. /\ NextTok \in Toks /\ token[NextTok].sid = 0 /\ given' = given
          /\ pg' = pg \/ pg' = PgRotate(pg, R(p).tok, NextTok)
        BY <1>0, <1>1, RotateEffect DEF Around
    <2>2. pg'.tok = pg.tok \/ pg'.tok = [pg.tok EXCEPT ![R(p).tok] = "revoked", ![NextTok] = "live"]
        BY <1>0, <2>1 DEF PgRotate, PgStates
    <2>3. NextTok \notin given  BY <1>0, <2>1
    <2> QED  BY <1>0, <2>1, <2>2, <2>3
<1>2. CASE StoreTokenPg(p)
    <2>1. /\ given' = given /\ R(p).at = "tokPg"
          /\ pg' = pg \/ pg' = PgStoreRefreshToken(pg, R(p).new)
        BY <1>0, <1>2, StoreTokenPgEffect DEF Around, Steps, Went
    <2>2. pg'.tok = pg.tok \/ pg'.tok = [pg.tok EXCEPT ![R(p).new] = "live"]
        BY <1>0, <2>1 DEF PgStoreRefreshToken, PgStates
    <2>3. R(p).new # 0  BY <2>1, Needs DEF Kept0
    <2> QED  BY <1>0, <2>1, <2>2, <2>3
<1>3. CASE RevokeAllPg(p)
    <2>1. pg' = pg \/ pg' = PgRevokeSubjectSessions(pg, R(p).user)  BY <1>0, <1>3, RevokeAllPgEffect
    <2>2. CASE pg' = PgRevokeSubjectSessions(pg, R(p).user)
        <3>1. pg'.tok = [x \in Toks |-> IF /\ pg.tok[x] = "live" /\ Alive(token[x].end)
                                           /\ session[token[x].sid].user = R(p).user
                                        THEN "revoked" ELSE pg.tok[x]]
            BY <1>0, <2>2 DEF PgRevokeSubjectSessions, PgStates
        <3> QED  BY <3>1
    <2> QED  BY <2>1, <2>2
<1>4. CASE ~(Rotate(p) \/ StoreTokenPg(p) \/ RevokeAllPg(p))
    <2>1. pg'.tok = pg.tok  BY <1>4, StepFrame DEF Framed, FramePg
    <2> QED  BY <2>1
<1> QED  BY <1>1, <1>2, <1>3, <1>4

\* A token is counted as spent by the answer of a request that spends it.
LEMMA SpentSteps ==
  ASSUME Kept0, NEW p \in Clients, Step(p), NEW t \in Toks
  PROVE  \/ seen'.spent[t] = seen.spent[t]
         \/ Spends(req[p], t) /\ req'[p] = Idle /\ seen'.spent[t] = seen.spent[t] + 1
<1>1. CASE Answer(p) /\ req[p].o.op = "refresh"
    <2>0. TypeOK /\ seen \in Histories  BY DEF Kept0, TypeOK
    <2>1. /\ seen'.spent = [seen.spent EXCEPT ![R(p).tok] = @ + 1] /\ req'[p] = Idle
          /\ R(p).at \in {"ok", "revoked"}
        BY <1>1, <2>0, AnswerEffect DEF R
    <2>2. R(p).at = "ok"  BY <1>1, <2>1 DEF Kept0, Routes, Route, R
    <2>3. seen.spent \in [Toks -> Nat]  BY <2>0 DEF Histories
    <2>4. CASE R(p).tok = t  BY <1>1, <2>1, <2>2, <2>3, <2>4 DEF Spends, R
    <2>5. CASE R(p).tok # t  BY <2>1, <2>3, <2>5
    <2> QED  BY <2>4, <2>5
<1>2. CASE Answer(p) /\ req[p].o.op # "refresh"
    <2>0. TypeOK  BY DEF Kept0
    <2>1. seen'.spent = seen.spent  BY <1>2, <2>0, AnswerEffect DEF R
    <2> QED  BY <2>1
<1>3. CASE ~Answer(p)  BY <1>3, StepFrame DEF Framed, FrameSeen
<1> QED  BY <1>1, <1>2, <1>3

SpentOnceFor(t) ==
    /\ seen.spent[t] <= 1
    /\ seen.spent[t] # 0 => t \in given
    /\ pg.tok[t] = "live" => seen.spent[t] = 0 /\ \A p \in Clients : ~Spends(req[p], t)
    /\ \A p \in Clients : Spends(req[p], t) => /\ seen.spent[t] = 0
                                               /\ \A q \in Clients \ {p} : ~Spends(req[q], t)

\* SpentOnce, token by token.
LEMMA SpentOnceIs == SpentOnce <=> \A t \in Toks : SpentOnceFor(t)
BY DEF SpentOnce, SpentOnceFor, Spends, Spending, Is, R

\* Every step keeps a token spent at most once.
LEMMA SpentOnceKept ==
  ASSUME Kept0, SpentOnce, NEW p \in Clients, Step(p)
  PROVE  SpentOnce'
<1>1. SUFFICES ASSUME NEW t \in Toks PROVE SpentOnceFor(t)'
    <2>1. \A t \in Toks : SpentOnceFor(t)'  BY <1>1
    <2> QED  BY <2>1 DEF SpentOnce, SpentOnceFor, Spends, Spending, Is, R
<1>2. /\ SpentOnceFor(t) /\ seen.spent[t] \in Nat
    BY SpentOnceIs DEF Kept0, TypeOK, Histories
<1>3. \A q \in Clients \ {p} : Spends(req'[q], t) <=> Spends(req[q], t)
    BY StepKinds DEF Beside, Like, Spends
<1>4. given \subseteq given'  BY GivenSteps
<1>5. \A q \in Clients : Spends(req[q], t) => t \in given
    BY AuthStoreAssumption DEF Kept0, Handed, Spends, R
<1>6. \A q \in Clients : Spends(req'[q], t) => t \in given
    <2>1. Spends(req'[p], t) => t \in given  BY TokSteps, AuthStoreAssumption DEF Spends
    <2> QED  BY <1>3, <1>5, <2>1
<1>7. seen'.spent[t] <= 1 /\ (seen'.spent[t] # 0 => t \in given')
    <2>1. CASE seen'.spent[t] = seen.spent[t]  BY <1>2, <1>4, <2>1 DEF SpentOnceFor
    <2>2. CASE Spends(req[p], t) /\ seen'.spent[t] = seen.spent[t] + 1  BY <1>2, <1>4, <1>5, <2>2 DEF SpentOnceFor
    <2> QED  BY <2>1, <2>2, SpentSteps
<1>8. ASSUME pg'.tok[t] = "live"
      PROVE  seen'.spent[t] = 0 /\ \A q \in Clients : ~Spends(req'[q], t)
    <2>1. CASE pg.tok[t] = "live"
        <3>1. seen.spent[t] = 0 /\ \A q \in Clients : ~Spends(req[q], t)  BY <1>2, <2>1 DEF SpentOnceFor
        <3> QED  BY <1>3, <1>8, <3>1, SpendSteps, SpentSteps
    <2>2. CASE t \notin given
        <3>1. seen.spent[t] = 0 /\ ~Spends(req[p], t)  BY <1>2, <1>5, <2>2 DEF SpentOnceFor
        <3> QED  BY <1>6, <2>2, <3>1, SpentSteps
    <2> QED  BY <1>8, <2>1, <2>2, LiveSteps
<1>9. ASSUME NEW q \in Clients, Spends(req'[q], t)
      PROVE  seen'.spent[t] = 0 /\ \A o \in Clients \ {q} : ~Spends(req'[o], t)
    <2>1. CASE q # p
        <3>1. Spends(req[q], t)  BY <1>3, <1>9, <2>1
        <3>2. seen.spent[t] = 0 /\ pg.tok[t] # "live" /\ \A o \in Clients \ {q} : ~Spends(req[o], t)
            BY <1>2, <3>1 DEF SpentOnceFor
        <3>3. ~Spends(req'[p], t) /\ ~Spends(req[p], t)  BY <2>1, <3>2, SpendSteps
        <3> QED  BY <1>3, <3>2, <3>3, SpentSteps
    <2>2. CASE q = p
        <3>1. \A o \in Clients \ {p} : ~Spends(req[o], t)
            BY <1>2, <1>9, <2>2, SpendSteps DEF SpentOnceFor
        <3>2. seen.spent[t] = 0  BY <1>2, <1>9, <2>2, SpendSteps DEF SpentOnceFor
        <3>3. req'[p] # Idle  BY <1>9, <2>2 DEF Spends, Idle
        <3> QED  BY <1>3, <2>2, <3>1, <3>2, <3>3, SpentSteps
    <2> QED  BY <2>1, <2>2
<1> QED  BY <1>7, <1>8, <1>9 DEF SpentOnceFor

------------------------------------------------------------------------------
(* Federated states: one is consumed once.                                 *)

\* Passing(p, st), of the request itself.
Passes(r, st) == /\ r.o.op = "oidcCallback" /\ r.state = st
                 /\ r.at \in {"findUser", "createUser", "sessRedis", "sessPg", "tokRedis", "tokPg", "ok"}

\* The state a request has.
LEMMA StateSteps ==
  ASSUME Kept0, NEW p \in Clients, Step(p)
  PROVE  \/ req'[p].state = req[p].state /\ req'[p].o = req[p].o /\ ~LoginURL(p) /\ req[p].at # "idle"
         \/ req'[p].state = 0 /\ req'[p].o.op # "oidcCallback" /\ req'[p].at # "ok"
         \/ req'[p].state \in states /\ req'[p].at = "hasState" /\ req'[p].o.op = "oidcCallback"
         \/ LoginURL(p) /\ req'[p].o = req[p].o /\ (req'[p].at = "ok" => req'[p].state = NextState)
<1>1. CASE Starting(p)
    <2>1. PICK r \in Requests : Begun(p, r, req'[p]) /\ Starts(Head(script[p]), r)  BY <1>1 DEF Starting
    <2> DEFINE o == Head(script[p])
               s == req'[p]
    <2>2. s.state = r.state /\ s.at = r.at /\ s.o = o /\ Starts(o, r)  BY <2>1 DEF Begun
    <2> HIDE DEF o, s
    <2>3. \/ s.state = 0 /\ s.o.op # "oidcCallback" /\ s.at # "ok"
          \/ s.state \in states /\ s.at = "hasState" /\ s.o.op = "oidcCallback"
        BY <2>2 DEF Starts, Account, Changing
    <2> QED  BY <2>3 DEF s
<1>2. CASE req'[p] = Idle  BY <1>2 DEF Idle, NoOp
<1>3. CASE Onward(p)
    <2>1. FrameReq(p) /\ TypeOK /\ req'[p].o = req[p].o /\ req[p].at # "idle"
        BY <1>3, OnwardFrame DEF Kept0, Onward, Path
    <2>2. CASE LoginURL(p)
        <3>1. (req'[p].at = "ok" /\ req'[p].state = NextState) \/ req'[p].at = "failed"
            BY <2>1, <2>2, LoginURLEffect
        <3> QED  BY <2>1, <2>2, <3>1
    <2>3. CASE ~LoginURL(p)  BY <2>1, <2>3 DEF FrameReq
    <2> QED  BY <2>2, <2>3
<1> QED  BY <1>1, <1>2, <1>3, StepKinds

\* A request comes to pass with a state only by consuming it.
LEMMA PassSteps ==
  ASSUME Kept0, NEW p \in Clients, Step(p), NEW st \in States, Passes(req'[p], st)
  PROVE  \/ Passes(req[p], st)
         \/ HasState(pg, st) /\ ~HasState(pg', st)
<1>1. CASE Starting(p)
    <2>1. PICK r \in Requests : Begun(p, r, req'[p]) /\ Starts(Head(script[p]), r)  BY <1>1 DEF Starting
    <2>2. req'[p].at \in {"captcha", "verify", "read", "saveState", "hasState"}  BY <2>1 DEF Begun, Starts
    <2> QED  BY <2>2 DEF Passes
<1>2. CASE req'[p] = Idle  BY <1>2 DEF Idle, Passes
<1>3. CASE Onward(p)
    <2>1. /\ FrameReq(p) /\ TypeOK /\ req'[p].o = req[p].o /\ req[p].o.op = "oidcCallback"
          /\ Path(req[p], req'[p]) /\ Route(req[p])
        BY <1>3, OnwardFrame DEF Kept0, Onward, Path, Passes, Routes, R
    <2>2. req[p].at \in {"consume", "findUser", "createUser", "sessRedis", "sessPg", "tokRedis", "tokPg"}
        <3>1. CASE req'[p].at # "ok"
            <4>1. req[p].at \in {"consume", "findUser", "createUser", "sessRedis", "sessPg", "tokRedis", "user", "claim"}
                BY <2>1, <3>1 DEF Path, Passes
            <4>2. req[p].at \notin {"user", "claim"}  BY <2>1 DEF Route
            <4> QED  BY <4>1, <4>2
        <3>2. CASE req'[p].at = "ok"
            <4>1. req[p].at \in {"resolve", "rotateRedis", "signedOut", "allPg", "tokPg", "clear", "saveState", "save", "delete"}
                BY <2>1, <3>2 DEF Path
            <4>2. req[p].at \notin {"resolve", "rotateRedis", "signedOut", "allPg", "clear", "saveState", "save", "delete"}
                BY <2>1 DEF Route, Issuing, Changing
            <4> QED  BY <4>1, <4>2
        <3> QED  BY <3>1, <3>2
    <2>3. req'[p].state = req[p].state
        <3>1. ~LoginURL(p)  BY <2>2, Guards DEF R
        <3> QED  BY <2>1, <3>1 DEF FrameReq
    <2>4. CASE req[p].at # "consume"  BY <2>1, <2>2, <2>3, <2>4 DEF Passes
    <2>5. CASE req[p].at = "consume"
        <3>1. ConsumeState(p) /\ req'[p].at = "findUser"  BY <2>1, <2>5, Guards DEF R, Path, Passes
        <3>2. HasState(pg, R(p).state) /\ pg' = PgConsumeState(pg, R(p).state)
            BY <2>1, <3>1, ConsumeStateEffect DEF Steps, Went
        <3>3. R(p).state = st  BY <2>3 DEF Passes, R
        <3>4. pg'.oidc = {x \in pg.oidc : ~(x.state = st /\ Alive(x.end))}
            <4>1. pg \in PgStates(Claims, States)  BY <2>1 DEF TypeOK, StoreTypeOK
            <4> QED  BY <3>2, <3>3, <4>1 DEF PgConsumeState, PgStates
        <3> QED  BY <3>2, <3>3, <3>4 DEF HasState
    <2> QED  BY <2>2, <2>4, <2>5
<1> QED  BY <1>1, <1>2, <1>3, StepKinds

\* A state comes into Postgres only when it is new.
LEMMA SaveSteps ==
  ASSUME Kept0, NEW p \in Clients, Step(p), NEW st \in States, HasState(pg', st)
  PROVE  HasState(pg, st) \/ (LoginURL(p) /\ NewState(st))
<1>0. TypeOK /\ pg \in PgStates(Claims, States)  BY DEF Kept0, TypeOK, StoreTypeOK
<1>1. CASE LoginURL(p)
    <2>1. NewState(NextState) /\ (pg' = pg \/ pg' = PgSaveState(pg, NextState))  BY <1>0, <1>1, LoginURLEffect
    <2>2. pg'.oidc = pg.oidc \/ pg'.oidc = pg.oidc \cup {[state |-> NextState, end |-> now + StateTTL]}
        BY <1>0, <2>1 DEF PgSaveState, PgStates
    <2> QED  BY <1>1, <2>1, <2>2 DEF HasState
<1>2. CASE ConsumeState(p)
    <2>1. pg' = pg \/ pg' = PgConsumeState(pg, R(p).state)  BY <1>0, <1>2, ConsumeStateEffect
    <2>2. pg'.oidc \subseteq pg.oidc  BY <1>0, <2>1 DEF PgConsumeState, PgStates
    <2> QED  BY <2>2 DEF HasState
<1>3. CASE ~(LoginURL(p) \/ ConsumeState(p))
    <2>1. pg'.oidc = pg.oidc  BY <1>3, StepFrame DEF Framed, FramePg
    <2> QED  BY <2>1 DEF HasState
<1> QED  BY <1>1, <1>2, <1>3

\* A sign-in is counted only for a request that passed with the state.
LEMMA SignInSteps ==
  ASSUME Kept0, NEW p \in Clients, Step(p), NEW st \in States
  PROVE  /\ states \subseteq states'
         /\ \/ seen'.signIns[st] = seen.signIns[st]
            \/ Passes(req[p], st) /\ req'[p] = Idle /\ seen'.signIns[st] = seen.signIns[st] + 1 /\ pg' = pg
<1>1. CASE Answer(p)
    <2>0. TypeOK /\ seen \in Histories  BY DEF Kept0, TypeOK
    <2>1. states \subseteq states' /\ req'[p] = Idle /\ R(p).at \in {"ok", "revoked"} /\ pg' = pg  BY <1>1, <2>0, AnswerEffect
    <2>2. CASE req[p].o.op = "oidcCallback"
        <3>1. seen'.signIns = [seen.signIns EXCEPT ![R(p).state] = @ + 1]  BY <1>1, <2>0, <2>2, AnswerEffect DEF R
        <3>2. R(p).at = "ok"  BY <2>1, <2>2 DEF Kept0, Routes, Route, R
        <3>3. seen.signIns \in [States -> Nat]  BY <2>0 DEF Histories
        <3>4. CASE R(p).state = st  BY <2>1, <2>2, <3>1, <3>2, <3>3, <3>4 DEF Passes, R
        <3>5. CASE R(p).state # st  BY <2>1, <3>1, <3>3, <3>5
        <3> QED  BY <3>4, <3>5
    <2>3. CASE req[p].o.op # "oidcCallback"
        <3>1. seen'.signIns = seen.signIns  BY <1>1, <2>0, <2>3, AnswerEffect DEF R
        <3> QED  BY <2>1, <3>1
    <2> QED  BY <2>2, <2>3
<1>2. CASE ~Answer(p)
    <2>1. FrameWorld(p) /\ FrameSeen(p)  BY StepFrame DEF Framed
    <2> QED  BY <1>2, <2>1 DEF FrameWorld, FrameSeen
<1> QED  BY <1>1, <1>2

StateOnceFor(st) ==
    /\ seen.signIns[st] <= 1
    /\ seen.signIns[st] # 0 => st \in states
    /\ HasState(pg, st) => seen.signIns[st] = 0 /\ \A p \in Clients : ~Passes(req[p], st)
    /\ \A p \in Clients : Passes(req[p], st) => /\ seen.signIns[st] = 0
                                                /\ \A q \in Clients \ {p} : ~Passes(req[q], st)

\* Every step keeps a state consumed at most once.
LEMMA StateOnceKept ==
  ASSUME Kept0, StateOnce, NEW p \in Clients, Step(p)
  PROVE  StateOnce'
<1>a. /\ \A q \in Clients : req[q].o.op = "oidcCallback" => req[q].state \in states
      /\ \A q \in Clients : req[q].o.op = "oidcLogin" /\ req[q].at = "ok" => req[q].state # 0
      /\ \A st \in States : StateOnceFor(st)
    BY DEF StateOnce, StateOnceFor, Passes, Passing, Is, R
<1>b. states \subseteq states'
    <2>1. CASE Answer(p)
        <3>1. TypeOK  BY DEF Kept0
        <3> QED  BY <2>1, <3>1, AnswerEffect
    <2>2. CASE ~Answer(p)  BY <2>2, StepFrame DEF Framed, FrameWorld
    <2> QED  BY <2>1, <2>2
<1>c. now' = now  BY StepFrame DEF Framed, FrameWorld
<1>d. \A q \in Clients \ {p} : /\ req'[q].o = req[q].o /\ req'[q].state = req[q].state /\ req'[q].at = req[q].at
    BY StepKinds DEF Beside, Like
<1>1. ASSUME NEW q \in Clients, req'[q].o.op = "oidcCallback"
      PROVE  req'[q].state \in states'
    <2>1. CASE q # p  BY <1>1, <1>a, <1>b, <1>d, <2>1
    <2>2. CASE q = p
        <3>1. CASE LoginURL(p) /\ req'[p].o = req[p].o
            <4>1. R(p).at = "saveState"  BY <3>1, Guards
            <4>2. req[p].o.op = "oidcLogin"  BY <4>1 DEF Kept0, Routes, Route, R
            <4> QED  BY <1>1, <2>2, <3>1, <4>2
        <3> QED  BY <1>1, <1>a, <1>b, <2>2, <3>1, StateSteps
    <2> QED  BY <2>1, <2>2
<1>2. ASSUME NEW q \in Clients, req'[q].o.op = "oidcLogin", req'[q].at = "ok"
      PROVE  req'[q].state # 0
    <2>1. CASE q # p  BY <1>2, <1>a, <1>d, <2>1
    <2>2. CASE q = p
        <3>1. Onward(p)
            <4>1. req'[p] # Idle  BY <1>2, <2>2 DEF Idle
            <4>2. ~Starting(p)
                <5>1. SUFFICES ASSUME Starting(p) PROVE FALSE  OBVIOUS
                <5>2. PICK r \in Requests : Begun(p, r, req'[p]) /\ Starts(Head(script[p]), r)  BY <5>1 DEF Starting
                <5> QED  BY <1>2, <2>2, <5>2 DEF Begun, Starts
            <4> QED  BY <4>1, <4>2, StepKinds
        <3>2. req[p].o = req'[p].o /\ Path(req[p], req'[p]) /\ Route(req[p])  BY <3>1 DEF Onward, Path, Kept0, Routes, R
        <3>3. req[p].at \in {"resolve", "rotateRedis", "signedOut", "allPg", "tokPg", "clear", "saveState", "save", "delete"}
            BY <1>2, <2>2, <3>2 DEF Path
        <3>4. req[p].at \notin {"resolve", "rotateRedis", "signedOut", "allPg", "tokPg", "clear", "save", "delete"}
            BY <1>2, <2>2, <3>2 DEF Route, Issuing, Changing
        <3>5. LoginURL(p) /\ TypeOK  BY <3>3, <3>4, Guards DEF R, Kept0
        <3>6. NewState(NextState)  BY <3>5, LoginURLEffect
        <3>7. req'[p].state = NextState
            <4>1. req'[p].at # "failed"  BY <1>2, <2>2
            <4> QED  BY <3>5, <4>1, LoginURLEffect
        <3> QED  BY <2>2, <3>6, <3>7, IamAssumption DEF NewState
    <2> QED  BY <2>1, <2>2
<1>3. ASSUME NEW st \in States PROVE StateOnceFor(st)'
    <2>a. StateOnceFor(st) /\ seen.signIns[st] \in Nat  BY <1>a DEF Kept0, TypeOK, Histories
    <2>b. \A q \in Clients \ {p} : Passes(req'[q], st) <=> Passes(req[q], st)  BY <1>d DEF Passes
    <2>c. HasState(pg, st)' <=> HasState(pg', st)  BY <1>c DEF HasState, Alive
    <2>d. \A q \in Clients : Passes(req[q], st) => st \in states  BY <1>a DEF Passes
    <2>1. seen'.signIns[st] <= 1 /\ (seen'.signIns[st] # 0 => st \in states')
        <3>1. CASE seen'.signIns[st] = seen.signIns[st]  BY <1>b, <2>a, <3>1 DEF StateOnceFor
        <3>2. CASE Passes(req[p], st) /\ seen'.signIns[st] = seen.signIns[st] + 1
            BY <1>b, <2>a, <2>d, <3>2 DEF StateOnceFor
        <3> QED  BY <3>1, <3>2, SignInSteps
    <2>2. ASSUME HasState(pg', st)
          PROVE  seen'.signIns[st] = 0 /\ \A q \in Clients : ~Passes(req'[q], st)
        <3>1. CASE HasState(pg, st)
            <4>1. seen.signIns[st] = 0 /\ \A q \in Clients : ~Passes(req[q], st)  BY <2>a, <3>1 DEF StateOnceFor
            <4> QED  BY <2>b, <2>2, <4>1, PassSteps, SignInSteps
        <3>2. CASE ~HasState(pg, st) /\ LoginURL(p) /\ NewState(st)
            <4>1. seen.signIns[st] = 0 /\ \A q \in Clients : ~Passes(req[q], st)
                BY <2>a, <2>d, <3>2 DEF StateOnceFor, NewState
            <4> QED  BY <2>b, <2>2, <4>1, PassSteps, SignInSteps
        <3> QED  BY <2>2, <3>1, <3>2, SaveSteps
    <2>3. ASSUME NEW q \in Clients, Passes(req'[q], st)
          PROVE  seen'.signIns[st] = 0 /\ \A o \in Clients \ {q} : ~Passes(req'[o], st)
        <3>1. CASE q # p
            <4>1. Passes(req[q], st)  BY <2>3, <2>b, <3>1
            <4>2. seen.signIns[st] = 0 /\ ~HasState(pg, st) /\ \A o \in Clients \ {q} : ~Passes(req[o], st)
                BY <2>a, <4>1 DEF StateOnceFor
            <4>3. ~Passes(req'[p], st) /\ ~Passes(req[p], st)  BY <3>1, <4>2, PassSteps
            <4> QED  BY <2>b, <4>2, <4>3, SignInSteps
        <3>2. CASE q = p
            <4>1. seen.signIns[st] = 0 /\ \A o \in Clients \ {p} : ~Passes(req[o], st)
                BY <2>a, <2>3, <3>2, PassSteps DEF StateOnceFor
            <4>2. req'[p] # Idle  BY <2>3, <3>2 DEF Passes, Idle
            <4> QED  BY <2>b, <3>2, <4>1, <4>2, SignInSteps
        <3> QED  BY <3>1, <3>2
    <2> QED  BY <2>1, <2>2, <2>3, <2>c DEF StateOnceFor
<1> QED  BY <1>1, <1>2, <1>3 DEF StateOnce, StateOnceFor, Passes, Passing, Is, R

------------------------------------------------------------------------------
(* Sessions: who bears one, and who opened it.                             *)

\* A request on its path bears the session it needs.
LEMMA BearsOn ==
  ASSUME NEW r, NEW s, Bears(r), Route(r), Path(r, s),
         s.sid = r.sid \/ (s.at = "sessPg" /\ s.sid # 0),
         s.at = "sessPg" => s.sid # 0
  PROVE  Bears(s)
<1>1. s.o = r.o  BY DEF Path
<1>2. s.o.op \in Issuing /\ s.sid # 0 => s.at \in {"sessPg", "tokRedis", "tokPg", "clear", "ok", "denied", "failed"}
    <2>1. SUFFICES ASSUME s.o.op \in Issuing, s.sid # 0, s.sid = r.sid
                   PROVE  s.at \in {"tokRedis", "tokPg", "clear", "ok", "denied", "failed"}
        OBVIOUS
    <2>2. r.at \in {"sessPg", "tokRedis", "tokPg", "clear", "ok", "denied", "failed"}  BY <1>1, <2>1 DEF Bears
    <2> QED  BY <2>2 DEF Path
<1>3. s.at \in {"tokRedis", "tokPg", "clear"} => s.sid # 0
    <2>1. s.at \in {"tokRedis", "tokPg", "clear"} => r.at \in {"sessPg", "tokRedis", "tokPg"}  BY DEF Path
    <2> QED  BY <2>1 DEF Bears
<1>4. s.o.op \in {"use", "refresh", "logout", "logoutAll"} => s.sid # 0  BY <1>1 DEF Bears
<1> QED  BY <1>2, <1>3, <1>4 DEF Bears

\* A request bears the session it has opened, or one that clients know.
LEMMA SidSteps ==
  ASSUME Kept0, NEW p \in Clients, Step(p)
  PROVE  /\ Bears(req'[p])
         /\ req'[p].before \subseteq Known
         /\ \/ /\ req'[p].sid = req[p].sid /\ req'[p].o = req[p].o /\ ~CreateSessionRedis(p)
               /\ req[p].at # "idle" /\ req'[p] # Idle
            \/ req'[p].sid = 0
            \/ req'[p].sid \in Known /\ req'[p].o.op \notin Issuing
            \/ /\ CreateSessionRedis(p) /\ req'[p].sid = NextSid /\ req'[p].o = req[p].o /\ req'[p].o.op \in Issuing
               /\ req'[p] # Idle
<1>0. /\ TypeOK /\ 0 \notin Sids /\ access \subseteq [sid : Sids, end : Nat]
      /\ \A t \in given : token[t].sid \in Known
    BY AuthStoreAssumption DEF Kept0, TypeOK, Owned
<1>1. CASE Starting(p)
    <2>1. PICK r \in Requests : Begun(p, r, req'[p]) /\ Starts(Head(script[p]), r)  BY <1>1 DEF Starting
    <2> DEFINE o == Head(script[p])
               s == req'[p]
    <2>2. s.sid = r.sid /\ s.at = r.at /\ s.o = o /\ Starts(o, r) /\ s.before = Known  BY <2>1 DEF Begun, Known
    <2> HIDE DEF o, s
    <2>3. \/ s.sid = 0 /\ o.op \notin {"use", "refresh", "logout", "logoutAll"}
          \/ s.sid \in Known /\ o.op \notin Issuing
        <3>1. CASE r.at = "verify" /\ r.tok \in given /\ r.sid = token[r.tok].sid /\ o.op \in {"refresh", "logout", "logoutAll"}
            BY <1>0, <2>2, <3>1 DEF Issuing
        <3>2. CASE r.at = "verify" /\ (\E a \in access : r.sid = a.sid) /\ o.op \in {"use", "logout", "logoutAll"}
            BY <2>2, <3>2 DEF Issuing, Known
        <3>3. CASE r.sid = 0 /\ o.op \notin {"use", "refresh", "logout", "logoutAll"}  BY <2>2, <3>3
        <3> QED  BY <2>2, <3>1, <3>2, <3>3 DEF Starts, Account, Changing
    <2>4. Known \subseteq Sids  BY <1>0 DEF Known
    <2>5. s.at \notin {"sessPg", "tokRedis", "tokPg", "clear"}  BY <2>2 DEF Starts
    <2>6. Bears(s)  BY <1>0, <2>2, <2>3, <2>4, <2>5 DEF Bears, Issuing
    <2> QED  BY <2>2, <2>3, <2>6 DEF s
<1>2. CASE req'[p] = Idle
    <2>1. Bears(Idle) /\ Idle.sid = 0 /\ Idle.before = {}  BY DEF Bears, Idle, NoOp, Issuing
    <2> QED  BY <1>2, <2>1
<1>3. CASE Onward(p)
    <2>1. /\ FrameReq(p) /\ Path(req[p], req'[p]) /\ Bears(req[p]) /\ Route(req[p])
          /\ req'[p].o = req[p].o /\ req'[p].before = req[p].before /\ req[p].before \subseteq Known
          /\ req[p].at # "idle" /\ req'[p].at # "idle"
        BY <1>3, OnwardFrame DEF FrameReq, Onward, Path, Kept0, Routes, Owned, R
    <2>2. req'[p] # Idle  BY <2>1 DEF Idle
    <2>3. CASE CreateSessionRedis(p)
        <3>1. req'[p].sid = NextSid /\ req'[p].at = "sessPg" /\ NextSid \in Sids /\ R(p).at = "sessRedis"
            BY <1>0, <2>3, CreateSessionRedisEffect
        <3>2. req[p].o.op \in Issuing  BY <2>1, <3>1 DEF Route, R
        <3>3. Bears(req'[p])  BY <1>0, <2>1, <3>1, BearsOn
        <3> QED  BY <2>1, <2>2, <2>3, <3>1, <3>2, <3>3
    <2>4. CASE ~CreateSessionRedis(p)
        <3>1. req'[p].sid = req[p].sid  BY <2>1, <2>4 DEF FrameReq
        <3>2. req'[p].at # "sessPg"
            <4>1. req'[p].at = "sessPg" => req[p].at = "sessRedis"  BY <2>1 DEF Path
            <4> QED  BY <2>4, <4>1, Guards DEF R
        <3>3. Bears(req'[p])  BY <2>1, <3>1, <3>2, BearsOn
        <3> QED  BY <2>1, <2>2, <2>4, <3>1, <3>3
    <2> QED  BY <2>3, <2>4
<1> QED  BY <1>1, <1>2, <1>3, StepKinds

\* A session that was opened stays as it is.
LEMMA SessionSteps ==
  ASSUME Kept0, NEW p \in Clients, Step(p)
  PROVE  /\ \A s \in Sids : session[s].end # 0 => session'[s] = session[s]
         /\ CreateSessionRedis(p) => /\ NextSid \in Sids /\ session[NextSid].end = 0
                                     /\ session'[NextSid] = [user |-> R(p).user, end |-> now + RefreshTTL]
                                     /\ session'[NextSid].end # 0
<1>1. session \in [Sids -> TokenSessions] /\ now \in Nat /\ TypeOK  BY DEF Kept0, TypeOK, StoreTypeOK
<1>2. CASE CreateSessionRedis(p)
    <2>1. /\ NextSid \in Sids /\ session[NextSid].end = 0
          /\ session' = [session EXCEPT ![NextSid] = [user |-> R(p).user, end |-> now + RefreshTTL]]
        BY <1>1, <1>2, CreateSessionRedisEffect
    <2>2. now + RefreshTTL # 0  BY <1>1, AuthStoreAssumption
    <2> QED  BY <1>1, <2>1, <2>2
<1>3. CASE ~CreateSessionRedis(p)  BY <1>3, StepFrame DEF Framed, FrameWorld
<1> QED  BY <1>2, <1>3

Opens(r) == r.o.op \in Issuing /\ r.sid # 0

\* Every step keeps a session with the request that opened it.
LEMMA OwnedKept ==
  ASSUME Kept0, NEW p \in Clients, Step(p)
  PROVE  Owned'
<1>a. /\ \A s \in Known : session[s].end # 0
      /\ \A t \in given : token[t].sid \in Known
      /\ \A q \in Clients : req[q].o.op \notin Issuing /\ req[q].sid # 0 => req[q].sid \in Known
      /\ \A q \in Clients : Opens(req[q]) => /\ req[q].sid \notin Known /\ session[req[q].sid].end # 0
                                             /\ \A o \in Clients \ {q} : Opens(req[o]) => req[o].sid # req[q].sid
      /\ \A q \in Clients : Bears(req[q]) /\ req[q].before \subseteq Known
    BY DEF Kept0, Owned, Opened, Opens, Is, R
<1>b. /\ Known \subseteq Sids /\ given \subseteq Toks /\ \A t \in given : token[t].sid # 0
      /\ \A q \in Clients : req[q].sid # 0 => req[q].sid \in Sids
    <2>1. Known \subseteq Sids /\ given \subseteq Toks /\ \A t \in given : token[t].sid # 0
        BY DEF Kept0, TypeOK, Known, Handed
    <2>2. \A q \in Clients : req[q].sid # 0 => req[q].sid \in Sids  BY Named DEF Kept0, R
    <2> QED  BY <2>1, <2>2
<1>c. \A q \in Clients \ {p} : /\ req'[q].o = req[q].o /\ req'[q].sid = req[q].sid /\ req'[q].at = req[q].at
                               /\ req'[q].before = req[q].before
    BY StepKinds DEF Beside, Like
<1>d. \A t \in Toks : token[t].sid # 0 => token'[t] = token[t]  BY TokenSteps
<1>e. \A s \in Sids : session[s].end # 0 => session'[s] = session[s]  BY SessionSteps
<1>f. \/ Known' = Known /\ given' = given
      \/ /\ R(p).new # 0 /\ given' = given \cup {R(p).new} /\ Known' = Known \cup {R(p).sid} /\ req'[p] = Idle
         /\ token[R(p).new].sid = R(p).sid /\ R(p).sid # 0 /\ token' = token /\ session' = session
    <2>1. CASE given' = given /\ access' = access  BY <2>1 DEF Known
    <2>2. CASE /\ R(p).new # 0 /\ given' = given \cup {R(p).new} /\ req'[p] = Idle /\ token' = token
               /\ access' = access \cup {[sid |-> R(p).sid, end |-> R(p).end]} /\ session' = session
        <3>1. Known' = Known \cup {R(p).sid}
            <4> DEFINE a == [sid |-> R(p).sid, end |-> R(p).end]
            <4>1. a.sid = R(p).sid  OBVIOUS
            <4> HIDE DEF a
            <4>2. {b.sid : b \in access \cup {a}} = {b.sid : b \in access} \cup {a.sid}  OBVIOUS
            <4>3. access' = access \cup {a}  BY <2>2 DEF a
            <4> QED  BY <4>1, <4>2, <4>3 DEF Known
        <3>2. token[R(p).new].sid = R(p).sid /\ R(p).sid # 0  BY <2>2 DEF Kept0, Handed
        <3> QED  BY <2>2, <3>1, <3>2
    <2> QED  BY <2>1, <2>2, GivenSteps
<1>g. Known \subseteq Known'  BY <1>f
<1>1. \A s \in Known' : session'[s].end # 0
    <2>1. CASE Known' = Known  BY <1>a, <1>b, <1>e, <2>1
    <2>2. CASE Known' = Known \cup {R(p).sid} /\ R(p).sid # 0 /\ session' = session
        <3>1. session[R(p).sid].end # 0  BY <1>a, <2>2 DEF Opens, R
        <3> QED  BY <1>a, <2>2, <3>1
    <2> QED  BY <1>f, <2>1, <2>2
<1>2. \A t \in given' : token'[t].sid \in Known'  BY <1>a, <1>b, <1>d, <1>f
<1>3. ASSUME NEW q \in Clients, req'[q].o.op \notin Issuing, req'[q].sid # 0
      PROVE  req'[q].sid \in Known'
    <2>1. CASE q # p  BY <1>3, <1>a, <1>c, <1>g, <2>1
    <2>2. CASE q = p  BY <1>3, <1>a, <1>g, <2>2, SidSteps
    <2> QED  BY <2>1, <2>2
<1>4. ASSUME NEW q \in Clients, Opens(req'[q])
      PROVE  /\ req'[q].sid \notin Known' /\ session'[req'[q].sid].end # 0
             /\ \A o \in Clients \ {q} : Opens(req'[o]) => req'[o].sid # req'[q].sid
    <2>1. \/ Opens(req[p]) /\ req'[p].sid = req[p].sid /\ req'[p] # Idle
          \/ ~Opens(req'[p])
          \/ CreateSessionRedis(p) /\ req'[p].sid = NextSid /\ req'[p] # Idle
        BY SidSteps DEF Opens
    <2>2. ASSUME CreateSessionRedis(p)
          PROVE  NextSid \notin Known /\ \A o \in Clients : Opens(req[o]) => req[o].sid # NextSid
        BY <1>a, <2>2, SessionSteps
    <2>3. CASE q # p
        <3>1. Opens(req[q]) /\ req'[q].sid = req[q].sid  BY <1>4, <1>c, <2>3 DEF Opens
        <3>2. req[q].sid \notin Known'
            <4>1. CASE Known' = Known  BY <1>a, <3>1, <4>1
            <4>2. CASE Known' = Known \cup {R(p).sid} /\ R(p).sid # 0
                <5>1. CASE Opens(req[p])  BY <1>a, <2>3, <3>1, <4>2, <5>1 DEF R
                <5>2. CASE ~Opens(req[p])
                    <6>1. R(p).sid \in Known  BY <1>a, <4>2, <5>2 DEF Opens, R
                    <6> QED  BY <1>a, <3>1, <4>2, <6>1
                <5> QED  BY <5>1, <5>2
            <4> QED  BY <1>f, <4>1, <4>2
        <3>3. session'[req[q].sid].end # 0  BY <1>a, <1>b, <1>e, <3>1 DEF Opens
        <3>4. ASSUME NEW o \in Clients \ {q}, Opens(req'[o]) PROVE req'[o].sid # req[q].sid
            <4>1. CASE o # p  BY <1>a, <1>c, <3>1, <3>4, <4>1 DEF Opens
            <4>2. CASE o = p
                <5>1. CASE Opens(req[p]) /\ req'[p].sid = req[p].sid  BY <1>a, <2>3, <3>1, <4>2, <5>1
                <5>2. CASE CreateSessionRedis(p) /\ req'[p].sid = NextSid  BY <2>2, <3>1, <4>2, <5>2
                <5> QED  BY <2>1, <3>4, <4>2, <5>1, <5>2
            <4> QED  BY <4>1, <4>2
        <3> QED  BY <3>1, <3>2, <3>3, <3>4
    <2>4. CASE q = p
        <3>0. Known' = Known  BY <1>4, <1>f, <2>1, <2>4
        <3>1. CASE Opens(req[p]) /\ req'[p].sid = req[p].sid
            <4>1. ASSUME NEW o \in Clients \ {p}, Opens(req'[o]) PROVE req'[o].sid # req'[p].sid
                BY <1>a, <1>c, <3>1, <4>1 DEF Opens
            <4>2. req[p].sid \notin Known /\ session'[req[p].sid].end # 0  BY <1>a, <1>b, <1>e, <3>1 DEF Opens
            <4> QED  BY <2>4, <3>0, <3>1, <4>1, <4>2
        <3>2. CASE CreateSessionRedis(p) /\ req'[p].sid = NextSid
            <4>1. ASSUME NEW o \in Clients \ {p}, Opens(req'[o]) PROVE req'[o].sid # NextSid
                BY <1>c, <2>2, <3>2, <4>1 DEF Opens
            <4>2. session'[NextSid].end # 0  BY <3>2, SessionSteps
            <4> QED  BY <2>2, <2>4, <3>0, <3>2, <4>1, <4>2
        <3> QED  BY <1>4, <2>1, <2>4, <3>1, <3>2
    <2> QED  BY <2>3, <2>4
<1>5. \A q \in Clients : Bears(req'[q]) /\ req'[q].before \subseteq Known'
    <2>1. \A q \in Clients \ {p} : Bears(req'[q])  BY <1>a, <1>c DEF Bears
    <2> QED  BY <1>a, <1>c, <1>g, <2>1, SidSteps
<1> QED  BY <1>1, <1>2, <1>3, <1>4, <1>5 DEF Owned, Opened, Opens, Is, R

------------------------------------------------------------------------------
(* Claims are taken once; the clock, the cleanup and a Redis that loses all. *)

\* Every step keeps a code claimed once, but for what is known to have expired.
LEMMA ClaimedOnceKept ==
  ASSUME Kept0, ClaimedOnce, NEW p \in Clients, Step(p)
  PROVE  ClaimedOnce'
<1>0. /\ TypeOK /\ seen \in Histories /\ pg \in PgStates(Claims, States) /\ seen.uses \in [Claims -> Nat]
      /\ seen.slack \in [Claims -> Nat]
    BY DEF Kept0, TypeOK, StoreTypeOK, Histories
<1>1. CASE ClaimOnce(p)
    <2>1. R(p).at = "claim"  BY <1>1, Guards
    <2>2. R(p).o \in Operations  BY <2>1, Named DEF Kept0
    <2> DEFINE k0 == Key(p)
    <2>3. \/ pg' = pg /\ seen' = seen
          \/ ~Claimed(pg, k0) /\ pg' = PgClaim(pg, k0) /\ seen' = [seen EXCEPT !.uses[k0] = @ + 1]
          \/ pg' \in {pg, PgClaim(pg, k0)} /\ seen' = [seen EXCEPT !.uses[k0] = @ + 1, !.slack[k0] = @ + 1]
        BY <1>0, <1>1, <2>2, ClaimOnceEffect
    <2> HIDE DEF k0
    <2>4. pg'.once = pg.once \/ (pg' = PgClaim(pg, k0) /\ pg'.once = pg.once \cup {[key |-> k0, end |-> now + ClaimTTL]})
        BY <1>0, <2>3 DEF PgClaim, PgStates
    <2>5. \A k \in Claims : Claimed(pg, k) => Claimed(pg', k)  BY <2>4 DEF Claimed
    <2>6. CASE pg' = pg /\ seen' = seen  BY <2>6 DEF ClaimedOnce
    <2>7. CASE ~Claimed(pg, k0) /\ pg' = PgClaim(pg, k0) /\ seen' = [seen EXCEPT !.uses[k0] = @ + 1]
        <3>1. seen'.uses = [seen.uses EXCEPT ![k0] = @ + 1] /\ seen'.slack = seen.slack  BY <1>0, <2>7 DEF Histories
        <3>2. Claimed(pg', k0)
            <4> DEFINE c == [key |-> k0, end |-> now + ClaimTTL]
            <4>1. pg'.once = pg.once \cup {c}  BY <1>0, <2>7 DEF PgClaim, PgStates
            <4>2. c.key = k0  OBVIOUS
            <4> HIDE DEF c
            <4>3. c \in pg'.once  BY <4>1
            <4> QED  BY <4>2, <4>3 DEF Claimed
        <3>3. ASSUME NEW k \in Claims PROVE seen'.uses[k] <= seen'.slack[k] + (IF Claimed(pg', k) THEN 1 ELSE 0)
            <4>1. seen.uses[k] <= seen.slack[k] + (IF Claimed(pg, k) THEN 1 ELSE 0)  BY DEF ClaimedOnce
            <4>2. CASE k = k0  BY <1>0, <2>7, <3>1, <3>2, <4>1, <4>2
            <4>3. CASE k # k0  BY <1>0, <2>5, <3>1, <4>1, <4>3
            <4> QED  BY <4>2, <4>3
        <3> QED  BY <3>3 DEF ClaimedOnce
    <2>8. CASE seen' = [seen EXCEPT !.uses[k0] = @ + 1, !.slack[k0] = @ + 1]
        <3>1. seen'.uses = [seen.uses EXCEPT ![k0] = @ + 1] /\ seen'.slack = [seen.slack EXCEPT ![k0] = @ + 1]
            BY <1>0, <2>8 DEF Histories
        <3>2. ASSUME NEW k \in Claims PROVE seen'.uses[k] <= seen'.slack[k] + (IF Claimed(pg', k) THEN 1 ELSE 0)
            <4>1. seen.uses[k] <= seen.slack[k] + (IF Claimed(pg, k) THEN 1 ELSE 0)  BY DEF ClaimedOnce
            <4> QED  BY <1>0, <2>5, <3>1, <4>1
        <3> QED  BY <3>2 DEF ClaimedOnce
    <2> QED  BY <2>3, <2>6, <2>7, <2>8
<1>2. CASE ~ClaimOnce(p)
    <2>1. pg'.once = pg.once /\ seen'.uses = seen.uses /\ seen'.slack = seen.slack
        BY <1>2, StepFrame DEF Framed, FramePg, FrameSeen
    <2> QED  BY <2>1 DEF ClaimedOnce, Claimed
<1> QED  BY <1>1, <1>2

------------------------------------------------------------------------------
(* The clock, the cleanup, and Redis losing all.                           *)

Environment == \/ (Tick \/ RedisLosesAll) /\ UNCHANGED <<acvars, rqvars>>
               \/ Cleanup
               \/ UNCHANGED vars

CleanSeen == [seen EXCEPT !.slack = [k \in Claims |-> @[k] + IF \E x \in pg.once : x.key = k /\ ~Alive(x.end) THEN 1 ELSE 0]]

\* What the environment does.
LEMMA EnvironmentEffect ==
  ASSUME TypeOK, Environment
  PROVE  /\ UNCHANGED <<redisOn, session, token, users, identity, script, req, access, given, states>>
         /\ now' \in Nat /\ now <= now' /\ ticks' \in Nat /\ ticks' + now' <= MaxNow /\ losses' \in Nat /\ faults' = faults
         /\ redis' \in {redis, EmptyRedis}
         /\ \/ pg' = pg /\ seen' = seen
            \/ pg' = Expired(pg) /\ seen' = CleanSeen /\ now' = now /\ redis' = redis
<1>1. now \in Nat /\ ticks \in Nat /\ losses \in Nat /\ ticks + now <= MaxNow /\ MaxNow \in Nat
    BY AuthStoreAssumption DEF TypeOK, StoreTypeOK
<1>2. CASE Tick /\ UNCHANGED <<acvars, rqvars>>  BY <1>1, <1>2 DEF Tick, acvars, rqvars
<1>3. CASE RedisLosesAll /\ UNCHANGED <<acvars, rqvars>>  BY <1>1, <1>3 DEF RedisLosesAll, acvars, rqvars
<1>4. CASE Cleanup  BY <1>1, <1>4 DEF Cleanup, CleanupExpired, acvars, CleanSeen
<1>5. CASE UNCHANGED vars  BY <1>1, <1>5 DEF vars, stvars, acvars, rqvars
<1> QED  BY <1>2, <1>3, <1>4, <1>5 DEF Environment

\* The cleanup keeps the types of Postgres.
LEMMA ExpiredTyped ==
  ASSUME pg \in PgTyped
  PROVE  Expired(pg) \in PgTyped
BY DEF Expired, PgTyped, PgStates, NoFailure, TokenStates

\* A Redis that lost all is typed.
LEMMA EmptyTyped == EmptyRedis \in RedisStates
BY DEF EmptyRedis, RedisStates, TokenStates

\* The environment keeps the types.
LEMMA EnvironmentTyped ==
  ASSUME TypeOK, Environment
  PROVE  TypeOK'
<1>1. pg' \in PgTyped  BY EnvironmentEffect, ExpiredTyped, TypeIs DEF Stored
<1>2. redis' \in RedisStates  BY EnvironmentEffect, EmptyTyped, TypeIs DEF Stored
<1>3. seen' \in Histories
    <2>1. seen \in Histories  BY DEF TypeOK
    <2>2. CASE seen' = CleanSeen
        <3> DEFINE f == [k \in Claims |-> seen.slack[k] + IF \E x \in pg.once : x.key = k /\ ~Alive(x.end) THEN 1 ELSE 0]
        <3>1. f \in [Claims -> Nat]  BY <2>1 DEF Histories
        <3>2. seen' = [seen EXCEPT !.slack = f]  BY <2>2 DEF CleanSeen
        <3> HIDE DEF f
        <3> QED  BY <2>1, <3>1, <3>2 DEF Histories
    <2> QED  BY <2>1, <2>2, EnvironmentEffect
<1> QED  BY <1>1, <1>2, <1>3, EnvironmentEffect DEF TypeOK, StoreTypeOK, AccountsTypeOK, PgTyped

\* What the cleanup leaves in Postgres.
LEMMA ExpiredIs ==
  ASSUME TypeOK, pg' = Expired(pg), now' = now, token' = token
  PROVE  /\ pg'.revT = {t \in pg.revT : Alive(token[t].end)}
         /\ pg'.tok = [t \in Toks |-> IF Alive(token[t].end) THEN pg.tok[t] ELSE "none"]
         /\ pg'.sess = [s \in Sids |-> IF Alive(pg.sess[s].end) THEN pg.sess[s] ELSE [end |-> 0, revoked |-> FALSE]]
         /\ pg'.fail = [k \in Keys |-> IF Alive(pg.fail[k].end) THEN pg.fail[k] ELSE NoFailure]
         /\ pg'.once = {c \in pg.once : Alive(c.end)}
         /\ pg'.oidc = {x \in pg.oidc : Alive(x.end)}
<1>1. pg \in PgStates(Claims, States)  BY DEF TypeOK, StoreTypeOK
<1> QED  BY <1>1 DEF Expired, PgStates

\* And all that is about tokens, states, claims and sessions.
LEMMA EnvironmentKeeps ==
  ASSUME TypeOK, Routes, Handed, Owned, SpentOnce, StateOnce, ClaimedOnce, Environment
  PROVE  Routes' /\ Handed' /\ Owned' /\ SpentOnce' /\ StateOnce' /\ ClaimedOnce'
<1>0. /\ UNCHANGED <<redisOn, session, token, users, identity, script, req, access, given, states>>
      /\ now \in Nat /\ now' \in Nat /\ now <= now'
      /\ seen \in Histories /\ seen.slack \in [Claims -> Nat] /\ seen.uses \in [Claims -> Nat]
      /\ pg \in PgStates(Claims, States)
    BY EnvironmentEffect DEF TypeOK, StoreTypeOK, Histories
<1>1. Routes'  BY <1>0 DEF Routes, R
<1>2. Handed'  BY <1>0 DEF Handed, R
<1>3. Owned'  BY <1>0 DEF Owned, Known, Opened, Is, R
<1>4. /\ seen'.spent = seen.spent /\ seen'.signIns = seen.signIns
      /\ \A t \in Toks : pg'.tok[t] = "live" => pg.tok[t] = "live"
      /\ pg'.oidc \subseteq pg.oidc
    <2>1. CASE pg' = pg /\ seen' = seen  BY <2>1
    <2>2. CASE pg' = Expired(pg) /\ seen' = CleanSeen /\ now' = now  BY <1>0, <2>2, ExpiredIs DEF CleanSeen, Histories
    <2> QED  BY <2>1, <2>2, EnvironmentEffect
<1>5. SpentOnce'
    <2>1. \A t \in Toks : SpentOnceFor(t)  BY SpentOnceIs
    <2>2. \A t \in Toks : SpentOnceFor(t)'  BY <1>0, <1>4, <2>1 DEF SpentOnceFor
    <2> QED  BY <2>2 DEF SpentOnce, SpentOnceFor, Spends, Spending, Is, R
<1>6. StateOnce'
    <2>1. \A st \in States : HasState(pg, st)' => HasState(pg, st)
        <3>1. ASSUME NEW x \in pg.oidc, now' < x.end PROVE now < x.end
            <4>1. x.end \in Nat  BY <1>0 DEF PgStates
            <4> QED  BY <1>0, <3>1, <4>1
        <3> QED  BY <1>4, <3>1 DEF HasState, Alive
    <2> QED  BY <1>0, <1>4, <2>1 DEF StateOnce, Passing, Is, R
<1>7. ClaimedOnce'
    <2>1. CASE pg' = pg /\ seen' = seen  BY <2>1 DEF ClaimedOnce, Claimed
    <2>2. CASE pg' = Expired(pg) /\ seen' = CleanSeen /\ now' = now
        <3>1. pg'.once = {c \in pg.once : Alive(c.end)}  BY <1>0, <2>2, ExpiredIs
        <3> DEFINE gone(k) == \E x \in pg.once : x.key = k /\ ~Alive(x.end)
        <3>2. seen'.uses = seen.uses /\ \A k \in Claims : seen'.slack[k] = seen.slack[k] + IF gone(k) THEN 1 ELSE 0
            BY <1>0, <2>2 DEF CleanSeen, Histories
        <3>3. ASSUME NEW k \in Claims PROVE seen'.uses[k] <= seen'.slack[k] + (IF Claimed(pg', k) THEN 1 ELSE 0)
            <4>1. seen.uses[k] <= seen.slack[k] + (IF Claimed(pg, k) THEN 1 ELSE 0)  BY DEF ClaimedOnce
            <4>2. Claimed(pg, k) => gone(k) \/ Claimed(pg', k)  BY <3>1 DEF Claimed
            <4> HIDE DEF gone
            <4> QED  BY <1>0, <3>2, <4>1, <4>2
        <3> QED  BY <3>3 DEF ClaimedOnce
    <2> QED  BY <2>1, <2>2, EnvironmentEffect
<1> QED  BY <1>1, <1>2, <1>3, <1>5, <1>6, <1>7

------------------------------------------------------------------------------
(* Rows of sessions and tokens in the stores.                              *)

\* What a step does to the row of a session in Postgres.
LEMMA RowSteps ==
  ASSUME Kept0, NEW p \in Clients, Step(p), NEW s \in Sids
  PROVE  \/ pg'.sess[s].end >= pg.sess[s].end /\ (pg.sess[s].revoked => pg'.sess[s].revoked)
         \/ CreateSessionPg(p) /\ R(p).sid = s
<1>0. /\ TypeOK /\ pg \in PgStates(Claims, States) /\ pg.sess \in [Sids -> [end : Nat, revoked : BOOLEAN]]
      /\ R(p).end \in Nat /\ pg.sess[s].end \in Nat /\ pg.sess[s].end >= pg.sess[s].end
    BY Named DEF Kept0, TypeOK, StoreTypeOK, PgStates
<1>1. CASE RevokeSessionPg(p)
    <2>1. pg' = pg \/ pg' = PgRevokeSession(pg, R(p).sid, R(p).end)  BY <1>0, <1>1, RevokeSessionPgEffect
    <2> DEFINE row == [end |-> Later(pg.sess[R(p).sid].end, R(p).end), revoked |-> TRUE]
    <2>2. pg'.sess = pg.sess \/ pg'.sess = [pg.sess EXCEPT ![R(p).sid] = row]
        BY <1>0, <2>1 DEF PgRevokeSession, PgStates
    <2>3. R(p).sid = s => row.end >= pg.sess[s].end /\ row.revoked  BY <1>0 DEF Later
    <2> HIDE DEF row
    <2> QED  BY <1>0, <2>2, <2>3
<1>2. CASE RevokeAllPg(p)
    <2>1. pg' = pg \/ pg' = PgRevokeSubjectSessions(pg, R(p).user)  BY <1>0, <1>2, RevokeAllPgEffect
    <2>2. CASE pg' = PgRevokeSubjectSessions(pg, R(p).user)
        <3>1. pg'.sess = [x \in Sids |-> IF session[x].user = R(p).user /\ Holds(pg, x) /\ Alive(pg.sess[x].end)
                                         THEN [end |-> pg.sess[x].end, revoked |-> TRUE] ELSE pg.sess[x]]
            BY <1>0, <2>2 DEF PgRevokeSubjectSessions, PgStates
        <3> QED  BY <1>0, <3>1
    <2> QED  BY <1>0, <2>1, <2>2
<1>3. CASE CreateSessionPg(p) /\ R(p).sid # s
    <2>1. pg' = pg \/ pg' = PgCreateSession(pg, R(p).sid, session[R(p).sid].end)  BY <1>0, <1>3, CreateSessionPgEffect
    <2>2. pg'.sess[s] = pg.sess[s]  BY <1>0, <1>3, <2>1 DEF PgCreateSession, PgStates
    <2> QED  BY <1>0, <2>2
<1>4. CASE ~(RevokeSessionPg(p) \/ RevokeAllPg(p) \/ CreateSessionPg(p))
    <2>1. pg'.sess = pg.sess  BY <1>4, StepFrame DEF Framed, FramePg
    <2> QED  BY <1>0, <2>1
<1> QED  BY <1>1, <1>2, <1>3, <1>4

\* A row kept stays kept, and a dead session dead, unless it is created.
LEMMA KeptSteps ==
  ASSUME Kept0, NEW p \in Clients, Step(p), NEW s \in Sids, session[s].end # 0, ~(CreateSessionPg(p) /\ R(p).sid = s)
  PROVE  (Kept(s) => Kept(s)') /\ (Dead(s) => Dead(s)')
<1>1. session'[s] = session[s] /\ now' = now  BY SessionSteps, StepFrame DEF Framed, FrameWorld
<1>2. pg'.sess[s].end >= pg.sess[s].end /\ (pg.sess[s].revoked => pg'.sess[s].revoked)  BY RowSteps
<1>3. pg'.sess[s].end \in Nat /\ pg.sess[s].end \in Nat /\ session[s].end \in Nat
    <2>1. TypeOK /\ pg'.sess[s].end \in Nat
        <3>1. CASE pg'.sess = pg.sess  BY <3>1 DEF Kept0, TypeOK, StoreTypeOK, PgStates
        <3>2. CASE pg'.sess # pg.sess
            <4>1. Stored'
                <5>1. RevokeSessionPg(p) \/ RevokeAllPg(p) \/ CreateSessionPg(p)  BY <3>2, StepFrame DEF Framed, FramePg
                <5> QED  BY <5>1, SessionStored, IssueStored
            <4> QED  BY <4>1 DEF Kept0, Stored, PgTyped, PgStates
        <3> QED  BY <3>1, <3>2 DEF Kept0
    <2> QED  BY <2>1 DEF Kept0, TypeOK, StoreTypeOK, PgStates, TokenSessions
<1> QED  BY <1>1, <1>2, <1>3 DEF Kept, Dead, Alive

\* A revoked token stays so.
LEMMA GoneSteps ==
  ASSUME Kept0, NEW p \in Clients, Step(p), NEW t \in Toks, token[t].sid # 0
  PROVE  (Gone(t) => Gone(t)') /\ pg.revT \subseteq pg'.revT
<1>0. TypeOK /\ pg \in PgStates(Claims, States)  BY DEF Kept0, TypeOK, StoreTypeOK
<1>1. token'[t] = token[t] /\ now' = now  BY TokenSteps, StepFrame DEF Framed, FrameWorld
<1>2. pg.revT \subseteq pg'.revT
    <2>1. CASE Rotate(p)
        <3>1. pg' = pg \/ pg' = PgRotate(pg, R(p).tok, NextTok)  BY <1>0, <2>1, RotateEffect
        <3> QED  BY <1>0, <3>1 DEF PgRotate, PgStates
    <2>2. CASE RevokeTokenPg(p)
        <3>1. pg' = pg \/ pg' = PgRevokeToken(pg, R(p).tok)  BY <1>0, <2>2, RevokeTokenPgEffect
        <3> QED  BY <1>0, <3>1 DEF PgRevokeToken, PgStates
    <2>3. CASE ~(Rotate(p) \/ RevokeTokenPg(p))  BY <2>3, StepFrame DEF Framed, FramePg
    <2> QED  BY <2>1, <2>2, <2>3
<1> QED  BY <1>1, <1>2 DEF Gone, Alive

\* What clients know are sessions.
LEMMA KnownIn == ASSUME TypeOK PROVE Known \subseteq Sids /\ 0 \notin Known
<1>1. Known \subseteq Sids  BY DEF TypeOK, Known
<1> QED  BY <1>1, AuthStoreAssumption

\* The sessions signed out are known, and dead once they are.
LEMMA OutSteps ==
  ASSUME Kept0, Revoked, NEW p \in Clients, Step(p)
  PROVE  seen.out \subseteq seen'.out /\ seen'.out \subseteq Known /\ \A s \in seen'.out : Dead(s)'
<1>0. /\ TypeOK /\ seen \in Histories /\ Known \subseteq Sids /\ pg \in PgStates(Claims, States)
      /\ \A s \in Known : session[s].end # 0
      /\ pg.sess \in [Sids -> [end : Nat, revoked : BOOLEAN]] /\ session \in [Sids -> TokenSessions] /\ now \in Nat
    BY KnownIn DEF Kept0, TypeOK, StoreTypeOK, Owned, PgStates
<1>1. seen.out \subseteq Known /\ \A s \in seen.out : Dead(s)  BY DEF Revoked
<1>2. ASSUME NEW s \in Known PROVE ~(CreateSessionPg(p) /\ R(p).sid = s)
    <2>1. SUFFICES ASSUME CreateSessionPg(p), R(p).sid = s PROVE FALSE  OBVIOUS
    <2>2. R(p).at = "sessPg"  BY <2>1, Guards
    <2>3. Opened(p)  BY <2>2, Needs DEF Kept0, Opened, Is, R, Routes, Route
    <2> QED  BY <2>1, <2>3 DEF Kept0, Owned
<1>3. \A s \in seen.out : Dead(s)'  BY <1>0, <1>1, <1>2, KeptSteps
<1>4. CASE RevokeOtherToken(p)
    <2>1. seen' = [seen EXCEPT !.out = @ \cup {R(p).sid}] /\ R(p).at = "signedOut"  BY <1>0, <1>4, RevokeOtherTokenEffect
    <2>2. seen'.out = seen.out \cup {R(p).sid}  BY <1>0, <2>1 DEF Histories
    <2>3. Dead(R(p).sid)  BY <2>1 DEF Revoked
    <2>4. R(p).sid \in Known
        <3>1. R(p).o.op = "logout"  BY <2>1 DEF Kept0, Routes, Route
        <3>2. R(p).sid # 0  BY <2>1, Needs DEF Kept0
        <3> QED  BY <3>1, <3>2 DEF Kept0, Owned, Is, Issuing, R
    <2> QED  BY <1>0, <1>1, <1>2, <1>3, <2>2, <2>3, <2>4, KeptSteps
<1>5. CASE RevokeAllPg(p)
    <2>1. CASE seen' = seen  BY <1>1, <1>3, <2>1
    <2>2. CASE seen' # seen
        <3>1. /\ pg' = PgRevokeSubjectSessions(pg, R(p).user) /\ session' = session /\ now' = now
              /\ seen' = [seen EXCEPT !.out = @ \cup {s \in R(p).before : session[s].user = R(p).user}]
            BY <1>0, <1>5, <2>2, RevokeAllPgEffect DEF Around
        <3>2. seen'.out = seen.out \cup {s \in R(p).before : session[s].user = R(p).user}  BY <1>0, <3>1 DEF Histories
        <3>3. R(p).before \subseteq Known  BY DEF Kept0, Owned
        <3>4. ASSUME NEW s \in Known, session[s].user = R(p).user PROVE Dead(s)'
            <4>1. CASE Alive(session[s].end)
                <5>1. pg.sess[s].end >= session[s].end  BY <4>1 DEF Revoked, Kept
                <5>2. pg.sess[s].end \in Nat /\ session[s].end \in Nat  BY <1>0 DEF TokenSessions
                <5>3. Holds(pg, s) /\ Alive(pg.sess[s].end)  BY <1>0, <4>1, <5>1, <5>2 DEF Holds, Alive
                <5>4. pg'.sess = [x \in Sids |-> IF session[x].user = R(p).user /\ Holds(pg, x) /\ Alive(pg.sess[x].end)
                                                 THEN [end |-> pg.sess[x].end, revoked |-> TRUE] ELSE pg.sess[x]]
                    BY <1>0, <3>1 DEF PgRevokeSubjectSessions, PgStates
                <5>5. pg'.sess[s].revoked  BY <1>0, <3>4, <5>3, <5>4
                <5> QED  BY <5>5 DEF Dead
            <4>2. CASE ~Alive(session[s].end)  BY <3>1, <4>2 DEF Dead, Alive
            <4> QED  BY <4>1, <4>2
        <3> QED  BY <1>1, <1>3, <3>2, <3>3, <3>4
    <2> QED  BY <2>1, <2>2
<1>6. CASE ~(RevokeOtherToken(p) \/ RevokeAllPg(p))
    <2>1. seen'.out = seen.out  BY <1>6, StepFrame DEF Framed, FrameSeen
    <2> QED  BY <1>1, <1>3, <2>1
<1> QED  BY <1>4, <1>5, <1>6

\* The refresh tokens signed out by themselves are gone.
LEMMA OutTokSteps ==
  ASSUME Kept0, Revoked, NEW p \in Clients, Step(p)
  PROVE  seen.outTok \subseteq seen'.outTok /\ seen'.outTok \subseteq given /\ \A t \in seen'.outTok : Gone(t)'
<1>0. /\ TypeOK /\ given \subseteq Toks /\ \A t \in given : token[t].sid # 0
    BY DEF Kept0, TypeOK, Handed
<1>1. seen.outTok \subseteq given /\ \A t \in seen.outTok : Gone(t)  BY DEF Revoked
<1>2. \A t \in given : Gone(t) => Gone(t)'  BY <1>0, GoneSteps
<1>3. CASE Answer(p) /\ R(p).at = "revoked"
    <2>1. seen'.outTok = seen.outTok \cup {R(p).tok}  BY <1>0, <1>3, AnswerEffect
    <2>2. Gone(R(p).tok)  BY <1>3 DEF Revoked
    <2>3. R(p).tok \in given  BY <1>3, Needs DEF Kept0, Handed
    <2> QED  BY <1>1, <1>2, <2>1, <2>2, <2>3
<1>4. CASE Answer(p) /\ R(p).at # "revoked"
    <2>1. seen'.outTok = seen.outTok  BY <1>0, <1>4, AnswerEffect
    <2> QED  BY <1>1, <1>2, <2>1
<1>5. CASE ~Answer(p)
    <2>1. seen'.outTok = seen.outTok  BY <1>5, StepFrame DEF Framed, FrameSeen
    <2> QED  BY <1>1, <1>2, <2>1
<1> QED  BY <1>3, <1>4, <1>5

------------------------------------------------------------------------------
(* Sessions are not created again.                                         *)

\* A session that clients know is not created again, nor one that another request has opened.
LEMMA NotAgain ==
  ASSUME Kept0, NEW p \in Clients, Step(p), NEW s \in Sids,
         s \in Known \/ \E q \in Clients \ {p} : Opens(req[q]) /\ req[q].sid = s
  PROVE  ~(CreateSessionPg(p) /\ R(p).sid = s) /\ session[s].end # 0
<1>1. /\ \A q \in Clients : Opens(req[q]) => /\ req[q].sid \notin Known /\ session[req[q].sid].end # 0
                                             /\ \A o \in Clients \ {q} : Opens(req[o]) => req[o].sid # req[q].sid
      /\ \A x \in Known : session[x].end # 0
    BY DEF Kept0, Owned, Opened, Opens, Is, R
<1>2. CreateSessionPg(p) => Opens(req[p])
    <2>1. SUFFICES ASSUME CreateSessionPg(p) PROVE Opens(req[p])  OBVIOUS
    <2>2. R(p).at = "sessPg"  BY <2>1, Guards
    <2> QED  BY <2>2, Needs DEF Kept0, Opens, R, Routes, Route
<1> QED  BY <1>1, <1>2 DEF R

\* What VerifyToken has found when it lets a request by.
LEMMA LetsIs ==
  ASSUME NEW r, Lets(r)
  PROVE  Alive(r.end) /\ (r.tok # 0 => ~PgTokenRevoked(r.tok)) /\ ~PgSessionRevoked(r.sid)
BY DEF Lets, Accepts, ReadBool

\* The request that has just been let through by Postgres and Redis.
LEMMA VerifySteps ==
  ASSUME Kept0, NEW p \in Clients, Step(p), req[p].at = "verify", Onward(p), req'[p].at \in Verified
  PROVE  Lets(req[p])
<1>1. VerifyToken(p) /\ TypeOK /\ Routes  BY Guards DEF R, Kept0
<1>2. Hop(p, req[p], req'[p])  BY <1>1, VerifyThinks DEF Thinks
<1> QED  BY <1>2 DEF Hop, Verified

\* Where a request that was verified comes from.
LEMMA VerifiedFrom ==
  ASSUME NEW r, NEW s, Path(r, s), Route(r), r.o.op \in {"use", "refresh"}, s.at \in Verified
  PROVE  r.at = "verify" \/ r.at \in Verified
<1>1. CASE s.at # "ok"  BY <1>1 DEF Path, Verified
<1>2. CASE s.at = "ok"
    <2>1. r.at \in {"resolve", "rotateRedis", "signedOut", "allPg", "tokPg", "clear", "saveState", "save", "delete"}
        BY <1>2 DEF Path
    <2>2. r.at \notin {"signedOut", "allPg", "tokPg", "clear", "saveState", "save", "delete"}
        BY DEF Route, Issuing, Changing
    <2> QED  BY <2>1, <2>2 DEF Verified
<1> QED  BY <1>1, <1>2

\* A request verified after a sign-out is one whose session is over.
LEMMA VerifiedKept ==
  ASSUME Kept0, Revoked, NEW p \in Clients, Step(p), NEW q \in Clients,
         req'[q].o.op \in {"use", "refresh"}, req'[q].at \in Verified
  PROVE  /\ req'[q].late => ~(now' < session'[req'[q].sid].end)
         /\ ~req'[q].spent
<1>0. /\ now' = now /\ Known \subseteq Sids /\ \A s \in Known : session[s].end # 0
      /\ seen.out \subseteq Known /\ \A s \in seen.out : Dead(s)
      /\ \A o \in Clients : req[o].late => req[o].sid \in seen.out
      /\ \A o \in Clients : req[o].o.op \in {"use", "refresh"} /\ req[o].at \in Verified =>
            (req[o].late => ~Alive(session[req[o].sid].end)) /\ ~req[o].spent
    BY KnownIn, StepFrame DEF Kept0, Owned, Revoked, Is, R, Framed, FrameWorld
<1>1. \A s \in Known : session'[s] = session[s]  BY <1>0, SessionSteps
<1>2. CASE q # p
    <2>1. Like(req[q], req'[q]) /\ req'[q].at = req[q].at  BY <1>2, StepKinds DEF Beside
    <2>2. /\ req'[q].late = req[q].late /\ req'[q].spent = req[q].spent /\ req'[q].sid = req[q].sid
          /\ req[q].o.op \in {"use", "refresh"} /\ req[q].at \in Verified
        BY <2>1 DEF Like
    <2> QED  BY <1>0, <1>1, <2>2 DEF Alive
<1>3. CASE q = p
    <2>1. Onward(p)
        <3>1. req'[p] # Idle  BY <1>3 DEF Idle, Verified
        <3>2. ~Starting(p)
            <4>1. SUFFICES ASSUME Starting(p) PROVE FALSE  OBVIOUS
            <4>2. PICK r \in Requests : Begun(p, r, req'[p]) /\ Starts(Head(script[p]), r)  BY <4>1 DEF Starting
            <4>3. req'[p].at \in {"captcha", "verify", "read", "saveState", "hasState"}  BY <4>2 DEF Begun, Starts
            <4> QED  BY <1>3, <4>3 DEF Verified
        <3> QED  BY <3>1, <3>2, StepKinds
    <2>2. FrameReq(p) /\ Path(req[p], req'[p]) /\ Route(req[p]) /\ req'[p].o = req[p].o
        BY <2>1, OnwardFrame DEF Onward, Path, Kept0, Routes, R
    <2>3. req'[p].late = req[p].late /\ req'[p].spent = req[p].spent /\ req[p].o.op \in {"use", "refresh"}
        BY <1>3, <2>2 DEF FrameReq
    <2>4. req'[p].sid = req[p].sid
        <3>1. ~CreateSessionRedis(p)
            <4>1. req[p].at # "sessRedis"  BY <2>2, <2>3 DEF Route, Issuing
            <4> QED  BY <4>1, Guards DEF R
        <3> QED  BY <2>2, <3>1 DEF FrameReq
    <2>5. CASE req[p].at \in Verified  BY <1>0, <1>1, <1>3, <2>3, <2>4, <2>5 DEF Alive
    <2>6. CASE req[p].at = "verify"
        <3>1. Lets(req[p])  BY <1>3, <2>1, <2>6, VerifySteps
        <3>2. Alive(req[p].end) /\ (req[p].tok # 0 => ~PgTokenRevoked(req[p].tok)) /\ ~PgSessionRevoked(req[p].sid)
            BY <3>1, LetsIs
        <3>3. ~req[p].spent
            <4>1. SUFFICES ASSUME req[p].spent PROVE FALSE  OBVIOUS
            <4>2. req[p].tok \in seen.outTok /\ seen.outTok \subseteq given /\ \A t \in seen.outTok : Gone(t)
                BY <2>3, <4>1 DEF Revoked, Is, R
            <4>3. req[p].tok # 0  BY <4>2, AuthStoreAssumption DEF Kept0, TypeOK
            <4>4. req[p].end = token[req[p].tok].end  BY <2>6, <4>3 DEF Revoked, R
            <4>5. Gone(req[p].tok)  BY <4>2
            <4> QED  BY <3>2, <4>3, <4>4, <4>5 DEF Gone, PgTokenRevoked
        <3>4. req[p].late => ~Alive(session[req[p].sid].end)
            BY <1>0, <3>2 DEF Dead, PgSessionRevoked
        <3> QED  BY <1>0, <1>1, <1>3, <2>3, <2>4, <3>3, <3>4 DEF Alive
    <2> QED  BY <1>3, <2>2, <2>3, <2>5, <2>6, VerifiedFrom
<1> QED  BY <1>2, <1>3

------------------------------------------------------------------------------
(* What is known and revoked stays so.                                     *)

\* A session in the answer of a sign-in, or known to clients, is kept by Postgres until its end.
LEMMA SignInKept ==
  ASSUME Kept0, Revoked, NEW p \in Clients, Step(p), NEW q \in Clients, NEW s \in Sids, req'[q].sid = s,
         req'[q].o.op \in Issuing, req'[q].at \in {"tokRedis", "tokPg", "clear", "ok"}
  PROVE  Kept(s)'
<1>0. /\ now' = now /\ 0 \notin Sids /\ TypeOK /\ pg \in PgStates(Claims, States)
      /\ pg.sess \in [Sids -> [end : Nat, revoked : BOOLEAN]] /\ session \in [Sids -> TokenSessions]
      /\ \A o \in Clients : req[o].o.op \in Issuing /\ req[o].sid # 0 /\ req[o].at \in {"tokRedis", "tokPg", "clear", "ok"} => Kept(req[o].sid)
    BY StepFrame, AuthStoreAssumption DEF Kept0, TypeOK, StoreTypeOK, PgStates, Framed, FrameWorld, Revoked, Opened, Is, R
<1>1. CASE q # p
    <2>1. /\ req[q].sid = s /\ req[q].o = req'[q].o /\ req[q].at = req'[q].at
        BY <1>1, StepKinds DEF Beside, Like
    <2>2. Kept(s) /\ Opens(req[q])  BY <1>0, <2>1 DEF Opens
    <2>3. ~(CreateSessionPg(p) /\ R(p).sid = s) /\ session[s].end # 0  BY <1>1, <2>1, <2>2, NotAgain
    <2> QED  BY <2>2, <2>3, KeptSteps
<1>2. CASE q = p
    <2>1. Onward(p)
        <3>1. req'[p] # Idle  BY <1>2 DEF Idle
        <3>2. ~Starting(p)
            <4>1. SUFFICES ASSUME Starting(p) PROVE FALSE  OBVIOUS
            <4>2. PICK r \in Requests : Begun(p, r, req'[p]) /\ Starts(Head(script[p]), r)  BY <4>1 DEF Starting
            <4> QED  BY <1>2, <4>2 DEF Begun, Starts
        <3> QED  BY <3>1, <3>2, StepKinds
    <2>2. FrameReq(p) /\ Path(req[p], req'[p]) /\ Route(req[p]) /\ req'[p].o = req[p].o
        BY <2>1, OnwardFrame DEF Onward, Path, Kept0, Routes, R
    <2>3. req[p].at \in {"sessPg", "tokRedis", "tokPg", "clear"}
        <3>1. CASE req'[p].at # "ok"  BY <1>2, <2>2, <3>1 DEF Path
        <3>2. CASE req'[p].at = "ok"
            <4>1. req[p].at \in {"resolve", "rotateRedis", "signedOut", "allPg", "tokPg", "clear", "saveState", "save", "delete"}
                BY <2>2, <3>2 DEF Path
            <4>2. req[p].at \notin {"resolve", "rotateRedis", "signedOut", "allPg", "saveState", "save", "delete"}
                BY <1>2, <2>2 DEF Route, Issuing, Changing
            <4> QED  BY <4>1, <4>2
        <3> QED  BY <3>1, <3>2
    <2>4. req'[p].sid = req[p].sid
        <3>1. ~CreateSessionRedis(p)  BY <2>3, Guards DEF R
        <3> QED  BY <2>2, <3>1 DEF FrameReq
    <2>5. session[s].end # 0 /\ R(p).sid = s
        <3>1. Opened(p) /\ R(p).sid = s  BY <1>0, <1>2, <2>2, <2>4 DEF Opened, Is, R
        <3> QED  BY <3>1 DEF Kept0, Owned
    <2>6. CASE req[p].at = "sessPg"
        <3>1. CreateSessionPg(p)  BY <2>6, Guards DEF R
        <3>2. req'[p].at # "failed"  BY <1>2
        <3>3. pg' = PgCreateSession(pg, s, session[s].end)
            <4>1. Steps(p, "failed") => req'[p].at = "failed"  BY DEF Steps, Went
            <4>2. pg' = PgCreateSession(pg, R(p).sid, session[R(p).sid].end)
                BY <1>0, <3>1, <3>2, <4>1, CreateSessionPgEffect
            <4> QED  BY <2>5, <4>2
        <3>4. pg'.sess[s].end = session[s].end  BY <1>0, <3>3 DEF PgCreateSession, PgStates
        <3>5. session'[s] = session[s]  BY <2>5, SessionSteps
        <3>6. session[s].end \in Nat  BY <1>0 DEF TokenSessions
        <3> QED  BY <3>4, <3>5, <3>6 DEF Kept
    <2>7. CASE req[p].at # "sessPg"
        <3>1. ~CreateSessionPg(p)  BY <2>7, Guards DEF R
        <3>2. Kept(s)  BY <1>0, <1>2, <2>2, <2>3, <2>4, <2>7
        <3> QED  BY <2>5, <3>1, <3>2, KeptSteps
    <2> QED  BY <2>6, <2>7
<1> QED  BY <1>1, <1>2

\* A session that clients know stays kept.
LEMMA KnownKept ==
  ASSUME Kept0, Revoked, NEW p \in Clients, Step(p), NEW s \in Known'
  PROVE  Kept(s)'
<1>0. /\ \A x \in Known : Kept(x) /\ x \in Sids
    BY KnownIn DEF Revoked, Kept0
<1>1. CASE s \in Known  BY <1>0, <1>1, NotAgain, KeptSteps
<1>2. CASE s \notin Known
    <2>1. R(p).new # 0 /\ access' = access \cup {[sid |-> R(p).sid, end |-> R(p).end]} /\ req'[p] = Idle
        BY <1>2, GivenSteps DEF Known
    <2>2. s = R(p).sid
        <3>1. PICK a \in access' : s = a.sid  BY DEF Known
        <3>2. a \notin access  BY <1>2, <3>1 DEF Known
        <3> QED  BY <2>1, <3>1, <3>2
    <2>3. Answer(p)
        <3>1. access' # access  BY <1>2 DEF Known
        <3> QED  BY <3>1, StepFrame DEF Framed, FrameWorld
    <2>4. R(p).at = "ok"
        <3>1. R(p).at \in {"ok", "revoked"}  BY <2>3, Guards
        <3> QED  BY <2>1, <3>1 DEF Kept0, Handed, Carries
    <2>5. R(p).sid \in Sids /\ R(p).sid # 0  BY <2>1, Named, AuthStoreAssumption DEF Kept0
    <2>6. Opened(p)
        <3>1. Is(p, Issuing)  BY <1>2, <2>2, <2>5 DEF Kept0, Owned
        <3> QED  BY <2>5, <3>1 DEF Opened
    <2>7. Kept(s) /\ session[s].end # 0  BY <2>2, <2>4, <2>6 DEF Revoked, Opened, Kept0, Owned
    <2>8. ~CreateSessionPg(p)  BY <2>4, Guards
    <2> QED  BY <2>2, <2>5, <2>7, <2>8, KeptSteps
<1> QED  BY <1>1, <1>2

\* A sign-out that both stores have carried out has killed the session.
LEMMA SignedOutKept ==
  ASSUME Kept0, Revoked, NEW p \in Clients, Step(p), NEW q \in Clients, NEW s \in Sids, req'[q].sid = s,
         req'[q].at = "signedOut"
  PROVE  Dead(s)'
<1>1. CASE q # p
    <2>1. /\ req[q].sid = s /\ req[q].at = "signedOut"
        BY <1>1, StepKinds DEF Beside, Like
    <2>2. Dead(s)  BY <2>1 DEF Revoked, R
    <2>3. s \in Known
        <3>1. req[q].o.op = "logout"  BY <2>1 DEF Kept0, Routes, Route, R
        <3>2. req[q].sid # 0  BY <2>1, Needs DEF Kept0, R
        <3> QED  BY <2>1, <3>1, <3>2 DEF Kept0, Owned, Is, Issuing, R
    <2> QED  BY <2>2, <2>3, NotAgain, KeptSteps
<1>2. CASE q = p
    <2>1. Onward(p)
        <3>1. req'[p] # Idle  BY <1>2 DEF Idle
        <3>2. ~Starting(p)
            <4>1. SUFFICES ASSUME Starting(p) PROVE FALSE  OBVIOUS
            <4>2. PICK r \in Requests : Begun(p, r, req'[p]) /\ Starts(Head(script[p]), r)  BY <4>1 DEF Starting
            <4> QED  BY <1>2, <4>2 DEF Begun, Starts
        <3> QED  BY <3>1, <3>2, StepKinds
    <2>2. req[p].at = "revPg"  BY <1>2, <2>1 DEF Onward, Path
    <2>3. RevokeSessionPg(p) /\ TypeOK /\ pg \in PgStates(Claims, States)  BY <2>2, Guards DEF R, Kept0, TypeOK, StoreTypeOK
    <2>4. pg' = PgRevokeSession(pg, R(p).sid, R(p).end) /\ req'[p].sid = req[p].sid
        <3>1. ~Steps(p, "failed")  BY <1>2 DEF Steps, Went
        <3> QED  BY <2>3, <3>1, RevokeSessionPgEffect DEF Steps, Went, Held
    <2>5. R(p).sid = s  BY <1>2, <2>4 DEF R
    <2>6. pg'.sess[s].revoked
        <3>1. pg'.sess = [pg.sess EXCEPT ![s] = [end |-> Later(@.end, R(p).end), revoked |-> TRUE]]
            BY <2>3, <2>4, <2>5 DEF PgRevokeSession, PgStates
        <3>2. pg.sess \in [Sids -> [end : Nat, revoked : BOOLEAN]]  BY <2>3 DEF PgStates
        <3> QED  BY <3>1, <3>2
    <2> QED  BY <2>6 DEF Dead
<1> QED  BY <1>1, <1>2

\* A token that was revoked stays gone.
LEMMA TokenRevokedKept ==
  ASSUME Kept0, Revoked, NEW p \in Clients, Step(p), NEW q \in Clients, NEW t \in Toks, req'[q].tok = t,
         req'[q].at = "revoked"
  PROVE  Gone(t)'
<1>0. \A x \in given : token[x].sid # 0  BY DEF Kept0, Handed
<1>1. CASE q # p
    <2>1. /\ req[q].tok = t /\ req[q].at = "revoked"
        BY <1>1, StepKinds DEF Beside, Like
    <2>2. Gone(t)  BY <2>1 DEF Revoked, R
    <2>3. t \in given  BY <2>1, AuthStoreAssumption DEF Kept0, Handed, R
    <2> QED  BY <1>0, <2>2, <2>3, GoneSteps
<1>2. CASE q = p
    <2>1. Onward(p)
        <3>1. req'[p] # Idle  BY <1>2 DEF Idle
        <3>2. ~Starting(p)
            <4>1. SUFFICES ASSUME Starting(p) PROVE FALSE  OBVIOUS
            <4>2. PICK r \in Requests : Begun(p, r, req'[p]) /\ Starts(Head(script[p]), r)  BY <4>1 DEF Starting
            <4> QED  BY <1>2, <4>2 DEF Begun, Starts
        <3> QED  BY <3>1, <3>2, StepKinds
    <2>2. req[p].at = "revTokenPg"  BY <1>2, <2>1 DEF Onward, Path
    <2>3. RevokeTokenPg(p) /\ TypeOK /\ pg \in PgStates(Claims, States)  BY <2>2, Guards DEF R, Kept0, TypeOK, StoreTypeOK
    <2>4. pg' = PgRevokeToken(pg, R(p).tok) /\ req'[p].tok = req[p].tok
        <3>1. ~Steps(p, "failed")  BY <1>2 DEF Steps, Went
        <3> QED  BY <2>3, <3>1, RevokeTokenPgEffect DEF Steps, Went, Held
    <2>5. t \in pg'.revT  BY <1>2, <2>3, <2>4 DEF PgRevokeToken, PgStates, R
    <2> QED  BY <2>5 DEF Gone
<1> QED  BY <1>1, <1>2

\* What a request was told of sign-outs when it started stays so.
LEMMA LateKept ==
  ASSUME Kept0, Revoked, NEW p \in Clients, Step(p)
  PROVE  /\ \A q \in Clients : req'[q].late => req'[q].sid \in seen'.out
         /\ \A q \in Clients : req'[q].spent /\ req'[q].o.op \in {"use", "refresh"} => req'[q].tok \in seen'.outTok
<1>0. /\ \A q \in Clients : req[q].late => req[q].sid \in seen.out
      /\ \A q \in Clients : req[q].spent /\ req[q].o.op \in {"use", "refresh"} => req[q].tok \in seen.outTok
      /\ 0 \notin seen.out
    BY KnownIn DEF Revoked, Is, R, Kept0
<1>1. seen.out \subseteq seen'.out /\ seen.outTok \subseteq seen'.outTok  BY OutSteps, OutTokSteps
<1>2. \A q \in Clients \ {p} : Like(req[q], req'[q])  BY StepKinds DEF Beside
<1>3. (req'[p].late => req'[p].sid \in seen.out)
      /\ (req'[p].spent /\ req'[p].o.op \in {"use", "refresh"} => req'[p].tok \in seen.outTok)
    <2>1. CASE Starting(p)
        <3>1. PICK r \in Requests : Begun(p, r, req'[p])  BY <2>1 DEF Starting
        <3> QED  BY <3>1 DEF Begun
    <2>2. CASE req'[p] = Idle  BY <2>2 DEF Idle
    <2>3. CASE Onward(p)
        <3>1. FrameReq(p) /\ Route(req[p]) /\ Bears(req[p])  BY <2>3, OnwardFrame DEF Kept0, Routes, Owned, R
        <3>2. req'[p].late = req[p].late /\ req'[p].spent = req[p].spent /\ req'[p].o = req[p].o  BY <3>1 DEF FrameReq
        <3>3. req[p].late => req'[p].sid = req[p].sid
            <4>1. CASE CreateSessionRedis(p)
                <5>1. req[p].at = "sessRedis"  BY <4>1, Guards DEF R
                <5>2. req[p].sid = 0  BY <3>1, <5>1 DEF Route, Bears
                <5> QED  BY <1>0, <5>2
            <4>2. CASE ~CreateSessionRedis(p)  BY <3>1, <4>2 DEF FrameReq
            <4> QED  BY <4>1, <4>2
        <3>4. req[p].o.op \in {"use", "refresh"} => req'[p].tok = req[p].tok
            <4>1. RevokeOtherToken(p) => req[p].at = "signedOut"  BY Guards DEF R
            <4>2. RevokeOtherToken(p) => req[p].o.op = "logout"  BY <3>1, <4>1 DEF Route
            <4> QED  BY <3>1, <4>2 DEF FrameReq
        <3> QED  BY <1>0, <3>2, <3>3, <3>4
    <2> QED  BY <2>1, <2>2, <2>3, StepKinds
<1> QED  BY <1>0, <1>1, <1>2, <1>3 DEF Like

\* The expiry a request read is that of its token.
LEMMA EndKept ==
  ASSUME Kept0, Revoked, NEW p \in Clients, Step(p), NEW q \in Clients,
         req'[q].at \in {"verify", "resolve", "verifyAgain"}, req'[q].tok # 0
  PROVE  req'[q].end = token'[req'[q].tok].end
<1>0. /\ \A o \in Clients : req[o].at \in {"verify", "resolve", "verifyAgain"} /\ req[o].tok # 0 => req[o].end = token[req[o].tok].end
      /\ given \subseteq Toks /\ \A t \in given : token[t].sid # 0
      /\ \A o \in Clients : req[o].tok # 0 => req[o].tok \in given
    BY DEF Revoked, R, Kept0, Handed, TypeOK
<1>1. \A t \in given : token'[t] = token[t]  BY <1>0, TokenSteps
<1>2. CASE q # p
    <2>1. req[q].tok = req'[q].tok /\ req[q].at = req'[q].at /\ req[q].end = req'[q].end
        BY <1>2, StepKinds DEF Beside, Like
    <2> QED  BY <1>0, <1>1, <2>1
<1>3. CASE q = p
    <2>1. CASE Starting(p)
        <3>1. PICK r \in Requests : Begun(p, r, req'[p]) /\ Starts(Head(script[p]), r)  BY <2>1 DEF Starting
        <3> DEFINE o == Head(script[p])
                   s == req'[p]
        <3>2. s.tok = r.tok /\ s.end = r.end /\ s.at = r.at /\ Starts(o, r)  BY <3>1 DEF Begun
        <3> HIDE DEF o, s
        <3>3. s.tok # 0 => s.tok \in given /\ s.end = token[s.tok].end  BY <3>2 DEF Starts
        <3> QED  BY <1>1, <1>3, <3>3 DEF s
    <2>2. CASE req'[p] = Idle  BY <1>3, <2>2 DEF Idle
    <2>3. CASE Onward(p)
        <3>1. FrameReq(p) /\ Path(req[p], req'[p]) /\ Routes /\ TypeOK /\ Handed /\ Owned
            BY <2>3, OnwardFrame DEF Onward, Kept0
        <3>2. req[p].at \in {"verify", "resolve"} /\ req'[p].at # "denied"  BY <1>3, <3>1 DEF Path
        <3>3. Thinking0(p) /\ ~RevokeOtherToken(p)  BY <3>2, Guards DEF R, Thinking0
        <3>4. Hop(p, req[p], req'[p])  BY <3>1, <3>3, AllThink DEF Thinks
        <3>5. req'[p].end = req[p].end  BY <3>2, <3>4 DEF Hop
        <3>6. req'[p].tok = req[p].tok  BY <3>1, <3>3 DEF FrameReq
        <3> QED  BY <1>0, <1>1, <1>3, <3>2, <3>5, <3>6
    <2> QED  BY <2>1, <2>2, <2>3, StepKinds
<1> QED  BY <1>2, <1>3

------------------------------------------------------------------------------
(* Entries, and requests that move on.                                     *)

\* Where requests start; a step that brings one elsewhere moves it on.
Entries == {"idle", "captcha", "verify", "read", "saveState", "hasState"}
\* A step to any other place goes on from the one before.
LEMMA NowOnward ==
  ASSUME Kept0, NEW p \in Clients, Step(p), req'[p].at \notin Entries
  PROVE  Onward(p) /\ FrameReq(p) /\ Path(req[p], req'[p]) /\ Route(req[p]) /\ req'[p].o = req[p].o
<1>1. req'[p] # Idle  BY DEF Idle, Entries
<1>2. ~Starting(p)
    <2>1. SUFFICES ASSUME Starting(p) PROVE FALSE  OBVIOUS
    <2>2. PICK r \in Requests : Begun(p, r, req'[p]) /\ Starts(Head(script[p]), r)  BY <2>1 DEF Starting
    <2>3. req'[p].at \in Entries  BY <2>2 DEF Begun, Starts, Entries
    <2> QED  BY <2>3
<1>3. Onward(p)  BY <1>1, <1>2, StepKinds
<1> QED  BY <1>3, OnwardFrame DEF Onward, Path, Kept0, Routes, R

\* Every step keeps what was revoked that way.
LEMMA RevokedKept ==
  ASSUME Kept0, Revoked, NEW p \in Clients, Step(p), Owned', TypeOK', Handed'
  PROVE  Revoked'
<1>0. /\ \A q \in Clients : req'[q].sid \in Sids \cup {0} /\ req'[q].tok \in Toks \cup {0}
      /\ given \subseteq given'
    <2>1. \A q \in Clients : req'[q] \in Requests
        <3>1. req' \in [Clients -> Requests]  BY DEF TypeOK
        <3> QED  BY <3>1
    <2>2. given \subseteq given'  BY GivenSteps
    <2> QED  BY <2>1, <2>2 DEF Requests
<1>1. \A s \in Known' : Kept(s)'  BY KnownKept
<1>2. ASSUME NEW q \in Clients, Opened(q)', req'[q].at \in {"tokRedis", "tokPg", "clear", "ok"}
      PROVE  Kept(R(q).sid)'
    <2>0. req'[q].sid \in Sids /\ req'[q].o.op \in Issuing  BY <1>0, <1>2 DEF Opened, Is, R
    <2>1. PICK s \in Sids : req'[q].sid = s /\ req'[q].o.op \in Issuing  BY <2>0
    <2>2. Kept(s)'  BY <1>2, <2>1, SignInKept
    <2> QED  BY <2>1, <2>2 DEF Kept, Alive, R
<1>3. seen'.out \subseteq Known' /\ \A s \in seen'.out : Dead(s)'
    <2>1. Known \subseteq Known'
        <3>1. access \subseteq access'  BY GivenSteps
        <3> QED  BY <3>1 DEF Known
    <2> QED  BY <2>1, OutSteps
<1>4. ASSUME NEW q \in Clients, req'[q].at = "signedOut" PROVE Dead(R(q).sid)'
    <2>1. PICK s \in Sids : req'[q].sid = s
        <3>1. Route(req'[q])  BY RoutesKept DEF Routes, R
        <3>2. req'[q].o.op = "logout"  BY <1>4, <3>1 DEF Route
        <3>3. req'[q].sid # 0  BY <3>2 DEF Owned, Bears, R
        <3> QED  BY <1>0, <3>3
    <2>2. Dead(s)'  BY <1>4, <2>1, SignedOutKept
    <2> QED  BY <2>1, <2>2 DEF Dead, Alive, R
<1>5. seen'.outTok \subseteq given' /\ \A t \in seen'.outTok : Gone(t)'  BY <1>0, OutTokSteps
<1>6. ASSUME NEW q \in Clients, req'[q].at = "revoked" PROVE Gone(R(q).tok)'
    <2>1. PICK t \in Toks : req'[q].tok = t
        <3>1. Carries(req'[q])  BY DEF Handed, R
        <3> QED  BY <1>0, <1>6, <3>1 DEF Carries
    <2>2. Gone(t)'  BY <1>6, <2>1, TokenRevokedKept
    <2> QED  BY <2>1, <2>2 DEF Gone, Alive, R
<1>7. \A q \in Clients : req'[q].late => req'[q].sid \in seen'.out  BY LateKept
<1>8. \A q \in Clients : req'[q].spent /\ req'[q].o.op \in {"use", "refresh"} => req'[q].tok \in seen'.outTok  BY LateKept
<1>9. \A q \in Clients : req'[q].at \in {"verify", "resolve", "verifyAgain"} /\ req'[q].tok # 0 => req'[q].end = token'[req'[q].tok].end
    BY EndKept
<1>10. \A q \in Clients : req'[q].o.op \in {"use", "refresh"} /\ req'[q].at \in Verified =>
          (req'[q].late => ~(now' < session'[req'[q].sid].end)) /\ ~req'[q].spent
    BY VerifiedKept
<1> QED  BY <1>1, <1>2, <1>3, <1>4, <1>5, <1>6, <1>7, <1>8, <1>9, <1>10 DEF Revoked, Is, R, Alive

\* What the clock, the outages and the cleanup leave of it.
LEMMA EnvironmentRevoked ==
  ASSUME TypeOK, Routes, Handed, Owned, Revoked, Environment
  PROVE  Revoked'
<1>0. /\ UNCHANGED <<redisOn, session, token, users, identity, script, req, access, given, states>>
      /\ now \in Nat /\ now' \in Nat /\ now <= now' /\ Known' = Known /\ Known \subseteq Sids
      /\ pg \in PgStates(Claims, States) /\ pg.sess \in [Sids -> [end : Nat, revoked : BOOLEAN]] /\ pg.revT \subseteq Toks
      /\ session \in [Sids -> TokenSessions] /\ token \in [Toks -> RefreshTokenRecords] /\ seen \in Histories
    BY EnvironmentEffect, KnownIn DEF TypeOK, StoreTypeOK, PgStates, Known
<1>1. seen'.out = seen.out /\ seen'.outTok = seen.outTok
    BY <1>0, EnvironmentEffect DEF CleanSeen, Histories
<1>2. ASSUME NEW s \in Sids PROVE session[s].end \in Nat /\ (Alive(session[s].end)' => Alive(session[s].end))
    <2>1. session[s].end \in Nat  BY <1>0 DEF TokenSessions
    <2> QED  BY <1>0, <2>1 DEF Alive
<1>3. ASSUME NEW t \in Toks PROVE Alive(token[t].end)' => Alive(token[t].end)
    <2>1. token[t].end \in Nat  BY <1>0 DEF RefreshTokenRecords
    <2> QED  BY <1>0, <2>1 DEF Alive
<1>4. ASSUME NEW s \in Sids, Kept(s) PROVE Kept(s)' /\ (Dead(s) => Dead(s)')
    <2>1. session[s].end \in Nat /\ pg.sess[s].end \in Nat  BY <1>0, <1>2
    <2>2. Alive(session[s].end)' => pg'.sess[s] = pg.sess[s]
        <3>1. CASE pg' = pg  BY <3>1
        <3>2. CASE pg' = Expired(pg) /\ now' = now
            <4>1. pg'.sess = [x \in Sids |-> IF Alive(pg.sess[x].end) THEN pg.sess[x] ELSE [end |-> 0, revoked |-> FALSE]]
                BY <1>0, <3>2, ExpiredIs
            <4>2. Alive(session[s].end)' => Alive(pg.sess[s].end)  BY <1>0, <1>2, <1>4, <2>1 DEF Kept, Alive
            <4> QED  BY <4>1, <4>2
        <3> QED  BY <3>1, <3>2, EnvironmentEffect
    <2>3. Alive(session[s].end)' => Alive(session[s].end)  BY <1>2
    <2> QED  BY <1>0, <1>4, <2>1, <2>2, <2>3 DEF Kept, Dead
<1>5. ASSUME NEW t \in Toks, Gone(t) PROVE Gone(t)'
    <2>0. Alive(token[t].end)' => Alive(token[t].end)  BY <1>3
    <2>1. CASE pg' = pg  BY <1>0, <1>5, <2>0, <2>1 DEF Gone
    <2>2. CASE pg' = Expired(pg) /\ now' = now
        <3>1. pg'.revT = {x \in pg.revT : Alive(token[x].end)}  BY <1>0, <2>2, ExpiredIs
        <3> QED  BY <1>0, <1>5, <2>0, <2>2, <3>1 DEF Gone, Alive
    <2> QED  BY <2>1, <2>2, EnvironmentEffect
<1>6. /\ \A q \in Clients : req[q].sid \in Sids \cup {0} /\ req[q].tok \in Toks \cup {0}
    BY DEF TypeOK, Requests
<1>7. \A s \in Known : Kept(s)'  BY <1>0, <1>4 DEF Revoked
<1>8. ASSUME NEW q \in Clients, Opened(q), req[q].at \in {"tokRedis", "tokPg", "clear", "ok"} PROVE Kept(req[q].sid)'
    <2>1. PICK s \in Sids : req[q].sid = s  BY <1>6, <1>8 DEF Opened, R
    <2>2. Kept(s)  BY <1>8, <2>1 DEF Revoked, R
    <2>3. Kept(s)'  BY <1>4, <2>2
    <2> QED  BY <1>0, <2>1, <2>3 DEF Kept, Alive
<1>9. \A s \in seen.out : Dead(s)'  BY <1>0, <1>4 DEF Revoked
<1>10. ASSUME NEW q \in Clients, req[q].at = "signedOut" PROVE Dead(req[q].sid)'
    <2>1. req[q].o.op = "logout" /\ req[q].sid # 0  BY <1>10 DEF Routes, Route, Owned, Bears, R
    <2>2. req[q].sid \in Known  BY <2>1 DEF Owned, Is, Issuing, R
    <2> QED  BY <1>0, <1>4, <1>10, <2>2 DEF Revoked, R
<1>11. seen.outTok \subseteq given /\ given \subseteq Toks /\ \A t \in seen.outTok : Gone(t)'
    BY <1>5 DEF Revoked, TypeOK
<1>12. ASSUME NEW q \in Clients, req[q].at = "revoked" PROVE Gone(req[q].tok)'
    <2>1. PICK t \in Toks : req[q].tok = t  BY <1>6, <1>12 DEF Handed, Carries, R
    <2>2. Gone(t)'  BY <1>5, <1>12, <2>1 DEF Revoked, R
    <2> QED  BY <1>0, <2>1, <2>2 DEF Gone, Alive
<1>13. ASSUME NEW q \in Clients, req[q].o.op \in {"use", "refresh"}, req[q].at \in Verified
       PROVE  (req[q].late => ~Alive(session[req[q].sid].end)') /\ ~req[q].spent
    <2>1. PICK s \in Sids : req[q].sid = s  BY <1>6, <1>13 DEF Owned, Bears, R
    <2>2. Alive(session[s].end)' => Alive(session[s].end)  BY <1>2
    <2> QED  BY <1>0, <1>13, <2>1, <2>2 DEF Revoked, Is, R, Alive
<1> QED  BY <1>0, <1>1, <1>7, <1>8, <1>9, <1>10, <1>11, <1>12, <1>13 DEF Revoked, Opened, Is, R, Kept, Dead, Gone, Alive

------------------------------------------------------------------------------
(* Accounts: what a change leaves of them.                                 *)

\* The changes that are not meant to open the account, nor to drop the second factor, do neither.
LEMMA ChangedKeeps ==
  ASSUME NEW o \in Operations, NEW row \in Rows,
         o.op \in Changing \ {"enableMFA", "disableMFA", "adminReset"}, o.op = "update" => o.status # Active
  PROVE  /\ Changed(o, row).status = Active => row.status = Active
         /\ row.mfa => Changed(o, row).mfa
<1>1. CASE o.op = "update"
    <2>1. Changed(o, row) = UpdateUser(o, row)  BY <1>1 DEF Changed
    <2> QED  BY <1>1, <2>1 DEF UpdateUser, NormalizeStatus, Rows, Disabled, Active
<1>2. CASE o.op = "updateCurrent"
    <2>1. Changed(o, row) = UpdateCurrent(o, row)  BY <1>2 DEF Changed
    <2> QED  BY <2>1 DEF UpdateCurrent, Rows
<1>3. CASE o.op = "updatePassword"
    <2>1. Changed(o, row) = UpdateCurrentPassword(o, row)  BY <1>3 DEF Changed
    <2> QED  BY <2>1 DEF UpdateCurrentPassword, Rows
<1>4. CASE o.op = "confirmMFA"
    <2>1. Changed(o, row) = ConfirmMFA(row)  BY <1>4 DEF Changed
    <2> QED  BY <2>1 DEF ConfirmMFA, Rows
<1> QED  BY <1>1, <1>2, <1>3, <1>4 DEF Changing

\* A row put back is the one it was made from.
LEMMA BackIs ==
  ASSUME NEW f, NEW to \in Rows, to = [f EXCEPT !.there = TRUE]
  PROVE  to.there /\ to.status = f.status /\ to.mfa = f.mfa
<1>1. DOMAIN to = {"there", "status", "password", "mfa", "secret", "nickname"}  BY DEF Rows
<1>2. to = [x \in DOMAIN f |-> IF x = "there" THEN TRUE ELSE f[x]]  OBVIOUS
<1>3. DOMAIN f = DOMAIN to  BY <1>2
<1>4. "there" \in DOMAIN f /\ "status" \in DOMAIN f /\ "mfa" \in DOMAIN f  BY <1>1, <1>3
<1>5. to["there"] = TRUE  BY <1>2, <1>4
<1>6. to["status"] = f["status"]  BY <1>2, <1>4
<1>7. to["mfa"] = f["mfa"]  BY <1>2, <1>4
<1> QED  BY <1>5, <1>6, <1>7

\* What is left of a promise about the row when p writes its copy of it.
LEMMA UndoneSays ==
  ASSUME NEW p, R(p).o \in Operations, R(p).o.op \in Changing, R(p).row \in Rows,
         NEW to \in Rows, to = [Changed(R(p).o, R(p).row) EXCEPT !.there = TRUE],
         NEW what \in SUBSET {"shut", "mfa"}, R(p).same => R(p).row.there /\ Says(R(p).row, what)
  PROVE  Says(to, what \ Undone(p, to))
<1> DEFINE o == R(p).o
           row == R(p).row
           new == Changed(o, row)
<1>1. to.there /\ to.status = new.status /\ to.mfa = new.mfa  BY BackIs
<1>2. CASE ~R(p).same \/ o.op \in {"enableMFA", "disableMFA", "adminReset"} \/ (o.op = "update" /\ o.status = Active)
    <2>1. Undone(p, to) = (IF to.there /\ to.status = Active THEN {"shut"} ELSE {}) \cup (IF ~to.mfa THEN {"mfa"} ELSE {})
        BY <1>2 DEF Undone
    <2> QED  BY <2>1 DEF Says, Serves
<1>3. CASE ~(~R(p).same \/ o.op \in {"enableMFA", "disableMFA", "adminReset"} \/ (o.op = "update" /\ o.status = Active))
    <2>1. new.status = Active => row.status = Active  BY <1>3, ChangedKeeps
    <2>2. row.mfa => new.mfa  BY <1>3, ChangedKeeps
    <2>3. row.there /\ Says(row, what)  BY <1>3
    <2>4. Undone(p, to) = {}  BY <1>3 DEF Undone
    <2> HIDE DEF new, row
    <2> QED  BY <1>1, <2>1, <2>2, <2>3, <2>4 DEF Says, Serves
<1> QED  BY <1>2, <1>3

------------------------------------------------------------------------------
(* Accounts: what a write of a row leaves of what others read and were told. *)

\* What is known of accounts and of what requests were told.
Accounted == Promised /\ Copied /\ Unborn

\* The write of another request leaves of one what it was, but unsettles what it has read.
LEMMA RewrittenHonest ==
  ASSUME NEW r, NEW s, NEW us, NEW vs, NEW id, NEW u, NEW gone, Honest(us, id, r), Like(r, s), s.at = r.at,
         s.told = IF r.user = u THEN r.told \ gone ELSE r.told,
         \A w \in Users \ {u} : vs[w] = us[w], r.user \in Users \cup {NoUser},
         u # NoUser /\ (r.user = u => Says(vs[u], r.told \ gone))
  PROVE  Honest(vs, id, s)
<1>1. IF s.user = NoUser THEN s.told = {} ELSE Says(vs[s.user], s.told)
    <2>1. CASE r.user = NoUser  BY <2>1 DEF Honest, Like
    <2>2. CASE r.user = u /\ r.user # NoUser  BY <2>2 DEF Like
    <2>3. CASE r.user # u /\ r.user # NoUser
        <3>1. vs[r.user] = us[r.user]  BY <2>3
        <3> QED  BY <2>3, <3>1 DEF Honest, Like
    <2> QED  BY <2>1, <2>2, <2>3
<1>2. Vetted(s) <=> Vetted(r)  BY DEF Vetted, Like
<1>3. Coded(s) <=> Coded(r)  BY DEF Coded, Like
<1>4. "shut" \in s.told => "shut" \in r.told  OBVIOUS
<1>5. "mfa" \in s.told => "mfa" \in r.told  OBVIOUS
<1> QED  BY <1>1, <1>2, <1>3, <1>4, <1>5 DEF Honest, Like

\* The account of a request on an account, once it has read the row, exists.
LEMMA ReadIsLocal ==
  ASSUME TypeOK, Routes, Unborn, identity = NoUser, NEW p \in Clients, ReadBy(R(p))
  PROVE  R(p).user = Local
<1>1. R(p).at # "idle"  BY DEF ReadBy, Routes, Route, Idle, NoOp, Account, Changing
<1>2. R(p).user \in Users
    <2>1. R(p).user = R(p).o.user /\ R(p).o \in Operations  BY <1>1 DEF Routes, Route, ReadBy
    <2> QED  BY <2>1 DEF Operations
<1> QED  BY <1>2 DEF Unborn

\* Whatever a write of the row makes of it, promises still hold after it.
LEMMA RewriteKeeps ==
  ASSUME Kept0, Accounted, NEW p \in Clients, NEW u \in Users, u = R(p).user, NEW gone, NEW row \in Rows,
         Rewritten(p, u, gone), ReadBy(R(p)), R(p).o.op \in Account, req'[p].at \in {"ok", "denied"},
         users' = [users EXCEPT ![u] = row], identity' = identity,
         seen'.promised = [seen.promised EXCEPT ![u] = @ \ gone],
         \A what \in SUBSET {"shut", "mfa"} : Says(users[u], what) => Says(row, what \ gone)
  PROVE  Accounted'
<1>0. /\ users \in [Users -> Rows] /\ seen.promised \in [Users -> SUBSET {"shut", "mfa"}] /\ TypeOK /\ u # NoUser
      /\ \A q \in Clients : req[q].told \in SUBSET {"shut", "mfa"} /\ req[q].user \in Users \cup {NoUser}
    BY AuthStoreAssumption DEF Kept0, TypeOK, AccountsTypeOK, Histories, Requests
<1>1. Promised'
    <2>1. \A w \in Users : Says(users'[w], seen'.promised[w])
        BY <1>0 DEF Accounted, Promised
    <2>2. ASSUME NEW q \in Clients PROVE Honest(users', identity', req'[q])
        <3>1. Honest(users, identity, req[q])  BY DEF Accounted, Promised, R
        <3>2. req[q].user = u => Says(users'[u], req[q].told \ gone)  BY <1>0, <3>1 DEF Honest
        <3>3. \A w \in Users \ {u} : users'[w] = users[w]  BY <1>0
        <3>4. Like(req[q], req'[q]) /\ req'[q].told = IF req[q].user = u THEN req[q].told \ gone ELSE req[q].told
            BY DEF Rewritten
        <3>5. CASE q # p
            <4>1. req'[q].at = req[q].at  BY <3>5 DEF Rewritten
            <4> DEFINE r == req[q]
                       s == req'[q]
                       vs == users'
            <4>2. /\ Honest(users, identity, r) /\ Like(r, s) /\ s.at = r.at
                  /\ s.told = IF r.user = u THEN r.told \ gone ELSE r.told
                  /\ r.user \in Users \cup {NoUser} /\ (r.user = u => Says(vs[u], r.told \ gone))
                  /\ \A w \in Users \ {u} : vs[w] = users[w]
                BY <1>0, <3>1, <3>2, <3>3, <3>4, <4>1
            <4> HIDE DEF r, s, vs
            <4>3. Honest(vs, identity, s)  BY <1>0, <4>2, RewrittenHonest
            <4> QED  BY <4>3 DEF s, vs
        <3>6. CASE q = p
            <4>1. req'[p].o.op \in Account /\ req'[p].user = u  BY <3>4, <3>6 DEF Like, R
            <4>2. ~Vetted(req'[p]) /\ ~Coded(req'[p])  BY <4>1 DEF Vetted, Coded, Issuing, Account, Changing
            <4>3. Says(users'[u], req'[p].told)  BY <3>2, <3>4, <3>6 DEF R
            <4>4. req'[p].o.op # "oidcCallback" /\ req'[p].user # NoUser  BY <1>0, <4>1 DEF Account, Changing
            <4>5. Says(users'[req'[p].user], req'[p].told)  BY <4>1, <4>3
            <4> QED  BY <3>6, <4>2, <4>4, <4>5 DEF Honest
        <3> QED  BY <3>5, <3>6
    <2> QED  BY <2>1, <2>2 DEF Promised, R
<1>2. Copied'
    <2>1. ASSUME NEW q \in Clients PROVE Fresh(users', req'[q])
        <3>1. Fresh(users, req[q])  BY DEF Accounted, Copied, R
        <3>2. CASE q = p  BY <3>2 DEF Fresh, ReadBy
        <3>3. CASE q # p
            <4>1. /\ Like(req[q], req'[q]) /\ req'[q].at = req[q].at
                  /\ req'[q].same => req[q].same /\ req[q].user # u
                BY <3>3 DEF Rewritten
            <4>2. ASSUME ReadBy(req'[q]), req'[q].same, req'[q].at # "ok", req'[q].at # "failed"
                  PROVE  req'[q].row = users'[req'[q].user] /\ req'[q].row.there
                <5>1. req[q].user # u /\ req[q].row = users[req[q].user] /\ req[q].row.there
                    BY <3>1, <4>1, <4>2 DEF Fresh, ReadBy, Like
                <5>2. req[q].user \in Users
                    <6>1. req[q].at # "idle" /\ R(q).o.op \in Account
                        BY <4>1, <4>2 DEF Kept0, Routes, Route, R, ReadBy, Like, Idle, NoOp, Account, Changing
                    <6> QED  BY <6>1, Named DEF Kept0, R
                <5> QED  BY <1>0, <4>1, <5>1, <5>2 DEF Like
            <4> QED  BY <4>2 DEF Fresh
        <3> QED  BY <3>2, <3>3
    <2> QED  BY <2>1 DEF Copied, R
<1>3. Unborn'
    <2>1. SUFFICES ASSUME identity = NoUser, NEW w \in Users \ {Local}
                   PROVE  /\ ~users'[w].there /\ seen'.promised[w] = {}
                          /\ \A q \in Clients : req'[q].user = w => ~ReadBy(req'[q]) /\ req'[q].told = {}
        BY DEF Unborn, R
    <2>2. u = Local  BY <2>1, ReadIsLocal DEF Kept0, Accounted
    <2>3. ~users'[w].there /\ seen'.promised[w] = {}  BY <1>0, <2>1, <2>2 DEF Accounted, Unborn
    <2>4. ASSUME NEW q \in Clients, req'[q].user = w PROVE ~ReadBy(req'[q]) /\ req'[q].told = {}
        <3>1. req[q].user = w  BY <2>4 DEF Rewritten, Like
        <3>2. q # p  BY <2>1, <2>2, <3>1 DEF R
        <3>3. req'[q] = req[q]  BY <2>1, <2>2, <3>1, <3>2 DEF Rewritten
        <3> QED  BY <2>1, <3>1, <3>3 DEF Accounted, Unborn, R
    <2> QED  BY <2>3, <2>4
<1> QED  BY <1>1, <1>2, <1>3 DEF Accounted

\* A write of the row keeps what is known of accounts.
LEMMA WriteKeeps ==
  ASSUME Kept0, Accounted, NEW p \in Clients, SaveUser(p) \/ DeleteUser(p)
  PROVE  Accounted'
<1>0. TypeOK /\ seen \in Histories /\ users \in [Users -> Rows]
    BY DEF Kept0, TypeOK, AccountsTypeOK
<1>1. R(p).at \in {"save", "delete"} /\ R(p).o \in Operations /\ R(p).row \in Rows /\ R(p).user \in Users /\ ReadBy(R(p))
      /\ (R(p).at = "save" => R(p).o.op \in Changing) /\ R(p).o.op \in Account
    <2>1. R(p).at \in {"save", "delete"}  BY DEF SaveUser, DeleteUser, At, R
    <2>2. R(p).o.op \in Account /\ (R(p).at = "save" => R(p).o.op \in Changing)  BY <2>1 DEF Kept0, Routes, Route, Account
    <2> QED  BY <2>1, <2>2, Named DEF Kept0, ReadBy
<1>2. CASE SaveUser(p)
    <2> DEFINE u == R(p).user
    <2>1. PICK new, gone :
            /\ new = Changed(R(p).o, R(p).row) /\ gone = Undone(p, [new EXCEPT !.there = TRUE])
            /\ Rewritten(p, u, gone) /\ R(p).at = "save" /\ req'[p].at = "ok"
            /\ users' = Save(u, new) /\ seen' = [seen EXCEPT !.promised[u] = @ \ gone] /\ identity' = identity
        BY <1>0, <1>2, SaveUserEffect
    <2> DEFINE to == [new EXCEPT !.there = TRUE]
    <2>2. to \in Rows  BY <1>1, <2>1, ChangedTyped
    <2>3. users' = [users EXCEPT ![u] = to]  BY <2>1 DEF Save
    <2>4. seen'.promised = [seen.promised EXCEPT ![u] = @ \ gone]  BY <1>0, <2>1 DEF Histories
    <2>5. gone = Undone(p, to) /\ to = [Changed(R(p).o, R(p).row) EXCEPT !.there = TRUE]  BY <2>1
    <2>6. R(p).same => R(p).row = users[u] /\ R(p).row.there
        BY <1>1, <2>1 DEF Accounted, Copied, Fresh
    <2> HIDE DEF to
    <2>7. ASSUME NEW what \in SUBSET {"shut", "mfa"}, Says(users[u], what) PROVE Says(to, what \ gone)
        BY <1>1, <2>1, <2>2, <2>5, <2>6, <2>7, UndoneSays
    <2> QED  BY <1>1, <2>1, <2>2, <2>3, <2>4, <2>7, RewriteKeeps
<1>3. CASE DeleteUser(p)
    <2> DEFINE u == R(p).user
               to == [users[u] EXCEPT !.there = FALSE]
    <2>1. /\ Rewritten(p, u, {}) /\ users' = Deleted(u) /\ req'[p].at \in {"ok", "denied"}
          /\ identity' = identity /\ seen' = seen
        BY <1>0, <1>3, DeleteUserEffect
    <2>2. to \in Rows /\ ~to.there /\ to.mfa = users[u].mfa  BY <1>0, <1>1 DEF Rows
    <2>3. users' = [users EXCEPT ![u] = to]  BY <1>0, <1>1, <2>1 DEF Deleted
    <2>4. seen'.promised = [seen.promised EXCEPT ![u] = @ \ {}]  BY <1>0, <1>1, <2>1 DEF Histories
    <2> HIDE DEF to
    <2>5. ASSUME NEW what \in SUBSET {"shut", "mfa"}, Says(users[u], what) PROVE Says(to, what \ {})
        BY <2>2, <2>5 DEF Says, Serves
    <2> QED  BY <1>1, <2>1, <2>2, <2>3, <2>4, <2>5, RewriteKeeps
<1> QED  BY <1>2, <1>3

------------------------------------------------------------------------------
(* Accounts: starts, ends and creations.                                   *)

\* An idle client was told nothing.
LEMMA IdleHonest == ASSUME NEW us, NEW id PROVE Honest(us, id, Idle) /\ Fresh(us, Idle) /\ ~ReadBy(Idle) /\ Idle.told = {}
BY DEF Honest, Fresh, ReadBy, Vetted, Coded, Idle, NoOp, Account, Changing, Issuing

\* A step that changes no row, and of the requests only its own.
LEMMA OneChanges ==
  ASSUME Accounted, NEW p \in Clients, Alone(p), UNCHANGED <<users, identity>>,
         \A u \in Users : Says(users[u], seen'.promised[u]),
         Honest(users, identity, req'[p]), Fresh(users, req'[p]),
         identity = NoUser => \A u \in Users \ {Local} :
            seen'.promised[u] = {} /\ (req'[p].user = u => ~ReadBy(req'[p]) /\ req'[p].told = {})
  PROVE  Accounted'
<1>1. ASSUME NEW q \in Clients PROVE Honest(users, identity, req'[q]) /\ Fresh(users, req'[q])
    BY <1>1 DEF Alone, Accounted, Promised, Copied, R
<1>2. ASSUME NEW q \in Clients, NEW u \in Users \ {Local}, identity = NoUser, req'[q].user = u
      PROVE  ~ReadBy(req'[q]) /\ req'[q].told = {}
    BY <1>2 DEF Alone, Accounted, Unborn, R
<1> QED  BY <1>1, <1>2 DEF Accounted, Promised, Copied, Unborn, R

\* The start of a request keeps what is known of accounts.
LEMMA StartAccounted ==
  ASSUME Kept0, Accounted, NEW p \in Clients, Start(p)
  PROVE  Accounted'
<1>1. PICK r \in Requests : Begin(p, r) /\ Starts(Head(script[p]), r)  BY StartEffect DEF Kept0
<1>2. /\ Alone(p) /\ Begun(p, r, req'[p]) /\ UNCHANGED <<users, identity, seen>>
      /\ Head(script[p]) \in Operations
    BY <1>1, BeginEffect DEF Kept0
<1> DEFINE s == req'[p]
<1>3. /\ s.o = Head(script[p]) /\ s.user = r.user /\ s.at = r.at
      /\ s.told = (IF r.user = NoUser THEN {} ELSE seen.promised[r.user])
      /\ r.user \in Users \cup {NoUser} /\ Starts(s.o, r)
    BY <1>1, <1>2 DEF Begun, Requests
<1> HIDE DEF s
<1>4. s.at \in {"captcha", "verify", "read", "saveState", "hasState"} /\ (s.o.op = "oidcCallback" => s.user = identity)
    BY <1>3 DEF Starts, Account, Changing
<1>5. ~Vetted(s) /\ ~Coded(s) /\ ~ReadBy(s)
    <2>1. s.o.op \in Account => s.at = "read"  BY <1>3 DEF Starts, Account, Changing
    <2> QED  BY <1>4, <2>1 DEF Vetted, Coded, ReadBy, Verified
<1>6. IF s.user = NoUser THEN s.told = {} ELSE Says(users[s.user], s.told)
    BY <1>3 DEF Accounted, Promised
<1>7. Honest(users, identity, s) /\ Fresh(users, s)  BY <1>4, <1>5, <1>6 DEF Honest, Fresh
<1>8. identity = NoUser => \A u \in Users \ {Local} :
            seen'.promised[u] = {} /\ (s.user = u => ~ReadBy(s) /\ s.told = {})
    BY <1>2, <1>3, <1>5, AuthStoreAssumption DEF Accounted, Unborn
<1> QED  BY <1>2, <1>7, <1>8, OneChanges DEF s, Accounted, Promised

\* So does its end: what it was told is promised.
LEMMA EndAccounted ==
  ASSUME Kept0, Accounted, NEW p \in Clients, Answer(p) \/ Refuse(p)
  PROVE  Accounted'
<1>0. TypeOK /\ seen \in Histories  BY DEF Kept0, TypeOK
<1>1. Alone(p) /\ req'[p] = Idle /\ UNCHANGED <<users, identity>>
    BY <1>0, AnswerEffect, RefuseEffect DEF Around
<1>2. CASE Refuse(p)
    <2>1. seen'.promised = seen.promised
        <3>1. PICK f : seen' = seen \/ seen' = [seen EXCEPT !.lock = f]  BY <1>0, <1>2, RefuseEffect
        <3> QED  BY <1>0, <3>1 DEF Histories
    <2> QED  BY <1>1, <2>1, IdleHonest, OneChanges DEF Accounted, Promised, Unborn
<1>3. CASE Answer(p)
    <2> DEFINE r == R(p)
    <2>1. /\ r.at \in {"ok", "revoked"}
          /\ seen'.promised = IF Promises(r) = {} THEN seen.promised
                              ELSE [seen.promised EXCEPT ![r.user] = @ \cup (Promises(r) \cap StillSo(r.user))]
        BY <1>0, <1>3, AnswerEffect
    <2>2. CASE Promises(r) = {}
        BY <1>1, <2>1, <2>2, IdleHonest, OneChanges DEF Accounted, Promised, Unborn
    <2>3. CASE Promises(r) # {}
        <3>1. r.o.op \in {"delete", "update", "confirmMFA"}  BY <2>3 DEF Promises
        <3>2. ReadBy(r) /\ r.user \in Users
            <4>1. r.o.op \in Account  BY <3>1 DEF Account, Changing
            <4> QED  BY <2>1, <4>1, Named DEF Kept0, ReadBy
        <3>3. seen.promised \in [Users -> SUBSET {"shut", "mfa"}]  BY <1>0 DEF Histories
        <3> DEFINE new == Promises(r) \cap StillSo(r.user)
        <3>6. seen'.promised = [seen.promised EXCEPT ![r.user] = @ \cup new] /\ new \subseteq StillSo(r.user)
            BY <2>1, <2>3
        <3> HIDE DEF new, r
        <3>4. ASSUME NEW u \in Users PROVE Says(users[u], seen'.promised[u])
            <4>1. Says(users[u], seen.promised[u])  BY DEF Accounted, Promised
            <4>2. Says(users[u], StillSo(u))  BY DEF Says, Serves, StillSo, Enabled
            <4>3. seen'.promised[u] \subseteq seen.promised[u] \cup StillSo(u)  BY <3>2, <3>3, <3>6
            <4> QED  BY <4>1, <4>2, <4>3 DEF Says
        <3>5. identity = NoUser => \A u \in Users \ {Local} : seen'.promised[u] = {}
            <4>1. identity = NoUser => r.user = Local  BY <1>0, <3>2, ReadIsLocal DEF Kept0, Accounted, r
            <4> QED  BY <3>2, <3>3, <3>6, <4>1 DEF Accounted, Unborn
        <3> QED  BY <1>1, <3>4, <3>5, IdleHonest, OneChanges
    <2> QED  BY <2>2, <2>3
<1> QED  BY <1>2, <1>3

\* So does the first federated sign-in, that creates the account.
LEMMA CreateAccounted ==
  ASSUME Kept0, Accounted, NEW p \in Clients, CreateUser(p), users' # users \/ identity' # identity
  PROVE  Accounted'
<1>0. /\ TypeOK /\ users \in [Users -> Rows] /\ Free \in Users \ {Local} /\ NoUser \notin Users
      /\ \A q \in Clients : req[q].user \in Users \cup {NoUser}
    BY FreeIs, AuthStoreAssumption DEF Kept0, TypeOK, AccountsTypeOK, Requests
<1>1. /\ identity = NoUser /\ ~users[Free].there /\ identity' = Free /\ seen' = seen
      /\ users' = [users EXCEPT ![Free] = NewRow("opaque")]
      /\ req'[p].user = Free /\ req'[p].at = "sessRedis"
      /\ Alone(p) /\ req'[p].o = req[p].o /\ req'[p].told = req[p].told
    BY <1>0, CreateUserEffect DEF Fixed, Asked
<1>2. req[p].o.op = "oidcCallback"
    <2>1. R(p).at = "createUser"  BY DEF CreateUser, At, R
    <2> QED  BY <2>1 DEF Kept0, Routes, Route, R
<1>3. req[p].user = NoUser /\ req[p].told = {}
    BY <1>0, <1>1, <1>2 DEF Accounted, Promised, Honest, R
<1>4. \A q \in Clients : req[q].user = Free => ~ReadBy(req[q]) /\ req[q].told = {}
    BY <1>0, <1>1 DEF Accounted, Unborn, R
<1>5. \A u \in Users \ {Free} : users'[u] = users[u]  BY <1>0, <1>1
<1>6. ASSUME NEW u \in Users PROVE Says(users'[u], seen'.promised[u])
    <2>1. CASE u = Free  BY <1>0, <1>1, <2>1 DEF Accounted, Unborn, Says
    <2>2. CASE u # Free  BY <1>1, <1>5, <2>2 DEF Accounted, Promised
    <2> QED  BY <2>1, <2>2
<1>7. ASSUME NEW q \in Clients PROVE Honest(users', identity', req'[q]) /\ Fresh(users', req'[q])
    <2>1. CASE q = p
        <3>1. req'[p].told = {} /\ req'[p].user = identity' /\ req'[p].o.op = "oidcCallback" /\ req'[p].user # NoUser
            BY <1>0, <1>1, <1>2, <1>3
        <3>2. ~ReadBy(req'[p])  BY <3>1 DEF ReadBy, Account, Changing
        <3> QED  BY <2>1, <3>1, <3>2 DEF Honest, Fresh, Says
    <2>2. CASE q # p
        <3>1. req'[q] = req[q] /\ Honest(users, identity, req[q]) /\ Fresh(users, req[q])
            BY <1>1, <2>2 DEF Alone, Accounted, Promised, Copied, R
        <3>2. IF req[q].user = NoUser THEN req[q].told = {} ELSE Says(users'[req[q].user], req[q].told)
            <4>1. CASE req[q].user = Free  BY <1>0, <1>4, <4>1 DEF Says
            <4>2. CASE req[q].user # Free  BY <1>0, <1>5, <3>1, <4>2 DEF Honest
            <4> QED  BY <4>1, <4>2
        <3>3. req[q].o.op = "oidcCallback" => req[q].user = NoUser  BY <1>1, <3>1 DEF Honest
        <3>4. Fresh(users', req[q])
            <4>1. CASE req[q].user = Free  BY <1>4, <4>1 DEF Fresh
            <4>2. CASE req[q].user # Free
                <5>1. ReadBy(req[q]) => req[q].user \in Users
                    <6>1. ReadBy(req[q]) => R(q).at # "idle" /\ R(q).o.op \in Account
                        BY DEF Kept0, Routes, Route, R, ReadBy, Idle, NoOp, Account, Changing
                    <6> QED  BY <6>1, Named DEF Kept0, R
                <5> QED  BY <1>5, <3>1, <4>2, <5>1 DEF Fresh
            <4> QED  BY <4>1, <4>2
        <3> QED  BY <3>1, <3>2, <3>3, <3>4 DEF Honest
    <2> QED  BY <2>1, <2>2
<1> QED  BY <1>0, <1>1, <1>6, <1>7 DEF Accounted, Promised, Copied, Unborn, R

------------------------------------------------------------------------------
(* Accounts: where an allowed request comes from.                          *)

\* Only a write of the row touches another request.
LEMMA StepAlone ==
  ASSUME Kept0, NEW p \in Clients, Step(p), ~SaveUser(p), ~DeleteUser(p)
  PROVE  Alone(p)
<1>0. TypeOK /\ Handed /\ Routes  BY DEF Kept0
<1>1. CASE Thinking0(p)  BY <1>1, AllThink DEF Kept0, Thinks
<1>2. CASE Answer(p) \/ Refuse(p)  BY <1>0, <1>2, AnswerEffect, RefuseEffect
<1>3. CASE Start(p)
    <2>1. PICK r \in Requests : Begin(p, r)  BY <1>0, <1>3, StartEffect
    <2> QED  BY <1>0, <2>1, BeginEffect
<1>4. CASE Rotate(p) \/ RevokeSessionPg(p) \/ RevokeOtherToken(p) \/ RevokeTokenPg(p) \/ RevokeAllPg(p)
    BY <1>0, <1>4, RotateEffect, RevokeSessionPgEffect, RevokeOtherTokenEffect, RevokeTokenPgEffect, RevokeAllPgEffect
       DEF Steps, Went, Fixed
<1>5. CASE ClaimOnce(p)
    <2>1. R(p).at # "idle"  BY <1>5 DEF ClaimOnce, At, R
    <2>2. R(p).o \in Operations  BY <1>0, <2>1 DEF Routes, Route
    <2> QED  BY <1>0, <1>5, <2>2, ClaimOnceEffect DEF Steps, Went
<1>6. CASE CountFailurePg(p) \/ CountFailureRedis(p) \/ CreateSessionRedis(p) \/ CreateSessionPg(p) \/ StoreTokenRedis(p) \/ StoreTokenPg(p)
    BY <1>0, <1>6, CountFailurePgEffect, CountFailureRedisEffect, CreateSessionRedisEffect, CreateSessionPgEffect,
       StoreTokenRedisEffect, StoreTokenPgEffect DEF Steps, Went, Fixed
<1>7. CASE ClearFailures(p) \/ LoginURL(p) \/ ConsumeState(p) \/ FindUser(p) \/ CreateUser(p)
    BY <1>0, <1>7, ClearFailuresEffect, LoginURLEffect, ConsumeStateEffect, FindUserEffect, CreateUserEffect DEF Steps, Went, Fixed
<1> QED  BY <1>1, <1>2, <1>3, <1>4, <1>5, <1>6, <1>7 DEF Step, Thinking0

\* Where a request comes from that was found to be allowed.
LEMMA VettedFrom ==
  ASSUME NEW r, NEW s, Path(r, s), Route(r), Vetted(s)
  PROVE  \/ Vetted(r) \/ r.at = "resolve" \/ (r.at = "user" /\ r.o.op = "login" /\ s.at \in {"sessRedis", "claim"})
         \/ (r.at = "findUser" /\ s.at = "sessRedis") \/ r.at = "createUser"
<1>0. s.o = r.o  BY DEF Path
<1>1. CASE r.o.op \in {"use", "refresh"}
    <2>1. s.at \in Verified  BY <1>0, <1>1 DEF Vetted, Issuing
    <2>2. r.at = "verify" \/ r.at \in Verified  BY <1>1, <2>1, VerifiedFrom
    <2>3. r.at = "verify" => s.at = "resolve" \/ s.at \notin Verified  BY DEF Path, Verified
    <2>4. s.at # "resolve"  BY <1>0, <1>1 DEF Vetted, Issuing
    <2> QED  BY <1>1, <2>1, <2>2, <2>3, <2>4 DEF Vetted
<1>2. CASE r.o.op \in Issuing
    <2>1. s.at \in {"claim", "sessRedis", "sessPg", "tokRedis", "tokPg", "clear", "ok"}
        BY <1>0, <1>2 DEF Vetted, Issuing
    <2>2. CASE s.at # "ok"
        <3>1. r.at \in {"user", "claim", "findUser", "createUser", "sessRedis", "sessPg", "tokRedis", "tokPg", "read"}
            BY <2>1, <2>2 DEF Path
        <3>2. r.at # "read"  BY <1>2 DEF Route, Issuing, Account, Changing
        <3>3. r.at = "user" => r.o.op = "login" /\ s.at \in {"sessRedis", "claim"}  BY <2>1, <2>2 DEF Route, Path
        <3>4. r.at = "findUser" => s.at = "sessRedis"  BY <2>1, <2>2 DEF Path
        <3> QED  BY <1>2, <3>1, <3>2, <3>3, <3>4 DEF Vetted
    <2>3. CASE s.at = "ok"
        <3>1. r.at \in {"resolve", "rotateRedis", "signedOut", "allPg", "tokPg", "clear", "saveState", "save", "delete"}
            BY <2>3 DEF Path
        <3>2. r.at \notin {"resolve", "rotateRedis", "signedOut", "allPg", "saveState", "save", "delete"}
            BY <1>2 DEF Route, Issuing, Changing
        <3> QED  BY <1>2, <3>1, <3>2 DEF Vetted
    <2> QED  BY <2>2, <2>3
<1> QED  BY <1>0, <1>1, <1>2 DEF Vetted

\* Where a request comes from whose code was accepted.
LEMMA CodedFrom ==
  ASSUME NEW r, NEW s, Path(r, s), Route(r), Coded(s)
  PROVE  Coded(r) \/ (r.at = "user" /\ s.at \in {"sessRedis", "claim"})
<1>0. s.o = r.o /\ r.o.op = "login"  BY DEF Path, Coded
<1>1. Vetted(s)  BY <1>0 DEF Vetted, Coded, Issuing
<1>2. \/ Vetted(r) \/ r.at = "resolve" \/ (r.at = "user" /\ r.o.op = "login" /\ s.at \in {"sessRedis", "claim"})
      \/ (r.at = "findUser" /\ s.at = "sessRedis") \/ r.at = "createUser"
    BY <1>1, VettedFrom
<1>3. r.at \notin {"resolve", "findUser", "createUser"}  BY <1>0 DEF Route
<1>4. Vetted(r) => Coded(r)  BY <1>0 DEF Vetted, Coded
<1> QED  BY <1>2, <1>3, <1>4

\* Where a request comes from that has read the row.
LEMMA ReadFrom ==
  ASSUME NEW r, NEW s, Path(r, s), r.at # "denied", ReadBy(s)
  PROVE  s.o = r.o /\ (ReadBy(r) \/ r.at = "read")
BY DEF Path, ReadBy

------------------------------------------------------------------------------
(* Accounts: every step keeps what is known of them.                       *)

\* Until it is written, the copy of the row stays as it was read.
LEMMA RowKept ==
  ASSUME Kept0, NEW p \in Clients, Step(p), Onward(p), ReadBy(req[p]), req'[p].at \notin {"ok", "failed", "denied"}
  PROVE  req'[p].row = req[p].row /\ req'[p].same = req[p].same
<1> DEFINE r == req[p]
           s == req'[p]
<1>1. Path(r, s) /\ Route(r) /\ r.o.op \in Account /\ r.at \notin {"read", "denied"} /\ TypeOK
    BY DEF Onward, Kept0, Routes, R, ReadBy
<1>2. r.at \in {"members", "allRedis", "allPg", "clearReset", "claim", "first"}
    <2>1. s.at \notin {"ok", "failed", "denied"}  OBVIOUS
    <2> HIDE DEF r, s
    <2>2. r.o.op \notin {"login", "oidcCallback", "oidcLogin", "use", "refresh", "logout", "logoutAll"}
        BY <1>1 DEF Account, Changing
    <2>3. r.at \in {"members", "allRedis", "allPg", "clearReset", "claim", "first", "save", "delete"}
        BY <1>1, <2>1, <2>2 DEF Path, Route, Issuing
    <2> QED  BY <1>1, <2>1, <2>3 DEF Path
<1>3. CASE r.at \in {"members", "allRedis", "first"}
    <2>1. ReadMembers(p) \/ RevokeAllRedis(p) \/ ReadAgain(p)  BY <1>3, Guards DEF R
    <2>2. Hop(p, r, s)  BY <2>1, AllThink DEF Kept0, Thinking0, Thinks
    <2> HIDE DEF r, s
    <2> QED  BY <1>3, <2>2 DEF Hop, r, s
<1>4. CASE r.at = "allPg"
    <2>1. RevokeAllPg(p)  BY <1>4, Guards DEF R
    <2> QED  BY <1>1, <2>1, RevokeAllPgEffect DEF Steps, Went, Rest
<1>5. CASE r.at = "clearReset"
    <2>1. ClearFailures(p)  BY <1>5, Guards DEF R
    <2> QED  BY <1>1, <1>5, <2>1, ClearFailuresEffect DEF Rest, R
<1>6. CASE r.at = "claim"
    <2>1. ClaimOnce(p) /\ R(p).o \in Operations  BY <1>1, <1>6, Guards DEF R, Route
    <2> QED  BY <1>1, <2>1, ClaimOnceEffect DEF Rest
<1> QED  BY <1>2, <1>3, <1>4, <1>5, <1>6

\* A step forward is no end.
LEMMA NotEnding ==
  ASSUME Kept0, NEW p \in Clients, Onward(p)
  PROVE  ~Answer(p) /\ ~Refuse(p)
<1>1. req'[p].at # "idle"  BY DEF Onward, Path
<1>2. req'[p] # Idle  BY <1>1 DEF Idle
<1>3. Answer(p) => req'[p] = Idle  BY AnswerEffect DEF Kept0
<1>4. Refuse(p) => req'[p] = Idle  BY RefuseEffect DEF Kept0
<1> QED  BY <1>2, <1>3, <1>4

\* A step forward that writes no row keeps what is known of accounts.
LEMMA OnwardAccounted ==
  ASSUME Kept0, Accounted, NEW p \in Clients, Step(p), Onward(p), UNCHANGED <<users, identity>>,
         ~SaveUser(p), ~DeleteUser(p)
  PROVE  Accounted'
<1> DEFINE r == req[p]
           s == req'[p]
<1>0. /\ Alone(p) /\ FrameReq(p) /\ Path(r, s) /\ Route(r) /\ TypeOK /\ Asked(r, s) /\ s.o = r.o
      /\ Honest(users, identity, r) /\ Fresh(users, r) /\ NoUser \notin Users
      /\ r.user \in Users \cup {NoUser} /\ identity \in Users \cup {NoUser}
    BY StepAlone, OnwardFrame, AuthStoreAssumption
    DEF FrameReq, Onward, Kept0, Routes, Accounted, Promised, Copied, R, TypeOK, AccountsTypeOK, Requests
<1>1. seen'.promised = seen.promised
    <2>1. ~Answer(p)  BY NotEnding
    <2> QED  BY <2>1, StepFrame DEF Framed, FrameSeen
<1>2. s.told = r.told  BY <1>0 DEF Asked
<1>3. \/ s.user = r.user
      \/ FindUser(p) /\ identity # NoUser /\ s.user = identity /\ r.o.op = "oidcCallback"
    <2>1. CASE FindUser(p)
        <3>1. r.at = "findUser"  BY <2>1 DEF FindUser, At
        <3>2. r.o.op = "oidcCallback"  BY <1>0, <3>1 DEF Route
        <3> QED  BY <1>0, <2>1, <3>2, FindUserEffect
    <2>2. CASE CreateUser(p)
        <3>1. identity # NoUser => s.user = r.user  BY <1>0, <2>2, CreateUserEffect
        <3>2. identity = NoUser => s.user = r.user  BY <1>0, <2>2, CreateUserEffect, FreeIs
        <3> QED  BY <3>1, <3>2
    <2>3. CASE ~FindUser(p) /\ ~CreateUser(p)  BY <1>0, <2>3 DEF FrameReq
    <2> QED  BY <2>1, <2>2, <2>3
<1>4. IF s.user = NoUser THEN s.told = {} ELSE Says(users[s.user], s.told)
    <2>1. CASE s.user = r.user  BY <1>0, <1>2, <2>1 DEF Honest
    <2>2. CASE s.user # r.user
        <3>1. r.user = NoUser /\ s.user = identity /\ identity # NoUser  BY <1>0, <1>3, <2>2 DEF Honest
        <3> QED  BY <1>0, <1>2, <3>1 DEF Honest, Says
    <2> QED  BY <2>1, <2>2
<1>5. s.o.op = "oidcCallback" /\ s.user # NoUser => s.user = identity  BY <1>0, <1>3 DEF Honest
<1>6. ASSUME Vetted(s) PROVE "shut" \notin s.told
    <2>1. \/ Vetted(r) \/ r.at = "resolve" \/ (r.at = "user" /\ r.o.op = "login" /\ s.at \in {"sessRedis", "claim"})
          \/ (r.at = "findUser" /\ s.at = "sessRedis") \/ r.at = "createUser"
        BY <1>0, <1>6, VettedFrom
    <2>2. CASE Vetted(r)  BY <1>0, <1>2, <2>2 DEF Honest
    <2>3. CASE r.at = "resolve"
        <3>1. Resolve(p)  BY <2>3, Guards DEF R
        <3>2. Hop(p, r, s)  BY <3>1, AllThink DEF Kept0, Thinking0, Thinks
        <3>3. s.at # "denied"  BY <1>6 DEF Vetted, Verified
        <3> HIDE DEF r, s
        <3>4. Enabled(r.user)  BY <2>3, <3>2, <3>3 DEF Hop
        <3> QED  BY <1>0, <1>2, <3>4 DEF Honest, Says, Serves, Enabled
    <2>4. CASE r.at = "user" /\ r.o.op = "login" /\ s.at \in {"sessRedis", "claim"}
        <3>1. CheckPassword(p)  BY <2>4, Guards DEF R
        <3>2. Hop(p, r, s)  BY <3>1, AllThink DEF Kept0, Thinking0, Thinks
        <3>3. r.user = r.o.user  BY <1>0, <2>4 DEF Route
        <3> HIDE DEF r, s
        <3>4. Enabled(r.o.user)  BY <2>4, <3>2 DEF Hop
        <3> QED  BY <1>0, <1>2, <3>3, <3>4 DEF Honest, Says, Serves, Enabled
    <2>5. CASE r.at = "findUser" /\ s.at = "sessRedis"
        <3>1. FindUser(p)  BY <2>5, Guards DEF R
        <3>2. s.user = identity /\ Enabled(identity) /\ identity # NoUser  BY <1>0, <2>5, <3>1, FindUserEffect
        <3> QED  BY <1>4, <3>2 DEF Says, Serves, Enabled
    <2>6. CASE r.at = "createUser"
        <3>1. CreateUser(p)  BY <2>6, Guards DEF R
        <3>2. s.at \in {"denied", "findUser"} \/ (identity = NoUser /\ identity' = Free)  BY <1>0, <3>1, CreateUserEffect
        <3>3. s.at \notin {"denied", "findUser"}  BY <1>6 DEF Vetted, Verified
        <3> QED  BY <1>0, <3>2, <3>3, FreeIs
    <2> QED  BY <2>1, <2>2, <2>3, <2>4, <2>5, <2>6
<1>7. ASSUME Coded(s), "mfa" \in s.told PROVE s.o.code # NoCode
    <2>1. Coded(r) \/ (r.at = "user" /\ s.at \in {"sessRedis", "claim"})  BY <1>0, <1>7, CodedFrom
    <2>2. CASE Coded(r)  BY <1>0, <1>2, <1>7, <2>2 DEF Honest
    <2>3. CASE r.at = "user" /\ s.at \in {"sessRedis", "claim"}
        <3>1. CheckPassword(p)  BY <2>3, Guards DEF R
        <3>2. Hop(p, r, s)  BY <3>1, AllThink DEF Kept0, Thinking0, Thinks
        <3>3. r.user = r.o.user /\ r.o.op = "login"  BY <1>0, <2>3 DEF Route
        <3>4. r.user \in Users  BY <2>3, <3>3, Named DEF Kept0, R
        <3> HIDE DEF r, s
        <3>5. users[r.o.user].mfa => r.o.code # NoCode  BY <2>3, <3>2 DEF Hop
        <3>6. users[r.user].mfa  BY <1>0, <1>2, <1>7, <3>4 DEF Honest, Says
        <3> QED  BY <1>0, <3>3, <3>5, <3>6
    <2> QED  BY <2>1, <2>2, <2>3
<1>8. ASSUME ReadBy(s) PROVE s.user = r.user /\ (ReadBy(r) \/ (r.at = "read" /\ s.row = users[r.user] /\ s.row.there))
    <2>1. r.at # "denied"
        <3>1. ~Refuse(p)  BY NotEnding
        <3> QED  BY <3>1, Guards DEF R
    <2>2. ReadBy(r) \/ r.at = "read"  BY <1>0, <1>8, <2>1, ReadFrom
    <2>3. r.o.op # "oidcCallback"  BY <1>0, <1>8 DEF ReadBy, Account, Changing
    <2>4. CASE r.at = "read"
        <3>1. ReadUser(p)  BY <2>4, Guards DEF R
        <3>2. Hop(p, r, s)  BY <3>1, AllThink DEF Kept0, Thinking0, Thinks
        <3>3. s.at # "denied"  BY <1>8 DEF ReadBy
        <3> HIDE DEF r, s
        <3>4. s.row = users[r.user] /\ s.row.there  BY <2>4, <3>2, <3>3 DEF Hop
        <3> QED  BY <1>3, <2>3, <2>4, <3>4
    <2> QED  BY <1>3, <2>2, <2>3, <2>4
<1>9. Fresh(users, s)
    <2>1. SUFFICES ASSUME ReadBy(s), s.same, s.at \notin {"ok", "failed"} PROVE s.row = users[s.user] /\ s.row.there
        BY DEF Fresh
    <2>2. CASE ReadBy(r)
        <3>1. s.row = r.row /\ s.same = r.same  BY <2>1, <2>2, RowKept DEF ReadBy
        <3>2. r.at \notin {"ok", "failed"}
            <4>1. ~Answer(p) /\ ~Refuse(p)  BY NotEnding
            <4> QED  BY <4>1, Guards DEF R
        <3> QED  BY <1>0, <1>8, <2>1, <2>2, <3>1, <3>2 DEF Fresh
    <2>3. CASE ~ReadBy(r)  BY <1>8, <2>1, <2>3
    <2> QED  BY <2>2, <2>3
<1>10. ASSUME identity = NoUser, NEW u \in Users \ {Local}, s.user = u PROVE ~ReadBy(s) /\ s.told = {}
    <2>1. r.user = u  BY <1>3, <1>10
    <2>2. ~ReadBy(r) /\ r.told = {} /\ ~users[u].there  BY <1>10, <2>1 DEF Accounted, Unborn, R
    <2>3. ~ReadBy(s)  BY <1>8, <2>1, <2>2
    <2> QED  BY <1>2, <2>2, <2>3
<1>11. Honest(users, identity, s)
    <2> HIDE DEF r, s
    <2> QED  BY <1>4, <1>5, <1>6, <1>7 DEF Honest
<1> HIDE DEF r
<1>12. /\ \A u \in Users : Says(users[u], seen'.promised[u])
       /\ identity = NoUser => \A u \in Users \ {Local} : seen'.promised[u] = {}
    BY <1>1 DEF Accounted, Promised, Unborn
<1> QED  BY <1>0, <1>9, <1>10, <1>11, <1>12, OneChanges

\* Every step keeps what is known of accounts.
LEMMA AccountedKept ==
  ASSUME Kept0, Accounted, NEW p \in Clients, Step(p)
  PROVE  Accounted'
<1>1. CASE SaveUser(p) \/ DeleteUser(p)  BY <1>1, WriteKeeps
<1>2. CASE ~SaveUser(p) /\ ~DeleteUser(p)
    <2>1. CASE CreateUser(p) /\ (users' # users \/ identity' # identity)  BY <2>1, CreateAccounted
    <2>2. CASE ~(CreateUser(p) /\ (users' # users \/ identity' # identity))
        <3>1. UNCHANGED <<users, identity>>  BY <1>2, <2>2, StepFrame DEF Framed, FrameWorld
        <3>2. Onward(p) \/ Start(p) \/ Answer(p) \/ Refuse(p)  BY StepKinds
        <3> QED  BY <1>2, <3>1, <3>2, OnwardAccounted, StartAccounted, EndAccounted
    <2> QED  BY <2>1, <2>2
<1> QED  BY <1>1, <1>2

\* So does the environment.
LEMMA EnvironmentAccounted ==
  ASSUME TypeOK, Accounted, Environment
  PROVE  Accounted'
<1>1. UNCHANGED <<users, identity, req>> /\ seen'.promised = seen.promised
    BY EnvironmentEffect DEF CleanSeen, TypeOK, Histories
<1> QED  BY <1>1 DEF Accounted, Promised, Copied, Unborn, R

------------------------------------------------------------------------------
(* Counted failures and the lock.                                          *)

\* A failure counted in Postgres keeps the lock that was told.
LEMMA PgIncrementIs ==
  ASSUME TypeOK, NEW k \in Keys, NEW done \in 0..2, PgCount(pg.fail[k], seen.lock[k], now)
  PROVE  \E row : /\ PgIncrement(pg, k, done).fail = [pg.fail EXCEPT ![k] = row]
                  /\ PgCount(row, seen.lock[k], now)
<1>0. /\ pg \in PgTyped /\ pg.fail \in [Keys -> [n : Nat, lock : Nat, end : Nat]] /\ now \in Nat
      /\ Lockout \in Nat \ {0} /\ LockAfter \in Nat \ {0} /\ seen.lock \in [Keys -> Nat]
    BY AuthStoreAssumption DEF TypeOK, StoreTypeOK, PgTyped, PgStates, Histories
<1> DEFINE row == pg.fail[k]
           n == IF Alive(row.end) THEN row.n + 1 ELSE 1
           kept == IF Alive(row.end) THEN row.lock ELSE now
           lock == IF done > 1 /\ n >= LockAfter /\ ~Alive(kept) THEN now + Lockout ELSE kept
           to == IF done > 0 THEN [n |-> n, lock |-> lock, end |-> now + Lockout] ELSE row
<1>1. PgIncrement(pg, k, done).fail = [pg.fail EXCEPT ![k] = to]
    BY <1>0 DEF PgIncrement, PgTyped, PgStates
<1>2. row.n \in Nat /\ row.lock \in Nat /\ row.end \in Nat /\ seen.lock[k] \in Nat  BY <1>0
<1>3. PgCount(row, seen.lock[k], now)  OBVIOUS
<1> HIDE DEF row
<1>4. /\ now < lock => n >= LockAfter
      /\ now < seen.lock[k] => lock >= seen.lock[k]
      /\ lock <= now + Lockout
    BY <1>0, <1>2, <1>3 DEF PgCount, Alive
<1>5. CASE done > 0
    <2> HIDE DEF n, lock
    <2>1. to = [n |-> n, lock |-> lock, end |-> now + Lockout]  BY <1>5
    <2>2. PgCount([n |-> n, lock |-> lock, end |-> now + Lockout], seen.lock[k], now)  BY <1>0, <1>4 DEF PgCount
    <2> QED  BY <1>1, <2>1, <2>2
<1>6. CASE ~(done > 0)
    <2>1. to = row  BY <1>6
    <2> QED  BY <1>1, <1>3, <2>1
<1> QED  BY <1>5, <1>6

\* A failure counted in Redis, when it is counted in full, locks at the limit.
LEMMA RedisIncrementIs ==
  ASSUME TypeOK, NEW k \in Keys, NEW done \in 0..3
  PROVE  \E row, lock : /\ RedisIncrement(redis, k, done).fail = [redis.fail EXCEPT ![k] = row]
                        /\ RedisIncrement(redis, k, done).lock = [redis.lock EXCEPT ![k] = lock]
                        /\ done = 3 /\ RedisCount(redis.fail[k], redis.lock[k], now) => RedisCount(row, lock, now)
<1>0. /\ redis \in RedisStates /\ redis.fail \in [Keys -> [n : Nat, end : Nat]] /\ redis.lock \in [Keys -> Nat]
      /\ now \in Nat /\ Lockout \in Nat \ {0} /\ LockAfter \in Nat \ {0}
    BY AuthStoreAssumption DEF TypeOK, StoreTypeOK, RedisStates
<1> DEFINE row == redis.fail[k]
           n == IF ~Alive(row.end) THEN 1 ELSE row.n + 1
           end == IF ~(~Alive(row.end)) THEN row.end ELSE IF done > 1 THEN now + Lockout ELSE Forever
           to == IF done > 0 THEN [n |-> n, end |-> end] ELSE row
           lock == IF done > 2 /\ n >= LockAfter THEN now + Lockout ELSE redis.lock[k]
<1>1. /\ RedisIncrement(redis, k, done).fail = [redis.fail EXCEPT ![k] = to]
      /\ RedisIncrement(redis, k, done).lock = [redis.lock EXCEPT ![k] = lock]
    BY <1>0 DEF RedisIncrement, RedisStates
<1>2. row.n \in Nat /\ row.end \in Nat /\ redis.lock[k] \in Nat  BY <1>0
<1>3. ASSUME done = 3, RedisCount(row, redis.lock[k], now) PROVE RedisCount(to, lock, now)
    <2> HIDE DEF row
    <2>1. end <= now + Lockout /\ (n >= LockAfter => lock >= end)
        BY <1>0, <1>2, <1>3 DEF RedisCount, Alive
    <2> HIDE DEF n, end, lock
    <2>2. to = [n |-> n, end |-> end]  BY <1>3
    <2> QED  BY <2>1, <2>2 DEF RedisCount
<1> HIDE DEF to, lock
<1> QED  BY <1>1, <1>3 DEF row

\* A request that counts a failure has a key to count it under.
LEMMA FailKeyIs ==
  ASSUME Kept0, NEW p \in Clients, R(p).at \in {"failPg", "failRedis"}
  PROVE  FailKey(p) \in Keys
<1>1. R(p).o \in Operations  BY Named DEF Kept0
<1> QED  BY <1>1, IamAssumption DEF FailKey, Operations

\* Every step keeps the counts behind the locks.
LEMMA CountedKept ==
  ASSUME Kept0, Counted, NEW p \in Clients, Step(p)
  PROVE  Counted'
<1>0. /\ TypeOK /\ now' = now /\ now \in Nat /\ LockAfter \in Nat \ {0} /\ Lockout \in Nat \ {0}
      /\ seen \in Histories /\ seen.lock \in [Keys -> Nat] /\ pg.fail \in [Keys -> [n : Nat, lock : Nat, end : Nat]]
      /\ redis.fail \in [Keys -> [n : Nat, end : Nat]] /\ redis.lock \in [Keys -> Nat]
      /\ redis \in RedisStates /\ pg \in PgTyped
    BY StepFrame, AuthStoreAssumption
    DEF Kept0, TypeOK, StoreTypeOK, PgTyped, PgStates, RedisStates, Histories, Framed, FrameWorld
<1>1. CASE CountFailurePg(p)
    <2> DEFINE k == FailKey(p)
    <2>1. /\ redis'.fail = redis.fail /\ redis'.lock = redis.lock /\ seen' = seen /\ k \in Keys
        BY <1>0, <1>1, CountFailurePgEffect, FailKeyIs
    <2>2. PICK done \in 0..2 : pg' = PgIncrement(pg, k, done)  BY <1>0, <1>1, CountFailurePgEffect
    <2> HIDE DEF k
    <2>3. PICK row : pg'.fail = [pg.fail EXCEPT ![k] = row] /\ PgCount(row, seen.lock[k], now)
        BY <1>0, <2>1, <2>2, PgIncrementIs DEF Counted
    <2> QED  BY <1>0, <2>1, <2>3 DEF Counted
<1>2. CASE CountFailureRedis(p)
    <2> DEFINE k == FailKey(p)
    <2>1. /\ pg' = pg /\ k \in Keys
        BY <1>0, <1>2, CountFailureRedisEffect, FailKeyIs
    <2>2. CASE redis' = redis /\ seen' = seen  BY <1>0, <2>1, <2>2 DEF Counted
    <2>3. CASE redis' # redis \/ seen' # seen
        <3>1. PICK done \in 0..3 : /\ redis' = RedisIncrement(redis, k, done)
                                   /\ (seen' = seen /\ done = 3) \/ seen' = [seen EXCEPT !.missed = @ \cup {k}]
            BY <1>0, <1>2, <2>3, CountFailureRedisEffect
        <3> HIDE DEF k
        <3>2. PICK row, lock : /\ redis'.fail = [redis.fail EXCEPT ![k] = row]
                               /\ redis'.lock = [redis.lock EXCEPT ![k] = lock]
                               /\ done = 3 /\ RedisCount(redis.fail[k], redis.lock[k], now) => RedisCount(row, lock, now)
            BY <1>0, <2>1, <3>1, RedisIncrementIs
        <3>3. seen'.lock = seen.lock /\ ((seen'.missed = seen.missed /\ done = 3) \/ seen'.missed = seen.missed \cup {k})
            BY <1>0, <3>1 DEF Histories
        <3> QED  BY <1>0, <2>1, <3>2, <3>3 DEF Counted
    <2> QED  BY <2>2, <2>3
<1>3. CASE ClearFailures(p)
    <2>1. PICK a, b \in SUBSET ClearKeys(p) : redis' \in {redis, RedisClear(redis, a)} /\ pg' = PgClear(pg, b)
        BY <1>0, <1>3, ClearFailuresEffect
    <2>2. seen' = [seen EXCEPT !.lock = [k \in Keys |-> IF k \in ClearKeys(p) THEN 0 ELSE @[k]]]
        BY <1>0, <1>3, ClearFailuresEffect
    <2>3. seen'.missed = seen.missed /\ \A k \in Keys : seen'.lock[k] = IF k \in ClearKeys(p) THEN 0 ELSE seen.lock[k]
        BY <1>0, <2>2 DEF Histories
    <2>4. \A k \in Keys : pg'.fail[k] = IF k \in b THEN NoFailure ELSE pg.fail[k]
        BY <1>0, <2>1 DEF PgClear, PgTyped, PgStates
    <2>5. ASSUME NEW k \in Keys PROVE \/ redis'.fail[k] = redis.fail[k] /\ redis'.lock[k] = redis.lock[k]
                                      \/ redis'.fail[k] = [n |-> 0, end |-> 0] /\ redis'.lock[k] = 0
        <3>1. CASE redis' = redis  BY <3>1
        <3>2. CASE redis' = RedisClear(redis, a)
            <4>1. /\ redis'.fail = [x \in Keys |-> IF x \in a THEN [n |-> 0, end |-> 0] ELSE redis.fail[x]]
                  /\ redis'.lock = [x \in Keys |-> IF x \in a THEN 0 ELSE redis.lock[x]]
                BY <1>0, <3>2 DEF RedisClear, RedisStates
            <4> QED  BY <4>1
        <3> QED  BY <2>1, <3>1, <3>2
    <2>6. ASSUME NEW k \in Keys PROVE PgCount(pg'.fail[k], seen'.lock[k], now)
        <3>1. PgCount(pg.fail[k], seen.lock[k], now)  BY DEF Counted
        <3>2. CASE k \in b  BY <1>0, <2>1, <2>3, <2>4, <3>2 DEF PgCount, NoFailure
        <3>3. CASE k \notin b  BY <1>0, <2>3, <2>4, <3>1, <3>3 DEF PgCount
        <3> QED  BY <3>2, <3>3
    <2>7. ASSUME NEW k \in Keys, k \notin seen.missed PROVE RedisCount(redis'.fail[k], redis'.lock[k], now)
        <3>1. RedisCount(redis.fail[k], redis.lock[k], now)  BY <2>7 DEF Counted
        <3>2. CASE redis'.fail[k] = redis.fail[k] /\ redis'.lock[k] = redis.lock[k]  BY <3>1, <3>2
        <3>3. CASE redis'.fail[k] = [n |-> 0, end |-> 0] /\ redis'.lock[k] = 0  BY <1>0, <3>3 DEF RedisCount
        <3> QED  BY <2>5, <3>2, <3>3
    <2> QED  BY <1>0, <2>3, <2>6, <2>7 DEF Counted
<1>4. CASE Refuse(p)
    <2>1. UNCHANGED <<redis, pg>>  BY <1>0, <1>4, RefuseEffect
    <2>2. seen' = seen \/ seen' = [seen EXCEPT !.lock = [k \in Keys |-> IF k \in LoginKeys(R(p).o) /\ Alive(pg.fail[k].lock)
                                                             THEN pg.fail[k].lock ELSE @[k]]]
        BY <1>0, <1>4, RefuseEffect
    <2>3. seen'.missed = seen.missed /\ \A k \in Keys : seen'.lock[k] \in {seen.lock[k], pg.fail[k].lock}
        BY <1>0, <2>2 DEF Histories
    <2>4. ASSUME NEW k \in Keys PROVE PgCount(pg.fail[k], seen'.lock[k], now)
        BY <1>0, <2>3 DEF Counted, PgCount
    <2> QED  BY <1>0, <2>1, <2>3, <2>4 DEF Counted
<1>5. CASE ~(CountFailurePg(p) \/ CountFailureRedis(p) \/ ClearFailures(p) \/ Refuse(p))
    <2>1. /\ redis'.fail = redis.fail /\ redis'.lock = redis.lock /\ pg'.fail = pg.fail
          /\ seen'.lock = seen.lock /\ seen'.missed = seen.missed
        BY <1>5, StepFrame DEF Framed, FrameWorld, FramePg, FrameSeen
    <2> QED  BY <1>0, <2>1 DEF Counted
<1> QED  BY <1>1, <1>2, <1>3, <1>4, <1>5

\* So does the environment.
LEMMA EnvironmentCounted ==
  ASSUME TypeOK, Counted, Environment
  PROVE  Counted'
<1>0. /\ now \in Nat /\ now' \in Nat /\ now <= now' /\ LockAfter \in Nat \ {0} /\ Lockout \in Nat \ {0}
      /\ seen \in Histories /\ seen.lock \in [Keys -> Nat] /\ pg.fail \in [Keys -> [n : Nat, lock : Nat, end : Nat]]
      /\ redis.fail \in [Keys -> [n : Nat, end : Nat]] /\ redis.lock \in [Keys -> Nat]
    BY EnvironmentEffect, AuthStoreAssumption DEF TypeOK, StoreTypeOK, PgStates, RedisStates, Histories
<1>1. seen'.lock = seen.lock /\ seen'.missed = seen.missed
    BY <1>0, EnvironmentEffect DEF CleanSeen, Histories
<1>2. ASSUME NEW k \in Keys PROVE PgCount(pg'.fail[k], seen.lock[k], now')
    <2>1. PgCount(pg.fail[k], seen.lock[k], now)  BY DEF Counted
    <2>2. pg.fail[k].n \in Nat /\ pg.fail[k].lock \in Nat /\ pg.fail[k].end \in Nat /\ seen.lock[k] \in Nat  BY <1>0
    <2>3. CASE pg' = pg  BY <1>0, <2>1, <2>2, <2>3 DEF PgCount
    <2>4. CASE pg' = Expired(pg) /\ now' = now
        <3>1. pg'.fail = [x \in Keys |-> IF Alive(pg.fail[x].end) THEN pg.fail[x] ELSE NoFailure]
            BY <2>4, ExpiredIs, EnvironmentEffect
        <3> QED  BY <1>0, <2>1, <2>2, <2>4, <3>1 DEF PgCount, NoFailure, Alive
    <2> QED  BY <2>3, <2>4, EnvironmentEffect
<1>3. ASSUME NEW k \in Keys, k \notin seen.missed PROVE RedisCount(redis'.fail[k], redis'.lock[k], now')
    <2>1. RedisCount(redis.fail[k], redis.lock[k], now)  BY <1>3 DEF Counted
    <2>2. redis.fail[k].n \in Nat /\ redis.fail[k].end \in Nat  BY <1>0
    <2>3. CASE redis' = redis  BY <1>0, <2>1, <2>2, <2>3 DEF RedisCount
    <2>4. CASE redis' = EmptyRedis  BY <1>0, <2>4 DEF RedisCount, EmptyRedis
    <2> QED  BY <2>3, <2>4, EnvironmentEffect
<1> QED  BY <1>1, <1>2, <1>3 DEF Counted

\* Every step keeps locked logins out.
LEMMA LockHoldsKept ==
  ASSUME Kept0, Counted, LockHolds, NEW p \in Clients, Step(p)
  PROVE  LockHolds'
<1>0. /\ TypeOK /\ now \in Nat /\ pg.fail \in [Keys -> [n : Nat, lock : Nat, end : Nat]]
      /\ redis.fail \in [Keys -> [n : Nat, end : Nat]] /\ redis.lock \in [Keys -> Nat] /\ seen.lock \in [Keys -> Nat]
    BY DEF Kept0, TypeOK, StoreTypeOK, PgStates, RedisStates, Histories
<1>1. ASSUME NEW q \in Clients, q # p PROVE ~req'[q].past
    BY <1>1, StepKinds DEF Beside, Like, LockHolds, R
<1>2. ~req'[p].past
    <2>1. CASE LoginLock(p)
        <3>1. CASE req'[p].past = req[p].past  BY <3>1 DEF LockHolds, R
        <3>2. CASE req'[p].past # req[p].past
            <4>1. PICK failed \in {{}, {"redis"}} : req'[p].past = PastNow(p) /\ ~LoginLocked(R(p).o, failed)
                BY <1>0, <2>1, <3>2, LoginLockThinks
            <4>2. R(p).at = "lock" /\ LoginKeys(R(p).o) \subseteq Keys
                <5>1. R(p).at = "lock"  BY <2>1 DEF LoginLock, At, R
                <5>2. R(p).o \in Operations  BY <5>1, Named DEF Kept0
                <5> QED  BY <5>1, <5>2, IamAssumption DEF LoginKeys, Operations
            <4>3. ASSUME NEW k \in LoginKeys(R(p).o), Alive(seen.lock[k]), ~MirrorBehind(k) PROVE FALSE
                <5>1. k \in Keys /\ PgCount(pg.fail[k], seen.lock[k], now)
                      /\ (k \notin seen.missed => RedisCount(redis.fail[k], redis.lock[k], now))
                    BY <4>2 DEF Counted
                <5>2. /\ pg.fail[k].n \in Nat /\ pg.fail[k].lock \in Nat /\ pg.fail[k].end \in Nat /\ seen.lock[k] \in Nat
                      /\ redis.fail[k].n \in Nat /\ redis.fail[k].end \in Nat /\ redis.lock[k] \in Nat /\ LockAfter \in Nat
                    BY <1>0, <5>1, AuthStoreAssumption
                <5>3. Alive(pg.fail[k].lock) /\ Alive(pg.fail[k].end) /\ pg.fail[k].n >= LockAfter
                    BY <1>0, <4>3, <5>1, <5>2 DEF PgCount, Alive
                <5>4. ~Alive(LoginFailure(k, failed).lock)  BY <4>1, <4>3 DEF LoginLocked
                <5>5. redisOn /\ Alive(redis.fail[k].end) /\ ~Alive(redis.lock[k])
                    BY <5>3, <5>4 DEF LoginFailure
                <5>6. redis.fail[k].n >= LockAfter /\ k \notin seen.missed
                    BY <4>3, <5>2, <5>3, <5>5 DEF MirrorBehind
                <5> QED  BY <1>0, <5>1, <5>2, <5>5, <5>6 DEF RedisCount, Alive
            <4>4. ~PastNow(p)  BY <4>3 DEF PastNow
            <4> QED  BY <4>1, <4>4
        <3> QED  BY <3>1, <3>2
    <2>2. CASE ~LoginLock(p)
        <3>1. CASE Onward(p)  BY <2>2, <3>1, OnwardFrame DEF FrameReq, LockHolds, R
        <3>2. CASE Starting(p)
            <4>1. PICK r \in Requests : Begun(p, r, req'[p]) /\ Starts(Head(script[p]), r)  BY <3>2 DEF Starting
            <4> QED  BY <4>1 DEF Begun, Starts
        <3>3. CASE req'[p] = Idle  BY <3>3 DEF Idle
        <3> QED  BY <3>1, <3>2, <3>3, StepKinds
    <2> QED  BY <2>1, <2>2
<1> QED  BY <1>1, <1>2 DEF LockHolds, R

------------------------------------------------------------------------------
(* The theorems.                                                           *)

\* The initial states satisfy the invariant.
LEMMA Initially == Init => IInv
<1> SUFFICES ASSUME Init PROVE IInv  OBVIOUS
<1>1. PICK w \in Workloads : script = w.script /\ ticks = w.ticks /\ faults = w.faults /\ losses = w.losses  BY DEF Init
<1>2. /\ script \in [Clients -> Seq(Operations)] /\ ticks \in 0..MaxNow /\ faults \in Nat /\ losses \in Nat
    BY <1>1, IamAssumption
<1>3. /\ now = 0 /\ redisOn \in BOOLEAN /\ redis = EmptyRedis /\ pg = EmptyPg
      /\ session = [s \in Sids |-> [user |-> NoUser, end |-> 0]]
      /\ token = [t \in Toks |-> [sid |-> 0, end |-> 0]]
      /\ users = [u \in Users |-> IF u = Local THEN NewRow("pw1") ELSE NoRow] /\ identity = NoUser
      /\ req = [p \in Clients |-> Idle] /\ access = {} /\ given = {} /\ states = {}
    BY DEF Init, StoreInit, AccountsInit, ResolveAuthStateStore
<1>4. seen = [out |-> {}, outTok |-> {}, missed |-> {}, spent |-> [t \in Toks |-> 0], signIns |-> [st \in States |-> 0],
              uses |-> [k \in Claims |-> 0], slack |-> [k \in Claims |-> 0],
              promised |-> [u \in Users |-> {}], lock |-> [k \in Keys |-> 0]]
    BY DEF Init
<1>5. Idle \in Requests  BY IdleTyped
<1>6. TypeOK
    <2>1. EmptyRedis \in RedisStates  BY EmptyTyped
    <2>2. EmptyPg \in PgStates(Claims, States)  BY DEF EmptyPg, PgStates, TokenStates, NoFailure
    <2>3. seen \in Histories  BY <1>4 DEF Histories
    <2>4. users \in [Users -> Rows]
        <3>1. NewRow("pw1") \in Rows /\ NoRow \in Rows  BY AccountsAssumption DEF NewRow, NoRow, Rows, Active, Disabled
        <3> QED  BY <1>3, <3>1
    <2>5. ticks \in Nat /\ ticks + now <= MaxNow  BY <1>2, <1>3, AuthStoreAssumption
    <2>6. session \in [Sids -> TokenSessions] /\ token \in [Toks -> RefreshTokenRecords]
        BY <1>3 DEF TokenSessions, RefreshTokenRecords
    <2> QED  BY <1>2, <1>3, <1>5, <2>1, <2>2, <2>3, <2>4, <2>5, <2>6 DEF TypeOK, StoreTypeOK, AccountsTypeOK
<1>7. \A p \in Clients : R(p) = Idle  BY <1>3 DEF R
<1>8. /\ Idle.at = "idle" /\ Idle.o.op = "none" /\ Idle.sid = 0 /\ Idle.tok = 0 /\ Idle.new = 0 /\ Idle.before = {}
      /\ ~Idle.late /\ ~Idle.spent /\ ~Idle.past /\ Idle.told = {} /\ Idle.state = 0 /\ Idle.user = NoUser
    BY DEF Idle, NoOp
<1>9. Routes
    <2>1. Route(Idle)  BY <1>8 DEF Route, Account, Changing
    <2> QED  BY <1>7, <2>1 DEF Routes
<1>10. Handed
    <2>1. Carries(Idle)  BY IdleCarries
    <2> QED  BY <1>3, <1>7, <1>8, <2>1 DEF Handed
<1>11. SpentOnce
    <2>1. \A t \in Toks : pg.tok[t] = "none"  BY <1>3 DEF EmptyPg
    <2> QED  BY <1>4, <1>7, <1>8, <2>1 DEF SpentOnce, Spending, Is
<1>12. StateOnce
    <2>1. pg.oidc = {}  BY <1>3 DEF EmptyPg
    <2>2. \A st \in States : seen.signIns[st] = 0 /\ ~HasState(pg, st)  BY <1>4, <2>1 DEF HasState
    <2>3. \A p \in Clients : ~Is(p, {"oidcCallback"}) /\ ~Is(p, {"oidcLogin"})  BY <1>7, <1>8 DEF Is, R
    <2> QED  BY <2>2, <2>3 DEF StateOnce, Passing
<1>13. ClaimedOnce  BY <1>4 DEF ClaimedOnce
<1>14. Owned
    <2>1. Bears(Idle)  BY <1>8 DEF Bears, Issuing
    <2>2. Known = {}  BY <1>3 DEF Known
    <2> QED  BY <1>3, <1>7, <1>8, <2>1, <2>2 DEF Owned, Opened, Is, Issuing
<1>15. Revoked
    <2>1. Known = {}  BY <1>3 DEF Known
    <2>2. seen.out = {} /\ seen.outTok = {}  BY <1>4
    <2> QED  BY <1>3, <1>7, <1>8, <2>1, <2>2 DEF Revoked, Opened, Is, Issuing
<1>16. Accounted
    <2>1. \A u \in Users : seen.promised[u] = {}  BY <1>4
    <2>2. \A u \in Users \ {Local} : ~users[u].there  BY <1>3 DEF NoRow
    <2>3. \A u \in Users : Says(users[u], {})  BY DEF Says
    <2> QED  BY <1>7, <2>1, <2>2, <2>3, IdleHonest DEF Accounted, Promised, Copied, Unborn
<1>17. Counted
    <2>1. ASSUME NEW k \in Keys PROVE PgCount(pg.fail[k], seen.lock[k], now) /\ RedisCount(redis.fail[k], redis.lock[k], now)
        <3>1. pg.fail[k] = NoFailure /\ seen.lock[k] = 0 /\ redis.fail[k] = [n |-> 0, end |-> 0] /\ redis.lock[k] = 0
            BY <1>3, <1>4 DEF EmptyPg, EmptyRedis
        <3> QED  BY <1>3, <3>1, AuthStoreAssumption DEF PgCount, RedisCount, NoFailure
    <2> QED  BY <2>1 DEF Counted
<1>18. LockHolds  BY <1>7, <1>8 DEF LockHolds
<1> QED  BY <1>6, <1>9, <1>10, <1>11, <1>12, <1>13, <1>14, <1>15, <1>16, <1>17, <1>18 DEF IInv, Accounted

\* Every step keeps it.
LEMMA Inductive == IInv /\ [Next]_vars => IInv'
<1> SUFFICES ASSUME IInv, [Next]_vars PROVE IInv'  OBVIOUS
<1>0. Kept0 /\ Accounted  BY DEF IInv, Kept0, Accounted
<1>1. ASSUME NEW p \in Clients, Step(p) PROVE IInv'
    <2>1. TypeOK'  BY <1>0, <1>1, StepStored DEF IInv
    <2>2. Routes' /\ Handed' /\ Owned'  BY <1>0, <1>1, RoutesKept, HandedKept, OwnedKept
    <2>3. SpentOnce' /\ StateOnce' /\ ClaimedOnce'  BY <1>0, <1>1, SpentOnceKept, StateOnceKept, ClaimedOnceKept DEF IInv
    <2>4. Revoked'  BY <1>0, <1>1, <2>1, <2>2, RevokedKept DEF IInv
    <2>5. Accounted'  BY <1>0, <1>1, AccountedKept
    <2>6. Counted' /\ LockHolds'  BY <1>0, <1>1, CountedKept, LockHoldsKept DEF IInv
    <2> QED  BY <2>1, <2>2, <2>3, <2>4, <2>5, <2>6 DEF IInv, Accounted
<1>2. ASSUME Environment PROVE IInv'
    <2>1. TypeOK'  BY <1>2, EnvironmentTyped DEF IInv
    <2>2. Routes' /\ Handed' /\ Owned' /\ SpentOnce' /\ StateOnce' /\ ClaimedOnce'
        BY <1>2, EnvironmentKeeps DEF IInv
    <2>3. Revoked' /\ Accounted' /\ Counted'
        BY <1>0, <1>2, EnvironmentRevoked, EnvironmentAccounted, EnvironmentCounted DEF IInv
    <2>4. LockHolds'
        <3>1. req' = req  BY <1>2, EnvironmentEffect DEF IInv
        <3> QED  BY <3>1 DEF IInv, LockHolds, R
    <2> QED  BY <2>1, <2>2, <2>3, <2>4 DEF IInv, Accounted
<1>3. Environment \/ \E p \in Clients : Step(p)  BY DEF Next, Environment
<1> QED  BY <1>1, <1>2, <1>3

\* It holds always.
LEMMA Invariant == Spec => []IInv
BY Initially, Inductive, PTL DEF Spec

\* The sessions, tokens, claims and counts of both stores, and what each request
\* holds between two calls, are of the kinds the code gives them (token_store.go,
\* service.go).
THEOREM TypeCorrect == Spec => []TypeOK
<1>1. IInv => TypeOK  BY DEF IInv
<1> QED  BY <1>1, Invariant, PTL

\* A refresh token is rotated once (Rotate: UPDATE ... WHERE revoked_at IS NULL),
\* a federated state signs in once (ConsumeOIDCState), and a one-time code is good
\* once, and once more for each claim that could not be made or was cleaned up early.
THEOREM NoneTwice == Spec => []GoodOnce
<1>1. IInv => GoodOnce
    <2>1. ASSUME IInv PROVE RefreshedOnce /\ StateGoodOnce
        BY <2>1 DEF IInv, SpentOnce, StateOnce, RefreshedOnce, StateGoodOnce
    <2>2. ASSUME IInv, NEW k \in Claims PROVE seen.uses[k] <= 1 + seen.slack[k]
        <3>1. seen.uses[k] \in Nat /\ seen.slack[k] \in Nat  BY <2>2 DEF IInv, TypeOK, Histories
        <3> QED  BY <2>2, <3>1 DEF IInv, ClaimedOnce
    <2> QED  BY <2>1, <2>2 DEF GoodOnce, CodeGoodOnce
<1> QED  BY <1>1, Invariant, PTL

\* Once a sign-out has reached both stores (RevokeSession, RevokeToken,
\* RevokeSubjectSessions), no check that starts later accepts the session, nor the
\* refresh token signed out by itself, with a store out of reach or Redis emptied;
\* but for a session past its own end (VerifyToken, Rotate, Resolve).
THEOREM SignOutHolds == Spec => []SignedOutStaysOut
<1>1. IInv => SignedOutStaysOut  BY DEF IInv, Revoked, SignedOutStaysOut, Verified, At, R
<1> QED  BY <1>1, Invariant, PTL

\* Nothing is let by for an account that was answered to be disabled or deleted,
\* and no sign-in without a code once the second factor was answered to be on
\* (Resolve, Login, SetStatus, ConfirmMFA), unless a request asked for it or wrote
\* back a copy it had read before.
THEOREM PromisesHold == Spec => []PromisesKept
<1>1. ASSUME IInv, NEW p \in Clients, At(p, "ok")
      PROVE  /\ Is(p, {"use", "refresh", "login", "oidcCallback"}) => "shut" \notin R(p).told
             /\ Is(p, {"login"}) /\ "mfa" \in R(p).told => R(p).o.code # NoCode
    <2>1. Honest(users, identity, R(p))  BY <1>1 DEF IInv, Promised
    <2> QED  BY <1>1, <2>1 DEF Honest, Vetted, Coded, Verified, Issuing, Is, At, R
<1>2. IInv => PromisesKept  BY <1>1 DEF PromisesKept
<1> QED  BY <1>2, Invariant, PTL

\* A sign-in that starts after a failure was answered with the key locked gets no
\* further than the look at the lock while it lasts (LoginLock, IncrementFailure),
\* unless what Redis counts under the key has fallen behind.
THEOREM LocksHold == Spec => []LockHolds
<1>1. IInv => LockHolds  BY DEF IInv
<1> QED  BY <1>1, Invariant, PTL
=============================================================================
