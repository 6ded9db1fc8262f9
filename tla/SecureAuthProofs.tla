-------------------------- MODULE SecureAuthProofs --------------------------
(***************************************************************************)
(* The invariants of SecureAuth hold for every number of users, requests   *)
(* and losses of the connection.  A session is current by itself.  That a  *)
(* carried out request was vouched for needs the whole path of a request:  *)
(* the numbers of the requests grow along it, so none is met twice, and    *)
(* a reply that is under way names what the master vouched for.            *)
(***************************************************************************)
EXTENDS SecureAuth, TLAPS

OutstationFields ==
    {"online", "isTransmitting", "deferred", "state", "timer", "challenge", "users", "sessions",
     "keyChange", "update", "nonces", "pending", "scsn", "done", "tx"}

SessionFields == {"status", "key", "authCount", "late", "under", "uses"}

\* The sessions S are those of the users U.  A session that authenticates
\* counts each message it verified.
GoodSession(s) ==
    /\ DOMAIN s = SessionFields
    /\ s.status = "OK" => s.uses \in Nat /\ s.authCount = s.uses /\ s.uses < MaxAuthCount

GoodSessions(S, U) ==
    \A u \in DOMAIN S :
        /\ GoodSession(S[u])
        /\ S[u].status = "OK" => u \in DOMAIN U /\ S[u].under = U[u]

\* The fields that are read after an update are there.
Shaped(c) == DOMAIN c = OutstationFields /\ DOMAIN c.challenge = {"seq", "asdu"}

\* The users and the sessions of an outstation agree.
Sane(c) == Shaped(c) /\ GoodSessions(c.sessions, c.users)

\* A request that has a number of its own, and one that a user asked for.
Numbered(r) == r.fn \notin {"Reply", "Nothing"}
UserRequest(r) == r.fn \in {"Normal", "Critical"}

Functions == {"Reply", "KeyStatus", "ChangeKeys", "StatusChange", "BeginUpdate", "FinishUpdate",
              "Normal", "Critical"}

\* The request r agrees with what the master vouched for.
Honest(r, V) ==
    /\ r.fn \in Functions \cup {"Nothing"}
    /\ r.fn = "StatusChange" => r.op \in {"ADD", "CHANGE", "DELETE"}
    /\ r.fn = "Reply" => [id |-> r.hmac.asdu, user |-> r.user] \in V
    /\ UserRequest(r) => \A v \in V : v.id = r.id => v.user = r.by
    /\ Numbered(r) => r.id \in Nat

\* The outstation carries requests out for the users that issued them.
Vouched(V) == {[id |-> v.id, by |-> v.user, user |-> v.user] : v \in V}

\* The numbers of the requests carried out, challenged and deferred grow up to n.
Challenged(c, n, V) ==
    LET r == c.challenge.asdu
    IN  /\ c.state \in {"IDLE", "WAIT_FOR_REPLY"}
        /\ c.state = "WAIT_FOR_REPLY" =>
             /\ r.fn = "Critical" /\ Honest(r, V) /\ r.id <= n
             /\ \A i \in DOMAIN c.done : c.done[i].id < r.id

Later(c, r, n, V) ==
    /\ Honest(r, V)
    /\ Numbered(r) =>
         /\ r.id <= n
         /\ \A i \in DOMAIN c.done : c.done[i].id < r.id
         /\ c.state = "WAIT_FOR_REPLY" => c.challenge.asdu.id < r.id

Deferred(c, n, V) ==
    /\ Later(c, c.deferred, n, V)
    /\ c.deferred.fn = "Nothing" => c.deferred = Nothing

Done(c, n, V) ==
    /\ c.done \in Seq(Vouched(V))
    /\ \A i \in DOMAIN c.done : c.done[i].id \in Nat /\ c.done[i].id <= n
    /\ \A i, j \in DOMAIN c.done : i < j => c.done[i].id < c.done[j].id

Ordered(c, n, V) ==
    /\ Shaped(c)
    /\ Challenged(c, n, V)
    /\ Deferred(c, n, V)
    /\ Done(c, n, V)

\* Requests come on the way in the order of their numbers.
IsSequence(q) == q \in Seq({q[i] : i \in DOMAIN q})

UnderWay(q, n, V, k) ==
    /\ IsSequence(q)
    /\ \A i \in DOMAIN q : /\ q[i].fn # "Nothing" /\ Honest(q[i], V)
                           /\ Numbered(q[i]) => n < q[i].id /\ q[i].id <= k
    /\ \A i, j \in DOMAIN q : i < j /\ Numbered(q[i]) /\ Numbered(q[j]) => q[i].id < q[j].id

\* The request of user u that has the number id, wherever it is.
By(r, id, u) == UserRequest(r) /\ r.id = id => r.by = u

MasterFields ==
    {"state", "active", "isSending", "seq", "last", "users", "sessions", "wrap", "begun", "scsn"}
TaskKinds ==
    {"None", "SessionKey", "User", "UserStatusChange", "BeginUpdateKeyChange", "FinishUpdateKeyChange"}

GoodMaster(n) ==
    /\ DOMAIN n = MasterFields
    /\ n.active.kind \in TaskKinds
    /\ n.state # "IDLE" => n.active.kind # "None"
    /\ n.active.kind = "User" => n.active.fn \in {"Normal", "Critical"}
    /\ n.active.kind = "UserStatusChange" => n.active.change.op \in {"ADD", "CHANGE", "DELETE"}
    /\ n.last \in Nat /\ n.last <= issued

\* The requests of the user whose request the master waits for are all that user's.
Attributed ==
    m.state = "WAIT_FOR_RESPONSE" /\ m.active.kind = "User" =>
        /\ \A i \in DOMAIN toOut : By(toOut[i], m.last, m.active.user)
        /\ By(o.deferred, m.last, m.active.user)
        /\ o.state = "WAIT_FOR_REPLY" => By(o.challenge.asdu, m.last, m.active.user)
        /\ \A v \in vouched : v.id = m.last => v.user = m.active.user

Vouches(V, k) ==
    \A v \in V : v = [id |-> v.id, user |-> v.user] /\ v.id \in Nat /\ v.id <= k

GoodOutstation(c, n, V) ==
    /\ Sane(c) /\ Ordered(c, n, V)
    /\ c.deferred # Nothing => ~CanTransmit(c)

IInv ==
    /\ issued \in Nat /\ Vouches(vouched, issued)
    /\ \E n \in 0 .. issued : /\ GoodOutstation(o, n, vouched)
                             /\ UnderWay(toOut, n, vouched, issued)
    /\ GoodMaster(m)
    /\ Attributed

USE DEF SessionFields, OutstationFields

----------------------------------------------------------------------------
\* A session may be put in the place of another if it is good for the user.
LEMMA ReplacedGood ==
    ASSUME NEW S, NEW U, GoodSessions(S, U), NEW u, NEW s, GoodSession(s),
           s.status = "OK" => u \in DOMAIN U /\ s.under = U[u]
    PROVE  GoodSessions(With(S, u, s), U)
<1> DEFINE T == With(S, u, s)
<1>1. /\ DOMAIN T = DOMAIN S \cup {u} /\ T[u] = s
      /\ \A y \in DOMAIN S \ {u} : T[y] = S[y]
  BY DEF With
<1> HIDE DEF T
<1>2. ASSUME NEW y \in DOMAIN T
      PROVE  /\ GoodSession(T[y])
             /\ T[y].status = "OK" => y \in DOMAIN U /\ T[y].under = U[y]
  <2>1. CASE y = u
    BY <1>1, <2>1
  <2>2. CASE y # u
    BY <1>1, <1>2, <2>2 DEF GoodSessions
  <2> QED BY <2>1, <2>2
<1>3. GoodSessions(T, U)
  BY <1>2 DEF GoodSessions
<1> QED BY <1>3 DEF T

\* A session whose time has passed does not authenticate.
LEMMA CheckedGood ==
    ASSUME NEW S, NEW U, GoodSessions(S, U), NEW u
    PROVE  /\ GoodSessions(Checked(S, u), U)
           /\ DOMAIN Checked(S, u) = DOMAIN S
           /\ HasValidKeys(S, u) => u \in DOMAIN S /\ Checked(S, u)[u].status = "OK"
<1>1. CASE u \notin DOMAIN S
  BY <1>1 DEF Checked, HasValidKeys
<1>2. CASE u \in DOMAIN S
  <2> DEFINE s == CheckTimeValidity(S[u])
  <2>1. GoodSession(S[u])
    BY <1>2 DEF GoodSessions
  <2>2. GoodSession(s) /\ (s.status = "OK" => s = S[u])
    BY <2>1 DEF CheckTimeValidity, GoodSession
  <2>3. Checked(S, u) = With(S, u, s)
    BY <1>2 DEF Checked
  <2>4. HasValidKeys(S, u) => s.status = "OK"
    BY DEF HasValidKeys
  <2> HIDE DEF s
  <2>5. s.status = "OK" => u \in DOMAIN U /\ s.under = U[u]
    BY <1>2, <2>2 DEF GoodSessions
  <2>6. DOMAIN With(S, u, s) = DOMAIN S /\ With(S, u, s)[u] = s
    BY <1>2 DEF With
  <2> QED BY <1>2, <2>2, <2>3, <2>4, <2>5, <2>6, ReplacedGood
<1> QED BY <1>1, <1>2

\* A message that verifies is counted, and at the limit the keys are given up.
LEMMA IncrementGood ==
    ASSUME NEW S, NEW U, GoodSessions(S, U), NEW u \in DOMAIN S
    PROVE  GoodSessions(With(S, u, IncrementAuthCount(S[u])), U)
<1> DEFINE s == IncrementAuthCount(S[u])
<1>1. GoodSession(S[u])
  BY DEF GoodSessions
<1>2. GoodSession(s) /\ s.under = S[u].under /\ (s.status = "OK" => S[u].status = "OK")
  <2>1. CASE S[u].status # "OK"
    BY <1>1, <2>1 DEF IncrementAuthCount
  <2>2. CASE S[u].status = "OK"
    BY <1>1, <2>2, AuthAssumption DEF IncrementAuthCount, GoodSession
  <2> QED BY <2>1, <2>2
<1>3. s.status = "OK" => u \in DOMAIN U /\ s.under = U[u]
  BY <1>2 DEF GoodSessions
<1> HIDE DEF s
<1> QED BY <1>2, <1>3, ReplacedGood DEF s

\* Keys are set under what the database has of the user.
LEMMA SetSessionGood ==
    ASSUME NEW S, NEW U, GoodSessions(S, U), NEW u \in DOMAIN U, NEW key, NEW under,
           under = U[u]
    PROVE  GoodSessions(SetSessionKeys(S, u, key, under), U)
<1> DEFINE s == [NewSession EXCEPT !.status = "OK", !.key = key, !.under = under]
<1>1. GoodSession(s) /\ s.under = under
  BY AuthAssumption DEF GoodSession, NewSession
<1>2. SetSessionKeys(S, u, key, under) = With(S, u, s)
  BY DEF SetSessionKeys
<1> HIDE DEF s
<1> QED BY <1>1, <1>2, ReplacedGood

\* A session that is made on demand has no keys, so it vouches for nobody.
LEMMA WithSessionGood ==
    ASSUME NEW S, NEW U, GoodSessions(S, U), NEW u
    PROVE  GoodSessions(WithSession(S, u), U)
<1>1. GoodSession(NewSession) /\ NewSession.status # "OK"
  BY DEF NewSession, GoodSession
<1>2. GoodSessions(Checked(S, u), U) /\ GoodSessions(With(S, u, NewSession), U)
  BY <1>1, CheckedGood, ReplacedGood
<1> QED BY <1>2 DEF WithSession

\* The sessions of a user that is removed or replaced are gone.
LEMMA RemovedGood ==
    ASSUME NEW S, NEW U, GoodSessions(S, U), NEW u, NEW info
    PROVE  /\ GoodSessions(Without(S, u), Without(U, u))
           /\ GoodSessions(Without(S, u), With(U, u, info))
<1> DEFINE T == Without(S, u)
<1>1. DOMAIN T = DOMAIN S \ {u} /\ \A y \in DOMAIN S \ {u} : T[y] = S[y]
  BY DEF Without, Restrict
<1>2. /\ \A y \in DOMAIN U \ {u} : y \in DOMAIN Without(U, u) /\ Without(U, u)[y] = U[y]
      /\ \A y \in DOMAIN U \ {u} : /\ y \in DOMAIN With(U, u, info)
                                   /\ With(U, u, info)[y] = U[y]
  BY DEF With, Without, Restrict
<1> HIDE DEF T
<1>3. ASSUME NEW y \in DOMAIN T
      PROVE  /\ y \in DOMAIN S \ {u} /\ T[y] = S[y] /\ GoodSession(T[y])
             /\ T[y].status = "OK" => y \in DOMAIN U \ {u} /\ T[y].under = U[y]
  BY <1>1, <1>3 DEF GoodSessions
<1>4. GoodSessions(T, Without(U, u)) /\ GoodSessions(T, With(U, u, info))
  BY <1>2, <1>3 DEF GoodSessions
<1> QED BY <1>4 DEF T

----------------------------------------------------------------------------
\* After a handler d keeps what c has of the path of requests.
Kept(c, d) ==
    /\ d.online = c.online /\ d.deferred = c.deferred /\ d.done = c.done
    /\ d.state = c.state /\ d.challenge = c.challenge

Plain(c, d) == Sane(d) /\ Kept(c, d)

\* Two plain steps after each other are a plain step.
LEMMA PlainTransitive ==
    ASSUME NEW a, NEW b, NEW c, Plain(a, b), Plain(b, c)
    PROVE  Plain(a, c)
BY DEF Plain, Kept

\* A response is put out.
LEMMA TxPlain ==
    ASSUME NEW c, Sane(c)
    PROVE  /\ Plain(c, c)
           /\ \A x : Plain(c, BeginTx(c, x))
           /\ \A r, code : Plain(c, TryRespondWithAuthError(c, r, code))
<1>1. Plain(c, c)
  BY DEF Plain, Kept
<1>2. ASSUME NEW x PROVE Plain(c, BeginTx(c, x))
  BY DEF BeginTx, Plain, Kept, Sane, Shaped
<1>3. ASSUME NEW r, NEW code PROVE Plain(c, TryRespondWithAuthError(c, r, code))
  BY <1>2 DEF TryRespondWithAuthError
<1> QED BY <1>1, <1>2, <1>3

\* New sessions that are good for the users, and new users.
LEMMA SessionsPlain ==
    ASSUME NEW c, Sane(c)
    PROVE  /\ \A S : GoodSessions(S, c.users) => Plain(c, [c EXCEPT !.sessions = S])
           /\ \A S, U : GoodSessions(S, U) => Plain(c, [c EXCEPT !.users = U, !.sessions = S])
<1>1. ASSUME NEW S, GoodSessions(S, c.users) PROVE Plain(c, [c EXCEPT !.sessions = S])
  BY <1>1 DEF Plain, Kept, Sane, Shaped
<1>2. ASSUME NEW S, NEW U, GoodSessions(S, U)
      PROVE  Plain(c, [c EXCEPT !.users = U, !.sessions = S])
  BY <1>2 DEF Plain, Kept, Sane, Shaped
<1> QED BY <1>1, <1>2

\* The fields that neither the sessions nor the path of the requests depend on.
LEMMA OtherFieldsPlain ==
    ASSUME NEW c, Sane(c), NEW x, NEW y
    PROVE  /\ Plain(c, [c EXCEPT !.keyChange = x])
           /\ Plain(c, [c EXCEPT !.pending = x])
           /\ Plain(c, [c EXCEPT !.scsn = x])
           /\ Plain(c, [c EXCEPT !.update = x])
           /\ Plain(c, [c EXCEPT !.nonces = x, !.update = y])
BY DEF Plain, Kept, Sane, Shaped

\* Answering with the key status makes a challenge of its own and nothing else.
LEMMA KeyStatusResponsePlain ==
    ASSUME NEW c, Sane(c), NEW r, NEW status, NEW hmac, NEW rng
    PROVE  Plain(c, KeyStatusResponse(c, r, status, hmac, rng))
<1> DEFINE k == [seq |-> c.keyChange.seq + 1, user |-> r.user]
           d == [c EXCEPT !.keyChange = k]
           x == [fn |-> "KeyStatus", seq |-> r.seq, ksq |-> c.keyChange.seq + 1,
                 status |-> status, hmac |-> hmac]
<1>1. KeyStatusResponse(c, r, status, hmac, rng) = IF rng THEN BeginTx(d, x) ELSE c
  BY DEF KeyStatusResponse
<1>2. Plain(c, d)
  <2> HIDE DEF k
  <2> QED BY OtherFieldsPlain
<1> HIDE DEF d, x
<1>3. Plain(d, BeginTx(d, x))
  BY <1>2, TxPlain DEF Plain
<1> QED BY <1>1, <1>2, <1>3, TxPlain, PlainTransitive

\* A request for the key status carries out nothing and defers nothing.
LEMMA RequestKeyStatusPlain ==
    ASSUME NEW c, Sane(c), NEW r, NEW rng
    PROVE  Plain(c, ProcessRequestKeyStatus(c, r, rng))
<1> DEFINE S == WithSession(c.sessions, r.user)
           d == [c EXCEPT !.sessions = S]
           e == KeyStatusResponse(d, r, S[r.user].status, Nothing, rng)
<1>1. ProcessRequestKeyStatus(c, r, rng) = c \/ ProcessRequestKeyStatus(c, r, rng) = e
  BY DEF ProcessRequestKeyStatus
<1>2. Plain(c, d)
  <2>1. GoodSessions(S, c.users)
    BY WithSessionGood DEF Sane
  <2> HIDE DEF S
  <2> QED BY <2>1, SessionsPlain
<1> HIDE DEF d
<1>3. Plain(d, e)
  BY <1>2, KeyStatusResponsePlain DEF Plain
<1> HIDE DEF e
<1> QED BY <1>1, <1>2, <1>3, TxPlain, PlainTransitive

\* Neither does a change of session keys, accepted or not.
LEMMA ChangeSessionKeysPlain ==
    ASSUME NEW c, Sane(c), NEW r, NEW rng
    PROVE  Plain(c, ProcessChangeSessionKeys(c, r, rng))
<1> DEFINE S == SetSessionKeys(c.sessions, r.user, r.wrap.key, c.users[r.user])
           d == [c EXCEPT !.sessions = S]
           h == [key |-> r.wrap.key, asdu |-> r.id]
           e == KeyStatusResponse(d, r, "OK", h, rng)
           p == ProcessChangeSessionKeys(c, r, rng)
<1>1. \/ p = c \/ p = TryRespondWithAuthError(c, r, "UNKNOWN_USER")
      \/ p = TryRespondWithAuthError(c, r, "AUTHENTICATION_FAILED")
      \/ p = e /\ r.user \in DOMAIN c.users
  BY DEF ProcessChangeSessionKeys
<1> HIDE DEF p
<1>2. ASSUME r.user \in DOMAIN c.users, p = e
      PROVE  Plain(c, p)
  <2>1. GoodSessions(S, c.users)
    BY <1>2, SetSessionGood DEF Sane
  <2>2. Plain(c, d)
    <3> HIDE DEF S
    <3> QED BY <2>1, SessionsPlain
  <2> HIDE DEF d, h
  <2>3. Plain(d, e)
    BY <2>2, KeyStatusResponsePlain DEF Plain
  <2> HIDE DEF e
  <2> QED BY <1>2, <2>2, <2>3, PlainTransitive
<1>3. Plain(c, p)
  BY <1>1, <1>2, TxPlain
<1> QED BY <1>3 DEF p

\* A user status change that waits for its update key touches no user yet.
LEMMA QueueUserStatusChangePlain ==
    ASSUME NEW c, Sane(c), NEW r
    PROVE  Plain(c, QueueUserStatusChange(c, r))
<1> DEFINE w == With(c.pending, r.name, r.role)
           d == [c EXCEPT !.pending = w]
<1>1. QueueUserStatusChange(c, r) = BeginTx(d, Null(r))
  BY DEF QueueUserStatusChange
<1>2. Plain(c, d)
  <2> HIDE DEF w
  <2> QED BY OtherFieldsPlain
<1> HIDE DEF d
<1> QED BY <1>1, <1>2, TxPlain, PlainTransitive DEF Plain

\* A user who is deleted takes the sessions along.
LEMMA DeletePlain ==
    ASSUME NEW c, Sane(c), NEW r
    PROVE  Plain(c, ProcessUserStatusChange_Delete(c, r))
<1> DEFINE u == FindByName(c.users, r.name)
           U == Without(c.users, u)
           S == Without(c.sessions, u)
           d == [c EXCEPT !.users = U, !.sessions = S]
           p == ProcessUserStatusChange_Delete(c, r)
<1>1. p = BeginTx(d, Null(r)) \/ p = TryRespondWithAuthError(c, r, "UNKNOWN_USER")
  BY DEF ProcessUserStatusChange_Delete, DeleteUser
<1>2. GoodSessions(S, U)
  BY RemovedGood DEF Sane
<1>3. Plain(c, d)
  <2> HIDE DEF S, U
  <2> QED BY <1>2, SessionsPlain
<1> HIDE DEF d, p
<1>4. Plain(c, p)
  BY <1>1, <1>3, TxPlain, PlainTransitive DEF Plain
<1> QED BY <1>4 DEF p

\* A user status change carries out nothing; a deleted user loses its session.
LEMMA UserStatusChangePlain ==
    ASSUME NEW c, Sane(c), NEW r, r.fn = "StatusChange", r.op \in {"ADD", "CHANGE", "DELETE"}
    PROVE  Plain(c, ProcessUserStatusChange(c, r))
<1> DEFINE d == [c EXCEPT !.scsn = r.scsn + 1]
           p == ProcessUserStatusChange(c, r)
<1>1. \/ p = c \/ p = TryRespondWithAuthError(c, r, "INVALID_CERTIFICATION_DATA")
      \/ p = QueueUserStatusChange(d, r) \/ p = TryRespondWithAuthError(d, r, "UNKNOWN_USER")
      \/ p = ProcessUserStatusChange_Delete(d, r)
  BY DEF ProcessUserStatusChange
<1>2. Plain(c, d)
  BY OtherFieldsPlain
<1> HIDE DEF d, p
<1>3. /\ Plain(d, QueueUserStatusChange(d, r)) /\ Plain(d, ProcessUserStatusChange_Delete(d, r))
      /\ Plain(d, TryRespondWithAuthError(d, r, "UNKNOWN_USER"))
  BY <1>2, QueueUserStatusChangePlain, DeletePlain, TxPlain DEF Plain
<1>4. Plain(c, p)
  BY <1>1, <1>2, <1>3, TxPlain, PlainTransitive
<1> QED BY <1>4 DEF p

\* The first step of an update key change carries out nothing.
LEMMA BeginUpdatePlain ==
    ASSUME NEW c, Sane(c), NEW r, NEW rng
    PROVE  Plain(c, ProcessBeginUpdateKeyChange(c, r, rng))
<1> DEFINE u == FindFreeUserId(c.users)
           n == c.nonces + 1
           k == [valid |-> TRUE, name |-> r.name, user |-> u, master |-> r.nonce, nonce |-> n]
           k2 == [c.update EXCEPT !.valid = FALSE]
           d == [c EXCEPT !.nonces = n, !.update = k]
           e == [c EXCEPT !.update = k2]
           x == [fn |-> "UpdateKeyChange", seq |-> r.seq, user |-> u, nonce |-> n]
           p == ProcessBeginUpdateKeyChange(c, r, rng)
<1>1. \/ p = TryRespondWithAuthError(c, r, "UNKNOWN_USER") \/ p = e \/ p = BeginTx(d, x)
  BY DEF ProcessBeginUpdateKeyChange
<1>2. Plain(c, d) /\ Plain(c, e)
  <2> HIDE DEF n, k, k2
  <2> QED BY OtherFieldsPlain
<1> HIDE DEF d, e, x, p
<1>3. Plain(d, BeginTx(d, x))
  BY <1>2, TxPlain DEF Plain
<1>4. Plain(c, p)
  BY <1>1, <1>2, <1>3, TxPlain, PlainTransitive
<1> QED BY <1>4 DEF p

\* A user whose update key is changed loses the session of the old one.
LEMMA FinishUpdatePlain ==
    ASSUME NEW c, Sane(c), NEW r, NEW expired
    PROVE  Plain(c, ProcessFinishUpdateKeyChange(c, r, expired))
<1> DEFINE v == c.update
           k == [v EXCEPT !.valid = FALSE]
           w == Without(c.pending, v.name)
           used == [c EXCEPT !.update = k]
           popped == [used EXCEPT !.pending = w]
           info == [name |-> v.name, role |-> c.pending[v.name], key |-> r.key]
           U == With(popped.users, v.user, info)
           S == Without(popped.sessions, v.user)
           d == [popped EXCEPT !.users = U, !.sessions = S]
           h == [key |-> r.key, nonce |-> v.nonce]
           x == [fn |-> "Confirmation", seq |-> r.seq, hmac |-> h]
           p == ProcessFinishUpdateKeyChange(c, r, expired)
<1>1. \/ p = TryRespondWithAuthError(c, r, "AUTHENTICATION_FAILED")
      \/ p = TryRespondWithAuthError(used, r, "AUTHENTICATION_FAILED")
      \/ p = TryRespondWithAuthError(used, r, "INVALID_SIGNATURE")
      \/ p = TryRespondWithAuthError(popped, r, "UNKNOWN_USER")
      \/ p = BeginTx(d, x)
  BY DEF ProcessFinishUpdateKeyChange, AddUser
<1>2. Plain(c, used)
  <2> HIDE DEF k
  <2> QED BY OtherFieldsPlain
<1>3. Plain(used, popped)
  <2> HIDE DEF used, w
  <2> QED BY <1>2, OtherFieldsPlain DEF Plain
<1> HIDE DEF used, popped
<1>4. GoodSessions(S, U)
  BY <1>3, RemovedGood DEF Plain, Sane
<1>5. Plain(popped, d)
  <2> HIDE DEF S, U
  <2> QED BY <1>3, <1>4, SessionsPlain DEF Plain
<1> HIDE DEF d, x, p
<1>6. Plain(c, popped) /\ Plain(c, d)
  BY <1>2, <1>3, <1>5, PlainTransitive
<1>7. /\ Plain(c, BeginTx(d, x)) /\ Plain(c, TryRespondWithAuthError(popped, r, "UNKNOWN_USER"))
      /\ Plain(c, TryRespondWithAuthError(used, r, "AUTHENTICATION_FAILED"))
      /\ Plain(c, TryRespondWithAuthError(used, r, "INVALID_SIGNATURE"))
      /\ Plain(c, TryRespondWithAuthError(c, r, "AUTHENTICATION_FAILED"))
  <2>1. Sane(d) /\ Sane(popped) /\ Sane(used)
    BY <1>2, <1>3, <1>5 DEF Plain
  <2> QED BY <1>2, <1>6, <2>1, TxPlain, PlainTransitive
<1>8. Plain(c, p)
  BY <1>1, <1>7
<1> QED BY <1>8 DEF p

\* The outstation is idle again, and may have carried out what it had challenged.
Replied(c, d, r) ==
    /\ Sane(d) /\ d.online = c.online /\ d.deferred = c.deferred /\ d.state = "IDLE"
    /\ LET x == c.challenge.asdu
       IN  \/ d.done = c.done
           \/ /\ c.state # "IDLE" /\ r.hmac.asdu = x.id /\ HasValidKeys(c.sessions, r.user)
              /\ d.done = Append(c.done, [id |-> x.id, by |-> x.by, user |-> r.user])

\* Going back to idle forgets the challenge and nothing else.
LEMMA IdleSane ==
    ASSUME NEW c, Sane(c)
    PROVE  /\ Sane(Idle(c)) /\ Idle(c).online = c.online /\ Idle(c).deferred = c.deferred
           /\ Idle(c).done = c.done /\ Idle(c).state = "IDLE"
           /\ Idle(c).sessions = c.sessions /\ Idle(c).users = c.users
BY DEF Idle, Sane, Shaped

\* A reply to a challenge either carries out what was challenged or carries out nothing.
LEMMA ReplyEffect ==
    ASSUME NEW c, Sane(c), NEW r
    PROVE  Plain(c, ProcessChallengeReply(c, r)) \/ Replied(c, ProcessChallengeReply(c, r), r)
<1> DEFINE x == c.challenge.asdu
           z == Idle(c)
           S == Checked(z.sessions, r.user)
           i == [z EXCEPT !.sessions = S]
           T == With(i.sessions, r.user, IncrementAuthCount(i.sessions[r.user]))
           v == [i EXCEPT !.sessions = T]
           e == [id |-> x.id, by |-> x.by, user |-> r.user]
           a == ProcessAPDU(v, x)
           p == ProcessChallengeReply(c, r)
<1>1. /\ Sane(z) /\ z.online = c.online /\ z.deferred = c.deferred /\ z.done = c.done
      /\ z.state = "IDLE" /\ z.sessions = c.sessions /\ z.users = c.users
  BY IdleSane
<1>2. \/ p = c
      \/ p = TryRespondWithAuthError(i, r, "AUTHENTICATION_FAILED")
      \/ /\ HasValidKeys(c.sessions, r.user)
         /\ \/ p = TryRespondWithAuthError(v, r, "AUTHORIZATION_FAILED")
            \/ /\ p = [a EXCEPT !.done = Append(@, e)]
               /\ c.state # "IDLE" /\ r.hmac.asdu = x.id
  BY DEF ProcessChallengeReply, CarryOut, VerifyAuthenticity
<1> HIDE DEF z, p
<1>3. /\ GoodSessions(S, z.users)
      /\ HasValidKeys(c.sessions, r.user) => r.user \in DOMAIN S
  BY <1>1, CheckedGood DEF Sane
<1>4. Plain(z, i) /\ i.sessions = S /\ i.users = z.users
  <2> HIDE DEF S
  <2> QED BY <1>1, <1>3, SessionsPlain DEF Sane, Shaped
<1> HIDE DEF S, i
<1>5. HasValidKeys(c.sessions, r.user) => Plain(i, v)
  <2>1. HasValidKeys(c.sessions, r.user) => GoodSessions(T, i.users)
    BY <1>3, <1>4, IncrementGood
  <2> HIDE DEF T
  <2> QED BY <1>4, <2>1, SessionsPlain DEF Plain
<1> HIDE DEF v
<1>6. Plain(z, TryRespondWithAuthError(i, r, "AUTHENTICATION_FAILED"))
  BY <1>4, TxPlain, PlainTransitive DEF Plain
<1>7. HasValidKeys(c.sessions, r.user) =>
         Plain(z, TryRespondWithAuthError(v, r, "AUTHORIZATION_FAILED")) /\ Plain(z, a)
  BY <1>4, <1>5, TxPlain, PlainTransitive DEF Plain, ProcessAPDU
<1>8. ASSUME NEW d, Plain(z, d) PROVE Replied(c, d, r)
  BY <1>1, <1>8 DEF Plain, Kept, Replied
<1>9. ASSUME HasValidKeys(c.sessions, r.user), p = [a EXCEPT !.done = Append(@, e)],
             c.state # "IDLE", r.hmac.asdu = x.id
      PROVE  Replied(c, p, r)
  <2>1. Plain(z, a)
    BY <1>7, <1>9
  <2> HIDE DEF a
  <2>2. a.done = c.done /\ a.online = c.online /\ a.deferred = c.deferred /\ a.state = "IDLE"
    BY <1>1, <2>1 DEF Plain, Kept
  <2> DEFINE q == Append(c.done, e)
  <2>3. p = [a EXCEPT !.done = q]
    BY <1>9, <2>2
  <2>4. Sane(p) /\ p.done = q /\ p.online = a.online /\ p.deferred = a.deferred /\ p.state = a.state
    <3> HIDE DEF q
    <3> QED BY <2>1, <2>3 DEF Plain, Sane, Shaped
  <2> QED BY <1>9, <2>2, <2>4 DEF Replied
<1>10. Plain(c, p) \/ Replied(c, p, r)
  BY <1>2, <1>6, <1>7, <1>8, <1>9, TxPlain
<1> QED BY <1>10 DEF p

\* The outstation waits for the reply to its challenge of r.
Challenges(c, d, r) ==
    /\ Sane(d) /\ d.online = c.online /\ d.deferred = c.deferred /\ d.done = c.done
    /\ c.state # "WAIT_FOR_REPLY" /\ d.state = "WAIT_FOR_REPLY" /\ d.challenge.asdu = r
    /\ r.fn # "Normal"

\* A request is challenged, or refused without an effect.
LEMMA NormalEffect ==
    ASSUME NEW c, Sane(c), NEW r, NEW rng
    PROVE  \/ Plain(c, ProcessNormalFunction(c, r, rng))
           \/ Challenges(c, ProcessNormalFunction(c, r, rng), r)
<1> DEFINE k == [seq |-> c.challenge.seq + 1, asdu |-> r]
           d == [c EXCEPT !.challenge = k, !.state = "WAIT_FOR_REPLY", !.timer = TRUE]
           x == [fn |-> "Challenge", seq |-> r.seq, csq |-> c.challenge.seq + 1]
           p == ProcessNormalFunction(c, r, rng)
<1>1. \/ p = c \/ p = ProcessAPDU(c, r)
      \/ p = BeginTx(d, x) /\ c.state # "WAIT_FOR_REPLY" /\ r.fn # "Normal"
  BY DEF ProcessNormalFunction, TransmitChallenge
<1>3. /\ Sane(d) /\ d.online = c.online /\ d.deferred = c.deferred /\ d.done = c.done
      /\ d.state = "WAIT_FOR_REPLY" /\ d.challenge.asdu = r
  BY DEF Sane, Shaped
<1> HIDE DEF d, x, p
<1>4. Plain(d, BeginTx(d, x))
  BY <1>3, TxPlain
<1>5. Plain(c, p) \/ Challenges(c, p, r)
  BY <1>1, <1>3, <1>4, TxPlain DEF Challenges, Plain, Kept, ProcessAPDU
<1> QED BY <1>5 DEF p

\* What becomes of one request.
Handles(c, d, r) ==
    \/ Plain(c, d)
    \/ r.fn = "Reply" /\ Replied(c, d, r)
    \/ r.fn = "Critical" /\ Challenges(c, d, r)

\* Every authentication message does one of the things above.
LEMMA AuthAPDUEffect ==
    ASSUME NEW c, Sane(c), NEW r, NEW V, Honest(r, V), r.fn # "Nothing", NEW rng, NEW expired
    PROVE  Handles(c, ProcessAuthAPDU(c, r, rng, expired), r)
<1>1. r.fn \in Functions
  BY DEF Honest
<1>2. CASE r.fn = "Reply"
  BY <1>2, ReplyEffect DEF ProcessAuthAPDU, Handles
<1>3. CASE r.fn = "StatusChange"
  BY <1>3, UserStatusChangePlain DEF ProcessAuthAPDU, Handles, Honest
<1>4. CASE r.fn \in {"KeyStatus", "ChangeKeys", "BeginUpdate", "FinishUpdate"}
  BY <1>4, RequestKeyStatusPlain, ChangeSessionKeysPlain, BeginUpdatePlain, FinishUpdatePlain
     DEF ProcessAuthAPDU, Handles
<1>5. CASE r.fn \in {"Normal", "Critical"}
  <2>1. ProcessAuthAPDU(c, r, rng, expired) = ProcessNormalFunction(c, r, rng)
    BY <1>5 DEF ProcessAuthAPDU
  <2> QED BY <1>5, <2>1, NormalEffect DEF Handles, Challenges
<1> QED BY <1>1, <1>2, <1>3, <1>4, <1>5 DEF Functions

----------------------------------------------------------------------------
\* The order of the numbers.
LEMMA OrderedMonotone ==
    ASSUME NEW c, NEW V, NEW n \in Nat, NEW k \in Nat, n <= k, Ordered(c, n, V)
    PROVE  Ordered(c, k, V)
<1>1. Challenged(c, k, V)
  BY DEF Ordered, Challenged, Honest, Numbered
<1>2. Deferred(c, k, V)
  BY DEF Ordered, Deferred, Later, Honest
<1>3. Done(c, k, V)
  BY DEF Ordered, Done
<1> QED BY <1>1, <1>2, <1>3 DEF Ordered

\* A request with a new number is later than all that the outstation holds.
LEMMA NewIsLater ==
    ASSUME NEW c, NEW V, NEW n \in Nat, NEW k \in Nat, n <= k, Ordered(c, n, V),
           NEW r, Honest(r, V), Numbered(r) => n < r.id /\ r.id <= k
    PROVE  Later(c, r, k, V)
<1> SUFFICES ASSUME Numbered(r)
             PROVE  /\ \A i \in DOMAIN c.done : c.done[i].id < r.id
                    /\ c.state = "WAIT_FOR_REPLY" => c.challenge.asdu.id < r.id
  BY DEF Later
<1>1. r.id \in Nat /\ n < r.id
  BY DEF Honest
<1>2. \A i \in DOMAIN c.done : c.done[i].id < r.id
  BY <1>1 DEF Ordered, Done
<1>3. c.state = "WAIT_FOR_REPLY" => c.challenge.asdu.id < r.id
  BY <1>1 DEF Ordered, Challenged, Honest, Numbered
<1> QED BY <1>2, <1>3

\* The requests that c holds, and what a step may add to them.
Holds(c, x) == x = c.deferred \/ (c.state = "WAIT_FOR_REPLY" /\ x = c.challenge.asdu)
AddsAtMost(c, d, r) == \A x : Holds(d, x) => Holds(c, x) \/ x = r \/ x = Nothing

\* What is carried out was vouched for, for the user who issued it.
LEMMA CarriedOut ==
    ASSUME NEW c, NEW V, NEW n \in Nat, Ordered(c, n, V), c.state # "IDLE",
           NEW r, Honest(r, V), r.fn = "Reply", r.hmac.asdu = c.challenge.asdu.id,
           NEW d, d.done = Append(c.done, [id |-> c.challenge.asdu.id, by |-> c.challenge.asdu.by,
                                           user |-> r.user])
    PROVE  Done(d, n, V)
<1> DEFINE x == c.challenge.asdu
           v == [id |-> r.hmac.asdu, user |-> r.user]
           e == [id |-> x.id, by |-> x.by, user |-> r.user]
<1>1. /\ x.fn = "Critical" /\ Honest(x, V) /\ x.id <= n
      /\ \A i \in DOMAIN c.done : c.done[i].id < x.id
  BY DEF Ordered, Challenged
<1>2. v \in V /\ v.id = x.id
  BY DEF Honest
<1>3. x.id \in Nat /\ r.user = x.by
  BY <1>1, <1>2 DEF Honest, Numbered, UserRequest
<1>4. e \in Vouched(V) /\ e.id = x.id
  <2>1. e = [id |-> v.id, by |-> v.user, user |-> v.user]
    BY <1>2, <1>3
  <2> QED BY <1>2, <2>1 DEF Vouched
<1>5. /\ c.done \in Seq(Vouched(V))
      /\ \A i \in DOMAIN c.done : c.done[i].id \in Nat /\ c.done[i].id <= n
      /\ \A i, j \in DOMAIN c.done : i < j => c.done[i].id < c.done[j].id
  BY DEF Ordered, Done
<1> HIDE DEF e, x
<1>6. d.done = Append(c.done, e)
  BY DEF e, x
<1> DEFINE s == c.done
           t == d.done
<1>7. /\ t \in Seq(Vouched(V)) /\ Len(t) = Len(s) + 1 /\ Len(s) \in Nat
      /\ DOMAIN s = 1 .. Len(s) /\ DOMAIN t = 1 .. Len(t)
      /\ \A i \in 1 .. Len(s) : t[i] = s[i]
      /\ t[Len(s) + 1] = e
  BY <1>4, <1>5, <1>6
<1> HIDE DEF s, t
<1>8. \A i \in DOMAIN s : s[i].id \in Nat /\ s[i].id <= n /\ s[i].id < x.id
  BY <1>1, <1>5 DEF s, x
<1>9. \A i, j \in DOMAIN s : i < j => s[i].id < s[j].id
  BY <1>5 DEF s
<1>10. x.id \in Nat /\ x.id <= n /\ e.id = x.id
  BY <1>1, <1>3, <1>4 DEF x
<1>11. \A i \in DOMAIN t : t[i].id \in Nat /\ t[i].id <= n
  BY <1>7, <1>8, <1>10
<1>12. ASSUME NEW i \in DOMAIN t, NEW j \in DOMAIN t, i < j PROVE t[i].id < t[j].id
  <2>1. i \in DOMAIN s /\ t[i] = s[i]
    BY <1>7, <1>12
  <2>2. CASE j \in DOMAIN s
    BY <1>7, <1>9, <1>12, <2>1, <2>2
  <2>3. CASE j \notin DOMAIN s
    <3>1. j = Len(s) + 1
      BY <1>7, <2>3
    <3> QED BY <1>7, <1>8, <1>10, <2>1, <3>1
  <2> QED BY <2>2, <2>3
<1> QED BY <1>7, <1>11, <1>12 DEF Done, t

\* A handler keeps the order.
LEMMA HandledOrdered ==
    ASSUME NEW c, NEW V, NEW n \in Nat, Ordered(c, n, V), c.deferred = Nothing,
           NEW r, Later(c, r, n, V), NEW d, Handles(c, d, r)
    PROVE  Ordered(d, n, V) /\ Sane(d) /\ d.deferred = Nothing /\ AddsAtMost(c, d, r)
<1>1. Nothing.fn = "Nothing"
  BY DEF Nothing
<1>2. CASE Plain(c, d)
  <2>1. /\ Sane(d) /\ Shaped(d) /\ d.deferred = c.deferred /\ d.done = c.done
        /\ d.state = c.state /\ d.challenge = c.challenge
    BY <1>2 DEF Plain, Kept, Sane
  <2>2. Challenged(d, n, V) /\ Deferred(d, n, V) /\ Done(d, n, V)
    BY <2>1 DEF Ordered, Challenged, Deferred, Later, Done
  <2> QED BY <2>1, <2>2 DEF Ordered, AddsAtMost, Holds
<1>3. CASE r.fn = "Reply" /\ Replied(c, d, r)
  <2>1. Sane(d) /\ Shaped(d) /\ d.deferred = Nothing /\ d.state = "IDLE"
    BY <1>3 DEF Replied, Sane
  <2>2. Challenged(d, n, V)
    BY <2>1 DEF Challenged
  <2>3. Honest(Nothing, V)
    BY <1>1 DEF Honest, UserRequest, Numbered
  <2>4. Deferred(d, n, V)
    BY <1>1, <2>1, <2>3 DEF Deferred, Later, Numbered
  <2>5. Done(d, n, V)
    <3>1. CASE d.done = c.done
      BY <3>1 DEF Ordered, Done
    <3>2. CASE d.done # c.done
      BY <1>3, <3>2, CarriedOut DEF Replied, Later
    <3> QED BY <3>1, <3>2
  <2> QED BY <2>1, <2>2, <2>4, <2>5 DEF Ordered, AddsAtMost, Holds
<1>4. CASE r.fn = "Critical" /\ Challenges(c, d, r)
  <2>1. /\ Sane(d) /\ Shaped(d) /\ d.deferred = Nothing /\ d.state = "WAIT_FOR_REPLY"
        /\ d.done = c.done /\ d.challenge.asdu = r
    BY <1>4 DEF Challenges, Sane
  <2>2. Challenged(d, n, V)
    BY <1>4, <2>1 DEF Challenged, Later, Numbered
  <2>3. Honest(Nothing, V)
    BY <1>1 DEF Honest, UserRequest, Numbered
  <2>4. Deferred(d, n, V)
    BY <1>1, <2>1, <2>3 DEF Deferred, Later, Numbered
  <2>5. Done(d, n, V)
    BY <2>1 DEF Ordered, Done
  <2> QED BY <2>1, <2>2, <2>4, <2>5 DEF Ordered, AddsAtMost, Holds
<1> QED BY <1>2, <1>3, <1>4 DEF Handles

----------------------------------------------------------------------------
\* The entry points of the outstation.
LEMMA TaskStartGood ==
    ASSUME NEW c, NEW V, NEW n \in Nat, Sane(c), Ordered(c, n, V), NEW rng, NEW expired
    PROVE  LET d == CheckForTaskStart(c, rng, expired)
           IN  GoodOutstation(d, n, V) /\ AddsAtMost(c, d, Nothing)
<1> DEFINE d == CheckForTaskStart(c, rng, expired)
<1>1. ASSUME ~(CanTransmit(c) /\ c.deferred # Nothing)
      PROVE  GoodOutstation(d, n, V) /\ AddsAtMost(c, d, Nothing)
  <2>1. d = c
    BY <1>1 DEF CheckForTaskStart
  <2> QED BY <1>1, <2>1 DEF GoodOutstation, AddsAtMost
<1>2. ASSUME CanTransmit(c), c.deferred # Nothing
      PROVE  GoodOutstation(d, n, V) /\ AddsAtMost(c, d, Nothing)
  <2> DEFINE r == c.deferred
             e == [c EXCEPT !.deferred = Nothing]
  <2>1. d = ProcessAuthAPDU(e, r, rng, expired)
    BY <1>2 DEF CheckForTaskStart
  <2>2. /\ Sane(e) /\ e.deferred = Nothing /\ e.done = c.done
        /\ e.state = c.state /\ e.challenge = c.challenge
    BY DEF Sane, Shaped
  <2> HIDE DEF d, e
  <2>3. Later(c, r, n, V) /\ r.fn # "Nothing"
    BY <1>2 DEF Ordered, Deferred
  <2>4. Later(e, r, n, V) /\ Honest(r, V)
    BY <2>2, <2>3 DEF Later
  <2>5. Ordered(e, n, V)
    <3>1. Nothing.fn = "Nothing"
      BY DEF Nothing
    <3>2. Honest(Nothing, V)
      BY <3>1 DEF Honest, UserRequest, Numbered
    <3>3. Deferred(e, n, V)
      BY <2>2, <3>1, <3>2 DEF Deferred, Later, Numbered
    <3>4. Challenged(e, n, V) /\ Done(e, n, V)
      BY <2>2 DEF Ordered, Challenged, Done
    <3> QED BY <2>2, <3>3, <3>4 DEF Ordered, Sane
  <2>6. Handles(e, d, r)
    BY <2>1, <2>2, <2>3, <2>4, AuthAPDUEffect
  <2>7. Ordered(d, n, V) /\ Sane(d) /\ d.deferred = Nothing /\ AddsAtMost(e, d, r)
    BY <2>2, <2>4, <2>5, <2>6, HandledOrdered
  <2>8. AddsAtMost(c, d, Nothing)
    BY <2>2, <2>7 DEF AddsAtMost, Holds
  <2> QED BY <2>7, <2>8 DEF GoodOutstation
<1> QED BY <1>1, <1>2

\* The outstation that has handled a message is as good as before, up to that message.
LEMMA ReceiveGood ==
    ASSUME NEW c, NEW V, NEW n \in Nat, NEW k \in Nat, n <= k, GoodOutstation(c, n, V),
           NEW r, Honest(r, V), r.fn # "Nothing", Numbered(r) => n < r.id /\ r.id <= k,
           NEW rng, NEW expired
    PROVE  LET d == ReceiveParsedHeader(c, r, rng, expired)
           IN  GoodOutstation(d, k, V) /\ AddsAtMost(c, d, r)
<1> DEFINE d == ReceiveParsedHeader(c, r, rng, expired)
<1>1. Sane(c) /\ Ordered(c, k, V) /\ Later(c, r, k, V)
  BY OrderedMonotone, NewIsLater DEF GoodOutstation
<1>2. ASSUME CanTransmit(c) PROVE GoodOutstation(d, k, V) /\ AddsAtMost(c, d, r)
  <2>1. c.deferred = Nothing /\ d = ProcessAuthAPDU(c, r, rng, expired)
    BY <1>2 DEF GoodOutstation, ReceiveParsedHeader
  <2> HIDE DEF d
  <2>2. Handles(c, d, r)
    BY <1>1, <2>1, AuthAPDUEffect
  <2>3. Ordered(d, k, V) /\ Sane(d) /\ d.deferred = Nothing /\ AddsAtMost(c, d, r)
    BY <1>1, <2>1, <2>2, HandledOrdered
  <2> QED BY <2>3 DEF GoodOutstation
<1>3. ASSUME ~CanTransmit(c) PROVE GoodOutstation(d, k, V) /\ AddsAtMost(c, d, r)
  <2>1. d = [c EXCEPT !.deferred = r]
    BY <1>3 DEF ReceiveParsedHeader
  <2>2. /\ Sane(d) /\ d.deferred = r /\ d.done = c.done /\ ~CanTransmit(d)
        /\ d.state = c.state /\ d.challenge = c.challenge
    BY <1>1, <1>3, <2>1 DEF Sane, Shaped, CanTransmit
  <2> HIDE DEF d
  <2>3. Deferred(d, k, V)
    BY <1>1, <2>2 DEF Deferred, Later
  <2>4. Challenged(d, k, V) /\ Done(d, k, V)
    BY <1>1, <2>2 DEF Ordered, Challenged, Done
  <2>5. AddsAtMost(c, d, r)
    BY <2>2 DEF AddsAtMost, Holds
  <2> QED BY <2>2, <2>3, <2>4, <2>5 DEF GoodOutstation, Ordered, Sane
<1> QED BY <1>2, <1>3

\* A change of the fields that only steer when the outstation acts.
LEMMA SteeringGood ==
    ASSUME NEW c, NEW V, NEW n \in Nat, Sane(c), Ordered(c, n, V), NEW x
    PROVE  /\ LET d == [c EXCEPT !.isTransmitting = FALSE]
              IN  Sane(d) /\ Ordered(d, n, V) /\ AddsAtMost(c, d, Nothing)
           /\ LET d == [c EXCEPT !.online = TRUE]
              IN  Sane(d) /\ Ordered(d, n, V) /\ AddsAtMost(c, d, Nothing)
           /\ LET d == [c EXCEPT !.tx = Nothing]
              IN  /\ Sane(d) /\ Ordered(d, n, V) /\ AddsAtMost(c, d, Nothing)
                  /\ d.deferred = c.deferred /\ CanTransmit(d) = CanTransmit(c)
<1>1. ASSUME NEW d, Sane(d), d.deferred = c.deferred, d.done = c.done, d.state = c.state,
             d.challenge = c.challenge
      PROVE  Sane(d) /\ Ordered(d, n, V) /\ AddsAtMost(c, d, Nothing)
  <2>1. Challenged(d, n, V) /\ Deferred(d, n, V) /\ Done(d, n, V)
    BY <1>1 DEF Ordered, Challenged, Deferred, Later, Done
  <2> QED BY <1>1, <2>1 DEF Ordered, Sane, AddsAtMost, Holds
<1> DEFINE d == [c EXCEPT !.isTransmitting = FALSE]
           e == [c EXCEPT !.online = TRUE]
           f == [c EXCEPT !.tx = Nothing]
<1>2. /\ Sane(d) /\ d.deferred = c.deferred /\ d.done = c.done /\ d.state = c.state
      /\ d.challenge = c.challenge
  BY DEF Sane, Shaped
<1>3. /\ Sane(e) /\ e.deferred = c.deferred /\ e.done = c.done /\ e.state = c.state
      /\ e.challenge = c.challenge
  BY DEF Sane, Shaped
<1>4. /\ Sane(f) /\ f.deferred = c.deferred /\ f.done = c.done /\ f.state = c.state
      /\ f.challenge = c.challenge /\ CanTransmit(f) = CanTransmit(c)
  BY DEF Sane, Shaped, CanTransmit
<1> HIDE DEF d, e, f
<1>5. Sane(d) /\ Ordered(d, n, V) /\ AddsAtMost(c, d, Nothing)
  BY <1>1, <1>2
<1>6. Sane(e) /\ Ordered(e, n, V) /\ AddsAtMost(c, e, Nothing)
  BY <1>1, <1>3
<1>7. Sane(f) /\ Ordered(f, n, V) /\ AddsAtMost(c, f, Nothing)
  BY <1>1, <1>4
<1> QED BY <1>4, <1>5, <1>6, <1>7 DEF d, e, f

\* The step of the outstation that does what the handler made of it.
LEMMA DoesGood ==
    ASSUME NEW V, NEW n \in Nat, NEW d, GoodOutstation(d, n, V), NEW r, AddsAtMost(o, d, r),
           OutstationDoes(d)
    PROVE  GoodOutstation(o', n, V) /\ AddsAtMost(o, o', r)
<1> DEFINE e == [d EXCEPT !.tx = Nothing]
<1>1. o' = e
  BY DEF OutstationDoes
<1>2. /\ Sane(e) /\ Ordered(e, n, V) /\ AddsAtMost(d, e, Nothing)
      /\ e.deferred = d.deferred /\ CanTransmit(e) = CanTransmit(d)
  BY SteeringGood DEF GoodOutstation
<1> HIDE DEF e
<1>3. GoodOutstation(e, n, V)
  BY <1>2 DEF GoodOutstation
<1>4. AddsAtMost(o, e, r)
  BY <1>2 DEF AddsAtMost
<1> QED BY <1>1, <1>3, <1>4

----------------------------------------------------------------------------
\* The requests under way.
LEMMA RangeSequence ==
    ASSUME NEW S, NEW q \in Seq(S)
    PROVE  IsSequence(q)
<1> DEFINE R == {q[i] : i \in DOMAIN q}
<1>1. q \in [1 .. Len(q) -> R] /\ Len(q) \in Nat
  OBVIOUS
<1> HIDE DEF R
<1>2. q \in Seq(R)
  BY <1>1
<1> QED BY <1>2 DEF IsSequence, R

\* Length, head, tail and append of a sequence, said of its domain.
LEMMA SequenceFacts ==
    ASSUME NEW q, IsSequence(q)
    PROVE  /\ Len(q) \in Nat /\ DOMAIN q = 1 .. Len(q)
           /\ q # <<>> => /\ IsSequence(Tail(q)) /\ 1 \in DOMAIN q /\ Head(q) = q[1]
                          /\ Len(Tail(q)) = Len(q) - 1 /\ DOMAIN Tail(q) = 1 .. Len(Tail(q))
                          /\ \A i \in DOMAIN Tail(q) : i + 1 \in DOMAIN q /\ Tail(q)[i] = q[i + 1]
           /\ \A x : LET p == Append(q, x)
                     IN  /\ IsSequence(p) /\ Len(p) = Len(q) + 1 /\ DOMAIN p = 1 .. Len(p)
                         /\ p[Len(p)] = x
                         /\ \A i \in DOMAIN q : p[i] = q[i]
<1> DEFINE R == {q[i] : i \in DOMAIN q}
<1>1. q \in Seq(R)
  BY DEF IsSequence
<1> HIDE DEF R
<1>2. Len(q) \in Nat /\ DOMAIN q = 1 .. Len(q)
  BY <1>1
<1>3. ASSUME q # <<>>
      PROVE  /\ IsSequence(Tail(q)) /\ 1 \in DOMAIN q /\ Head(q) = q[1]
             /\ Len(Tail(q)) = Len(q) - 1 /\ DOMAIN Tail(q) = 1 .. Len(Tail(q))
             /\ \A i \in DOMAIN Tail(q) : i + 1 \in DOMAIN q /\ Tail(q)[i] = q[i + 1]
  <2>1. Tail(q) \in Seq(R)
    BY <1>1, <1>3
  <2>2. IsSequence(Tail(q))
    BY <2>1, RangeSequence
  <2> QED BY <1>1, <1>3, <2>2
<1>4. ASSUME NEW x
      PROVE  LET p == Append(q, x)
             IN  /\ IsSequence(p) /\ Len(p) = Len(q) + 1 /\ DOMAIN p = 1 .. Len(p)
                 /\ p[Len(p)] = x
                 /\ \A i \in DOMAIN q : p[i] = q[i]
  <2>1. q \in Seq(R \cup {x})
    BY <1>1
  <2>2. Append(q, x) \in Seq(R \cup {x})
    BY <2>1
  <2>3. IsSequence(Append(q, x))
    BY <2>2, RangeSequence
  <2> QED BY <2>1, <2>2, <2>3
<1> QED BY <1>2, <1>3, <1>4

\* A request leaves, to the outstation or for good.
LEMMA TailUnderWay ==
    ASSUME NEW q, NEW V, NEW n \in Nat, NEW k \in Nat, n <= k, UnderWay(q, n, V, k), q # <<>>
    PROVE  /\ UnderWay(Tail(q), n, V, k)
           /\ LET r == Head(q)
                  j == IF Numbered(r) THEN r.id ELSE n
              IN  /\ j \in n .. k /\ UnderWay(Tail(q), j, V, k)
                  /\ Honest(r, V) /\ r.fn # "Nothing" /\ (Numbered(r) => n < r.id /\ r.id <= j)
<1> DEFINE t == Tail(q)
           r == Head(q)
           j == IF Numbered(r) THEN r.id ELSE n
<1>1. /\ IsSequence(t) /\ 1 \in DOMAIN q /\ r = q[1] /\ DOMAIN q \subseteq Nat
      /\ DOMAIN t \subseteq Nat \ {0} /\ \A i \in DOMAIN t : i + 1 \in DOMAIN q /\ t[i] = q[i + 1]
  <2>1. IsSequence(q)
    BY DEF UnderWay
  <2> QED BY <2>1, SequenceFacts
<1> HIDE DEF t, r
<1>2. /\ Honest(r, V) /\ r.fn # "Nothing" /\ (Numbered(r) => n < r.id /\ r.id <= k)
  BY <1>1 DEF UnderWay
<1>3. j \in n .. k /\ (Numbered(r) => n < r.id /\ r.id <= j) /\ j \in Nat
  BY <1>2 DEF Honest
<1>4. ASSUME NEW i \in DOMAIN t
      PROVE  /\ t[i].fn # "Nothing" /\ Honest(t[i], V)
             /\ Numbered(t[i]) => n < t[i].id /\ t[i].id <= k /\ j < t[i].id
  <2>1. t[i] = q[i + 1] /\ i + 1 \in DOMAIN q /\ 1 < i + 1
    BY <1>1
  <2>2. Numbered(r) /\ Numbered(q[i + 1]) => q[1].id < q[i + 1].id
    BY <1>1, <2>1 DEF UnderWay
  <2> QED BY <1>1, <2>1, <2>2 DEF UnderWay
<1>5. ASSUME NEW i \in DOMAIN t, NEW l \in DOMAIN t, i < l, Numbered(t[i]), Numbered(t[l])
      PROVE  t[i].id < t[l].id
  <2>1. /\ i + 1 \in DOMAIN q /\ l + 1 \in DOMAIN q /\ i + 1 < l + 1
        /\ t[i] = q[i + 1] /\ t[l] = q[l + 1]
    BY <1>1, <1>5
  <2> QED BY <1>5, <2>1 DEF UnderWay
<1>6. UnderWay(t, n, V, k) /\ UnderWay(t, j, V, k)
  BY <1>1, <1>4, <1>5 DEF UnderWay
<1> QED BY <1>2, <1>3, <1>6 DEF t, r

\* A request is sent, with the next number.
LEMMA AppendUnderWay ==
    ASSUME NEW q, NEW V, NEW n \in Nat, NEW k \in Nat, NEW l \in Nat, k <= l,
           n <= k, UnderWay(q, n, V, k),
           NEW r, r.fn # "Nothing", Honest(r, V), Numbered(r) => k < r.id /\ r.id <= l
    PROVE  UnderWay(Append(q, r), n, V, l)
<1> DEFINE p == Append(q, r)
<1>1. /\ IsSequence(p) /\ Len(q) \in Nat /\ Len(p) = Len(q) + 1
      /\ DOMAIN p = 1 .. Len(p) /\ DOMAIN q = 1 .. Len(q)
      /\ p[Len(p)] = r /\ \A i \in DOMAIN q : p[i] = q[i]
  <2>1. IsSequence(q)
    BY DEF UnderWay
  <2> QED BY <2>1, SequenceFacts
<1> HIDE DEF p
<1>2. Numbered(r) => r.id \in Nat /\ k < r.id /\ r.id <= l
  BY DEF Honest
<1>3. \A i \in DOMAIN q : /\ q[i].fn # "Nothing" /\ Honest(q[i], V)
                          /\ Numbered(q[i]) => q[i].id \in Nat /\ n < q[i].id /\ q[i].id <= k
  BY DEF UnderWay, Honest
<1>4. ASSUME NEW i \in DOMAIN p
      PROVE  /\ p[i].fn # "Nothing" /\ Honest(p[i], V)
             /\ Numbered(p[i]) => n < p[i].id /\ p[i].id <= l
  <2>1. CASE i \in DOMAIN q
    BY <1>1, <1>3, <2>1
  <2>2. CASE i \notin DOMAIN q
    <3>1. p[i] = r
      BY <1>1, <2>2
    <3> QED BY <1>2, <3>1
  <2> QED BY <2>1, <2>2
<1>5. ASSUME NEW i \in DOMAIN p, NEW j \in DOMAIN p, i < j, Numbered(p[i]), Numbered(p[j])
      PROVE  p[i].id < p[j].id
  <2>1. i \in DOMAIN q /\ p[i] = q[i]
    BY <1>1, <1>5
  <2>2. CASE j \in DOMAIN q
    BY <1>1, <1>5, <2>1, <2>2 DEF UnderWay
  <2>3. CASE j \notin DOMAIN q
    <3>1. p[j] = r
      BY <1>1, <2>3
    <3> QED BY <1>2, <1>3, <1>5, <2>1, <3>1
  <2> QED BY <2>2, <2>3
<1>6. UnderWay(p, n, V, l)
  BY <1>1, <1>4, <1>5 DEF UnderWay
<1> QED BY <1>6 DEF p

----------------------------------------------------------------------------
\* Steps of the outstation, and of the channel.
From(q, p) == \A j \in DOMAIN q : \E i \in DOMAIN p : q[j] = p[i]

\* A step in which the master does nothing keeps the invariant if the
\* outstation does.
LEMMA OutstationStep ==
    ASSUME IInv, NEW k \in 0 .. issued, GoodOutstation(o', k, vouched),
           UnderWay(toOut', k, vouched, issued), From(toOut', toOut),
           NEW r, AddsAtMost(o, o', r), r = Nothing \/ \E i \in DOMAIN toOut : r = toOut[i],
           UNCHANGED <<m, issued, vouched>>
    PROVE  IInv'
<1>1. issued' = issued /\ vouched' = vouched /\ m' = m
  OBVIOUS
<1>2. GoodMaster(m)'
  BY <1>1 DEF IInv, GoodMaster
<1>3. Attributed'
  <2> SUFFICES ASSUME m.state = "WAIT_FOR_RESPONSE", m.active.kind = "User"
               PROVE  /\ \A i \in DOMAIN toOut' : By(toOut'[i], m.last, m.active.user)
                      /\ By(o'.deferred, m.last, m.active.user)
                      /\ o'.state = "WAIT_FOR_REPLY" =>
                            By(o'.challenge.asdu, m.last, m.active.user)
                      /\ \A v \in vouched : v.id = m.last => v.user = m.active.user
    BY <1>1 DEF Attributed
  <2> DEFINE Right(x) == By(x, m.last, m.active.user)
  <2>1. /\ \A i \in DOMAIN toOut : Right(toOut[i])
        /\ Right(o.deferred)
        /\ o.state = "WAIT_FOR_REPLY" => Right(o.challenge.asdu)
        /\ \A v \in vouched : v.id = m.last => v.user = m.active.user
    BY DEF IInv, Attributed
  <2>2. Right(Nothing)
    BY DEF Nothing, By, UserRequest
  <2> HIDE DEF Right
  <2>3. \A x : Holds(o, x) => Right(x)
    BY <2>1 DEF Holds
  <2>4. Right(r)
    BY <2>1, <2>2
  <2>5. \A x : Holds(o', x) => Right(x)
    BY <2>2, <2>3, <2>4 DEF AddsAtMost
  <2>6. \A i \in DOMAIN toOut' : Right(toOut'[i])
    BY <2>1 DEF From
  <2>7. Right(o'.deferred) /\ (o'.state = "WAIT_FOR_REPLY" => Right(o'.challenge.asdu))
    BY <2>5 DEF Holds
  <2> QED BY <2>1, <2>6, <2>7 DEF Right
<1>4. issued \in Nat /\ Vouches(vouched, issued)
  BY DEF IInv
<1> QED BY <1>1, <1>2, <1>3, <1>4 DEF IInv

\* What is under way comes from there.
LEMMA FromTail ==
    ASSUME NEW q, IsSequence(q)
    PROVE  From(q, q) /\ (q # <<>> => From(Tail(q), q))
BY SequenceFacts DEF From

\* A message that reaches the outstation keeps the invariant.
LEMMA ReceivesGood ==
    ASSUME IInv, OutstationReceives
    PROVE  IInv'
<1>1. PICK n \in 0 .. issued : GoodOutstation(o, n, vouched) /\ UnderWay(toOut, n, vouched, issued)
  BY DEF IInv
<1>2. PICK rng \in BOOLEAN, expired \in BOOLEAN :
        OutstationDoes(ReceiveParsedHeader(o, Head(toOut), rng, expired))
  BY DEF OutstationReceives
<1>3. toOut # <<>> /\ toOut' = Tail(toOut) /\ UNCHANGED <<m, issued, vouched>>
  BY DEF OutstationReceives
<1> DEFINE r == Head(toOut)
           j == IF Numbered(r) THEN r.id ELSE n
           d == ReceiveParsedHeader(o, r, rng, expired)
<1>4. issued \in Nat /\ n \in Nat /\ n <= issued
  BY DEF IInv
<1>5. /\ j \in n .. issued /\ UnderWay(Tail(toOut), j, vouched, issued)
      /\ Honest(r, vouched) /\ r.fn # "Nothing" /\ (Numbered(r) => n < r.id /\ r.id <= j)
  BY <1>1, <1>3, <1>4, TailUnderWay
<1>6. IsSequence(toOut)
  BY <1>1 DEF UnderWay
<1>7. From(Tail(toOut), toOut) /\ \E i \in DOMAIN toOut : r = toOut[i]
  BY <1>3, <1>6, FromTail, SequenceFacts
<1> HIDE DEF r, j
<1>8. j \in Nat /\ n <= j /\ j \in 0 .. issued
  BY <1>4, <1>5
<1>9. GoodOutstation(d, j, vouched) /\ AddsAtMost(o, d, r)
  BY <1>1, <1>4, <1>5, <1>8, ReceiveGood
<1>10. OutstationDoes(d)
  BY <1>2 DEF r
<1> HIDE DEF d
<1>11. GoodOutstation(o', j, vouched) /\ AddsAtMost(o, o', r)
  BY <1>8, <1>9, <1>10, DoesGood
<1> QED BY <1>3, <1>5, <1>7, <1>8, <1>11, OutstationStep

\* The outstation acts on its own account, and no request moves.
LEMMA OwnStep ==
    ASSUME IInv, NEW n \in 0 .. issued, UnderWay(toOut, n, vouched, issued),
           GoodOutstation(o', n, vouched), AddsAtMost(o, o', Nothing),
           UNCHANGED <<m, toOut, issued, vouched>>
    PROVE  IInv'
<1>1. From(toOut', toOut)
  BY DEF From
<1> QED BY <1>1, OutstationStep

\* So does the result of a transmission, which takes up what was deferred.
LEMMA SendResultGood ==
    ASSUME IInv, OnOutstationSendResult
    PROVE  IInv'
<1>1. PICK n \in 0 .. issued : GoodOutstation(o, n, vouched) /\ UnderWay(toOut, n, vouched, issued)
  BY DEF IInv
<1> DEFINE c == [o EXCEPT !.isTransmitting = FALSE]
<1>2. PICK rng \in BOOLEAN, expired \in BOOLEAN : OutstationDoes(CheckForTaskStart(c, rng, expired))
  BY DEF OnOutstationSendResult, OnSendResult
<1>3. Sane(c) /\ Ordered(c, n, vouched) /\ AddsAtMost(o, c, Nothing) /\ n \in Nat
  <2>1. issued \in Nat /\ n \in Nat /\ Sane(o) /\ Ordered(o, n, vouched)
    BY <1>1 DEF IInv, GoodOutstation
  <2> QED BY <2>1, SteeringGood
<1> DEFINE d == CheckForTaskStart(c, rng, expired)
<1> HIDE DEF c
<1>4. GoodOutstation(d, n, vouched) /\ AddsAtMost(c, d, Nothing)
  BY <1>3, TaskStartGood
<1>5. OutstationDoes(d)
  BY <1>2
<1> HIDE DEF d
<1>6. AddsAtMost(o, d, Nothing)
  BY <1>3, <1>4 DEF AddsAtMost
<1>7. GoodOutstation(o', n, vouched) /\ AddsAtMost(o, o', Nothing)
  BY <1>3, <1>4, <1>5, <1>6, DoesGood
<1> QED BY <1>1, <1>7, OwnStep DEF OnOutstationSendResult

\* So does a new connection, which drops what was on its way.
LEMMA ReconnectGood ==
    ASSUME IInv, Reconnect
    PROVE  IInv'
<1>1. PICK n \in 0 .. issued : GoodOutstation(o, n, vouched) /\ UnderWay(toOut, n, vouched, issued)
  BY DEF IInv
<1> DEFINE c == [o EXCEPT !.online = TRUE]
<1>2. PICK rng \in BOOLEAN, expired \in BOOLEAN : OutstationDoes(CheckForTaskStart(c, rng, expired))
  BY DEF Reconnect, OnLowerLayerUp
<1>3. Sane(c) /\ Ordered(c, n, vouched) /\ AddsAtMost(o, c, Nothing) /\ n \in Nat
  <2>1. issued \in Nat /\ n \in Nat /\ Sane(o) /\ Ordered(o, n, vouched)
    BY <1>1 DEF IInv, GoodOutstation
  <2> QED BY <2>1, SteeringGood
<1> DEFINE d == CheckForTaskStart(c, rng, expired)
<1> HIDE DEF c
<1>4. GoodOutstation(d, n, vouched) /\ AddsAtMost(c, d, Nothing)
  BY <1>3, TaskStartGood
<1>5. OutstationDoes(d)
  BY <1>2
<1> HIDE DEF d
<1>6. AddsAtMost(o, d, Nothing)
  BY <1>3, <1>4 DEF AddsAtMost
<1>7. GoodOutstation(o', n, vouched) /\ AddsAtMost(o, o', Nothing)
  BY <1>3, <1>4, <1>5, <1>6, DoesGood
<1> QED BY <1>1, <1>7, OwnStep DEF Reconnect

\* The challenged request is dropped.
LEMMA DropGood ==
    ASSUME NEW c, NEW V, NEW n \in Nat, Ordered(c, n, V), NEW d, Sane(d),
           d.deferred = c.deferred, d.done = c.done, d.state = "IDLE"
    PROVE  Ordered(d, n, V) /\ AddsAtMost(c, d, Nothing)
<1>1. Challenged(d, n, V) /\ Deferred(d, n, V) /\ Done(d, n, V)
  BY DEF Ordered, Challenged, Deferred, Later, Done
<1> QED BY <1>1 DEF Ordered, Sane, AddsAtMost, Holds

\* So does a challenge that nobody answers.
LEMMA ChallengeTimeoutGood ==
    ASSUME IInv, ChallengeTimeout
    PROVE  IInv'
<1>1. PICK n \in 0 .. issued : GoodOutstation(o, n, vouched) /\ UnderWay(toOut, n, vouched, issued)
  BY DEF IInv
<1> DEFINE d == Idle(o)
<1>2. /\ Sane(d) /\ d.deferred = o.deferred /\ d.done = o.done /\ d.state = "IDLE"
      /\ CanTransmit(d) = CanTransmit(o)
  BY <1>1, IdleSane DEF GoodOutstation, Idle, CanTransmit, Sane, Shaped
<1>3. o' = d /\ UNCHANGED <<m, toOut, issued, vouched>>
  BY DEF ChallengeTimeout, OnChallengeTimeout
<1> HIDE DEF d
<1>4. Ordered(d, n, vouched) /\ AddsAtMost(o, d, Nothing)
  BY <1>1, <1>2, DropGood DEF GoodOutstation
<1>5. GoodOutstation(d, n, vouched)
  BY <1>1, <1>2, <1>4 DEF GoodOutstation
<1> QED BY <1>1, <1>3, <1>4, <1>5, OwnStep

\* So does the loss of a message.
LEMMA LoseMessageGood ==
    ASSUME IInv, LoseMessage
    PROVE  IInv'
<1>1. PICK n \in 0 .. issued : GoodOutstation(o, n, vouched) /\ UnderWay(toOut, n, vouched, issued)
  BY DEF IInv
<1>2. n \in Nat /\ issued \in Nat /\ n <= issued /\ IsSequence(toOut)
  BY <1>1 DEF IInv, UnderWay
<1>3. /\ UNCHANGED <<m, o, issued, vouched>>
      /\ toOut' = toOut \/ (toOut # <<>> /\ toOut' = Tail(toOut))
  BY DEF LoseMessage
<1>4. UnderWay(toOut', n, vouched, issued) /\ From(toOut', toOut)
  BY <1>1, <1>2, <1>3, TailUnderWay, FromTail
<1>5. AddsAtMost(o, o', Nothing) /\ GoodOutstation(o', n, vouched)
  BY <1>1, <1>3 DEF AddsAtMost
<1> QED BY <1>3, <1>4, <1>5, OutstationStep

\* The connection goes, and what was under way with it.
LEMMA LoseConnectionGood ==
    ASSUME IInv, LoseConnection
    PROVE  IInv'
<1>1. PICK n \in 0 .. issued : GoodOutstation(o, n, vouched) /\ UnderWay(toOut, n, vouched, issued)
  BY DEF IInv
<1> DEFINE z == Idle(o)
           k == [z.update EXCEPT !.valid = FALSE]
           d == [z EXCEPT !.online = FALSE, !.isTransmitting = FALSE, !.update = k,
                          !.sessions = <<>>]
<1>2. /\ Sane(z) /\ z.deferred = o.deferred /\ z.done = o.done /\ z.state = "IDLE"
  BY <1>1, IdleSane DEF GoodOutstation
<1>3. o' = d
  BY DEF LoseConnection, OnLowerLayerDown
<1> HIDE DEF z, k
<1>4. /\ Sane(d) /\ d.deferred = z.deferred /\ d.done = z.done /\ d.state = "IDLE"
      /\ ~CanTransmit(d)
  <2>1. GoodSessions(<<>>, d.users)
    BY DEF GoodSessions
  <2>2. Shaped(d) /\ d.sessions = <<>>
    BY <1>2 DEF Sane, Shaped
  <2>3. d.deferred = z.deferred /\ d.done = z.done /\ d.state = z.state /\ d.online = FALSE
    BY <1>2 DEF Sane, Shaped
  <2> HIDE DEF d
  <2> QED BY <1>2, <2>1, <2>2, <2>3 DEF Sane, CanTransmit
<1> HIDE DEF d
<1>5. n \in Nat /\ issued \in Nat
  BY DEF IInv
<1>6. Ordered(d, n, vouched)
  BY <1>1, <1>2, <1>4, <1>5, DropGood DEF GoodOutstation
<1>7. GoodOutstation(d, n, vouched)
  BY <1>4, <1>6 DEF GoodOutstation
<1>8. UnderWay(<<>>, n, vouched, issued)
  BY DEF UnderWay, IsSequence
<1>9. GoodMaster(m)' /\ m'.state = "IDLE"
  <2> DEFINE y == CompleteActiveTask(m)
  <2>1. m' = [y EXCEPT !.isSending = FALSE, !.seq = 0, !.sessions = <<>>] /\ issued' = issued
    BY DEF LoseConnection
  <2>2. DOMAIN y = MasterFields /\ y.state = "IDLE" /\ y.active = NoTask /\ y.last = m.last
    BY DEF CompleteActiveTask, IInv, GoodMaster, MasterFields
  <2> HIDE DEF y
  <2>3. DOMAIN m' = MasterFields /\ m'.state = "IDLE" /\ m'.active = NoTask /\ m'.last = m.last
    BY <2>1, <2>2 DEF MasterFields
  <2>4. m.last \in Nat /\ m.last <= issued
    BY DEF IInv, GoodMaster
  <2> QED BY <2>1, <2>3, <2>4 DEF GoodMaster, NoTask, TaskKinds
<1>10. Attributed'
  BY <1>9 DEF Attributed
<1>11. toOut' = <<>> /\ issued' = issued /\ vouched' = vouched
  BY DEF LoseConnection
<1>12. Vouches(vouched, issued)
  BY DEF IInv
<1> QED BY <1>3, <1>5, <1>7, <1>8, <1>9, <1>10, <1>11, <1>12 DEF IInv

----------------------------------------------------------------------------
\* Steps of the master.
WaitsFor(n, k) ==
    n.state = "WAIT_FOR_RESPONSE" /\ n.active.kind = "User" =>
        k.state = "WAIT_FOR_RESPONSE" /\ k.active = n.active /\ k.last = n.last

\* The master takes something in and sends nothing.
LEMMA MasterStep ==
    ASSUME IInv, GoodMaster(m)', WaitsFor(m', m), UNCHANGED <<o, toOut, issued, vouched>>
    PROVE  IInv'
<1>1. Attributed'
  BY DEF Attributed, IInv, WaitsFor
<1> QED BY <1>1 DEF IInv

\* What a task asks for.
LEMMA BuildRequestFields ==
    ASSUME NEW n, NEW t, NEW id, t.kind \in TaskKinds \ {"None"},
           t.kind = "User" => t.fn \in {"Normal", "Critical"},
           t.kind = "UserStatusChange" => t.change.op \in {"ADD", "CHANGE", "DELETE"}
    PROVE  LET r == BuildRequest(n, t, id)
           IN  /\ r.id = id /\ r.fn \in Functions \ {"Reply"}
               /\ r.fn = "StatusChange" => r.op \in {"ADD", "CHANGE", "DELETE"}
               /\ UserRequest(r) => t.kind = "User" /\ r.by = t.user
<1> USE DEF BuildRequest, Functions, UserRequest, TaskKinds
<1>1. CASE t.kind = "SessionKey"
  BY <1>1
<1>2. CASE t.kind = "User"
  BY <1>2
<1>3. CASE t.kind = "UserStatusChange"
  BY <1>3
<1>4. CASE t.kind = "BeginUpdateKeyChange"
  BY <1>4
<1>5. CASE t.kind = "FinishUpdateKeyChange"
  BY <1>5
<1> QED BY <1>1, <1>2, <1>3, <1>4, <1>5

\* The master sends the next request of its task, or waits for its line.
LEMMA ResumeGood ==
    ASSUME IInv, NEW n, GoodMaster(n), n.active.kind # "None", ResumeActiveTask(n),
           UNCHANGED <<o, vouched>>
    PROVE  IInv'
<1>1. PICK k \in 0 .. issued : GoodOutstation(o, k, vouched) /\ UnderWay(toOut, k, vouched, issued)
  BY DEF IInv
<1>2. issued \in Nat /\ k \in Nat /\ k <= issued /\ Vouches(vouched, issued) /\ k \in 0 .. issued + 1
  BY DEF IInv
<1>3. ASSUME n.isSending, m' = [n EXCEPT !.state = "TASK_READY"], UNCHANGED <<toOut, issued>>
      PROVE  IInv'
  <2>1. GoodMaster(m)' /\ m'.state = "TASK_READY"
    BY <1>3 DEF GoodMaster, MasterFields
  <2> QED BY <1>3, <2>1, MasterStep DEF WaitsFor
<1>4. ASSUME m' = [n EXCEPT !.state = "WAIT_FOR_RESPONSE", !.isSending = TRUE, !.last = issued + 1],
             toOut' = Append(toOut, BuildRequest(n, n.active, issued + 1)), issued' = issued + 1
      PROVE  IInv'
  <2> DEFINE t == n.active
             id == issued + 1
             r == BuildRequest(n, t, id)
  <2>1. /\ t.kind \in TaskKinds \ {"None"}
        /\ t.kind = "User" => t.fn \in {"Normal", "Critical"}
        /\ t.kind = "UserStatusChange" => t.change.op \in {"ADD", "CHANGE", "DELETE"}
    BY DEF GoodMaster
  <2>2. /\ r.id = id /\ r.fn \in Functions \ {"Reply"}
        /\ r.fn = "StatusChange" => r.op \in {"ADD", "CHANGE", "DELETE"}
        /\ UserRequest(r) => t.kind = "User" /\ r.by = t.user
    BY <2>1, BuildRequestFields
  <2>3. DOMAIN m' = MasterFields /\ m'.active = t /\ m'.last = id
    BY <1>4 DEF GoodMaster, MasterFields
  <2>4. GoodMaster(m)'
    BY <1>2, <1>4, <2>1, <2>3 DEF GoodMaster
  <2>5. toOut' = Append(toOut, r) /\ issued' = id
    BY <1>4
  <2> HIDE DEF r, t
  <2>6. Honest(r, vouched) /\ r.fn # "Nothing" /\ id \in Nat /\ issued < id
    BY <1>2, <2>2 DEF Honest, Vouches, Functions
  <2>7. UnderWay(toOut', k, vouched, issued')
    BY <1>1, <1>2, <2>2, <2>5, <2>6, AppendUnderWay
  <2>8. Vouches(vouched, issued')
    BY <1>2, <2>5, <2>6 DEF Vouches
  <2>9. \A i \in DOMAIN toOut' : By(toOut'[i], id, t.user)
    <3>1. IsSequence(toOut)
      BY <1>1 DEF UnderWay
    <3>2. /\ DOMAIN toOut = 1 .. Len(toOut) /\ Len(toOut) \in Nat
          /\ DOMAIN toOut' = 1 .. Len(toOut') /\ Len(toOut') = Len(toOut) + 1
          /\ toOut'[Len(toOut')] = r /\ \A i \in DOMAIN toOut : toOut'[i] = toOut[i]
      BY <2>5, <3>1, SequenceFacts
    <3>3. ASSUME NEW i \in DOMAIN toOut, Numbered(toOut[i]) PROVE toOut[i].id # id
      <4>1. toOut[i].id <= issued /\ Honest(toOut[i], vouched)
        BY <1>1, <3>3 DEF UnderWay
      <4>2. toOut[i].id \in Nat
        BY <3>3, <4>1 DEF Honest
      <4> QED BY <1>2, <4>1, <4>2
    <3>4. By(r, id, t.user)
      BY <2>2 DEF By
    <3>5. ASSUME NEW i \in DOMAIN toOut' PROVE By(toOut'[i], id, t.user)
      <4>1. CASE i \in DOMAIN toOut
        BY <3>2, <3>3, <4>1 DEF By, UserRequest, Numbered
      <4>2. CASE i \notin DOMAIN toOut
        <5>1. i = Len(toOut')
          BY <3>2, <4>2
        <5> QED BY <3>2, <3>4, <5>1
      <4> QED BY <4>1, <4>2
    <3> QED BY <3>5
  <2>10. By(o.deferred, id, t.user)
    BY <1>1, <1>2 DEF GoodOutstation, Ordered, Deferred, Later, Honest, By, UserRequest, Numbered
  <2>11. o.state = "WAIT_FOR_REPLY" => By(o.challenge.asdu, id, t.user)
    BY <1>1, <1>2 DEF GoodOutstation, Ordered, Challenged, Honest, By, UserRequest, Numbered
  <2>12. \A v \in vouched : v.id # id
    BY <1>2 DEF Vouches
  <2>13. Attributed'
    BY <2>3, <2>9, <2>10, <2>11, <2>12 DEF Attributed
  <2> QED BY <1>1, <1>2, <2>4, <2>5, <2>6, <2>7, <2>8, <2>13 DEF IInv
<1> QED BY <1>3, <1>4 DEF ResumeActiveTask

\* What was honest stays so when the master vouches for one request more.
LEMMA HonestGrows ==
    ASSUME NEW r, NEW V, NEW id, NEW u, Honest(r, V), By(r, id, u)
    PROVE  Honest(r, V \cup {[id |-> id, user |-> u]})
BY DEF Honest, By

\* One more answer of an honest user takes nothing from what was vouched for.
LEMMA VouchedGrows ==
    ASSUME NEW c, NEW n, NEW V, NEW id, NEW u, GoodOutstation(c, n, V),
           By(c.deferred, id, u), c.state = "WAIT_FOR_REPLY" => By(c.challenge.asdu, id, u)
    PROVE  GoodOutstation(c, n, V \cup {[id |-> id, user |-> u]})
<1> DEFINE W == V \cup {[id |-> id, user |-> u]}
<1>1. Honest(c.deferred, W) /\ (c.state = "WAIT_FOR_REPLY" => Honest(c.challenge.asdu, W))
  BY HonestGrows DEF GoodOutstation, Ordered, Challenged, Deferred, Later
<1>2. V \subseteq W
  OBVIOUS
<1> HIDE DEF W
<1>3. Challenged(c, n, W) /\ Deferred(c, n, W)
  BY <1>1 DEF GoodOutstation, Ordered, Challenged, Deferred, Later
<1>4. Done(c, n, W)
  <2>1. Vouched(V) \subseteq Vouched(W)
    BY <1>2 DEF Vouched
  <2>2. c.done \in Seq(Vouched(V))
    BY DEF GoodOutstation, Ordered, Done
  <2>3. c.done \in Seq(Vouched(W))
    <3> HIDE DEF W
    <3>1. \A S, T : S \subseteq T => Seq(S) \subseteq Seq(T)
      OBVIOUS
    <3> QED BY <2>1, <2>2, <3>1
  <2> QED BY <2>3 DEF GoodOutstation, Ordered, Done
<1>5. GoodOutstation(c, n, W)
  BY <1>3, <1>4 DEF GoodOutstation, Ordered
<1> QED BY <1>5 DEF W

\* The master answers a challenge, and vouches for its latest request.
LEMMA AuthChallengeGood ==
    ASSUME IInv, m.state = "WAIT_FOR_RESPONSE", ~IsAuthTask(m.active), NEW p, OnAuthChallenge(p),
           UNCHANGED <<o, issued>>
    PROVE  IInv'
<1> DEFINE u == m.active.user
           s == Checked(m.sessions, u)
           y == IF m.isSending THEN m.sessions ELSE s
           h == [key |-> s[u].key, challenge |-> p.csq, asdu |-> m.last]
           r == [fn |-> "Reply", seq |-> p.seq, user |-> u, hmac |-> h]
           e == [id |-> m.last, user |-> u]
           W == vouched \cup {e}
<1>1. m.active.kind = "User" /\ GoodMaster(m) /\ Attributed /\ issued \in Nat /\ issued' = issued
  BY DEF IsAuthTask, IInv
<1>2. ASSUME m' = [m EXCEPT !.sessions = y], UNCHANGED <<toOut, vouched>>
      PROVE  IInv'
  <2> HIDE DEF y
  <2>1. GoodMaster(m)' /\ WaitsFor(m', m)
    BY <1>1, <1>2 DEF GoodMaster, MasterFields, WaitsFor
  <2> QED BY <1>2, <2>1, MasterStep
<1>3. ASSUME m' = [m EXCEPT !.isSending = TRUE], toOut' = Append(toOut, r), vouched' = W
      PROVE  IInv'
  <2>1. PICK k \in 0 .. issued : GoodOutstation(o, k, vouched) /\ UnderWay(toOut, k, vouched, issued)
    BY DEF IInv
  <2>2. GoodMaster(m)' /\ m'.active = m.active /\ m'.last = m.last /\ m'.state = m.state
    BY <1>1, <1>3 DEF GoodMaster, MasterFields
  <2>3. /\ \A i \in DOMAIN toOut : By(toOut[i], m.last, u)
        /\ By(o.deferred, m.last, u)
        /\ o.state = "WAIT_FOR_REPLY" => By(o.challenge.asdu, m.last, u)
        /\ \A v \in vouched : v.id = m.last => v.user = u
    BY <1>1 DEF Attributed
  <2>4. GoodOutstation(o, k, W)
    BY <2>1, <2>3, VouchedGrows
  <2>5. UnderWay(toOut, k, W, issued)
    <3>1. \A i \in DOMAIN toOut : Honest(toOut[i], W)
      BY <2>1, <2>3, HonestGrows DEF UnderWay
    <3> HIDE DEF W
    <3> QED BY <2>1, <3>1 DEF UnderWay
  <2>6. Honest(r, W) /\ r.fn = "Reply"
    BY DEF Honest, UserRequest, Numbered, Functions
  <2>7. k \in Nat /\ k <= issued
    BY <1>1
  <2> HIDE DEF r, W
  <2>8. UnderWay(Append(toOut, r), k, W, issued)
    BY <1>1, <2>5, <2>6, <2>7, AppendUnderWay DEF Numbered
  <2>9. \A i \in DOMAIN toOut' : By(toOut'[i], m.last, u)
    <3>1. IsSequence(toOut)
      BY <2>1 DEF UnderWay
    <3>2. /\ DOMAIN toOut = 1 .. Len(toOut) /\ Len(toOut) \in Nat
          /\ DOMAIN toOut' = 1 .. Len(toOut') /\ Len(toOut') = Len(toOut) + 1
          /\ toOut'[Len(toOut')] = r /\ \A i \in DOMAIN toOut : toOut'[i] = toOut[i]
      BY <1>3, <3>1, SequenceFacts
    <3>3. By(r, m.last, u)
      BY <2>6 DEF By, UserRequest
    <3>4. ASSUME NEW i \in DOMAIN toOut' PROVE By(toOut'[i], m.last, u)
      <4>1. CASE i \in DOMAIN toOut
        BY <2>3, <3>2, <4>1
      <4>2. CASE i \notin DOMAIN toOut
        <5>1. i = Len(toOut')
          BY <3>2, <4>2
        <5> QED BY <3>2, <3>3, <5>1
      <4> QED BY <4>1, <4>2
    <3> QED BY <3>4
  <2>10. \A v \in W : v.id = m.last => v.user = u
    BY <2>3 DEF W
  <2>11. Attributed'
    BY <1>3, <2>2, <2>3, <2>9, <2>10 DEF Attributed
  <2>12. Vouches(W, issued)
    <3>1. m.last \in Nat /\ m.last <= issued /\ Vouches(vouched, issued)
      BY <1>1 DEF GoodMaster, IInv
    <3> QED BY <3>1 DEF Vouches, W
  <2> QED BY <1>1, <1>3, <2>2, <2>4, <2>8, <2>11, <2>12 DEF IInv
<1> QED BY <1>2, <1>3 DEF OnAuthChallenge

\* What the tasks make of a response leaves the state, the task and the number
\* of the latest request as they are.
SameTask(n, k) ==
    /\ DOMAIN k = DOMAIN n /\ k.state = n.state /\ k.active = n.active /\ k.last = n.last

\* What the master makes of a response leaves its task and numbers alone.
LEMMA TaskResponseEffect ==
    ASSUME NEW n, DOMAIN n = MasterFields, NEW p
    PROVE  SameTask(n, ProcessTaskResponse(n, p)) /\ SameTask(n, OnStatusResponse(n, p))
<1>1. \A x : SameTask(n, [n EXCEPT !.sessions = x])
  BY DEF SameTask, MasterFields
<1>2. \A x : SameTask(n, [n EXCEPT !.begun = x])
  BY DEF SameTask, MasterFields
<1>3. \A x, y : SameTask(n, [n EXCEPT !.users = x, !.sessions = y])
  BY DEF SameTask, MasterFields
<1>4. \A x : SameTask(n, [n EXCEPT !.wrap = x])
  BY DEF SameTask, MasterFields
<1>5. SameTask(n, n)
  BY DEF SameTask
<1>6. SameTask(n, OnChangeResponse(n, p))
  BY <1>1, <1>5 DEF OnChangeResponse
<1>7. SameTask(n, ProcessDataResponse(n, p))
  BY <1>2, <1>5 DEF ProcessDataResponse
<1>8. SameTask(n, ProcessConfirmationResponse(n, p))
  BY <1>3, <1>5 DEF ProcessConfirmationResponse
<1>9. SameTask(n, OnStatusResponse(n, p))
  BY <1>4 DEF OnStatusResponse
<1> QED BY <1>5, <1>6, <1>7, <1>8, <1>9 DEF ProcessTaskResponse

\* A task that is complete leaves the master idle and good.
LEMMA CompleteGood ==
    ASSUME NEW n, DOMAIN n = MasterFields, n.last \in Nat, n.last <= issued
    PROVE  GoodMaster(CompleteActiveTask(n)) /\ CompleteActiveTask(n).state = "IDLE"
<1> DEFINE d == CompleteActiveTask(n)
<1>1. /\ DOMAIN d = MasterFields /\ d.state = "IDLE" /\ d.active = NoTask /\ d.last = n.last
  BY DEF CompleteActiveTask, MasterFields
<1> HIDE DEF d
<1>2. GoodMaster(d)
  BY <1>1 DEF GoodMaster, NoTask, TaskKinds
<1> QED BY <1>1, <1>2 DEF d

\* The master completes its task and sends nothing.
LEMMA CompleteStep ==
    ASSUME IInv, NEW n, DOMAIN n = MasterFields, n.last = m.last, m' = CompleteActiveTask(n),
           UNCHANGED <<o, toOut, issued, vouched>>
    PROVE  IInv'
<1>1. m.last \in Nat /\ m.last <= issued
  BY DEF IInv, GoodMaster
<1>2. GoodMaster(CompleteActiveTask(n)) /\ CompleteActiveTask(n).state = "IDLE"
  BY <1>1, CompleteGood
<1>3. GoodMaster(m)' /\ m'.state = "IDLE"
  BY <1>2 DEF GoodMaster
<1> QED BY <1>3, MasterStep DEF WaitsFor

\* A response to the running task keeps the invariant.
LEMMA ProcessResponseGood ==
    ASSUME IInv, NEW p, ProcessResponse(p), UNCHANGED <<o, vouched>>
    PROVE  IInv'
<1> DEFINE n == [m EXCEPT !.seq = @ + 1]
           w == OnStatusResponse(n, p)
           k == ProcessTaskResponse(n, p)
<1>1. GoodMaster(m) /\ DOMAIN m = MasterFields
  BY DEF IInv, GoodMaster
<1>2. DOMAIN n = MasterFields /\ n.state = m.state /\ n.active = m.active /\ n.last = m.last
  BY <1>1 DEF MasterFields
<1>3. \/ UNCHANGED <<m, toOut, issued>>
      \/ m.state = "WAIT_FOR_RESPONSE" /\ ResumeActiveTask(w)
      \/ m' = CompleteActiveTask(k) /\ UNCHANGED <<toOut, issued>>
  BY DEF ProcessResponse
<1> HIDE DEF n
<1>4. SameTask(n, w) /\ SameTask(n, k)
  BY <1>2, TaskResponseEffect
<1> HIDE DEF w, k
<1>5. ASSUME UNCHANGED <<m, toOut, issued>> PROVE IInv'
  BY <1>1, <1>5, MasterStep DEF GoodMaster, WaitsFor
<1>6. ASSUME m.state = "WAIT_FOR_RESPONSE", ResumeActiveTask(w) PROVE IInv'
  <2>1. GoodMaster(w) /\ w.active.kind # "None"
    BY <1>1, <1>2, <1>4, <1>6 DEF GoodMaster, SameTask
  <2> QED BY <1>6, <2>1, ResumeGood
<1>7. ASSUME m' = CompleteActiveTask(k), UNCHANGED <<toOut, issued>> PROVE IInv'
  BY <1>2, <1>4, <1>7, CompleteStep DEF SameTask
<1> QED BY <1>3, <1>5, <1>6, <1>7

\* So does whatever reaches the master.
LEMMA MasterReceivesGood ==
    ASSUME IInv, MasterReceives
    PROVE  IInv'
<1> DEFINE p == Head(toMas)
<1>1. o' = o /\ (\/ ProcessResponse(p) /\ UNCHANGED vouched
                 \/ OnReceiveAuthResponse(p))
  BY DEF MasterReceives
<1> HIDE DEF p
<1>2. GoodMaster(m) /\ DOMAIN m = MasterFields
  BY DEF IInv, GoodMaster
<1>3. ASSUME UNCHANGED <<m, toOut, issued, vouched>> PROVE IInv'
  BY <1>1, <1>2, <1>3, MasterStep DEF GoodMaster, WaitsFor
<1>4. ASSUME ProcessResponse(p), UNCHANGED vouched PROVE IInv'
  BY <1>1, <1>4, ProcessResponseGood
<1>5. ASSUME m.state = "WAIT_FOR_RESPONSE", ~IsAuthTask(m.active), OnAuthChallenge(p),
             UNCHANGED issued
      PROVE  IInv'
  BY <1>1, <1>5, AuthChallengeGood
<1>6. ASSUME OnAuthError, UNCHANGED <<toOut, issued, vouched>> PROVE IInv'
  BY <1>1, <1>2, <1>6, CompleteStep DEF OnAuthError
<1>7. OnReceiveAuthResponse(p) =>
        \/ UNCHANGED <<m, toOut, issued, vouched>>
        \/ ProcessResponse(p) /\ UNCHANGED vouched
        \/ /\ m.state = "WAIT_FOR_RESPONSE" /\ ~IsAuthTask(m.active) /\ OnAuthChallenge(p)
           /\ UNCHANGED issued
        \/ OnAuthError /\ UNCHANGED <<toOut, issued, vouched>>
  BY DEF OnReceiveAuthResponse
<1> QED BY <1>1, <1>3, <1>4, <1>5, <1>6, <1>7

\* A task that starts is numbered after all that were issued before.
LEMMA StartTaskGood ==
    ASSUME IInv, NEW t \in Tasks, StartTask(t)
    PROVE  IInv'
<1>1. GoodMaster(m) /\ DOMAIN m = MasterFields
  BY DEF IInv, GoodMaster
<1> DEFINE x == IF t.kind = "UserStatusChange" THEN m.scsn + 1 ELSE m.scsn
           n == [m EXCEPT !.active = t, !.wrap = Nothing, !.scsn = x]
<1>2. ResumeActiveTask(n) /\ UNCHANGED <<o, vouched>> /\ m.state = "IDLE"
  BY DEF StartTask
<1>3. /\ t.kind \in TaskKinds \ {"None"}
      /\ t.kind = "User" => t.fn \in {"Normal", "Critical"}
      /\ t.kind = "UserStatusChange" => t.change.op \in {"ADD", "CHANGE", "DELETE"}
  BY SecureAuthAssumption DEF Tasks, TaskKinds
<1>4. GoodMaster(n) /\ n.active.kind # "None"
  <2> HIDE DEF x
  <2>1. DOMAIN n = MasterFields /\ n.active = t /\ n.last = m.last /\ n.state = m.state
    BY <1>1 DEF MasterFields
  <2> HIDE DEF n
  <2> QED BY <1>1, <1>3, <2>1 DEF GoodMaster
<1> HIDE DEF n
<1> QED BY <1>2, <1>4, ResumeGood

\* The result of a transmission of the master keeps the invariant.
LEMMA MasterSendResultGood ==
    ASSUME IInv, OnMasterSendResult
    PROVE  IInv'
<1> DEFINE n == [m EXCEPT !.isSending = FALSE]
<1>1. GoodMaster(m)
  BY DEF IInv
<1>2. /\ DOMAIN n = MasterFields /\ n.state = m.state /\ n.active = m.active /\ n.last = m.last
  BY <1>1 DEF GoodMaster, MasterFields
<1>3. /\ UNCHANGED <<o, vouched>>
      /\ \/ m.state = "TASK_READY" /\ ResumeActiveTask(n)
         \/ m' = n /\ UNCHANGED <<toOut, issued>>
  BY DEF OnMasterSendResult
<1> HIDE DEF n
<1>4. GoodMaster(n)
  BY <1>1, <1>2 DEF GoodMaster
<1>5. ASSUME m.state = "TASK_READY", ResumeActiveTask(n) PROVE IInv'
  <2>1. n.active.kind # "None"
    BY <1>1, <1>2, <1>5 DEF GoodMaster
  <2> QED BY <1>3, <1>4, <1>5, <2>1, ResumeGood
<1>6. ASSUME m' = n, UNCHANGED <<toOut, issued>> PROVE IInv'
  <2>1. GoodMaster(m)' /\ WaitsFor(m', m)
    BY <1>2, <1>4, <1>6 DEF GoodMaster, WaitsFor
  <2> QED BY <1>3, <1>6, <2>1, MasterStep
<1> QED BY <1>3, <1>5, <1>6

\* So does a response that does not come.
LEMMA ResponseTimeoutGood ==
    ASSUME IInv, OnResponseTimeout
    PROVE  IInv'
<1> DEFINE n == [m EXCEPT !.seq = @ + 1]
<1>1. DOMAIN m = MasterFields
  BY DEF IInv, GoodMaster
<1>2. DOMAIN n = MasterFields /\ n.last = m.last
  BY <1>1 DEF MasterFields
<1>3. m' = CompleteActiveTask(n) /\ UNCHANGED <<o, toOut, issued, vouched>>
  BY DEF OnResponseTimeout
<1> HIDE DEF n
<1> QED BY <1>2, <1>3, CompleteStep

\* A session that expires is still one of its user.
LEMMA SessionExpiresGood ==
    ASSUME IInv, SessionExpires
    PROVE  IInv'
<1>1. PICK n \in 0 .. issued : GoodOutstation(o, n, vouched) /\ UnderWay(toOut, n, vouched, issued)
  BY DEF IInv
<1>2. UNCHANGED <<toOut, issued, vouched>>
  BY DEF SessionExpires
<1>3. ASSUME NEW u \in DOMAIN o.sessions, o' = [o EXCEPT !.sessions[u].late = TRUE], UNCHANGED m
      PROVE  IInv'
  <2> DEFINE s == [o.sessions[u] EXCEPT !.late = TRUE]
             S == [o.sessions EXCEPT ![u] = s]
             d == [o EXCEPT !.sessions = S]
  <2>1. o' = d
    BY <1>3
  <2>2. Sane(o) /\ GoodSessions(o.sessions, o.users)
    BY <1>1 DEF GoodOutstation, Sane
  <2>3. GoodSession(o.sessions[u])
    BY <2>2 DEF GoodSessions
  <2>4. GoodSession(s) /\ s.status = o.sessions[u].status /\ s.under = o.sessions[u].under
    BY <2>3 DEF GoodSession
  <2> HIDE DEF s
  <2>5. /\ DOMAIN S = DOMAIN o.sessions /\ S[u] = s
        /\ \A x \in DOMAIN o.sessions \ {u} : S[x] = o.sessions[x]
    OBVIOUS
  <2> HIDE DEF S
  <2>6. ASSUME NEW x \in DOMAIN S
        PROVE  /\ GoodSession(S[x])
               /\ S[x].status = "OK" => x \in DOMAIN o.users /\ S[x].under = o.users[x]
    <3>1. CASE x = u
      BY <2>2, <2>4, <2>5, <3>1 DEF GoodSessions
    <3>2. CASE x # u
      BY <2>2, <2>5, <2>6, <3>2 DEF GoodSessions
    <3> QED BY <3>1, <3>2
  <2>7. GoodSessions(S, o.users)
    BY <2>6 DEF GoodSessions
  <2>8. Sane(d) /\ Kept(o, d) /\ d.isTransmitting = o.isTransmitting
    BY <2>2, <2>7 DEF Sane, Shaped, Kept
  <2> HIDE DEF d
  <2>9. Challenged(d, n, vouched) /\ Deferred(d, n, vouched) /\ Done(d, n, vouched)
    BY <1>1, <2>8 DEF GoodOutstation, Ordered, Challenged, Deferred, Later, Done, Kept
  <2>10. GoodOutstation(d, n, vouched) /\ AddsAtMost(o, d, Nothing)
    BY <1>1, <2>8, <2>9 DEF GoodOutstation, Ordered, Sane, Kept, CanTransmit, AddsAtMost, Holds
  <2> QED BY <1>1, <1>2, <1>3, <2>1, <2>10, OwnStep
<1>4. ASSUME NEW u \in DOMAIN m.sessions, m' = [m EXCEPT !.sessions[u].late = TRUE], UNCHANGED o
      PROVE  IInv'
  <2>1. GoodMaster(m)' /\ WaitsFor(m', m)
    BY <1>2, <1>4 DEF IInv, GoodMaster, MasterFields, WaitsFor
  <2> QED BY <1>2, <1>4, <2>1, MasterStep
<1> QED BY <1>3, <1>4 DEF SessionExpires

\* A user that is configured starts without sessions.
LEMMA ConfigureUserGood ==
    ASSUME IInv, NEW info, ConfigureUser(info)
    PROVE  IInv'
<1>1. PICK n \in 0 .. issued : GoodOutstation(o, n, vouched) /\ UnderWay(toOut, n, vouched, issued)
  BY DEF IInv
<1>2. Sane(o)
  BY <1>1 DEF GoodOutstation
<1> DEFINE w == [name |-> info.name, role |-> info.role, key |-> info.key]
           U == With(o.users, info.user, w)
           S == Without(o.sessions, info.user)
           d == [o EXCEPT !.users = U, !.sessions = S]
<1>3. o' = d /\ UNCHANGED <<m, toOut, issued, vouched>>
  BY DEF ConfigureUser, AddUser
<1>4. GoodSessions(S, U)
  BY <1>2, RemovedGood DEF Sane
<1> HIDE DEF S, U
<1>5. Plain(o, d)
  BY <1>2, <1>4, SessionsPlain
<1>6. d.isTransmitting = o.isTransmitting
  BY <1>2 DEF Sane, Shaped
<1> HIDE DEF d
<1>7. Challenged(d, n, vouched) /\ Deferred(d, n, vouched) /\ Done(d, n, vouched)
  BY <1>1, <1>5 DEF GoodOutstation, Ordered, Challenged, Deferred, Later, Done, Plain, Kept
<1>8. GoodOutstation(d, n, vouched) /\ AddsAtMost(o, d, Nothing)
  BY <1>1, <1>5, <1>6, <1>7
     DEF GoodOutstation, Ordered, Sane, Plain, Kept, CanTransmit, AddsAtMost, Holds
<1> QED BY <1>1, <1>3, <1>8, OwnStep

\* So does one that the master is told of.
LEMMA AddMasterUserGood ==
    ASSUME IInv, NEW info, AddMasterUser(info)
    PROVE  IInv'
<1> DEFINE U == With(m.users, info.user, info.key)
           S == Without(m.sessions, info.user)
<1>1. m' = [m EXCEPT !.users = U, !.sessions = S] /\ UNCHANGED <<o, toOut, issued, vouched>>
  BY DEF AddMasterUser
<1> HIDE DEF U, S
<1>2. GoodMaster(m)' /\ WaitsFor(m', m)
  BY <1>1 DEF IInv, GoodMaster, MasterFields, WaitsFor
<1> QED BY <1>1, <1>2, MasterStep

----------------------------------------------------------------------------
\* It holds at the start.
LEMMA InitGood == Init => IInv
<1> SUFFICES ASSUME Init PROVE IInv
  OBVIOUS
<1>1. /\ o = InitialOutstation /\ m = InitialMaster /\ toOut = <<>> /\ issued = 0 /\ vouched = {}
  BY DEF Init
<1>2. /\ Sane(o) /\ o.deferred = Nothing /\ o.state = "IDLE" /\ o.done = <<>>
  BY <1>1 DEF InitialOutstation, Sane, Shaped, GoodSessions
<1>3. Honest(Nothing, {})
  BY DEF Honest, Nothing, UserRequest, Numbered
<1>4. Deferred(o, 0, {})
  BY <1>2, <1>3 DEF Deferred, Later, Numbered, Nothing
<1>5. Challenged(o, 0, {}) /\ Done(o, 0, {})
  BY <1>2 DEF Challenged, Done
<1>6. GoodOutstation(o, 0, vouched)
  BY <1>1, <1>2, <1>4, <1>5 DEF GoodOutstation, Ordered, Sane
<1>7. UnderWay(toOut, 0, vouched, issued)
  BY <1>1 DEF UnderWay, IsSequence
<1>8. GoodMaster(m) /\ m.state = "IDLE"
  BY <1>1 DEF GoodMaster, InitialMaster, MasterFields, NoTask, TaskKinds
<1>9. Attributed
  BY <1>8 DEF Attributed
<1>10. 0 \in 0 .. issued /\ issued \in Nat /\ Vouches(vouched, issued)
  BY <1>1 DEF Vouches
<1> QED BY <1>6, <1>7, <1>8, <1>9, <1>10 DEF IInv

\* Every step keeps it.
LEMMA NextGood == IInv /\ [Next]_vars => IInv'
<1> SUFFICES ASSUME IInv, [Next]_vars PROVE IInv'
  OBVIOUS
<1>1. CASE UNCHANGED vars
  BY <1>1 DEF vars, IInv, GoodMaster, Attributed
<1>2. CASE Next
  BY <1>2, StartTaskGood, MasterSendResultGood, ResponseTimeoutGood, MasterReceivesGood,
     ReceivesGood, SendResultGood, ChallengeTimeoutGood, SessionExpiresGood, LoseMessageGood,
     LoseConnectionGood, ReconnectGood, ConfigureUserGood, AddMasterUserGood
     DEF Next
<1> QED BY <1>1, <1>2

\* The inductive invariant: the path of the requests is in order, what is under
\* way agrees with what the master vouched for, and the sessions with the users.
THEOREM SecureAuthInvariant == Spec => []IInv
BY InitGood, NextGood, PTL DEF Spec

----------------------------------------------------------------------------
\* From c to d at most one request is carried out, for a user whose session has
\* valid keys in c.
Live(c, d) ==
    d.done = c.done \/ \E e : d.done = Append(c.done, e) /\ HasValidKeys(c.sessions, e.user)

\* What one request does is of that kind.
LEMMA HandlesLive ==
    ASSUME NEW c, NEW d, NEW r, Handles(c, d, r)
    PROVE  Live(c, d)
<1>1. CASE Plain(c, d)
  BY <1>1 DEF Plain, Kept, Live
<1>2. CASE Replied(c, d, r)
  <2> DEFINE x == c.challenge.asdu
             e == [id |-> x.id, by |-> x.by, user |-> r.user]
  <2>1. \/ d.done = c.done
        \/ d.done = Append(c.done, e) /\ HasValidKeys(c.sessions, r.user)
    BY <1>2 DEF Replied
  <2>2. e.user = r.user
    OBVIOUS
  <2> HIDE DEF e
  <2> QED BY <2>1, <2>2 DEF Live
<1>3. CASE Challenges(c, d, r)
  BY <1>3 DEF Challenges, Live
<1> QED BY <1>1, <1>2, <1>3 DEF Handles

\* A deferred request that is taken up meets the sessions of this moment.
LEMMA TaskStartLive ==
    ASSUME NEW c, NEW V, NEW n, Sane(c), Deferred(c, n, V), NEW rng, NEW expired
    PROVE  Live(c, CheckForTaskStart(c, rng, expired))
<1> DEFINE d == CheckForTaskStart(c, rng, expired)
           r == c.deferred
           e == [c EXCEPT !.deferred = Nothing]
<1>1. CASE ~(CanTransmit(c) /\ c.deferred # Nothing)
  BY <1>1 DEF CheckForTaskStart, Live
<1>2. CASE CanTransmit(c) /\ c.deferred # Nothing
  <2>1. d = ProcessAuthAPDU(e, r, rng, expired)
    BY <1>2 DEF CheckForTaskStart
  <2>2. Sane(e) /\ e.done = c.done /\ e.sessions = c.sessions
    BY DEF Sane, Shaped
  <2>3. Honest(r, V) /\ r.fn # "Nothing"
    BY <1>2 DEF Deferred, Later
  <2> HIDE DEF d, e
  <2>4. Live(e, d)
    BY <2>1, <2>2, <2>3, AuthAPDUEffect, HandlesLive
  <2> QED BY <2>2, <2>4 DEF Live, d
<1> QED BY <1>1, <1>2

\* So does one that is handled as it arrives.
LEMMA ReceiveLive ==
    ASSUME NEW c, NEW V, Sane(c), NEW r, Honest(r, V), r.fn # "Nothing", NEW rng, NEW expired
    PROVE  Live(c, ReceiveParsedHeader(c, r, rng, expired))
<1> DEFINE d == ReceiveParsedHeader(c, r, rng, expired)
<1>1. CASE CanTransmit(c)
  <2>1. d = ProcessAuthAPDU(c, r, rng, expired)
    BY <1>1 DEF ReceiveParsedHeader
  <2> HIDE DEF d
  <2>2. Live(c, d)
    BY <2>1, AuthAPDUEffect, HandlesLive
  <2> QED BY <2>2 DEF d
<1>2. CASE ~CanTransmit(c)
  <2>1. d = [c EXCEPT !.deferred = r]
    BY <1>2 DEF ReceiveParsedHeader
  <2>2. d.done = c.done
    BY <2>1 DEF Sane, Shaped
  <2> QED BY <2>2 DEF Live
<1> QED BY <1>1, <1>2

\* The step of the outstation that does what the handler made of it.
LEMMA DoesLive ==
    ASSUME NEW d, Sane(d), Live(o, d), OutstationDoes(d)
    PROVE  Live(o, o')
<1>1. o' = [d EXCEPT !.tx = Nothing]
  BY DEF OutstationDoes
<1>2. o'.done = d.done
  BY <1>1 DEF Sane, Shaped
<1> QED BY <1>2 DEF Live

\* Every step carries out at most one request, in a session that is valid then.
LEMMA NextLive == IInv /\ [Next]_vars => Live(o, o')
<1> SUFFICES ASSUME IInv, [Next]_vars PROVE Live(o, o')
  OBVIOUS
<1>1. PICK n \in 0 .. issued : GoodOutstation(o, n, vouched) /\ UnderWay(toOut, n, vouched, issued)
  BY DEF IInv
<1>2. Sane(o) /\ Shaped(o) /\ Ordered(o, n, vouched) /\ n \in Nat
  BY <1>1 DEF GoodOutstation, Sane, IInv
<1>3. ASSUME o'.done = o.done PROVE Live(o, o')
  BY <1>3 DEF Live
<1>4. CASE OutstationReceives
  <2> DEFINE r == Head(toOut)
  <2>1. toOut # <<>>
    BY <1>4 DEF OutstationReceives
  <2>2. PICK rng \in BOOLEAN, expired \in BOOLEAN :
                OutstationDoes(ReceiveParsedHeader(o, r, rng, expired))
    BY <1>4 DEF OutstationReceives
  <2>3. r.fn # "Nothing" /\ Honest(r, vouched) /\ (Numbered(r) => n < r.id /\ r.id <= issued)
    <3>1. 1 \in DOMAIN toOut /\ r = toOut[1]
      BY <1>1, <2>1, SequenceFacts DEF UnderWay
    <3> QED BY <1>1, <3>1 DEF UnderWay
  <2> HIDE DEF r
  <2> DEFINE d == ReceiveParsedHeader(o, r, rng, expired)
  <2>4. Sane(d)
    <3>1. n <= issued /\ issued \in Nat
      BY DEF IInv
    <3> QED BY <1>1, <1>2, <2>3, <3>1, ReceiveGood DEF GoodOutstation
  <2>5. Live(o, d)
    BY <1>2, <2>3, ReceiveLive
  <2> HIDE DEF d
  <2> QED BY <2>2, <2>4, <2>5, DoesLive DEF d
<1>5. CASE OnOutstationSendResult
  <2> DEFINE c == [o EXCEPT !.isTransmitting = FALSE]
  <2>1. PICK rng \in BOOLEAN, expired \in BOOLEAN :
                OutstationDoes(CheckForTaskStart(c, rng, expired))
    BY <1>5 DEF OnOutstationSendResult, OnSendResult
  <2>2. Sane(c) /\ Ordered(c, n, vouched)
    BY <1>2, SteeringGood
  <2>3. c.done = o.done /\ c.sessions = o.sessions
    BY <1>2 DEF Shaped
  <2> HIDE DEF c
  <2> DEFINE d == CheckForTaskStart(c, rng, expired)
  <2>4. Sane(d) /\ Live(c, d)
    BY <1>2, <2>2, TaskStartGood, TaskStartLive DEF GoodOutstation, Ordered
  <2> HIDE DEF d
  <2>5. Live(o, d)
    BY <2>3, <2>4 DEF Live
  <2> QED BY <2>1, <2>4, <2>5, DoesLive DEF d
<1>6. CASE Reconnect
  <2> DEFINE c == [o EXCEPT !.online = TRUE]
  <2>1. PICK rng \in BOOLEAN, expired \in BOOLEAN :
                OutstationDoes(CheckForTaskStart(c, rng, expired))
    BY <1>6 DEF Reconnect, OnLowerLayerUp
  <2>2. Sane(c) /\ Ordered(c, n, vouched)
    BY <1>2, SteeringGood
  <2>3. c.done = o.done /\ c.sessions = o.sessions
    BY <1>2 DEF Shaped
  <2> HIDE DEF c
  <2> DEFINE d == CheckForTaskStart(c, rng, expired)
  <2>4. Sane(d) /\ Live(c, d)
    BY <1>2, <2>2, TaskStartGood, TaskStartLive DEF GoodOutstation, Ordered
  <2> HIDE DEF d
  <2>5. Live(o, d)
    BY <2>3, <2>4 DEF Live
  <2> QED BY <2>1, <2>4, <2>5, DoesLive DEF d
<1>7. CASE ChallengeTimeout
  BY <1>2, <1>3, <1>7, IdleSane DEF ChallengeTimeout, OnChallengeTimeout
<1>8. CASE SessionExpires
  BY <1>2, <1>3, <1>8 DEF SessionExpires, Shaped
<1>9. CASE LoseConnection
  <2>1. Sane(Idle(o)) /\ Idle(o).done = o.done
    BY <1>2, IdleSane
  <2>2. o'.done = Idle(o).done
    BY <1>9, <2>1 DEF LoseConnection, OnLowerLayerDown, Sane, Shaped
  <2> QED BY <1>3, <2>1, <2>2
<1>10. ASSUME NEW info \in Configured, ConfigureUser(info) PROVE Live(o, o')
  BY <1>2, <1>3, <1>10 DEF ConfigureUser, AddUser, Shaped
<1>11. ASSUME o' = o PROVE Live(o, o')
  BY <1>3, <1>11
<1>12. \/ OutstationReceives \/ OnOutstationSendResult \/ Reconnect \/ ChallengeTimeout
       \/ SessionExpires \/ LoseConnection \/ (\E info \in Configured : ConfigureUser(info))
       \/ o' = o
  BY DEF Next, vars, StartTask, AddMasterUser, OnMasterSendResult, OnResponseTimeout,
         MasterReceives, LoseMessage
<1> QED BY <1>4, <1>5, <1>6, <1>7, <1>8, <1>9, <1>10, <1>11, <1>12

\* SessionsAreCurrent: a session authenticates only while the database has the
\* user it was set up for under its id, with the same name, role and update key,
\* and less than maxAuthMsgCount messages verified in it, and what is carried out
\* in a step is carried out in a session whose expiration time has not passed
\* (SessionStore, OAuthContext::AddUser, ProcessUserStatusChange_Delete,
\* Session::CheckTimeValidity).  It is about ids: of a name with two ids, DELETE
\* ends the sessions of one.
THEOREM SessionsStayCurrent == Spec => SessionsAreCurrent
<1> DEFINE Current == \A u \in DOMAIN o.sessions : SessionRestsOn(u, o.sessions[u])
           InTime == \A i \in DOMAIN o'.done \ DOMAIN o.done :
                        LET u == o'.done[i].user
                        IN  /\ u \in DOMAIN o.sessions
                            /\ o.sessions[u].status = "OK" /\ ~o.sessions[u].late
<1>1. IInv => Current
  <2> SUFFICES ASSUME IInv, NEW u \in DOMAIN o.sessions
               PROVE  SessionRestsOn(u, o.sessions[u])
    OBVIOUS
  <2>1. GoodSessions(o.sessions, o.users)
    BY DEF IInv, GoodOutstation, Sane
  <2> QED BY <2>1 DEF GoodSessions, GoodSession, SessionRestsOn
<1>2. IInv /\ [Next]_vars => [InTime]_o
  <2> SUFFICES ASSUME IInv, [Next]_vars, NEW i \in DOMAIN o'.done \ DOMAIN o.done
               PROVE  LET u == o'.done[i].user
                      IN  /\ u \in DOMAIN o.sessions
                          /\ o.sessions[u].status = "OK" /\ ~o.sessions[u].late
    OBVIOUS
  <2>1. PICK e : o'.done = Append(o.done, e) /\ HasValidKeys(o.sessions, e.user)
    BY NextLive DEF Live
  <2>2. o.done \in Seq(Vouched(vouched))
    BY DEF IInv, GoodOutstation, Ordered, Done
  <2>3. o'.done[i] = e
    BY <2>1, <2>2
  <2> QED BY <2>1, <2>3 DEF HasValidKeys, CheckTimeValidity
<1> HIDE DEF Current, InTime
<1>3. Spec => []Current /\ [][InTime]_o
  BY <1>1, <1>2, SecureAuthInvariant, PTL DEF Spec
<1> QED BY <1>3 DEF SessionsAreCurrent, Current, InTime

\* CarriedOutIsVouched: whatever is delayed, lost, deferred, challenged anew or
\* given up, a critical request that is carried out was carried out once, for
\* the user who asked for it, and the master answered a challenge for it
\* (ChallengeState::VerifyAuthenticity, OAuthContext::ProcessChallengeReply).
THEOREM OnlyVouchedIsCarriedOut == Spec => []CarriedOutIsVouched
<1>1. IInv => CarriedOutIsVouched
  <2> SUFFICES ASSUME IInv PROVE CarriedOutIsVouched
    OBVIOUS
  <2>1. PICK n \in 0 .. issued : Done(o, n, vouched)
    BY DEF IInv, GoodOutstation, Ordered
  <2>2. o.done \in Seq(Vouched(vouched)) /\ Vouches(vouched, issued)
    BY <2>1 DEF Done, IInv
  <2>3. ASSUME NEW i \in DOMAIN o.done
        PROVE  /\ [id |-> o.done[i].id, user |-> o.done[i].user] \in vouched
               /\ o.done[i].by = o.done[i].user
    <3>1. PICK v \in vouched : o.done[i] = [id |-> v.id, by |-> v.user, user |-> v.user]
      <4>1. o.done[i] \in Vouched(vouched)
        BY <2>2
      <4> QED BY <4>1 DEF Vouched
    <3>2. v = [id |-> v.id, user |-> v.user]
      BY <2>2 DEF Vouches
    <3> QED BY <3>1, <3>2
  <2>4. ASSUME NEW i \in DOMAIN o.done, NEW j \in DOMAIN o.done, o.done[i].id = o.done[j].id
        PROVE  i = j
    <3>1. i \in Nat /\ j \in Nat
      BY <2>2
    <3>2. /\ o.done[i].id \in Nat /\ o.done[j].id \in Nat
          /\ i < j => o.done[i].id < o.done[j].id
          /\ j < i => o.done[j].id < o.done[i].id
      BY <2>1 DEF Done
    <3> QED BY <2>4, <3>1, <3>2
  <2> QED BY <2>3, <2>4 DEF CarriedOutIsVouched
<1> QED BY <1>1, SecureAuthInvariant, PTL
=============================================================================
