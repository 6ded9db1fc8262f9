----------------------------- MODULE AuthContext -----------------------------
(***************************************************************************)
(* The outstation of secure authentication (secauth::OAuthContext): what   *)
(* it does with one request, as a function of the outstation o.  o.tx is   *)
(* the response the step transmits.  The cryptography is abstract: a key   *)
(* or a nonce is a number, and a MAC or a wrapped key is the record of     *)
(* what went into it, so that it verifies exactly if the parts agree.      *)
(* Messages are well formed; of the function codes those remain that are   *)
(* told apart: a critical one and one that is not.                         *)
(***************************************************************************)
EXTENDS Naturals, Sequences, FiniteSets, Functions

CONSTANTS Names,         \* user names
          DefaultUser,   \* the name of user 1, configured with AddUser
          MaxAuthCount   \* OutstationAuthSettings::maxAuthMsgCount

ASSUME AuthAssumption == DefaultUser \in Names /\ MaxAuthCount \in Nat \ {0}

Nothing == [fn |-> "Nothing"]

\* RoleBasedPermissions::From, as far as it tells the roles apart: VIEWER may
\* not use the critical function, OPERATOR may.
IsAllowed(role, fn) == fn = "Critical" => role = "OPERATOR"

\* A session of SessionStore; late is whether its expiration time has passed,
\* under what the database had of the user when the keys were set and uses the
\* messages it verified since.
NewSession == [status |-> "NOT_INIT", key |-> 0, authCount |-> 0, late |-> FALSE,
               under |-> Nothing, uses |-> 0]

InitialOutstation ==
    [online |-> TRUE, isTransmitting |-> FALSE, deferred |-> Nothing,
     state |-> "IDLE", timer |-> FALSE, challenge |-> [seq |-> 0, asdu |-> Nothing],
     users |-> [u \in {1} |-> [name |-> DefaultUser, role |-> "OPERATOR", key |-> 1]],
     sessions |-> <<>>,
     keyChange |-> [seq |-> 0, user |-> 0],
     update |-> [valid |-> FALSE, name |-> DefaultUser, user |-> 0, master |-> 0, nonce |-> 0],
     nonces |-> 0, pending |-> <<>>, scsn |-> 0,
     done |-> <<>>, tx |-> Nothing]

\* A function without the value at x, and one with it set.
Without(f, x) == Restrict(f, DOMAIN f \ {x})
With(f, x, v) == [y \in DOMAIN f \cup {x} |-> IF y = x THEN v ELSE f[y]]

BeginTx(o, response) == [o EXCEPT !.tx = response, !.isTransmitting = TRUE]

TryRespondWithAuthError(o, r, code) ==
    BeginTx(o, [fn |-> "Error", seq |-> r.seq, code |-> code])

----------------------------------------------------------------------------
\* Session.cpp and SessionStore.cpp
CheckTimeValidity(s) == IF s.status = "OK" /\ s.late THEN [s EXCEPT !.status = "COMM_FAIL"] ELSE s

Checked(sessions, u) ==
    IF u \in DOMAIN sessions THEN With(sessions, u, CheckTimeValidity(sessions[u])) ELSE sessions

HasValidKeys(sessions, u) ==
    u \in DOMAIN sessions /\ CheckTimeValidity(sessions[u]).status = "OK"

IncrementAuthCount(s) ==
    IF s.status = "OK"
    THEN [s EXCEPT !.authCount = @ + 1, !.uses = @ + 1,
                   !.status = IF s.authCount + 1 >= MaxAuthCount THEN "COMM_FAIL" ELSE @]
    ELSE s

SetSessionKeys(sessions, u, key, under) ==
    With(sessions, u, [NewSession EXCEPT !.status = "OK", !.key = key, !.under = under])

\* SessionStore::GetSessionKeyStatus
WithSession(sessions, u) ==
    IF u \in DOMAIN sessions THEN Checked(sessions, u) ELSE With(sessions, u, NewSession)

----------------------------------------------------------------------------
\* OutstationUserDatabase.cpp
FindFreeUserId(users) ==
    CHOOSE u \in 2 .. Cardinality(DOMAIN users) + 2 :
        u \notin DOMAIN users /\ \A v \in 2 .. u - 1 : v \in DOMAIN users

IdsOf(users, name) == {u \in DOMAIN users : users[u].name = name}

\* FindByName: the first in the order of the ids.
FindByName(users, name) ==
    CHOOSE u \in IdsOf(users, name) : \A v \in IdsOf(users, name) : u <= v

----------------------------------------------------------------------------
\* OAuthContext::ProcessAPDU: the request is carried out and answered.  done
\* records critical requests with the user that authenticated them.
ProcessAPDU(o, r) == BeginTx(o, [fn |-> "Response", seq |-> r.seq])

CarryOut(o, r, user) ==
    [ProcessAPDU(o, r) EXCEPT !.done = Append(@, [id |-> r.id, by |-> r.by, user |-> user])]

\* Mutant of VerifyAuthenticity: the MAC covers the challenge only.
VerifiesChallenge(o, r) ==
    r.hmac.key = o.sessions[r.user].key /\ r.hmac.challenge = o.challenge.seq

\* ChallengeState::VerifyAuthenticity
VerifyAuthenticity(o, r) ==
    /\ r.hmac.key = o.sessions[r.user].key
    /\ r.hmac.challenge = o.challenge.seq
    /\ r.hmac.asdu = o.challenge.asdu.id

\* The state is IDLE again; the challenged request, which is not read while it
\* is, is dropped here.
Idle(o) == [o EXCEPT !.state = "IDLE", !.timer = FALSE, !.challenge.asdu = Nothing]

ProcessChallengeReply(o, r) ==
    LET idle     == [Idle(o) EXCEPT !.sessions = Checked(@, r.user)]
        verified == [idle EXCEPT !.sessions = With(@, r.user, IncrementAuthCount(@[r.user]))]
    IN  CASE o.state = "IDLE" -> o
          [] o.state # "IDLE" /\ ~HasValidKeys(o.sessions, r.user) ->
                TryRespondWithAuthError(idle, r, "AUTHENTICATION_FAILED")
          [] o.state # "IDLE" /\ HasValidKeys(o.sessions, r.user) /\ ~VerifyAuthenticity(o, r) ->
                TryRespondWithAuthError(idle, r, "AUTHENTICATION_FAILED")
          [] OTHER ->
                IF r.user \in DOMAIN o.users /\ IsAllowed(o.users[r.user].role, o.challenge.asdu.fn)
                THEN CarryOut(verified, o.challenge.asdu, r.user)
                ELSE TryRespondWithAuthError(verified, r, "AUTHORIZATION_FAILED")

\* SessionKeyChangeState::FormatKeyStatusResponse; rng is whether the crypto
\* provider delivers the challenge data.
KeyStatusResponse(o, r, status, hmac, rng) ==
    IF rng
    THEN BeginTx([o EXCEPT !.keyChange = [seq |-> @.seq + 1, user |-> r.user]],
                 [fn |-> "KeyStatus", seq |-> r.seq, ksq |-> o.keyChange.seq + 1,
                  status |-> status, hmac |-> hmac])
    ELSE o

ProcessRequestKeyStatus(o, r, rng) ==
    LET sessions == WithSession(o.sessions, r.user)
    IN  IF o.state = "WAIT_FOR_REPLY" \/ r.user \notin DOMAIN o.users
        THEN o
        ELSE KeyStatusResponse([o EXCEPT !.sessions = sessions], r,
                               sessions[r.user].status, Nothing, rng)

ProcessChangeSessionKeys(o, r, rng) ==
    CASE o.state = "WAIT_FOR_REPLY" -> o
      [] o.state # "WAIT_FOR_REPLY" /\ (o.keyChange # [seq |-> r.ksq, user |-> r.user]
                                        \/ r.user \notin DOMAIN o.users) ->
            TryRespondWithAuthError(o, r, "UNKNOWN_USER")
      [] OTHER ->
            IF r.wrap.under = o.users[r.user].key /\ r.wrap.status = o.keyChange.seq
            THEN KeyStatusResponse(
                    [o EXCEPT !.sessions = SetSessionKeys(@, r.user, r.wrap.key, o.users[r.user])],
                    r, "OK", [key |-> r.wrap.key, asdu |-> r.id], rng)
            ELSE TryRespondWithAuthError(o, r, "AUTHENTICATION_FAILED")

\* Mutant of TransmitChallenge: the timer is not started.
TransmitUntimed(o, r, rng) ==
    IF rng
    THEN BeginTx([o EXCEPT !.challenge = [seq |-> @.seq + 1, asdu |-> r],
                           !.state = "WAIT_FOR_REPLY"],
                 [fn |-> "Challenge", seq |-> r.seq, csq |-> o.challenge.seq + 1])
    ELSE o

\* ProcessNormalFunction, for a critical function: the request is kept and
\* challenged.
TransmitChallenge(o, r, rng) ==
    IF rng
    THEN BeginTx([o EXCEPT !.challenge = [seq |-> @.seq + 1, asdu |-> r],
                           !.state = "WAIT_FOR_REPLY", !.timer = TRUE],
                 [fn |-> "Challenge", seq |-> r.seq, csq |-> o.challenge.seq + 1])
    ELSE o

ProcessNormalFunction(o, r, rng) ==
    CASE o.state = "WAIT_FOR_REPLY" -> o
      [] o.state # "WAIT_FOR_REPLY" /\ r.fn = "Normal" -> ProcessAPDU(o, r)
      [] OTHER -> TransmitChallenge(o, r, rng)

----------------------------------------------------------------------------
\* User status changes, which an authority certified, and update keys.
Null(r) == [fn |-> "Null", seq |-> r.seq]

QueueUserStatusChange(o, r) == BeginTx([o EXCEPT !.pending = With(@, r.name, r.role)], Null(r))

DeleteUser(o, u) == [o EXCEPT !.users = Without(@, u), !.sessions = Without(@, u)]

ProcessUserStatusChange_Delete(o, r) ==
    IF IdsOf(o.users, r.name) # {}
    THEN BeginTx(DeleteUser(o, FindByName(o.users, r.name)),
                 Null(r))
    ELSE TryRespondWithAuthError(o, r, "UNKNOWN_USER")

\* AuthenticateUserStatusChange; a change whose certification data is wrong
\* is refused like one with an old sequence number.
ProcessUserStatusChange(o, r) ==
    LET authenticated == [o EXCEPT !.scsn = r.scsn + 1]
    IN  CASE o.state = "WAIT_FOR_REPLY" -> o
          [] o.state # "WAIT_FOR_REPLY" /\ r.scsn < o.scsn ->
                TryRespondWithAuthError(o, r, "INVALID_CERTIFICATION_DATA")
          [] OTHER ->
                CASE r.op = "ADD" -> QueueUserStatusChange(authenticated, r)
                  [] r.op = "CHANGE" ->
                        IF IdsOf(o.users, r.name) # {} THEN QueueUserStatusChange(authenticated, r)
                        ELSE TryRespondWithAuthError(authenticated, r, "UNKNOWN_USER")
                  [] r.op = "DELETE" -> ProcessUserStatusChange_Delete(authenticated, r)

ProcessBeginUpdateKeyChange(o, r, rng) ==
    LET user == FindFreeUserId(o.users)
    IN  CASE r.name \notin DOMAIN o.pending -> TryRespondWithAuthError(o, r, "UNKNOWN_USER")
          [] r.name \in DOMAIN o.pending /\ ~rng -> [o EXCEPT !.update = [@ EXCEPT !.valid = FALSE]]
          [] OTHER ->
                BeginTx([o EXCEPT !.nonces = @ + 1,
                                  !.update = [valid |-> TRUE, name |-> r.name, user |-> user,
                                              master |-> r.nonce, nonce |-> o.nonces + 1]],
                        [fn |-> "UpdateKeyChange", seq |-> r.seq, user |-> user, nonce |-> o.nonces + 1])

\* Mutant of AddUser: the sessions of the user go on.
AddUserOnly(o, u, info) == [o EXCEPT !.users = With(@, u, info)]

\* OAuthContext::AddUser
AddUser(o, u, info) ==
    [o EXCEPT !.users = With(@, u, info), !.sessions = Without(@, u)]

\* expired is whether the role of the pending change has expired meanwhile.
\* VerifyUserAndKSQ invalidates the state whatever it finds.
ProcessFinishUpdateKeyChange(o, r, expired) ==
    LET v      == o.update
        used   == [o EXCEPT !.update = [@ EXCEPT !.valid = FALSE]]
        popped == [used EXCEPT !.pending = Without(@, v.name)]
    IN  CASE ~v.valid -> TryRespondWithAuthError(o, r, "AUTHENTICATION_FAILED")
          [] v.valid /\ (r.user # v.user \/ r.wrap # [name |-> v.name, nonce |-> v.nonce]) ->
                TryRespondWithAuthError(used, r, "AUTHENTICATION_FAILED")
          [] v.valid /\ r.user = v.user /\ r.wrap = [name |-> v.name, nonce |-> v.nonce]
                     /\ r.hmac # [key |-> r.key, master |-> v.master, nonce |-> v.nonce] ->
                TryRespondWithAuthError(used, r, "INVALID_SIGNATURE")
          [] OTHER ->
                IF v.name \notin DOMAIN o.pending \/ expired
                THEN TryRespondWithAuthError(popped, r, "UNKNOWN_USER")
                ELSE BeginTx(AddUser(popped, v.user, [name |-> v.name, role |-> o.pending[v.name],
                                                      key |-> r.key]),
                             [fn |-> "Confirmation", seq |-> r.seq,
                              hmac |-> [key |-> r.key, nonce |-> v.nonce]])

----------------------------------------------------------------------------
ProcessAuthAPDU(o, r, rng, expired) ==
    CASE r.fn = "Reply" -> ProcessChallengeReply(o, r)
      [] r.fn = "KeyStatus" -> ProcessRequestKeyStatus(o, r, rng)
      [] r.fn = "ChangeKeys" -> ProcessChangeSessionKeys(o, r, rng)
      [] r.fn = "StatusChange" -> ProcessUserStatusChange(o, r)
      [] r.fn = "BeginUpdate" -> ProcessBeginUpdateKeyChange(o, r, rng)
      [] r.fn = "FinishUpdate" -> ProcessFinishUpdateKeyChange(o, r, expired)
      [] OTHER -> ProcessNormalFunction(o, r, rng)

CanTransmit(o) == o.online /\ ~o.isTransmitting

ReceiveParsedHeader(o, r, rng, expired) ==
    IF CanTransmit(o) THEN ProcessAuthAPDU(o, r, rng, expired) ELSE [o EXCEPT !.deferred = r]

CheckForTaskStart(o, rng, expired) ==
    IF CanTransmit(o) /\ o.deferred # Nothing
    THEN ProcessAuthAPDU([o EXCEPT !.deferred = Nothing], o.deferred, rng, expired)
    ELSE o

\* OnSendResult and OnLowerLayerUp of the base class end in CheckForTaskStart.
OnSendResult(o, rng, expired) ==
    CheckForTaskStart([o EXCEPT !.isTransmitting = FALSE], rng, expired)

OnLowerLayerUp(o, rng, expired) == CheckForTaskStart([o EXCEPT !.online = TRUE], rng, expired)

OnChallengeTimeout(o) == Idle(o)

\* The base class stops transmitting; deferred keeps what it has.
OnLowerLayerDown(o) ==
    [Idle(o) EXCEPT !.online = FALSE, !.isTransmitting = FALSE,
              !.update = [@ EXCEPT !.valid = FALSE], !.sessions = <<>>]
=============================================================================
