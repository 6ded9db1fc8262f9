----------------------------- MODULE SecureAuth -----------------------------
(***************************************************************************)
(* Secure authentication between a master (secauth::MAuthContext and its   *)
(* tasks) and an outstation (AuthContext), over a channel that delays and  *)
(* loses messages.  m.seq is the SEQ of the next request.  Besides it each *)
(* request has an id of its own, which no code looks at: it stands for the *)
(* contents of the request where these go into a MAC, and for the request  *)
(* itself in the properties, as by stands for the user that asked for it.  *)
(***************************************************************************)
EXTENDS AuthContext

CONSTANTS Roles,         \* the roles user status changes ask for
          Changes,       \* the user status changes asked for: operation and name
          Configured,    \* what users are configured with while the system runs
          MaxRequests,   \* bound on the requests of the master
          MaxInFlight,   \* bound on the messages under way when a task starts
          MaxDowns       \* bound on the losses of the connection

ASSUME SecureAuthAssumption ==
    /\ Roles \subseteq {"VIEWER", "OPERATOR"}
    /\ Changes \subseteq [op : {"ADD", "CHANGE", "DELETE"}, name : Names]
    /\ Configured \subseteq [user : Nat, name : Names, role : {"VIEWER", "OPERATOR"}, key : Nat]
    /\ MaxRequests \in Nat /\ MaxInFlight \in Nat /\ MaxDowns \in Nat

VARIABLES m,        \* the master
          o,        \* the outstation
          toOut,    \* requests on their way
          toMas,    \* responses on their way
          issued,   \* the number of requests sent, which is the id of the last
          vouched,  \* what the master answered challenges for: id and user
          downs     \* losses of the connection so far

vars == <<m, o, toOut, toMas, issued, vouched, downs>>

NoTask == [kind |-> "None"]

InitialMaster ==
    [state |-> "IDLE", active |-> NoTask, isSending |-> FALSE, seq |-> 0, last |-> 0,
     users |-> [u \in {1} |-> 1], sessions |-> <<>>, wrap |-> Nothing,
     begun |-> Nothing, scsn |-> 0]

Init == /\ m = InitialMaster /\ o = InitialOutstation
        /\ toOut = <<>> /\ toMas = <<>> /\ issued = 0 /\ vouched = {} /\ downs = 0

----------------------------------------------------------------------------
\* The tasks.  IsAuthTask holds for all but user requests.
IsAuthTask(t) == t.kind # "User"

\* MAuthContext::CanRun
CanRun(t) == ~IsAuthTask(t) => HasValidKeys(m.sessions, t.user)

Tasks ==
    [kind : {"SessionKey"}, user : DOMAIN m.users]
        \cup [kind : {"User"}, fn : {"Normal", "Critical"}, user : DOMAIN m.users]
        \cup [kind : {"UserStatusChange"}, change : Changes, role : Roles]
        \cup [kind : {"BeginUpdateKeyChange"}, name : {c.name : c \in Changes}]
        \cup IF m.begun = Nothing THEN {} ELSE {[kind |-> "FinishUpdateKeyChange", args |-> m.begun]}

\* BuildRequest of the task t of the master n, as request number id.  An
\* update key is named after the request that starts its change.
BuildRequest(n, t, id) ==
    CASE t.kind = "SessionKey" /\ n.wrap = Nothing ->
            [id |-> id, seq |-> n.seq, fn |-> "KeyStatus", user |-> t.user]
      [] t.kind = "SessionKey" /\ n.wrap # Nothing ->
            [id |-> id, seq |-> n.seq, fn |-> "ChangeKeys", user |-> t.user,
             ksq |-> n.wrap.status, wrap |-> n.wrap]
      [] t.kind = "User" -> [id |-> id, seq |-> n.seq, fn |-> t.fn, by |-> t.user]
      [] t.kind = "UserStatusChange" ->
            [id |-> id, seq |-> n.seq, fn |-> "StatusChange", op |-> t.change.op,
             name |-> t.change.name, role |-> t.role, scsn |-> n.scsn]
      [] t.kind = "BeginUpdateKeyChange" ->
            [id |-> id, seq |-> n.seq, fn |-> "BeginUpdate", name |-> t.name, nonce |-> id]
      [] t.kind = "FinishUpdateKeyChange" ->
            LET a == t.args
            IN  [id |-> id, seq |-> n.seq, fn |-> "FinishUpdate", user |-> a.user,
                 key |-> a.master, wrap |-> [name |-> a.name, nonce |-> a.nonce],
                 hmac |-> [key |-> a.master, master |-> a.master, nonce |-> a.nonce]]

\* MContext::ResumeActiveTask and Transmit: the master n sends the request of
\* its active task, or waits for its line.
ResumeActiveTask(n) ==
    LET id == issued + 1
    IN  IF n.isSending
        THEN m' = [n EXCEPT !.state = "TASK_READY"] /\ UNCHANGED <<toOut, issued>>
        ELSE /\ id <= MaxRequests
             /\ m' = [n EXCEPT !.state = "WAIT_FOR_RESPONSE", !.isSending = TRUE, !.last = id]
             /\ toOut' = Append(toOut, BuildRequest(n, n.active, id))
             /\ issued' = id

CompleteActiveTask(n) == [n EXCEPT !.state = "IDLE", !.active = NoTask]

\* A task that can run starts.  SessionKeyTask::Initialize forgets the keys
\* of an earlier attempt; the authority numbers each change anew.
StartTask(t) ==
    /\ Len(toOut) + Len(toMas) <= MaxInFlight
    /\ o.online /\ m.state = "IDLE" /\ CanRun(t)
    /\ ResumeActiveTask([m EXCEPT !.active = t, !.wrap = Nothing,
                                  !.scsn = IF t.kind = "UserStatusChange" THEN @ + 1 ELSE @])
    /\ UNCHANGED <<o, toMas, vouched, downs>>

OnMasterSendResult ==
    LET n == [m EXCEPT !.isSending = FALSE]
    IN  /\ m.isSending
        /\ IF m.state = "TASK_READY" THEN ResumeActiveTask(n) ELSE m' = n /\ UNCHANGED <<toOut, issued>>
        /\ UNCHANGED <<o, toMas, vouched, downs>>

OnResponseTimeout ==
    /\ m.state = "WAIT_FOR_RESPONSE"
    /\ m' = CompleteActiveTask([m EXCEPT !.seq = @ + 1])
    /\ UNCHANGED <<o, toOut, toMas, issued, vouched, downs>>

----------------------------------------------------------------------------
\* What the tasks make of a response p with the expected SEQ, on the master n.
OnChangeResponse(n, p) ==
    IF p.fn = "KeyStatus" /\ p.hmac = [key |-> n.wrap.key, asdu |-> n.last]
    THEN [n EXCEPT !.sessions = SetSessionKeys(@, n.active.user, n.wrap.key, n.wrap.under)]
    ELSE n

\* The callback of BeginUpdateKeyChangeTask hands the result to the user.
ProcessDataResponse(n, p) ==
    IF p.fn = "UpdateKeyChange"
    THEN [n EXCEPT !.begun = [user |-> p.user, nonce |-> p.nonce, master |-> n.last,
                              name |-> n.active.name]]
    ELSE n

\* The callback of FinishUpdateKeyChangeTask: MAuthContext::AddUser.
ProcessConfirmationResponse(n, p) ==
    LET a == n.active.args
    IN  IF p.fn = "Confirmation" /\ p.hmac = [key |-> a.master, nonce |-> a.nonce]
        THEN [n EXCEPT !.users = With(@, a.user, a.master), !.sessions = Without(@, a.user)]
        ELSE n

ProcessTaskResponse(n, p) ==
    CASE n.active.kind = "SessionKey" -> OnChangeResponse(n, p)
      [] n.active.kind = "BeginUpdateKeyChange" -> ProcessDataResponse(n, p)
      [] n.active.kind = "FinishUpdateKeyChange" -> ProcessConfirmationResponse(n, p)
      [] OTHER -> n

\* SessionKeyTask::OnStatusResponse: new keys, wrapped with the status.  They
\* are named after the request that asked for the status.
OnStatusResponse(n, p) ==
    [n EXCEPT !.wrap = [under |-> n.users[n.active.user], key |-> n.last, status |-> p.ksq]]

ExpectsStatus(n, p) == n.active.kind = "SessionKey" /\ n.wrap = Nothing /\ p.fn = "KeyStatus"

\* MContext::ProcessResponse
ProcessResponse(p) ==
    LET n == [m EXCEPT !.seq = @ + 1]
    IN  IF m.state # "WAIT_FOR_RESPONSE" \/ p.seq # m.seq
        THEN UNCHANGED <<m, toOut, issued>>
        ELSE IF ExpectsStatus(n, p)
             THEN ResumeActiveTask(OnStatusResponse(n, p))
             ELSE /\ m' = CompleteActiveTask(ProcessTaskResponse(n, p))
                  /\ UNCHANGED <<toOut, issued>>

\* The SEQ of the challenge is not compared.
OnAuthChallenge(p) ==
    LET u == m.active.user
        s == Checked(m.sessions, u)
    IN  IF m.isSending \/ ~HasValidKeys(m.sessions, u)
        THEN m' = [m EXCEPT !.sessions = IF m.isSending THEN @ ELSE s] /\ UNCHANGED <<toOut, vouched>>
        ELSE /\ m' = [m EXCEPT !.isSending = TRUE]
             /\ toOut' = Append(toOut, [fn |-> "Reply", seq |-> p.seq, user |-> u,
                                        hmac |-> [key |-> s[u].key, challenge |-> p.csq, asdu |-> m.last]])
             /\ vouched' = vouched \cup {[id |-> m.last, user |-> u]}

\* Neither is that of an error.  The SEQ does not move on.
OnAuthError == m' = CompleteActiveTask(m)

OnReceiveAuthResponse(p) ==
    IF m.state # "WAIT_FOR_RESPONSE"
    THEN UNCHANGED <<m, toOut, issued, vouched>>
    ELSE IF IsAuthTask(m.active)
         THEN ProcessResponse(p) /\ UNCHANGED vouched
         ELSE CASE p.fn = "Challenge" -> OnAuthChallenge(p) /\ UNCHANGED issued
                [] p.fn = "Error" -> OnAuthError /\ UNCHANGED <<toOut, issued, vouched>>
                [] OTHER -> UNCHANGED <<m, toOut, issued, vouched>>

\* MAuthContext::OnParsedHeader
MasterReceives ==
    /\ toMas # <<>> /\ toMas' = Tail(toMas)
    /\ IF Head(toMas).fn = "Response"
       THEN ProcessResponse(Head(toMas)) /\ UNCHANGED vouched
       ELSE OnReceiveAuthResponse(Head(toMas))
    /\ UNCHANGED <<o, downs>>

----------------------------------------------------------------------------
\* The outstation does what AuthContext says, and its response is sent.
OutstationDoes(n) ==
    /\ o' = [n EXCEPT !.tx = Nothing]
    /\ toMas' = IF n.tx = Nothing THEN toMas ELSE Append(toMas, n.tx)

OutstationReceives ==
    /\ toOut # <<>> /\ toOut' = Tail(toOut)
    /\ \E rng, expired \in BOOLEAN : OutstationDoes(ReceiveParsedHeader(o, Head(toOut), rng, expired))
    /\ UNCHANGED <<m, issued, vouched, downs>>

OnOutstationSendResult ==
    /\ o.isTransmitting
    /\ \E rng, expired \in BOOLEAN : OutstationDoes(OnSendResult(o, rng, expired))
    /\ UNCHANGED <<m, toOut, issued, vouched, downs>>

ChallengeTimeout ==
    /\ o.timer
    /\ o' = OnChallengeTimeout(o)
    /\ UNCHANGED <<m, toOut, toMas, issued, vouched, downs>>

\* The expiration time of a session passes.
SessionExpires ==
    /\ \/ \E u \in DOMAIN o.sessions :
            /\ o.sessions[u].status = "OK" /\ ~o.sessions[u].late
            /\ o' = [o EXCEPT !.sessions[u].late = TRUE] /\ UNCHANGED m
       \/ \E u \in DOMAIN m.sessions :
            /\ m.sessions[u].status = "OK" /\ ~m.sessions[u].late
            /\ m' = [m EXCEPT !.sessions[u].late = TRUE] /\ UNCHANGED o
    /\ UNCHANGED <<toOut, toMas, issued, vouched, downs>>

----------------------------------------------------------------------------
\* The application configures a user (OutstationStackSA::ConfigureUser), with
\* another update key than it has.
ConfigureUser(info) ==
    /\ info.user \in DOMAIN o.users => o.users[info.user].key # info.key
    /\ o' = AddUser(o, info.user, [name |-> info.name, role |-> info.role, key |-> info.key])
    /\ UNCHANGED <<m, toOut, toMas, issued, vouched, downs>>

\* And the master is told (MAuthContext::AddUser), after the outstation: until
\* then it cannot set session keys.
AddMasterUser(info) ==
    /\ info.user \in DOMAIN m.users => m.users[info.user] # info.key
    /\ info.user \in DOMAIN o.users /\ o.users[info.user].key = info.key
    /\ m' = [m EXCEPT !.users = With(@, info.user, info.key), !.sessions = Without(@, info.user)]
    /\ UNCHANGED <<o, toOut, toMas, issued, vouched, downs>>

----------------------------------------------------------------------------
\* The channel loses a message, or the connection.
LoseMessage ==
    /\ \/ toOut # <<>> /\ toOut' = Tail(toOut) /\ UNCHANGED toMas
       \/ toMas # <<>> /\ toMas' = Tail(toMas) /\ UNCHANGED toOut
    /\ UNCHANGED <<m, o, issued, vouched, downs>>

\* MAuthContext::OnLowerLayerDown, and that of the outstation.
LoseConnection ==
    /\ o.online /\ downs < MaxDowns
    /\ m' = [CompleteActiveTask(m) EXCEPT !.isSending = FALSE, !.seq = 0, !.sessions = <<>>]
    /\ o' = OnLowerLayerDown(o)
    /\ toOut' = <<>> /\ toMas' = <<>> /\ downs' = downs + 1
    /\ UNCHANGED <<issued, vouched>>

Reconnect ==
    /\ ~o.online
    /\ \E rng, expired \in BOOLEAN : OutstationDoes(OnLowerLayerUp(o, rng, expired))
    /\ UNCHANGED <<m, toOut, issued, vouched, downs>>

Next ==
    \/ \E t \in Tasks : StartTask(t)
    \/ \E info \in Configured : ConfigureUser(info) \/ AddMasterUser(info)
    \/ OnMasterSendResult \/ OnResponseTimeout \/ MasterReceives
    \/ OutstationReceives \/ OnOutstationSendResult \/ ChallengeTimeout \/ SessionExpires
    \/ LoseMessage \/ LoseConnection \/ Reconnect

\* The challenge timer runs in the executor of the outstation, so that it does
\* not go on for ever: WF_vars(ChallengeTimeout), which ends it, spelled out.
Spec == Init /\ [][Next]_vars
FairSpec == Spec /\ []<>~o.timer

----------------------------------------------------------------------------
\* A critical request is carried out once, for the user that issued it, and
\* only if the master answered a challenge for this very request: not for
\* one it had given up by then (ProcessChallengeReply, VerifyAuthenticity).
CarriedOutIsVouched ==
    /\ \A i \in DOMAIN o.done :
         /\ [id |-> o.done[i].id, user |-> o.done[i].user] \in vouched
         /\ o.done[i].by = o.done[i].user
    /\ \A i, j \in DOMAIN o.done : o.done[i].id = o.done[j].id => i = j

\* A session authenticates only as long as what it rests on: it was set up for
\* the user that the database has under this id now, with its name, role and
\* update key (AddUser, DELETE), and has verified fewer messages than
\* maxAuthMsgCount; and a request is carried out in a session whose time has not
\* passed.  The id is what SessionStore goes by: DELETE of a name that has two
\* ids, after an update key change of a user that exists, ends the sessions of
\* the first only, against IOutstationApplicationSA.h:54, "existing sessions are
\* invalidated".
SessionRestsOn(u, s) ==
    s.status = "OK" => u \in DOMAIN o.users /\ s.under = o.users[u] /\ s.uses < MaxAuthCount

SessionsAreCurrent ==
    /\ [](\A u \in DOMAIN o.sessions : SessionRestsOn(u, o.sessions[u]))
    /\ [][\A i \in DOMAIN o'.done \ DOMAIN o.done :
             LET u == o'.done[i].user
             IN  /\ u \in DOMAIN o.sessions
                 /\ o.sessions[u].status = "OK" /\ ~o.sessions[u].late]_o

\* The outstation does not discard requests for ever: whenever it waits for the
\* reply to a challenge, its other state, it stops waiting (TransmitChallenge
\* starts the timer).
ChallengeEnds == []<>(o.state = "IDLE")

=============================================================================
