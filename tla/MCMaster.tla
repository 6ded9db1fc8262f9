------------------------------ MODULE MCMaster ------------------------------
EXTENDS Master

CONSTANTS Scan1, Sbo, Direct, Ask, OneShot

Reply(fin, con, iin, objects) == [fin |-> fin, con |-> con, iin |-> iin, objects |-> objects]
Unsol(con, iin)               == [con |-> con, iin |-> iin, objects |-> "good"]

\* One master: what the replies may say and which tasks it has.
OneClasses == [t \in {Sbo} |-> "SelectAndOperate"]
OneStartup == <<"clearRestart", "startupIntegrity">>
OneReplies == {Reply(TRUE, FALSE, {}, "good"), Reply(TRUE, TRUE, {}, "good"),
               Reply(FALSE, TRUE, {}, "good"),
               Reply(TRUE, FALSE, {"DEVICE_RESTART"}, "bad")}
OneUnsol   == {Unsol(TRUE, {"DEVICE_RESTART"})}

\* Two masters on a channel, that are disabled alone or together.
TwoClasses == [t \in {Sbo, Direct} |-> "DirectOperate"]
TwoStartup == <<>>
TwoReplies == {Reply(TRUE, FALSE, {}, "good")}
TwoUnsol   == {Unsol(TRUE, {})}
=============================================================================
