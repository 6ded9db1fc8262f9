---------------------------- MODULE MCOutstation ----------------------------
EXTENDS Outstation

CONSTANTS Binary, EC1, Crob

MCMaxForType == [t \in EventType |-> 2]

Request(f, s, objects) == [function |-> f, seq |-> s, uns |-> FALSE, objects |-> objects]

Poll(classes, n) == [NoObjects EXCEPT !.classes = classes, !.static = n]
Command(ok)      == [NoObjects EXCEPT !.command = Crob, !.accepted = ok]

\* Polls that span fragments, a bad READ, select-before-operate, a no-ack
\* control and the write that clears the restart bit.
PollRequests == {Request("READ", 2, Poll({EC1}, 1)),
                 Request("READ", 1, [NoObjects EXCEPT !.valid = FALSE]),
                 Request("SELECT", 0, Command(TRUE)),
                 Request("OPERATE", 1, Command(TRUE)),
                 Request("DIRECT_OPERATE_NR", 2, Command(TRUE)),
                 Request("WRITE", 2, [NoObjects EXCEPT !.command = "DEVICE_RESTART"])}

UnsolRequests == {Request("READ", 0, Poll({EC1}, 0)),
                  Request("ENABLE_UNSOLICITED", 1, Poll({EC1}, 0)),
                  Request("DISABLE_UNSOLICITED", 2, Poll({EC1}, 0))}

=============================================================================
