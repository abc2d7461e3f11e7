---------------------------- MODULE MCSlaveLoop ----------------------------
(* Instances of SlaveLoop for TLC: the alphabets of the master.            *)
EXTENDS SlaveLoop

Words(reqs, ids) == [req : reqs, ack : BOOLEAN, id : ids]

Word(r, a, i) == [req |-> r, ack |-> a, id |-> i]
\* Every request once, those a master recovers with also acknowledging.
AllRequests == {Word(r, FALSE, FALSE) : r \in ReqCodes \ {"PREOP"}}
               \cup {Word("PREOP", FALSE, TRUE), Word("SAFEOP", TRUE, FALSE),
                     Word("OP", TRUE, FALSE)}
\* The cyclic frame of a master: one command, or a read and a write.
WriteOnly  == {{"SM2"}}
ReadWrite  == {{"SM2", "SM3"}}
ReadOrBoth == {{"SM3"}, {"SM2", "SM3"}}
\* The states of a start-up, with and without acknowledging an error.
Startup == Words({"INIT", "PREOP", "SAFEOP", "OP"}, {FALSE})
\* As Startup, but never an acknowledgement together with a request for OP.
AcksBelowOp == Startup \ {Word("OP", TRUE, FALSE)}
\* And requests for state 0.
AcksBelowOpOrZero == AcksBelowOp \cup {Word("ZERO", FALSE, FALSE)}
\* What a master that recovers by way of INIT asks for.
NoAcks == {w \in Startup : ~w.ack}
\* A master that is on its way up.
Rising == NoAcks \ {Word("INIT", FALSE, FALSE)}

AllStates    == States
Lengths      == {0, 1}
OneOrMapError == {1, MapError}
LengthsOrMapError == {0, 1, MapError}
OneOrBad     == {1, BadSM}
Both         == BOOLEAN
=============================================================================
