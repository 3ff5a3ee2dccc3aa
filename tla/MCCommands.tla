----------------------------- MODULE MCCommands -----------------------------
(* The small sets of CDBs for model checking Controller.                   *)
\* A CDB for unit l that is neither linked nor flagged
Single(op, l, length, chunk) ==
    [op |-> op, lun |-> l, linked |-> FALSE, flag |-> FALSE, length |-> length,
     chunk |-> chunk]

Linked(c)  == [c EXCEPT !.linked = TRUE]
Flagged(c) == [c EXCEPT !.flag = TRUE]

\* Every way to transfer data, for the only unit and for a missing one.
TransferCommands ==
    {Single("READ", 0, 5, 2), Linked(Single("WRITE", 0, 3, 2)),
     Single("MODE_SELECT", 0, 2, 0), Single("FORMAT", 0, 0, 0),
     Single("INQUIRY", 1, 2, 0), Single("READ", 1, 2, 1),
     Single("REQUEST_SENSE", 0, 2, 0), Single("REQUEST_SENSE", 1, 2, 0),
     Flagged(Single("TEST_UNIT_READY", 0, 0, 0)), Single("UNSUPPORTED", 0, 0, 0)}

\* Failing commands and the REQUEST SENSE that follows, also to another unit.
SenseCommands ==
    {Single("REQUEST_SENSE", l, 2, 0) : l \in {0, 1, 2}} \cup
    {Single("READ", 1, 2, 1), Single("READ", 2, 1, 1), Linked(Single("RESERVE", 0, 0, 0)),
     Flagged(Single("TEST_UNIT_READY", 0, 0, 0)), Single("UNSUPPORTED", 1, 0, 0)}

\* Both together
DataCommands == TransferCommands \cup SenseCommands

\* What two initiators do to the reservation of a unit and to its medium, with
\* commands that are exempt from the reservation and others
UnitCommands ==
    {Single(op, 0, 0, 0) : op \in {"RESERVE", "RELEASE", "PREVENT", "ALLOW", "EJECT",
                                   "LOAD"}} \cup
    {Single("REQUEST_SENSE", 0, n, 0) : n \in {0, 2}} \cup {Single("READ", 0, 2, 1)}

\* Commands that end in different ways, with messages before them
PhaseCommands ==
    {Single("RESERVE", 0, 0, 0), Single("REQUEST_SENSE", 1, 2, 0),
     Linked(Single("READ", 0, 1, 1)), Single("WRITE", 0, 3, 2), Single("FORMAT", 0, 0, 0),
     Flagged(Single("TEST_UNIT_READY", 0, 0, 0))}
=============================================================================
