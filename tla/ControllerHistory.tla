-------------------------- MODULE ControllerHistory --------------------------
(***************************************************************************)
(* Controller with a history variable, for the properties that relate a    *)
(* step to the command before: the data moved for the current command, and *)
(* the sense data that the next REQUEST SENSE owes for a failed command.   *)
(***************************************************************************)
EXTENDS ControllerProperties

\* READ and WRITE transfer a number of blocks at a time (disk.cpp:418).
ASSUME HistoryAssumption ==
    \A c \in Commands : c.op \in {"READ", "WRITE"} => c.chunk > 0

VARIABLE hist

historyVars == <<vars, hist>>

Nothing == [sense |-> "NO_SENSE", lun |-> NoLun, anyLun |-> FALSE]

HistoryInit == hist = [moved |-> 0, owed |-> Nothing]

\* The bytes that the initiator has sent or taken since the CDB
MovedAfterStep ==
    IF phase = "COMMAND" THEN 0
    ELSE IF phase \in DataPhases /\ phase' = phase /\ xfer'.current = 0
         THEN hist.moved + xfer.current
    ELSE hist.moved

\* The sense data owed after a step. What the controller itself rejects is
\* owed whatever unit REQUEST SENSE is for. A command ends what was owed before.
\* A REQUEST SENSE that repeats the status of the command it is linked to has
\* not failed itself.
OwedAfterStep ==
    LET failed == /\ phase' = "STATUS" /\ status' = "CHECK_CONDITION"
                  /\ ~(status = status' /\ cdb'.op = "REQUEST_SENSE")
        unit   == [sense |-> device'[ExecutingLun(cdb')].sense,
                   lun |-> EffectiveLun(cdb'), anyLun |-> FALSE]
    IN  IF phase = "COMMAND" /\ deferred' # "NO_SENSE"
        THEN [sense |-> deferred', lun |-> NoLun, anyLun |-> TRUE]
        ELSE IF phase \in {"COMMAND", "DATA_IN", "DATA_OUT"} /\ phase' # phase
        THEN IF failed THEN unit
             ELSE IF phase = "COMMAND" THEN Nothing ELSE hist.owed
        ELSE hist.owed

HistoryStep == hist' = [moved |-> MovedAfterStep, owed |-> OwedAfterStep]

HistorySpec == /\ Init /\ HistoryInit
               /\ [][Next /\ HistoryStep]_historyVars

DataOps == {"READ", "WRITE", "INQUIRY", "MODE_SELECT"}

\* A command that ends with status GOOD has moved all of its data, over any
\* number of chunks, and not a byte more.
DataComplete ==
    phase = "STATUS" /\ status = "GOOD" /\ cdb.op \in DataOps => hist.moved = cdb.length

\* A REQUEST SENSE that owes sense data sends them.
DeliversSense ==
    /\ phase = "COMMAND" /\ phase' = "DATA_IN" /\ cdb'.op = "REQUEST_SENSE"
    /\ hist.owed.anyLun \/ hist.owed.lun = EffectiveLun(cdb')
    => reply' = hist.owed.sense /\ reply' # "NO_SENSE"

\* After CHECK CONDITION the next command, when it is a REQUEST SENSE for the
\* same unit, delivers the sense data of this failure: those of the unit or the
\* deferred ones of a command that never reached a unit.
SenseDelivered == [][DeliversSense]_historyVars
==============================================================================
