------------------------------ MODULE Handshake ------------------------------
(***************************************************************************)
(* The SCSI bus between a target of s2p and an initiator of the SCSI2Pi    *)
(* tools, each on a Raspberry Pi: the signals (buses/bus.cpp, rpi_bus.cpp),*)
(* the REQ/ACK handshakes of both sides with their timeouts, the phases of *)
(* a command as the controller walks through them (controller.cpp) and as  *)
(* the initiator follows them (initiator/initiator_executor.cpp).          *)
(*                                                                         *)
(* A step is an access to the signals with what follows up to the next one *)
(* on which the other side may act. A wait that is not over may time out   *)
(* at any time: each side may be arbitrarily slow. A side only controls    *)
(* its own outputs, and its view of the signals is the last sample.        *)
(***************************************************************************)
EXTENDS Integers, Sequences

CONSTANTS
    Commands,   \* what the target transfers in chunks, the initiator's buffer size, and whether
                \* the device cannot fail: [op, length, chunk, size, ok]
    CdbLength

ASSUME HandshakeAssumption ==
    /\ CdbLength \in Nat \ {0}
    /\ \A c \in Commands :
        /\ c.op \in {"DATA_IN", "DATA_OUT", "STATUS"}
        /\ c.length \in Nat /\ c.chunk \in Nat \ {0} /\ c.size \in Nat /\ c.ok \in BOOLEAN
        /\ c.op = "STATUS" <=> c.length = 0

VARIABLES
    lines,      \* the signals that are asserted, by output
    dat,        \* the data lines, by output
    edge,       \* WaitForSelection() has not yet seen the last edge of SEL
    command,    \* the current command
    target,     \* the SCSI thread in the controller and its handshake
    initiator,  \* the initiator in Execute() and its handshake
    history     \* of the current command

vars == <<lines, dat, edge, command, target, initiator, history>>

-----------------------------------------------------------------------------
(* Signals and phases                                                      *)

Outputs == {"target", "initiator"}

Level == UNION {lines[o] : o \in Outputs}

TargetSignals == {"BSY", "MSG", "CD", "IO", "REQ"}

\* The signals of each information transfer phase, which the target asserts in addition to BSY
PhaseSignals(phase) ==
    CASE phase = "MSG_OUT" -> {"MSG", "CD"} [] phase = "COMMAND" -> {"CD"} [] phase = "DATA_OUT" -> {}
      [] phase = "DATA_IN" -> {"IO"} [] phase = "STATUS" -> {"CD", "IO"} [] phase = "MSG_IN" -> {"MSG", "CD", "IO"}

Phases == {"MSG_OUT", "COMMAND", "DATA_OUT", "DATA_IN", "STATUS", "MSG_IN"}

\* GetPhase()
Phase ==
    IF "SEL" \in Level THEN "SELECTION"
    ELSE IF "BSY" \notin Level THEN "BUS_FREE"
    ELSE CHOOSE p \in Phases : PhaseSignals(p) = Level \cap {"MSG", "CD", "IO"}

Change(side, on, off) == lines' = [lines EXCEPT ![side] = (@ \ off) \cup on]

Drive(side, byte) == dat' = [dat EXCEPT ![side] = byte]
Driven(side) == dat[side]

\* Bus::Reset(): all outputs are off.
ResetOutputs(side) == lines' = [lines EXCEPT ![side] = {}]

-----------------------------------------------------------------------------
(* What both sides wait for. A wait ends when its condition holds, after   *)
(* 3 s, or when RST is asserted.                                           *)

TargetWaitsFor ==
    CASE target.pc = "free" -> edge /\ "BSY" \notin Level
      [] target.pc = "selection" -> "RST" \in Level \/ ("SEL" \notin Level /\ "BSY" \in Level)
      [] target.pc \in {"ack", "sent"} -> "ACK" \in Level
      [] target.pc \in {"release", "clear", "last"} -> "ACK" \notin Level
      [] OTHER -> TRUE

InitiatorWaitsFor ==
    CASE initiator.pc = "idle" -> FALSE
      [] initiator.pc = "arbitration" -> {"BSY", "SEL"} \cap Level = {}
      [] initiator.pc = "busy" -> "BSY" \in Level
      [] initiator.pc \in {"loop", "request", "message"} -> "REQ" \in Level
      [] initiator.pc \in {"end", "message end"} -> "REQ" \notin Level
      [] OTHER -> TRUE

\* History: a side has given up although the other one was about to go on.
GivesUp(other) == history' = [history EXCEPT !.late = @ \/ other]

TargetGivesUp == ~TargetWaitsFor /\ GivesUp(InitiatorWaitsFor)
InitiatorGivesUp ==
    /\ ~InitiatorWaitsFor
    /\ history' = [history EXCEPT !.late = @ \/ TargetWaitsFor, !.broken = @ \cup {initiator.phase}]

-----------------------------------------------------------------------------
(* The target                                                              *)

\* Bytes that are no data. The initiator starts with NoStatus.
Good == 100
CheckCondition == 102
CommandComplete == 200
NoStatus == 255

AtRest == [pc |-> "free", phase |-> "BUS_FREE", count |-> 0, length |-> 0, rest |-> 0, cdb |-> <<>>,
           data |-> <<>>, status |-> Good]

TargetOnly == UNCHANGED <<command, initiator, history>>

\* A phase with its first handshake
Handshake(phase, length, pc) ==
    /\ target' = [target EXCEPT !.phase = phase, !.count = 0, !.length = length, !.pc = pc]
    /\ Change("target", PhaseSignals(phase) \cup {"BSY"}, TargetSignals)

\* Mutant: a reset leaves RST as it is.
TargetResetMutant ==
    /\ "RST" \in Level
    /\ target' = AtRest /\ Change("target", {}, TargetSignals)

\* Controller::Reset(), also of the RST that the target itself has asserted
TargetReset ==
    /\ "RST" \in Level
    /\ target' = AtRest /\ ResetOutputs("target")

BusFree(on) ==
    /\ target' = [AtRest EXCEPT !.cdb = target.cdb, !.data = target.data]
    /\ Change("target", on, TargetSignals)

\* A handshake has failed. RST stays asserted until the next selection.
Fail == BusFree({"RST"})

\* WaitForSelection(), GetSelection(), and the first call of Process()
TargetSelected ==
    /\ target.pc = "free" /\ TargetWaitsFor
    /\ edge' = FALSE
    /\ \/ TargetReset
       \/ /\ "RST" \notin Level /\ "SEL" \in Level
          /\ target' = [AtRest EXCEPT !.pc = "selection", !.phase = "SELECTION"]
          /\ Change("target", {"BSY"}, {})
       \/ /\ {"RST", "SEL"} \cap Level = {}
          /\ UNCHANGED <<target, lines>>
    /\ UNCHANGED dat /\ TargetOnly

\* The initiator does not release BSY: the selection is ignored.
SelectionTimeout ==
    /\ target.pc = "free" /\ edge /\ TargetGivesUp
    /\ edge' = FALSE
    /\ UNCHANGED <<lines, dat, command, target, initiator>>

Command == Handshake("COMMAND", CdbLength, "request")

\* Selection(): there is no timeout.
EndSelection ==
    /\ target.pc = "selection" /\ TargetWaitsFor
    /\ \/ TargetReset
       \/ /\ "RST" \notin Level
          /\ IF "ATN" \in Level THEN Handshake("MSG_OUT", 1, "process") ELSE Command
    /\ UNCHANGED <<dat, edge>> /\ TargetOnly

\* A phase that follows a transfer, with what has been received
Enter(received, phase, length) ==
    /\ target' = [received EXCEPT !.phase = phase, !.count = 0, !.length = length, !.pc = "process"]
    /\ Change("target", PhaseSignals(phase), TargetSignals \ {"BSY"})

Status(received, status) == Enter([received EXCEPT !.status = status], "STATUS", 1)

\* The next chunk of data, unless the device fails
Transfer(received, rest) ==
    LET n == IF rest < command.chunk THEN rest ELSE command.chunk
    IN  \/ Enter([received EXCEPT !.rest = rest - n], command.op, n)
        \/ ~command.ok /\ Status(received, CheckCondition)

Execute ==
    IF command.length > 0 THEN Transfer(target, command.length)
    ELSE Status(target, Good) \/ (~command.ok /\ Status(target, CheckCondition))

\* Process() with a handshake that is due. A device may take its time before.
StartHandshake ==
    /\ target.pc = "process" /\ target.count < target.length /\ "RST" \notin Level
    /\ target' = [target EXCEPT !.pc = IF "IO" \in PhaseSignals(target.phase) THEN "put" ELSE "request"]
    /\ UNCHANGED <<lines, dat, edge>> /\ TargetOnly

\* Process() with a handshake that is complete
NextPhase ==
    /\ target.pc = "process" /\ target.count = target.length /\ "RST" \notin Level
    /\ CASE target.phase = "MSG_OUT" -> IF "ATN" \in Level THEN Handshake("MSG_OUT", 1, "process") ELSE Command
         [] target.phase \in {"DATA_IN", "DATA_OUT"} ->
                IF target.rest > 0 THEN Transfer(target, target.rest) ELSE Status(target, Good)
         [] target.phase = "STATUS" -> Enter(target, "MSG_IN", 1)
         [] target.phase = "MSG_IN" -> BusFree({})
    /\ UNCHANGED <<dat, edge>> /\ TargetOnly

ProcessReset ==
    /\ target.pc = "process" /\ TargetReset
    /\ UNCHANGED <<dat, edge>> /\ TargetOnly

\* TargetReceiveHandShake(), TargetCommandHandShake()
Request ==
    /\ target.pc = "request"
    /\ target' = [target EXCEPT !.pc = "ack"]
    /\ Change("target", {"REQ"}, {})
    /\ UNCHANGED <<dat, edge>> /\ TargetOnly

Received(byte) ==
    CASE target.phase = "COMMAND" -> [target EXCEPT !.cdb = Append(@, byte)]
      [] target.phase = "DATA_OUT" -> [target EXCEPT !.data = Append(@, byte)]
      [] OTHER -> target

Receive ==
    /\ target.pc = "ack" /\ TargetWaitsFor
    /\ target' = [Received(Driven("initiator")) EXCEPT !.pc = "release"]
    /\ Change("target", {}, {"REQ"})
    /\ UNCHANGED <<dat, edge>> /\ TargetOnly

\* Mutant: the target does not wait until the initiator has released ACK.
AckReleasedMutant == TRUE

AckReleased == "ACK" \notin Level

EndReceive ==
    /\ target.pc = "release" /\ AckReleased
    /\ IF target.count + 1 = target.length /\ target.phase = "COMMAND" THEN Execute
       ELSE /\ target' = [target EXCEPT !.count = @ + 1,
                                        !.pc = IF target.count + 1 < target.length THEN "request" ELSE "process"]
            /\ UNCHANGED lines
    /\ UNCHANGED <<dat, edge>> /\ TargetOnly

\* TargetSendHandShake()
ByteToSend ==
    CASE target.phase = "DATA_IN" -> command.length - target.rest - target.length + target.count + 1
      [] target.phase = "STATUS" -> target.status
      [] OTHER -> CommandComplete

Put ==
    /\ target.pc = "put"
    /\ Drive("target", ByteToSend)
    /\ target' = [target EXCEPT !.pc = "clear"]
    /\ UNCHANGED <<lines, edge>> /\ TargetOnly

Offer ==
    /\ target.pc = "clear" /\ TargetWaitsFor
    /\ target' = [target EXCEPT !.pc = "sent"]
    /\ Change("target", {"REQ"}, {})
    /\ UNCHANGED <<dat, edge>> /\ TargetOnly

Sent ==
    /\ target.pc = "sent" /\ TargetWaitsFor
    /\ target' = [target EXCEPT !.count = @ + 1, !.pc = IF target.count + 1 < target.length THEN "put" ELSE "last"]
    /\ Change("target", {}, {"REQ"})
    /\ UNCHANGED <<dat, edge>> /\ TargetOnly

\* What the last wait returns is ignored.
AllSent ==
    IF target.count = target.length THEN target' = [target EXCEPT !.pc = "process"] /\ UNCHANGED lines ELSE Fail

EndSend ==
    /\ target.pc = "last" /\ TargetWaitsFor
    /\ AllSent
    /\ UNCHANGED <<dat, edge>> /\ TargetOnly

\* Mutant: the target waits for the first ACK of a byte for ever.
WaitHandShakeMutant == {"release", "clear", "last"}

\* The waits that have a timeout
WaitHandShake == {"ack", "release", "clear", "sent", "last"}

TargetTimeout ==
    /\ target.pc \in WaitHandShake /\ TargetGivesUp
    /\ CASE target.pc = "sent" -> target' = [target EXCEPT !.pc = "last"] /\ Change("target", {}, {"REQ"})
         [] target.pc = "last" -> AllSent
         [] OTHER -> Fail
    /\ UNCHANGED <<dat, edge, command, initiator>>

TargetNext ==
    \/ TargetSelected \/ SelectionTimeout \/ EndSelection \/ StartHandshake \/ NextPhase \/ ProcessReset
    \/ Request \/ Receive \/ EndReceive \/ Put \/ Offer \/ Sent \/ EndSend \/ TargetTimeout

-----------------------------------------------------------------------------
(* The initiator                                                           *)

Idle == [pc |-> "idle", phase |-> "BUS_FREE", seen |-> "BUS_FREE", count |-> 0, offset |-> 0, cdb |-> <<>>,
         size |-> 0, buffer |-> <<>>, status |-> NoStatus]

InitiatorOnly == UNCHANGED <<command, target, history>>

Cdb == [i \in 1 .. CdbLength |-> i]

\* Execute() of a command. A target that is still busy with an abandoned one goes on alone, in
\* chunks of the new one: the initiator first waits until the bus is free.
Start(c) ==
    /\ initiator.pc = "idle"
    /\ command' = c
    /\ initiator' = [Idle EXCEPT !.pc = "arbitration", !.cdb = Cdb, !.size = c.size,
                                 !.buffer = [i \in 1 .. c.size |-> 0]]
    /\ history' = [history EXCEPT !.late = FALSE, !.broken = {}, !.free = target.pc = "free", !.result = NoStatus]
    /\ UNCHANGED <<lines, dat, edge, target>>

\* History: how many commands in a row have got no status, although the bus was free, each side
\* waited for the other one, the device did not fail, and the size of the buffer was right
Lost ==
    IF history.late \/ ~history.free \/ ~command.ok \/ command.size # command.length THEN 0
    ELSE IF initiator.status # NoStatus THEN 0
    ELSE IF history.lost < 2 THEN history.lost + 1 ELSE 2

Return ==
    /\ initiator' = [Idle EXCEPT !.buffer = initiator.buffer]
    /\ history' = [history EXCEPT !.result = initiator.status, !.lost = Lost]
    /\ UNCHANGED command

\* Arbitration() of a single initiator
Arbitrate ==
    /\ initiator.pc = "arbitration" /\ InitiatorWaitsFor
    /\ initiator' = [initiator EXCEPT !.pc = "selection"]
    /\ Change("initiator", {"BSY"}, {})
    /\ UNCHANGED <<dat, edge>> /\ InitiatorOnly

AssertSel ==
    /\ initiator.pc = "selection"
    /\ initiator' = [initiator EXCEPT !.pc = "attention"]
    /\ Change("initiator", {"SEL"}, {})
    /\ edge' = TRUE
    /\ UNCHANGED dat /\ InitiatorOnly

\* Selection(): ATN requests MESSAGE OUT, and BSY is released.
Select ==
    /\ initiator.pc = "attention"
    /\ initiator' = [initiator EXCEPT !.pc = "busy"]
    /\ Change("initiator", {"ATN"}, TargetSignals)
    /\ UNCHANGED <<dat, edge>> /\ InitiatorOnly

Selected ==
    /\ initiator.pc = "busy" /\ InitiatorWaitsFor
    /\ initiator' = [initiator EXCEPT !.pc = "loop"]
    /\ Change("initiator", {}, {"SEL"})
    /\ UNCHANGED <<dat, edge>> /\ InitiatorOnly

\* Neither WaitForFree() nor WaitForBusy() is aborted by RST. The bus is reset without RST.
NotSelected ==
    /\ initiator.pc \in {"arbitration", "busy"} /\ ~InitiatorWaitsFor
    /\ ResetOutputs("initiator")
    /\ initiator' = Idle
    /\ LET late == history.late \/ TargetWaitsFor
       IN  history' = [history EXCEPT !.lost = IF late THEN 0 ELSE Lost, !.late = late]
    /\ UNCHANGED <<dat, edge, command, target>>

\* The timeout of Execute(): the bus is left as it is.
CommandTimeout ==
    /\ initiator.pc = "loop" /\ ~InitiatorWaitsFor
    /\ initiator' = [Idle EXCEPT !.buffer = initiator.buffer]
    /\ LET late == history.late \/ TargetWaitsFor
       IN  history' = [history EXCEPT !.result = initiator.status, !.lost = IF late THEN 0 ELSE Lost, !.late = late]
    /\ UNCHANGED <<lines, dat, edge, command, target>>

\* The number of bytes of a handshake of the initiator
Count ==
    CASE initiator.phase = "COMMAND" -> CdbLength - initiator.offset
      [] initiator.phase \in {"DATA_IN", "DATA_OUT"} -> initiator.size
      [] OTHER -> 1

Sending == initiator.phase \in {"COMMAND", "MSG_OUT", "DATA_OUT"}

\* The LUN is put into the second byte of what is left of the CDB.
CdbToSend == [i \in 1 .. CdbLength |-> IF i = initiator.offset + 2 THEN initiator.cdb[2] ELSE initiator.cdb[i]]

\* Dispatch()
Dispatch ==
    /\ initiator.pc = "loop" /\ InitiatorWaitsFor
    /\ LET n == [initiator EXCEPT !.phase = Phase, !.count = 0]
       IN  CASE Phase = "COMMAND" ->
                    initiator' = [n EXCEPT !.cdb = CdbToSend,
                                           !.pc = IF initiator.offset < CdbLength THEN "put" ELSE "loop"]
             [] Phase \in {"DATA_IN", "DATA_OUT"} /\ initiator.size = 0 -> initiator' = [n EXCEPT !.pc = "exception"]
             [] Phase = "MSG_OUT" \/ (Phase = "DATA_OUT" /\ initiator.size > 0) -> initiator' = [n EXCEPT !.pc = "put"]
             [] Phase = "STATUS" \/ (Phase = "DATA_IN" /\ initiator.size > 0) -> initiator' = [n EXCEPT !.pc = "request"]
             [] Phase = "MSG_IN" -> initiator' = [n EXCEPT !.pc = "message"]
             [] OTHER -> initiator' = [n EXCEPT !.pc = "return"]
    /\ UNCHANGED <<lines, dat, edge>> /\ InitiatorOnly

\* InitiatorSendHandShake(): the data are driven before REQ.
InitiatorPut ==
    /\ initiator.pc = "put"
    /\ Drive("initiator", IF initiator.phase = "COMMAND" THEN initiator.cdb[initiator.offset + initiator.count + 1]
                          ELSE initiator.count + 1)
    /\ initiator' = [initiator EXCEPT !.pc = "request"]
    /\ UNCHANGED <<lines, edge>> /\ InitiatorOnly

\* What Dispatch() does when a handshake is over
HandshakeEnds(i, n) ==
    CASE i.phase = "COMMAND" -> [i EXCEPT !.offset = @ + n, !.pc = "loop"]
      [] i.phase = "DATA_IN" -> [i EXCEPT !.size = @ - n, !.pc = "loop"]
      [] i.phase = "DATA_OUT" -> [i EXCEPT !.pc = IF n = i.size THEN "loop" ELSE "exception"]
      [] i.phase = "STATUS" /\ n = 0 -> [i EXCEPT !.status = NoStatus, !.pc = "loop"]
      [] OTHER -> [i EXCEPT !.pc = "loop"]

\* IsPhase()
SamePhase(p) == p = initiator.phase

Taken(byte) ==
    CASE initiator.phase = "DATA_IN" -> [initiator EXCEPT !.buffer[initiator.count + 1] = byte]
      [] initiator.phase = "STATUS" -> [initiator EXCEPT !.status = byte]
      [] OTHER -> initiator

\* REQ is asserted: the byte is taken, and ACK is asserted.
Acknowledge ==
    /\ initiator.pc = "request" /\ InitiatorWaitsFor
    /\ IF SamePhase(Phase)
       THEN /\ initiator' = [Taken(Driven("target")) EXCEPT !.pc = "end"]
            /\ Change("initiator", {"ACK"}, IF initiator.phase = "MSG_OUT" THEN {"ATN"} ELSE {})
       ELSE initiator' = HandshakeEnds(initiator, initiator.count) /\ UNCHANGED lines
    /\ UNCHANGED <<dat, edge>> /\ InitiatorOnly

\* REQ is released; on a Raspberry Pi IsPhase() uses this sample.
EndOfRequest ==
    /\ initiator.pc = "end" /\ InitiatorWaitsFor
    /\ initiator' = [initiator EXCEPT !.seen = Phase, !.pc = "release"]
    /\ UNCHANGED <<lines, dat, edge>> /\ InitiatorOnly

ReleaseAck ==
    /\ initiator.pc = "release"
    /\ initiator' = [initiator EXCEPT !.pc = "check"]
    /\ Change("initiator", {}, {"ACK"})
    /\ UNCHANGED <<dat, edge>> /\ InitiatorOnly

TimedOut == "TIMEOUT"

CheckPhase ==
    /\ initiator.pc = "check"
    /\ LET n == initiator.count + 1
           ok == initiator.seen # TimedOut /\ SamePhase(initiator.seen)
       IN  initiator' = IF ~ok THEN HandshakeEnds(initiator, initiator.count)
                        ELSE IF n = Count THEN HandshakeEnds(initiator, n)
                        ELSE [initiator EXCEPT !.count = n, !.pc = IF Sending THEN "put" ELSE "request"]
    /\ UNCHANGED <<lines, dat, edge>> /\ InitiatorOnly

InitiatorTimeout ==
    /\ initiator.pc \in {"request", "end"} /\ InitiatorGivesUp
    /\ initiator' = IF initiator.pc = "request" THEN HandshakeEnds(initiator, initiator.count)
                    ELSE [initiator EXCEPT !.seen = TimedOut, !.pc = "release"]
    /\ UNCHANGED <<lines, dat, edge, command, target>>

\* InitiatorMsgInHandShake(): the target only sends COMMAND COMPLETE.
TakeMessage ==
    /\ initiator.pc = "message" /\ InitiatorWaitsFor
    /\ IF Phase = "MSG_IN"
       THEN initiator' = [initiator EXCEPT !.pc = "message end"] /\ Change("initiator", {"ACK"}, {})
       ELSE initiator' = [initiator EXCEPT !.pc = "return"] /\ UNCHANGED lines
    /\ UNCHANGED <<dat, edge>> /\ InitiatorOnly

EndOfMessage ==
    /\ initiator.pc = "message end" /\ InitiatorWaitsFor
    /\ initiator' = [initiator EXCEPT !.pc = "return"]
    /\ Change("initiator", {}, {"ACK"})
    /\ UNCHANGED <<dat, edge>> /\ InitiatorOnly

MessageTimeout ==
    /\ initiator.pc \in {"message", "message end"} /\ InitiatorGivesUp
    /\ initiator' = [initiator EXCEPT !.pc = "return"]
    /\ Change("initiator", {}, {"ACK"})
    /\ UNCHANGED <<dat, edge, command, target>>

EndCommand ==
    /\ initiator.pc = "return"
    /\ Return
    /\ UNCHANGED <<lines, dat, edge, target>>

\* PhaseException, ResetBus(): a pulse on RST
PulseReset ==
    /\ initiator.pc = "exception"
    /\ initiator' = [initiator EXCEPT !.pc = "pulse"]
    /\ Change("initiator", {"RST"}, {})
    /\ UNCHANGED <<dat, edge>> /\ InitiatorOnly

EndOfPulse ==
    /\ initiator.pc = "pulse"
    /\ ResetOutputs("initiator")
    /\ initiator' = [Idle EXCEPT !.buffer = initiator.buffer]
    /\ history' = [history EXCEPT !.lost = Lost]
    /\ UNCHANGED <<dat, edge, command, target>>

Executing ==
    \/ Arbitrate \/ AssertSel \/ Select \/ Selected \/ NotSelected \/ CommandTimeout \/ Dispatch
    \/ InitiatorPut \/ Acknowledge \/ EndOfRequest \/ ReleaseAck \/ CheckPhase \/ InitiatorTimeout
    \/ TakeMessage \/ EndOfMessage \/ MessageTimeout \/ EndCommand \/ PulseReset \/ EndOfPulse

-----------------------------------------------------------------------------
HandshakeInit ==
    /\ lines = [o \in Outputs |-> {}] /\ dat = [o \in Outputs |-> 0] /\ edge = FALSE
    /\ command \in Commands
    /\ target = AtRest /\ initiator = Idle
    /\ history = [late |-> FALSE, broken |-> {}, free |-> TRUE, result |-> NoStatus, lost |-> 0]

HandshakeNext == TargetNext \/ Executing \/ \E c \in Commands : Start(c)

\* Both threads go on, and no wait but the one for a selection is for ever.
HandshakeSpec ==
    /\ HandshakeInit /\ [][HandshakeNext]_vars
    /\ WF_vars(TargetNext) /\ WF_vars(Executing)

-----------------------------------------------------------------------------
(* Properties                                                              *)

Bytes(n) == [i \in 1 .. n |-> i]

\* When Execute() returns GOOD the target has received exactly the CDB and the data of the
\* initiator, and the initiator has the data of the target in its buffer, however slow each side
\* has been. Only what an initiator's own handshake has given up on in the COMMAND or DATA IN
\* phase may be wrong: it resumes them as if they were new (initiator_executor.cpp:215, 102). A
\* DATA OUT buffer that is too small is sent again from its start, with GOOD (DataOut(), 252).
GoodMeansDelivered ==
    initiator.pc = "idle" /\ history.result = Good =>
        /\ "COMMAND" \notin history.broken => target.cdb = Cdb
        /\ command.op = "DATA_OUT" /\ command.size >= command.length => target.data = Bytes(command.length)
        /\ command.op = "DATA_IN" /\ "DATA_IN" \notin history.broken =>
            SubSeq(initiator.buffer, 1, command.length) = Bytes(command.length)

\* RST that a failed handshake leaves behind costs the next command, but not the one after it
\* (controller.cpp:43, 371).
AtMostOneLost == history.lost <= 1

\* Each command ends for both sides, whatever goes wrong (bus.cpp:284, initiator_executor.cpp:61).
CommandsEnd ==
    /\ (initiator.pc # "idle") ~> (initiator.pc = "idle")
    /\ (target.pc # "free") ~> (target.pc = "free")

=============================================================================
