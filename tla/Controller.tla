----------------------------- MODULE Controller -----------------------------
(***************************************************************************)
(* The SCSI target controller of s2p: the bus phase machine of             *)
(* controllers/controller.cpp with the transfer bookkeeping of             *)
(* abstract_controller.cpp and the per-unit state that the controller      *)
(* consults in base/primary_device.cpp (sense data, reservation, unit      *)
(* attention, medium lock).                                                *)
(*                                                                         *)
(* ProcessOnController() calls Process() until the bus is free; every      *)
(* target action below is one such call, i.e. one phase handler with all   *)
(* the calls it makes.  The only handler that is split is Command(),       *)
(* which blocks for the CDB in its middle: phase = "COMMAND" is the state  *)
(* in which it waits.  The other handshakes are at the beginning of a      *)
(* handler.  REQ and ACK are inside a handshake and are not visible here.  *)
(*                                                                         *)
(* The initiators are the environment: they select, name a unit, send the  *)
(* CDBs of Commands, may stop answering in any handshake and may pulse     *)
(* RST at any time, also between two statements of a handler (see Error).  *)
(***************************************************************************)
EXTENDS Integers, Sequences, FiniteSets

CONSTANTS
    Luns,         \* the units attached to this target, always including 0
    Removable,    \* the units with removable media
    LunRange,     \* the unit numbers an initiator may address
    Initiators,   \* the SCSI IDs of the initiators
    Commands,     \* the CDBs the initiators send
    MsgBytes,     \* the bytes the initiators send in MESSAGE OUT
    MaxMsgBytes,  \* bound on the bytes of one MESSAGE OUT phase
    SenseLength   \* length of the sense data (18 bytes in the code)

Phases == {"BUS_FREE", "SELECTION", "COMMAND", "DATA_IN", "DATA_OUT",
           "STATUS", "MSG_IN", "MSG_OUT"}

SendPhases    == {"DATA_IN", "STATUS", "MSG_IN"}
ReceivePhases == {"DATA_OUT", "MSG_OUT"}
DataPhases    == {"DATA_IN", "DATA_OUT"}

Senses == {"NO_SENSE", "INVALID_OPCODE", "INVALID_FIELD", "LUN_NOT_SUPPORTED",
           "ILLEGAL_REQUEST", "COMMAND_PHASE_ERROR", "POWER_ON_OR_RESET",
           "NOT_READY_TO_READY", "MEDIUM_NOT_PRESENT",
           "LOAD_OR_EJECT_FAILED", "DEVICE_ERROR"}

StatusCodes == {"GOOD", "CHECK_CONDITION", "RESERVATION_CONFLICT"}

\* What the first byte of the transfer buffer stands for; "NONE" when there is
\* nothing to send.
Replies == StatusCodes \cup Senses \cup
           {"INTERMEDIATE", "COMMAND_COMPLETE", "LINKED_COMMAND_COMPLETE",
            "LINKED_COMMAND_COMPLETE_WITH_FLAG", "MESSAGE_REJECT", "DATA", "NONE"}

Ops == {"TEST_UNIT_READY", "INQUIRY", "REQUEST_SENSE", "RESERVE", "RELEASE",
        "PREVENT", "ALLOW", "EJECT", "LOAD", "READ", "WRITE", "MODE_SELECT",
        "FORMAT", "UNSUPPORTED"}

\* The commands that start with CheckReady().
ReadyOps == {"TEST_UNIT_READY", "PREVENT", "ALLOW", "READ", "WRITE"}

\* Mutant: READ is executed for any unit.
AnyLunOpsMutant == {"INQUIRY", "REQUEST_SENSE", "READ"}

\* The commands that are executed for a unit that does not exist.
AnyLunOps == {"INQUIRY", "REQUEST_SENSE"}

\* Mutant: a reserved unit can be reserved.
ExemptOpsMutant == {"INQUIRY", "REQUEST_SENSE", "RELEASE", "ALLOW", "RESERVE"}

\* The commands CheckReservation() lets pass.
ExemptOps == {"INQUIRY", "REQUEST_SENSE", "RELEASE", "ALLOW"}

\* length is the allocation or parameter list length of a command, or the
\* length of its data; chunk is the length of a single transfer of READ/WRITE.
Cdb == [op : Ops, lun : LunRange, linked : BOOLEAN, flag : BOOLEAN,
        length : Nat, chunk : Nat]

NoLun       == -1   \* identified_lun without an IDENTIFY message
Unknown     == -1   \* UNKNOWN_INITIATOR_ID
NotReserved == -2   \* NOT_RESERVED

\* Message codes of MESSAGE OUT
Extended       == 1
Abort          == 6
BusDeviceReset == 12
Identify       == 128

ASSUME ControllerAssumption ==
    /\ 0 \in Luns
    /\ Luns \subseteq LunRange
    /\ Removable \subseteq Luns
    /\ LunRange \subseteq 0..31
    /\ Initiators \subseteq 0..7
    /\ Commands \subseteq Cdb
    /\ MsgBytes \subseteq 0..255
    /\ \A b \in MsgBytes : b >= Identify => b % 32 \in LunRange
    /\ MaxMsgBytes \in Nat \ {0}
    /\ SenseLength \in Nat \ {0}

VARIABLES
    phase,      \* the phase of the phase handler
    line,       \* the control lines the target drives: BSY, MSG, C/D, I/O
    rst,        \* who drives RST (it is wired OR)
    sel,        \* SEL, driven by an initiator
    atn,        \* ATN, driven by an initiator
    initiator,  \* initiator_id
    xfer,       \* current_length, remaining_length and chunk_size
    status,     \* the SCSI status
    cdb,        \* the last CDB received
    msg,        \* atn_msg, msg_bytes, identified_lun and the byte received last
    link,       \* the link and flag bits of the current command
    deferred,   \* deferred_sense_key and deferred_asc
    reply,      \* the first byte of the transfer buffer
    device      \* the units: sense data, reserving_initiator, unit attentions,
                \* medium lock; ejected when there is a last_filename

vars == <<phase, line, rst, sel, atn, initiator, xfer, status, cdb, msg, link,
          deferred, reply, device>>

RST == rst.target \/ rst.initiator

Released   == [bsy |-> FALSE, msg |-> FALSE, cd |-> FALSE, io |-> FALSE]
NoTransfer == [current |-> 0, remaining |-> 0, chunk |-> 0]
OneByte    == [current |-> 1, remaining |-> 1, chunk |-> 1]

Smaller(a, b) == IF a < b THEN a ELSE b

\* SetTransferSize() followed by SetCurrentLength()
Transfer(current, length, size) ==
    [current |-> current, remaining |-> length,
     chunk |-> Smaller(length, size)]

\* Mutant: the last chunk is not shortened.
AdvanceMutant(x, n) == [x EXCEPT !.remaining = @ - n]

\* UpdateTransferLength()
Advance(x, n) == [x EXCEPT !.remaining = @ - n,
                           !.chunk = Smaller(x.remaining - n, @)]

\* GetEffectiveLun()
EffectiveLun(c) == IF msg.lun # NoLun THEN msg.lun ELSE c.lun

Unit == [sense : Senses, holder : Initiators \cup {Unknown, NotReserved},
         reset : BOOLEAN, attn : BOOLEAN, changed : BOOLEAN,
         locked : BOOLEAN, ready : BOOLEAN, ejected : BOOLEAN]

NewUnit == [sense |-> "NO_SENSE", holder |-> NotReserved, reset |-> FALSE,
            attn |-> FALSE, changed |-> FALSE, locked |-> FALSE,
            ready |-> TRUE, ejected |-> FALSE]

ZeroCdb == [op |-> "TEST_UNIT_READY", lun |-> 0, linked |-> FALSE,
            flag |-> FALSE, length |-> 0, chunk |-> 0]

Init ==
    /\ phase = "BUS_FREE"
    /\ line = Released
    /\ rst = [target |-> FALSE, initiator |-> FALSE]
    /\ sel = FALSE
    /\ atn = FALSE
    /\ initiator = Unknown
    /\ xfer = NoTransfer
    /\ status = "GOOD"
    /\ cdb = ZeroCdb
    /\ msg = [atn |-> FALSE, bytes |-> <<>>, lun |-> NoLun, byte |-> 0]
    /\ link = [linked |-> FALSE, flag |-> FALSE]
    /\ deferred = "NO_SENSE"
    /\ reply = "NONE"
    /\ device = [l \in Luns |-> NewUnit]

-----------------------------------------------------------------------------
(* Entering a phase.  These are the parts of the handlers that change from *)
(* another phase; link' must have been determined before.                  *)

\* Mutant: the LUN of the IDENTIFY message is kept.
BusFreeMutant ==
    /\ phase' = "BUS_FREE"
    /\ line' = Released
    /\ status' = "GOOD"
    /\ msg' = [msg EXCEPT !.atn = FALSE]
    /\ reply' = "NONE"

\* BusFree() in any phase but BUS FREE. The transfer sizes and the link bits
\* keep their values.
BusFree ==
    /\ phase' = "BUS_FREE"
    /\ line' = Released
    /\ status' = "GOOD"
    /\ msg' = [msg EXCEPT !.lun = NoLun, !.atn = FALSE]
    /\ reply' = "NONE"

\* Mutant: MSG remains asserted after MESSAGE OUT.
EnterCommandMutant(l) ==
    /\ phase' = "COMMAND"
    /\ line' = [l EXCEPT !.cd = TRUE, !.io = FALSE]

\* Command() up to the handshake for the CDB, with the lines at l.
EnterCommand(l) ==
    /\ phase' = "COMMAND"
    /\ line' = [l EXCEPT !.msg = FALSE, !.cd = TRUE, !.io = FALSE]

\* Status() with the lines at l. A linked command that succeeded reports
\* INTERMEDIATE.
EnterStatus(l, code) ==
    /\ phase' = "STATUS"
    /\ line' = [l EXCEPT !.msg = FALSE, !.cd = TRUE, !.io = TRUE]
    /\ xfer' = OneByte
    /\ status' = code
    /\ reply' = IF link'.linked /\ code = "GOOD" THEN "INTERMEDIATE" ELSE code

\* Mutant: a linked command is not announced.
EnterMsgInMutant ==
    /\ phase' = "MSG_IN"
    /\ line' = [line EXCEPT !.msg = TRUE, !.cd = TRUE, !.io = TRUE]
    /\ xfer' = OneByte
    /\ reply' = "COMMAND_COMPLETE"

\* MsgIn(), here always with the completion message of the command.
EnterMsgIn ==
    /\ phase' = "MSG_IN"
    /\ line' = [line EXCEPT !.msg = TRUE, !.cd = TRUE, !.io = TRUE]
    /\ xfer' = OneByte
    /\ reply' = IF ~link'.linked THEN "COMMAND_COMPLETE"
                ELSE IF link'.flag THEN "LINKED_COMMAND_COMPLETE_WITH_FLAG"
                ELSE "LINKED_COMMAND_COMPLETE"

\* DataIn() with the lines at l: without data there is no DATA IN phase.
EnterDataIn(l, x, payload, code) ==
    \/ /\ x.current = 0
       /\ EnterStatus(l, code)
    \/ /\ x.current # 0
       /\ phase' = "DATA_IN"
       /\ line' = [l EXCEPT !.msg = FALSE, !.cd = FALSE, !.io = TRUE]
       /\ xfer' = x
       /\ status' = code
       /\ reply' = payload

\* DataOut(): a current length of -1 (FORMAT UNIT of the SG driver) enforces
\* the phase without data.
EnterDataOut(x) ==
    \/ /\ x.current = 0
       /\ EnterStatus(line, "GOOD")
    \/ /\ x.current # 0
       /\ phase' = "DATA_OUT"
       /\ line' = [line EXCEPT !.msg = FALSE, !.cd = FALSE, !.io = FALSE]
       /\ xfer' = [x EXCEPT !.current = IF @ = -1 THEN 0 ELSE @]
       /\ status' = "GOOD"
       /\ UNCHANGED reply

\* Mutant: the LUN of the IDENTIFY message is ignored.
SenseLunMutant(sense, c) ==
    IF sense = "LUN_NOT_SUPPORTED" \/ c.lun \notin Luns THEN 0 ELSE c.lun

\* The unit Error() stores the sense data in.
SenseLun(sense, c) ==
    IF sense = "LUN_NOT_SUPPORTED" \/ EffectiveLun(c) \notin Luns
    THEN 0 ELSE EffectiveLun(c)

\* RST is asserted, or is being asserted now by an initiator.
ResetSeen == rst' = IF rst.target THEN rst ELSE [rst EXCEPT !.initiator = TRUE]

\* Error(), when the units are at d and the transfer sizes at x. It samples
\* RST again, which may have been asserted since Process() sampled it. With
\* RST there is no status and no sense data: the bus is released.
Error(sense, code, d, x) ==
    \/ /\ ResetSeen
       /\ BusFree
       /\ xfer' = x
       /\ device' = d
    \/ /\ ~RST
       /\ device' = [d EXCEPT ![SenseLun(sense, cdb')].sense = sense]
       /\ EnterStatus(line, code)
       /\ UNCHANGED <<rst, msg>>

\* A handshake that ended early: SetRST(true), then Error(), which sees RST.
HandshakeFailed ==
    /\ rst' = [rst EXCEPT !.target = TRUE]
    /\ BusFree
    /\ UNCHANGED <<xfer, device, cdb, link>>

-----------------------------------------------------------------------------
(* Executing a command: Execute() and the commands of the units.           *)
(* u is the executing unit, d the state of the units so far.               *)

\* CheckReady(): the sense data of its exception, and its effect on the unit.
ReadySense(v) == IF v.reset THEN "POWER_ON_OR_RESET"
                 ELSE IF v.attn THEN "NOT_READY_TO_READY"
                 ELSE IF ~v.ready THEN "MEDIUM_NOT_PRESENT"
                 ELSE "NO_SENSE"

AfterCheckReady(v) == IF v.reset THEN [v EXCEPT !.reset = FALSE]
                      ELSE [v EXCEPT !.attn = FALSE]

\* StorageDevice::Dispatch(): a medium change is reported once.
ReportMediumChange(c, u, d) ==
    /\ d[u].changed /\ c.op \notin {"INQUIRY", "REQUEST_SENSE"}
    /\ Error("NOT_READY_TO_READY", "CHECK_CONDITION",
             [d EXCEPT ![u].changed = FALSE], NoTransfer)

\* The command is not implemented, or CheckReady() throws.
RejectCommand(c, u, d) ==
    \/ /\ c.op = "UNSUPPORTED"
       /\ Error("INVALID_OPCODE", "CHECK_CONDITION", d, NoTransfer)
    \/ /\ c.op \in ReadyOps /\ ReadySense(d[u]) # "NO_SENSE"
       /\ Error(ReadySense(d[u]), "CHECK_CONDITION",
                [d EXCEPT ![u] = AfterCheckReady(@)], NoTransfer)

\* The commands without data.
ExecuteWithoutData(c, u, d) ==
    /\ c.op \in {"TEST_UNIT_READY", "RESERVE", "RELEASE", "PREVENT", "ALLOW"}
    /\ device' = CASE c.op = "RESERVE" -> [d EXCEPT ![u].holder = initiator]
                   [] c.op = "RELEASE" -> [d EXCEPT ![u].holder = NotReserved]
                   [] c.op = "PREVENT" -> [d EXCEPT ![u].locked = TRUE]
                   [] c.op = "ALLOW"   -> [d EXCEPT ![u].locked = FALSE]
                   [] OTHER -> d
    /\ EnterStatus(line, "GOOD")
    /\ UNCHANGED <<rst, msg>>

\* Device::Eject() when it succeeds
Ejected(v) == [v EXCEPT !.ready = FALSE, !.attn = FALSE, !.locked = FALSE,
                        !.ejected = TRUE]

\* Mutant: the lock is ignored.
CanEjectMutant(u, d) == u \in Removable /\ d[u].ready

\* Device::Eject() without the force flag
CanEject(u, d) == u \in Removable /\ d[u].ready /\ ~d[u].locked

\* START STOP UNIT with the load bit. LOAD reserves the image file that was
\* ejected last, which may be in use by another unit now.
EjectOrLoad(c, u, d) ==
    \/ /\ c.op = "EJECT" /\ CanEject(u, d)
       /\ device' = [d EXCEPT ![u] = Ejected(@)]
       /\ EnterStatus(line, "GOOD")
       /\ UNCHANGED <<rst, msg>>
    \/ /\ c.op = "LOAD"
       /\ device' = [d EXCEPT ![u].changed = d[u].ejected]
       /\ EnterStatus(line, "GOOD")
       /\ UNCHANGED <<rst, msg>>
    \/ /\ \/ c.op = "EJECT" /\ ~CanEject(u, d)
          \/ c.op = "LOAD" /\ d[u].ejected
       /\ Error("LOAD_OR_EJECT_FAILED", "CHECK_CONDITION", d, NoTransfer)

\* READ fetches the first chunk before the DATA IN phase, which may fail.
ExecuteRead(c, d) ==
    /\ c.op = "READ"
    /\ LET x == Transfer(Smaller(c.length, c.chunk), c.length, c.chunk)
       IN  \/ /\ EnterDataIn(line, x, "DATA", "GOOD")
              /\ device' = d
              /\ UNCHANGED <<rst, msg>>
           \/ /\ c.length > 0
              /\ Error("DEVICE_ERROR", "CHECK_CONDITION", d,
                       [x EXCEPT !.current = c.length])

\* WRITE receives its data in chunks; MODE SELECT sets no transfer size, so
\* that all its data are one chunk.
ExecuteDataOut(c, d) ==
    /\ c.op \in {"WRITE", "MODE_SELECT", "FORMAT"}
    /\ EnterDataOut(CASE c.op = "WRITE" ->
                           Transfer(Smaller(c.length, c.chunk), c.length, c.chunk)
                      [] c.op = "MODE_SELECT" -> Transfer(c.length, 0, 0)
                      [] c.op = "FORMAT" -> Transfer(-1, 0, 0))
    /\ device' = d
    /\ UNCHANGED <<rst, msg>>

ExecuteInquiry(c, d) ==
    /\ c.op = "INQUIRY"
    /\ EnterDataIn(line, Transfer(c.length, 0, 0), "DATA", "GOOD")
    /\ device' = d
    /\ UNCHANGED <<rst, msg>>

\* RequestSense() for an existing unit, HandleRequestSense() included.
RequestSense(c, u) ==
    \/ /\ device[u].sense = "NO_SENSE" /\ ~device[u].ready
       /\ Error("MEDIUM_NOT_PRESENT", "CHECK_CONDITION", device, NoTransfer)
    \/ /\ device[u].sense # "NO_SENSE" \/ device[u].ready
       /\ EnterDataIn(line, Transfer(Smaller(c.length, SenseLength), 0, 0),
                      device[u].sense, status)
       /\ device' = [device EXCEPT ![u].sense = "NO_SENSE"]
       /\ UNCHANGED <<rst, msg>>

\* RequestSense() for a missing unit: Error() has already entered the STATUS
\* phase with status GOOD when the DATA IN phase is entered. Without data
\* DataIn() calls Status() once more, which then ends the STATUS phase.
RequestSenseMissingLun(c) ==
    /\ ~RST
    /\ LET length == Smaller(c.length, SenseLength)
       IN  \/ /\ length # 0
              /\ EnterDataIn(line, [OneByte EXCEPT !.current = length],
                             "LUN_NOT_SUPPORTED", "GOOD")
           \/ /\ length = 0
              /\ EnterMsgIn
              /\ status' = "GOOD"
    /\ device' = [device EXCEPT ![0].sense = "NO_SENSE"]
    /\ UNCHANGED <<rst, msg>>

\* The same when Error() sees RST: the command goes on with BSY released.
RequestSenseMissingLunReset(c) ==
    /\ ResetSeen
    /\ msg' = [msg EXCEPT !.lun = NoLun, !.atn = FALSE]
    /\ \/ /\ device[0].sense = "NO_SENSE" /\ ~device[0].ready
          /\ phase' = "BUS_FREE"
          /\ line' = Released
          /\ status' = "GOOD"
          /\ xfer' = NoTransfer
          /\ reply' = "NONE"
          /\ UNCHANGED device
       \/ /\ device[0].sense # "NO_SENSE" \/ device[0].ready
          /\ EnterDataIn(Released, Transfer(Smaller(c.length, SenseLength), 0, 0),
                         device[0].sense, "GOOD")
          /\ device' = [device EXCEPT ![0].sense = "NO_SENSE"]

Dispatch(c, u, d) ==
    \/ ReportMediumChange(c, u, d)
    \/ /\ ~d[u].changed \/ c.op \in {"INQUIRY", "REQUEST_SENSE"}
       /\ \/ RejectCommand(c, u, d)
          \/ /\ c.op \in ReadyOps => ReadySense(d[u]) = "NO_SENSE"
             /\ \/ ExecuteWithoutData(c, u, d)
                \/ EjectOrLoad(c, u, d)
                \/ ExecuteRead(c, d)
                \/ ExecuteDataOut(c, d)
                \/ ExecuteInquiry(c, d)
          \/ /\ c.op = "REQUEST_SENSE"
             /\ IF EffectiveLun(c) \in Luns THEN RequestSense(c, u)
                ELSE \/ RequestSenseMissingLun(c)
                     \/ RequestSenseMissingLunReset(c)

\* Mutant: an initiator without ID is not checked.
ReservedMutant(c, u, d) ==
    /\ d[u].holder \notin {NotReserved, initiator}
    /\ initiator # Unknown
    /\ c.op \notin ExemptOps

\* CheckReservation() for unit u
Reserved(c, u, d) ==
    /\ d[u].holder \notin {NotReserved, initiator}
    /\ c.op \notin ExemptOps

ExecutingLun(c) == IF EffectiveLun(c) \in Luns THEN EffectiveLun(c) ELSE 0

\* ResetStatus(): pending sense data are discarded by any other command.
DiscardSense(c) ==
    IF c.op = "REQUEST_SENSE" THEN device
    ELSE [device EXCEPT ![ExecutingLun(c)].sense = "NO_SENSE"]

Execute(c) ==
    \/ /\ EffectiveLun(c) \notin Luns /\ c.op \notin AnyLunOps
       /\ Error("LUN_NOT_SUPPORTED", "CHECK_CONDITION", device, NoTransfer)
    \/ /\ EffectiveLun(c) \in Luns \/ c.op \in AnyLunOps
       /\ LET u == ExecutingLun(c)
              d == DiscardSense(c)
          IN  \/ /\ Reserved(c, u, d)
                 /\ Error("ILLEGAL_REQUEST", "RESERVATION_CONFLICT", d, NoTransfer)
              \/ /\ ~Reserved(c, u, d)
                 /\ Dispatch(c, u, d)

-----------------------------------------------------------------------------
(* The initiators.                                                         *)

\* An initiator that sees a free bus selects the target; with ATN it will
\* name the unit in MESSAGE OUT.
Select ==
    /\ ~sel /\ ~line.bsy
    /\ sel' = TRUE
    /\ atn' \in BOOLEAN
    /\ UNCHANGED <<phase, line, rst, initiator, xfer, status, cdb, msg, link,
                   deferred, reply, device>>

\* It releases SEL when it sees BSY, or gives up.
ReleaseSelect ==
    /\ sel
    /\ sel' = FALSE
    /\ atn' = (atn /\ line.bsy)
    /\ UNCHANGED <<phase, line, rst, initiator, xfer, status, cdb, msg, link,
                   deferred, reply, device>>

\* A bus reset is a pulse of RST.
AssertReset ==
    /\ ~rst.initiator
    /\ rst' = [rst EXCEPT !.initiator = TRUE]
    /\ UNCHANGED <<phase, line, sel, atn, initiator, xfer, status, cdb, msg,
                   link, deferred, reply, device>>

ReleaseReset ==
    /\ rst.initiator
    /\ rst' = [rst EXCEPT !.initiator = FALSE]
    /\ UNCHANGED <<phase, line, sel, atn, initiator, xfer, status, cdb, msg,
                   link, deferred, reply, device>>

(* The remote interface changes media. It needs the dispatch lock, which   *)
(* the SCSI thread holds unless the bus is free.                           *)
InsertMedium(l) ==
    /\ phase = "BUS_FREE"
    /\ ~device[l].ready
    /\ device' = [device EXCEPT ![l] = [@ EXCEPT !.ready = TRUE, !.attn = TRUE,
                                                 !.changed = TRUE, !.locked = FALSE]]
    /\ UNCHANGED <<phase, line, rst, sel, atn, initiator, xfer, status, cdb,
                   msg, link, deferred, reply>>

EjectMedium(l) ==
    /\ phase = "BUS_FREE"
    /\ device[l].ready
    /\ device' = [device EXCEPT ![l] = Ejected(@)]
    /\ UNCHANGED <<phase, line, rst, sel, atn, initiator, xfer, status, cdb,
                   msg, link, deferred, reply>>

-----------------------------------------------------------------------------
(* The target: one call of Process() per action.                           *)

\* Process() sees RST and calls Reset(). With a free bus it is called only
\* after WaitForSelection() has seen SEL.
Reset ==
    /\ RST
    /\ phase # "COMMAND"
    /\ phase = "BUS_FREE" => sel
    /\ phase' = "BUS_FREE"
    /\ line' = Released
    /\ rst' = [rst EXCEPT !.target = FALSE]
    /\ initiator' = Unknown
    /\ xfer' = NoTransfer
    /\ status' = "GOOD"
    /\ msg' = [msg EXCEPT !.lun = NoLun, !.atn = FALSE]
    /\ link' = [linked |-> FALSE, flag |-> FALSE]
    /\ device' = [l \in Luns |-> [device[l] EXCEPT !.holder = NotReserved,
                    !.reset = FALSE, !.attn = FALSE, !.locked = FALSE]]
    /\ reply' = "NONE"
    /\ UNCHANGED <<sel, atn, cdb, deferred>>

\* ProcessOnController() for initiator i, then BusFree() and Selection().
StartSelection(i) ==
    /\ phase = "BUS_FREE" /\ ~RST
    /\ sel /\ ~line.bsy
    /\ initiator' = i
    /\ phase' = "SELECTION"
    /\ line' = [line EXCEPT !.bsy = TRUE]
    /\ UNCHANGED <<rst, sel, atn, xfer, status, cdb, msg, link, deferred, reply,
                   device>>

\* Selection(), when the initiator has released SEL.
EndSelection ==
    /\ phase = "SELECTION" /\ ~RST
    /\ ~sel /\ line.bsy
    /\ \/ /\ atn
          /\ phase' = "MSG_OUT"
          /\ line' = [line EXCEPT !.msg = TRUE, !.cd = TRUE, !.io = FALSE]
          /\ msg' = [msg EXCEPT !.atn = TRUE, !.bytes = <<>>]
          /\ xfer' = OneByte
       \/ /\ ~atn
          /\ EnterCommand(line)
          /\ UNCHANGED <<msg, xfer>>
    /\ UNCHANGED <<rst, sel, atn, initiator, status, cdb, link, deferred, reply,
                   device>>

\* Command(): the CDB does not arrive completely.
CommandTimeout ==
    /\ phase = "COMMAND"
    /\ HandshakeFailed
    /\ deferred' = "COMMAND_PHASE_ERROR"
    /\ UNCHANGED <<sel, atn, initiator>>

\* Command(): the first byte is not an opcode the controller knows. The CDB
\* and the link bits of the previous command remain.
UnknownCommand ==
    /\ phase = "COMMAND" /\ line.bsy
    /\ UNCHANGED <<cdb, link>>
    /\ deferred' = "INVALID_OPCODE"
    /\ Error("INVALID_OPCODE", "CHECK_CONDITION", device, xfer)
    /\ UNCHANGED <<sel, atn, initiator>>

\* Command() with a complete CDB, up to the call of Execute(): a flag bit
\* without link bit is rejected, and the sense data of a command that the
\* controller itself has rejected are provided by the controller.
ReceiveCommand(c) ==
    /\ phase = "COMMAND" /\ line.bsy
    /\ cdb' = c
    /\ link' = [linked |-> c.linked, flag |-> c.flag]
    /\ \/ /\ c.flag /\ ~c.linked
          /\ deferred' = "INVALID_FIELD"
          /\ Error("INVALID_FIELD", "CHECK_CONDITION", device, xfer)
       \/ /\ ~c.flag \/ c.linked
          /\ deferred # "NO_SENSE" /\ c.op = "REQUEST_SENSE"
          /\ deferred' = "NO_SENSE"
          /\ EnterDataIn(line, [xfer EXCEPT !.current = SenseLength], deferred, status)
          /\ UNCHANGED <<rst, msg, device>>
       \/ /\ ~c.flag \/ c.linked
          /\ deferred = "NO_SENSE" \/ c.op # "REQUEST_SENSE"
          /\ deferred' = "NO_SENSE"
          /\ Execute(c)
    /\ UNCHANGED <<sel, atn, initiator>>

\* Send() with bytes to send, Receive() with bytes to receive: the initiator
\* takes or sends them all.
TransferBytes ==
    /\ phase \in SendPhases \cup {"DATA_OUT"} /\ ~RST /\ line.bsy
    /\ xfer.current > 0
    /\ xfer' = [xfer EXCEPT !.current = 0]
    /\ UNCHANGED <<phase, line, rst, sel, atn, initiator, status, cdb, msg, link,
                   deferred, reply, device>>

\* Receive() of a byte in MESSAGE OUT; with its last byte the initiator
\* releases ATN.
ReceiveMessageByte(b) ==
    /\ phase = "MSG_OUT" /\ ~RST /\ line.bsy
    /\ xfer.current > 0
    /\ xfer' = [xfer EXCEPT !.current = 0]
    /\ msg' = [msg EXCEPT !.byte = b]
    /\ atn' \in BOOLEAN
    /\ atn' => Len(msg.bytes) + 1 < MaxMsgBytes
    /\ UNCHANGED <<phase, line, rst, sel, initiator, status, cdb, link, deferred,
                   reply, device>>

\* Send() or Receive(): the initiator stops answering, or RST interferes.
TransferFailed ==
    /\ phase \in SendPhases \cup ReceivePhases /\ ~RST
    /\ xfer.current > 0
    /\ HandshakeFailed
    /\ UNCHANGED <<sel, atn, initiator, deferred>>

\* Mutant: what remains is sent at once.
NextChunkMutant(x) == x.remaining

\* The length TransferToHost() sets for the next chunk
NextChunk(x) == Smaller(x.remaining, x.chunk)

\* Send() after a chunk in DATA IN, TransferToHost() included, which
\* dereferences the unit: without it the process ends here.
ContinueDataIn ==
    /\ phase = "DATA_IN" /\ ~RST
    /\ xfer.current = 0
    /\ UNCHANGED <<cdb, link>>
    /\ LET x == Advance(xfer, xfer.chunk)
       IN  \/ /\ x.remaining = 0
              /\ EnterStatus(line, status)
              /\ UNCHANGED <<rst, msg, device>>
           \/ /\ x.remaining # 0 /\ EffectiveLun(cdb) \in Luns
              /\ xfer' = [x EXCEPT !.current = NextChunk(x)]
              /\ UNCHANGED <<phase, line, rst, status, msg, reply, device>>
           \/ /\ x.remaining # 0 /\ EffectiveLun(cdb) \in Luns
              /\ Error("DEVICE_ERROR", "CHECK_CONDITION", device, x)
    /\ UNCHANGED <<sel, atn, initiator, deferred>>

\* Receive() after a chunk in DATA OUT, TransferFromHost() included.
ContinueDataOut ==
    /\ phase = "DATA_OUT" /\ ~RST
    /\ xfer.current = 0
    /\ UNCHANGED <<cdb, link>>
    /\ LET x == Advance(xfer, Smaller(xfer.chunk, xfer.remaining))
       IN  \/ /\ x.remaining = 0
              /\ EnterStatus(line, status)
              /\ UNCHANGED <<rst, msg, device>>
           \/ /\ x.remaining # 0
              /\ xfer' = [x EXCEPT !.current = x.chunk]
              /\ UNCHANGED <<phase, line, rst, status, msg, reply, device>>
           \/ Error("DEVICE_ERROR", "CHECK_CONDITION", device, xfer)
    /\ UNCHANGED <<sel, atn, initiator, deferred>>

\* Send() after the status byte: the completion message follows.
EndStatus ==
    /\ phase = "STATUS" /\ ~RST
    /\ xfer.current = 0
    /\ UNCHANGED link
    /\ EnterMsgIn
    /\ UNCHANGED <<rst, sel, atn, initiator, status, cdb, msg, deferred, device>>

\* Mutant: any command that succeeded is followed by another one.
CommandExpectedMutant == status = "GOOD"

\* ProcessEndOfMessage(): another command follows on this selection.
CommandExpected == msg.atn \/ link.linked

\* Send() after the message byte, ProcessEndOfMessage() included.
EndMsgIn ==
    /\ phase = "MSG_IN" /\ ~RST
    /\ xfer.current = 0
    /\ xfer' = Advance(xfer, xfer.chunk)
    /\ \/ /\ CommandExpected
          /\ link' = [linked |-> FALSE, flag |-> FALSE]
          /\ msg' = [msg EXCEPT !.atn = FALSE]
          /\ EnterCommand(line)
          /\ reply' = "NONE"
          /\ UNCHANGED status
       \/ /\ ~CommandExpected
          /\ BusFree
          /\ UNCHANGED link
    /\ UNCHANGED <<rst, sel, atn, initiator, cdb, deferred, device>>

-----------------------------------------------------------------------------
(* MESSAGE OUT. ParseMessage() takes the bytes one by one, the arguments   *)
(* of an extended message too.                                             *)

\* The message bytes before the first ABORT or BUS DEVICE RESET
Scanned(bytes) ==
    {i \in DOMAIN bytes : \A j \in 1..i : bytes[j] \notin {Abort, BusDeviceReset}}

Terminators(bytes) == {bytes[i] : i \in
    {j \in DOMAIN bytes \ Scanned(bytes) : \A k \in 1..(j - 1) : k \in Scanned(bytes)}}

\* lun is identified_lun after the bytes behind position f, where it was before
Identified(lun, bytes, f, before) ==
    LET ids == {i \in Scanned(bytes) : i > f /\ bytes[i] >= Identify}
    IN  \/ ids = {} /\ lun = before
        \/ \E i \in ids : (\A j \in ids : j <= i) /\ lun = bytes[i] % 32

\* RejectExtendedMessage() is called for each of these positions. The first
\* call enters MESSAGE IN, each later one sends a byte there.
ExtendedBytes(bytes) == {i \in Scanned(bytes) : bytes[i] = Extended}

RejectTransfer(bytes) ==
    LET n == Cardinality(ExtendedBytes(bytes))
    IN  [OneByte EXCEPT !.current = IF n = 1 THEN 1 ELSE 0]

\* The unit a BUS DEVICE RESET message is for, when the identified LUN is lun
DeviceReset(lun) ==
    LET l == IF lun # NoLun THEN lun ELSE cdb.lun
    IN  IF l \notin Luns THEN device
        ELSE [device EXCEPT ![l] = [@ EXCEPT !.reset = TRUE, !.holder = NotReserved]]

AfterTerminator(bytes, lun) ==
    IF BusDeviceReset \in Terminators(bytes) THEN DeviceReset(lun) ELSE device

\* The message bytes have been used: Selection() clears them before MsgOut()
\* collects the next ones, which is anticipated here.
Parsed == [msg EXCEPT !.atn = FALSE, !.bytes = <<>>, !.byte = 0]

\* ParseMessage(), then Command(). ABORT and BUS DEVICE RESET release the bus,
\* but Command() is called nevertheless.
ParseMessage(bytes, lun) ==
    /\ Identified(lun, bytes, 0, msg.lun)
    /\ \/ /\ ExtendedBytes(bytes) = {}
          /\ xfer' = Advance(xfer, Smaller(xfer.chunk, xfer.remaining))
          /\ UNCHANGED reply
       \/ /\ ExtendedBytes(bytes) # {}
          /\ xfer' = RejectTransfer(bytes)
          /\ reply' = "MESSAGE_REJECT"
    /\ device' = AfterTerminator(bytes, lun)
    /\ \/ /\ Terminators(bytes) = {}
          /\ msg' = [Parsed EXCEPT !.lun = lun]
          /\ EnterCommand(line)
          /\ UNCHANGED status
       \/ /\ Terminators(bytes) # {}
          /\ msg' = [Parsed EXCEPT !.lun = NoLun]
          /\ EnterCommand(Released)
          /\ status' = "GOOD"
    /\ UNCHANGED rst

\* The handshake for a reject byte fails: RST is asserted, the bus is released
\* and the remaining bytes are still processed. f is the last position where
\* this happens; after it one more call may enter MESSAGE IN without sending.
\* With the bus free already, BusFree() keeps the identified LUN. No initiator
\* selects in the middle of this loop.
RejectFailed(bytes, f, lun) ==
    LET later == {i \in ExtendedBytes(bytes) : f < i}
    IN  /\ \E i \in ExtendedBytes(bytes) : i < f
        /\ \A i, j \in later : i = j
        /\ Identified(lun, bytes, f, NoLun)
        /\ rst' = [rst EXCEPT !.target = TRUE]
        /\ msg' = [Parsed EXCEPT !.lun = IF later # {} /\ Terminators(bytes) # {}
                                        THEN NoLun ELSE lun]
        /\ xfer' = OneByte
        /\ reply' = "MESSAGE_REJECT"
        /\ device' = AfterTerminator(bytes, lun)
        /\ EnterCommand(Released)
        /\ status' = "GOOD"

\* Receive() after a message byte: XferMsg() and ProcessMessage(). As long as
\* ATN is asserted another byte is received. atn_msg is always set here, because
\* MESSAGE OUT is entered by Selection() alone.
ContinueMessageOut ==
    /\ phase = "MSG_OUT" /\ ~RST
    /\ xfer.current = 0
    /\ LET bytes == Append(msg.bytes, msg.byte)
       IN  \/ /\ atn
              /\ msg' = [msg EXCEPT !.bytes = bytes]
              /\ xfer' = OneByte
              /\ UNCHANGED <<phase, line, rst, status, reply, device>>
           \/ /\ ~atn
              /\ \E lun \in LunRange \cup {NoLun} :
                    \/ ParseMessage(bytes, lun)
                    \/ \E f \in ExtendedBytes(bytes) : RejectFailed(bytes, f, lun)
    /\ UNCHANGED <<sel, atn, initiator, cdb, link, deferred>>

-----------------------------------------------------------------------------

Environment ==
    \/ Select
    \/ ReleaseSelect
    \/ AssertReset
    \/ ReleaseReset
    \/ \E l \in Removable : InsertMedium(l) \/ EjectMedium(l)

Process ==
    \/ Reset
    \/ \E i \in Initiators \cup {Unknown} : StartSelection(i)
    \/ EndSelection
    \/ CommandTimeout
    \/ UnknownCommand
    \/ \E c \in Commands : ReceiveCommand(c)
    \/ TransferBytes
    \/ \E b \in MsgBytes : ReceiveMessageByte(b)
    \/ TransferFailed
    \/ ContinueDataIn
    \/ ContinueDataOut
    \/ ContinueMessageOut
    \/ EndStatus
    \/ EndMsgIn

Next == Environment \/ Process

Spec == Init /\ [][Next]_vars

\* The SCSI thread keeps calling Process(); an initiator releases SEL.
FairSpec == Spec /\ WF_vars(Process) /\ WF_vars(ReleaseSelect)
-----------------------------------------------------------------------------
\* The type invariant: in particular no transfer length becomes negative, and
\* LUNs and initiator IDs stay in their ranges.
TypeOK ==
    /\ phase \in Phases
    /\ line \in [bsy : BOOLEAN, msg : BOOLEAN, cd : BOOLEAN, io : BOOLEAN]
    /\ rst \in [target : BOOLEAN, initiator : BOOLEAN]
    /\ sel \in BOOLEAN
    /\ atn \in BOOLEAN
    /\ initiator \in Initiators \cup {Unknown}
    /\ xfer \in [current : Nat, remaining : Nat, chunk : Nat]
    /\ status \in StatusCodes
    /\ cdb \in Cdb
    /\ msg \in [atn : BOOLEAN, bytes : Seq(0..255), lun : LunRange \cup {NoLun},
               byte : 0..255]
    /\ link \in [linked : BOOLEAN, flag : BOOLEAN]
    /\ deferred \in Senses
    /\ reply \in Replies
    /\ device \in [Luns -> Unit]
=============================================================================
