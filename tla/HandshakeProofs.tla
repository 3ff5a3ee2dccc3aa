--------------------------- MODULE HandshakeProofs ---------------------------
(***************************************************************************)
(* Proofs about Handshake, for every command, every length of a CDB and    *)
(* all sizes of buffers and chunks. The inductive invariant says what each *)
(* side drives at each of its steps (Wires), where both sides can be at    *)
(* the same time (Places), and how many bytes each of them has counted     *)
(* (Transfers). The target may give up at any time, and so may the         *)
(* initiator: what has been delivered is only stated as long as both sides *)
(* work on the same command (Active), and for a phase in which the         *)
(* initiator has not given up (broken). After the definitions there is a   *)
(* part for the steps of the target and one for those of the initiator,    *)
(* with one lemma for each action. The second invariant, on commands that  *)
(* end without a status, follows after that, in the same order.            *)
(***************************************************************************)
EXTENDS Handshake, SequenceTheorems, TLAPS

\* The steps of both sides
TargetSteps == {"free", "selection", "process", "request", "ack", "release", "put", "clear", "sent", "last"}
InitiatorSteps ==
    {"idle", "arbitration", "selection", "attention", "busy", "loop", "put", "request", "end", "release", "check",
     "message", "message end", "return", "exception", "pulse"}

TargetPhases == Phases \cup {"BUS_FREE", "SELECTION"}

TargetStates ==
    [pc : TargetSteps, phase : TargetPhases, count : Nat, length : Nat, rest : Nat, cdb : Seq(Int), data : Seq(Int),
     status : Int]
InitiatorStates ==
    [pc : InitiatorSteps, phase : Phases \cup {"BUS_FREE"}, seen : TargetPhases \cup {TimedOut}, count : Nat,
     offset : Nat, cdb : Seq(Int), size : Nat, buffer : Seq(Int), status : Int]
Histories ==
    [late : BOOLEAN, broken : SUBSET TargetPhases, free : BOOLEAN, result : Int, lost : Int]

AllSignals == {"BSY", "SEL", "ATN", "MSG", "CD", "IO", "REQ", "ACK", "RST"}

Typed ==
    /\ lines \in [Outputs -> SUBSET AllSignals]
    /\ dat \in [Outputs -> Int] /\ edge \in BOOLEAN /\ command \in Commands
    /\ target \in TargetStates /\ initiator \in InitiatorStates /\ history \in Histories

-----------------------------------------------------------------------------
(* What each side drives                                                   *)

Off == {"free", "selection"}

TargetLines ==
    /\ target.pc = "free" => lines["target"] \subseteq {"RST"}
    /\ target.pc = "selection" => lines["target"] = {"BSY"}
    /\ target.pc \notin Off =>
        lines["target"] = {"BSY"} \cup PhaseSignals(target.phase)
                              \cup (IF target.pc \in {"ack", "sent"} THEN {"REQ"} ELSE {})

Asserted(pc) ==
    CASE pc = "selection" -> {"BSY"}
      [] pc = "attention" -> {"BSY", "SEL"}
      [] pc = "busy" -> {"SEL"}
      [] pc \in {"end", "release", "message end"} -> {"ACK"}
      [] pc = "pulse" -> {"RST"}
      [] OTHER -> {}

InitiatorLines == lines["initiator"] \ {"ATN"} = Asserted(initiator.pc)

-----------------------------------------------------------------------------
(* Where both sides are                                                    *)

Selecting == {"arbitration", "selection", "attention", "busy"}
HandshakeSteps == {"put", "request", "end", "release", "check"}

\* The target works on the current command, and so does the initiator.
InCommand == initiator.pc \notin Selecting \cup {"idle"}
Active == InCommand /\ target.pc # "free"

Receiving == {"MSG_OUT", "COMMAND", "DATA_OUT"}
Data == {"DATA_IN", "DATA_OUT"}

Rank(phase) ==
    CASE phase = "MSG_OUT" -> 1 [] phase = "COMMAND" -> 2 [] phase \in Data -> 3
      [] phase = "STATUS" -> 4 [] phase = "MSG_IN" -> 5 [] OTHER -> 0

TargetPlace ==
    /\ target.pc = "free" => target.phase = "BUS_FREE"
    /\ target.pc = "selection" => target.phase = "SELECTION"
    /\ target.pc \notin Off => target.phase \in Phases
    /\ target.pc \in {"request", "ack", "release"} => target.phase \in Receiving
    /\ target.pc \in {"put", "clear", "sent", "last"} => target.phase \notin Receiving
    /\ target.phase = "COMMAND" => target.pc # "process" /\ target.length = CdbLength
    /\ target.count <= target.length
    /\ target.pc \in {"request", "ack", "release", "put", "clear", "sent"} => target.count < target.length
    /\ target.phase \in {"SELECTION", "MSG_OUT"} => target.cdb = <<>>
    /\ target.phase \in {"SELECTION", "MSG_OUT", "COMMAND"} => target.data = <<>>

InitiatorPlace ==
    /\ initiator.pc \in Selecting =>
        /\ initiator = [Idle EXCEPT !.pc = initiator.pc, !.cdb = Cdb, !.size = command.size,
                                    !.buffer = [i \in 1 .. command.size |-> 0]]
        /\ history.broken = {}
    /\ InCommand =>
        /\ Len(initiator.cdb) = CdbLength /\ Len(initiator.buffer) = command.size
        /\ initiator.phase \in Data => initiator.phase = command.op
        /\ initiator.phase = "BUS_FREE" => initiator.pc = "loop"
        /\ initiator.pc = "put" => Sending
        /\ initiator.pc \in HandshakeSteps => initiator.phase # "MSG_IN" /\ initiator.count < Count
        /\ initiator.pc \in {"message", "message end"} => initiator.phase = "MSG_IN"
        /\ initiator.pc \in {"release", "check"} /\ initiator.seen = TimedOut => initiator.phase \in history.broken

SelectionPlace ==
    /\ initiator.pc \in {"selection", "attention"} => target.pc = "free"
    /\ initiator.pc = "busy" => target.pc \in Off
    /\ target.pc # "free" => ~edge
    /\ InCommand => ~edge

\* Both sides agree on the phase, or the initiator lags behind.
Together ==
    Active =>
        /\ Rank(initiator.phase) <= Rank(target.phase)
        /\ target.phase \in Data => target.phase = command.op
        /\ target.phase \in Receiving /\ initiator.pc \in {"end", "release"} =>
            /\ target.pc \in {"ack", "release"} /\ initiator.phase = target.phase
            /\ initiator.pc = "release" /\ initiator.seen # TimedOut => target.pc = "release"
        /\ initiator.pc \in {"release", "check"} /\ initiator.phase = target.phase =>
            initiator.seen \in {initiator.phase, TimedOut}
        /\ target.phase \in Data => target.rest + target.length <= command.length

-----------------------------------------------------------------------------
(* What has been transferred                                               *)

\* The initiator is going to end the command with a reset.
Doomed ==
    \/ initiator.pc \in {"exception", "pulse"}
    \/ initiator.phase = "DATA_OUT" /\ initiator.pc \in {"release", "check"} /\ initiator.seen = TimedOut

\* The bytes of the phase for which the initiator has seen both edges of REQ
Moved(phase, limit) ==
    IF initiator.phase # phase THEN 0
    ELSE IF initiator.pc \in HandshakeSteps
    THEN IF initiator.pc = "check" THEN initiator.count + 1 ELSE initiator.count
    ELSE limit

\* A received sequence with the bytes the target has counted
InStep(received, counted, moved) ==
    /\ received = Bytes(counted + IF target.pc = "release" THEN 1 ELSE 0)
    /\ Len(received) = moved + IF target.pc = "release" /\ initiator.pc \in {"end", "release"} THEN 1 ELSE 0

Driving == initiator.pc \in {"request", "end", "release"} => dat["initiator"] = initiator.count + 1

\* Bytes of the data that earlier chunks and this one have moved
Counted == command.length - target.rest - target.length + target.count

CdbReceived ==
    Active /\ "COMMAND" \notin history.broken =>
        /\ initiator.phase \in {"BUS_FREE", "MSG_OUT"} => initiator.offset = 0 /\ initiator.cdb = Cdb
        /\ initiator.phase = "COMMAND" /\ initiator.pc \in HandshakeSteps =>
            initiator.offset = 0 /\ initiator.cdb = Cdb /\ Driving
        /\ target.phase = "COMMAND" =>
            /\ InStep(target.cdb, target.count, Moved("COMMAND", CdbLength))
            /\ initiator.phase = "COMMAND" /\ initiator.pc \notin HandshakeSteps => initiator.offset = CdbLength
        /\ Rank(target.phase) > 2 => target.cdb = Cdb

DataReceived ==
    Active /\ command.op = "DATA_OUT" /\ command.size >= command.length /\ ~Doomed =>
        /\ initiator.phase = "DATA_OUT" /\ initiator.pc \in HandshakeSteps => Driving
        /\ initiator.size = command.size
        /\ target.phase = "DATA_OUT" => InStep(target.data, Counted, Moved("DATA_OUT", command.size))
        /\ Rank(target.phase) > 3 /\ target.status = Good => target.data = Bytes(command.length)

\* The bytes that are in the buffer of the initiator
Buffered ==
    IF initiator.phase # "DATA_IN" THEN 0
    ELSE IF initiator.pc \in HandshakeSteps
    THEN IF initiator.pc = "request" THEN initiator.count ELSE initiator.count + 1
    ELSE command.size

Filled(n) == n <= command.size /\ \A j \in 1 .. n : initiator.buffer[j] = j

\* The bytes the target has counted and those the initiator has
InSend(counted, buffered) ==
    /\ CASE target.pc = "sent" ->
                IF initiator.pc \in {"end", "release"} THEN counted + 1 = buffered /\ initiator.pc = "end"
                ELSE counted = buffered
         [] target.pc = "last" -> target.count = target.length => counted = buffered
         [] OTHER -> counted = buffered
    /\ target.pc \in {"clear", "sent"} => dat["target"] = counted + 1

DataSent ==
    Active /\ command.op = "DATA_IN" /\ "DATA_IN" \notin history.broken =>
        /\ Rank(initiator.phase) < 3 => initiator.size = command.size
        /\ target.phase = "DATA_IN" =>
            /\ Filled(Buffered)
            /\ initiator.phase = "DATA_IN" =>
                initiator.size = IF initiator.pc \in HandshakeSteps THEN command.size ELSE 0
            /\ InSend(Counted, Buffered)
        /\ Rank(target.phase) > 3 /\ target.status = Good => Filled(command.length)

Delivered ==
    /\ "COMMAND" \notin history.broken => target.cdb = Cdb
    /\ command.op = "DATA_OUT" /\ command.size >= command.length => target.data = Bytes(command.length)
    /\ command.op = "DATA_IN" /\ "DATA_IN" \notin history.broken => Filled(command.length)

StatusSent ==
    /\ target.phase = "STATUS" /\ target.pc \in {"clear", "sent"} => dat["target"] = target.status
    /\ InCommand /\ initiator.status = Good =>
        /\ Rank(initiator.phase) > 3 /\ initiator.pc \notin {"exception", "pulse"}
        /\ Delivered
    /\ history.result = Good =>
        /\ initiator.pc = "idle" /\ ~edge /\ Len(initiator.buffer) = command.size
        /\ target.pc # "free" => Rank(target.phase) > 3
        /\ Delivered

Wires == TargetLines /\ InitiatorLines
Places == TargetPlace /\ InitiatorPlace /\ SelectionPlace /\ Together
Transfers == CdbReceived /\ DataReceived /\ DataSent /\ StatusSent

\* The inductive invariant
HandshakeInv == Typed /\ Wires /\ Places /\ Transfers

-----------------------------------------------------------------------------
(* Facts about sequences                                                   *)

LEMMA BytesLength ==
    ASSUME NEW n \in Nat
    PROVE  Bytes(n) \in Seq(Int) /\ Len(Bytes(n)) = n
<1>1. Bytes(n) \in Seq(Int)
  BY DEF Bytes
<1> QED
  BY <1>1, LenProperties DEF Bytes

LEMMA NoBytes == Bytes(0) = <<>>
  BY BytesLength, EmptySeq

LEMMA OneMoreByte ==
    ASSUME NEW n \in Nat
    PROVE  Append(Bytes(n), n + 1) = Bytes(n + 1)
<1>1. Bytes(n) \in Seq(Int) /\ Len(Bytes(n)) = n /\ Bytes(n + 1) \in Seq(Int) /\ Len(Bytes(n + 1)) = n + 1
  BY BytesLength
<1>2. Append(Bytes(n), n + 1) \in Seq(Int) /\ Len(Append(Bytes(n), n + 1)) = n + 1
  BY <1>1, AppendProperties
<1>3. ASSUME NEW i \in 1 .. n + 1
      PROVE  Append(Bytes(n), n + 1)[i] = Bytes(n + 1)[i]
  <2>1. CASE i = n + 1
    BY <1>1, <2>1, AppendProperties DEF Bytes
  <2>2. CASE i # n + 1
    BY <1>1, <1>3, <2>2, AppendProperties DEF Bytes
  <2> QED
    BY <2>1, <2>2
<1> QED
  BY <1>1, <1>2, <1>3, SeqEqual

LEMMA ElementReplaced ==
    ASSUME NEW s \in Seq(Int), NEW x \in Int, NEW i \in Int
    PROVE  /\ [s EXCEPT ![i] = x] \in Seq(Int) /\ Len([s EXCEPT ![i] = x]) = Len(s)
           /\ \A j \in 1 .. Len(s) : [s EXCEPT ![i] = x][j] = IF j = i THEN x ELSE s[j]
<1> DEFINE t == [s EXCEPT ![i] = x]
<1>1. s \in [1 .. Len(s) -> Int] /\ Len(s) \in Nat
  BY LenProperties
<1>2. t = [j \in 1 .. Len(s) |-> IF j = i THEN x ELSE s[j]]
  BY <1>1
<1>3. \A j \in 1 .. Len(s) : s[j] \in Int
  BY <1>1
<1>4. t \in [1 .. Len(s) -> Int]
  BY <1>2, <1>3
<1> HIDE DEF t
<1>5. t \in Seq(Int)
  BY <1>1, <1>4, SeqDef
<1>6. Len(t) = Len(s)
  BY <1>1, <1>4, <1>5, LenProperties
<1>7. \A j \in 1 .. Len(s) : t[j] = IF j = i THEN x ELSE s[j]
  BY <1>2
<1> QED
  BY <1>5, <1>6, <1>7 DEF t

LEMMA CdbBytes == Cdb = Bytes(CdbLength)
  BY DEF Cdb, Bytes

-----------------------------------------------------------------------------
(* Facts about the signals                                                 *)

LEMMA PhaseSignalsOfPhases ==
    ASSUME NEW p \in Phases
    PROVE  PhaseSignals(p) \subseteq {"MSG", "CD", "IO"}
  BY DEF Phases, PhaseSignals

LEMMA PhaseSignalsDiffer ==
    ASSUME NEW p \in Phases, NEW q \in Phases, PhaseSignals(p) = PhaseSignals(q)
    PROVE  p = q
<1>1. "MSG" \in PhaseSignals(p) <=> p \in {"MSG_OUT", "MSG_IN"}
  BY DEF Phases, PhaseSignals
<1>2. "CD" \in PhaseSignals(p) <=> p \in {"MSG_OUT", "COMMAND", "STATUS", "MSG_IN"}
  BY DEF Phases, PhaseSignals
<1>3. "IO" \in PhaseSignals(p) <=> p \in {"DATA_IN", "STATUS", "MSG_IN"}
  BY DEF Phases, PhaseSignals
<1>4. "MSG" \in PhaseSignals(q) <=> q \in {"MSG_OUT", "MSG_IN"}
  BY DEF Phases, PhaseSignals
<1>5. "CD" \in PhaseSignals(q) <=> q \in {"MSG_OUT", "COMMAND", "STATUS", "MSG_IN"}
  BY DEF Phases, PhaseSignals
<1>6. "IO" \in PhaseSignals(q) <=> q \in {"DATA_IN", "STATUS", "MSG_IN"}
  BY DEF Phases, PhaseSignals
<1> QED
  BY <1>1, <1>2, <1>3, <1>4, <1>5, <1>6 DEF Phases

LEMMA LevelOfLines == Level = lines["target"] \cup lines["initiator"]
  BY DEF Level, Outputs

LEMMA InitiatorSignals ==
    ASSUME InitiatorLines, NEW s, s # "ATN"
    PROVE  s \in lines["initiator"] <=> s \in Asserted(initiator.pc)
  BY DEF InitiatorLines

\* Which step of which side asserts a signal
LEMMA Signals ==
    ASSUME HandshakeInv
    PROVE  /\ "BSY" \in Level <=> target.pc # "free" \/ initiator.pc \in {"selection", "attention"}
           /\ "SEL" \in Level <=> initiator.pc \in {"attention", "busy"}
           /\ "REQ" \in Level <=> target.pc \in {"ack", "sent"}
           /\ "ACK" \in Level <=> initiator.pc \in {"end", "release", "message end"}
           /\ "RST" \in Level => target.pc = "free" \/ initiator.pc = "pulse"
<1>1. /\ target.pc \in TargetSteps /\ initiator.pc \in InitiatorSteps
  BY DEF HandshakeInv, Typed, TargetStates, InitiatorStates
<1>2. TargetLines /\ InitiatorLines /\ TargetPlace
  BY DEF HandshakeInv, Wires, Places
<1>3. target.pc \notin Off => PhaseSignals(target.phase) \subseteq {"MSG", "CD", "IO"}
  BY <1>2, PhaseSignalsOfPhases DEF TargetPlace
<1>4. /\ "BSY" \in lines["target"] <=> target.pc # "free"
      /\ "SEL" \notin lines["target"] /\ "ACK" \notin lines["target"]
      /\ "REQ" \in lines["target"] <=> target.pc \in {"ack", "sent"}
      /\ "RST" \in lines["target"] => target.pc = "free"
  <2>1. CASE target.pc = "free"
    BY <1>2, <2>1 DEF TargetLines
  <2>2. CASE target.pc = "selection"
    BY <1>2, <2>2 DEF TargetLines
  <2>3. CASE target.pc \notin Off
    BY <1>2, <1>3, <2>3 DEF TargetLines, Off
  <2> QED
    BY <2>1, <2>2, <2>3 DEF Off
<1>5. /\ "BSY" \in lines["initiator"] <=> initiator.pc \in {"selection", "attention"}
      /\ "SEL" \in lines["initiator"] <=> initiator.pc \in {"attention", "busy"}
      /\ "ACK" \in lines["initiator"] <=> initiator.pc \in {"end", "release", "message end"}
      /\ "REQ" \notin lines["initiator"]
      /\ "RST" \in lines["initiator"] <=> initiator.pc = "pulse"
  <2>1. \A s \in {"BSY", "SEL", "ACK", "REQ", "RST"} : s \in lines["initiator"] <=> s \in Asserted(initiator.pc)
    BY <1>2, InitiatorSignals
  <2>2. /\ "BSY" \in Asserted(initiator.pc) <=> initiator.pc \in {"selection", "attention"}
        /\ "SEL" \in Asserted(initiator.pc) <=> initiator.pc \in {"attention", "busy"}
        /\ "ACK" \in Asserted(initiator.pc) <=> initiator.pc \in {"end", "release", "message end"}
        /\ "REQ" \notin Asserted(initiator.pc)
        /\ "RST" \in Asserted(initiator.pc) <=> initiator.pc = "pulse"
    BY <1>1 DEF Asserted, InitiatorSteps
  <2> QED
    BY <2>1, <2>2
<1> QED
  BY <1>4, <1>5, LevelOfLines

\* The phase that both sides see
LEMMA PhaseSeen ==
    ASSUME HandshakeInv, initiator.pc \notin Selecting
    PROVE  /\ target.pc \notin Off => Phase = target.phase
           /\ target.pc = "free" => Phase = "BUS_FREE"
<1>1. "SEL" \notin Level /\ ("BSY" \in Level <=> target.pc # "free")
  BY Signals DEF Selecting
<1>2. ASSUME target.pc \notin Off
      PROVE  Phase = target.phase
  <2>1. TargetLines /\ InitiatorLines /\ target.phase \in Phases /\ initiator.pc \in InitiatorSteps
    BY <1>2 DEF HandshakeInv, Wires, Places, TargetPlace, Typed, InitiatorStates
  <2>2. \A s \in {"MSG", "CD", "IO"} : s \notin lines["initiator"]
    BY <2>1, InitiatorSignals DEF Asserted, InitiatorSteps
  <2>3. \A s \in {"MSG", "CD", "IO"} : s \in lines["target"] <=> s \in PhaseSignals(target.phase)
    BY <1>2, <2>1 DEF TargetLines
  <2>4. Level \cap {"MSG", "CD", "IO"} = PhaseSignals(target.phase)
    BY <2>1, <2>2, <2>3, LevelOfLines, PhaseSignalsOfPhases
  <2>5. \A p \in Phases : PhaseSignals(p) = Level \cap {"MSG", "CD", "IO"} => p = target.phase
    BY <2>1, <2>4, PhaseSignalsDiffer
  <2>6. target.phase = CHOOSE p \in Phases : PhaseSignals(p) = Level \cap {"MSG", "CD", "IO"}
    BY <2>1, <2>4, <2>5
  <2> QED
    BY <1>1, <1>2, <2>6 DEF Phase, Off
<1> QED
  BY <1>1, <1>2 DEF Phase

-----------------------------------------------------------------------------
(* Steps of the target                                                     *)

LEMMA ChangedWires ==
    ASSUME Typed, NEW side \in Outputs, NEW on \in SUBSET AllSignals, NEW off, Change(side, on, off)
    PROVE  /\ lines' \in [Outputs -> SUBSET AllSignals]
           /\ lines'[side] = (lines[side] \ off) \cup on
           /\ \A o \in Outputs : o # side => lines'[o] = lines[o]
  BY DEF Typed, Change

\* What a step of the target leaves alone
TargetFrame ==
    /\ command' = command /\ initiator' = initiator
    /\ history' \in Histories /\ history'.broken = history.broken /\ history'.result = history.result
    /\ lines' \in [Outputs -> SUBSET AllSignals] /\ lines'["initiator"] = lines["initiator"]
    /\ dat' \in [Outputs -> Int] /\ dat'["initiator"] = dat["initiator"]

LEMMA FrameKeepsInitiator ==
    ASSUME HandshakeInv, TargetFrame
    PROVE  InitiatorLines' /\ InitiatorPlace'
<1>1. InitiatorLines /\ InitiatorPlace
  BY DEF HandshakeInv, Wires, Places
<1>2. command' = command /\ initiator' = initiator /\ history'.broken = history.broken
      /\ lines'["initiator"] = lines["initiator"]
  BY DEF TargetFrame
<1>3. InitiatorLines'
  BY <1>1, <1>2 DEF InitiatorLines
<1>4. InitiatorPlace'
  BY <1>1, <1>2 DEF InitiatorPlace, InCommand, Sending, Count
<1> QED
  BY <1>3, <1>4

LEMMA FrameOfChange ==
    ASSUME Typed, NEW on \in SUBSET AllSignals, NEW off, Change("target", on, off), UNCHANGED dat, TargetOnly
    PROVE  TargetFrame /\ lines'["target"] = (lines["target"] \ off) \cup on
<1>1. "target" \in Outputs /\ "initiator" \in Outputs /\ "initiator" # "target"
  BY DEF Outputs
<1>2. /\ lines' \in [Outputs -> SUBSET AllSignals] /\ lines'["target"] = (lines["target"] \ off) \cup on
      /\ lines'["initiator"] = lines["initiator"]
  BY <1>1, ChangedWires
<1> QED
  BY <1>2 DEF TargetFrame, TargetOnly, Typed

LEMMA FrameOfNoChange ==
    ASSUME Typed, UNCHANGED <<lines, dat>>, TargetOnly
    PROVE  TargetFrame
  BY DEF TargetFrame, TargetOnly, Typed

\* A target that becomes free keeps what has been delivered.
LEMMA TargetEnds ==
    ASSUME HandshakeInv, TargetFrame, edge' \in BOOLEAN, edge' => edge, dat' = dat,
           target' \in TargetStates, target'.pc = "free", target'.phase = "BUS_FREE",
           target'.count <= target'.length, lines'["target"] \subseteq {"RST"},
           (InCommand /\ initiator.status = Good) \/ history.result = Good =>
               target'.cdb = target.cdb /\ target'.data = target.data
    PROVE  HandshakeInv'
<1>1. Typed /\ SelectionPlace /\ StatusSent
  BY DEF HandshakeInv, Places, Transfers
<1>2. command' = command /\ initiator' = initiator /\ history'.broken = history.broken /\ history'.result = history.result
  BY DEF TargetFrame
<1>3. Typed'
  BY <1>1 DEF Typed, TargetFrame
<1>4. TargetLines' /\ TargetPlace'
  BY DEF TargetLines, TargetPlace, Off, Phases, Receiving
<1>5. SelectionPlace'
  BY <1>1, <1>2 DEF SelectionPlace, InCommand, Off
<1>6. ~Active'
  BY DEF Active
<1>7. Together' /\ CdbReceived' /\ DataReceived' /\ DataSent'
  BY <1>6 DEF Together, CdbReceived, DataReceived, DataSent
<1>8. (InCommand /\ initiator.status = Good) \/ history.result = Good => (Delivered <=> Delivered')
  BY <1>2 DEF Delivered, Filled
<1>9. StatusSent'
  BY <1>1, <1>2, <1>8 DEF StatusSent, InCommand
<1> QED
  BY <1>3, <1>4, <1>5, <1>7, <1>9, FrameKeepsInitiator DEF HandshakeInv, Wires, Places, Transfers

LEMMA AtRestWith ==
    ASSUME NEW c \in Seq(Int), NEW d \in Seq(Int), NEW r, r = [AtRest EXCEPT !.cdb = c, !.data = d]
    PROVE  r = [pc |-> "free", phase |-> "BUS_FREE", count |-> 0, length |-> 0, rest |-> 0, cdb |-> c, data |-> d,
                status |-> 100]
  BY DEF AtRest, Good

LEMMA FreeTyped ==
    ASSUME NEW c \in Seq(Int), NEW d \in Seq(Int), NEW r,
           r = [pc |-> "free", phase |-> "BUS_FREE", count |-> 0, length |-> 0, rest |-> 0, cdb |-> c, data |-> d,
                status |-> 100]
    PROVE  /\ r \in TargetStates /\ r.pc = "free" /\ r.phase = "BUS_FREE" /\ r.count <= r.length
           /\ r.cdb = c /\ r.data = d
<1>1. r \in TargetStates
  BY DEF TargetStates, TargetSteps, TargetPhases
<1>2. r.pc = "free" /\ r.phase = "BUS_FREE" /\ r.cdb = c /\ r.data = d
  OBVIOUS
<1>3. r.count <= r.length
  OBVIOUS
<1> QED
  BY <1>1, <1>2, <1>3

\* A reset of the target, whoever has asserted RST
LEMMA ResetKeeps ==
    ASSUME HandshakeInv, TargetReset, UNCHANGED dat, edge' \in BOOLEAN, edge' => edge, TargetOnly,
           target.pc # "free" \/ edge
    PROVE  HandshakeInv'
<1>1. Typed /\ SelectionPlace /\ StatusSent
  BY DEF HandshakeInv, Places, Transfers
<1>2. "RST" \in Level /\ target' = AtRest /\ lines' = [lines EXCEPT !["target"] = {}]
  BY DEF TargetReset, ResetOutputs
<1>3. lines' \in [Outputs -> SUBSET AllSignals] /\ lines'["target"] = {} /\ lines'["initiator"] = lines["initiator"]
  BY <1>1, <1>2 DEF Typed, Outputs
<1>4. TargetFrame
  BY <1>1, <1>3 DEF TargetFrame, TargetOnly, Typed
<1>5. initiator.pc = "pulse" \/ edge
  BY <1>2, Signals
<1>6. ~((InCommand /\ initiator.status = Good) \/ history.result = Good)
  BY <1>1, <1>5 DEF StatusSent, SelectionPlace
<1>7. AtRest \in TargetStates /\ AtRest.pc = "free" /\ AtRest.phase = "BUS_FREE" /\ AtRest.count <= AtRest.length
  <2>1. <<>> \in Seq(Int)
    BY EmptySeq
  <2> QED
    BY <2>1 DEF AtRest, TargetStates, TargetSteps, TargetPhases, Good
<1> QED
  BY <1>2, <1>3, <1>4, <1>6, <1>7, TargetEnds

LEMMA BusFreeKeeps ==
    ASSUME HandshakeInv, NEW on \in SUBSET {"RST"}, BusFree(on), TargetFrame, UNCHANGED <<dat, edge>>, target.pc # "free"
    PROVE  HandshakeInv'
<1>1. Typed /\ TargetLines /\ TargetPlace /\ target.pc \in TargetSteps
  BY DEF HandshakeInv, Wires, Places, Typed, TargetStates
<1>2. target.cdb \in Seq(Int) /\ target.data \in Seq(Int)
  BY <1>1 DEF Typed, TargetStates
<1>3. target' = [AtRest EXCEPT !.cdb = target.cdb, !.data = target.data] /\ Change("target", on, TargetSignals)
  BY DEF BusFree
<1>4. lines["target"] \subseteq TargetSignals
  <2>1. target.pc \notin Off => PhaseSignals(target.phase) \subseteq {"MSG", "CD", "IO"}
    BY <1>1, PhaseSignalsOfPhases DEF TargetPlace
  <2> QED
    BY <1>1, <2>1 DEF TargetLines, TargetSignals, Off
<1>5. lines'["target"] = (lines["target"] \ TargetSignals) \cup on
  <2>1. on \in SUBSET AllSignals
    BY DEF AllSignals
  <2> QED
    BY <1>1, <1>3, <2>1, ChangedWires DEF Outputs
<1>6. lines'["target"] \subseteq {"RST"}
  BY <1>4, <1>5
<1>7. edge' \in BOOLEAN
  BY <1>1 DEF Typed
<1>8. target.cdb \in Seq(Int) /\ target.data \in Seq(Int)
  BY <1>2
<1>9. /\ target' \in TargetStates /\ target'.pc = "free" /\ target'.phase = "BUS_FREE"
      /\ target'.count <= target'.length /\ target'.cdb = target.cdb /\ target'.data = target.data
  <2>1. target' = [pc |-> "free", phase |-> "BUS_FREE", count |-> 0, length |-> 0, rest |-> 0,
                   cdb |-> target.cdb, data |-> target.data, status |-> 100]
    BY <1>8, <1>3, AtRestWith
  <2> QED
    BY <1>8, <2>1, FreeTyped
<1> QED
  BY <1>6, <1>7, <1>9, TargetEnds

\* A selection, or an edge of SEL that means nothing
LEMMA TargetSelectedKeeps ==
    ASSUME HandshakeInv, TargetSelected
    PROVE  HandshakeInv'
<1>1. /\ Typed /\ TargetLines /\ InitiatorLines /\ TargetPlace /\ InitiatorPlace
      /\ SelectionPlace /\ StatusSent
  BY DEF HandshakeInv, Wires, Places, Transfers
<1>2. target.pc = "free" /\ edge /\ edge' = FALSE /\ UNCHANGED dat /\ TargetOnly /\ "BSY" \notin Level
  BY DEF TargetSelected, TargetWaitsFor
<1>3. edge' \in BOOLEAN /\ (edge' => edge)
  BY <1>2
<1>4. ~InCommand /\ history.result # Good
  BY <1>1, <1>2 DEF SelectionPlace, StatusSent
<1>5. CASE TargetReset
  BY <1>2, <1>3, <1>5, ResetKeeps
<1>6. CASE /\ "RST" \notin Level /\ "SEL" \in Level
           /\ target' = [AtRest EXCEPT !.pc = "selection", !.phase = "SELECTION"]
           /\ Change("target", {"BSY"}, {})
  <2>1. initiator.pc = "busy"
    BY <1>1, <1>2, <1>6, Signals
  <2>2. TargetFrame /\ lines'["target"] = (lines["target"] \ {}) \cup {"BSY"}
    <3>1. {"BSY"} \in SUBSET AllSignals
      BY DEF AllSignals
    <3> QED
      BY <1>1, <1>2, <1>6, <3>1, FrameOfChange
  <2>3. lines'["target"] = {"BSY"}
    BY <1>1, <1>2, <1>6, <2>2, LevelOfLines DEF TargetLines
  <2>4. target' = [pc |-> "selection", phase |-> "SELECTION", count |-> 0, length |-> 0, rest |-> 0, cdb |-> <<>>,
                   data |-> <<>>, status |-> Good]
    BY <1>6 DEF AtRest
  <2>5. target' \in TargetStates
    <3>1. <<>> \in Seq(Int) /\ Good \in Int
      BY EmptySeq DEF Good
    <3> QED
      BY <2>4, <3>1 DEF TargetStates, TargetSteps, TargetPhases
  <2>6. /\ target'.pc = "selection" /\ target'.phase = "SELECTION" /\ target'.cdb = <<>> /\ target'.data = <<>>
        /\ target'.count <= target'.length
    BY <2>4
  <2>7. initiator' = initiator /\ command' = command /\ history' = history
    BY <1>2 DEF TargetOnly
  <2>8. Typed'
    BY <1>1, <1>3, <2>2, <2>5 DEF Typed, TargetFrame
  <2>9. TargetLines' /\ TargetPlace'
    BY <2>3, <2>6 DEF TargetLines, TargetPlace, Off, Phases, Receiving
  <2>10. SelectionPlace'
    BY <1>2, <1>4, <2>1, <2>6, <2>7 DEF SelectionPlace, Off, InCommand
  <2>11. ~InCommand' /\ ~Active'
    BY <1>4, <2>7 DEF InCommand, Active
  <2>12. Together' /\ CdbReceived' /\ DataReceived' /\ DataSent'
    BY <2>11 DEF Together, CdbReceived, DataReceived, DataSent
  <2>13. StatusSent'
    BY <1>4, <2>6, <2>7, <2>11 DEF StatusSent
  <2> QED
    BY <2>2, <2>8, <2>9, <2>10, <2>12, <2>13, FrameKeepsInitiator DEF HandshakeInv, Wires, Places, Transfers
<1>7. CASE UNCHANGED <<target, lines>>
  <2>1. target' = target /\ lines' = lines /\ dat' = dat /\ command' = command /\ initiator' = initiator
        /\ history' = history
    BY <1>2, <1>7 DEF TargetOnly
  <2>2. TargetFrame
    BY <1>1, <2>1 DEF TargetFrame, Typed
  <2>3. target \in TargetStates /\ target.phase = "BUS_FREE" /\ target.count <= target.length
        /\ lines["target"] \subseteq {"RST"}
    BY <1>1, <1>2 DEF Typed, TargetPlace, TargetLines
  <2> QED
    BY <1>2, <1>3, <2>1, <2>2, <2>3, TargetEnds
<1> QED
  BY <1>5, <1>6, <1>7 DEF TargetSelected

LEMMA GivesUpTyped ==
    ASSUME Typed, NEW b \in BOOLEAN, GivesUp(b)
    PROVE  /\ history' \in Histories /\ history'.broken = history.broken /\ history'.result = history.result
  BY DEF GivesUp, Typed, Histories

LEMMA TargetGivesUpTyped ==
    ASSUME Typed, TargetGivesUp
    PROVE  /\ history' \in Histories /\ history'.broken = history.broken /\ history'.result = history.result
<1>1. PICK b \in BOOLEAN : GivesUp(b)
  <2>1. CASE InitiatorWaitsFor
    <3>1. GivesUp(TRUE)
      BY <2>1 DEF TargetGivesUp, GivesUp
    <3> QED
      BY <3>1
  <2>2. CASE ~InitiatorWaitsFor
    <3>1. GivesUp(FALSE)
      BY <2>2 DEF TargetGivesUp, GivesUp
    <3> QED
      BY <3>1
  <2> QED
    BY <2>1, <2>2
<1> QED
  BY <1>1, GivesUpTyped

LEMMA SelectionTimeoutKeeps ==
    ASSUME HandshakeInv, SelectionTimeout
    PROVE  HandshakeInv'
<1>1. Typed /\ TargetPlace /\ TargetLines
  BY DEF HandshakeInv, Wires, Places
<1>2. /\ target.pc = "free" /\ edge' = FALSE /\ edge /\ TargetGivesUp
      /\ lines' = lines /\ dat' = dat /\ command' = command /\ target' = target /\ initiator' = initiator
  BY DEF SelectionTimeout
<1>3. TargetFrame
  BY <1>1, <1>2, TargetGivesUpTyped DEF TargetFrame, Typed
<1>4. target \in TargetStates /\ target.phase = "BUS_FREE" /\ target.count <= target.length
      /\ lines["target"] \subseteq {"RST"}
  BY <1>1, <1>2 DEF Typed, TargetPlace, TargetLines
<1>5. edge' \in BOOLEAN /\ (edge' => edge)
  BY <1>2
<1> QED
  BY <1>2, <1>3, <1>4, <1>5, TargetEnds

-----------------------------------------------------------------------------
(* Steps of the target within a command                                    *)

\* The signals of a phase, with and without REQ
LEMMA PhaseWires ==
    ASSUME HandshakeInv, target.pc # "free", NEW p \in Phases
    PROVE  /\ (lines["target"] \ TargetSignals) \cup (PhaseSignals(p) \cup {"BSY"}) = {"BSY"} \cup PhaseSignals(p)
           /\ (lines["target"] \ (TargetSignals \ {"BSY"})) \cup PhaseSignals(p) = {"BSY"} \cup PhaseSignals(p)
           /\ PhaseSignals(p) \subseteq AllSignals
<1>1. TargetLines /\ TargetPlace
  BY DEF HandshakeInv, Wires, Places
<1>2. target.pc \notin Off => PhaseSignals(target.phase) \subseteq {"MSG", "CD", "IO"}
  BY <1>1, PhaseSignalsOfPhases DEF TargetPlace
<1>3. lines["target"] \subseteq TargetSignals /\ "BSY" \in lines["target"]
  BY <1>1, <1>2 DEF TargetLines, TargetSignals, Off
<1>4. PhaseSignals(p) \subseteq {"MSG", "CD", "IO"}
  BY PhaseSignalsOfPhases
<1> QED
  BY <1>3, <1>4 DEF TargetSignals, AllSignals

LEMMA RequestWires ==
    ASSUME HandshakeInv, target.pc \notin Off
    PROVE  /\ lines["target"] \cup {"REQ"} = {"BSY"} \cup PhaseSignals(target.phase) \cup {"REQ"}
           /\ lines["target"] \ {"REQ"} = {"BSY"} \cup PhaseSignals(target.phase)
<1>1. TargetLines /\ TargetPlace
  BY DEF HandshakeInv, Wires, Places
<1>2. PhaseSignals(target.phase) \subseteq {"MSG", "CD", "IO"}
  BY <1>1, PhaseSignalsOfPhases DEF TargetPlace
<1> QED
  BY <1>1, <1>2 DEF TargetLines, Off

\* A step within a command, with the signals it leaves
TargetWorks ==
    /\ TargetFrame /\ edge' = edge /\ target' \in TargetStates
    /\ target.pc # "free" /\ target'.pc \notin Off
    /\ lines'["target"] = {"BSY"} \cup PhaseSignals(target'.phase)
                              \cup (IF target'.pc \in {"ack", "sent"} THEN {"REQ"} ELSE {})
    /\ ~(target.pc = "selection" /\ initiator.pc = "busy")

LEMMA WorkKeeps ==
    ASSUME HandshakeInv, TargetWorks
    PROVE  Typed' /\ Wires' /\ InitiatorPlace' /\ SelectionPlace'
<1>1. Typed /\ SelectionPlace
  BY DEF HandshakeInv, Places
<1>2. initiator' = initiator /\ edge' = edge
  BY DEF TargetWorks, TargetFrame
<1>3. Typed'
  BY <1>1 DEF Typed, TargetWorks, TargetFrame
<1>4. TargetLines'
  BY DEF TargetLines, TargetWorks, Off
<1>5. SelectionPlace'
  BY <1>1, <1>2 DEF SelectionPlace, InCommand, TargetWorks, Off
<1> QED
  BY <1>3, <1>4, <1>5, FrameKeepsInitiator DEF Wires, TargetWorks

\* What a step within a phase keeps of the target
SamePhaseOfTarget ==
    /\ target'.phase = target.phase /\ target'.length = target.length /\ target'.rest = target.rest
    /\ target'.cdb = target.cdb /\ target'.data = target.data /\ target'.status = target.status

\* A step of a receiving handshake that takes no byte
LEMMA ReceivingKeeps ==
    ASSUME HandshakeInv, TargetWorks, SamePhaseOfTarget, target.phase \in Receiving, target.pc \notin Off,
           target.phase = "COMMAND" => target'.pc # "process",
           target'.pc \in {"process", "request", "ack"},
           target'.count <= target.length, target'.pc # "process" => target'.count < target.length,
           target'.count = IF target.pc = "release" THEN target.count + 1 ELSE target.count,
           Active => initiator.pc \notin {"end", "release"}
    PROVE  HandshakeInv'
<1>1. /\ Typed /\ TargetPlace /\ Together /\ CdbReceived /\ DataReceived /\ DataSent /\ StatusSent /\ SelectionPlace
  BY DEF HandshakeInv, Places, Transfers
<1>2. /\ initiator' = initiator /\ command' = command /\ history'.broken = history.broken
      /\ history'.result = history.result /\ edge' = edge /\ dat'["initiator"] = dat["initiator"]
  BY DEF TargetWorks, TargetFrame
<1>3. /\ target'.phase = target.phase /\ target'.length = target.length /\ target'.rest = target.rest
      /\ target'.cdb = target.cdb /\ target'.data = target.data /\ target'.status = target.status
  BY DEF SamePhaseOfTarget
<1>4. /\ target.count \in Nat /\ target.length \in Nat /\ target.rest \in Nat /\ command.length \in Nat
      /\ target'.pc \in TargetSteps
  BY <1>1, HandshakeAssumption DEF Typed, TargetStates, TargetWorks
<1>5. Active' = Active /\ InCommand' = InCommand /\ (Active => InCommand) /\ Doomed' = Doomed
  BY <1>2 DEF Active, InCommand, Doomed, TargetWorks, Off
<1>6. TargetPlace'
  BY <1>1, <1>3 DEF TargetPlace, Off, Receiving, Phases
<1>7. Together'
  BY <1>1, <1>2, <1>3, <1>5 DEF Together, TargetWorks
<1>8. CdbReceived'
  <2>1. Moved("COMMAND", CdbLength)' = Moved("COMMAND", CdbLength)
    BY <1>2 DEF Moved
  <2>2. Active /\ target.phase = "COMMAND" /\ InStep(target.cdb, target.count, Moved("COMMAND", CdbLength))
        => InStep(target.cdb, target.count, Moved("COMMAND", CdbLength))'
    BY <1>2, <1>3, <1>4, <2>1 DEF InStep
  <2> QED
    BY <1>1, <1>2, <1>3, <1>5, <2>2 DEF CdbReceived, Driving
<1>9. DataReceived'
  <2>1. Moved("DATA_OUT", command.size)' = Moved("DATA_OUT", command.size)
    BY <1>2 DEF Moved
  <2>2. Active /\ target.phase = "DATA_OUT" /\ InStep(target.data, Counted, Moved("DATA_OUT", command.size))
        => InStep(target.data, Counted, Moved("DATA_OUT", command.size))'
    <3>1. Counted' + (IF target'.pc = "release" THEN 1 ELSE 0) = Counted + (IF target.pc = "release" THEN 1 ELSE 0)
      BY <1>2, <1>3, <1>4 DEF Counted
    <3> QED
      BY <1>2, <1>3, <1>4, <2>1, <3>1 DEF InStep
  <2> QED
    BY <1>1, <1>2, <1>3, <1>5, <2>2 DEF DataReceived, Driving
<1>10. DataSent'
  BY <1>1, <1>2, <1>3, <1>5 DEF DataSent, Receiving, Rank, Data
<1>11. StatusSent'
  BY <1>1, <1>2, <1>3, <1>5 DEF StatusSent, Receiving, Delivered, Filled, Rank, TargetWorks, Off
<1> QED
  BY <1>6, <1>7, <1>8, <1>9, <1>10, <1>11, WorkKeeps DEF HandshakeInv, Places, Transfers

LEMMA PlacesTyped ==
    ASSUME HandshakeInv
    PROVE  /\ target.pc \in TargetSteps /\ target.count \in Nat /\ target.length \in Nat /\ target.rest \in Nat
           /\ initiator.pc \in InitiatorSteps /\ initiator.count \in Nat /\ initiator.size \in Nat
           /\ command.length \in Nat /\ command.size \in Nat /\ command.chunk \in Nat \ {0}
           /\ command.op \in {"DATA_IN", "DATA_OUT", "STATUS"} /\ (command.op = "STATUS" <=> command.length = 0)
  BY HandshakeAssumption DEF HandshakeInv, Typed, TargetStates, InitiatorStates

\* Which phases follow which
LEMMA Ranks ==
    ASSUME NEW p
    PROVE  /\ Rank(p) \in 0 .. 5
           /\ Rank(p) > 3 <=> p \in {"STATUS", "MSG_IN"}
           /\ Rank(p) = 3 <=> p \in Data
           /\ Rank(p) = 2 <=> p = "COMMAND"
           /\ Rank(p) = 1 <=> p = "MSG_OUT"
           /\ Rank(p) = 5 <=> p = "MSG_IN"
           /\ p \in Receiving => Rank(p) \in 1 .. 3
  BY DEF Rank, Data, Receiving

\* While the target waits for no ACK in a receiving handshake, the initiator does not assert it.
LEMMA NoAckWhileReceiving ==
    ASSUME HandshakeInv, Active, target.phase \in Receiving, target.pc \in {"process", "request", "selection"}
    PROVE  initiator.pc \notin {"end", "release"}
  BY DEF HandshakeInv, Places, Together

\* Process() starts a receiving handshake.
LEMMA StartReceivingKeeps ==
    ASSUME HandshakeInv, StartHandshake, target.phase \in Receiving
    PROVE  HandshakeInv'
<1>1. Typed /\ TargetPlace /\ TargetLines
  BY DEF HandshakeInv, Wires, Places
<1>2. /\ target.pc = "process" /\ target.count < target.length
      /\ target' = [target EXCEPT !.pc = IF "IO" \in PhaseSignals(target.phase) THEN "put" ELSE "request"]
      /\ UNCHANGED <<lines, dat>> /\ edge' = edge /\ TargetOnly
  BY DEF StartHandshake
<1>3. "IO" \notin PhaseSignals(target.phase)
  BY DEF Receiving, PhaseSignals
<1>4. target' = [target EXCEPT !.pc = "request"]
  BY <1>2, <1>3
<1>5. target' \in TargetStates /\ target'.pc = "request" /\ target'.count = target.count /\ SamePhaseOfTarget
  BY <1>1, <1>4 DEF Typed, TargetStates, TargetSteps, SamePhaseOfTarget
<1>6. TargetFrame /\ lines' = lines
  BY <1>1, <1>2, FrameOfNoChange
<1>7. TargetWorks
  BY <1>1, <1>2, <1>5, <1>6 DEF TargetWorks, TargetLines, SamePhaseOfTarget, Off
<1>8. Active => initiator.pc \notin {"end", "release"}
  BY <1>2, NoAckWhileReceiving
<1> QED
  BY <1>2, <1>5, <1>7, <1>8, PlacesTyped, ReceivingKeeps DEF Off

LEMMA RequestKeeps ==
    ASSUME HandshakeInv, Request
    PROVE  HandshakeInv'
<1>1. Typed /\ TargetPlace
  BY DEF HandshakeInv, Places
<1>2. /\ target.pc = "request" /\ target' = [target EXCEPT !.pc = "ack"]
      /\ Change("target", {"REQ"}, {}) /\ UNCHANGED dat /\ edge' = edge /\ TargetOnly
  BY DEF Request
<1>3. target' \in TargetStates /\ target'.pc = "ack" /\ target'.count = target.count /\ SamePhaseOfTarget
  BY <1>1, <1>2 DEF Typed, TargetStates, TargetSteps, SamePhaseOfTarget
<1>4. TargetFrame /\ lines'["target"] = (lines["target"] \ {}) \cup {"REQ"}
  <2>1. {"REQ"} \in SUBSET AllSignals
    BY DEF AllSignals
  <2> QED
    BY <1>1, <1>2, <2>1, FrameOfChange
<1>5. lines'["target"] = {"BSY"} \cup PhaseSignals(target.phase) \cup {"REQ"}
  BY <1>2, <1>4, RequestWires DEF Off
<1>6. target.phase \in Receiving /\ target.count < target.length
  BY <1>1, <1>2 DEF TargetPlace
<1>7. TargetWorks
  BY <1>2, <1>3, <1>4, <1>5 DEF TargetWorks, SamePhaseOfTarget, Off
<1>8. Active => initiator.pc \notin {"end", "release"}
  BY <1>2, <1>6, NoAckWhileReceiving
<1> QED
  BY <1>2, <1>3, <1>6, <1>7, <1>8, PlacesTyped, ReceivingKeeps DEF Off

\* The next byte, or the end of a handshake after which no command is executed
LEMMA EndReceiveKeeps ==
    ASSUME HandshakeInv, target.pc = "release", AckReleased, UNCHANGED <<lines, dat, edge>>, TargetOnly,
           ~(target.count + 1 = target.length /\ target.phase = "COMMAND"),
           target' = [target EXCEPT !.count = @ + 1,
                                    !.pc = IF target.count + 1 < target.length THEN "request" ELSE "process"]
    PROVE  HandshakeInv'
<1>1. Typed /\ TargetPlace /\ TargetLines
  BY DEF HandshakeInv, Wires, Places
<1>2. target.count \in Nat /\ target.length \in Nat /\ target.phase \in Receiving /\ target.count < target.length
  BY <1>1, PlacesTyped DEF TargetPlace
<1>3. target'.count = target.count + 1 /\ SamePhaseOfTarget
      /\ target'.pc = IF target.count + 1 < target.length THEN "request" ELSE "process"
  BY <1>1 DEF Typed, TargetStates, SamePhaseOfTarget
<1>4. target' \in TargetStates
  <2>1. PICK pc \in {"request", "process"} : target' = [target EXCEPT !.count = target.count + 1, !.pc = pc]
    <3>1. CASE target.count + 1 < target.length
      BY <3>1
    <3>2. CASE ~(target.count + 1 < target.length)
      BY <3>2
    <3> QED
      BY <3>1, <3>2
  <2>2. target.count + 1 \in Nat /\ pc \in TargetSteps
    BY <1>2 DEF TargetSteps
  <2> QED
    BY <1>1, <2>1, <2>2 DEF Typed, TargetStates
<1>5. TargetFrame
  BY <1>1, FrameOfNoChange
<1>6. TargetWorks
  BY <1>1, <1>3, <1>4, <1>5 DEF TargetWorks, TargetLines, SamePhaseOfTarget, Off
<1>7. initiator.pc \notin {"end", "release"}
  BY Signals DEF AckReleased
<1> QED
  BY <1>2, <1>3, <1>6, <1>7, ReceivingKeeps DEF Off

\* A byte of a receiving handshake is the one that the initiator drives.
LEMMA ReceiveKeeps ==
    ASSUME HandshakeInv, Receive
    PROVE  HandshakeInv'
<1>1. /\ Typed /\ TargetPlace /\ Together /\ CdbReceived /\ DataReceived /\ DataSent /\ StatusSent /\ SelectionPlace
      /\ InitiatorPlace
  BY DEF HandshakeInv, Places, Transfers
<1>2. /\ target.pc = "ack" /\ "ACK" \in Level
      /\ target' = [Received(dat["initiator"]) EXCEPT !.pc = "release"]
      /\ Change("target", {}, {"REQ"}) /\ UNCHANGED dat /\ edge' = edge /\ TargetOnly
  BY DEF Receive, TargetWaitsFor, Driven
<1>3. target.phase \in Receiving /\ target.count < target.length /\ dat["initiator"] \in Int
  BY <1>1, <1>2 DEF TargetPlace, Typed, Outputs
<1>4. /\ target'.pc = "release" /\ target'.phase = target.phase /\ target'.length = target.length
      /\ target'.rest = target.rest /\ target'.count = target.count /\ target'.status = target.status
      /\ target'.cdb = IF target.phase = "COMMAND" THEN Append(target.cdb, dat["initiator"]) ELSE target.cdb
      /\ target'.data = IF target.phase = "DATA_OUT" THEN Append(target.data, dat["initiator"]) ELSE target.data
      /\ target' \in TargetStates
  <2>1. target.cdb \in Seq(Int) /\ target.data \in Seq(Int)
    BY <1>1 DEF Typed, TargetStates
  <2>2. Append(target.cdb, dat["initiator"]) \in Seq(Int) /\ Append(target.data, dat["initiator"]) \in Seq(Int)
    BY <1>3, <2>1, AppendProperties
  <2>3. CASE target.phase = "COMMAND"
    <3>1. target' = [target EXCEPT !.cdb = Append(target.cdb, dat["initiator"]), !.pc = "release"]
      BY <1>1, <1>2, <2>3 DEF Received, Typed, TargetStates
    <3> QED
      BY <1>1, <2>2, <2>3, <3>1 DEF Typed, TargetStates, TargetSteps
  <2>4. CASE target.phase = "DATA_OUT"
    <3>1. target' = [target EXCEPT !.data = Append(target.data, dat["initiator"]), !.pc = "release"]
      BY <1>1, <1>2, <2>4 DEF Received, Typed, TargetStates
    <3> QED
      BY <1>1, <2>2, <2>4, <3>1 DEF Typed, TargetStates, TargetSteps
  <2>5. CASE target.phase = "MSG_OUT"
    <3>1. target' = [target EXCEPT !.pc = "release"]
      BY <1>1, <1>2, <2>5 DEF Received, Typed, TargetStates
    <3> QED
      BY <1>1, <2>5, <3>1 DEF Typed, TargetStates, TargetSteps
  <2> QED
    BY <1>3, <2>3, <2>4, <2>5 DEF Receiving
<1>5. TargetFrame /\ lines'["target"] = (lines["target"] \ {"REQ"}) \cup {}
  <2>1. {} \in SUBSET AllSignals
    OBVIOUS
  <2> QED
    BY <1>1, <1>2, <2>1, FrameOfChange
<1>6. TargetWorks
  BY <1>2, <1>4, <1>5, RequestWires DEF TargetWorks, Off
<1>7. initiator' = initiator /\ command' = command /\ history' = history /\ dat' = dat /\ edge' = edge
  BY <1>2 DEF TargetOnly
<1>8. Active' = Active /\ InCommand' = InCommand /\ (Active => InCommand) /\ Doomed' = Doomed
  BY <1>2, <1>4, <1>7 DEF Active, InCommand, Doomed
<1>9. Active => initiator.pc \in {"end", "release"} /\ initiator.phase = target.phase
  <2>1. initiator.pc \in {"end", "release", "message end"}
    BY <1>2, Signals
  <2>2. ASSUME Active
        PROVE  initiator.pc # "message end"
    <3>1. Rank(initiator.phase) <= Rank(target.phase) /\ InCommand
      BY <1>1, <1>8, <2>2 DEF Together
    <3>2. initiator.phase # "MSG_IN"
      BY <1>3, <3>1, Ranks
    <3> QED
      BY <1>1, <3>1, <3>2 DEF InitiatorPlace
  <2> QED
    BY <1>1, <1>3, <2>1, <2>2 DEF Together
<1>10. TargetPlace'
  BY <1>1, <1>2, <1>3, <1>4 DEF TargetPlace, Off, Receiving, Phases
<1>11. Together'
  BY <1>1, <1>4, <1>7, <1>8, <1>9 DEF Together
<1>12. ASSUME NEW s \in Seq(Int), NEW n \in Nat, NEW m \in Nat, InStep(s, n, m), dat["initiator"] = m + 1, Active
       PROVE  /\ Append(s, dat["initiator"]) = Bytes(n + 1)
              /\ Len(Append(s, dat["initiator"])) = m + 1
  <2>1. s = Bytes(n + 0) /\ Len(s) = m + 0
    <3>1. target.pc = "ack"
      BY <1>2
    <3> QED
      BY <1>12, <3>1 DEF InStep
  <2>2. n + 0 = n /\ m + 0 = m
    OBVIOUS
  <2>3. s = Bytes(n) /\ Len(s) = m
    BY <2>1, <2>2
  <2>4. m = n
    BY <2>3, BytesLength
  <2>5. Append(s, dat["initiator"]) = Bytes(n + 1)
    BY <1>12, <2>3, <2>4, OneMoreByte
  <2>6. Len(Bytes(n + 1)) = n + 1
    <3>1. n + 1 \in Nat
      OBVIOUS
    <3> QED
      BY <3>1, BytesLength
  <2> QED
    BY <2>4, <2>5, <2>6
<1>13. CdbReceived'
  <2> SUFFICES ASSUME Active, "COMMAND" \notin history.broken, target.phase = "COMMAND"
               PROVE  InStep(target.cdb, target.count, Moved("COMMAND", CdbLength))'
    <3>1. ~(Rank(target.phase) > 2) \/ target.phase # "COMMAND"
      BY Ranks
    <3>2. target'.cdb = target.cdb \/ target.phase = "COMMAND"
      BY <1>4
    <3> QED
      BY <1>1, <1>4, <1>7, <1>8, <3>1, <3>2 DEF CdbReceived, Driving
  <2>1. Moved("COMMAND", CdbLength) = initiator.count /\ Moved("COMMAND", CdbLength)' = initiator.count
        /\ initiator.pc \in HandshakeSteps
    BY <1>7, <1>9 DEF Moved, HandshakeSteps
  <2>2. InStep(target.cdb, target.count, initiator.count) /\ dat["initiator"] = initiator.count + 1
    BY <1>1, <1>9, <2>1 DEF CdbReceived, Driving
  <2>3. /\ Append(target.cdb, dat["initiator"]) = Bytes(target.count + 1)
        /\ Len(Append(target.cdb, dat["initiator"])) = initiator.count + 1
    BY <1>1, <1>12, <2>2, PlacesTyped DEF Typed, TargetStates
  <2> QED
    BY <1>4, <1>7, <1>9, <2>1, <2>3 DEF InStep
<1>14. DataReceived'
  <2>1. ASSUME Active, command.op = "DATA_OUT", command.size >= command.length, ~Doomed, target.phase = "DATA_OUT"
        PROVE  InStep(target.data, Counted, Moved("DATA_OUT", command.size))'
    <3>1. Moved("DATA_OUT", command.size) = initiator.count /\ Moved("DATA_OUT", command.size)' = initiator.count
          /\ initiator.pc \in HandshakeSteps
      BY <1>7, <1>9, <2>1 DEF Moved, HandshakeSteps
    <3>2. InStep(target.data, Counted, initiator.count) /\ dat["initiator"] = initiator.count + 1
      BY <1>1, <1>9, <2>1, <3>1 DEF DataReceived, Driving
    <3>3. Counted' = Counted /\ Counted \in Nat
      BY <1>1, <1>4, <1>7, <2>1, PlacesTyped DEF Counted, Together, Data
    <3>4. /\ Append(target.data, dat["initiator"]) = Bytes(Counted + 1)
          /\ Len(Append(target.data, dat["initiator"])) = initiator.count + 1
      BY <1>1, <1>12, <2>1, <3>2, <3>3, PlacesTyped DEF Typed, TargetStates
    <3> QED
      BY <1>4, <1>7, <1>9, <2>1, <3>1, <3>3, <3>4 DEF InStep
  <2> QED
    BY <1>1, <1>3, <1>4, <1>7, <1>8, <2>1 DEF DataReceived, Driving, Rank, Receiving, Data
<1>15. DataSent'
  BY <1>1, <1>3, <1>4, <1>7, <1>8 DEF DataSent, Receiving, Rank, Data
<1>16. StatusSent'
  <2>1. Rank(target.phase) <= 3
    BY <1>3 DEF Receiving, Rank, Data
  <2>2. Rank(target.phase) \in 0 .. 5 /\ Rank(initiator.phase) \in 0 .. 5 /\ target.pc # "free"
    BY <1>2, Ranks
  <2>3. ~(InCommand /\ initiator.status = Good)
    BY <1>1, <2>1, <2>2 DEF StatusSent, Together, Active
  <2>4. history.result # Good
    BY <1>1, <2>1, <2>2 DEF StatusSent
  <2> QED
    BY <1>3, <1>4, <1>7, <1>8, <2>3, <2>4 DEF StatusSent, Receiving
<1> QED
  BY <1>6, <1>10, <1>11, <1>13, <1>14, <1>15, <1>16, WorkKeeps DEF HandshakeInv, Places, Transfers

-----------------------------------------------------------------------------
(* Sending                                                                 *)

\* A step of a sending handshake
LEMMA SendingKeeps ==
    ASSUME HandshakeInv, TargetWorks, SamePhaseOfTarget, target.phase \notin Receiving, target.pc \notin Off,
           target'.pc \in {"process", "put", "clear", "sent", "last"},
           target'.count <= target.length, target'.pc \in {"put", "clear", "sent"} => target'.count < target.length,
           target.phase = "STATUS" /\ target'.pc \in {"clear", "sent"} => dat'["target"] = target.status,
           target.phase = "DATA_IN" /\ Active /\ InSend(Counted, Buffered) => InSend(Counted, Buffered)'
    PROVE  HandshakeInv'
<1>1. /\ Typed /\ TargetPlace /\ Together /\ CdbReceived /\ DataReceived /\ DataSent /\ StatusSent /\ SelectionPlace
  BY DEF HandshakeInv, Places, Transfers
<1>2. /\ initiator' = initiator /\ command' = command /\ history'.broken = history.broken
      /\ history'.result = history.result /\ edge' = edge /\ dat'["initiator"] = dat["initiator"]
  BY DEF TargetWorks, TargetFrame
<1>3. /\ target'.phase = target.phase /\ target'.length = target.length /\ target'.rest = target.rest
      /\ target'.cdb = target.cdb /\ target'.data = target.data /\ target'.status = target.status
  BY DEF SamePhaseOfTarget
<1>4. target.phase \in {"DATA_IN", "STATUS", "MSG_IN"}
  BY <1>1 DEF TargetPlace, Phases, Receiving
<1>5. Active' = Active /\ InCommand' = InCommand /\ (Active => InCommand) /\ Doomed' = Doomed
  BY <1>2 DEF Active, InCommand, Doomed, TargetWorks, Off
<1>6. TargetPlace'
  BY <1>1, <1>3, <1>4 DEF TargetPlace, Off, Receiving, Phases
<1>7. Together'
  BY <1>1, <1>2, <1>3, <1>5 DEF Together
<1>8. CdbReceived'
  BY <1>1, <1>2, <1>3, <1>4, <1>5 DEF CdbReceived, Driving
<1>9. DataReceived'
  BY <1>1, <1>2, <1>3, <1>4, <1>5 DEF DataReceived, Driving
<1>10. DataSent'
  <2>1. Filled(Buffered)' = Filled(Buffered)
    BY <1>2 DEF Filled, Buffered
  <2>2. Filled(command.length)' = Filled(command.length)
    BY <1>2 DEF Filled
  <2> QED
    BY <1>1, <1>2, <1>3, <1>5, <2>1, <2>2 DEF DataSent
<1>11. StatusSent'
  <2>1. Delivered' = Delivered
    BY <1>2, <1>3 DEF Delivered, Filled
  <2> QED
    BY <1>1, <1>2, <1>3, <1>4, <1>5, <2>1 DEF StatusSent, Off
<1> QED
  BY <1>6, <1>7, <1>8, <1>9, <1>10, <1>11, WorkKeeps DEF HandshakeInv, Places, Transfers

LEMMA StartSendingKeeps ==
    ASSUME HandshakeInv, StartHandshake, target.phase \notin Receiving
    PROVE  HandshakeInv'
<1>1. Typed /\ TargetPlace /\ TargetLines
  BY DEF HandshakeInv, Wires, Places
<1>2. /\ target.pc = "process" /\ target.count < target.length
      /\ target' = [target EXCEPT !.pc = IF "IO" \in PhaseSignals(target.phase) THEN "put" ELSE "request"]
      /\ UNCHANGED <<lines, dat>> /\ edge' = edge /\ TargetOnly
  BY DEF StartHandshake
<1>3. "IO" \in PhaseSignals(target.phase)
  BY <1>1, <1>2 DEF TargetPlace, Off, Phases, Receiving, PhaseSignals
<1>4. target' = [target EXCEPT !.pc = "put"]
  BY <1>2, <1>3
<1>5. target' \in TargetStates /\ target'.pc = "put" /\ target'.count = target.count /\ SamePhaseOfTarget
  BY <1>1, <1>4 DEF Typed, TargetStates, TargetSteps, SamePhaseOfTarget
<1>6. TargetFrame /\ lines' = lines
  BY <1>1, <1>2, FrameOfNoChange
<1>7. TargetWorks
  BY <1>1, <1>2, <1>5, <1>6 DEF TargetWorks, TargetLines, SamePhaseOfTarget, Off
<1>8. InSend(Counted, Buffered) => InSend(Counted, Buffered)'
  BY <1>2, <1>5 DEF InSend, Counted, Buffered, SamePhaseOfTarget, TargetOnly
<1> QED
  BY <1>2, <1>5, <1>7, <1>8, PlacesTyped, SendingKeeps DEF Off

LEMMA PutKeeps ==
    ASSUME HandshakeInv, Put
    PROVE  HandshakeInv'
<1>1. Typed /\ TargetPlace /\ TargetLines
  BY DEF HandshakeInv, Wires, Places
<1>2. /\ target.pc = "put" /\ target' = [target EXCEPT !.pc = "clear"]
      /\ dat' = [dat EXCEPT !["target"] = ByteToSend] /\ lines' = lines /\ edge' = edge /\ TargetOnly
  BY DEF Put, Drive
<1>3. target' \in TargetStates /\ target'.pc = "clear" /\ target'.count = target.count /\ SamePhaseOfTarget
  BY <1>1, <1>2 DEF Typed, TargetStates, TargetSteps, SamePhaseOfTarget
<1>4. target.phase \in {"DATA_IN", "STATUS", "MSG_IN"} /\ target.phase \notin Receiving /\ target.count < target.length
  BY <1>1, <1>2 DEF TargetPlace, Receiving, Phases, Off
<1>5. /\ target.phase = "DATA_IN" => ByteToSend = Counted + 1
      /\ target.phase = "STATUS" => ByteToSend = target.status
      /\ ByteToSend \in Int
  <2>1. target.status \in Int
    BY <1>1 DEF Typed, TargetStates
  <2> QED
    BY <1>4, <2>1, PlacesTyped DEF ByteToSend, Counted, CommandComplete
<1>6. dat' \in [Outputs -> Int] /\ dat'["initiator"] = dat["initiator"] /\ dat'["target"] = ByteToSend
  BY <1>1, <1>2, <1>5 DEF Typed, Outputs
<1>7. TargetFrame
  BY <1>1, <1>2, <1>6 DEF TargetFrame, TargetOnly, Typed
<1>8. TargetWorks
  BY <1>1, <1>2, <1>3, <1>7 DEF TargetWorks, TargetLines, SamePhaseOfTarget, Off
<1>9. target.phase = "DATA_IN" /\ InSend(Counted, Buffered) => InSend(Counted, Buffered)'
  <2>1. Counted' = Counted /\ Buffered' = Buffered
    BY <1>2, <1>3 DEF Counted, Buffered, SamePhaseOfTarget, TargetOnly
  <2> QED
    BY <1>2, <1>3, <1>5, <1>6, <2>1 DEF InSend
<1> QED
  BY <1>2, <1>3, <1>4, <1>5, <1>6, <1>8, <1>9, PlacesTyped, SendingKeeps DEF Off

LEMMA OfferKeeps ==
    ASSUME HandshakeInv, Offer
    PROVE  HandshakeInv'
<1>1. Typed /\ TargetPlace /\ StatusSent
  BY DEF HandshakeInv, Places, Transfers
<1>2. /\ target.pc = "clear" /\ target' = [target EXCEPT !.pc = "sent"]
      /\ Change("target", {"REQ"}, {}) /\ UNCHANGED dat /\ edge' = edge /\ TargetOnly
      /\ "ACK" \notin Level
  BY DEF Offer, TargetWaitsFor
<1>3. target' \in TargetStates /\ target'.pc = "sent" /\ target'.count = target.count /\ SamePhaseOfTarget
  BY <1>1, <1>2 DEF Typed, TargetStates, TargetSteps, SamePhaseOfTarget
<1>4. target.phase \notin Receiving /\ target.count < target.length
  BY <1>1, <1>2 DEF TargetPlace
<1>5. TargetFrame /\ lines'["target"] = (lines["target"] \ {}) \cup {"REQ"}
  <2>1. {"REQ"} \in SUBSET AllSignals
    BY DEF AllSignals
  <2> QED
    BY <1>1, <1>2, <2>1, FrameOfChange
<1>6. lines'["target"] = {"BSY"} \cup PhaseSignals(target.phase) \cup {"REQ"}
  BY <1>2, <1>5, RequestWires DEF Off
<1>7. TargetWorks
  BY <1>2, <1>3, <1>5, <1>6 DEF TargetWorks, SamePhaseOfTarget, Off
<1>8. InSend(Counted, Buffered) => InSend(Counted, Buffered)'
  <2>1. Counted' = Counted /\ Buffered' = Buffered /\ initiator' = initiator
    BY <1>2, <1>3 DEF Counted, Buffered, SamePhaseOfTarget, TargetOnly
  <2>2. initiator.pc \notin {"end", "release"}
    BY <1>2, Signals
  <2> QED
    BY <1>2, <1>3, <2>1, <2>2 DEF InSend
<1>9. target.phase = "STATUS" => dat'["target"] = target.status
  BY <1>1, <1>2 DEF StatusSent
<1> QED
  BY <1>2, <1>3, <1>4, <1>7, <1>8, <1>9, PlacesTyped, SendingKeeps DEF Off

\* An ACK counts for the byte that the initiator has just taken.
LEMMA SentKeeps ==
    ASSUME HandshakeInv, Sent
    PROVE  HandshakeInv'
<1>1. Typed /\ TargetPlace /\ Together /\ InitiatorPlace
  BY DEF HandshakeInv, Places
<1>2. /\ target.pc = "sent" /\ "ACK" \in Level
      /\ target' = [target EXCEPT !.count = @ + 1, !.pc = IF target.count + 1 < target.length THEN "put" ELSE "last"]
      /\ Change("target", {}, {"REQ"}) /\ UNCHANGED dat /\ edge' = edge /\ TargetOnly
  BY DEF Sent, TargetWaitsFor
<1>3. target.phase \notin Receiving /\ target.count < target.length
  BY <1>1, <1>2 DEF TargetPlace
<1>4. PICK pc \in {"put", "last"} : /\ target' = [target EXCEPT !.count = target.count + 1, !.pc = pc]
                                    /\ pc = "put" <=> target.count + 1 < target.length
  <2>1. CASE target.count + 1 < target.length
    BY <1>2, <2>1
  <2>2. CASE ~(target.count + 1 < target.length)
    BY <1>2, <2>2
  <2> QED
    BY <2>1, <2>2
<1>5. /\ target' \in TargetStates /\ target'.pc = pc /\ target'.count = target.count + 1 /\ SamePhaseOfTarget
  <2>1. target.count + 1 \in Nat /\ pc \in TargetSteps
    BY PlacesTyped DEF TargetSteps
  <2> QED
    BY <1>1, <1>4, <2>1 DEF Typed, TargetStates, SamePhaseOfTarget
<1>6. TargetFrame /\ lines'["target"] = (lines["target"] \ {"REQ"}) \cup {}
  <2>1. {} \in SUBSET AllSignals
    OBVIOUS
  <2> QED
    BY <1>1, <1>2, <2>1, FrameOfChange
<1>7. TargetWorks
  BY <1>2, <1>5, <1>6, RequestWires DEF TargetWorks, SamePhaseOfTarget, Off
<1>8. target.phase = "DATA_IN" /\ Active /\ InSend(Counted, Buffered) => InSend(Counted, Buffered)'
  <2> SUFFICES ASSUME target.phase = "DATA_IN", Active, InSend(Counted, Buffered)
               PROVE  InSend(Counted, Buffered)'
    OBVIOUS
  <2>1. Counted' = Counted + 1 /\ Buffered' = Buffered /\ Counted \in Int
    BY <1>2, <1>5, PlacesTyped DEF Counted, Buffered, SamePhaseOfTarget, TargetOnly
  <2>2. initiator.pc \in {"end", "release"}
    <3>1. initiator.pc \in {"end", "release", "message end"}
      BY <1>2, Signals
    <3>2. InCommand /\ Rank(initiator.phase) <= Rank(target.phase)
      BY <1>1 DEF Together, Active
    <3>3. initiator.phase # "MSG_IN"
      BY <3>2, Ranks DEF Data
    <3> QED
      BY <1>1, <3>1, <3>2, <3>3 DEF InitiatorPlace
  <2>3. Counted + 1 = Buffered
    BY <1>2, <2>2 DEF InSend
  <2> QED
    BY <1>4, <1>5, <2>1, <2>3 DEF InSend
<1> QED
  BY <1>2, <1>3, <1>4, <1>5, <1>7, <1>8, PlacesTyped, SendingKeeps DEF Off

\* What a step of the target keeps of the other variables
OthersKept ==
    /\ command' = command /\ initiator' = initiator
    /\ history' \in Histories /\ history'.broken = history.broken /\ history'.result = history.result

LEMMA OthersFrame ==
    ASSUME Typed, NEW on \in SUBSET AllSignals, NEW off, Change("target", on, off), UNCHANGED dat, OthersKept
    PROVE  TargetFrame /\ lines'["target"] = (lines["target"] \ off) \cup on
<1>1. "target" \in Outputs /\ "initiator" \in Outputs /\ "initiator" # "target"
  BY DEF Outputs
<1>2. /\ lines' \in [Outputs -> SUBSET AllSignals] /\ lines'["target"] = (lines["target"] \ off) \cup on
      /\ lines'["initiator"] = lines["initiator"]
  BY <1>1, ChangedWires
<1> QED
  BY <1>2 DEF TargetFrame, OthersKept, Typed

LEMMA OnlyKept ==
    ASSUME Typed, TargetOnly
    PROVE  OthersKept
  BY DEF Typed, TargetOnly, OthersKept

\* A handshake that fails
LEMMA FailKeeps ==
    ASSUME HandshakeInv, Fail, OthersKept, UNCHANGED <<dat, edge>>, target.pc # "free"
    PROVE  HandshakeInv'
<1>1. Typed
  BY DEF HandshakeInv
<1>2. BusFree({"RST"})
  BY DEF Fail
<1>3. {"RST"} \in SUBSET AllSignals /\ Change("target", {"RST"}, TargetSignals)
  BY <1>2 DEF AllSignals, BusFree
<1>4. TargetFrame
  BY <1>1, <1>3, OthersFrame
<1>5. {"RST"} \in SUBSET {"RST"}
  OBVIOUS
<1> QED
  BY <1>2, <1>4, <1>5, BusFreeKeeps

\* The end of a sending handshake
LEMMA AllSentKeeps ==
    ASSUME HandshakeInv, target.pc = "last", AllSent, OthersKept, UNCHANGED <<dat, edge>>
    PROVE  HandshakeInv'
<1>1. Typed /\ TargetPlace /\ TargetLines
  BY DEF HandshakeInv, Wires, Places
<1>2. target.phase \notin Receiving
  BY <1>1 DEF TargetPlace
<1>3. CASE target.count = target.length
  <2>1. target' = [target EXCEPT !.pc = "process"] /\ lines' = lines
    BY <1>3 DEF AllSent
  <2>2. target' \in TargetStates /\ target'.pc = "process" /\ target'.count = target.count /\ SamePhaseOfTarget
    BY <1>1, <2>1 DEF Typed, TargetStates, TargetSteps, SamePhaseOfTarget
  <2>3. TargetFrame
    BY <1>1, <2>1 DEF TargetFrame, OthersKept, Typed
  <2>4. TargetWorks
    BY <1>1, <2>1, <2>2, <2>3 DEF TargetWorks, TargetLines, SamePhaseOfTarget, Off
  <2>5. InSend(Counted, Buffered) => InSend(Counted, Buffered)'
    BY <1>3, <2>2 DEF InSend, Counted, Buffered, SamePhaseOfTarget, OthersKept
  <2> QED
    BY <1>2, <1>3, <2>2, <2>4, <2>5, PlacesTyped, SendingKeeps DEF Off
<1>4. CASE target.count # target.length
  <2>1. Fail
    BY <1>4 DEF AllSent
  <2> QED
    BY <2>1, FailKeeps
<1> QED
  BY <1>3, <1>4

LEMMA EndSendKeeps ==
    ASSUME HandshakeInv, EndSend
    PROVE  HandshakeInv'
<1>1. target.pc = "last" /\ AllSent /\ UNCHANGED <<dat, edge>> /\ TargetOnly
  BY DEF EndSend
<1>2. OthersKept
  BY <1>1, OnlyKept DEF HandshakeInv
<1> QED
  BY <1>1, <1>2, AllSentKeeps

\* A wait of the target that has lasted for too long
LEMMA TargetTimeoutKeeps ==
    ASSUME HandshakeInv, TargetTimeout
    PROVE  HandshakeInv'
<1>1. Typed /\ TargetPlace
  BY DEF HandshakeInv, Places
<1>2. /\ target.pc \in {"ack", "release", "clear", "sent", "last"} /\ TargetGivesUp /\ UNCHANGED <<dat, edge>>
      /\ command' = command /\ initiator' = initiator
      /\ target.pc = "sent" => target' = [target EXCEPT !.pc = "last"] /\ Change("target", {}, {"REQ"})
      /\ target.pc = "last" => AllSent
      /\ target.pc \notin {"sent", "last"} => Fail
  BY DEF TargetTimeout, WaitHandShake
<1>3. OthersKept
  BY <1>1, <1>2, TargetGivesUpTyped DEF OthersKept
<1>4. CASE target.pc = "sent"
  <2>1. target' = [target EXCEPT !.pc = "last"] /\ Change("target", {}, {"REQ"})
    BY <1>2, <1>4
  <2>2. target' \in TargetStates /\ target'.pc = "last" /\ target'.count = target.count /\ SamePhaseOfTarget
    BY <1>1, <2>1 DEF Typed, TargetStates, TargetSteps, SamePhaseOfTarget
  <2>3. target.phase \notin Receiving /\ target.count < target.length
    BY <1>1, <1>4 DEF TargetPlace
  <2>4. TargetFrame /\ lines'["target"] = (lines["target"] \ {"REQ"}) \cup {}
    <3>1. {} \in SUBSET AllSignals
      OBVIOUS
    <3> QED
      BY <1>1, <1>2, <1>3, <2>1, <3>1, OthersFrame
  <2>5. TargetWorks
    BY <1>2, <1>4, <2>2, <2>4, RequestWires DEF TargetWorks, SamePhaseOfTarget, Off
  <2>6. target'.count # target'.length
    BY <2>2, <2>3, PlacesTyped DEF SamePhaseOfTarget
  <2>7. InSend(Counted, Buffered)'
    BY <2>2, <2>6 DEF InSend
  <2> QED
    BY <1>4, <2>2, <2>3, <2>5, <2>7, PlacesTyped, SendingKeeps DEF Off
<1>5. CASE target.pc = "last"
  BY <1>2, <1>3, <1>5, AllSentKeeps
<1>6. CASE target.pc \notin {"sent", "last"}
  BY <1>2, <1>3, <1>6, FailKeeps
<1> QED
  BY <1>4, <1>5, <1>6

-----------------------------------------------------------------------------
(* The next phase                                                          *)

\* The first handshake of a phase does not disturb what both sides agree on.
LEMMA NewPhaseKeeps ==
    ASSUME HandshakeInv, TargetWorks, TargetPlace', CdbReceived', DataReceived', DataSent',
           target'.pc \in {"process", "request"},
           target'.phase = target.phase \/ Rank(target.phase) < Rank(target'.phase),
           target'.phase \in Data => target'.phase = command.op /\ target'.rest + target'.length <= command.length,
           Active /\ target'.phase \in Receiving => initiator.pc \notin {"end", "release"},
           Rank(target.phase) > 3 => target'.cdb = target.cdb /\ target'.data = target.data
    PROVE  HandshakeInv'
<1>1. Typed /\ Together /\ StatusSent
  BY DEF HandshakeInv, Places, Transfers
<1>2. /\ initiator' = initiator /\ command' = command /\ history'.broken = history.broken
      /\ history'.result = history.result /\ edge' = edge
  BY DEF TargetWorks, TargetFrame
<1>3. Active' = Active /\ InCommand' = InCommand /\ (Active => InCommand) /\ (InCommand => Active)
  BY <1>2 DEF Active, InCommand, TargetWorks, Off
<1>4. Rank(target.phase) \in 0 .. 5 /\ Rank(target'.phase) \in 0 .. 5 /\ Rank(initiator.phase) \in 0 .. 5
  BY Ranks
<1>5. Together'
  <2>1. Active => Rank(initiator.phase) <= Rank(target'.phase)
    BY <1>1, <1>4 DEF Together
  <2>2. Active /\ initiator.phase = target'.phase => target'.phase = target.phase
    BY <1>1, <1>4 DEF Together
  <2> QED
    BY <1>1, <1>2, <1>3, <2>1, <2>2 DEF Together
<1>6. StatusSent'
  <2>1. CASE Rank(target.phase) > 3
    <3>1. target'.cdb = target.cdb /\ target'.data = target.data /\ Rank(target'.phase) > 3
      BY <1>4, <2>1
    <3>2. Delivered' = Delivered
      BY <1>2, <3>1 DEF Delivered, Filled
    <3> QED
      BY <1>1, <1>2, <1>3, <3>1, <3>2 DEF StatusSent
  <2>2. CASE ~(Rank(target.phase) > 3)
    <3>1. target.pc # "free"
      BY DEF TargetWorks
    <3>2. ~(InCommand /\ initiator.status = Good)
      BY <1>1, <1>3, <1>4, <2>2 DEF StatusSent, Together
    <3>3. history.result # Good
      BY <1>1, <2>2, <3>1 DEF StatusSent
    <3> QED
      BY <1>2, <1>3, <3>2, <3>3 DEF StatusSent
  <2> QED
    BY <2>1, <2>2
<1> QED
  BY <1>5, <1>6, WorkKeeps DEF HandshakeInv, Places, Transfers

LEMMA HandshakeWorks ==
    ASSUME HandshakeInv, target.pc # "free", ~(target.pc = "selection" /\ initiator.pc = "busy"),
           NEW p \in Phases, NEW n \in Nat, NEW pc \in {"process", "request"},
           Handshake(p, n, pc), UNCHANGED <<dat, edge>>, TargetOnly
    PROVE  /\ TargetWorks
           /\ target'.pc = pc /\ target'.phase = p /\ target'.count = 0 /\ target'.length = n
           /\ target'.cdb = target.cdb /\ target'.data = target.data
<1>1. Typed
  BY DEF HandshakeInv
<1>2. /\ target' = [target EXCEPT !.phase = p, !.count = 0, !.length = n, !.pc = pc]
      /\ Change("target", PhaseSignals(p) \cup {"BSY"}, TargetSignals)
  BY DEF Handshake
<1>3. /\ target' \in TargetStates
      /\ target'.pc = pc /\ target'.phase = p /\ target'.count = 0 /\ target'.length = n
      /\ target'.cdb = target.cdb /\ target'.data = target.data
  BY <1>1, <1>2 DEF Typed, TargetStates, TargetSteps, TargetPhases
<1>4. TargetFrame /\ lines'["target"] = (lines["target"] \ TargetSignals) \cup (PhaseSignals(p) \cup {"BSY"})
  <2>1. PhaseSignals(p) \cup {"BSY"} \in SUBSET AllSignals
    BY PhaseWires DEF AllSignals
  <2> QED
    BY <1>1, <1>2, <2>1, FrameOfChange
<1>5. lines'["target"] = {"BSY"} \cup PhaseSignals(p)
  BY <1>4, PhaseWires
<1> QED
  BY <1>3, <1>4, <1>5 DEF TargetWorks, Off

LEMMA EnterWorks ==
    ASSUME HandshakeInv, target.pc \notin Off, NEW received \in TargetStates, NEW p \in Phases, NEW n \in Nat,
           Enter(received, p, n), UNCHANGED <<dat, edge>>, TargetOnly
    PROVE  /\ TargetWorks
           /\ target'.pc = "process" /\ target'.phase = p /\ target'.count = 0 /\ target'.length = n
           /\ target'.cdb = received.cdb /\ target'.data = received.data
           /\ target'.rest = received.rest /\ target'.status = received.status
<1>1. Typed
  BY DEF HandshakeInv
<1>2. /\ target' = [received EXCEPT !.phase = p, !.count = 0, !.length = n, !.pc = "process"]
      /\ Change("target", PhaseSignals(p), TargetSignals \ {"BSY"})
  BY DEF Enter
<1>3. /\ target' \in TargetStates
      /\ target'.pc = "process" /\ target'.phase = p /\ target'.count = 0 /\ target'.length = n
      /\ target'.cdb = received.cdb /\ target'.data = received.data
      /\ target'.rest = received.rest /\ target'.status = received.status
  BY <1>2 DEF TargetStates, TargetSteps, TargetPhases
<1>4. TargetFrame /\ lines'["target"] = (lines["target"] \ (TargetSignals \ {"BSY"})) \cup PhaseSignals(p)
  <2>1. PhaseSignals(p) \in SUBSET AllSignals
    BY PhaseWires DEF Off
  <2> QED
    BY <1>1, <1>2, <2>1, FrameOfChange
<1>5. lines'["target"] = {"BSY"} \cup PhaseSignals(p)
  BY <1>4, PhaseWires DEF Off
<1> QED
  BY <1>3, <1>4, <1>5 DEF TargetWorks, Off

\* MESSAGE OUT and COMMAND
LEMMA CommandPhaseKeeps ==
    ASSUME HandshakeInv, target.pc # "free", initiator.pc # "busy", target.phase \in {"SELECTION", "MSG_OUT"},
           Active => initiator.pc \notin {"end", "release"},
           Handshake("MSG_OUT", 1, "process") \/ Command, UNCHANGED <<dat, edge>>, TargetOnly
    PROVE  HandshakeInv'
<1>1. Typed /\ TargetPlace /\ Together /\ CdbReceived /\ DataReceived /\ DataSent
  BY DEF HandshakeInv, Places, Transfers
<1>2. CdbLength \in Nat \ {0}
  BY HandshakeAssumption
<1>3. /\ TargetWorks /\ target'.cdb = target.cdb /\ target'.data = target.data /\ target'.count = 0
      /\ \/ target'.pc = "process" /\ target'.phase = "MSG_OUT" /\ target'.length = 1
         \/ target'.pc = "request" /\ target'.phase = "COMMAND" /\ target'.length = CdbLength
  <2>1. CASE Handshake("MSG_OUT", 1, "process")
    <3>1. "MSG_OUT" \in Phases /\ 1 \in Nat /\ "process" \in {"process", "request"}
      BY DEF Phases
    <3> HIDE DEF Phases
    <3> QED
      BY <2>1, <3>1, HandshakeWorks
  <2>2. CASE Command
    <3>1. "COMMAND" \in Phases /\ CdbLength \in Nat /\ "request" \in {"process", "request"}
      BY <1>2 DEF Phases
    <3>2. Handshake("COMMAND", CdbLength, "request")
      BY <2>2 DEF Command
    <3> QED
      BY <3>1, <3>2, HandshakeWorks
  <2> QED
    BY <2>1, <2>2
<1>4. /\ initiator' = initiator /\ command' = command /\ history'.broken = history.broken /\ dat' = dat
  BY <1>3 DEF TargetWorks, TargetFrame
<1>5. Active' = Active /\ InCommand' = InCommand /\ Doomed' = Doomed
  BY <1>3, <1>4 DEF Active, InCommand, Doomed
<1>6. target.cdb = <<>> /\ target.data = <<>>
  BY <1>1 DEF TargetPlace
<1>7. TargetPlace'
  <2>1. target'.count <= target'.length /\ target'.count < target'.length
    BY <1>2, <1>3
  <2> QED
    BY <1>3, <1>6, <2>1 DEF TargetPlace, Off, Phases, Receiving
<1>8. Active => initiator.phase \notin {"COMMAND", "DATA_IN", "DATA_OUT", "STATUS", "MSG_IN"}
  BY <1>1 DEF Together, Rank, Data
<1>9. CdbReceived'
  <2>1. Active => Moved("COMMAND", CdbLength)' = 0
    BY <1>4, <1>8 DEF Moved
  <2>2. Active /\ target'.phase = "COMMAND" => InStep(target.cdb, target.count, Moved("COMMAND", CdbLength))'
    BY <1>3, <1>6, <2>1, NoBytes DEF InStep
  <2> QED
    BY <1>1, <1>3, <1>4, <1>5, <1>8, <2>2 DEF CdbReceived, Driving, Rank, Data
<1>10. DataReceived'
  BY <1>1, <1>3, <1>4, <1>5 DEF DataReceived, Driving, Rank, Data
<1>11. DataSent'
  BY <1>1, <1>3, <1>4, <1>5 DEF DataSent, Rank, Data
<1>12. /\ target'.phase \notin Data /\ ~(Rank(target.phase) > 3)
       /\ target'.phase = target.phase \/ Rank(target.phase) < Rank(target'.phase)
  BY <1>3 DEF Data, Rank
<1> QED
  BY <1>3, <1>7, <1>9, <1>10, <1>11, <1>12, NewPhaseKeeps

LEMMA EndSelectionKeeps ==
    ASSUME HandshakeInv, EndSelection
    PROVE  HandshakeInv'
<1>1. Typed /\ TargetPlace /\ Together /\ InitiatorPlace
  BY DEF HandshakeInv, Places
<1>2. /\ target.pc = "selection" /\ UNCHANGED <<dat, edge>> /\ TargetOnly
      /\ "RST" \in Level \/ "SEL" \notin Level
  BY DEF EndSelection, TargetWaitsFor
<1>3. CASE TargetReset
  <2>1. edge' \in BOOLEAN /\ (edge' => edge)
    BY <1>1, <1>2 DEF Typed
  <2> QED
    BY <1>2, <1>3, <2>1, ResetKeeps
<1>4. CASE "RST" \notin Level /\ (Handshake("MSG_OUT", 1, "process") \/ Command)
  <2>1. initiator.pc # "busy"
    BY <1>2, <1>4, Signals
  <2>2. target.phase = "SELECTION"
    BY <1>1, <1>2 DEF TargetPlace
  <2>3. Active => initiator.pc = "loop"
    <3>1. initiator.phase \in Phases \cup {"BUS_FREE"}
      BY <1>1 DEF Typed, InitiatorStates
    <3>2. Active => initiator.phase \notin Phases
      BY <1>1, <2>2 DEF Together, Rank, Data, Phases
    <3> QED
      BY <1>1, <3>1, <3>2 DEF InitiatorPlace, Active
  <2> QED
    BY <1>2, <1>4, <2>1, <2>2, <2>3, CommandPhaseKeeps
<1> QED
  BY <1>3, <1>4 DEF EndSelection

\* The data phases and STATUS follow a handshake of the target that is complete.
LEMMA StatusKeeps ==
    ASSUME HandshakeInv, target.pc \notin Off, target.phase \in {"COMMAND", "DATA_IN", "DATA_OUT"},
           NEW status \in Int, Status(target, status), UNCHANGED <<dat, edge>>, TargetOnly,
           Active /\ "COMMAND" \notin history.broken => target.cdb = Cdb,
           status = Good /\ Active /\ command.op = "DATA_OUT" /\ command.size >= command.length /\ ~Doomed
               => target.data = Bytes(command.length),
           status = Good /\ Active /\ command.op = "DATA_IN" /\ "DATA_IN" \notin history.broken
               => Filled(command.length)
    PROVE  HandshakeInv'
<1>1. Typed /\ TargetPlace /\ Together /\ CdbReceived /\ DataReceived /\ DataSent
  BY DEF HandshakeInv, Places, Transfers
<1>2. /\ TargetWorks /\ target'.pc = "process" /\ target'.phase = "STATUS" /\ target'.count = 0 /\ target'.length = 1
      /\ target'.cdb = target.cdb /\ target'.data = target.data /\ target'.status = status
  <2>1. [target EXCEPT !.status = status] \in TargetStates
    BY <1>1 DEF Typed, TargetStates
  <2>2. /\ [target EXCEPT !.status = status].cdb = target.cdb
        /\ [target EXCEPT !.status = status].data = target.data
        /\ [target EXCEPT !.status = status].status = status
    BY <1>1 DEF Typed, TargetStates
  <2>3. Enter([target EXCEPT !.status = status], "STATUS", 1)
    BY DEF Status
  <2>4. "STATUS" \in Phases /\ 1 \in Nat
    BY DEF Phases
  <2> QED
    BY <2>1, <2>2, <2>3, <2>4, EnterWorks
<1>3. /\ initiator' = initiator /\ command' = command /\ history'.broken = history.broken /\ dat' = dat
  BY <1>2 DEF TargetWorks, TargetFrame
<1>4. Active' = Active /\ InCommand' = InCommand /\ Doomed' = Doomed
  BY <1>2, <1>3 DEF Active, InCommand, Doomed, Off
<1>5. TargetPlace'
  <2>1. target'.count <= target'.length
    BY <1>2
  <2> QED
    BY <1>2, <2>1 DEF TargetPlace, Off, Phases, Receiving
<1>6. CdbReceived'
  BY <1>1, <1>2, <1>3, <1>4 DEF CdbReceived, Driving
<1>7. DataReceived'
  BY <1>1, <1>2, <1>3, <1>4 DEF DataReceived, Driving
<1>8. DataSent'
  <2>1. Filled(command.length)' = Filled(command.length)
    BY <1>3 DEF Filled
  <2> QED
    BY <1>1, <1>2, <1>3, <1>4, <2>1 DEF DataSent
<1>9. /\ target'.phase \notin Data /\ target'.phase \notin Receiving
      /\ Rank(target.phase) < Rank(target'.phase) /\ ~(Rank(target.phase) > 3)
  BY <1>2 DEF Data, Receiving, Rank
<1> QED
  BY <1>2, <1>5, <1>6, <1>7, <1>8, <1>9, NewPhaseKeeps

LEMMA ChunkKeeps ==
    ASSUME HandshakeInv, target.pc \notin Off, target.phase \in {"COMMAND", command.op},
           command.op \in Data,
           NEW rest \in Nat, NEW n \in Nat, n <= rest, rest <= command.length,
           Enter([target EXCEPT !.rest = rest - n], command.op, n), UNCHANGED <<dat, edge>>, TargetOnly,
           Active /\ command.op = "DATA_OUT" => initiator.pc \notin {"end", "release"},
           Active /\ "COMMAND" \notin history.broken => target.cdb = Cdb,
           Active /\ command.op = "DATA_OUT" /\ command.size >= command.length /\ ~Doomed =>
               /\ target.data = Bytes(command.length - rest)
               /\ Len(target.data) = Moved("DATA_OUT", command.size),
           Active /\ command.op = "DATA_IN" /\ "DATA_IN" \notin history.broken =>
               /\ Filled(Buffered) /\ command.length - rest = Buffered
               /\ initiator.phase = "DATA_IN" =>
                    initiator.size = IF initiator.pc \in HandshakeSteps THEN command.size ELSE 0
    PROVE  HandshakeInv'
<1>1. Typed /\ TargetPlace /\ Together /\ CdbReceived /\ DataReceived /\ DataSent
  BY DEF HandshakeInv, Places, Transfers
<1>2. /\ TargetWorks /\ target'.pc = "process" /\ target'.phase = command.op /\ target'.count = 0
      /\ target'.length = n /\ target'.rest = rest - n /\ target'.cdb = target.cdb /\ target'.data = target.data
  <2>1. rest - n \in Nat
    OBVIOUS
  <2>2. [target EXCEPT !.rest = rest - n] \in TargetStates
    BY <1>1, <2>1 DEF Typed, TargetStates
  <2>3. /\ [target EXCEPT !.rest = rest - n].cdb = target.cdb
        /\ [target EXCEPT !.rest = rest - n].data = target.data
        /\ [target EXCEPT !.rest = rest - n].rest = rest - n
    BY <1>1 DEF Typed, TargetStates
  <2>4. command.op \in Phases
    BY DEF Phases, Data
  <2> QED
    BY <2>2, <2>3, <2>4, EnterWorks
<1>3. /\ initiator' = initiator /\ command' = command /\ history'.broken = history.broken /\ dat' = dat
  BY <1>2 DEF TargetWorks, TargetFrame
<1>4. Active' = Active /\ InCommand' = InCommand /\ Doomed' = Doomed /\ Buffered' = Buffered
      /\ Moved("DATA_OUT", command.size)' = Moved("DATA_OUT", command.size)
  BY <1>2, <1>3 DEF Active, InCommand, Doomed, Off, Buffered, Moved
<1>5. TargetPlace'
  <2>1. target'.count <= target'.length
    BY <1>2
  <2> QED
    BY <1>2, <2>1 DEF TargetPlace, Off, Phases, Receiving, Data
<1>6. Rank(target'.phase) = 3 /\ target'.phase \notin {"COMMAND", "STATUS", "MSG_IN"}
  BY <1>2, Ranks DEF Data
<1>7. CdbReceived'
  BY <1>1, <1>2, <1>3, <1>4, <1>6 DEF CdbReceived, Driving
<1>8. Counted' = command.length - rest
  BY <1>2, <1>3, PlacesTyped DEF Counted
<1>9. DataReceived'
  <2>1. Active /\ command.op = "DATA_OUT" /\ command.size >= command.length /\ ~Doomed
        => InStep(target.data, Counted, Moved("DATA_OUT", command.size))'
    <3>1. target'.pc # "release"
      BY <1>2
    <3>2. command.length - rest \in Int /\ Moved("DATA_OUT", command.size) \in Int
      BY PlacesTyped DEF Moved
    <3>3. /\ Active /\ command.op = "DATA_OUT" /\ command.size >= command.length /\ ~Doomed
             => /\ target.data = Bytes((command.length - rest) + 0)
                /\ Len(target.data) = Moved("DATA_OUT", command.size) + 0
      BY <3>2
    <3> QED
      BY <1>2, <1>4, <1>8, <3>1, <3>3 DEF InStep
  <2>2. ~(Rank(target'.phase) > 3)
    BY <1>6
  <2> QED
    BY <1>1, <1>2, <1>3, <1>4, <2>1, <2>2 DEF DataReceived, Driving
<1>10. DataSent'
  <2>1. Filled(Buffered)' = Filled(Buffered)
    BY <1>3, <1>4 DEF Filled
  <2>2. Active /\ command.op = "DATA_IN" /\ "DATA_IN" \notin history.broken => InSend(Counted, Buffered)'
    BY <1>2, <1>4, <1>8 DEF InSend
  <2>3. ~(Rank(target'.phase) > 3)
    BY <1>6
  <2> QED
    BY <1>1, <1>2, <1>3, <1>4, <2>1, <2>2, <2>3 DEF DataSent
<1>11. target'.rest + target'.length <= command.length
  BY <1>2, PlacesTyped
<1>12. /\ target'.phase = target.phase \/ Rank(target.phase) < Rank(target'.phase)
       /\ ~(Rank(target.phase) > 3)
  BY <1>2, <1>6, Ranks DEF Data
<1>13. Active /\ target'.phase \in Receiving => initiator.pc \notin {"end", "release"}
  BY <1>2 DEF Receiving, Data
<1> QED
  BY <1>2, <1>5, <1>7, <1>9, <1>10, <1>11, <1>12, <1>13, NewPhaseKeeps

\* What a chunk and the end of the data depend on
LEMMA TransferKeeps ==
    ASSUME HandshakeInv, target.pc \notin Off, target.phase \in {"COMMAND", command.op},
           command.op \in Data,
           NEW rest \in Nat, rest <= command.length,
           Transfer(target, rest), UNCHANGED <<dat, edge>>, TargetOnly,
           Active /\ command.op = "DATA_OUT" => initiator.pc \notin {"end", "release"},
           Active /\ "COMMAND" \notin history.broken => target.cdb = Cdb,
           Active /\ command.op = "DATA_OUT" /\ command.size >= command.length /\ ~Doomed =>
               /\ target.data = Bytes(command.length - rest)
               /\ Len(target.data) = Moved("DATA_OUT", command.size),
           Active /\ command.op = "DATA_IN" /\ "DATA_IN" \notin history.broken =>
               /\ Filled(Buffered) /\ command.length - rest = Buffered
               /\ initiator.phase = "DATA_IN" =>
                    initiator.size = IF initiator.pc \in HandshakeSteps THEN command.size ELSE 0
    PROVE  HandshakeInv'
<1>1. PICK n \in Nat : /\ n <= rest
                       /\ \/ Enter([target EXCEPT !.rest = rest - n], command.op, n)
                          \/ Status(target, CheckCondition)
  <2>1. CASE rest < command.chunk
    <3>1. Enter([target EXCEPT !.rest = rest - rest], command.op, rest) \/ Status(target, CheckCondition)
      BY <2>1 DEF Transfer
    <3>2. rest <= rest
      OBVIOUS
    <3> QED
      BY <3>1, <3>2
  <2>2. CASE ~(rest < command.chunk)
    <3>1. Enter([target EXCEPT !.rest = rest - command.chunk], command.op, command.chunk)
             \/ Status(target, CheckCondition)
      BY <2>2 DEF Transfer
    <3>2. command.chunk <= rest /\ command.chunk \in Nat
      BY <2>2, PlacesTyped
    <3> QED
      BY <3>1, <3>2
  <2> QED
    BY <2>1, <2>2
<1>2. CASE Enter([target EXCEPT !.rest = rest - n], command.op, n)
  BY <1>1, <1>2, ChunkKeeps
<1>3. CASE Status(target, CheckCondition)
  <2>1. CheckCondition \in Int /\ CheckCondition # Good
    BY DEF CheckCondition, Good
  <2>2. target.phase \in {"COMMAND", "DATA_IN", "DATA_OUT"}
    BY DEF Data
  <2> QED
    BY <1>3, <2>1, <2>2, StatusKeeps
<1> QED
  BY <1>1, <1>2, <1>3

\* The CDB is complete: the command is executed.
LEMMA ExecuteKeeps ==
    ASSUME HandshakeInv, target.pc = "release", AckReleased, target.phase = "COMMAND",
           target.count + 1 = target.length, Execute, UNCHANGED <<dat, edge>>, TargetOnly
    PROVE  HandshakeInv'
<1>1. Typed /\ TargetPlace /\ Together /\ CdbReceived
  BY DEF HandshakeInv, Places, Transfers
<1>2. initiator.pc \notin {"end", "release"}
  BY Signals DEF AckReleased
<1>3. Active /\ "COMMAND" \notin history.broken => target.cdb = Cdb
  <2> SUFFICES ASSUME Active, "COMMAND" \notin history.broken
               PROVE  target.cdb = Cdb
    OBVIOUS
  <2>1. target.cdb = Bytes(target.count + 1)
    BY <1>1 DEF CdbReceived, InStep
  <2>2. target.length = CdbLength
    BY <1>1 DEF TargetPlace
  <2> QED
    BY <2>1, <2>2, CdbBytes
<1>4. Active => initiator.phase \notin {"DATA_IN", "DATA_OUT"}
  BY <1>1 DEF Together, Rank, Data
<1>5. Active => Moved("DATA_OUT", command.size) = 0 /\ Buffered = 0
  BY <1>4 DEF Moved, Buffered
<1>6. target.data = Bytes(0) /\ Len(target.data) = 0
  BY <1>1, NoBytes DEF TargetPlace
<1>7. target.pc \notin Off
  BY DEF Off
<1>8. CASE command.length > 0
  <2>1. Transfer(target, command.length)
    BY <1>8 DEF Execute
  <2>2. command.op \in Data
    BY <1>8, PlacesTyped DEF Data
  <2>3. command.length - command.length = 0 /\ command.length <= command.length /\ command.length \in Nat
    BY PlacesTyped
  <2>4. Filled(0)
    BY PlacesTyped DEF Filled
  <2> QED
    BY <1>2, <1>3, <1>4, <1>5, <1>6, <1>7, <2>1, <2>2, <2>3, <2>4, TransferKeeps
<1>9. CASE ~(command.length > 0)
  <2>1. command.op \notin {"DATA_OUT", "DATA_IN"}
    BY <1>9, PlacesTyped
  <2>2. PICK status \in Int : Status(target, status)
    BY <1>9 DEF Execute, Good, CheckCondition
  <2> QED
    BY <1>3, <1>7, <2>1, <2>2, StatusKeeps
<1> QED
  BY <1>8, <1>9

LEMMA EndReceiveEnds ==
    ASSUME HandshakeInv, EndReceive
    PROVE  HandshakeInv'
<1>1. target.pc = "release" /\ AckReleased /\ UNCHANGED <<dat, edge>> /\ TargetOnly
  BY DEF EndReceive
<1>2. CASE target.count + 1 = target.length /\ target.phase = "COMMAND"
  <2>1. Execute
    BY <1>2 DEF EndReceive
  <2> QED
    BY <1>1, <1>2, <2>1, ExecuteKeeps
<1>3. CASE ~(target.count + 1 = target.length /\ target.phase = "COMMAND")
  <2>1. /\ target' = [target EXCEPT !.count = @ + 1,
                                    !.pc = IF target.count + 1 < target.length THEN "request" ELSE "process"]
        /\ UNCHANGED lines
    BY <1>3 DEF EndReceive
  <2> QED
    BY <1>1, <1>3, <2>1, EndReceiveKeeps
<1> QED
  BY <1>2, <1>3

\* A target whose command the initiator has given up goes on alone.
LEMMA AloneKeeps ==
    ASSUME HandshakeInv, TargetWorks, TargetPlace', ~Active, ~(Rank(target.phase) > 3), target'.pc = "process"
    PROVE  HandshakeInv'
<1>1. StatusSent /\ target.pc # "free"
  BY DEF HandshakeInv, Transfers, TargetWorks
<1>2. initiator' = initiator /\ history'.result = history.result
  BY DEF TargetWorks, TargetFrame
<1>3. ~InCommand /\ history.result # Good
  BY <1>1 DEF Active, StatusSent
<1>4. ~InCommand' /\ ~Active'
  BY <1>2, <1>3 DEF InCommand, Active
<1>5. Together' /\ CdbReceived' /\ DataReceived' /\ DataSent'
  BY <1>4 DEF Together, CdbReceived, DataReceived, DataSent
<1>6. StatusSent'
  BY <1>2, <1>3, <1>4 DEF StatusSent
<1> QED
  BY <1>5, <1>6, WorkKeeps DEF HandshakeInv, Places, Transfers

LEMMA AloneTransferKeeps ==
    ASSUME HandshakeInv, target.pc \notin Off, target.phase \in Data, ~Active, target.rest > 0,
           Transfer(target, target.rest), UNCHANGED <<dat, edge>>, TargetOnly
    PROVE  HandshakeInv'
<1>1. Typed /\ TargetPlace
  BY DEF HandshakeInv, Places
<1>2. PICK n \in Nat : /\ n <= target.rest
                       /\ \/ Enter([target EXCEPT !.rest = target.rest - n], command.op, n)
                          \/ Status(target, CheckCondition)
  <2>1. CASE target.rest < command.chunk
    <3>1. Enter([target EXCEPT !.rest = target.rest - target.rest], command.op, target.rest)
             \/ Status(target, CheckCondition)
      BY <2>1 DEF Transfer
    <3>2. target.rest <= target.rest /\ target.rest \in Nat
      BY PlacesTyped
    <3> QED
      BY <3>1, <3>2
  <2>2. CASE ~(target.rest < command.chunk)
    <3>1. Enter([target EXCEPT !.rest = target.rest - command.chunk], command.op, command.chunk)
             \/ Status(target, CheckCondition)
      BY <2>2 DEF Transfer
    <3>2. command.chunk <= target.rest /\ command.chunk \in Nat
      BY <2>2, PlacesTyped
    <3> QED
      BY <3>1, <3>2
  <2> QED
    BY <2>1, <2>2
<1>3. ~(Rank(target.phase) > 3)
  BY Ranks
<1>4. CASE Status(target, CheckCondition)
  <2>1. CheckCondition \in Int /\ target.phase \in {"COMMAND", "DATA_IN", "DATA_OUT"} /\ CheckCondition # Good
    BY DEF CheckCondition, Good, Data
  <2> QED
    BY <1>4, <2>1, StatusKeeps
<1>5. CASE Enter([target EXCEPT !.rest = target.rest - n], command.op, n)
  <2>1. target.rest - n \in Nat
    BY <1>2, PlacesTyped
  <2>2. [target EXCEPT !.rest = target.rest - n] \in TargetStates
    BY <1>1, <2>1 DEF Typed, TargetStates
  <2>3. command.op \in Phases /\ command.op \notin {"COMMAND", "MSG_OUT", "SELECTION"}
    BY PlacesTyped DEF Phases
  <2>4. TargetWorks /\ target'.pc = "process" /\ target'.phase = command.op /\ target'.count = 0 /\ target'.length = n
    BY <1>5, <2>2, <2>3, EnterWorks
  <2>5. target'.count <= target'.length
    BY <2>4
  <2>6. TargetPlace'
    BY <2>3, <2>4, <2>5 DEF TargetPlace, Off
  <2> QED
    BY <1>3, <2>4, <2>6, AloneKeeps
<1> QED
  BY <1>2, <1>4, <1>5

\* The last byte of a chunk
LEMMA NextChunkKeeps ==
    ASSUME HandshakeInv, target.pc = "process", target.count = target.length, target.phase \in Data,
           IF target.rest > 0 THEN Transfer(target, target.rest) ELSE Status(target, Good),
           UNCHANGED <<dat, edge>>, TargetOnly
    PROVE  HandshakeInv'
<1>1. Typed /\ TargetPlace /\ Together /\ CdbReceived /\ DataReceived /\ DataSent /\ SelectionPlace
  BY DEF HandshakeInv, Places, Transfers
<1>2. target.pc \notin Off /\ target.phase \in {"COMMAND", "DATA_IN", "DATA_OUT"} /\ Rank(target.phase) = 3
  BY Ranks DEF Off, Data
<1>3. Active => target.phase = command.op
  BY <1>1 DEF Together
<1>4. Counted = command.length - target.rest
  BY PlacesTyped DEF Counted
<1>5. Active /\ "COMMAND" \notin history.broken => target.cdb = Cdb
  BY <1>1, <1>2 DEF CdbReceived
<1>6. Active /\ command.op = "DATA_OUT" /\ command.size >= command.length /\ ~Doomed =>
        /\ target.data = Bytes(command.length - target.rest)
        /\ Len(target.data) = Moved("DATA_OUT", command.size)
  <2> SUFFICES ASSUME Active, command.op = "DATA_OUT", command.size >= command.length, ~Doomed
               PROVE  /\ target.data = Bytes(command.length - target.rest)
                      /\ Len(target.data) = Moved("DATA_OUT", command.size)
    OBVIOUS
  <2>1. target.data = Bytes(Counted + 0) /\ Len(target.data) = Moved("DATA_OUT", command.size) + 0
    BY <1>1, <1>3 DEF DataReceived, InStep
  <2>2. Moved("DATA_OUT", command.size) \in Int /\ command.length - target.rest \in Int
    BY PlacesTyped DEF Moved
  <2> QED
    BY <1>4, <2>1, <2>2
<1>7. Active /\ command.op = "DATA_IN" /\ "DATA_IN" \notin history.broken =>
        /\ Filled(Buffered) /\ command.length - target.rest = Buffered
        /\ initiator.phase = "DATA_IN" =>
             initiator.size = IF initiator.pc \in HandshakeSteps THEN command.size ELSE 0
  <2>1. InSend(Counted, Buffered) => Counted = Buffered
    BY DEF InSend
  <2> QED
    BY <1>1, <1>3, <1>4, <2>1 DEF DataSent
<1>8. CASE target.rest > 0 /\ Active
  <2>1. Transfer(target, target.rest)
    BY <1>8
  <2>2. target.rest \in Nat /\ target.rest <= command.length
    BY <1>1, <1>8, PlacesTyped DEF Together
  <2>3. command.op \in Data /\ target.phase \in {"COMMAND", command.op}
    BY <1>3, <1>8
  <2>4. Active /\ command.op = "DATA_OUT" => initiator.pc \notin {"end", "release"}
    BY <1>3, NoAckWhileReceiving DEF Receiving
  <2> QED
    BY <1>2, <1>5, <1>6, <1>7, <2>1, <2>2, <2>3, <2>4, TransferKeeps
<1>9. CASE target.rest = 0
  <2>1. Status(target, Good) /\ Good \in Int
    BY <1>9 DEF Good
  <2>2. command.length - target.rest = command.length
    BY <1>9, PlacesTyped
  <2>3. Active /\ command.op = "DATA_IN" /\ "DATA_IN" \notin history.broken => Filled(command.length)
    BY <1>7, <2>2
  <2>4. Active /\ command.op = "DATA_OUT" /\ command.size >= command.length /\ ~Doomed
        => target.data = Bytes(command.length)
    BY <1>6, <2>2
  <2> QED
    BY <1>2, <1>5, <2>1, <2>3, <2>4, StatusKeeps
<1>10. CASE target.rest > 0 /\ ~Active
  BY <1>2, <1>10, AloneTransferKeeps
<1> QED
  BY <1>8, <1>9, <1>10, PlacesTyped

\* Process() with a handshake that is complete
LEMMA NextPhaseKeeps ==
    ASSUME HandshakeInv, NextPhase
    PROVE  HandshakeInv'
<1>1. Typed /\ TargetPlace /\ Together /\ CdbReceived /\ DataReceived /\ DataSent
  BY DEF HandshakeInv, Places, Transfers
<1>2. target.pc = "process" /\ target.count = target.length /\ UNCHANGED <<dat, edge>> /\ TargetOnly
  BY DEF NextPhase
<1>3. target.pc \notin Off /\ target.phase \in {"MSG_OUT", "DATA_OUT", "DATA_IN", "STATUS", "MSG_IN"}
  BY <1>1, <1>2 DEF TargetPlace, Off, Phases
<1>4. CASE target.phase = "MSG_OUT"
  <2>1. Handshake("MSG_OUT", 1, "process") \/ Command
    BY <1>4 DEF NextPhase
  <2>2. Active => initiator.pc \notin {"end", "release"}
    BY <1>2, <1>4, NoAckWhileReceiving DEF Receiving
  <2>3. initiator.pc # "busy"
    BY <1>3 DEF HandshakeInv, Places, SelectionPlace
  <2> QED
    BY <1>2, <1>4, <2>1, <2>2, <2>3, CommandPhaseKeeps
<1>5. CASE target.phase \in Data
  <2>1. IF target.rest > 0 THEN Transfer(target, target.rest) ELSE Status(target, Good)
    BY <1>5 DEF NextPhase, Data
  <2> QED
    BY <1>2, <1>5, <2>1, NextChunkKeeps
<1>6. CASE target.phase = "STATUS"
  <2>1. Enter(target, "MSG_IN", 1)
    BY <1>6 DEF NextPhase
  <2>2. target \in TargetStates /\ "MSG_IN" \in Phases /\ 1 \in Nat
    BY <1>1 DEF Typed, Phases
  <2>3. /\ TargetWorks /\ target'.pc = "process" /\ target'.phase = "MSG_IN" /\ target'.count = 0 /\ target'.length = 1
        /\ target'.cdb = target.cdb /\ target'.data = target.data /\ target'.status = target.status
    BY <1>2, <1>3, <2>1, <2>2, EnterWorks
  <2>4. /\ initiator' = initiator /\ command' = command /\ history'.broken = history.broken /\ dat' = dat
    BY <1>2, <2>3 DEF TargetWorks, TargetFrame
  <2>5. Active' = Active /\ InCommand' = InCommand /\ Doomed' = Doomed
    BY <1>2, <2>3, <2>4 DEF Active, InCommand, Doomed
  <2>6. TargetPlace'
    <3>1. target'.count <= target'.length
      BY <2>3
    <3> QED
      BY <2>3, <3>1 DEF TargetPlace, Off, Phases, Receiving
  <2>7. Rank(target.phase) = 4 /\ Rank(target'.phase) = 5
    BY <1>6, <2>3 DEF Rank, Data
  <2>8. CdbReceived'
    BY <1>1, <2>3, <2>4, <2>5, <2>7 DEF CdbReceived, Driving
  <2>9. DataReceived'
    BY <1>1, <2>3, <2>4, <2>5, <2>7 DEF DataReceived, Driving
  <2>10. DataSent'
    <3>1. Filled(command.length)' = Filled(command.length)
      BY <2>4 DEF Filled
    <3> QED
      BY <1>1, <2>3, <2>4, <2>5, <2>7, <3>1 DEF DataSent
  <2>11. target'.phase \notin Data /\ target'.phase \notin Receiving
    BY <2>3 DEF Data, Receiving
  <2> QED
    BY <2>3, <2>6, <2>7, <2>8, <2>9, <2>10, <2>11, NewPhaseKeeps
<1>7. CASE target.phase = "MSG_IN"
  <2>1. BusFree({})
    BY <1>7 DEF NextPhase
  <2>2. {} \in SUBSET AllSignals /\ Change("target", {}, TargetSignals)
    BY <2>1 DEF BusFree
  <2>3. TargetFrame
    BY <1>1, <1>2, <2>2, FrameOfChange
  <2>4. {} \in SUBSET {"RST"} /\ target.pc # "free"
    BY <1>2
  <2> QED
    BY <1>2, <2>1, <2>3, <2>4, BusFreeKeeps
<1> QED
  BY <1>3, <1>4, <1>5, <1>6, <1>7 DEF Data

LEMMA ProcessResetKeeps ==
    ASSUME HandshakeInv, ProcessReset
    PROVE  HandshakeInv'
<1>1. target.pc = "process" /\ TargetReset /\ UNCHANGED <<dat, edge>> /\ TargetOnly
  BY DEF ProcessReset
<1>2. edge' \in BOOLEAN /\ (edge' => edge)
  BY <1>1 DEF HandshakeInv, Typed
<1> QED
  BY <1>1, <1>2, ResetKeeps

LEMMA TargetKeeps ==
    ASSUME HandshakeInv, TargetNext
    PROVE  HandshakeInv'
<1>1. StartHandshake => HandshakeInv'
  BY StartReceivingKeeps, StartSendingKeeps
<1> QED
  BY <1>1, TargetSelectedKeeps, SelectionTimeoutKeeps, EndSelectionKeeps, NextPhaseKeeps, ProcessResetKeeps,
     RequestKeeps, ReceiveKeeps, EndReceiveEnds, PutKeeps, OfferKeeps, SentKeeps, EndSendKeeps, TargetTimeoutKeeps
     DEF TargetNext

-----------------------------------------------------------------------------
(* Steps of the initiator                                                  *)

\* What a step of the initiator leaves alone
InitiatorFrame ==
    /\ target' = target /\ initiator' \in InitiatorStates /\ edge' \in BOOLEAN
    /\ history' \in Histories /\ history.broken \subseteq history'.broken
    /\ lines' \in [Outputs -> SUBSET AllSignals] /\ lines'["target"] = lines["target"]
    /\ dat' \in [Outputs -> Int] /\ dat'["target"] = dat["target"]
    /\ lines'["initiator"] \ {"ATN"} = Asserted(initiator'.pc)

LEMMA FrameKeepsTarget ==
    ASSUME HandshakeInv, InitiatorFrame, command' \in Commands
    PROVE  Typed' /\ Wires' /\ TargetPlace'
<1>1. Typed /\ TargetLines /\ TargetPlace
  BY DEF HandshakeInv, Wires, Places
<1>2. target' = target /\ lines'["target"] = lines["target"]
  BY DEF InitiatorFrame
<1>3. Typed'
  BY <1>1 DEF Typed, InitiatorFrame
<1>4. TargetLines'
  BY <1>1, <1>2 DEF TargetLines
<1>5. InitiatorLines'
  BY DEF InitiatorFrame, InitiatorLines
<1>6. TargetPlace'
  BY <1>1, <1>2 DEF TargetPlace
<1> QED
  BY <1>3, <1>4, <1>5, <1>6 DEF Wires

\* The signals that a step of the initiator changes
LEMMA InitiatorChange ==
    ASSUME Typed, NEW on \in SUBSET AllSignals, NEW off, Change("initiator", on, off)
    PROVE  /\ lines' \in [Outputs -> SUBSET AllSignals] /\ lines'["target"] = lines["target"]
           /\ lines'["initiator"] = (lines["initiator"] \ off) \cup on
<1>1. "target" \in Outputs /\ "initiator" \in Outputs /\ "initiator" # "target"
  BY DEF Outputs
<1> QED
  BY <1>1, ChangedWires

LEMMA InitiatorResets ==
    ASSUME Typed, ResetOutputs("initiator")
    PROVE  /\ lines' \in [Outputs -> SUBSET AllSignals] /\ lines'["target"] = lines["target"]
           /\ lines'["initiator"] = {}
  BY DEF Typed, ResetOutputs, Outputs

\* A step outside of a command
LEMMA OutsideKeeps ==
    ASSUME HandshakeInv, InitiatorFrame, command' \in Commands, ~InCommand', InitiatorPlace', SelectionPlace',
           history'.result = Good =>
               /\ initiator'.pc = "idle" /\ ~edge' /\ Len(initiator'.buffer) = command'.size
               /\ target.pc # "free" => Rank(target.phase) > 3
               /\ Delivered'
    PROVE  HandshakeInv'
<1>1. StatusSent
  BY DEF HandshakeInv, Transfers
<1>2. target' = target /\ dat'["target"] = dat["target"]
  BY DEF InitiatorFrame
<1>3. ~Active'
  BY DEF Active
<1>4. Together' /\ CdbReceived' /\ DataReceived' /\ DataSent'
  BY <1>3 DEF Together, CdbReceived, DataReceived, DataSent
<1>5. StatusSent'
  BY <1>1, <1>2 DEF StatusSent
<1> QED
  BY <1>4, <1>5, FrameKeepsTarget DEF HandshakeInv, Places, Transfers

\* The initiator between two commands
LEMMA ReadyRecord ==
    ASSUME NEW b \in Seq(Int), NEW r,
           r = [pc |-> "idle", phase |-> "BUS_FREE", seen |-> "BUS_FREE", count |-> 0, offset |-> 0, cdb |-> <<>>,
                size |-> 0, buffer |-> b, status |-> 255]
    PROVE  r \in InitiatorStates /\ r.pc = "idle" /\ r.buffer = b
<1>1. <<>> \in Seq(Int)
  BY EmptySeq
<1>2. "idle" \in InitiatorSteps /\ "BUS_FREE" \in Phases \cup {"BUS_FREE"} /\ "BUS_FREE" \in TargetPhases \cup {TimedOut}
  BY DEF InitiatorSteps, TargetPhases
<1>3. r \in InitiatorStates
  BY <1>1, <1>2 DEF InitiatorStates
<1>4. r.pc = "idle" /\ r.buffer = b
  OBVIOUS
<1> QED
  BY <1>3, <1>4

LEMMA ReadyTyped ==
    ASSUME NEW b \in Seq(Int), NEW r, r = [Idle EXCEPT !.buffer = b]
    PROVE  r \in InitiatorStates /\ r.pc = "idle" /\ r.buffer = b
<1>1. r = [pc |-> "idle", phase |-> "BUS_FREE", seen |-> "BUS_FREE", count |-> 0, offset |-> 0, cdb |-> <<>>,
           size |-> 0, buffer |-> b, status |-> 255]
  BY DEF Idle, NoStatus
<1> QED
  BY <1>1, ReadyRecord

\* The end of a command
LEMMA CommandOver ==
    ASSUME HandshakeInv, UNCHANGED <<dat, edge, command, target>>,
           initiator'.pc = "idle", initiator' \in InitiatorStates,
           lines' \in [Outputs -> SUBSET AllSignals], lines'["target"] = lines["target"],
           lines'["initiator"] \ {"ATN"} = {},
           history' \in Histories, history'.broken = history.broken,
           history'.result = Good => history'.result = initiator.status /\ InCommand /\ initiator'.buffer = initiator.buffer
    PROVE  HandshakeInv'
<1>1. Typed /\ InitiatorPlace /\ SelectionPlace /\ Together /\ StatusSent
  BY DEF HandshakeInv, Places, Transfers
<1>2. InitiatorFrame
  BY <1>1 DEF InitiatorFrame, Typed, Asserted
<1>3. ~InCommand'
  BY DEF InCommand
<1>4. InitiatorPlace'
  BY <1>3 DEF InitiatorPlace, Selecting
<1>5. SelectionPlace'
  BY <1>1, <1>3 DEF SelectionPlace
<1>6. ASSUME history'.result = Good
      PROVE  /\ initiator'.pc = "idle" /\ ~edge' /\ Len(initiator'.buffer) = command'.size
             /\ target.pc # "free" => Rank(target.phase) > 3
             /\ Delivered'
  <2>1. initiator.status = Good /\ InCommand /\ initiator'.buffer = initiator.buffer
    BY <1>6
  <2>2. Rank(initiator.phase) > 3 /\ Delivered
    BY <1>1, <2>1 DEF StatusSent
  <2>3. ~edge' /\ Len(initiator'.buffer) = command'.size
    BY <1>1, <2>1 DEF SelectionPlace, InitiatorPlace
  <2>4. target.pc # "free" => Rank(target.phase) > 3
    <3>1. target.pc # "free" => Rank(initiator.phase) <= Rank(target.phase)
      BY <1>1, <2>1 DEF Together, Active
    <3>2. Rank(initiator.phase) \in 0 .. 5 /\ Rank(target.phase) \in 0 .. 5
      BY Ranks
    <3> QED
      BY <2>2, <3>1, <3>2
  <2>5. Delivered'
    BY <2>1, <2>2 DEF Delivered, Filled
  <2> QED
    BY <2>1, <2>3, <2>4, <2>5
<1>7. command' \in Commands
  BY <1>1 DEF Typed
<1> QED
  BY <1>2, <1>3, <1>4, <1>5, <1>6, <1>7, OutsideKeeps

\* The history of the end of a command
LEMMA HistoryOfEnd ==
    ASSUME Typed, NEW late \in BOOLEAN, NEW lost \in Int, NEW result \in Int,
           history' = [history EXCEPT !.result = result, !.lost = lost, !.late = late]
    PROVE  history' \in Histories /\ history'.broken = history.broken /\ history'.result = result
  BY DEF Typed, Histories

LEMMA HistoryOfNoEnd ==
    ASSUME Typed, NEW late \in BOOLEAN, NEW lost \in Int, history' = [history EXCEPT !.lost = lost, !.late = late]
    PROVE  history' \in Histories /\ history'.broken = history.broken /\ history'.result = history.result
  BY DEF Typed, Histories

LEMMA LostCounts ==
    ASSUME Typed
    PROVE  Lost \in Int
  BY DEF Typed, Histories, Lost

LEMMA EndCommandKeeps ==
    ASSUME HandshakeInv, EndCommand
    PROVE  HandshakeInv'
<1>1. Typed /\ InitiatorLines
  BY DEF HandshakeInv, Wires
<1>2. /\ initiator.pc = "return" /\ initiator' = [Idle EXCEPT !.buffer = initiator.buffer]
      /\ history' = [history EXCEPT !.result = initiator.status, !.lost = Lost]
      /\ UNCHANGED <<lines, dat, edge, command, target>>
  BY DEF EndCommand, Return
<1>3. initiator' \in InitiatorStates /\ initiator'.pc = "idle" /\ initiator'.buffer = initiator.buffer
  <2>1. initiator.buffer \in Seq(Int)
    BY <1>1 DEF Typed, InitiatorStates
  <2> QED
    BY <1>2, <2>1, ReadyTyped
<1>4. history' \in Histories /\ history'.broken = history.broken /\ history'.result = initiator.status
  BY <1>1, <1>2, LostCounts DEF Typed, Histories, InitiatorStates
<1>5. lines["initiator"] \ {"ATN"} = {}
  BY <1>1, <1>2 DEF InitiatorLines, Asserted
<1>6. InCommand
  BY <1>2 DEF InCommand, Selecting
<1>7. lines \in [Outputs -> SUBSET AllSignals]
  BY <1>1 DEF Typed
<1> QED
  BY <1>2, <1>3, <1>4, <1>5, <1>6, <1>7, CommandOver

LEMMA CommandTimeoutKeeps ==
    ASSUME HandshakeInv, CommandTimeout
    PROVE  HandshakeInv'
<1>1. Typed /\ InitiatorLines
  BY DEF HandshakeInv, Wires
<1>2. /\ initiator.pc = "loop" /\ initiator' = [Idle EXCEPT !.buffer = initiator.buffer]
      /\ UNCHANGED <<lines, dat, edge, command, target>>
  BY DEF CommandTimeout
<1>3. initiator' \in InitiatorStates /\ initiator'.pc = "idle" /\ initiator'.buffer = initiator.buffer
  <2>1. initiator.buffer \in Seq(Int)
    BY <1>1 DEF Typed, InitiatorStates
  <2> QED
    BY <1>2, <2>1, ReadyTyped
<1>4. history' \in Histories /\ history'.broken = history.broken /\ history'.result = initiator.status
  <2>1. history.late \in BOOLEAN /\ initiator.status \in Int
    BY <1>1 DEF Typed, Histories, InitiatorStates
  <2>2. CASE history.late \/ TargetWaitsFor
    <3>1. history' = [history EXCEPT !.result = initiator.status, !.lost = 0, !.late = TRUE]
      BY <2>2 DEF CommandTimeout
    <3>2. PICK lost \in Int : history' = [history EXCEPT !.result = initiator.status, !.lost = lost, !.late = TRUE]
      <4>1. 0 \in Int
        OBVIOUS
      <4> QED
        BY <3>1, <4>1, Zenon
    <3>3. PICK late \in BOOLEAN :
             history' = [history EXCEPT !.result = initiator.status, !.lost = lost, !.late = late]
      BY <3>2, Zenon
    <3> QED
      BY <1>1, <2>1, <3>3, HistoryOfEnd
  <2>3. CASE ~(history.late \/ TargetWaitsFor)
    <3>1. history' = [history EXCEPT !.result = initiator.status, !.lost = Lost, !.late = FALSE]
      BY <2>3 DEF CommandTimeout
    <3> QED
      BY <1>1, <2>1, <3>1, LostCounts, HistoryOfEnd
  <2> QED
    BY <2>2, <2>3
<1>5. lines["initiator"] \ {"ATN"} = {}
  BY <1>1, <1>2 DEF InitiatorLines, Asserted
<1>6. InCommand
  BY <1>2 DEF InCommand, Selecting
<1>7. lines \in [Outputs -> SUBSET AllSignals]
  BY <1>1 DEF Typed
<1> QED
  BY <1>2, <1>3, <1>4, <1>5, <1>6, <1>7, CommandOver

LEMMA NotSelectedKeeps ==
    ASSUME HandshakeInv, NotSelected
    PROVE  HandshakeInv'
<1>1. Typed /\ StatusSent
  BY DEF HandshakeInv, Transfers
<1>2. /\ initiator.pc \in {"arbitration", "busy"} /\ ResetOutputs("initiator") /\ initiator' = Idle
      /\ UNCHANGED <<dat, edge, command, target>>
  BY DEF NotSelected
<1>3. initiator' \in InitiatorStates /\ initiator'.pc = "idle"
  <2>1. <<>> \in Seq(Int) /\ NoStatus \in Int
    BY EmptySeq DEF NoStatus
  <2> QED
    BY <1>2, <2>1 DEF Idle, InitiatorStates, InitiatorSteps, TargetPhases
<1>4. history' \in Histories /\ history'.broken = history.broken /\ history'.result = history.result
  <2>1. history.late \in BOOLEAN
    BY <1>1 DEF Typed, Histories
  <2>2. CASE history.late \/ TargetWaitsFor
    <3>1. history' = [history EXCEPT !.lost = 0, !.late = TRUE]
      BY <2>2 DEF NotSelected
    <3>2. PICK lost \in Int : history' = [history EXCEPT !.lost = lost, !.late = TRUE]
      <4>1. 0 \in Int
        OBVIOUS
      <4> QED
        BY <3>1, <4>1, Zenon
    <3>3. PICK late \in BOOLEAN : history' = [history EXCEPT !.lost = lost, !.late = late]
      BY <3>2, Zenon
    <3> QED
      BY <1>1, <3>3, HistoryOfNoEnd
  <2>3. CASE ~(history.late \/ TargetWaitsFor)
    <3>1. history' = [history EXCEPT !.lost = Lost, !.late = FALSE]
      BY <2>3 DEF NotSelected
    <3> QED
      BY <1>1, <3>1, LostCounts, HistoryOfNoEnd
  <2> QED
    BY <2>2, <2>3
<1>5. history.result # Good
  BY <1>1, <1>2 DEF StatusSent
<1>6. /\ lines' \in [Outputs -> SUBSET AllSignals] /\ lines'["target"] = lines["target"]
      /\ lines'["initiator"] = {}
  BY <1>1, <1>2, InitiatorResets
<1> QED
  BY <1>2, <1>3, <1>4, <1>5, <1>6, CommandOver

LEMMA EndOfPulseKeeps ==
    ASSUME HandshakeInv, EndOfPulse
    PROVE  HandshakeInv'
<1>1. Typed /\ StatusSent
  BY DEF HandshakeInv, Transfers
<1>2. /\ initiator.pc = "pulse" /\ ResetOutputs("initiator") /\ initiator' = [Idle EXCEPT !.buffer = initiator.buffer]
      /\ history' = [history EXCEPT !.lost = Lost]
      /\ UNCHANGED <<dat, edge, command, target>>
  BY DEF EndOfPulse
<1>3. initiator' \in InitiatorStates /\ initiator'.pc = "idle"
  <2>1. initiator.buffer \in Seq(Int)
    BY <1>1 DEF Typed, InitiatorStates
  <2> QED
    BY <1>2, <2>1, ReadyTyped
<1>4. history' \in Histories /\ history'.broken = history.broken /\ history'.result = history.result
  BY <1>1, <1>2, LostCounts DEF Typed, Histories
<1>5. history.result # Good
  BY <1>1, <1>2 DEF StatusSent
<1>6. /\ lines' \in [Outputs -> SUBSET AllSignals] /\ lines'["target"] = lines["target"]
      /\ lines'["initiator"] = {}
  BY <1>1, <1>2, InitiatorResets
<1> QED
  BY <1>2, <1>3, <1>4, <1>5, <1>6, CommandOver

-----------------------------------------------------------------------------
(* The selection                                                           *)

\* The initiator before the first phase of a command
LEMMA SelectingTyped ==
    ASSUME Typed, initiator.pc \in Selecting, InitiatorPlace, NEW pc \in InitiatorSteps,
           initiator' = [initiator EXCEPT !.pc = pc]
    PROVE  initiator' \in InitiatorStates /\ initiator'.pc = pc
  BY DEF Typed, InitiatorStates

LEMMA StillSelecting ==
    ASSUME HandshakeInv, initiator.pc \in Selecting, NEW pc \in Selecting,
           initiator' = [initiator EXCEPT !.pc = pc], UNCHANGED <<command, target, history, dat>>, edge' \in BOOLEAN,
           lines' \in [Outputs -> SUBSET AllSignals], lines'["target"] = lines["target"],
           lines'["initiator"] \ {"ATN"} = Asserted(pc), SelectionPlace'
    PROVE  HandshakeInv'
<1>1. Typed /\ InitiatorPlace /\ StatusSent
  BY DEF HandshakeInv, Places, Transfers
<1>2. pc \in InitiatorSteps
  BY DEF Selecting, InitiatorSteps
<1>3. initiator' \in InitiatorStates /\ initiator'.pc = pc
  BY <1>1, <1>2, SelectingTyped
<1>4. ~InCommand'
  BY <1>3 DEF InCommand
<1>5. InitiatorFrame
  BY <1>1, <1>3 DEF InitiatorFrame, Typed
<1>6. InitiatorPlace'
  <2>1. /\ initiator = [Idle EXCEPT !.pc = initiator.pc, !.cdb = Cdb, !.size = command.size,
                                    !.buffer = [i \in 1 .. command.size |-> 0]]
        /\ history.broken = {}
    BY <1>1 DEF InitiatorPlace
  <2>2. initiator' = [Idle EXCEPT !.pc = pc, !.cdb = Cdb, !.size = command.size,
                                  !.buffer = [i \in 1 .. command.size |-> 0]]
    BY <2>1 DEF Idle
  <2>3. /\ initiator' = [Idle EXCEPT !.pc = initiator'.pc, !.cdb = Cdb, !.size = command'.size,
                                     !.buffer = [i \in 1 .. command'.size |-> 0]]
        /\ history'.broken = {}
    BY <1>3, <2>1, <2>2
  <2> QED
    BY <1>4, <2>3 DEF InitiatorPlace, Cdb, Idle
<1>7. history.result # Good
  BY <1>1 DEF StatusSent, Selecting
<1>8. command' \in Commands
  BY <1>1 DEF Typed
<1> QED
  BY <1>4, <1>5, <1>6, <1>7, <1>8, OutsideKeeps

LEMMA ArbitrateKeeps ==
    ASSUME HandshakeInv, Arbitrate
    PROVE  HandshakeInv'
<1>1. Typed /\ SelectionPlace /\ InitiatorLines
  BY DEF HandshakeInv, Places, Wires
<1>2. /\ initiator.pc = "arbitration" /\ initiator' = [initiator EXCEPT !.pc = "selection"]
      /\ Change("initiator", {"BSY"}, {}) /\ UNCHANGED <<dat, edge>> /\ UNCHANGED <<command, target, history>>
      /\ "BSY" \notin Level
  BY DEF Arbitrate, InitiatorOnly, InitiatorWaitsFor
<1>3. target.pc = "free"
  BY <1>2, Signals
<1>4. /\ lines' \in [Outputs -> SUBSET AllSignals] /\ lines'["target"] = lines["target"]
      /\ lines'["initiator"] = (lines["initiator"] \ {}) \cup {"BSY"}
  <2>1. {"BSY"} \in SUBSET AllSignals
    BY DEF AllSignals
  <2> QED
    BY <1>1, <1>2, <2>1, InitiatorChange
<1>5. lines'["initiator"] \ {"ATN"} = Asserted("selection")
  BY <1>1, <1>2, <1>4 DEF InitiatorLines, Asserted
<1>6. initiator'.pc = "selection"
  BY <1>1, <1>2 DEF Typed, InitiatorStates
<1>7. SelectionPlace'
  BY <1>1, <1>2, <1>3, <1>6 DEF SelectionPlace, InCommand, Selecting
<1>8. edge' \in BOOLEAN /\ "arbitration" \in Selecting /\ "selection" \in Selecting
  BY <1>1, <1>2 DEF Typed, Selecting
<1> QED
  BY <1>2, <1>4, <1>5, <1>7, <1>8, StillSelecting

LEMMA AssertSelKeeps ==
    ASSUME HandshakeInv, AssertSel
    PROVE  HandshakeInv'
<1>1. Typed /\ SelectionPlace /\ InitiatorLines
  BY DEF HandshakeInv, Places, Wires
<1>2. /\ initiator.pc = "selection" /\ initiator' = [initiator EXCEPT !.pc = "attention"]
      /\ Change("initiator", {"SEL"}, {}) /\ UNCHANGED dat /\ edge' = TRUE /\ UNCHANGED <<command, target, history>>
  BY DEF AssertSel, InitiatorOnly
<1>3. target.pc = "free"
  BY <1>1, <1>2 DEF SelectionPlace
<1>4. /\ lines' \in [Outputs -> SUBSET AllSignals] /\ lines'["target"] = lines["target"]
      /\ lines'["initiator"] = (lines["initiator"] \ {}) \cup {"SEL"}
  <2>1. {"SEL"} \in SUBSET AllSignals
    BY DEF AllSignals
  <2> QED
    BY <1>1, <1>2, <2>1, InitiatorChange
<1>5. lines'["initiator"] \ {"ATN"} = Asserted("attention")
  BY <1>1, <1>2, <1>4 DEF InitiatorLines, Asserted
<1>6. initiator'.pc = "attention"
  BY <1>1, <1>2 DEF Typed, InitiatorStates
<1>7. SelectionPlace'
  BY <1>1, <1>2, <1>3, <1>6 DEF SelectionPlace, InCommand, Selecting
<1>8. edge' \in BOOLEAN /\ "selection" \in Selecting /\ "attention" \in Selecting
  BY <1>2 DEF Selecting
<1> QED
  BY <1>2, <1>4, <1>5, <1>7, <1>8, StillSelecting

LEMMA SelectKeeps ==
    ASSUME HandshakeInv, Select
    PROVE  HandshakeInv'
<1>1. Typed /\ SelectionPlace /\ InitiatorLines
  BY DEF HandshakeInv, Places, Wires
<1>2. /\ initiator.pc = "attention" /\ initiator' = [initiator EXCEPT !.pc = "busy"]
      /\ Change("initiator", {"ATN"}, TargetSignals) /\ UNCHANGED <<dat, edge>> /\ UNCHANGED <<command, target, history>>
  BY DEF Select, InitiatorOnly
<1>3. target.pc = "free"
  BY <1>1, <1>2 DEF SelectionPlace
<1>4. /\ lines' \in [Outputs -> SUBSET AllSignals] /\ lines'["target"] = lines["target"]
      /\ lines'["initiator"] = (lines["initiator"] \ TargetSignals) \cup {"ATN"}
  <2>1. {"ATN"} \in SUBSET AllSignals
    BY DEF AllSignals
  <2> QED
    BY <1>1, <1>2, <2>1, InitiatorChange
<1>5. lines'["initiator"] \ {"ATN"} = Asserted("busy")
  BY <1>1, <1>2, <1>4 DEF InitiatorLines, Asserted, TargetSignals
<1>6. initiator'.pc = "busy"
  BY <1>1, <1>2 DEF Typed, InitiatorStates
<1>7. SelectionPlace'
  BY <1>1, <1>2, <1>3, <1>6 DEF SelectionPlace, InCommand, Selecting, Off
<1>8. edge' \in BOOLEAN /\ "attention" \in Selecting /\ "busy" \in Selecting
  BY <1>1, <1>2 DEF Selecting, Typed
<1> QED
  BY <1>2, <1>4, <1>5, <1>7, <1>8, StillSelecting

\* The target has asserted BSY: both sides now work on the command.
LEMMA SelectedKeeps ==
    ASSUME HandshakeInv, Selected
    PROVE  HandshakeInv'
<1>1. Typed /\ SelectionPlace /\ InitiatorLines /\ InitiatorPlace /\ StatusSent /\ TargetPlace
  BY DEF HandshakeInv, Places, Wires, Transfers
<1>2. /\ initiator.pc = "busy" /\ initiator' = [initiator EXCEPT !.pc = "loop"]
      /\ Change("initiator", {}, {"SEL"}) /\ UNCHANGED <<dat, edge>> /\ UNCHANGED <<command, target, history>>
      /\ "BSY" \in Level
  BY DEF Selected, InitiatorOnly, InitiatorWaitsFor
<1>3. target.pc = "selection" /\ ~edge /\ target.phase = "SELECTION"
  <2>1. target.pc # "free"
    BY <1>2, Signals
  <2> QED
    BY <1>1, <1>2, <2>1 DEF SelectionPlace, Off, TargetPlace
<1>4. /\ lines' \in [Outputs -> SUBSET AllSignals] /\ lines'["target"] = lines["target"]
      /\ lines'["initiator"] = (lines["initiator"] \ {"SEL"}) \cup {}
  <2>1. {} \in SUBSET AllSignals
    OBVIOUS
  <2> QED
    BY <1>1, <1>2, <2>1, InitiatorChange
<1>5. lines'["initiator"] \ {"ATN"} = Asserted("loop")
  BY <1>1, <1>2, <1>4 DEF InitiatorLines, Asserted
<1>6. /\ initiator'.pc = "loop" /\ initiator'.phase = "BUS_FREE" /\ initiator'.offset = 0 /\ initiator'.cdb = Cdb
      /\ initiator'.size = command.size /\ initiator'.buffer = [i \in 1 .. command.size |-> 0]
      /\ initiator'.status = NoStatus
  <2>1. initiator = [Idle EXCEPT !.pc = initiator.pc, !.cdb = Cdb, !.size = command.size,
                                 !.buffer = [i \in 1 .. command.size |-> 0]]
    BY <1>1, <1>2 DEF InitiatorPlace, Selecting
  <2>2. initiator' = [Idle EXCEPT !.pc = "loop", !.cdb = Cdb, !.size = command.size,
                                  !.buffer = [i \in 1 .. command.size |-> 0]]
    BY <1>2, <2>1 DEF Idle
  <2> QED
    BY <2>2 DEF Idle
<1>7. initiator' \in InitiatorStates
  <2>1. "loop" \in InitiatorSteps /\ initiator.pc \in Selecting
    BY <1>2 DEF InitiatorSteps, Selecting
  <2> QED
    BY <1>1, <1>2, <2>1, SelectingTyped
<1>8. InitiatorFrame
  BY <1>1, <1>2, <1>4, <1>5, <1>6, <1>7 DEF InitiatorFrame, Typed
<1>9. target' = target /\ command' = command /\ history' = history /\ edge' = edge /\ dat' = dat
  BY <1>2
<1>10. InitiatorPlace'
  <2>1. Len(Cdb) = CdbLength
    BY CdbBytes, BytesLength, HandshakeAssumption
  <2>2. Len([i \in 1 .. command.size |-> 0]) = command.size
    BY PlacesTyped, LenProperties
  <2> QED
    BY <1>6, <1>9, <2>1, <2>2 DEF InitiatorPlace, Selecting, HandshakeSteps, InCommand, Data
<1>11. SelectionPlace'
  BY <1>1, <1>3, <1>6, <1>9 DEF SelectionPlace, InCommand, Off
<1>12. Together'
  BY <1>3, <1>6, <1>9 DEF Together, Rank, Data, Receiving
<1>13. CdbReceived'
  BY <1>3, <1>6, <1>9 DEF CdbReceived, Rank, Data, HandshakeSteps
<1>14. DataReceived'
  BY <1>3, <1>6, <1>9 DEF DataReceived, Rank, Data
<1>15. DataSent'
  BY <1>3, <1>6, <1>9 DEF DataSent, Rank, Data
<1>16. StatusSent'
  <2>1. history.result # Good
    BY <1>1, <1>2 DEF StatusSent
  <2>2. NoStatus # Good
    BY DEF NoStatus, Good
  <2> QED
    BY <1>3, <1>6, <1>9, <2>1, <2>2 DEF StatusSent
<1>17. command' \in Commands
  BY <1>1, <1>9 DEF Typed
<1> QED
  BY <1>8, <1>10, <1>11, <1>12, <1>13, <1>14, <1>15, <1>16, <1>17, FrameKeepsTarget
  DEF HandshakeInv, Places, Transfers

LEMMA HistoryOfStart ==
    ASSUME Typed, NEW late \in BOOLEAN, NEW free \in BOOLEAN, NEW result \in Int,
           history' = [history EXCEPT !.late = late, !.broken = {}, !.free = free, !.result = result]
    PROVE  history' \in Histories /\ history'.broken = {} /\ history'.result = result
<1>1. history' \in Histories
  BY DEF Typed, Histories
<1>2. history'.broken = {} /\ history'.result = result
  BY DEF Typed, Histories
<1> QED
  BY <1>1, <1>2

LEMMA StartKeeps ==
    ASSUME HandshakeInv, NEW c \in Commands, Start(c)
    PROVE  HandshakeInv'
<1>1. Typed /\ SelectionPlace /\ InitiatorLines
  BY DEF HandshakeInv, Places, Wires
<1>2. /\ initiator.pc = "idle" /\ command' = c
      /\ initiator' = [Idle EXCEPT !.pc = "arbitration", !.cdb = Cdb, !.size = c.size,
                                   !.buffer = [i \in 1 .. c.size |-> 0]]
      /\ history' = [history EXCEPT !.late = FALSE, !.broken = {}, !.free = target.pc = "free", !.result = NoStatus]
      /\ UNCHANGED <<lines, dat, edge, target>>
  BY DEF Start
<1>3. initiator' = [pc |-> "arbitration", phase |-> "BUS_FREE", seen |-> "BUS_FREE", count |-> 0, offset |-> 0,
                    cdb |-> Cdb, size |-> c.size, buffer |-> [i \in 1 .. c.size |-> 0], status |-> 255]
  BY <1>2 DEF Idle, NoStatus
<1>4. Cdb \in Seq(Int) /\ [i \in 1 .. c.size |-> 0] \in Seq(Int) /\ c.size \in Nat
  <2>1. Cdb \in Seq(Int)
    BY CdbBytes, BytesLength, HandshakeAssumption
  <2>2. c.size \in Nat
    BY HandshakeAssumption
  <2> QED
    BY <2>1, <2>2
<1>5. initiator' \in InitiatorStates /\ initiator'.pc = "arbitration"
  <2>1. "arbitration" \in InitiatorSteps /\ "BUS_FREE" \in Phases \cup {"BUS_FREE"}
        /\ "BUS_FREE" \in TargetPhases \cup {TimedOut}
    BY DEF InitiatorSteps, TargetPhases
  <2>2. initiator' \in InitiatorStates
    BY <1>3, <1>4, <2>1 DEF InitiatorStates
  <2>3. initiator'.pc = "arbitration"
    BY <1>3
  <2> QED
    BY <2>2, <2>3
<1>6. history' \in Histories /\ history'.broken = {} /\ history'.result = 255
  <2>1. PICK free \in BOOLEAN :
           history' = [history EXCEPT !.late = FALSE, !.broken = {}, !.free = free, !.result = 255]
    <3>1. CASE target.pc = "free"
      <4>1. history' = [history EXCEPT !.late = FALSE, !.broken = {}, !.free = TRUE, !.result = 255]
        BY <1>2, <3>1 DEF NoStatus
      <4> QED
        BY <4>1, Zenon
    <3>2. CASE target.pc # "free"
      <4>1. history' = [history EXCEPT !.late = FALSE, !.broken = {}, !.free = FALSE, !.result = 255]
        BY <1>2, <3>2 DEF NoStatus
      <4> QED
        BY <4>1, Zenon
    <3> QED
      BY <3>1, <3>2
  <2>2. FALSE \in BOOLEAN /\ free \in BOOLEAN
    OBVIOUS
  <2>3. 255 \in Int
    OBVIOUS
  <2> QED
    BY <1>1, <2>1, <2>2, <2>3, HistoryOfStart, Zenon
<1>7. lines["initiator"] \ {"ATN"} = {}
  BY <1>1, <1>2 DEF InitiatorLines, Asserted
<1>8. lines' \in [Outputs -> SUBSET AllSignals] /\ dat' \in [Outputs -> Int] /\ edge' \in BOOLEAN
  BY <1>1, <1>2 DEF Typed
<1>9. ~InCommand' /\ ~Active'
  BY <1>5 DEF InCommand, Active, Selecting
<1>10. Typed'
  BY <1>1, <1>2, <1>5, <1>6, <1>8 DEF Typed
<1>11. TargetLines' /\ TargetPlace'
  BY <1>2 DEF HandshakeInv, Wires, Places, TargetLines, TargetPlace
<1>12. InitiatorLines'
  BY <1>2, <1>5, <1>7 DEF InitiatorLines, Asserted
<1>13. InitiatorPlace'
  <2>1. initiator' = [Idle EXCEPT !.pc = initiator'.pc, !.cdb = Cdb, !.size = command'.size,
                                  !.buffer = [i \in 1 .. command'.size |-> 0]]
    BY <1>2, <1>5
  <2> QED
    BY <1>6, <1>9, <2>1 DEF InitiatorPlace, Cdb, Idle
<1>14. SelectionPlace'
  BY <1>1, <1>2, <1>5, <1>9 DEF SelectionPlace
<1>15. Together' /\ CdbReceived' /\ DataReceived' /\ DataSent'
  BY <1>9 DEF Together, CdbReceived, DataReceived, DataSent
<1>16. StatusSent'
  <2>1. history'.result # Good
    BY <1>6 DEF Good
  <2>2. target.phase = "STATUS" /\ target.pc \in {"clear", "sent"} => dat["target"] = target.status
    BY DEF HandshakeInv, Transfers, StatusSent
  <2> QED
    BY <1>2, <1>9, <2>1, <2>2 DEF StatusSent
<1> QED
  BY <1>10, <1>11, <1>12, <1>13, <1>14, <1>15, <1>16 DEF HandshakeInv, Wires, Places, Transfers

-----------------------------------------------------------------------------
(* Steps of the initiator within a command                                 *)

HistoryKept ==
    history' \in Histories /\ history.broken \subseteq history'.broken /\ history'.result = history.result

InitiatorWorks ==
    /\ InitiatorFrame /\ HistoryKept /\ command' = command /\ edge' = edge
    /\ InCommand /\ initiator'.pc \notin Selecting \cup {"idle"}

LEMMA InitiatorWorkKeeps ==
    ASSUME HandshakeInv, InitiatorWorks
    PROVE  /\ Typed' /\ Wires' /\ TargetPlace' /\ SelectionPlace'
           /\ InCommand' /\ (Active' <=> Active) /\ (Active <=> target.pc # "free") /\ history.result # Good
<1>1. Typed /\ SelectionPlace /\ StatusSent
  BY DEF HandshakeInv, Places, Transfers
<1>2. target' = target /\ edge' = edge /\ command' \in Commands
  BY <1>1 DEF InitiatorWorks, InitiatorFrame, Typed
<1>3. InCommand' /\ (Active' <=> Active) /\ (Active <=> target.pc # "free")
  BY <1>2 DEF InitiatorWorks, InCommand, Active
<1>4. SelectionPlace'
  BY <1>1, <1>2, <1>3 DEF SelectionPlace, InitiatorWorks, Selecting
<1>5. history.result # Good
  BY <1>1 DEF StatusSent, InitiatorWorks, InCommand
<1>6. InitiatorFrame
  BY DEF InitiatorWorks
<1> QED
  BY <1>2, <1>3, <1>4, <1>5, <1>6, FrameKeepsTarget

LEMMA QuietWorks ==
    ASSUME HandshakeInv, InCommand, initiator' \in InitiatorStates, initiator'.pc \notin Selecting \cup {"idle"},
           UNCHANGED <<lines, dat, edge, command, target>>, HistoryKept,
           Asserted(initiator'.pc) = Asserted(initiator.pc)
    PROVE  InitiatorWorks
<1>1. Typed /\ InitiatorLines
  BY DEF HandshakeInv, Wires
<1>2. InitiatorFrame
  BY <1>1 DEF InitiatorFrame, HistoryKept, Typed, InitiatorLines
<1> QED
  BY <1>2 DEF InitiatorWorks

LEMMA ChangeWorks ==
    ASSUME HandshakeInv, InCommand, initiator' \in InitiatorStates, initiator'.pc \notin Selecting \cup {"idle"},
           NEW on \in SUBSET AllSignals, NEW off, Change("initiator", on, off),
           UNCHANGED <<dat, edge, command, target>>, HistoryKept,
           ((Asserted(initiator.pc) \ off) \cup on) \ {"ATN"} = Asserted(initiator'.pc)
    PROVE  InitiatorWorks
<1>1. Typed /\ InitiatorLines
  BY DEF HandshakeInv, Wires
<1>2. /\ lines' \in [Outputs -> SUBSET AllSignals] /\ lines'["target"] = lines["target"]
      /\ lines'["initiator"] = (lines["initiator"] \ off) \cup on
  BY <1>1, InitiatorChange
<1>3. lines'["initiator"] \ {"ATN"} = (((lines["initiator"] \ {"ATN"}) \ off) \cup on) \ {"ATN"}
  BY <1>2
<1>4. InitiatorFrame
  BY <1>1, <1>2, <1>3 DEF InitiatorFrame, HistoryKept, Typed, InitiatorLines
<1> QED
  BY <1>4 DEF InitiatorWorks

LEMMA OnlyHistory ==
    ASSUME Typed, history' = history
    PROVE  HistoryKept
  BY DEF Typed, HistoryKept

LEMMA GivenUpTyped ==
    ASSUME Typed, NEW late \in BOOLEAN, NEW phase \in TargetPhases,
           history' = [history EXCEPT !.late = late, !.broken = @ \cup {phase}]
    PROVE  HistoryKept /\ history'.broken = history.broken \cup {phase}
  BY DEF Typed, Histories, HistoryKept

LEMMA InitiatorGivesUpTyped ==
    ASSUME Typed, InitiatorGivesUp
    PROVE  HistoryKept /\ history'.broken = history.broken \cup {initiator.phase}
<1>1. initiator.phase \in TargetPhases
  BY DEF Typed, InitiatorStates, TargetPhases
<1>2. CASE history.late \/ TargetWaitsFor
  <2>1. history' = [history EXCEPT !.late = TRUE, !.broken = @ \cup {initiator.phase}]
    BY <1>2 DEF InitiatorGivesUp
  <2>2. PICK late \in BOOLEAN : history' = [history EXCEPT !.late = late, !.broken = @ \cup {initiator.phase}]
    BY <2>1, Zenon
  <2> QED
    BY <1>1, <2>2, GivenUpTyped
<1>3. CASE ~(history.late \/ TargetWaitsFor)
  <2>1. history' = [history EXCEPT !.late = FALSE, !.broken = @ \cup {initiator.phase}]
    BY <1>3 DEF InitiatorGivesUp
  <2>2. PICK late \in BOOLEAN : history' = [history EXCEPT !.late = late, !.broken = @ \cup {initiator.phase}]
    BY <2>1, Zenon
  <2> QED
    BY <1>1, <2>2, GivenUpTyped
<1> QED
  BY <1>2, <1>3

\* A status that the initiator already has
LEMMA StatusStays ==
    ASSUME HandshakeInv, InitiatorWorks,
           initiator'.status = Good =>
               /\ initiator.status = Good /\ initiator'.buffer = initiator.buffer
               /\ Rank(initiator.phase) > 3 /\ initiator.pc \notin {"exception", "pulse"} =>
                    Rank(initiator'.phase) > 3 /\ initiator'.pc \notin {"exception", "pulse"}
    PROVE  StatusSent'
<1>1. StatusSent /\ InCommand
  BY DEF HandshakeInv, Transfers, InitiatorWorks
<1>2. /\ target' = target /\ dat'["target"] = dat["target"] /\ command' = command
      /\ history.broken \subseteq history'.broken /\ history'.result = history.result
  BY DEF InitiatorWorks, InitiatorFrame, HistoryKept
<1>3. history.result # Good
  BY InitiatorWorkKeeps
<1>4. Delivered /\ initiator'.buffer = initiator.buffer => Delivered'
  BY <1>2 DEF Delivered, Filled
<1> QED
  BY <1>1, <1>2, <1>3, <1>4 DEF StatusSent

\* A step after the last handshake of the initiator, with the data as they are
LEMMA AfterHandshakeKeeps ==
    ASSUME HandshakeInv, InitiatorWorks, UNCHANGED dat, NEW pc \in {"message end", "return", "pulse"},
           initiator' = [initiator EXCEPT !.pc = pc],
           initiator.pc \notin HandshakeSteps \cup {"loop", "pulse"},
           pc = "message end" => initiator.phase = "MSG_IN",
           pc = "pulse" <=> initiator.pc = "exception"
    PROVE  HandshakeInv'
<1>1. /\ Typed /\ InitiatorPlace /\ Together /\ CdbReceived /\ DataReceived /\ DataSent
  BY DEF HandshakeInv, Places, Transfers
<1>2. /\ initiator'.pc = pc /\ initiator'.phase = initiator.phase /\ initiator'.count = initiator.count
      /\ initiator'.offset = initiator.offset /\ initiator'.cdb = initiator.cdb /\ initiator'.size = initiator.size
      /\ initiator'.buffer = initiator.buffer /\ initiator'.status = initiator.status
      /\ initiator'.seen = initiator.seen
  BY <1>1 DEF Typed, InitiatorStates
<1>3. /\ target' = target /\ command' = command /\ history.broken \subseteq history'.broken /\ dat' = dat
      /\ InCommand
  BY DEF InitiatorWorks, InitiatorFrame, HistoryKept
<1>4. (Active' <=> Active) /\ InCommand'
  BY InitiatorWorkKeeps
<1>5. Doomed' <=> Doomed
  BY <1>2 DEF Doomed, HandshakeSteps
<1>6. InitiatorPlace'
  BY <1>1, <1>2, <1>3 DEF InitiatorPlace, Selecting, HandshakeSteps
<1>7. Together'
  BY <1>1, <1>2, <1>3, <1>4 DEF Together
<1>8. /\ Moved("COMMAND", CdbLength)' = Moved("COMMAND", CdbLength)
      /\ Moved("DATA_OUT", command.size)' = Moved("DATA_OUT", command.size)
      /\ Buffered' = Buffered /\ Counted' = Counted
  BY <1>2, <1>3 DEF Moved, Buffered, HandshakeSteps, Counted
<1>9. pc \notin HandshakeSteps /\ {"end", "release", "request"} \subseteq HandshakeSteps
  BY DEF HandshakeSteps
<1>10. CdbReceived'
  <2>1. InStep(target.cdb, target.count, Moved("COMMAND", CdbLength))
        => InStep(target.cdb, target.count, Moved("COMMAND", CdbLength))'
    BY <1>2, <1>3, <1>8, <1>9 DEF InStep
  <2> QED
    BY <1>1, <1>2, <1>3, <1>4, <1>9, <2>1 DEF CdbReceived
<1>11. DataReceived'
  <2>1. InStep(target.data, Counted, Moved("DATA_OUT", command.size))
        => InStep(target.data, Counted, Moved("DATA_OUT", command.size))'
    BY <1>2, <1>3, <1>8, <1>9 DEF InStep
  <2> QED
    BY <1>1, <1>2, <1>3, <1>4, <1>5, <1>9, <2>1 DEF DataReceived
<1>12. DataSent'
  <2>1. InSend(Counted, Buffered) => InSend(Counted, Buffered)'
    BY <1>2, <1>3, <1>8, <1>9 DEF InSend
  <2>2. Filled(Buffered)' = Filled(Buffered) /\ Filled(command.length)' = Filled(command.length)
    BY <1>2, <1>3, <1>8 DEF Filled
  <2> QED
    BY <1>1, <1>2, <1>3, <1>4, <1>9, <2>1, <2>2 DEF DataSent
<1>13. StatusSent'
  BY <1>2, StatusStays
<1> QED
  BY <1>6, <1>7, <1>10, <1>11, <1>12, <1>13, InitiatorWorkKeeps DEF HandshakeInv, Places, Transfers

LEMMA TakeMessageKeeps ==
    ASSUME HandshakeInv, TakeMessage
    PROVE  HandshakeInv'
<1>1. Typed /\ InitiatorPlace
  BY DEF HandshakeInv, Places
<1>2. /\ initiator.pc = "message" /\ UNCHANGED <<dat, edge>> /\ InitiatorOnly
      /\ \/ initiator' = [initiator EXCEPT !.pc = "message end"] /\ Change("initiator", {"ACK"}, {})
         \/ initiator' = [initiator EXCEPT !.pc = "return"] /\ UNCHANGED lines
  BY DEF TakeMessage
<1>3. InCommand /\ initiator.phase = "MSG_IN" /\ initiator.pc \notin HandshakeSteps \cup {"loop", "pulse"}
  BY <1>1, <1>2 DEF InCommand, Selecting, InitiatorPlace, HandshakeSteps
<1>4. HistoryKept /\ UNCHANGED <<command, target>>
  BY <1>1, <1>2, OnlyHistory DEF InitiatorOnly
<1>5. Asserted("message") = {} /\ Asserted("message end") = {"ACK"} /\ Asserted("return") = {}
  BY DEF Asserted
<1>6. CASE initiator' = [initiator EXCEPT !.pc = "message end"] /\ Change("initiator", {"ACK"}, {})
  <2>1. initiator' \in InitiatorStates /\ initiator'.pc = "message end"
    BY <1>1, <1>6 DEF Typed, InitiatorStates, InitiatorSteps
  <2>2. {"ACK"} \in SUBSET AllSignals /\ initiator'.pc \notin Selecting \cup {"idle"}
    BY <2>1 DEF AllSignals, Selecting
  <2>3. InitiatorWorks
    BY <1>2, <1>3, <1>4, <1>5, <1>6, <2>1, <2>2, ChangeWorks
  <2> QED
    BY <1>2, <1>3, <1>6, <2>3, AfterHandshakeKeeps
<1>7. CASE initiator' = [initiator EXCEPT !.pc = "return"] /\ UNCHANGED lines
  <2>1. initiator' \in InitiatorStates /\ initiator'.pc = "return"
    BY <1>1, <1>7 DEF Typed, InitiatorStates, InitiatorSteps
  <2>2. initiator'.pc \notin Selecting \cup {"idle"}
    BY <2>1 DEF Selecting
  <2>3. InitiatorWorks
    BY <1>2, <1>3, <1>4, <1>5, <1>7, <2>1, <2>2, QuietWorks
  <2> QED
    BY <1>2, <1>3, <1>7, <2>3, AfterHandshakeKeeps
<1> QED
  BY <1>2, <1>6, <1>7

LEMMA EndOfMessageKeeps ==
    ASSUME HandshakeInv, EndOfMessage \/ MessageTimeout
    PROVE  HandshakeInv'
<1>1. Typed /\ InitiatorPlace
  BY DEF HandshakeInv, Places
<1>2. /\ initiator.pc \in {"message", "message end"} /\ initiator' = [initiator EXCEPT !.pc = "return"]
      /\ Change("initiator", {}, {"ACK"}) /\ UNCHANGED <<dat, edge, command, target>>
      /\ history' = history \/ InitiatorGivesUp
  BY DEF EndOfMessage, MessageTimeout, InitiatorOnly
<1>3. InCommand /\ initiator.phase = "MSG_IN" /\ initiator.pc \notin HandshakeSteps \cup {"loop", "pulse"}
  BY <1>1, <1>2 DEF InCommand, Selecting, InitiatorPlace, HandshakeSteps
<1>4. HistoryKept
  BY <1>1, <1>2, <1>3, OnlyHistory, InitiatorGivesUpTyped
<1>5. Asserted("message") = {} /\ Asserted("message end") = {"ACK"} /\ Asserted("return") = {}
  BY DEF Asserted
<1>6. initiator' \in InitiatorStates /\ initiator'.pc = "return"
  BY <1>1, <1>2 DEF Typed, InitiatorStates, InitiatorSteps
<1>7. {} \in SUBSET AllSignals /\ initiator'.pc \notin Selecting \cup {"idle"}
  BY <1>6 DEF AllSignals, Selecting
<1>8. ((Asserted(initiator.pc) \ {"ACK"}) \cup {}) \ {"ATN"} = Asserted(initiator'.pc)
  BY <1>2, <1>5, <1>6
<1>9. InitiatorWorks
  BY <1>2, <1>3, <1>4, <1>6, <1>7, <1>8, ChangeWorks
<1> QED
  BY <1>2, <1>3, <1>9, AfterHandshakeKeeps

LEMMA PulseResetKeeps ==
    ASSUME HandshakeInv, PulseReset
    PROVE  HandshakeInv'
<1>1. Typed
  BY DEF HandshakeInv
<1>2. /\ initiator.pc = "exception" /\ initiator' = [initiator EXCEPT !.pc = "pulse"]
      /\ Change("initiator", {"RST"}, {}) /\ UNCHANGED <<dat, edge>> /\ InitiatorOnly
  BY DEF PulseReset
<1>3. InCommand /\ initiator.pc \notin HandshakeSteps \cup {"loop", "pulse"}
  BY <1>2 DEF InCommand, Selecting, HandshakeSteps
<1>4. HistoryKept /\ UNCHANGED <<command, target>>
  BY <1>1, <1>2, OnlyHistory DEF InitiatorOnly
<1>5. Asserted("exception") = {} /\ Asserted("pulse") = {"RST"}
  BY DEF Asserted
<1>6. initiator' \in InitiatorStates /\ initiator'.pc = "pulse"
  BY <1>1, <1>2 DEF Typed, InitiatorStates, InitiatorSteps
<1>7. {"RST"} \in SUBSET AllSignals /\ initiator'.pc \notin Selecting \cup {"idle"}
  BY <1>6 DEF AllSignals, Selecting
<1>8. InitiatorWorks
  BY <1>2, <1>3, <1>4, <1>5, <1>6, <1>7, ChangeWorks
<1> QED
  BY <1>2, <1>3, <1>8, AfterHandshakeKeeps

-----------------------------------------------------------------------------
(* The handshakes of the initiator                                         *)

LEMMA InitiatorTyped ==
    ASSUME HandshakeInv
    PROVE  /\ initiator.count \in Nat /\ initiator.offset \in Nat /\ initiator.size \in Nat
           /\ initiator.cdb \in Seq(Int) /\ initiator.buffer \in Seq(Int) /\ initiator.status \in Int
           /\ initiator.phase \in Phases \cup {"BUS_FREE"} /\ CdbLength \in Nat \ {0}
  BY HandshakeAssumption DEF HandshakeInv, Typed, InitiatorStates

\* Each byte of the CDB and of the data is driven before ACK.
LEMMA InitiatorPutKeeps ==
    ASSUME HandshakeInv, InitiatorPut
    PROVE  HandshakeInv'
<1>1. /\ Typed /\ InitiatorPlace /\ Together /\ CdbReceived /\ DataReceived /\ DataSent /\ InitiatorLines
  BY DEF HandshakeInv, Places, Transfers, Wires
<1>2. /\ initiator.pc = "put" /\ initiator' = [initiator EXCEPT !.pc = "request"]
      /\ UNCHANGED <<lines, edge>> /\ InitiatorOnly
      /\ dat' = [dat EXCEPT !["initiator"] =
                     IF initiator.phase = "COMMAND" THEN initiator.cdb[initiator.offset + initiator.count + 1]
                     ELSE initiator.count + 1]
  BY DEF InitiatorPut, Drive
<1>3. InCommand /\ initiator.phase \in {"COMMAND", "MSG_OUT", "DATA_OUT"} /\ initiator.count < Count
  BY <1>1, <1>2 DEF InCommand, Selecting, InitiatorPlace, HandshakeSteps, Sending
<1>4. /\ initiator'.pc = "request" /\ initiator'.phase = initiator.phase /\ initiator'.count = initiator.count
      /\ initiator'.offset = initiator.offset /\ initiator'.cdb = initiator.cdb /\ initiator'.size = initiator.size
      /\ initiator'.buffer = initiator.buffer /\ initiator'.status = initiator.status
      /\ initiator'.seen = initiator.seen
  BY <1>1, <1>2 DEF Typed, InitiatorStates
<1>5. initiator' \in InitiatorStates
  BY <1>1, <1>2 DEF Typed, InitiatorStates, InitiatorSteps
<1>6. PICK byte \in Int :
        /\ dat' = [dat EXCEPT !["initiator"] = byte]
        /\ byte = IF initiator.phase = "COMMAND" THEN initiator.cdb[initiator.offset + initiator.count + 1]
                  ELSE initiator.count + 1
  <2>1. CASE initiator.phase = "COMMAND"
    <3>1. initiator.offset + initiator.count + 1 \in 1 .. Len(initiator.cdb)
      <4>1. initiator.count < CdbLength - initiator.offset
        BY <1>3, <2>1 DEF Count
      <4>2. Len(initiator.cdb) = CdbLength
        BY <1>1, <1>3 DEF InitiatorPlace
      <4> QED
        BY <4>1, <4>2, InitiatorTyped
    <3>2. initiator.cdb[initiator.offset + initiator.count + 1] \in Int
      BY <3>1, InitiatorTyped, ElementOfSeq
    <3> QED
      BY <1>2, <2>1, <3>2
  <2>2. CASE initiator.phase # "COMMAND"
    <3>1. initiator.count + 1 \in Int
      BY InitiatorTyped
    <3> QED
      BY <1>2, <2>2, <3>1
  <2> QED
    BY <2>1, <2>2
<1>7. dat' \in [Outputs -> Int] /\ dat'["target"] = dat["target"] /\ dat'["initiator"] = byte
  BY <1>1, <1>6 DEF Typed, Outputs
<1>8. target' = target /\ command' = command /\ history' = history
  BY <1>2 DEF InitiatorOnly
<1>9. InitiatorWorks
  <2>1. HistoryKept
    BY <1>1, <1>8, OnlyHistory
  <2>2. lines'["initiator"] \ {"ATN"} = Asserted(initiator'.pc)
    BY <1>1, <1>2, <1>4 DEF InitiatorLines, Asserted
  <2>3. InitiatorFrame
    BY <1>1, <1>2, <1>5, <1>7, <1>8, <2>2 DEF InitiatorFrame, Typed
  <2> QED
    BY <1>2, <1>3, <1>4, <1>8, <2>1, <2>3 DEF InitiatorWorks, Selecting
<1>10. (Active' <=> Active) /\ (Doomed' <=> Doomed) /\ InCommand'
  BY <1>2, <1>4, <1>9, InitiatorWorkKeeps DEF Doomed
<1>11. Count' = Count
  BY <1>4 DEF Count
<1>12. InitiatorPlace'
  BY <1>1, <1>2, <1>3, <1>4, <1>8, <1>11 DEF InitiatorPlace, Selecting, HandshakeSteps
<1>13. Together'
  BY <1>1, <1>4, <1>8, <1>10 DEF Together
<1>14. /\ Moved("COMMAND", CdbLength)' = Moved("COMMAND", CdbLength)
       /\ Moved("DATA_OUT", command.size)' = Moved("DATA_OUT", command.size)
       /\ Counted' = Counted
  BY <1>2, <1>4, <1>8 DEF Moved, HandshakeSteps, Counted
<1>15. CdbReceived'
  <2>1. InStep(target.cdb, target.count, Moved("COMMAND", CdbLength))
        => InStep(target.cdb, target.count, Moved("COMMAND", CdbLength))'
    BY <1>2, <1>4, <1>8, <1>14 DEF InStep
  <2>2. initiator.phase = "COMMAND" /\ initiator.offset = 0 /\ initiator.cdb = Cdb => byte = initiator.count + 1
    BY <1>3, <1>6, InitiatorTyped DEF Cdb, Count
  <2>3. initiator.phase = "COMMAND" /\ initiator.offset = 0 /\ initiator.cdb = Cdb => Driving'
    BY <1>4, <1>7, <2>2 DEF Driving
  <2> QED
    BY <1>1, <1>2, <1>4, <1>8, <1>10, <2>1, <2>3 DEF CdbReceived, HandshakeSteps
<1>16. DataReceived'
  <2>1. InStep(target.data, Counted, Moved("DATA_OUT", command.size))
        => InStep(target.data, Counted, Moved("DATA_OUT", command.size))'
    BY <1>2, <1>4, <1>8, <1>14 DEF InStep
  <2>2. initiator.phase = "DATA_OUT" => Driving'
    BY <1>4, <1>6, <1>7 DEF Driving
  <2> QED
    BY <1>1, <1>4, <1>8, <1>10, <2>1, <2>2 DEF DataReceived
<1>17. DataSent'
  <2>1. Buffered' = Buffered
    BY <1>3, <1>4 DEF Buffered
  <2>2. InSend(Counted, Buffered) => InSend(Counted, Buffered)'
    BY <1>2, <1>4, <1>7, <1>8, <1>14, <2>1 DEF InSend
  <2>3. Filled(Buffered)' = Filled(Buffered) /\ Filled(command.length)' = Filled(command.length)
    BY <1>4, <1>8, <2>1 DEF Filled
  <2> QED
    BY <1>1, <1>3, <1>4, <1>8, <1>10, <2>2, <2>3 DEF DataSent
<1>18. StatusSent'
  BY <1>4, <1>9, StatusStays
<1> QED
  BY <1>9, <1>12, <1>13, <1>15, <1>16, <1>17, <1>18, InitiatorWorkKeeps DEF HandshakeInv, Places, Transfers

\* REQ is released, or it is not released in time.
LEMMA EndOfRequestKeeps ==
    ASSUME HandshakeInv, InitiatorWorks, UNCHANGED dat, initiator.pc = "end",
           NEW seen, initiator' = [initiator EXCEPT !.seen = seen, !.pc = "release"],
           \/ seen # TimedOut /\ target.pc \notin {"ack", "sent"} /\ (Active => seen = target.phase)
           \/ seen = TimedOut /\ initiator.phase \in history'.broken
    PROVE  HandshakeInv'
<1>1. /\ Typed /\ InitiatorPlace /\ Together /\ CdbReceived /\ DataReceived /\ DataSent
  BY DEF HandshakeInv, Places, Transfers
<1>2. InCommand /\ initiator.count < Count /\ initiator.phase # "MSG_IN"
  BY <1>1 DEF InCommand, Selecting, InitiatorPlace, HandshakeSteps
<1>3. /\ initiator'.pc = "release" /\ initiator'.phase = initiator.phase /\ initiator'.count = initiator.count
      /\ initiator'.offset = initiator.offset /\ initiator'.cdb = initiator.cdb /\ initiator'.size = initiator.size
      /\ initiator'.buffer = initiator.buffer /\ initiator'.status = initiator.status
      /\ initiator'.seen = seen
  BY <1>1 DEF Typed, InitiatorStates
<1>4. /\ target' = target /\ command' = command /\ history.broken \subseteq history'.broken /\ dat' = dat
  BY DEF InitiatorWorks, InitiatorFrame, HistoryKept
<1>5. (Active' <=> Active) /\ InCommand'
  BY InitiatorWorkKeeps
<1>6. Count' = Count
  BY <1>3 DEF Count
<1>7. InitiatorPlace'
  BY <1>1, <1>2, <1>3, <1>4, <1>6 DEF InitiatorPlace, Selecting, HandshakeSteps
<1>8. Together'
  BY <1>1, <1>3, <1>4, <1>5 DEF Together
<1>9. /\ Moved("COMMAND", CdbLength)' = Moved("COMMAND", CdbLength)
      /\ Moved("DATA_OUT", command.size)' = Moved("DATA_OUT", command.size)
      /\ Counted' = Counted /\ Buffered' = Buffered
  BY <1>3, <1>4 DEF Moved, HandshakeSteps, Counted, Buffered
<1>10. CdbReceived'
  <2>1. InStep(target.cdb, target.count, Moved("COMMAND", CdbLength))
        => InStep(target.cdb, target.count, Moved("COMMAND", CdbLength))'
    BY <1>3, <1>4, <1>9 DEF InStep
  <2>2. Driving => Driving'
    BY <1>3, <1>4 DEF Driving
  <2> QED
    BY <1>1, <1>3, <1>4, <1>5, <2>1, <2>2 DEF CdbReceived, HandshakeSteps
<1>11. DataReceived'
  <2>1. InStep(target.data, Counted, Moved("DATA_OUT", command.size))
        => InStep(target.data, Counted, Moved("DATA_OUT", command.size))'
    BY <1>3, <1>4, <1>9 DEF InStep
  <2>2. (Driving => Driving') /\ ~Doomed
    BY <1>3, <1>4 DEF Driving, Doomed
  <2> QED
    BY <1>1, <1>3, <1>4, <1>5, <2>1, <2>2 DEF DataReceived, HandshakeSteps
<1>12. DataSent'
  <2>1. Filled(Buffered)' = Filled(Buffered) /\ Filled(command.length)' = Filled(command.length)
    BY <1>3, <1>4, <1>9 DEF Filled
  <2>2. InSend(Counted, Buffered) /\ seen # TimedOut => InSend(Counted, Buffered)'
    BY <1>3, <1>4, <1>9 DEF InSend
  <2>3. Active /\ target.phase = "DATA_IN" /\ initiator.phase # "DATA_IN" /\ InSend(Counted, Buffered)
        => InSend(Counted, Buffered)'
    <3> SUFFICES ASSUME Active, target.phase = "DATA_IN", initiator.phase # "DATA_IN", InSend(Counted, Buffered)
                 PROVE  InSend(Counted, Buffered)'
      OBVIOUS
    <3>1. Counted \in Nat
      BY <1>1, PlacesTyped DEF Counted, Together, Data
    <3>2. Buffered = 0
      BY DEF Buffered
    <3>3. target.pc # "sent"
      BY <3>1, <3>2 DEF InSend
    <3> QED
      BY <1>3, <1>4, <1>9, <3>3 DEF InSend
  <2> QED
    BY <1>1, <1>3, <1>4, <1>5, <2>1, <2>2, <2>3 DEF DataSent, HandshakeSteps
<1>13. StatusSent'
  BY <1>3, StatusStays
<1> QED
  BY <1>7, <1>8, <1>10, <1>11, <1>12, <1>13, InitiatorWorkKeeps DEF HandshakeInv, Places, Transfers

\* An active target does not only react to a selection while a handshake goes on.
LEMMA TargetInPhase ==
    ASSUME HandshakeInv, Active, initiator.phase # "BUS_FREE" \/ initiator.pc # "loop"
    PROVE  target.pc \notin Off /\ target.phase \in Phases
<1>1. Typed /\ TargetPlace /\ InitiatorPlace /\ Together
  BY DEF HandshakeInv, Places
<1>2. initiator.phase \in Phases
  BY <1>1, InitiatorTyped DEF InitiatorPlace, Active
<1>3. Rank(initiator.phase) > 0 /\ Rank(target.phase) \in 0 .. 5
  BY <1>2, Ranks DEF Rank, Phases, Data
<1>4. target.phase # "SELECTION"
  BY <1>1, <1>3, Ranks DEF Together, Rank, Data
<1> QED
  BY <1>1, <1>4 DEF TargetPlace, Off, Active

LEMMA EndOfRequestStepKeeps ==
    ASSUME HandshakeInv, EndOfRequest
    PROVE  HandshakeInv'
<1>1. Typed /\ InitiatorPlace
  BY DEF HandshakeInv, Places
<1>2. /\ initiator.pc = "end" /\ initiator' = [initiator EXCEPT !.seen = Phase, !.pc = "release"]
      /\ UNCHANGED <<lines, dat, edge>> /\ InitiatorOnly /\ "REQ" \notin Level
  BY DEF EndOfRequest, InitiatorWaitsFor
<1>3. InCommand /\ initiator.pc \notin Selecting
  BY <1>2 DEF InCommand, Selecting
<1>4. target.pc \notin {"ack", "sent"}
  BY <1>2, Signals
<1>5. Phase \in TargetPhases /\ Phase # TimedOut /\ (Active => Phase = target.phase)
  <2>1. CASE target.pc = "free"
    <3>1. Phase = "BUS_FREE" /\ ~Active
      BY <1>3, <2>1, PhaseSeen DEF Active
    <3> QED
      BY <3>1 DEF TargetPhases, TimedOut
  <2>2. CASE target.pc # "free"
    <3>1. target.pc \notin Off /\ target.phase \in Phases
      BY <1>2, <1>3, <2>2, TargetInPhase DEF Active
    <3>2. Phase = target.phase
      BY <1>3, <3>1, PhaseSeen
    <3> QED
      BY <3>1, <3>2 DEF TargetPhases, TimedOut, Phases
  <2> QED
    BY <2>1, <2>2
<1>6. initiator' \in InitiatorStates /\ initiator'.pc = "release"
  BY <1>1, <1>2, <1>5 DEF Typed, InitiatorStates, InitiatorSteps
<1>7. InitiatorWorks
  <2>1. HistoryKept /\ UNCHANGED <<command, target>>
    BY <1>1, <1>2, OnlyHistory DEF InitiatorOnly
  <2>2. Asserted(initiator'.pc) = Asserted(initiator.pc)
    BY <1>2, <1>6 DEF Asserted
  <2>3. initiator'.pc \notin Selecting \cup {"idle"}
    BY <1>6 DEF Selecting
  <2> QED
    BY <1>2, <1>3, <1>6, <2>1, <2>2, <2>3, QuietWorks
<1> QED
  BY <1>2, <1>4, <1>5, <1>7, EndOfRequestKeeps

LEMMA RequestTimeoutKeeps ==
    ASSUME HandshakeInv, InitiatorTimeout, initiator.pc = "end"
    PROVE  HandshakeInv'
<1>1. Typed
  BY DEF HandshakeInv
<1>2. /\ initiator' = [initiator EXCEPT !.seen = TimedOut, !.pc = "release"]
      /\ UNCHANGED <<lines, dat, edge, command, target>> /\ InitiatorGivesUp
  BY DEF InitiatorTimeout
<1>3. HistoryKept /\ initiator.phase \in history'.broken
  BY <1>1, <1>2, InitiatorGivesUpTyped
<1>4. initiator' \in InitiatorStates /\ initiator'.pc = "release"
  BY <1>1, <1>2 DEF Typed, InitiatorStates, InitiatorSteps
<1>5. InitiatorWorks
  <2>1. Asserted(initiator'.pc) = Asserted(initiator.pc)
    BY <1>4 DEF Asserted
  <2>2. initiator'.pc \notin Selecting \cup {"idle"} /\ InCommand
    BY <1>4 DEF Selecting, InCommand
  <2> QED
    BY <1>2, <1>3, <1>4, <2>1, <2>2, QuietWorks
<1> QED
  BY <1>2, <1>3, <1>5, EndOfRequestKeeps

\* ACK is released: the byte counts on the side of the initiator.
LEMMA ReleaseAckKeeps ==
    ASSUME HandshakeInv, ReleaseAck
    PROVE  HandshakeInv'
<1>1. /\ Typed /\ InitiatorPlace /\ Together /\ CdbReceived /\ DataReceived /\ DataSent
  BY DEF HandshakeInv, Places, Transfers
<1>2. /\ initiator.pc = "release" /\ initiator' = [initiator EXCEPT !.pc = "check"]
      /\ Change("initiator", {}, {"ACK"}) /\ UNCHANGED <<dat, edge>> /\ InitiatorOnly
  BY DEF ReleaseAck
<1>3. InCommand /\ initiator.count < Count /\ initiator.phase # "MSG_IN"
  BY <1>1, <1>2 DEF InCommand, Selecting, InitiatorPlace, HandshakeSteps
<1>4. /\ initiator'.pc = "check" /\ initiator'.phase = initiator.phase /\ initiator'.count = initiator.count
      /\ initiator'.offset = initiator.offset /\ initiator'.cdb = initiator.cdb /\ initiator'.size = initiator.size
      /\ initiator'.buffer = initiator.buffer /\ initiator'.status = initiator.status
      /\ initiator'.seen = initiator.seen
  BY <1>1, <1>2 DEF Typed, InitiatorStates
<1>5. initiator' \in InitiatorStates
  BY <1>1, <1>2 DEF Typed, InitiatorStates, InitiatorSteps
<1>6. target' = target /\ command' = command /\ history' = history /\ dat' = dat
  BY <1>2 DEF InitiatorOnly
<1>7. InitiatorWorks
  <2>1. HistoryKept
    BY <1>1, <1>6, OnlyHistory
  <2>2. ((Asserted(initiator.pc) \ {"ACK"}) \cup {}) \ {"ATN"} = Asserted(initiator'.pc)
    BY <1>2, <1>4 DEF Asserted
  <2>3. initiator'.pc \notin Selecting \cup {"idle"} /\ {} \in SUBSET AllSignals
    BY <1>4 DEF Selecting
  <2> QED
    BY <1>2, <1>3, <1>5, <1>6, <2>1, <2>2, <2>3, ChangeWorks
<1>8. (Active' <=> Active) /\ InCommand'
  BY <1>7, InitiatorWorkKeeps
<1>9. (Doomed' <=> Doomed) /\ Count' = Count
  BY <1>2, <1>4 DEF Doomed, Count
<1>10. InitiatorPlace'
  BY <1>1, <1>2, <1>3, <1>4, <1>6, <1>9 DEF InitiatorPlace, Selecting, HandshakeSteps
<1>11. Together'
  BY <1>1, <1>2, <1>4, <1>6, <1>8 DEF Together
<1>12. Counted' = Counted /\ Buffered' = Buffered
  BY <1>2, <1>4, <1>6 DEF Counted, Buffered, HandshakeSteps
<1>13. ASSUME Active, target.phase \in Receiving
       PROVE  /\ target.pc \in {"ack", "release"} /\ initiator.phase = target.phase
              /\ initiator.seen # TimedOut => target.pc = "release"
  BY <1>1, <1>2, <1>13 DEF Together
<1>14. CdbReceived'
  <2>1. ASSUME Active, "COMMAND" \notin history.broken, target.phase = "COMMAND"
        PROVE  InStep(target.cdb, target.count, Moved("COMMAND", CdbLength))'
    <3>1. initiator.phase = "COMMAND"
      BY <1>13, <2>1 DEF Receiving
    <3>2. initiator.seen # TimedOut
      BY <1>1, <1>2, <1>3, <2>1, <3>1 DEF InitiatorPlace
    <3>3. target.pc = "release"
      BY <1>13, <2>1, <3>2 DEF Receiving
    <3>4. Moved("COMMAND", CdbLength) = initiator.count /\ Moved("COMMAND", CdbLength)' = initiator.count + 1
      BY <1>2, <1>4, <3>1 DEF Moved, HandshakeSteps
    <3>5. target.cdb = Bytes(target.count + 1) /\ Len(target.cdb) = initiator.count + 1
      BY <1>1, <1>2, <2>1, <3>3, <3>4 DEF CdbReceived, InStep
    <3>6. Len(target.cdb) = (initiator.count + 1) + 0
      BY <3>5, InitiatorTyped
    <3> QED
      BY <1>4, <1>6, <3>3, <3>4, <3>5, <3>6 DEF InStep
  <2> QED
    BY <1>1, <1>2, <1>4, <1>6, <1>8, <2>1 DEF CdbReceived, Driving, HandshakeSteps
<1>15. DataReceived'
  <2>1. ASSUME Active, command.op = "DATA_OUT", command.size >= command.length, ~Doomed, target.phase = "DATA_OUT"
        PROVE  InStep(target.data, Counted, Moved("DATA_OUT", command.size))'
    <3>1. initiator.phase = "DATA_OUT"
      BY <1>13, <2>1 DEF Receiving
    <3>2. initiator.seen # TimedOut
      BY <1>2, <2>1, <3>1 DEF Doomed
    <3>3. target.pc = "release"
      BY <1>13, <2>1, <3>2 DEF Receiving
    <3>4. Moved("DATA_OUT", command.size) = initiator.count /\ Moved("DATA_OUT", command.size)' = initiator.count + 1
      BY <1>2, <1>4, <3>1 DEF Moved, HandshakeSteps
    <3>5. target.data = Bytes(Counted + 1) /\ Len(target.data) = initiator.count + 1
      BY <1>1, <1>2, <2>1, <3>3, <3>4 DEF DataReceived, InStep
    <3>6. Len(target.data) = (initiator.count + 1) + 0
      BY <3>5, InitiatorTyped
    <3> QED
      BY <1>4, <1>6, <1>12, <3>3, <3>4, <3>5, <3>6 DEF InStep
  <2> QED
    BY <1>1, <1>2, <1>4, <1>6, <1>8, <1>9, <2>1 DEF DataReceived, Driving, HandshakeSteps
<1>16. DataSent'
  <2>1. InSend(Counted, Buffered) => InSend(Counted, Buffered)'
    BY <1>2, <1>4, <1>6, <1>12 DEF InSend
  <2>2. Filled(Buffered)' = Filled(Buffered) /\ Filled(command.length)' = Filled(command.length)
    BY <1>4, <1>6, <1>12 DEF Filled
  <2> QED
    BY <1>1, <1>2, <1>4, <1>6, <1>8, <2>1, <2>2 DEF DataSent, HandshakeSteps
<1>17. StatusSent'
  BY <1>4, <1>7, StatusStays
<1> QED
  BY <1>7, <1>10, <1>11, <1>14, <1>15, <1>16, <1>17, InitiatorWorkKeeps DEF HandshakeInv, Places, Transfers

\* The next byte of a handshake
LEMMA NextByteKeeps ==
    ASSUME HandshakeInv, InitiatorWorks, UNCHANGED <<dat, history>>, initiator.pc = "check",
           initiator.count + 1 # Count, initiator.seen # TimedOut,
           initiator' = [initiator EXCEPT !.count = initiator.count + 1, !.pc = IF Sending THEN "put" ELSE "request"]
    PROVE  HandshakeInv'
<1>1. /\ Typed /\ InitiatorPlace /\ Together /\ CdbReceived /\ DataReceived /\ DataSent
  BY DEF HandshakeInv, Places, Transfers
<1>2. InCommand /\ initiator.count < Count /\ initiator.phase # "MSG_IN"
  BY <1>1 DEF InCommand, Selecting, InitiatorPlace, HandshakeSteps
<1>3. /\ initiator'.pc = (IF Sending THEN "put" ELSE "request") /\ initiator'.phase = initiator.phase
      /\ initiator'.count = initiator.count + 1
      /\ initiator'.offset = initiator.offset /\ initiator'.cdb = initiator.cdb /\ initiator'.size = initiator.size
      /\ initiator'.buffer = initiator.buffer /\ initiator'.status = initiator.status
      /\ initiator'.seen = initiator.seen
  BY <1>1 DEF Typed, InitiatorStates
<1>4. target' = target /\ command' = command /\ history' = history /\ dat' = dat
  BY DEF InitiatorWorks, InitiatorFrame
<1>5. (Active' <=> Active) /\ InCommand'
  BY InitiatorWorkKeeps
<1>6. (Sending' <=> Sending) /\ Count' = Count /\ initiator'.count < Count
  <2>1. Count \in Int
    BY InitiatorTyped DEF Count
  <2>2. initiator.count + 1 < Count
    BY <1>2, <2>1, InitiatorTyped
  <2> QED
    BY <1>3, <2>2 DEF Sending, Count
<1>7. InitiatorPlace'
  BY <1>1, <1>2, <1>3, <1>4, <1>6 DEF InitiatorPlace, Selecting, HandshakeSteps
<1>8. Together'
  BY <1>1, <1>3, <1>4, <1>5 DEF Together
<1>9. /\ Moved("COMMAND", CdbLength)' = Moved("COMMAND", CdbLength)
      /\ Moved("DATA_OUT", command.size)' = Moved("DATA_OUT", command.size)
      /\ Counted' = Counted
  BY <1>3, <1>4 DEF Moved, HandshakeSteps, Counted
<1>10. Buffered' = Buffered
  BY <1>3, <1>4 DEF Buffered, HandshakeSteps, Sending
<1>11. ~Doomed' /\ ~Doomed
  BY <1>3 DEF Doomed
<1>12. CdbReceived'
  <2>1. InStep(target.cdb, target.count, Moved("COMMAND", CdbLength))
        => InStep(target.cdb, target.count, Moved("COMMAND", CdbLength))'
    BY <1>3, <1>4, <1>9 DEF InStep
  <2>2. initiator.phase = "COMMAND" => Driving'
    BY <1>3 DEF Driving, Sending
  <2> QED
    BY <1>1, <1>3, <1>4, <1>5, <2>1, <2>2 DEF CdbReceived, HandshakeSteps
<1>13. DataReceived'
  <2>1. InStep(target.data, Counted, Moved("DATA_OUT", command.size))
        => InStep(target.data, Counted, Moved("DATA_OUT", command.size))'
    BY <1>3, <1>4, <1>9 DEF InStep
  <2>2. initiator.phase = "DATA_OUT" => Driving'
    BY <1>3 DEF Driving, Sending
  <2> QED
    BY <1>1, <1>3, <1>4, <1>5, <1>11, <2>1, <2>2 DEF DataReceived, HandshakeSteps
<1>14. DataSent'
  <2>1. InSend(Counted, Buffered) => InSend(Counted, Buffered)'
    BY <1>3, <1>4, <1>9, <1>10 DEF InSend
  <2>2. Filled(Buffered)' = Filled(Buffered) /\ Filled(command.length)' = Filled(command.length)
    BY <1>3, <1>4, <1>10 DEF Filled
  <2> QED
    BY <1>1, <1>3, <1>4, <1>5, <2>1, <2>2 DEF DataSent, HandshakeSteps
<1>15. StatusSent'
  BY <1>3, StatusStays
<1> QED
  BY <1>7, <1>8, <1>12, <1>13, <1>14, <1>15, InitiatorWorkKeeps DEF HandshakeInv, Places, Transfers

\* The end of a handshake of the initiator
LEMMA HandshakeEndsWith ==
    ASSUME HandshakeInv, NEW n \in Nat, n <= Count, initiator' = HandshakeEnds(initiator, n)
    PROVE  /\ initiator' \in InitiatorStates
           /\ initiator'.pc = IF initiator.phase = "DATA_OUT" /\ n # initiator.size THEN "exception" ELSE "loop"
           /\ initiator'.phase = initiator.phase /\ initiator'.cdb = initiator.cdb /\ initiator'.buffer = initiator.buffer
           /\ initiator'.offset = IF initiator.phase = "COMMAND" THEN initiator.offset + n ELSE initiator.offset
           /\ initiator'.size = IF initiator.phase = "DATA_IN" THEN initiator.size - n ELSE initiator.size
           /\ initiator'.status = IF initiator.phase = "STATUS" /\ n = 0 THEN NoStatus ELSE initiator.status
<1>1. initiator \in InitiatorStates
  BY DEF HandshakeInv, Typed
<1>2. CASE initiator.phase = "COMMAND"
  <2>1. initiator' = [initiator EXCEPT !.offset = initiator.offset + n, !.pc = "loop"]
    BY <1>2 DEF HandshakeEnds
  <2>2. initiator.offset + n \in Nat
    BY InitiatorTyped
  <2> QED
    BY <1>1, <1>2, <2>1, <2>2 DEF InitiatorStates, InitiatorSteps
<1>3. CASE initiator.phase = "DATA_IN"
  <2>1. initiator' = [initiator EXCEPT !.size = initiator.size - n, !.pc = "loop"]
    BY <1>3 DEF HandshakeEnds
  <2>2. initiator.size - n \in Nat
    BY <1>3, InitiatorTyped DEF Count
  <2> QED
    BY <1>1, <1>3, <2>1, <2>2 DEF InitiatorStates, InitiatorSteps
<1>4. CASE initiator.phase = "DATA_OUT"
  <2>1. PICK pc \in {"loop", "exception"} : /\ initiator' = [initiator EXCEPT !.pc = pc]
                                            /\ pc = IF n # initiator.size THEN "exception" ELSE "loop"
    <3>1. CASE n = initiator.size
      BY <1>4, <3>1 DEF HandshakeEnds
    <3>2. CASE n # initiator.size
      BY <1>4, <3>2 DEF HandshakeEnds
    <3> QED
      BY <3>1, <3>2
  <2> QED
    BY <1>1, <1>4, <2>1 DEF InitiatorStates, InitiatorSteps
<1>5. CASE initiator.phase = "STATUS" /\ n = 0
  <2>1. initiator' = [initiator EXCEPT !.status = NoStatus, !.pc = "loop"] /\ NoStatus \in Int
    BY <1>5 DEF HandshakeEnds, NoStatus
  <2> QED
    BY <1>1, <1>5, <2>1 DEF InitiatorStates, InitiatorSteps
<1>6. CASE initiator.phase \notin {"COMMAND", "DATA_IN", "DATA_OUT"} /\ ~(initiator.phase = "STATUS" /\ n = 0)
  <2>1. initiator' = [initiator EXCEPT !.pc = "loop"]
    BY <1>6 DEF HandshakeEnds
  <2> QED
    BY <1>1, <1>6, <2>1 DEF InitiatorStates, InitiatorSteps
<1> QED
  BY <1>2, <1>3, <1>4, <1>5, <1>6

LEMMA HandshakeOverKeeps ==
    ASSUME HandshakeInv, UNCHANGED <<lines, dat, edge, command, target>>, HistoryKept,
           initiator.pc \in {"request", "check"}, NEW n \in Nat, initiator' = HandshakeEnds(initiator, n),
           \/ n = initiator.count /\ (initiator.phase \in history'.broken \/ ~Active \/ target.phase # initiator.phase)
           \/ /\ initiator.pc = "check" /\ initiator.seen # TimedOut
              /\ n = initiator.count + 1 /\ n = Count
    PROVE  HandshakeInv'
<1>1. /\ Typed /\ InitiatorPlace /\ Together /\ CdbReceived /\ DataReceived /\ DataSent
  BY DEF HandshakeInv, Places, Transfers
<1>2. InCommand /\ initiator.count < Count /\ initiator.phase # "MSG_IN" /\ initiator.pc \in HandshakeSteps
  BY <1>1 DEF InCommand, Selecting, InitiatorPlace, HandshakeSteps
<1>3. n <= Count
  <2>1. Count \in Int
    BY InitiatorTyped DEF Count
  <2> QED
    BY <1>2, <2>1, InitiatorTyped
<1>4. /\ initiator' \in InitiatorStates
      /\ initiator'.pc = (IF initiator.phase = "DATA_OUT" /\ n # initiator.size THEN "exception" ELSE "loop")
      /\ initiator'.phase = initiator.phase /\ initiator'.cdb = initiator.cdb /\ initiator'.buffer = initiator.buffer
      /\ initiator'.offset = (IF initiator.phase = "COMMAND" THEN initiator.offset + n ELSE initiator.offset)
      /\ initiator'.size = (IF initiator.phase = "DATA_IN" THEN initiator.size - n ELSE initiator.size)
      /\ initiator'.status = (IF initiator.phase = "STATUS" /\ n = 0 THEN NoStatus ELSE initiator.status)
  BY <1>3, HandshakeEndsWith
<1>5. /\ target' = target /\ command' = command /\ history.broken \subseteq history'.broken /\ dat' = dat
  BY DEF HistoryKept
<1>6. InitiatorWorks
  <2>1. Asserted(initiator'.pc) = Asserted(initiator.pc)
    BY <1>4 DEF Asserted
  <2>2. initiator'.pc \notin Selecting \cup {"idle"}
    BY <1>4 DEF Selecting
  <2> QED
    BY <1>2, <1>4, <2>1, <2>2, QuietWorks
<1>7. (Active' <=> Active) /\ InCommand'
  BY <1>6, InitiatorWorkKeeps
<1>8. initiator'.pc \notin HandshakeSteps /\ initiator.pc \notin {"end", "release"}
      /\ initiator'.pc \notin {"request", "end", "release"}
  BY <1>4 DEF HandshakeSteps
<1>9. InitiatorPlace'
  <2>1. initiator.phase # "BUS_FREE"
    BY <1>1, <1>2 DEF InitiatorPlace, HandshakeSteps
  <2> QED
    BY <1>1, <1>2, <1>4, <1>5, <1>8, <2>1 DEF InitiatorPlace, Selecting, HandshakeSteps
<1>10. Together'
  BY <1>1, <1>4, <1>5, <1>7, <1>8 DEF Together
<1>11. Counted' = Counted
  BY <1>5 DEF Counted
<1>12. ASSUME Active, initiator.phase \notin history'.broken, target.phase = initiator.phase
       PROVE  initiator.pc = "check" /\ initiator.seen # TimedOut /\ n = initiator.count + 1 /\ n = Count
  BY <1>12
<1>13. CdbReceived'
  <2> SUFFICES ASSUME Active, "COMMAND" \notin history'.broken
               PROVE  /\ initiator.phase = "COMMAND" /\ target.phase = "COMMAND" => initiator'.offset = CdbLength
                      /\ target.phase = "COMMAND" => InStep(target.cdb, target.count, Moved("COMMAND", CdbLength))'
    BY <1>1, <1>4, <1>5, <1>7, <1>8 DEF CdbReceived
  <2>1. ASSUME initiator.phase = "COMMAND", target.phase = "COMMAND"
        PROVE  /\ initiator'.offset = CdbLength /\ Moved("COMMAND", CdbLength) = CdbLength
    <3>1. initiator.pc = "check" /\ n = initiator.count + 1 /\ n = Count
      BY <1>12, <2>1
    <3>2. initiator.offset = 0
      BY <1>1, <1>2, <1>5, <2>1 DEF CdbReceived
    <3>3. n = CdbLength
      BY <2>1, <3>1, <3>2, InitiatorTyped DEF Count
    <3> QED
      BY <1>2, <1>4, <2>1, <3>1, <3>2, <3>3, InitiatorTyped DEF Moved
  <2>2. target.phase = "COMMAND" => Moved("COMMAND", CdbLength)' = Moved("COMMAND", CdbLength)
    BY <1>4, <1>8, <2>1 DEF Moved
  <2>3. ASSUME target.phase = "COMMAND"
        PROVE  InStep(target.cdb, target.count, Moved("COMMAND", CdbLength))'
    <3>1. InStep(target.cdb, target.count, Moved("COMMAND", CdbLength))
      BY <1>1, <1>5, <2>3 DEF CdbReceived
    <3> QED
      BY <1>4, <1>5, <1>8, <2>2, <2>3, <3>1 DEF InStep
  <2> QED
    BY <2>1, <2>3
<1>14. DataReceived'
  <2> SUFFICES ASSUME Active, command.op = "DATA_OUT", command.size >= command.length, ~Doomed'
               PROVE  /\ ~Doomed
                      /\ initiator.size = command.size => initiator'.size = command.size
                      /\ target.phase = "DATA_OUT" => InStep(target.data, Counted, Moved("DATA_OUT", command.size))'
    BY <1>1, <1>4, <1>5, <1>7, <1>8 DEF DataReceived
  <2>1. initiator.phase = "DATA_OUT" => n = initiator.size
    BY <1>4 DEF Doomed
  <2>2. initiator.phase = "DATA_OUT" => /\ initiator.pc = "check" /\ initiator.seen # TimedOut
                                        /\ n = initiator.count + 1 /\ n = Count
    BY <1>2, <2>1, InitiatorTyped DEF Count
  <2>3. ~Doomed
    BY <1>2, <2>2 DEF Doomed, HandshakeSteps
  <2>4. initiator.phase # "DATA_IN"
    BY <1>1, <1>2 DEF InitiatorPlace, Data
  <2>5. Moved("DATA_OUT", command.size)' = Moved("DATA_OUT", command.size)
    <3>1. initiator.size = command.size
      BY <1>1, <2>3 DEF DataReceived
    <3> QED
      BY <1>2, <1>4, <1>5, <1>8, <2>1, <2>2, <3>1, InitiatorTyped DEF Moved
  <2>6. ASSUME target.phase = "DATA_OUT"
        PROVE  InStep(target.data, Counted, Moved("DATA_OUT", command.size))'
    <3>1. InStep(target.data, Counted, Moved("DATA_OUT", command.size))
      BY <1>1, <2>3, <2>6 DEF DataReceived
    <3> QED
      BY <1>4, <1>5, <1>8, <1>11, <2>5, <2>6, <3>1 DEF InStep
  <2> QED
    BY <1>4, <2>3, <2>4, <2>6
<1>15. DataSent'
  <2> SUFFICES ASSUME Active, command.op = "DATA_IN", "DATA_IN" \notin history'.broken
               PROVE  DataSent'
    BY <1>5, <1>7 DEF DataSent
  <2>1. Rank(initiator.phase) < 3 => initiator'.size = command.size
    <3>1. Rank(initiator.phase) < 3 => initiator.phase # "DATA_IN"
      BY DEF Rank, Data
    <3> QED
      BY <1>1, <1>4, <1>5, <3>1 DEF DataSent
  <2>2. ASSUME target.phase = "DATA_IN", initiator.phase = "DATA_IN"
        PROVE  initiator'.size = 0 /\ Buffered = command.size
    <3>1. initiator.pc = "check" /\ n = initiator.count + 1 /\ n = Count
      BY <1>12, <2>2
    <3>2. initiator.size = command.size
      BY <1>1, <1>2, <1>5, <2>2 DEF DataSent
    <3>3. n = initiator.size
      BY <2>2, <3>1 DEF Count
    <3>4. initiator'.size = 0
      BY <1>4, <2>2, <3>3, InitiatorTyped
    <3>5. Buffered = initiator.count + 1
      BY <1>2, <2>2, <3>1 DEF Buffered
    <3> QED
      BY <3>1, <3>2, <3>3, <3>4, <3>5
  <2>3. target.phase = "DATA_IN" => Buffered' = Buffered
    BY <1>4, <1>5, <1>8, <2>2 DEF Buffered
  <2>4. target.phase = "DATA_IN" => Filled(Buffered)'
    <3>1. target.phase = "DATA_IN" => Filled(Buffered)
      BY <1>1, <1>5 DEF DataSent
    <3> QED
      BY <1>4, <1>5, <2>3, <3>1 DEF Filled
  <2>5. target.phase = "DATA_IN" => InSend(Counted, Buffered)'
    <3>1. target.phase = "DATA_IN" => InSend(Counted, Buffered)
      BY <1>1, <1>5 DEF DataSent
    <3> QED
      BY <1>4, <1>5, <1>8, <1>11, <2>3, <3>1 DEF InSend
  <2>6. Filled(command.length)' = Filled(command.length)
    BY <1>4, <1>5 DEF Filled
  <2> QED
    BY <1>1, <1>4, <1>5, <1>8, <2>1, <2>2, <2>4, <2>5, <2>6 DEF DataSent
<1>16. StatusSent'
  <2>1. initiator'.status = Good => initiator.status = Good
    BY <1>4 DEF NoStatus, Good
  <2>2. Rank(initiator.phase) > 3 => initiator'.pc \notin {"exception", "pulse"}
    BY <1>4 DEF Rank, Data
  <2> QED
    BY <1>4, <1>6, <2>1, <2>2, StatusStays
<1> QED
  BY <1>6, <1>9, <1>10, <1>13, <1>14, <1>15, <1>16, InitiatorWorkKeeps DEF HandshakeInv, Places, Transfers

LEMMA CheckPhaseKeeps ==
    ASSUME HandshakeInv, CheckPhase
    PROVE  HandshakeInv'
<1>1. Typed /\ InitiatorPlace /\ Together
  BY DEF HandshakeInv, Places
<1>2. /\ initiator.pc = "check" /\ UNCHANGED <<lines, dat, edge>> /\ UNCHANGED <<command, target, history>>
  BY DEF CheckPhase, InitiatorOnly
<1>3. HistoryKept /\ InCommand
  BY <1>1, <1>2, OnlyHistory DEF InCommand, Selecting
<1>4. CASE ~(initiator.seen # TimedOut /\ initiator.seen = initiator.phase)
  <2>1. initiator' = HandshakeEnds(initiator, initiator.count)
    BY <1>4 DEF CheckPhase, SamePhase
  <2>2. initiator.phase \in history'.broken \/ ~Active \/ target.phase # initiator.phase
    BY <1>1, <1>2, <1>3, <1>4 DEF InitiatorPlace, Together
  <2> QED
    BY <1>2, <1>3, <2>1, <2>2, InitiatorTyped, HandshakeOverKeeps
<1>5. CASE initiator.seen # TimedOut /\ initiator.seen = initiator.phase /\ initiator.count + 1 = Count
  <2>1. initiator' = HandshakeEnds(initiator, initiator.count + 1)
    BY <1>5 DEF CheckPhase, SamePhase
  <2>2. initiator.count + 1 \in Nat
    BY InitiatorTyped
  <2> QED
    BY <1>2, <1>3, <1>5, <2>1, <2>2, HandshakeOverKeeps
<1>6. CASE initiator.seen # TimedOut /\ initiator.seen = initiator.phase /\ initiator.count + 1 # Count
  <2>1. initiator' = [initiator EXCEPT !.count = initiator.count + 1, !.pc = IF Sending THEN "put" ELSE "request"]
    BY <1>6 DEF CheckPhase, SamePhase
  <2>2. PICK pc \in {"put", "request"} : initiator' = [initiator EXCEPT !.count = initiator.count + 1, !.pc = pc]
    <3>1. CASE Sending
      BY <2>1, <3>1
    <3>2. CASE ~Sending
      BY <2>1, <3>2
    <3> QED
      BY <3>1, <3>2
  <2>3. initiator' \in InitiatorStates /\ initiator'.pc = pc
    <3>1. initiator.count + 1 \in Nat
      BY InitiatorTyped
    <3>2. pc \in InitiatorSteps
      BY DEF InitiatorSteps
    <3> QED
      BY <1>1, <2>2, <3>1, <3>2 DEF Typed, InitiatorStates
  <2>4. InitiatorWorks
    <3>1. Asserted(initiator'.pc) = Asserted(initiator.pc)
      BY <1>2, <2>3 DEF Asserted
    <3>2. initiator'.pc \notin Selecting \cup {"idle"}
      BY <2>3 DEF Selecting
    <3> QED
      BY <1>2, <1>3, <2>3, <3>1, <3>2, QuietWorks
  <2> QED
    BY <1>2, <1>6, <2>1, <2>4, NextByteKeeps
<1> QED
  BY <1>4, <1>5, <1>6

\* A wait for REQ that has lasted for too long
LEMMA NoRequestKeeps ==
    ASSUME HandshakeInv, InitiatorTimeout, initiator.pc = "request"
    PROVE  HandshakeInv'
<1>1. Typed
  BY DEF HandshakeInv
<1>2. /\ initiator' = HandshakeEnds(initiator, initiator.count)
      /\ UNCHANGED <<lines, dat, edge, command, target>> /\ InitiatorGivesUp
  BY DEF InitiatorTimeout
<1>3. HistoryKept /\ initiator.phase \in history'.broken
  BY <1>1, <1>2, InitiatorGivesUpTyped
<1> QED
  BY <1>2, <1>3, InitiatorTyped, HandshakeOverKeeps

\* A target that sends GOOD has what it shall get, and has sent what it shall send.
LEMMA GoodDelivered ==
    ASSUME HandshakeInv, Active, Rank(target.phase) > 3, target.status = Good, ~Doomed
    PROVE  Delivered
<1>1. CdbReceived /\ DataReceived /\ DataSent
  BY DEF HandshakeInv, Transfers
<1>2. Rank(target.phase) > 2
  BY Ranks
<1> QED
  BY <1>1, <1>2 DEF CdbReceived, DataReceived, DataSent, Delivered

\* The byte that the initiator takes, and the ACK
LEMMA AcknowledgeByteKeeps ==
    ASSUME HandshakeInv, initiator.pc = "request", target.pc \in {"ack", "sent"}, Active,
           initiator.phase = target.phase, initiator' = [Taken(dat["target"]) EXCEPT !.pc = "end"],
           Change("initiator", {"ACK"}, IF initiator.phase = "MSG_OUT" THEN {"ATN"} ELSE {}),
           UNCHANGED <<dat, edge, command, target, history>>
    PROVE  HandshakeInv'
<1>1. /\ Typed /\ InitiatorPlace /\ Together /\ CdbReceived /\ DataReceived /\ DataSent /\ TargetPlace /\ StatusSent
  BY DEF HandshakeInv, Places, Transfers
<1>2. InCommand /\ initiator.count < Count /\ initiator.phase # "MSG_IN" /\ dat["target"] \in Int
  BY <1>1 DEF InCommand, Selecting, InitiatorPlace, HandshakeSteps, Typed, Outputs
<1>3. /\ initiator' \in InitiatorStates
      /\ initiator'.pc = "end" /\ initiator'.phase = initiator.phase /\ initiator'.count = initiator.count
      /\ initiator'.offset = initiator.offset /\ initiator'.cdb = initiator.cdb /\ initiator'.size = initiator.size
      /\ initiator'.seen = initiator.seen
      /\ initiator'.status = (IF initiator.phase = "STATUS" THEN dat["target"] ELSE initiator.status)
      /\ initiator'.buffer = (IF initiator.phase = "DATA_IN"
                              THEN [initiator.buffer EXCEPT ![initiator.count + 1] = dat["target"]] ELSE initiator.buffer)
  <2>1. CASE initiator.phase = "DATA_IN"
    <3>1. initiator' = [initiator EXCEPT !.buffer = [initiator.buffer EXCEPT ![initiator.count + 1] = dat["target"]],
                                         !.pc = "end"]
      BY <1>1, <2>1 DEF Taken, Typed, InitiatorStates
    <3>2. [initiator.buffer EXCEPT ![initiator.count + 1] = dat["target"]] \in Seq(Int)
      <4>1. initiator.count + 1 \in Int
        BY InitiatorTyped
      <4> QED
        BY <1>2, <4>1, InitiatorTyped, ElementReplaced
    <3> QED
      BY <1>1, <2>1, <3>1, <3>2 DEF Typed, InitiatorStates, InitiatorSteps
  <2>2. CASE initiator.phase = "STATUS"
    <3>1. initiator' = [initiator EXCEPT !.status = dat["target"], !.pc = "end"]
      BY <1>1, <2>2 DEF Taken, Typed, InitiatorStates
    <3> QED
      BY <1>1, <1>2, <2>2, <3>1 DEF Typed, InitiatorStates, InitiatorSteps
  <2>3. CASE initiator.phase \notin {"DATA_IN", "STATUS"}
    <3>1. initiator' = [initiator EXCEPT !.pc = "end"]
      BY <1>1, <2>3 DEF Taken, Typed, InitiatorStates
    <3> QED
      BY <1>1, <2>3, <3>1 DEF Typed, InitiatorStates, InitiatorSteps
  <2> QED
    BY <2>1, <2>2, <2>3
<1>4. target' = target /\ command' = command /\ history' = history /\ dat' = dat
  OBVIOUS
<1>5. InitiatorWorks
  <2>1. HistoryKept
    BY <1>1, OnlyHistory
  <2>2. \A off : off \in {{"ATN"}, {}} => ((Asserted(initiator.pc) \ off) \cup {"ACK"}) \ {"ATN"} = Asserted(initiator'.pc)
    BY <1>3 DEF Asserted
  <2>3. initiator'.pc \notin Selecting \cup {"idle"} /\ {"ACK"} \in SUBSET AllSignals
    BY <1>3 DEF Selecting, AllSignals
  <2>4. PICK off \in {{"ATN"}, {}} : Change("initiator", {"ACK"}, off)
    OBVIOUS
  <2> QED
    BY <1>2, <1>3, <2>1, <2>2, <2>3, <2>4, ChangeWorks
<1>6. (Active' <=> Active) /\ InCommand' /\ Count' = Count /\ ~Doomed /\ ~Doomed'
  BY <1>3, <1>5, InitiatorWorkKeeps DEF Count, Doomed
<1>7. Len(initiator'.buffer) = Len(initiator.buffer)
  <2>1. initiator.count + 1 \in Int /\ initiator.buffer \in Seq(Int)
    BY InitiatorTyped
  <2>2. Len([initiator.buffer EXCEPT ![initiator.count + 1] = dat["target"]]) = Len(initiator.buffer)
    BY <1>2, <2>1, ElementReplaced
  <2> QED
    BY <1>3, <2>2
<1>8. InitiatorPlace'
  BY <1>1, <1>2, <1>3, <1>4, <1>6, <1>7 DEF InitiatorPlace, Selecting, HandshakeSteps
<1>9. target.phase \in Receiving => target.pc = "ack"
  BY <1>1 DEF TargetPlace
<1>10. Together'
  BY <1>1, <1>3, <1>4, <1>6, <1>9 DEF Together
<1>11. /\ Moved("COMMAND", CdbLength)' = Moved("COMMAND", CdbLength)
       /\ Moved("DATA_OUT", command.size)' = Moved("DATA_OUT", command.size)
       /\ Counted' = Counted
  BY <1>3, <1>4 DEF Moved, HandshakeSteps, Counted
<1>12. Driving => Driving'
  BY <1>3, <1>4 DEF Driving
<1>13. CdbReceived'
  <2>1. InStep(target.cdb, target.count, Moved("COMMAND", CdbLength))
        => InStep(target.cdb, target.count, Moved("COMMAND", CdbLength))'
    BY <1>3, <1>4, <1>11 DEF InStep
  <2> QED
    BY <1>1, <1>3, <1>4, <1>6, <1>12, <2>1 DEF CdbReceived, HandshakeSteps
<1>14. DataReceived'
  <2>1. InStep(target.data, Counted, Moved("DATA_OUT", command.size))
        => InStep(target.data, Counted, Moved("DATA_OUT", command.size))'
    BY <1>3, <1>4, <1>11 DEF InStep
  <2> QED
    BY <1>1, <1>3, <1>4, <1>6, <1>12, <2>1 DEF DataReceived, HandshakeSteps
<1>15. DataSent'
  <2> SUFFICES ASSUME command.op = "DATA_IN", "DATA_IN" \notin history.broken
               PROVE  DataSent'
    BY <1>4 DEF DataSent
  <2>1. ASSUME target.phase = "DATA_IN"
        PROVE  /\ Filled(Buffered)' /\ InSend(Counted, Buffered)' /\ initiator.size = command.size
    <3>1. target.pc = "sent"
      BY <1>1, <2>1 DEF TargetPlace, Receiving
    <3>2. Buffered = initiator.count /\ Buffered' = initiator.count + 1
      BY <1>3, <2>1 DEF Buffered, HandshakeSteps
    <3>3. Filled(Buffered) /\ InSend(Counted, Buffered) /\ initiator.size = command.size
      BY <1>1, <2>1 DEF DataSent, HandshakeSteps
    <3>4. Counted = Buffered /\ dat["target"] = Counted + 1
      BY <3>1, <3>3 DEF InSend
    <3>5. initiator.count + 1 <= command.size
      BY <1>2, <2>1, <3>3, InitiatorTyped DEF Count
    <3>6. Filled(Buffered)'
      <4>1. Len(initiator.buffer) = command.size
        BY <1>1, <1>2 DEF InitiatorPlace
      <4>2. ASSUME NEW j \in 1 .. initiator.count + 1
            PROVE  initiator'.buffer[j] = j
        <5>1. j \in 1 .. Len(initiator.buffer) /\ initiator.count + 1 \in 1 .. Len(initiator.buffer)
          <6>1. initiator.count \in Nat /\ command.size \in Nat
            BY InitiatorTyped, PlacesTyped
          <6> QED
            BY <3>5, <4>1, <6>1
        <5>2. initiator'.buffer[j] = IF j = initiator.count + 1 THEN dat["target"] ELSE initiator.buffer[j]
          <6>1. initiator.buffer \in [1 .. Len(initiator.buffer) -> Int]
            BY InitiatorTyped, LenProperties
          <6>2. \A m \in 1 .. Len(initiator.buffer) :
                    [initiator.buffer EXCEPT ![initiator.count + 1] = dat["target"]][m]
                    = IF m = initiator.count + 1 THEN dat["target"] ELSE initiator.buffer[m]
            BY <6>1
          <6>3. initiator'.buffer = [initiator.buffer EXCEPT ![initiator.count + 1] = dat["target"]]
            BY <1>3, <2>1
          <6> QED
            BY <5>1, <6>2, <6>3
        <5>3. j # initiator.count + 1 => j \in 1 .. initiator.count
          BY InitiatorTyped
        <5> QED
          BY <3>2, <3>3, <3>4, <5>2, <5>3 DEF Filled
      <4> QED
        BY <1>4, <3>2, <3>5, <4>2 DEF Filled
    <3>7. InSend(Counted, Buffered)'
      BY <1>3, <1>4, <1>11, <3>1, <3>2, <3>4 DEF InSend
    <3> QED
      BY <3>3, <3>6, <3>7
  <2>2. target.phase # "DATA_IN" => Filled(command.length)' = Filled(command.length)
    BY <1>3, <1>4 DEF Filled
  <2>3. Rank(target.phase) > 3 => target.phase # "DATA_IN"
    BY Ranks
  <2> QED
    BY <1>1, <1>3, <1>4, <1>6, <2>1, <2>2, <2>3 DEF DataSent, HandshakeSteps
<1>16. StatusSent'
  <2>1. CASE initiator.phase = "STATUS"
    <3>1. Rank(target.phase) > 3 /\ target.pc = "sent"
      BY <1>1, <2>1, Ranks DEF TargetPlace, Receiving
    <3>2. dat["target"] = target.status
      BY <1>1, <2>1, <3>1 DEF StatusSent
    <3>3. initiator'.status = Good => Delivered
      BY <1>3, <1>6, <2>1, <3>1, <3>2, GoodDelivered
    <3>4. Delivered => Delivered'
      BY <1>3, <1>4, <2>1 DEF Delivered, Filled
    <3>5. history.result # Good
      BY <1>5, InitiatorWorkKeeps
    <3> QED
      BY <1>1, <1>3, <1>4, <1>6, <2>1, <3>1, <3>3, <3>4, <3>5 DEF StatusSent
  <2>2. CASE initiator.phase # "STATUS"
    <3>1. initiator.status # Good
      <4>1. Rank(initiator.phase) > 3 => initiator.phase \in {"STATUS", "MSG_IN"}
        BY Ranks
      <4> QED
        BY <1>1, <1>2, <2>2, <4>1 DEF StatusSent
    <3> QED
      BY <1>3, <1>5, <2>2, <3>1, StatusStays
  <2> QED
    BY <2>1, <2>2
<1> QED
  BY <1>5, <1>8, <1>10, <1>13, <1>14, <1>15, <1>16, InitiatorWorkKeeps DEF HandshakeInv, Places, Transfers

LEMMA AcknowledgeKeeps ==
    ASSUME HandshakeInv, Acknowledge
    PROVE  HandshakeInv'
<1>1. Typed
  BY DEF HandshakeInv
<1>2. /\ initiator.pc = "request" /\ UNCHANGED <<dat, edge>> /\ UNCHANGED <<command, target, history>> /\ "REQ" \in Level
  BY DEF Acknowledge, InitiatorOnly, InitiatorWaitsFor
<1>3. target.pc \in {"ack", "sent"}
  BY <1>2, Signals
<1>4. Active /\ target.pc \notin Off /\ initiator.pc \notin Selecting
  BY <1>2, <1>3 DEF Active, InCommand, Selecting, Off
<1>5. Phase = target.phase
  BY <1>4, PhaseSeen
<1>6. CASE target.phase = initiator.phase
  <2>1. /\ initiator' = [Taken(dat["target"]) EXCEPT !.pc = "end"]
        /\ Change("initiator", {"ACK"}, IF initiator.phase = "MSG_OUT" THEN {"ATN"} ELSE {})
    BY <1>5, <1>6 DEF Acknowledge, SamePhase, Driven
  <2> QED
    BY <1>2, <1>3, <1>4, <1>6, <2>1, AcknowledgeByteKeeps
<1>7. CASE target.phase # initiator.phase
  <2>1. initiator' = HandshakeEnds(initiator, initiator.count) /\ UNCHANGED lines
    BY <1>5, <1>7 DEF Acknowledge, SamePhase
  <2>2. HistoryKept
    BY <1>1, <1>2, OnlyHistory
  <2> QED
    BY <1>2, <1>7, <2>1, <2>2, InitiatorTyped, HandshakeOverKeeps
<1> QED
  BY <1>6, <1>7

\* The LUN in the second byte is the one that is already there, at the beginning of the CDB.
LEMMA CdbSent ==
    ASSUME HandshakeInv, InCommand
    PROVE  /\ CdbToSend \in Seq(Int) /\ Len(CdbToSend) = CdbLength
           /\ initiator.offset = 0 /\ initiator.cdb = Cdb => CdbToSend = Cdb
<1>1. Len(initiator.cdb) = CdbLength
  BY DEF HandshakeInv, Places, InitiatorPlace
<1>2. ASSUME NEW i \in 1 .. CdbLength
      PROVE  (IF i = initiator.offset + 2 THEN initiator.cdb[2] ELSE initiator.cdb[i]) \in Int
  <2>1. CASE i = initiator.offset + 2
    <3>1. 2 \in 1 .. Len(initiator.cdb)
      BY <1>1, <2>1, InitiatorTyped
    <3> QED
      BY <2>1, <3>1, InitiatorTyped, ElementOfSeq
  <2>2. CASE i # initiator.offset + 2
    BY <1>1, <2>2, InitiatorTyped, ElementOfSeq
  <2> QED
    BY <2>1, <2>2
<1>3. CdbToSend \in [1 .. CdbLength -> Int]
  BY <1>2 DEF CdbToSend
<1>4. CdbToSend \in Seq(Int) /\ Len(CdbToSend) = CdbLength
  <2>1. CdbLength \in Nat
    BY InitiatorTyped
  <2> HIDE DEF CdbToSend
  <2>2. CdbToSend \in Seq(Int)
    BY <1>3, <2>1, SeqDef
  <2> QED
    BY <1>3, <2>1, <2>2, LenProperties
<1>5. initiator.offset = 0 /\ initiator.cdb = Cdb => CdbToSend = Cdb
  BY InitiatorTyped DEF CdbToSend, Cdb
<1> QED
  BY <1>4, <1>5

\* The step that Dispatch() takes in the phase of the target
StepInPhase ==
    CASE target.phase = "COMMAND" -> IF initiator.offset < CdbLength THEN "put" ELSE "loop"
      [] target.phase \in Data /\ initiator.size = 0 -> "exception"
      [] target.phase = "MSG_OUT" \/ (target.phase = "DATA_OUT" /\ initiator.size > 0) -> "put"
      [] target.phase = "STATUS" \/ (target.phase = "DATA_IN" /\ initiator.size > 0) -> "request"
      [] target.phase = "MSG_IN" -> "message"

LEMMA StepsInPhases ==
    ASSUME HandshakeInv, target.phase \in Phases
    PROVE  /\ StepInPhase \in {"put", "loop", "exception", "request", "message"}
           /\ StepInPhase = "put" <=>
                \/ target.phase = "COMMAND" /\ initiator.offset < CdbLength
                \/ target.phase = "MSG_OUT"
                \/ target.phase = "DATA_OUT" /\ initiator.size > 0
           /\ StepInPhase = "loop" <=> target.phase = "COMMAND" /\ ~(initiator.offset < CdbLength)
           /\ StepInPhase = "exception" <=> target.phase \in Data /\ initiator.size = 0
           /\ StepInPhase = "request" <=>
                target.phase = "STATUS" \/ (target.phase = "DATA_IN" /\ initiator.size > 0)
           /\ StepInPhase = "message" <=> target.phase = "MSG_IN"
<1>1. initiator.size \in Nat
  BY InitiatorTyped
<1>2. CASE target.phase = "COMMAND"
  BY <1>2 DEF StepInPhase, Data
<1>3. CASE target.phase = "MSG_OUT"
  BY <1>3 DEF StepInPhase, Data
<1>4. CASE target.phase = "DATA_OUT"
  BY <1>1, <1>4 DEF StepInPhase, Data
<1>5. CASE target.phase = "DATA_IN"
  BY <1>1, <1>5 DEF StepInPhase, Data
<1>6. CASE target.phase = "STATUS"
  BY <1>6 DEF StepInPhase, Data
<1>7. CASE target.phase = "MSG_IN"
  BY <1>7 DEF StepInPhase, Data
<1> QED
  BY <1>2, <1>3, <1>4, <1>5, <1>6, <1>7 DEF Phases

LEMMA DispatchSteps ==
    ASSUME HandshakeInv, Dispatch
    PROVE  /\ initiator.pc = "loop" /\ Active /\ target.pc \in {"ack", "sent"} /\ target.phase \in Phases
           /\ initiator' = [initiator EXCEPT !.phase = target.phase, !.count = 0,
                                             !.cdb = IF target.phase = "COMMAND" THEN CdbToSend ELSE initiator.cdb,
                                             !.pc = StepInPhase]
<1>1. initiator.pc = "loop" /\ "REQ" \in Level /\ TargetPlace /\ initiator \in InitiatorStates
  BY DEF HandshakeInv, Places, Typed, Dispatch, InitiatorWaitsFor
<1>2. target.pc \in {"ack", "sent"}
  BY <1>1, Signals
<1>3. Active /\ target.pc \notin Off /\ initiator.pc \notin Selecting
  BY <1>1, <1>2 DEF Active, InCommand, Selecting, Off
<1>4. Phase = target.phase /\ target.phase \in Phases
  BY <1>1, <1>3, PhaseSeen DEF TargetPlace
<1>5. initiator' = [initiator EXCEPT !.phase = target.phase, !.count = 0,
                                     !.cdb = IF target.phase = "COMMAND" THEN CdbToSend ELSE initiator.cdb,
                                     !.pc = StepInPhase]
  <2>1. CASE target.phase = "COMMAND"
    <3>1. StepInPhase = IF initiator.offset < CdbLength THEN "put" ELSE "loop"
      BY <1>4, <2>1, StepsInPhases
    <3> QED
      BY <1>1, <1>4, <2>1, <3>1 DEF Dispatch, InitiatorStates
  <2>2. CASE target.phase \in Data /\ initiator.size = 0
    <3>1. StepInPhase = "exception"
      BY <1>4, <2>2, StepsInPhases
    <3>2. initiator' = [initiator EXCEPT !.phase = target.phase, !.count = 0, !.pc = "exception"]
      BY <1>1, <1>4, <2>2 DEF Dispatch, Data
    <3>3. initiator' = [initiator EXCEPT !.phase = target.phase, !.count = 0, !.cdb = initiator.cdb, !.pc = "exception"]
      BY <1>1, <3>2 DEF InitiatorStates
    <3> QED
      BY <2>2, <3>1, <3>3 DEF Data
  <2>3. CASE target.phase = "MSG_OUT" \/ (target.phase = "DATA_OUT" /\ initiator.size > 0)
    <3>1. StepInPhase = "put"
      BY <1>4, <2>3, StepsInPhases
    <3>2. initiator' = [initiator EXCEPT !.phase = target.phase, !.count = 0, !.pc = "put"]
      BY <1>1, <1>4, <2>3 DEF Dispatch
    <3>3. initiator' = [initiator EXCEPT !.phase = target.phase, !.count = 0, !.cdb = initiator.cdb, !.pc = "put"]
      BY <1>1, <3>2 DEF InitiatorStates
    <3> QED
      BY <2>3, <3>1, <3>3
  <2>4. CASE target.phase = "STATUS" \/ (target.phase = "DATA_IN" /\ initiator.size > 0)
    <3>1. StepInPhase = "request"
      BY <1>4, <2>4, StepsInPhases
    <3>2. initiator' = [initiator EXCEPT !.phase = target.phase, !.count = 0, !.pc = "request"]
      BY <1>1, <1>4, <2>4 DEF Dispatch
    <3>3. initiator' = [initiator EXCEPT !.phase = target.phase, !.count = 0, !.cdb = initiator.cdb, !.pc = "request"]
      BY <1>1, <3>2 DEF InitiatorStates
    <3> QED
      BY <2>4, <3>1, <3>3
  <2>5. CASE target.phase = "MSG_IN"
    <3>1. StepInPhase = "message"
      BY <1>4, <2>5, StepsInPhases
    <3> QED
      BY <1>1, <1>4, <2>5, <3>1 DEF Dispatch, InitiatorStates
  <2> QED
    BY <1>4, <2>1, <2>2, <2>3, <2>4, <2>5, InitiatorTyped DEF Phases, Data
<1> QED
  BY <1>1, <1>2, <1>3, <1>4, <1>5

\* The initiator follows the target to its phase.
LEMMA DispatchKeeps ==
    ASSUME HandshakeInv, Dispatch
    PROVE  HandshakeInv'
<1>1. /\ Typed /\ TargetPlace /\ InitiatorPlace /\ Together /\ CdbReceived /\ DataReceived /\ DataSent
  BY DEF HandshakeInv, Places, Transfers
<1>2. /\ initiator.pc = "loop" /\ Active /\ InCommand /\ target.pc \in {"ack", "sent"} /\ target.phase \in Phases
      /\ initiator' = [initiator EXCEPT !.phase = target.phase, !.count = 0,
                                        !.cdb = IF target.phase = "COMMAND" THEN CdbToSend ELSE initiator.cdb,
                                        !.pc = StepInPhase]
  BY DispatchSteps DEF Active
<1>3. /\ target' = target /\ command' = command /\ history' = history /\ dat' = dat
      /\ UNCHANGED <<lines, dat, edge, command, target>>
  BY DEF Dispatch, InitiatorOnly
<1>4. StepInPhase \in {"put", "loop", "exception", "request", "message"}
  BY <1>2, StepsInPhases
<1>5. /\ initiator'.pc = StepInPhase /\ initiator'.phase = target.phase /\ initiator'.count = 0
      /\ initiator'.offset = initiator.offset /\ initiator'.size = initiator.size
      /\ initiator'.cdb = (IF target.phase = "COMMAND" THEN CdbToSend ELSE initiator.cdb)
      /\ initiator'.buffer = initiator.buffer /\ initiator'.status = initiator.status
  BY <1>1, <1>2 DEF Typed, InitiatorStates
<1>6. initiator' \in InitiatorStates
  <2>1. PICK cdb \in Seq(Int) : initiator' = [initiator EXCEPT !.phase = target.phase, !.count = 0, !.cdb = cdb,
                                                               !.pc = StepInPhase]
    <3>1. (IF target.phase = "COMMAND" THEN CdbToSend ELSE initiator.cdb) \in Seq(Int)
      BY <1>2, CdbSent, InitiatorTyped
    <3> QED
      BY <1>2, <3>1
  <2>2. StepInPhase \in InitiatorSteps /\ 0 \in Nat /\ target.phase \in Phases \cup {"BUS_FREE"}
    BY <1>2, <1>4 DEF InitiatorSteps
  <2> QED
    BY <1>1, <2>1, <2>2 DEF Typed, InitiatorStates
<1>7. InitiatorWorks
  <2>1. HistoryKept
    BY <1>1, <1>3, OnlyHistory
  <2>2. Asserted(initiator'.pc) = Asserted(initiator.pc)
    BY <1>2, <1>4, <1>5 DEF Asserted
  <2>3. initiator'.pc \notin Selecting \cup {"idle"}
    BY <1>4, <1>5 DEF Selecting
  <2> QED
    BY <1>2, <1>3, <1>6, <2>1, <2>2, <2>3, QuietWorks
<1>8. Active' /\ InCommand'
  BY <1>2, <1>7, InitiatorWorkKeeps
<1>9. initiator'.pc \in {"put", "loop", "exception", "request", "message"}
  BY <1>4, <1>5
<1>10. InitiatorPlace'
  <2>1. Len(initiator'.cdb) = CdbLength /\ Len(initiator'.buffer) = command'.size
    BY <1>1, <1>2, <1>3, <1>5, CdbSent DEF InitiatorPlace
  <2>2. initiator'.phase \in Data => initiator'.phase = command'.op
    BY <1>1, <1>2, <1>3, <1>5 DEF Together
  <2>3. initiator'.pc = "put" => Sending'
    BY <1>2, <1>5, StepsInPhases DEF Sending
  <2>4. initiator'.pc \in HandshakeSteps => initiator'.phase # "MSG_IN" /\ initiator'.count < Count'
    <3>1. initiator'.pc \in HandshakeSteps => StepInPhase \in {"put", "request"}
      BY <1>5, <1>9 DEF HandshakeSteps
    <3>2. StepInPhase \in {"put", "request"} =>
            \/ target.phase = "COMMAND" /\ initiator.offset < CdbLength
            \/ target.phase \in {"MSG_OUT", "STATUS"}
            \/ target.phase \in {"DATA_IN", "DATA_OUT"} /\ initiator.size > 0
      BY <1>2, StepsInPhases
    <3> QED
      BY <1>5, <3>1, <3>2, InitiatorTyped DEF Count
  <2>5. initiator'.pc = "message" => initiator'.phase = "MSG_IN"
    BY <1>2, <1>5, StepsInPhases
  <2>6. initiator'.phase # "BUS_FREE"
    BY <1>2, <1>5 DEF Phases
  <2> QED
    BY <1>8, <1>9, <2>1, <2>2, <2>3, <2>4, <2>5, <2>6 DEF InitiatorPlace, Selecting
<1>11. Together'
  <2>1. Rank(initiator'.phase) <= Rank(target'.phase)
    BY <1>3, <1>5, Ranks
  <2> QED
    BY <1>1, <1>2, <1>3, <1>9, <2>1 DEF Together
<1>12. Counted' = Counted
  BY <1>3 DEF Counted
<1>13. target.phase \in {"MSG_OUT", "COMMAND"} /\ initiator.phase # "COMMAND" => initiator.phase \in {"BUS_FREE", "MSG_OUT"}
  <2>1. Rank(initiator.phase) <= Rank(target.phase)
    BY <1>1, <1>2 DEF Together
  <2> QED
    BY <2>1, InitiatorTyped DEF Rank, Data, Phases
<1>14. target.phase = "MSG_OUT" => initiator.phase # "COMMAND"
  <2>1. Rank(initiator.phase) <= Rank(target.phase)
    BY <1>1, <1>2 DEF Together
  <2> QED
    BY <2>1 DEF Rank, Data
<1>15. CdbReceived'
  <2> SUFFICES ASSUME "COMMAND" \notin history.broken
               PROVE  CdbReceived'
    BY <1>3 DEF CdbReceived
  <2>1. initiator.phase \in {"BUS_FREE", "MSG_OUT"} => initiator.offset = 0 /\ initiator.cdb = Cdb
    BY <1>1, <1>2 DEF CdbReceived
  <2>2. ASSUME target.phase = "COMMAND", initiator.phase # "COMMAND"
        PROVE  initiator'.offset = 0 /\ initiator'.cdb = Cdb /\ initiator'.pc = "put"
    <3>1. initiator.offset = 0 /\ initiator.cdb = Cdb
      BY <1>13, <2>1, <2>2
    <3>2. initiator.offset < CdbLength
      BY <3>1, InitiatorTyped
    <3> QED
      BY <1>2, <1>5, <2>2, <3>1, <3>2, CdbSent, StepsInPhases
  <2>3. ASSUME target.phase = "COMMAND", initiator.phase = "COMMAND"
        PROVE  initiator'.offset = CdbLength /\ initiator'.pc = "loop"
    <3>1. initiator.offset = CdbLength
      BY <1>1, <1>2, <2>3 DEF CdbReceived, HandshakeSteps
    <3>2. ~(initiator.offset < CdbLength)
      BY <3>1, InitiatorTyped
    <3> QED
      BY <1>2, <1>5, <2>3, <3>1, <3>2, StepsInPhases
  <2>4. target.phase = "COMMAND" => Moved("COMMAND", CdbLength)' = Moved("COMMAND", CdbLength)
    BY <1>2, <1>5, <2>2, <2>3 DEF Moved, HandshakeSteps
  <2>5. target.phase = "COMMAND" => InStep(target.cdb, target.count, Moved("COMMAND", CdbLength))'
    <3>1. target.phase = "COMMAND" => InStep(target.cdb, target.count, Moved("COMMAND", CdbLength))
      BY <1>1, <1>2 DEF CdbReceived
    <3> QED
      BY <1>2, <1>3, <1>9, <2>4, <3>1 DEF InStep
  <2>6. target.phase = "COMMAND" => Driving'
    BY <1>2, <1>5, StepsInPhases DEF Driving
  <2>7. target.phase = "MSG_OUT" => initiator'.offset = 0 /\ initiator'.cdb = Cdb
    BY <1>5, <1>13, <1>14, <2>1
  <2>8. Rank(target.phase) > 2 => target.cdb = Cdb
    BY <1>1, <1>2 DEF CdbReceived
  <2>9. initiator'.phase # "BUS_FREE"
    BY <1>2, <1>5 DEF Phases
  <2> QED
    BY <1>3, <1>5, <2>2, <2>3, <2>5, <2>6, <2>7, <2>8, <2>9 DEF CdbReceived, HandshakeSteps
<1>16. DataReceived'
  <2> SUFFICES ASSUME command.op = "DATA_OUT", command.size >= command.length
               PROVE  DataReceived'
    BY <1>3 DEF DataReceived
  <2>1. ~Doomed /\ initiator.size = command.size
    BY <1>1, <1>2 DEF Doomed, DataReceived
  <2>2. ASSUME target.phase = "DATA_OUT"
        PROVE  /\ InStep(target.data, Counted, Moved("DATA_OUT", command.size))'
               /\ initiator'.pc = "put"
    <3>1. target.pc = "ack" /\ target.count < target.length /\ target.rest + target.length <= command.length
      BY <1>1, <1>2, <2>2 DEF TargetPlace, Receiving, Together, Data
    <3>2. Counted \in Nat /\ Counted < command.size /\ command.size > 0
      BY <3>1, PlacesTyped DEF Counted
    <3>3. InStep(target.data, Counted, Moved("DATA_OUT", command.size))
      BY <1>1, <1>2, <2>1, <2>2 DEF DataReceived
    <3>4. target.data = Bytes(Counted) /\ Len(target.data) = Moved("DATA_OUT", command.size) + 0
      <4>1. target.data = Bytes(Counted + 0)
        BY <3>1, <3>3 DEF InStep
      <4>2. Counted + 0 = Counted
        BY <3>2
      <4> QED
        BY <3>1, <3>3, <4>1, <4>2 DEF InStep
    <3>5. initiator.phase # "DATA_OUT"
      <4>1. Len(target.data) = Counted
        BY <3>2, <3>4, BytesLength
      <4>2. initiator.phase = "DATA_OUT" => Moved("DATA_OUT", command.size) = command.size
        BY <1>2 DEF Moved, HandshakeSteps
      <4> QED
        BY <3>2, <3>4, <4>1, <4>2, PlacesTyped
    <3>6. initiator'.pc = "put"
      BY <1>2, <1>5, <2>1, <2>2, <3>2, StepsInPhases
    <3>7. Moved("DATA_OUT", command.size) = 0 /\ Moved("DATA_OUT", command.size)' = 0
      BY <1>5, <2>2, <3>5, <3>6 DEF Moved, HandshakeSteps
    <3>8. InStep(target.data, Counted, Moved("DATA_OUT", command.size))'
      BY <1>2, <1>3, <1>9, <1>12, <3>3, <3>7 DEF InStep
    <3> QED
      BY <3>6, <3>8
  <2>3. target.phase = "DATA_OUT" => Driving'
    BY <2>2 DEF Driving
  <2>4. Rank(target.phase) > 3 /\ target.status = Good => target.data = Bytes(command.length)
    BY <1>1, <1>2, <2>1 DEF DataReceived
  <2> QED
    BY <1>3, <1>5, <2>1, <2>2, <2>3, <2>4 DEF DataReceived
<1>17. DataSent'
  <2> SUFFICES ASSUME command.op = "DATA_IN", "DATA_IN" \notin history.broken
               PROVE  DataSent'
    BY <1>3 DEF DataSent
  <2>1. Rank(initiator.phase) <= Rank(target.phase)
    BY <1>1, <1>2 DEF Together
  <2>2. Rank(initiator.phase) < 3 => initiator.size = command.size
    BY <1>1, <1>2 DEF DataSent
  <2>3. Rank(target.phase) < 3 => Rank(initiator.phase) < 3
    BY <2>1, Ranks
  <2>4. ASSUME target.phase = "DATA_IN", initiator.phase = "DATA_IN"
        PROVE  /\ initiator'.pc = "exception" /\ initiator'.size = 0
               /\ Buffered = command.size /\ Buffered' = command.size
    <3>1. initiator.size = 0
      BY <1>1, <1>2, <2>4 DEF DataSent, HandshakeSteps
    <3>2. initiator'.pc = "exception"
      BY <1>2, <1>5, <2>4, <3>1, StepsInPhases DEF Data
    <3> QED
      BY <1>2, <1>3, <1>5, <2>4, <3>1, <3>2 DEF Buffered, HandshakeSteps
  <2>5. ASSUME target.phase = "DATA_IN", initiator.phase # "DATA_IN"
        PROVE  /\ initiator'.size = command.size /\ Buffered = 0 /\ Buffered' = 0
               /\ initiator'.pc \notin HandshakeSteps => initiator'.size = 0
    <3>1. Rank(initiator.phase) # 3
      BY <1>1, <1>2, <2>5, Ranks DEF InitiatorPlace
    <3>2. Rank(target.phase) = 3
      BY <2>5, Ranks DEF Data
    <3>3. initiator.size = command.size
      BY <2>1, <2>2, <3>1, <3>2, Ranks
    <3>4. CASE initiator.size = 0
      <4>1. initiator'.pc = "exception"
        BY <1>2, <1>5, <2>5, <3>4, StepsInPhases DEF Data
      <4> QED
        BY <1>3, <1>5, <2>5, <3>3, <3>4, <4>1 DEF Buffered, HandshakeSteps
    <3>5. CASE initiator.size # 0
      <4>1. initiator'.pc = "request"
        BY <1>2, <1>5, <2>5, <3>5, StepsInPhases, InitiatorTyped
      <4> QED
        BY <1>3, <1>5, <2>5, <3>3, <4>1 DEF Buffered, HandshakeSteps
    <3> QED
      BY <3>4, <3>5
  <2>6. ASSUME target.phase = "DATA_IN"
        PROVE  /\ Filled(Buffered)' /\ InSend(Counted, Buffered)'
               /\ initiator'.size = IF initiator'.pc \in HandshakeSteps THEN command.size ELSE 0
    <3>1. Buffered' = Buffered
      BY <2>4, <2>5, <2>6
    <3>2. Filled(Buffered) /\ InSend(Counted, Buffered)
      BY <1>1, <1>2, <2>6 DEF DataSent
    <3>3. Filled(Buffered)'
      BY <1>3, <1>5, <3>1, <3>2 DEF Filled
    <3>4. InSend(Counted, Buffered)'
      BY <1>2, <1>3, <1>9, <1>12, <3>1, <3>2 DEF InSend
    <3>5. initiator'.size = IF initiator'.pc \in HandshakeSteps THEN command.size ELSE 0
      BY <2>4, <2>5, <2>6 DEF HandshakeSteps
    <3> QED
      BY <3>3, <3>4, <3>5
  <2>7. Rank(target.phase) > 3 /\ target.status = Good => Filled(command.length)'
    <3>1. Filled(command.length)' = Filled(command.length)
      BY <1>3, <1>5 DEF Filled
    <3> QED
      BY <1>1, <1>2, <3>1 DEF DataSent
  <2> QED
    BY <1>3, <1>5, <2>2, <2>3, <2>6, <2>7 DEF DataSent
<1>18. StatusSent'
  <2>1. Rank(initiator.phase) > 3 => Rank(target.phase) > 3
    <3>1. Rank(initiator.phase) <= Rank(target.phase)
      BY <1>1, <1>2 DEF Together
    <3> QED
      BY <3>1, Ranks
  <2>2. Rank(target.phase) > 3 => initiator'.pc \notin {"exception", "pulse"}
    <3>1. Rank(target.phase) > 3 => target.phase \notin Data
      BY Ranks DEF Data
    <3> QED
      BY <1>2, <1>4, <1>5, <3>1, StepsInPhases
  <2> QED
    BY <1>5, <1>7, <2>1, <2>2, StatusStays
<1> QED
  BY <1>7, <1>10, <1>11, <1>15, <1>16, <1>17, <1>18, InitiatorWorkKeeps DEF HandshakeInv, Places, Transfers

LEMMA InitiatorKeeps ==
    ASSUME HandshakeInv, Executing
    PROVE  HandshakeInv'
<1>1. InitiatorTimeout => HandshakeInv'
  <2>1. InitiatorTimeout => initiator.pc \in {"request", "end"}
    BY DEF InitiatorTimeout
  <2> QED
    BY <2>1, NoRequestKeeps, RequestTimeoutKeeps
<1>2. EndOfMessage \/ MessageTimeout => HandshakeInv'
  BY EndOfMessageKeeps
<1>3. Arbitrate \/ AssertSel \/ Select \/ Selected \/ NotSelected \/ CommandTimeout => HandshakeInv'
  BY ArbitrateKeeps, AssertSelKeeps, SelectKeeps, SelectedKeeps, NotSelectedKeeps, CommandTimeoutKeeps
<1>4. Dispatch \/ InitiatorPut \/ Acknowledge \/ EndOfRequest \/ ReleaseAck \/ CheckPhase => HandshakeInv'
  BY DispatchKeeps, InitiatorPutKeeps, AcknowledgeKeeps, EndOfRequestStepKeeps, ReleaseAckKeeps, CheckPhaseKeeps
<1>5. TakeMessage \/ EndCommand \/ PulseReset \/ EndOfPulse => HandshakeInv'
  BY TakeMessageKeeps, EndCommandKeeps, PulseResetKeeps, EndOfPulseKeeps
<1> QED
  BY <1>1, <1>2, <1>3, <1>4, <1>5 DEF Executing

LEMMA StutteringKeeps ==
    ASSUME HandshakeInv, UNCHANGED vars
    PROVE  HandshakeInv'
<1>1. /\ lines' = lines /\ dat' = dat /\ edge' = edge /\ command' = command /\ target' = target
      /\ initiator' = initiator /\ history' = history
  BY DEF vars
<1>2. Typed' /\ Wires'
  BY <1>1 DEF HandshakeInv, Typed, Wires, TargetLines, InitiatorLines
<1>3. (InCommand' <=> InCommand) /\ (Active' <=> Active) /\ (Doomed' <=> Doomed) /\ (Delivered' <=> Delivered)
  BY <1>1 DEF InCommand, Active, Doomed, Delivered, Filled
<1>4. TargetPlace' /\ SelectionPlace' /\ Together'
  BY <1>1, <1>3 DEF HandshakeInv, Places, TargetPlace, SelectionPlace, Together
<1>5. InitiatorPlace'
  BY <1>1, <1>3 DEF HandshakeInv, Places, InitiatorPlace, Sending, Count
<1>6. CdbReceived'
  BY <1>1, <1>3 DEF HandshakeInv, Transfers, CdbReceived, InStep, Moved, Driving
<1>7. DataReceived'
  BY <1>1, <1>3 DEF HandshakeInv, Transfers, DataReceived, InStep, Moved, Driving, Counted
<1>8. DataSent'
  BY <1>1, <1>3 DEF HandshakeInv, Transfers, DataSent, InSend, Buffered, Filled, Counted
<1>9. StatusSent'
  BY <1>1, <1>3 DEF HandshakeInv, Transfers, StatusSent
<1> QED
  BY <1>2, <1>4, <1>5, <1>6, <1>7, <1>8, <1>9 DEF HandshakeInv, Places, Transfers

LEMMA HandshakeStarts ==
    ASSUME HandshakeInit
    PROVE  HandshakeInv
<1>1. /\ lines = [o \in Outputs |-> {}] /\ dat = [o \in Outputs |-> 0] /\ edge = FALSE /\ command \in Commands
      /\ target = AtRest /\ initiator = Idle
      /\ history = [late |-> FALSE, broken |-> {}, free |-> TRUE, result |-> NoStatus, lost |-> 0]
  BY DEF HandshakeInit
<1>2. <<>> \in Seq(Int) /\ 0 \in Int /\ 0 \in Nat
  BY EmptySeq
<1>3. target \in TargetStates
  BY <1>1, <1>2 DEF AtRest, TargetStates, TargetSteps, TargetPhases, Good
<1>4. initiator \in InitiatorStates
  BY <1>1, <1>2 DEF Idle, InitiatorStates, InitiatorSteps, TargetPhases, NoStatus
<1>5. history \in Histories
  BY <1>1, <1>2 DEF Histories, NoStatus
<1>6. Typed
  BY <1>1, <1>2, <1>3, <1>4, <1>5 DEF Typed
<1>7. /\ target.pc = "free" /\ target.phase = "BUS_FREE" /\ target.count = 0 /\ target.length = 0
      /\ initiator.pc = "idle" /\ history.result # Good
  BY <1>1 DEF AtRest, Idle, NoStatus, Good
<1>8. ~InCommand /\ ~Active
  BY <1>7 DEF InCommand, Active
<1>9. Wires
  BY <1>1, <1>7 DEF Wires, TargetLines, InitiatorLines, Asserted, Outputs, Off
<1>10. TargetPlace
  BY <1>7 DEF TargetPlace, Off, Receiving
<1>11. InitiatorPlace /\ SelectionPlace /\ Together
  BY <1>1, <1>7, <1>8 DEF InitiatorPlace, SelectionPlace, Together, Selecting
<1>12. Transfers
  BY <1>7, <1>8 DEF Transfers, CdbReceived, DataReceived, DataSent, StatusSent
<1> QED
  BY <1>6, <1>9, <1>10, <1>11, <1>12 DEF HandshakeInv, Places

\* What the invariant says of a command that has ended with GOOD
LEMMA InvariantDelivers ==
    ASSUME HandshakeInv
    PROVE  GoodMeansDelivered
<1> SUFFICES ASSUME initiator.pc = "idle", history.result = Good
             PROVE  GoodMeansDelivered
  BY DEF GoodMeansDelivered
<1>1. Len(initiator.buffer) = command.size /\ Delivered
  BY DEF HandshakeInv, Transfers, StatusSent
<1>2. ASSUME Filled(command.length)
      PROVE  SubSeq(initiator.buffer, 1, command.length) = Bytes(command.length)
  <2>1. command.length <= Len(initiator.buffer) /\ \A j \in 1 .. command.length : initiator.buffer[j] = j
    BY <1>1, <1>2 DEF Filled
  <2>2. command.length \in Nat /\ initiator.buffer \in Seq(Int)
    BY PlacesTyped, InitiatorTyped
  <2>3. SubSeq(initiator.buffer, 1, command.length) = [j \in 1 .. command.length |-> initiator.buffer[j]]
    BY <2>1, <2>2, SubSeqProperties
  <2> QED
    BY <2>1, <2>2, <2>3 DEF Bytes
<1> QED
  BY <1>1, <1>2 DEF GoodMeansDelivered, Delivered

\* Every reachable state satisfies the invariant, whoever gives up on whom.
THEOREM HandshakeInvariant == HandshakeSpec => []HandshakeInv
<1>1. HandshakeInit => HandshakeInv
  BY HandshakeStarts
<1>2. HandshakeInv /\ [HandshakeNext]_vars => HandshakeInv'
  BY TargetKeeps, InitiatorKeeps, StartKeeps, StutteringKeeps DEF HandshakeNext
<1> QED
  BY <1>1, <1>2, PTL DEF HandshakeSpec

\* A command that Execute() ends with GOOD has delivered its CDB and its data, for any CDB, chunk
\* and buffer size (controller.cpp:353-537, initiator_executor.cpp:95-257).
THEOREM GoodMeansDeliveredTheorem == HandshakeSpec => []GoodMeansDelivered
  BY HandshakeInvariant, InvariantDelivers, PTL

-----------------------------------------------------------------------------
(* Commands without a status. The invariant follows a command that only    *)
(* the bus and the two sides can deprive of its status (Fair): as long as  *)
(* nobody gives up on a side that is about to go on, there is always a     *)
(* side that can go on, and the status arrives. Such a command can only be *)
(* lost when the target has spent its selection on an asserted RST, and    *)
(* this leaves a target that nothing disturbs.                             *)

\* The conditions of Lost
Fair == ~history.late /\ history.free /\ command.ok /\ command.size = command.length

\* A free target without RST
Undisturbed == target.pc = "free" /\ lines["target"] = {}

SelectingFairly ==
    initiator.pc \in Selecting /\ Fair =>
        /\ initiator.pc = "arbitration" => target.pc = "free"
        /\ initiator.pc = "attention" => edge
        /\ history.lost = 1 /\ target.pc = "free" => lines["target"] = {} /\ (initiator.pc = "busy" => edge)
        /\ initiator.pc = "busy" /\ target.pc = "free" /\ ~edge => lines["target"] = {}
        /\ target.pc = "selection" => target.status = Good

\* Nobody has given up, both sides take part in the same handshake, and the initiator only leaves a
\* phase with all of its bytes.
NothingLost ==
    /\ initiator.pc \notin {"exception", "pulse", "return"} /\ history.broken = {}
    /\ target.pc # "free" /\ target.status = Good
    /\ target.pc = "last" => target.count = target.length
    /\ initiator.pc \in {"end", "release"} =>
        initiator.phase = target.phase /\ target.pc \in {"ack", "release", "put", "clear", "sent", "last"}
    /\ initiator.pc \in {"release", "check"} => initiator.seen = initiator.phase
    /\ command.op = "DATA_OUT" /\ Rank(target.phase) > 3 =>
        \/ initiator.phase = "STATUS"
        \/ initiator.phase = "DATA_OUT" /\ Moved("DATA_OUT", command.size) = command.size

\* The initiator has taken the status.
StatusTaken == initiator.phase = "STATUS" /\ initiator.pc \in {"end", "release", "check", "loop"}

\* The target only leaves STATUS when the initiator has taken the status.
StatusAwaited ==
    /\ initiator.phase = "STATUS" /\ initiator.pc = "request" => target.phase = "STATUS" /\ target.pc = "sent"
    /\ StatusTaken => initiator.status = Good
    /\ StatusTaken /\ target.phase = "STATUS" /\ target.pc # "sent" => target.count = target.length
    /\ StatusTaken /\ target.phase = "STATUS" /\ target.pc = "sent" => initiator.pc = "end"
    /\ target.phase \in {"STATUS", "MSG_IN"} => target.length = 1
    /\ target.phase = "STATUS" /\ target.count > 0 => StatusTaken
    /\ target.phase = "MSG_IN" => StatusTaken /\ target.count = 0

WorkingFairly ==
    InCommand /\ Fair =>
        IF initiator.phase = "MSG_IN"
        THEN initiator.status # NoStatus /\ initiator.pc \in {"message", "message end", "return"}
        ELSE NothingLost /\ StatusAwaited

LossInv ==
    /\ history.lost \in {0, 1}
    /\ initiator.pc = "idle" /\ history.lost = 1 => Undisturbed /\ ~edge
    /\ SelectingFairly /\ WorkingFairly

\* A command that nobody has given up on yet
Unlost == HandshakeInv /\ InCommand /\ Fair /\ initiator.phase # "MSG_IN" /\ NothingLost /\ StatusAwaited

\* The two sides never wait for each other.
LEMMA SomeoneWaits ==
    ASSUME HandshakeInv, InCommand, target.pc # "free"
    PROVE  InitiatorWaitsFor \/ TargetWaitsFor
<1>1. target.pc \in TargetSteps /\ initiator.pc \in InitiatorSteps
  BY PlacesTyped
<1>2. initiator.pc \notin {"idle", "arbitration", "busy", "attention"}
  BY DEF InCommand, Selecting
<1>3. CASE initiator.pc \in {"loop", "request", "message"}
  <2>1. CASE target.pc \in {"ack", "sent"}
    BY <1>3, <2>1, Signals DEF InitiatorWaitsFor
  <2>2. CASE target.pc = "selection"
    BY <1>2, <2>2, Signals DEF TargetWaitsFor
  <2>3. CASE target.pc \in {"release", "clear", "last"}
    BY <1>3, <2>3, Signals DEF TargetWaitsFor
  <2>4. CASE target.pc \in {"process", "request", "put"}
    BY <2>4 DEF TargetWaitsFor
  <2> QED
    BY <1>1, <2>1, <2>2, <2>3, <2>4 DEF TargetSteps
<1>4. CASE initiator.pc \in {"end", "message end"}
  <2>1. CASE target.pc \in {"ack", "sent"}
    BY <1>4, <2>1, Signals DEF TargetWaitsFor
  <2>2. CASE target.pc \notin {"ack", "sent"}
    BY <1>4, <2>2, Signals DEF InitiatorWaitsFor
  <2> QED
    BY <2>1, <2>2
<1>5. CASE initiator.pc \notin {"loop", "request", "message", "end", "message end"}
  BY <1>2, <1>5 DEF InitiatorWaitsFor
<1> QED
  BY <1>3, <1>4, <1>5

LEMMA UnlostFacts ==
    ASSUME Unlost
    PROVE  /\ Active /\ ~Doomed /\ "RST" \notin Level
           /\ "ACK" \in Level <=> initiator.pc \in {"end", "release"}
           /\ command.ok /\ command.size = command.length /\ history.broken = {} /\ target.status = Good
           /\ InitiatorWaitsFor \/ TargetWaitsFor
<1>1. HandshakeInv /\ InCommand /\ InitiatorPlace /\ initiator.phase # "MSG_IN" /\ NothingLost
  BY DEF Unlost, HandshakeInv, Places
<1>2. target.pc # "free" /\ history.broken = {} /\ target.status = Good /\ initiator.pc \notin {"exception", "pulse"}
  BY <1>1 DEF NothingLost
<1>3. Active /\ "RST" \notin Level
  BY <1>1, <1>2, Signals DEF Active
<1>4. initiator.pc \notin {"message", "message end"}
  BY <1>1 DEF InitiatorPlace
<1>5. "ACK" \in Level <=> initiator.pc \in {"end", "release"}
  BY <1>1, <1>4, Signals
<1>6. ~Doomed
  <2>1. initiator.pc \in {"release", "check"} => initiator.seen # TimedOut
    BY <1>1 DEF InitiatorPlace, NothingLost, Phases, TimedOut, Unlost, InCommand, HandshakeInv, Typed, InitiatorStates
  <2> QED
    BY <1>2, <2>1 DEF Doomed
<1> QED
  BY <1>1, <1>2, <1>3, <1>5, <1>6, SomeoneWaits DEF Unlost, Fair

\* Both sides are fair to the command before a step when they are after it.
LEMMA StillFair ==
    ASSUME command' = command, history'.free = history.free, history.late => history'.late, Fair'
    PROVE  Fair
  BY DEF Fair

LEMMA TargetGivesUpLate ==
    ASSUME Typed, TargetGivesUp
    PROVE  /\ history'.free = history.free /\ history'.lost = history.lost /\ history'.broken = history.broken
           /\ history.late \/ InitiatorWaitsFor => history'.late
<1>1. CASE history.late \/ InitiatorWaitsFor
  <2>1. history' = [history EXCEPT !.late = TRUE]
    BY <1>1 DEF TargetGivesUp, GivesUp
  <2> QED
    BY <2>1 DEF Typed, Histories
<1>2. CASE ~(history.late \/ InitiatorWaitsFor)
  <2>1. history' = [history EXCEPT !.late = FALSE]
    BY <1>2 DEF TargetGivesUp, GivesUp
  <2> QED
    BY <1>2, <2>1 DEF Typed, Histories
<1> QED
  BY <1>1, <1>2

LEMMA InitiatorGivesUpLate ==
    ASSUME Typed, InitiatorGivesUp
    PROVE  /\ history'.free = history.free /\ history'.lost = history.lost
           /\ history.late \/ TargetWaitsFor => history'.late
<1>1. CASE history.late \/ TargetWaitsFor
  <2>1. history' = [history EXCEPT !.late = TRUE, !.broken = @ \cup {initiator.phase}]
    BY <1>1 DEF InitiatorGivesUp
  <2> QED
    BY <2>1 DEF Typed, Histories
<1>2. CASE ~(history.late \/ TargetWaitsFor)
  <2>1. history' = [history EXCEPT !.late = FALSE, !.broken = @ \cup {initiator.phase}]
    BY <1>2 DEF InitiatorGivesUp
  <2> QED
    BY <1>2, <2>1 DEF Typed, Histories
<1> QED
  BY <1>1, <1>2

-----------------------------------------------------------------------------
(* A fair command and the steps of the target                              *)

\* A step of the target that does not give up
LEMMA TargetGoesOn ==
    ASSUME Unlost, TargetOnly
    PROVE  /\ initiator' = initiator /\ command' = command /\ history' = history
           /\ Moved("DATA_OUT", command.size)' = Moved("DATA_OUT", command.size)
           /\ (StatusTaken' <=> StatusTaken)
  BY DEF TargetOnly, Moved, StatusTaken

\* A new phase while the initiator has not yet got so far
LEMMA NewPhaseUnlost ==
    ASSUME Unlost, TargetOnly, target'.pc \in {"process", "request"}, target'.status = Good,
           target.pc \in {"selection", "process"} \/ ("ACK" \notin Level /\ initiator.phase # "STATUS"),
           initiator.phase # "STATUS" \/ target'.phase = "MSG_IN",
           target'.phase \in {"STATUS", "MSG_IN"} => target'.length = 1 /\ target'.count = 0,
           target'.phase = "MSG_IN" => target.phase = "STATUS" /\ target.count > 0,
           command.op = "DATA_OUT" /\ target'.phase = "STATUS" =>
               initiator.phase = "DATA_OUT" /\ Moved("DATA_OUT", command.size) = command.size
    PROVE  (NothingLost /\ StatusAwaited)'
<1>1. /\ NothingLost /\ StatusAwaited /\ initiator' = initiator /\ command' = command /\ history' = history
      /\ Moved("DATA_OUT", command.size)' = Moved("DATA_OUT", command.size)
      /\ (StatusTaken' <=> StatusTaken)
  BY TargetGoesOn DEF Unlost
<1>2. initiator.pc \notin {"end", "release"}
  BY <1>1, UnlostFacts DEF NothingLost
<1>3. target'.phase = "MSG_IN" => StatusTaken /\ initiator.phase = "STATUS"
  BY <1>1 DEF StatusAwaited, StatusTaken
<1>4. Rank(target'.phase) > 3 => target'.phase \in {"STATUS", "MSG_IN"}
  BY Ranks
<1>5. NothingLost'
  BY <1>1, <1>2, <1>3, <1>4 DEF NothingLost
<1>6. target'.phase # "MSG_IN" => ~StatusTaken
  BY DEF StatusTaken
<1>7. initiator.phase = "STATUS" => initiator.pc # "request"
  BY <1>1, <1>3 DEF StatusTaken
<1>8. target'.phase = "STATUS" => ~(target'.count > 0)
  OBVIOUS
<1>9. StatusAwaited'
  BY <1>1, <1>3, <1>6, <1>7, <1>8 DEF StatusAwaited
<1> QED
  BY <1>5, <1>9

\* A step within a phase
LEMMA SamePhaseUnlost ==
    ASSUME Unlost, TargetOnly, target'.pc # "free", target'.status = Good, target'.phase = target.phase,
           target'.length = target.length,
           target'.pc = "last" => target'.count = target'.length,
           initiator.pc \in {"end", "release"} => target'.pc \in {"ack", "release", "put", "clear", "sent", "last"},
           target.phase = "STATUS" /\ target.pc = "sent" => initiator.pc \in {"end", "release"},
           target.phase = "STATUS" => target'.count = target.count \/ StatusTaken,
           target.phase = "STATUS" /\ StatusTaken => target'.count = target'.length /\ target'.pc # "sent",
           target.phase = "MSG_IN" => target'.count = 0
    PROVE  (NothingLost /\ StatusAwaited)'
<1>1. /\ NothingLost /\ StatusAwaited /\ initiator' = initiator /\ command' = command /\ history' = history
      /\ Moved("DATA_OUT", command.size)' = Moved("DATA_OUT", command.size)
      /\ (StatusTaken' <=> StatusTaken)
  BY TargetGoesOn DEF Unlost
<1>2. NothingLost'
  BY <1>1 DEF NothingLost
<1>3. ~(initiator.phase = "STATUS" /\ initiator.pc = "request")
  BY <1>1 DEF StatusAwaited
<1>4. StatusAwaited'
  BY <1>1, <1>3 DEF StatusAwaited
<1> QED
  BY <1>2, <1>4

\* What a step that changes a few fields of the target leaves
LEMMA TargetFields ==
    ASSUME Typed, NEW pc \in TargetSteps, NEW n \in Nat, target' = [target EXCEPT !.count = n, !.pc = pc]
    PROVE  /\ target'.pc = pc /\ target'.count = n /\ target'.phase = target.phase
           /\ target'.length = target.length /\ target'.status = target.status
  BY DEF Typed, TargetStates

LEMMA TargetPcOnly ==
    ASSUME Typed, NEW pc \in TargetSteps, target' = [target EXCEPT !.pc = pc]
    PROVE  /\ target'.pc = pc /\ target'.count = target.count /\ target'.phase = target.phase
           /\ target'.length = target.length /\ target'.status = target.status
  BY DEF Typed, TargetStates

LEMMA EndSelectionUnlost ==
    ASSUME Unlost, EndSelection
    PROVE  (NothingLost /\ StatusAwaited)'
<1>1. HandshakeInv /\ Typed /\ TargetPlace /\ Together /\ InitiatorPlace /\ Active /\ InCommand
  BY UnlostFacts DEF Unlost, HandshakeInv, Places
<1>2. target.pc = "selection" /\ UNCHANGED <<dat, edge>> /\ TargetOnly
  BY DEF EndSelection
<1>3. Handshake("MSG_OUT", 1, "process") \/ Handshake("COMMAND", CdbLength, "request")
  BY UnlostFacts DEF EndSelection, TargetReset, Command
<1>4. PICK p \in {"MSG_OUT", "COMMAND"}, n \in Nat, pc \in {"process", "request"} : Handshake(p, n, pc)
  BY <1>3, InitiatorTyped, <1>1
<1>5. target'.pc = pc /\ target'.phase = p /\ target'.status = target.status
  BY <1>1, <1>4 DEF Handshake, Typed, TargetStates
<1>6. target.status = Good
  BY UnlostFacts
<1>7. initiator.phase # "STATUS"
  <2>1. target.phase = "SELECTION"
    BY <1>1, <1>2 DEF TargetPlace
  <2>2. Rank(target.phase) = 0 /\ Rank("STATUS") = 4
    BY <2>1 DEF Rank, Data
  <2> QED
    BY <1>1, <2>2 DEF Together
<1> QED
  BY <1>2, <1>4, <1>5, <1>6, <1>7, NewPhaseUnlost

LEMMA StartHandshakeUnlost ==
    ASSUME Unlost, StartHandshake
    PROVE  (NothingLost /\ StatusAwaited)'
<1>1. Typed /\ NothingLost /\ StatusAwaited
  BY DEF Unlost, HandshakeInv
<1>2. target.pc = "process" /\ target.count < target.length /\ TargetOnly
  BY DEF StartHandshake
<1>3. PICK pc \in {"put", "request"} : target' = [target EXCEPT !.pc = pc]
  BY DEF StartHandshake
<1>4. /\ target'.pc = pc /\ target'.count = target.count /\ target'.phase = target.phase
      /\ target'.length = target.length /\ target'.status = target.status
  BY <1>1, <1>3, TargetPcOnly DEF TargetSteps
<1>5. initiator.pc \notin {"end", "release"} /\ target.status = Good
  BY <1>1, <1>2 DEF NothingLost
<1>6. target.count # target.length
  BY <1>2, PlacesTyped DEF Unlost
<1>7. target.phase = "STATUS" => ~StatusTaken
  BY <1>1, <1>2, <1>6 DEF StatusAwaited
<1>8. target.phase = "MSG_IN" => target.count = 0
  BY <1>1 DEF StatusAwaited
<1> QED
  BY <1>2, <1>4, <1>5, <1>7, <1>8, SamePhaseUnlost

LEMMA RequestUnlost ==
    ASSUME Unlost, Request
    PROVE  (NothingLost /\ StatusAwaited)'
<1>1. Typed /\ TargetPlace /\ NothingLost
  BY DEF Unlost, HandshakeInv, Places
<1>2. target.pc = "request" /\ target' = [target EXCEPT !.pc = "ack"] /\ TargetOnly
  BY DEF Request
<1>3. /\ target'.pc = "ack" /\ target'.count = target.count /\ target'.phase = target.phase
      /\ target'.length = target.length /\ target'.status = target.status
  BY <1>1, <1>2, TargetPcOnly DEF TargetSteps
<1>4. target.phase \notin {"STATUS", "MSG_IN"} /\ target.status = Good
  BY <1>1, <1>2 DEF TargetPlace, Receiving, NothingLost
<1> QED
  BY <1>2, <1>3, <1>4, SamePhaseUnlost

LEMMA ReceiveUnlost ==
    ASSUME Unlost, Receive
    PROVE  (NothingLost /\ StatusAwaited)'
<1>1. Typed /\ TargetPlace /\ NothingLost
  BY DEF Unlost, HandshakeInv, Places
<1>2. target.pc = "ack" /\ target' = [Received(Driven("initiator")) EXCEPT !.pc = "release"] /\ TargetOnly
  BY DEF Receive
<1>3. /\ target'.pc = "release" /\ target'.count = target.count /\ target'.phase = target.phase
      /\ target'.length = target.length /\ target'.status = target.status
  <2>1. CASE target.phase = "COMMAND"
    BY <1>1, <1>2, <2>1 DEF Received, Typed, TargetStates
  <2>2. CASE target.phase = "DATA_OUT"
    BY <1>1, <1>2, <2>2 DEF Received, Typed, TargetStates
  <2>3. CASE target.phase \notin {"COMMAND", "DATA_OUT"}
    BY <1>1, <1>2, <2>3 DEF Received, Typed, TargetStates
  <2> QED
    BY <2>1, <2>2, <2>3
<1>4. target.phase \notin {"STATUS", "MSG_IN"} /\ target.status = Good
  BY <1>1, <1>2 DEF TargetPlace, Receiving, NothingLost
<1> QED
  BY <1>2, <1>3, <1>4, SamePhaseUnlost

LEMMA PutUnlost ==
    ASSUME Unlost, Put
    PROVE  (NothingLost /\ StatusAwaited)'
<1>1. Typed /\ TargetPlace /\ NothingLost /\ StatusAwaited
  BY DEF Unlost, HandshakeInv, Places
<1>2. target.pc = "put" /\ target' = [target EXCEPT !.pc = "clear"] /\ TargetOnly
  BY DEF Put
<1>3. /\ target'.pc = "clear" /\ target'.count = target.count /\ target'.phase = target.phase
      /\ target'.length = target.length /\ target'.status = target.status
  BY <1>1, <1>2, TargetPcOnly DEF TargetSteps
<1>4. target.count # target.length /\ target.status = Good
  BY <1>1, <1>2, PlacesTyped DEF TargetPlace, NothingLost, Unlost
<1>5. target.phase = "STATUS" => ~StatusTaken
  BY <1>1, <1>2, <1>4 DEF StatusAwaited
<1>6. target.phase = "MSG_IN" => target.count = 0
  BY <1>1 DEF StatusAwaited
<1> QED
  BY <1>2, <1>3, <1>4, <1>5, <1>6, SamePhaseUnlost

LEMMA OfferUnlost ==
    ASSUME Unlost, Offer
    PROVE  (NothingLost /\ StatusAwaited)'
<1>1. Typed /\ TargetPlace /\ NothingLost /\ StatusAwaited
  BY DEF Unlost, HandshakeInv, Places
<1>2. target.pc = "clear" /\ target' = [target EXCEPT !.pc = "sent"] /\ TargetOnly
  BY DEF Offer
<1>3. /\ target'.pc = "sent" /\ target'.count = target.count /\ target'.phase = target.phase
      /\ target'.length = target.length /\ target'.status = target.status
  BY <1>1, <1>2, TargetPcOnly DEF TargetSteps
<1>4. target.count # target.length /\ target.status = Good
  BY <1>1, <1>2, PlacesTyped DEF TargetPlace, NothingLost, Unlost
<1>5. target.phase = "STATUS" => ~StatusTaken
  BY <1>1, <1>2, <1>4 DEF StatusAwaited
<1>6. target.phase = "MSG_IN" => target.count = 0
  BY <1>1 DEF StatusAwaited
<1> QED
  BY <1>2, <1>3, <1>4, <1>5, <1>6, SamePhaseUnlost

LEMMA SentUnlost ==
    ASSUME Unlost, Sent
    PROVE  (NothingLost /\ StatusAwaited)'
<1>1. Typed /\ TargetPlace /\ NothingLost /\ StatusAwaited /\ initiator.phase # "MSG_IN"
  BY DEF Unlost, HandshakeInv, Places
<1>2. target.pc = "sent" /\ "ACK" \in Level /\ TargetOnly
  BY DEF Sent, TargetWaitsFor
<1>3. initiator.pc \in {"end", "release"} /\ initiator.phase = target.phase
  BY <1>1, <1>2, UnlostFacts DEF NothingLost
<1>4. target.count \in Nat /\ target.length \in Nat /\ target.count < target.length
  BY <1>1, <1>2, PlacesTyped DEF TargetPlace, Unlost
<1>5. PICK pc \in {"put", "last"} :
        target' = [target EXCEPT !.count = target.count + 1, !.pc = pc]
        /\ pc = IF target.count + 1 < target.length THEN "put" ELSE "last"
  BY DEF Sent
<1>6. /\ target'.pc = pc /\ target'.count = target.count + 1 /\ target'.phase = target.phase
      /\ target'.length = target.length /\ target'.status = target.status
  <2>1. target.count + 1 \in Nat
    BY <1>4
  <2> QED
    BY <1>1, <1>5, <2>1, TargetFields DEF TargetSteps
<1>7. pc = "last" => target'.count = target'.length
  BY <1>4, <1>5, <1>6
<1>8. target.phase = "STATUS" => StatusTaken /\ target'.count = target'.length
  <2>1. target.phase = "STATUS" => target.length = 1 /\ StatusTaken
    BY <1>1, <1>3 DEF StatusAwaited, StatusTaken
  <2> QED
    BY <1>4, <1>6, <2>1
<1>9. target.status = Good /\ target.phase # "MSG_IN"
  BY <1>1, <1>3 DEF NothingLost
<1> QED
  BY <1>2, <1>3, <1>5, <1>6, <1>7, <1>8, <1>9, SamePhaseUnlost

LEMMA EndSendUnlost ==
    ASSUME Unlost, EndSend
    PROVE  (NothingLost /\ StatusAwaited)'
<1>1. Typed /\ NothingLost /\ StatusAwaited
  BY DEF Unlost, HandshakeInv
<1>2. target.pc = "last" /\ "ACK" \notin Level /\ AllSent /\ TargetOnly
  BY DEF EndSend, TargetWaitsFor
<1>3. target' = [target EXCEPT !.pc = "process"] /\ target.count = target.length /\ target.status = Good
  BY <1>1, <1>2 DEF AllSent, NothingLost
<1>4. /\ target'.pc = "process" /\ target'.count = target.count /\ target'.phase = target.phase
      /\ target'.length = target.length /\ target'.status = target.status
  BY <1>1, <1>3, TargetPcOnly DEF TargetSteps
<1>5. initiator.pc \notin {"end", "release"}
  BY <1>2, UnlostFacts
<1>6. target.phase = "MSG_IN" => target.count = 0
  BY <1>1 DEF StatusAwaited
<1> QED
  BY <1>2, <1>3, <1>4, <1>5, <1>6, SamePhaseUnlost

\* A device that cannot fail transfers the next chunk.
LEMMA TransferUnlost ==
    ASSUME Unlost, NEW rest \in Nat, Transfer(target, rest), command.op \in Data
    PROVE  target'.pc = "process" /\ target'.phase = command.op /\ target'.status = Good
<1>1. Typed /\ command.ok /\ target.status = Good
  BY UnlostFacts DEF Unlost, HandshakeInv
<1> DEFINE n == IF rest < command.chunk THEN rest ELSE command.chunk
<1>2. Enter([target EXCEPT !.rest = rest - n], command.op, n)
  BY <1>1 DEF Transfer
<1>3. n \in Nat /\ rest - n \in Nat
  BY PlacesTyped DEF Unlost
<1> HIDE DEF n
<1>4. target' = [[target EXCEPT !.rest = rest - n] EXCEPT !.phase = command.op, !.count = 0, !.length = n,
                                                        !.pc = "process"]
  BY <1>2 DEF Enter
<1> QED
  BY <1>1, <1>3, <1>4 DEF Typed, TargetStates

LEMMA StatusUnlost ==
    ASSUME Unlost, Status(target, Good)
    PROVE  /\ target'.pc = "process" /\ target'.phase = "STATUS" /\ target'.count = 0 /\ target'.length = 1
           /\ target'.status = Good
  BY DEF Unlost, HandshakeInv, Typed, TargetStates, Status, Enter

LEMMA ExecuteUnlost ==
    ASSUME Unlost, EndReceive, target.count + 1 = target.length, target.phase = "COMMAND"
    PROVE  (NothingLost /\ StatusAwaited)'
<1>1. Execute /\ TargetOnly /\ "ACK" \notin Level
  BY DEF EndReceive, AckReleased
<1>2. initiator.phase # "STATUS"
  <2>1. Together /\ Active
    BY UnlostFacts DEF Unlost, HandshakeInv, Places
  <2>2. Rank(target.phase) = 2 /\ Rank("STATUS") = 4
    BY DEF Rank, Data
  <2> QED
    BY <2>1, <2>2 DEF Together
<1>3. command.op \in {"DATA_IN", "DATA_OUT", "STATUS"} /\ (command.op = "STATUS" <=> command.length = 0)
      /\ command.length \in Nat
  BY PlacesTyped DEF Unlost
<1>4. CASE command.length > 0
  <2>1. Transfer(target, command.length)
    BY <1>1, <1>4 DEF Execute
  <2>2. command.op \in Data
    BY <1>3, <1>4 DEF Data
  <2>3. target'.pc = "process" /\ target'.phase \notin {"STATUS", "MSG_IN"} /\ target'.status = Good
    BY <1>3, <2>1, <2>2, TransferUnlost DEF Data
  <2> QED
    BY <1>1, <1>2, <2>3, NewPhaseUnlost
<1>5. CASE ~(command.length > 0)
  <2>1. Status(target, Good) /\ command.op # "DATA_OUT"
    BY <1>1, <1>3, <1>5, UnlostFacts DEF Execute
  <2> QED
    BY <1>1, <1>2, <2>1, StatusUnlost, NewPhaseUnlost
<1> QED
  BY <1>4, <1>5

LEMMA EndReceiveUnlost ==
    ASSUME Unlost, EndReceive
    PROVE  (NothingLost /\ StatusAwaited)'
<1>1. Typed /\ TargetPlace /\ NothingLost
  BY DEF Unlost, HandshakeInv, Places
<1>2. target.pc = "release" /\ "ACK" \notin Level /\ TargetOnly
  BY DEF EndReceive, AckReleased
<1>3. CASE ~(target.count + 1 = target.length /\ target.phase = "COMMAND")
  <2>1. PICK pc \in {"request", "process"} : target' = [target EXCEPT !.count = target.count + 1, !.pc = pc]
    BY <1>3 DEF EndReceive
  <2>2. /\ target'.pc = pc /\ target'.phase = target.phase
        /\ target'.length = target.length /\ target'.status = target.status
    <3>1. target.count + 1 \in Nat
      BY PlacesTyped DEF Unlost
    <3> QED
      BY <1>1, <2>1, <3>1, TargetFields DEF TargetSteps
  <2>3. target.phase \notin {"STATUS", "MSG_IN"} /\ target.status = Good
    BY <1>1, <1>2 DEF TargetPlace, Receiving, NothingLost
  <2>4. initiator.pc \notin {"end", "release"}
    BY <1>2, UnlostFacts
  <2> QED
    BY <1>2, <2>1, <2>2, <2>3, <2>4, SamePhaseUnlost
<1> QED
  BY <1>3, ExecuteUnlost

\* All data have been received: the initiator has sent all of them.
LEMMA AllMoved ==
    ASSUME Unlost, target.pc = "process", target.phase = "DATA_OUT", target.count = target.length, target.rest = 0
    PROVE  initiator.phase = "DATA_OUT" /\ Moved("DATA_OUT", command.size) = command.size
<1>1. Together /\ DataReceived /\ Active /\ ~Doomed /\ command.size = command.length /\ HandshakeInv
  BY UnlostFacts DEF Unlost, HandshakeInv, Places, Transfers
<1>2. command.op = "DATA_OUT"
  BY <1>1 DEF Together, Data
<1>3. command.length \in Nat \ {0} /\ target.length \in Nat
  BY <1>1, <1>2, PlacesTyped
<1>4. InStep(target.data, Counted, Moved("DATA_OUT", command.size))
  BY <1>1, <1>2, <1>3 DEF DataReceived
<1>5. Counted = command.length
  BY <1>3 DEF Counted
<1>6. target.data = Bytes(command.length + 0) /\ Len(target.data) = Moved("DATA_OUT", command.size) + 0
  BY <1>4, <1>5 DEF InStep
<1>7. Moved("DATA_OUT", command.size) \in Int
  BY <1>1, <1>3, PlacesTyped DEF Moved
<1>8. command.length + 0 = command.length /\ Moved("DATA_OUT", command.size) + 0 = Moved("DATA_OUT", command.size)
  BY <1>3, <1>7
<1>9. Moved("DATA_OUT", command.size) = command.length
  BY <1>3, <1>6, <1>8, BytesLength
<1>10. initiator.phase = "DATA_OUT"
  BY <1>3, <1>9 DEF Moved
<1> QED
  BY <1>1, <1>9, <1>10

LEMMA NextPhaseUnlost ==
    ASSUME Unlost, NextPhase
    PROVE  (NothingLost /\ StatusAwaited)'
<1>1. Typed /\ TargetPlace /\ Together /\ Active /\ StatusAwaited
  BY UnlostFacts DEF Unlost, HandshakeInv, Places
<1>2. target.pc = "process" /\ target.count = target.length /\ TargetOnly
  BY DEF NextPhase
<1>3. target.phase \in {"MSG_OUT", "DATA_OUT", "DATA_IN", "STATUS", "MSG_IN"}
  BY <1>1, <1>2 DEF TargetPlace, Off, Phases
<1>4. target.phase \notin {"STATUS", "MSG_IN"} => initiator.phase # "STATUS"
  <2>1. target.phase \notin {"STATUS", "MSG_IN"} => Rank(target.phase) <= 3
    BY Ranks
  <2>2. Rank("STATUS") = 4 /\ Rank(target.phase) \in 0 .. 5
    BY Ranks DEF Rank, Data
  <2> QED
    BY <1>1, <2>1, <2>2 DEF Together
<1>5. CASE target.phase = "MSG_OUT"
  <2>1. Handshake("MSG_OUT", 1, "process") \/ Handshake("COMMAND", CdbLength, "request")
    BY <1>5 DEF NextPhase, Command
  <2>2. PICK p \in {"MSG_OUT", "COMMAND"}, n \in Nat, pc \in {"process", "request"} : Handshake(p, n, pc)
    BY <2>1, InitiatorTyped DEF Unlost
  <2>3. target'.pc = pc /\ target'.phase = p /\ target'.status = target.status
    BY <1>1, <2>2 DEF Handshake, Typed, TargetStates
  <2> QED
    BY <1>2, <1>4, <1>5, <2>2, <2>3, UnlostFacts, NewPhaseUnlost
<1>6. CASE target.phase \in Data /\ target.rest > 0
  <2>1. Transfer(target, target.rest) /\ target.rest \in Nat
    BY <1>6, PlacesTyped DEF NextPhase, Data, Unlost
  <2>2. command.op = target.phase
    BY <1>1, <1>6 DEF Together
  <2>3. target'.pc = "process" /\ target'.phase \notin {"STATUS", "MSG_IN"} /\ target'.status = Good
    BY <1>6, <2>1, <2>2, TransferUnlost DEF Data
  <2> QED
    BY <1>2, <1>4, <1>6, <2>3, NewPhaseUnlost DEF Data
<1>7. CASE target.phase \in Data /\ ~(target.rest > 0)
  <2>1. Status(target, Good) /\ target.rest = 0
    <3>1. target.rest = 0
      BY <1>7, PlacesTyped DEF Unlost
    <3> QED
      BY <1>7, <3>1 DEF NextPhase, Data
  <2>2. command.op = target.phase
    BY <1>1, <1>7 DEF Together
  <2>3. command.op = "DATA_OUT" => initiator.phase = "DATA_OUT" /\ Moved("DATA_OUT", command.size) = command.size
    BY <1>2, <2>1, <2>2, AllMoved
  <2> QED
    BY <1>2, <1>4, <1>7, <2>1, <2>3, StatusUnlost, NewPhaseUnlost DEF Data
<1>8. CASE target.phase = "STATUS"
  <2>1. Enter(target, "MSG_IN", 1) /\ target.count > 0
    BY <1>1, <1>2, <1>8 DEF NextPhase, StatusAwaited
  <2>2. /\ target'.pc = "process" /\ target'.phase = "MSG_IN" /\ target'.count = 0 /\ target'.length = 1
        /\ target'.status = target.status
    BY <1>1, <2>1 DEF Enter, Typed, TargetStates
  <2> QED
    BY <1>2, <1>8, <2>1, <2>2, UnlostFacts, NewPhaseUnlost
<1>9. CASE target.phase = "MSG_IN"
  BY <1>1, <1>2, <1>9 DEF StatusAwaited
<1> QED
  BY <1>3, <1>5, <1>6, <1>7, <1>8, <1>9 DEF Data

\* Steps of the target that do not give up
LEMMA GoingOn ==
    ASSUME TargetNext
    PROVE  TargetOnly \/ SelectionTimeout \/ TargetTimeout
  BY DEF TargetNext, TargetSelected, EndSelection, StartHandshake, NextPhase, ProcessReset, Request, Receive,
         EndReceive, Put, Offer, Sent, EndSend

\* What the steps of the target leave of the history and the command
LEMMA TargetLeaves ==
    ASSUME HandshakeInv, TargetNext
    PROVE  /\ initiator' = initiator /\ command' = command /\ history'.free = history.free
           /\ history'.lost = history.lost /\ (history.late => history'.late)
<1>1. Typed
  BY DEF HandshakeInv
<1>2. CASE TargetOnly
  BY <1>2 DEF TargetOnly
<1>3. CASE SelectionTimeout \/ TargetTimeout
  BY <1>1, <1>3, TargetGivesUpLate DEF SelectionTimeout, TargetTimeout
<1> QED
  BY <1>2, <1>3, GoingOn

\* A free target without an edge of SEL does nothing.
LEMMA TargetRests ==
    ASSUME target.pc = "free", ~edge, TargetNext
    PROVE  FALSE
  BY DEF TargetNext, TargetSelected, SelectionTimeout, EndSelection, StartHandshake, NextPhase, ProcessReset, Request,
         Receive, EndReceive, Put, Offer, Sent, EndSend, TargetTimeout, TargetWaitsFor, WaitHandShake

\* A target that gives up gives up on an initiator that is about to go on.
LEMMA TargetUnlost ==
    ASSUME Unlost, TargetNext, Fair'
    PROVE  (NothingLost /\ StatusAwaited)'
<1>1. target.pc # "free" /\ HandshakeInv /\ Typed
  BY DEF Unlost, NothingLost, HandshakeInv
<1>2. ~ProcessReset
  BY UnlostFacts DEF ProcessReset, TargetReset
<1>3. ~TargetSelected /\ ~SelectionTimeout
  BY <1>1 DEF TargetSelected, SelectionTimeout
<1>4. ~TargetTimeout
  <2> SUFFICES ASSUME TargetTimeout
               PROVE  FALSE
    OBVIOUS
  <2>1. TargetGivesUp /\ ~TargetWaitsFor
    BY DEF TargetTimeout, TargetGivesUp
  <2>2. history'.late
    BY <1>1, <2>1, UnlostFacts, TargetGivesUpLate
  <2> QED
    BY <2>2 DEF Fair
<1> QED
  BY <1>2, <1>3, <1>4, EndSelectionUnlost, StartHandshakeUnlost, NextPhaseUnlost, RequestUnlost, ReceiveUnlost,
     EndReceiveUnlost, PutUnlost, OfferUnlost, SentUnlost, EndSendUnlost DEF TargetNext

\* A fair initiator that selects the target, and the steps of the target
LEMMA TargetSelectsFairly ==
    ASSUME HandshakeInv, SelectingFairly, TargetNext, initiator.pc \in Selecting, Fair, Fair'
    PROVE  SelectingFairly'
<1>1. Typed /\ TargetLines /\ SelectionPlace /\ TargetPlace
  BY DEF HandshakeInv, Wires, Places
<1>2. initiator' = initiator /\ history'.lost = history.lost
  BY TargetLeaves
<1>3. target.pc \in Off
  BY <1>1 DEF SelectionPlace, SelectingFairly, Selecting, Off
<1>4. CASE TargetSelected
  <2>1. /\ target.pc = "free" /\ edge /\ "BSY" \notin Level /\ ~edge'
        /\ \/ "RST" \in Level /\ target' = AtRest /\ ResetOutputs("target")
           \/ /\ "RST" \notin Level /\ "SEL" \in Level
              /\ target' = [AtRest EXCEPT !.pc = "selection", !.phase = "SELECTION"] /\ Change("target", {"BSY"}, {})
           \/ {"RST", "SEL"} \cap Level = {} /\ UNCHANGED <<target, lines>>
    BY <1>4 DEF TargetSelected, TargetReset, TargetWaitsFor
  <2>2. initiator.pc \in {"arbitration", "busy"}
    BY <2>1, Signals DEF Selecting
  <2>3. history.lost = 1 => "RST" \notin Level
    <3>1. "RST" \notin lines["initiator"]
      <4>1. InitiatorLines /\ "RST" \notin Asserted(initiator.pc)
        BY <2>2 DEF HandshakeInv, Wires, Asserted
      <4> QED
        BY <4>1, InitiatorSignals
    <3> QED
      BY <2>1, <3>1, LevelOfLines DEF SelectingFairly
  <2>4. CASE "RST" \in Level
    <3>1. target' = AtRest /\ lines'["target"] = {}
      BY <1>1, <2>1, <2>4 DEF ResetOutputs, Typed, Outputs
    <3>2. target'.pc = "free"
      BY <3>1 DEF AtRest
    <3> QED
      BY <1>2, <2>2, <2>3, <2>4, <3>1, <3>2 DEF SelectingFairly
  <2>5. CASE "RST" \notin Level /\ initiator.pc = "busy"
    <3>1. "SEL" \in Level
      BY <2>5, Signals
    <3>2. target' = [AtRest EXCEPT !.pc = "selection", !.phase = "SELECTION"]
      BY <2>1, <2>5, <3>1
    <3>3. target'.pc = "selection" /\ target'.status = Good
      BY <3>2 DEF AtRest
    <3> QED
      BY <1>2, <2>5, <3>3 DEF SelectingFairly
  <2>6. CASE "RST" \notin Level /\ initiator.pc = "arbitration"
    <3>1. "SEL" \notin Level
      BY <2>6, Signals
    <3>2. target' = target /\ lines' = lines
      BY <2>1, <2>6, <3>1
    <3> QED
      BY <1>2, <2>1, <2>6, <3>2 DEF SelectingFairly
  <2> QED
    BY <2>2, <2>4, <2>5, <2>6
<1>5. ~SelectionTimeout
  <2> SUFFICES ASSUME SelectionTimeout
               PROVE  FALSE
    OBVIOUS
  <2>1. TargetGivesUp /\ target.pc = "free" /\ "BSY" \in Level
    BY DEF SelectionTimeout, TargetGivesUp, TargetWaitsFor
  <2>2. InitiatorWaitsFor
    BY <2>1, Signals DEF InitiatorWaitsFor
  <2>3. history'.late
    BY <1>1, <2>1, <2>2, TargetGivesUpLate
  <2> QED
    BY <2>3 DEF Fair
<1>6. ~EndSelection
  <2> SUFFICES ASSUME EndSelection
               PROVE  FALSE
    OBVIOUS
  <2>1. target.pc = "selection" /\ initiator.pc = "busy"
    BY <1>1 DEF EndSelection, SelectionPlace, SelectingFairly, Selecting
  <2>2. "SEL" \in Level /\ "RST" \notin Level
    BY <2>1, Signals
  <2> QED
    BY <2>1, <2>2 DEF EndSelection, TargetWaitsFor
<1>7. ~TargetTimeout
  BY <1>3 DEF Off, TargetTimeout, WaitHandShake
<1>8. ~(StartHandshake \/ NextPhase \/ ProcessReset \/ Request \/ Receive \/ EndReceive \/ Put \/ Offer \/ Sent \/ EndSend)
  BY <1>3 DEF Off, StartHandshake, NextPhase, ProcessReset, Request, Receive, EndReceive, Put, Offer, Sent, EndSend
<1> QED
  BY <1>4, <1>5, <1>6, <1>7, <1>8 DEF TargetNext

LEMMA TargetLoses ==
    ASSUME HandshakeInv, LossInv, TargetNext
    PROVE  LossInv'
<1>1. /\ initiator' = initiator /\ command' = command /\ history'.free = history.free
      /\ history'.lost = history.lost /\ (history.late => history'.late)
  BY TargetLeaves
<1>2. Fair' => Fair
  BY <1>1, StillFair
<1>3. initiator.pc = "idle" => history.lost # 1
  BY TargetRests DEF LossInv, Undisturbed
<1>4. SelectingFairly'
  <2>1. initiator'.pc \in Selecting /\ Fair' => initiator.pc \in Selecting /\ Fair
    BY <1>1, <1>2
  <2>2. ~(initiator'.pc \in Selecting /\ Fair') => SelectingFairly'
    BY DEF SelectingFairly
  <2> QED
    BY <2>1, <2>2, TargetSelectsFairly DEF LossInv
<1>5. WorkingFairly'
  <2>1. InCommand' <=> InCommand
    BY <1>1 DEF InCommand
  <2>2. CASE InCommand /\ Fair' /\ initiator.phase # "MSG_IN"
    <3>1. Unlost
      BY <1>2, <2>2 DEF Unlost, LossInv, WorkingFairly
    <3> QED
      BY <1>1, <2>2, <3>1, TargetUnlost DEF WorkingFairly
  <2>3. CASE InCommand /\ Fair' /\ initiator.phase = "MSG_IN"
    BY <1>1, <1>2, <2>3 DEF LossInv, WorkingFairly
  <2>4. CASE ~(InCommand /\ Fair')
    BY <2>1, <2>4 DEF WorkingFairly
  <2> QED
    BY <2>2, <2>3, <2>4
<1> QED
  BY <1>1, <1>3, <1>4, <1>5 DEF LossInv

-----------------------------------------------------------------------------
(* A fair command and the steps of the initiator                           *)

\* A step within the selection
LEMMA StillSelects ==
    ASSUME SelectingFairly, initiator.pc \in Selecting, initiator'.pc \in Selecting, target' = target,
           command' = command, history' = history, lines'["target"] = lines["target"],
           initiator'.pc = "arbitration" => initiator.pc = "arbitration",
           initiator'.pc = "attention" => edge', initiator'.pc = "busy" => edge'
    PROVE  SelectingFairly'
<1>1. Fair' <=> Fair
  BY DEF Fair
<1> QED
  BY <1>1 DEF SelectingFairly

\* While a command lasts, the count of the lost ones stays.
LEMMA LastingLoses ==
    ASSUME LossInv, history'.lost = history.lost, initiator'.pc # "idle", SelectingFairly', WorkingFairly'
    PROVE  LossInv'
  BY DEF LossInv

LEMMA SelectingLoses ==
    ASSUME HandshakeInv, LossInv, Arbitrate \/ AssertSel \/ Select
    PROVE  LossInv'
<1>1. Typed /\ SelectionPlace
  BY DEF HandshakeInv, Places
<1>2. /\ command' = command /\ target' = target /\ history' = history /\ lines'["target"] = lines["target"]
  <2>1. PICK on \in SUBSET AllSignals : \E off : Change("initiator", on, off)
    BY DEF Arbitrate, AssertSel, Select, AllSignals
  <2>2. lines'["target"] = lines["target"]
    BY <1>1, <2>1, InitiatorChange
  <2> QED
    BY <2>2 DEF Arbitrate, AssertSel, Select, InitiatorOnly
<1>3. PICK pc \in {"selection", "attention", "busy"} : initiator' = [initiator EXCEPT !.pc = pc]
  BY DEF Arbitrate, AssertSel, Select
<1>4. initiator'.pc = pc
  BY <1>1, <1>3 DEF Typed, InitiatorStates
<1>5. initiator'.pc \in Selecting /\ initiator.pc \in Selecting /\ initiator'.pc # "idle" /\ ~InCommand'
  BY <1>4 DEF Selecting, InCommand, Arbitrate, AssertSel, Select
<1>6. CASE Arbitrate
  <2>1. initiator'.pc = "selection"
    BY <1>1, <1>6 DEF Arbitrate, Typed, InitiatorStates
  <2>2. SelectingFairly'
    BY <1>2, <1>5, <2>1, StillSelects DEF LossInv
  <2> QED
    BY <1>2, <1>5, <2>2, LastingLoses DEF WorkingFairly
<1>7. CASE AssertSel
  <2>1. initiator'.pc = "attention" /\ edge'
    BY <1>1, <1>7 DEF AssertSel, Typed, InitiatorStates
  <2>2. SelectingFairly'
    BY <1>2, <1>5, <2>1, StillSelects DEF LossInv
  <2> QED
    BY <1>2, <1>5, <2>2, LastingLoses DEF WorkingFairly
<1>8. CASE Select
  <2>1. initiator.pc = "attention" /\ initiator'.pc = "busy" /\ edge' = edge
    BY <1>1, <1>8 DEF Select, Typed, InitiatorStates
  <2>2. CASE Fair
    <3>1. edge'
      BY <1>5, <2>1, <2>2 DEF LossInv, SelectingFairly
    <3>2. SelectingFairly'
      BY <1>2, <1>5, <2>1, <3>1, StillSelects DEF LossInv
    <3> QED
      BY <1>2, <1>5, <3>2, LastingLoses DEF WorkingFairly
  <2>3. CASE ~Fair
    <3>1. ~Fair'
      BY <1>2, <2>3 DEF Fair
    <3>2. SelectingFairly'
      BY <3>1 DEF SelectingFairly
    <3> QED
      BY <1>2, <1>5, <3>2, LastingLoses DEF WorkingFairly
  <2> QED
    BY <2>2, <2>3
<1> QED
  BY <1>6, <1>7, <1>8

\* The target has been selected.
LEMMA SelectedLoses ==
    ASSUME HandshakeInv, LossInv, Selected
    PROVE  LossInv'
<1>1. Typed /\ SelectionPlace /\ TargetPlace /\ InitiatorPlace
  BY DEF HandshakeInv, Places
<1>2. /\ initiator.pc = "busy" /\ "BSY" \in Level /\ initiator' = [initiator EXCEPT !.pc = "loop"]
      /\ command' = command /\ target' = target /\ history' = history
  BY DEF Selected, InitiatorWaitsFor, InitiatorOnly
<1>3. target.pc = "selection" /\ target.phase = "SELECTION"
  <2>1. target.pc # "free"
    BY <1>2, Signals
  <2> QED
    BY <1>1, <1>2, <2>1 DEF SelectionPlace, TargetPlace, Off
<1>4. initiator = [Idle EXCEPT !.pc = "busy", !.cdb = Cdb, !.size = command.size,
                               !.buffer = [i \in 1 .. command.size |-> 0]]
      /\ history.broken = {}
  BY <1>1, <1>2 DEF InitiatorPlace, Selecting
<1>5. initiator.phase = "BUS_FREE"
  BY <1>4 DEF Idle
<1>6. initiator'.pc = "loop" /\ initiator'.phase = "BUS_FREE"
  BY <1>1, <1>2, <1>5 DEF Typed, InitiatorStates
<1>7. Rank(target.phase) = 0
  BY <1>3 DEF Rank, Data
<1>8. ASSUME Fair'
      PROVE  (NothingLost /\ StatusAwaited)'
  <2>1. Fair
    BY <1>2, <1>8 DEF Fair
  <2>2. target.status = Good
    BY <1>2, <1>3, <2>1 DEF LossInv, SelectingFairly, Selecting
  <2>3. NothingLost'
    BY <1>2, <1>3, <1>4, <1>6, <1>7, <2>2 DEF NothingLost
  <2>4. StatusAwaited'
    BY <1>2, <1>3, <1>6 DEF StatusAwaited, StatusTaken
  <2> QED
    BY <2>3, <2>4
<1>9. WorkingFairly'
  BY <1>6, <1>8 DEF WorkingFairly
<1>10. SelectingFairly'
  BY <1>6 DEF SelectingFairly, Selecting
<1> QED
  BY <1>2, <1>6, <1>9, <1>10, LastingLoses

\* A new command, with nothing that speaks against it yet
LEMMA StartLoses ==
    ASSUME HandshakeInv, LossInv, NEW c \in Commands, Start(c)
    PROVE  LossInv'
<1>1. initiator.pc = "idle" /\ target' = target /\ lines' = lines /\ Typed
  BY DEF Start, HandshakeInv
<1>2. initiator'.pc = "arbitration"
  BY DEF Start, Idle
<1>3. history'.lost = history.lost /\ (history'.free => target.pc = "free")
  BY <1>1 DEF Start, Typed, Histories
<1>4. SelectingFairly'
  BY <1>1, <1>2, <1>3 DEF SelectingFairly, LossInv, Undisturbed, Fair
<1>5. WorkingFairly'
  BY <1>2 DEF WorkingFairly, InCommand, Selecting
<1> QED
  BY <1>2, <1>3, <1>4, <1>5, LastingLoses

LEMMA UnfairLost ==
    ASSUME ~Fair
    PROVE  Lost = 0
  BY DEF Fair, Lost

\* The end of a command with a status, or with somebody else to blame
LEMMA EndLoses ==
    ASSUME history'.lost = 0, initiator'.pc = "idle"
    PROVE  LossInv'
  BY DEF LossInv, SelectingFairly, WorkingFairly, InCommand, Selecting

LEMMA EndCommandLoses ==
    ASSUME HandshakeInv, LossInv, EndCommand \/ EndOfPulse
    PROVE  LossInv'
<1>1. initiator.pc \in {"return", "pulse"} /\ Typed
  BY DEF EndCommand, EndOfPulse, HandshakeInv
<1>2. initiator'.pc = "idle"
  BY DEF EndCommand, EndOfPulse, Return, Idle
<1>3. history'.lost = Lost
  BY <1>1 DEF EndCommand, EndOfPulse, Return, Typed, Histories
<1>4. InCommand
  BY <1>1 DEF InCommand, Selecting
<1>5. Lost = 0
  <2>1. CASE Fair
    <3>1. initiator.status # NoStatus
      BY <1>1, <1>4, <2>1 DEF LossInv, WorkingFairly, NothingLost
    <3> QED
      BY <2>1, <3>1 DEF Lost, Fair
  <2> QED
    BY <2>1, UnfairLost
<1> QED
  BY <1>2, <1>3, <1>5, EndLoses

\* Execute() gives up on a target that is about to go on.
LEMMA CommandTimeoutLoses ==
    ASSUME HandshakeInv, LossInv, CommandTimeout
    PROVE  LossInv'
<1>1. initiator.pc = "loop" /\ ~InitiatorWaitsFor /\ Typed /\ InCommand
  BY DEF CommandTimeout, HandshakeInv, InCommand, Selecting
<1>2. initiator'.pc = "idle"
  BY DEF CommandTimeout, Idle
<1>3. CASE history.late \/ TargetWaitsFor
  <2>1. history' = [history EXCEPT !.result = initiator.status, !.lost = 0, !.late = TRUE]
    BY <1>3 DEF CommandTimeout
  <2>2. history'.lost = 0
    BY <1>1, <2>1 DEF Typed, Histories
  <2> QED
    BY <1>2, <2>2, EndLoses
<1>4. CASE ~(history.late \/ TargetWaitsFor)
  <2>1. history' = [history EXCEPT !.result = initiator.status, !.lost = Lost, !.late = FALSE]
    BY <1>4 DEF CommandTimeout
  <2>2. history'.lost = Lost
    BY <1>1, <2>1 DEF Typed, Histories
  <2>3. ~Fair
    BY <1>1, <1>4, SomeoneWaits DEF LossInv, WorkingFairly, NothingLost
  <2> QED
    BY <1>2, <2>2, <2>3, UnfairLost, EndLoses
<1> QED
  BY <1>3, <1>4

\* The target has spent the edge of SEL on an RST.
LEMMA NotSelectedLoses ==
    ASSUME HandshakeInv, LossInv, NotSelected
    PROVE  LossInv'
<1>1. /\ initiator.pc \in {"arbitration", "busy"} /\ ~InitiatorWaitsFor /\ Typed /\ SelectionPlace
      /\ ResetOutputs("initiator") /\ edge' = edge /\ target' = target
  BY DEF NotSelected, HandshakeInv, Places
<1>2. initiator'.pc = "idle" /\ lines'["target"] = lines["target"]
  BY <1>1, InitiatorResets DEF NotSelected, Idle
<1>3. CASE history.late \/ TargetWaitsFor
  <2>1. history' = [history EXCEPT !.lost = 0, !.late = TRUE]
    BY <1>3 DEF NotSelected
  <2>2. history'.lost = 0
    BY <1>1, <2>1 DEF Typed, Histories
  <2> QED
    BY <1>2, <2>2, EndLoses
<1>4. CASE ~(history.late \/ TargetWaitsFor) /\ ~Fair
  <2>1. history' = [history EXCEPT !.lost = Lost, !.late = FALSE]
    BY <1>4 DEF NotSelected
  <2>2. history'.lost = Lost
    BY <1>1, <2>1 DEF Typed, Histories
  <2> QED
    BY <1>2, <1>4, <2>2, UnfairLost, EndLoses
<1>5. CASE ~(history.late \/ TargetWaitsFor) /\ Fair
  <2>1. SelectingFairly /\ initiator.pc \in Selecting
    BY <1>1 DEF LossInv, Selecting
  <2>2. initiator.pc = "busy"
    <3>1. initiator.pc = "arbitration" => target.pc = "free"
      BY <1>5, <2>1 DEF SelectingFairly
    <3>2. initiator.pc = "arbitration" => "BSY" \notin Level /\ "SEL" \notin Level
      BY <3>1, Signals
    <3> QED
      BY <1>1, <3>2 DEF InitiatorWaitsFor
  <2>3. target.pc = "free" /\ "BSY" \notin Level
    BY <1>1, <2>2, Signals DEF InitiatorWaitsFor
  <2>4. ~edge
    BY <1>5, <2>3 DEF TargetWaitsFor
  <2>5. history.lost # 1 /\ lines["target"] = {}
    BY <1>5, <2>1, <2>2, <2>3, <2>4 DEF SelectingFairly
  <2>6. history.lost = 0
    BY <2>5 DEF LossInv
  <2>7. history' = [history EXCEPT !.lost = Lost, !.late = FALSE]
    BY <1>5 DEF NotSelected
  <2>8. history'.lost = Lost
    BY <1>1, <2>7 DEF Typed, Histories
  <2>9. Lost \in {0, 1}
    BY <1>5, <2>6 DEF Lost, Fair
  <2>10. Undisturbed' /\ ~edge'
    BY <1>1, <1>2, <2>3, <2>4, <2>5 DEF Undisturbed
  <2> QED
    BY <1>2, <2>8, <2>9, <2>10 DEF LossInv, SelectingFairly, WorkingFairly, InCommand, Selecting
<1> QED
  BY <1>3, <1>4, <1>5

\* The byte that the initiator waits for is that of the phase of the target.
LEMMA DispatchUnlost ==
    ASSUME Unlost, Dispatch
    PROVE  /\ initiator'.status = initiator.status
           /\ \/ initiator'.phase = "MSG_IN" /\ initiator'.pc = "message" /\ initiator.status # NoStatus
              \/ initiator'.phase # "MSG_IN" /\ (NothingLost /\ StatusAwaited)'
<1>1. /\ HandshakeInv /\ Typed /\ TargetPlace /\ InitiatorPlace /\ Together /\ DataReceived /\ DataSent
      /\ NothingLost /\ StatusAwaited /\ Active /\ ~Doomed
      /\ command.size = command.length /\ history.broken = {}
  BY UnlostFacts DEF Unlost, HandshakeInv, Places, Transfers
<1>2. /\ initiator.pc = "loop" /\ target.pc \in {"ack", "sent"} /\ target.phase \in Phases
      /\ initiator' = [initiator EXCEPT !.phase = target.phase, !.count = 0,
                                        !.cdb = IF target.phase = "COMMAND" THEN CdbToSend ELSE initiator.cdb,
                                        !.pc = StepInPhase]
  BY <1>1, DispatchSteps
<1>3. initiator'.phase = target.phase /\ initiator'.pc = StepInPhase /\ initiator'.status = initiator.status
  BY <1>1, <1>2 DEF Typed, InitiatorStates
<1>4. target' = target /\ command' = command /\ history' = history
  BY DEF Dispatch, InitiatorOnly
<1>5. target.phase \in Data => initiator.size > 0
  <2>1. CASE target.phase = "DATA_OUT"
    <3>1. command.op = "DATA_OUT" /\ command.length \in Nat \ {0}
      BY <1>1, <2>1, PlacesTyped DEF Together, Data
    <3>2. initiator.size = command.size
      BY <1>1, <3>1 DEF DataReceived
    <3> QED
      BY <1>1, <3>1, <3>2
  <2>2. CASE target.phase = "DATA_IN"
    <3>1. command.op = "DATA_IN" /\ command.length \in Nat \ {0}
      BY <1>1, <2>2, PlacesTyped DEF Together, Data
    <3>2. Rank(initiator.phase) <= 3
      BY <1>1, <2>2 DEF Together, Rank, Data
    <3>3. CASE Rank(initiator.phase) < 3
      <4>1. initiator.size = command.size
        BY <1>1, <3>1, <3>3 DEF DataSent
      <4> QED
        BY <1>1, <3>1, <4>1
    <3>4. CASE ~(Rank(initiator.phase) < 3)
      <4>1. initiator.phase = "DATA_IN"
        <5>1. Rank(initiator.phase) = 3
          BY <3>2, <3>4, Ranks
        <5>2. initiator.phase \in Data
          BY <5>1, Ranks
        <5> QED
          BY <1>1, <3>1, <5>2 DEF InitiatorPlace, Active
      <4>2. Buffered = command.length
        BY <1>1, <1>2, <4>1 DEF Buffered, HandshakeSteps
      <4>3. target.pc = "sent"
        BY <1>1, <1>2, <2>2 DEF TargetPlace, Receiving
      <4>4. Counted = command.length
        BY <1>1, <1>2, <2>2, <3>1, <4>2, <4>3 DEF DataSent, InSend
      <4>5. target.count < target.length
        BY <1>1, <4>3 DEF TargetPlace
      <4> QED
        BY <1>1, <4>4, <4>5, PlacesTyped DEF Counted
    <3> QED
      BY <3>3, <3>4
  <2> QED
    BY <2>1, <2>2 DEF Data
<1>6. initiator.size \in Nat
  BY <1>1, InitiatorTyped
<1>7. CASE target.phase = "MSG_IN"
  <2>1. initiator'.pc = "message"
    BY <1>1, <1>3, <1>7, StepsInPhases, <1>2
  <2>2. initiator.status = Good
    BY <1>1, <1>7 DEF StatusAwaited
  <2> QED
    BY <1>3, <1>7, <2>1, <2>2 DEF Good, NoStatus
<1>8. CASE target.phase # "MSG_IN"
  <2>1. initiator'.pc \in {"put", "loop", "request"} /\ (initiator'.pc = "loop" => target.phase = "COMMAND")
    BY <1>1, <1>2, <1>3, <1>5, <1>6, <1>8, StepsInPhases
  <2>2. Rank(target.phase) > 3 => target.phase = "STATUS"
    BY <1>8, Ranks
  <2>3. NothingLost'
    BY <1>1, <1>3, <1>4, <2>1, <2>2 DEF NothingLost
  <2>4. target.phase = "STATUS" => target.pc = "sent"
    BY <1>1, <1>2 DEF TargetPlace, Receiving
  <2>5. target.phase = "STATUS" => ~(target.count > 0)
    <3>1. target.phase = "STATUS" => target.count < 1
      BY <1>1, <2>4 DEF TargetPlace, StatusAwaited
    <3> QED
      BY <1>1, <3>1, PlacesTyped
  <2>6. ~StatusTaken'
    BY <1>3, <2>1 DEF StatusTaken
  <2>7. StatusAwaited'
    BY <1>1, <1>3, <1>4, <1>8, <2>4, <2>5, <2>6 DEF StatusAwaited
  <2> QED
    BY <1>3, <1>8, <2>3, <2>7
<1> QED
  BY <1>3, <1>7, <1>8

\* A step of the initiator within a handshake
LEMMA SameByteUnlost ==
    ASSUME Unlost, target' = target, command' = command, history' = history, initiator'.phase = initiator.phase,
           initiator'.pc \notin {"exception", "pulse", "return"}, initiator'.status = initiator.status,
           initiator'.pc \in {"end", "release"} => initiator.pc \in {"end", "release"},
           initiator'.pc \in {"release", "check"} => initiator'.seen = initiator.phase,
           initiator.phase = "STATUS" => StatusTaken /\ StatusTaken' /\ ~(target.phase = "STATUS" /\ target.pc = "sent"),
           initiator.phase = "DATA_OUT" /\ Rank(target.phase) > 3 =>
               Moved("DATA_OUT", command.size)' = Moved("DATA_OUT", command.size)
    PROVE  (NothingLost /\ StatusAwaited)'
<1>1. NothingLost /\ StatusAwaited
  BY DEF Unlost
<1>2. NothingLost'
  BY <1>1 DEF NothingLost
<1>3. (StatusTaken' <=> StatusTaken) /\ (StatusTaken => initiator.phase = "STATUS")
  BY DEF StatusTaken
<1>4. initiator.phase = "STATUS" => initiator'.pc # "request"
  BY DEF StatusTaken
<1>5. StatusAwaited'
  BY <1>1, <1>3, <1>4 DEF StatusAwaited
<1> QED
  BY <1>2, <1>5

LEMMA InitiatorPutUnlost ==
    ASSUME Unlost, InitiatorPut
    PROVE  initiator'.phase # "MSG_IN" /\ (NothingLost /\ StatusAwaited)'
<1>1. Typed /\ InitiatorPlace /\ InCommand /\ initiator.phase # "MSG_IN"
  BY DEF Unlost, HandshakeInv, Places
<1>2. initiator.pc = "put" /\ initiator' = [initiator EXCEPT !.pc = "request"]
      /\ target' = target /\ command' = command /\ history' = history
  BY DEF InitiatorPut, InitiatorOnly
<1>3. /\ initiator'.pc = "request" /\ initiator'.phase = initiator.phase /\ initiator'.count = initiator.count
      /\ initiator'.status = initiator.status
  BY <1>1, <1>2 DEF Typed, InitiatorStates
<1>4. initiator.phase # "STATUS"
  BY <1>1, <1>2 DEF InitiatorPlace, Sending
<1>5. Moved("DATA_OUT", command.size)' = Moved("DATA_OUT", command.size)
  BY <1>2, <1>3 DEF Moved, HandshakeSteps
<1> QED
  BY <1>1, <1>2, <1>3, <1>4, <1>5, SameByteUnlost

LEMMA EndOfRequestUnlost ==
    ASSUME Unlost, EndOfRequest
    PROVE  initiator'.phase # "MSG_IN" /\ (NothingLost /\ StatusAwaited)'
<1>1. HandshakeInv /\ Typed /\ InitiatorPlace /\ InCommand /\ initiator.phase # "MSG_IN" /\ NothingLost /\ Active
  BY UnlostFacts DEF Unlost, HandshakeInv, Places
<1>2. initiator.pc = "end" /\ "REQ" \notin Level /\ initiator' = [initiator EXCEPT !.seen = Phase, !.pc = "release"]
      /\ target' = target /\ command' = command /\ history' = history
  BY DEF EndOfRequest, InitiatorOnly, InitiatorWaitsFor
<1>3. /\ initiator'.pc = "release" /\ initiator'.phase = initiator.phase /\ initiator'.count = initiator.count
      /\ initiator'.status = initiator.status /\ initiator'.seen = Phase
  BY <1>1, <1>2 DEF Typed, InitiatorStates
<1>4. Phase = initiator.phase /\ target.pc # "sent"
  <2>1. initiator.phase = target.phase /\ target.pc \notin Off /\ initiator.pc \notin Selecting
    BY <1>1, <1>2 DEF NothingLost, Off, Selecting
  <2> QED
    BY <1>1, <1>2, <2>1, PhaseSeen, Signals
<1>5. Moved("DATA_OUT", command.size)' = Moved("DATA_OUT", command.size)
  BY <1>2, <1>3 DEF Moved, HandshakeSteps
<1>6. initiator.phase = "STATUS" => StatusTaken /\ StatusTaken'
  BY <1>2, <1>3 DEF StatusTaken
<1> QED
  BY <1>1, <1>2, <1>3, <1>4, <1>5, <1>6, SameByteUnlost

LEMMA ReleaseAckUnlost ==
    ASSUME Unlost, ReleaseAck
    PROVE  initiator'.phase # "MSG_IN" /\ (NothingLost /\ StatusAwaited)'
<1>1. HandshakeInv /\ Typed /\ initiator.phase # "MSG_IN" /\ NothingLost /\ StatusAwaited
  BY DEF Unlost, HandshakeInv
<1>2. initiator.pc = "release" /\ initiator' = [initiator EXCEPT !.pc = "check"]
      /\ target' = target /\ command' = command /\ history' = history
  BY DEF ReleaseAck, InitiatorOnly
<1>3. /\ initiator'.pc = "check" /\ initiator'.phase = initiator.phase /\ initiator'.status = initiator.status
      /\ initiator'.seen = initiator.seen
  BY <1>1, <1>2 DEF Typed, InitiatorStates
<1>4. initiator.seen = initiator.phase /\ initiator.phase = target.phase
  BY <1>1, <1>2 DEF NothingLost
<1>5. initiator.phase = "DATA_OUT" => ~(Rank(target.phase) > 3)
  BY <1>4 DEF Rank, Data
<1>6. initiator.phase = "STATUS" => StatusTaken /\ StatusTaken' /\ ~(target.phase = "STATUS" /\ target.pc = "sent")
  BY <1>1, <1>2, <1>3 DEF StatusTaken, StatusAwaited
<1> QED
  BY <1>1, <1>2, <1>3, <1>4, <1>5, <1>6, SameByteUnlost

\* The initiator takes the byte of the phase of the target, or it has already sent all bytes of a phase that
\* the target has left.
LEMMA AcknowledgeUnlost ==
    ASSUME Unlost, Acknowledge
    PROVE  initiator'.phase # "MSG_IN" /\ (NothingLost /\ StatusAwaited)'
<1>1. /\ HandshakeInv /\ Typed /\ InitiatorPlace /\ Together /\ DataReceived /\ StatusSent /\ InCommand
      /\ initiator.phase # "MSG_IN" /\ NothingLost /\ StatusAwaited
      /\ Active /\ ~Doomed /\ command.size = command.length
  BY UnlostFacts DEF Unlost, HandshakeInv, Places, Transfers
<1>2. initiator.pc = "request" /\ "REQ" \in Level /\ target' = target /\ command' = command /\ history' = history
  BY DEF Acknowledge, InitiatorOnly, InitiatorWaitsFor
<1>3. target.pc \in {"ack", "sent"}
  BY <1>1, <1>2, Signals
<1>4. Phase = target.phase
  BY <1>1, <1>2, <1>3, PhaseSeen DEF Off, Selecting
<1>5. CASE target.phase = initiator.phase
  <2>1. initiator' = [Taken(dat["target"]) EXCEPT !.pc = "end"]
    BY <1>4, <1>5 DEF Acknowledge, SamePhase, Driven
  <2>2. /\ initiator'.pc = "end" /\ initiator'.phase = initiator.phase /\ initiator'.count = initiator.count
        /\ initiator.phase = "STATUS" => initiator'.status = dat["target"]
    <3>1. CASE initiator.phase = "DATA_IN"
      BY <1>1, <2>1, <3>1 DEF Taken, Typed, InitiatorStates
    <3>2. CASE initiator.phase = "STATUS"
      BY <1>1, <2>1, <3>2 DEF Taken, Typed, InitiatorStates
    <3>3. CASE initiator.phase \notin {"DATA_IN", "STATUS"}
      BY <1>1, <2>1, <3>3 DEF Taken, Typed, InitiatorStates
    <3> QED
      BY <3>1, <3>2, <3>3
  <2>3. Moved("DATA_OUT", command.size)' = Moved("DATA_OUT", command.size)
    BY <1>2, <2>2 DEF Moved, HandshakeSteps
  <2>4. NothingLost'
    BY <1>1, <1>2, <1>3, <1>5, <2>2, <2>3 DEF NothingLost
  <2>5. initiator.phase = "STATUS" => initiator'.status = Good /\ target.pc = "sent"
    <3>1. initiator.phase = "STATUS" => target.pc = "sent"
      BY <1>1, <1>2 DEF StatusAwaited
    <3>2. target.status = Good
      BY <1>1 DEF NothingLost
    <3> QED
      BY <1>1, <1>5, <2>2, <3>1, <3>2 DEF StatusSent
  <2>6. StatusTaken' <=> initiator.phase = "STATUS"
    BY <2>2 DEF StatusTaken
  <2>7. ~StatusTaken
    BY <1>2 DEF StatusTaken
  <2>8. StatusAwaited'
    BY <1>1, <1>2, <1>5, <2>2, <2>5, <2>6, <2>7 DEF StatusAwaited
  <2> QED
    BY <1>1, <2>2, <2>4, <2>8
<1>6. CASE target.phase # initiator.phase
  <2>1. initiator' = HandshakeEnds(initiator, initiator.count)
    BY <1>4, <1>6 DEF Acknowledge, SamePhase
  <2>2. initiator.phase # "STATUS"
    BY <1>1, <1>2, <1>6 DEF StatusAwaited
  <2>3. initiator.count < Count /\ initiator.count \in Nat /\ Count \in Int
    BY <1>1, <1>2, InitiatorTyped DEF InitiatorPlace, HandshakeSteps, Count
  <2>4. initiator.phase # "DATA_OUT"
    <3> SUFFICES ASSUME initiator.phase = "DATA_OUT"
                 PROVE  FALSE
      OBVIOUS
    <3>1. command.op = "DATA_OUT" /\ Rank(initiator.phase) = 3
      BY <1>1, Ranks DEF InitiatorPlace, Data
    <3>2. Rank(target.phase) # 3
      <4>1. target.phase \notin Data
        BY <1>1, <1>6, <3>1 DEF Together
      <4> QED
        BY <4>1, Ranks
    <3>3. Rank(target.phase) > 3
      BY <1>1, <3>1, <3>2, Ranks DEF Together
    <3>4. Moved("DATA_OUT", command.size) = command.size
      BY <1>1, <2>2, <3>1, <3>3 DEF NothingLost
    <3>5. initiator.count = command.size
      BY <1>2, <3>4 DEF Moved, HandshakeSteps
    <3>6. Count = command.size
      BY <1>1, <3>1, PlacesTyped DEF DataReceived, Count
    <3> QED
      BY <2>3, <3>5, <3>6
  <2>5. initiator'.pc = "loop" /\ initiator'.phase = initiator.phase /\ initiator'.status = initiator.status
    <3>1. initiator.count <= Count
      BY <2>3
    <3> QED
      BY <1>1, <2>1, <2>2, <2>3, <2>4, <3>1, HandshakeEndsWith
  <2> QED
    BY <1>1, <1>2, <2>2, <2>4, <2>5, SameByteUnlost
<1> QED
  BY <1>5, <1>6

\* The initiator only ends a phase with all bytes that it expects.
LEMMA CheckPhaseUnlost ==
    ASSUME Unlost, CheckPhase
    PROVE  initiator'.phase # "MSG_IN" /\ (NothingLost /\ StatusAwaited)'
<1>1. /\ HandshakeInv /\ Typed /\ InitiatorPlace /\ DataReceived /\ InCommand
      /\ initiator.phase # "MSG_IN" /\ NothingLost /\ StatusAwaited
      /\ Active /\ ~Doomed /\ command.size = command.length
  BY UnlostFacts DEF Unlost, HandshakeInv, Places, Transfers
<1>2. initiator.pc = "check" /\ target' = target /\ command' = command /\ history' = history
  BY DEF CheckPhase, InitiatorOnly
<1>3. initiator.seen = initiator.phase /\ initiator.phase \in Phases
  BY <1>1, <1>2, InitiatorTyped DEF NothingLost, InitiatorPlace
<1>4. initiator.seen # TimedOut /\ SamePhase(initiator.seen)
  BY <1>3 DEF SamePhase, Phases, TimedOut
<1>5. initiator.count \in Nat /\ initiator.count < Count /\ Count \in Int
  BY <1>1, <1>2, InitiatorTyped DEF InitiatorPlace, HandshakeSteps, Count
<1>6. initiator.phase = "STATUS" => StatusTaken /\ ~(target.phase = "STATUS" /\ target.pc = "sent")
  BY <1>1, <1>2 DEF StatusTaken, StatusAwaited
<1>7. initiator.phase = "DATA_OUT" => command.op = "DATA_OUT" /\ Count = command.size /\ initiator.size = command.size
  <2>1. initiator.phase = "DATA_OUT" => command.op = "DATA_OUT"
    BY <1>1 DEF InitiatorPlace, Data
  <2> QED
    BY <1>1, <2>1, PlacesTyped DEF DataReceived, Count
<1>8. CASE initiator.count + 1 = Count
  <2>1. initiator' = HandshakeEnds(initiator, initiator.count + 1)
    BY <1>4, <1>8 DEF CheckPhase
  <2>2. initiator.count + 1 \in Nat /\ initiator.count + 1 # 0 /\ initiator.count + 1 <= Count
    BY <1>5, <1>8
  <2>3. initiator.phase = "DATA_OUT" => initiator.count + 1 = initiator.size
    BY <1>7, <1>8
  <2>4. initiator'.pc = "loop" /\ initiator'.phase = initiator.phase /\ initiator'.status = initiator.status
    BY <1>1, <2>1, <2>2, <2>3, HandshakeEndsWith
  <2>5. initiator.phase = "DATA_OUT" => Moved("DATA_OUT", command.size)' = Moved("DATA_OUT", command.size)
    BY <1>2, <1>7, <1>8, <2>4 DEF Moved, HandshakeSteps
  <2>6. initiator.phase = "STATUS" => StatusTaken'
    BY <2>4 DEF StatusTaken
  <2> QED
    BY <1>1, <1>2, <1>6, <2>4, <2>5, <2>6, SameByteUnlost
<1>9. CASE initiator.count + 1 # Count
  <2>1. PICK pc \in {"put", "request"} : initiator' = [initiator EXCEPT !.count = initiator.count + 1, !.pc = pc]
    BY <1>4, <1>9 DEF CheckPhase
  <2>2. initiator'.pc = pc /\ initiator'.phase = initiator.phase /\ initiator'.status = initiator.status
    BY <1>1, <2>1 DEF Typed, InitiatorStates
  <2>3. initiator.phase # "STATUS"
    BY <1>5, <1>9 DEF Count
  <2>4. initiator.phase = "DATA_OUT" => ~(Rank(target.phase) > 3)
    <3>1. initiator.phase = "DATA_OUT" => Moved("DATA_OUT", command.size) # command.size
      BY <1>2, <1>7, <1>9 DEF Moved, HandshakeSteps
    <3> QED
      BY <1>1, <1>7, <3>1 DEF NothingLost
  <2> QED
    BY <1>1, <1>2, <2>2, <2>3, <2>4, SameByteUnlost
<1> QED
  BY <1>8, <1>9

\* An initiator that gives up gives up on a target that is about to go on.
LEMMA InitiatorTimeoutUnlost ==
    ASSUME Unlost, InitiatorTimeout
    PROVE  ~Fair'
<1>1. InitiatorGivesUp /\ ~InitiatorWaitsFor /\ Typed
  BY DEF InitiatorTimeout, InitiatorGivesUp, Unlost, HandshakeInv
<1>2. history'.late
  BY <1>1, UnlostFacts, InitiatorGivesUpLate
<1> QED
  BY <1>2 DEF Fair

InCommandStep ==
    \/ Dispatch \/ InitiatorPut \/ Acknowledge \/ EndOfRequest \/ ReleaseAck \/ CheckPhase \/ InitiatorTimeout
    \/ TakeMessage \/ EndOfMessage \/ MessageTimeout \/ PulseReset

\* What the steps of the initiator within a command leave of the history
LEMMA InitiatorLeaves ==
    ASSUME HandshakeInv, InCommandStep
    PROVE  /\ command' = command /\ target' = target /\ history'.free = history.free /\ history'.lost = history.lost
           /\ (history.late => history'.late)
<1>1. Typed
  BY DEF HandshakeInv
<1>2. CASE InitiatorOnly
  BY <1>2 DEF InitiatorOnly
<1>3. CASE InitiatorTimeout \/ MessageTimeout
  BY <1>1, <1>3, InitiatorGivesUpLate DEF InitiatorTimeout, MessageTimeout
<1> QED
  BY <1>2, <1>3 DEF InCommandStep, Dispatch, InitiatorPut, Acknowledge, EndOfRequest, ReleaseAck, CheckPhase,
                    TakeMessage, EndOfMessage, PulseReset

LEMMA HandshakeEndsInCommand ==
    ASSUME Typed, NEW n, initiator' = HandshakeEnds(initiator, n)
    PROVE  initiator'.pc \in {"loop", "exception"}
<1>1. CASE initiator.phase = "COMMAND"
  BY <1>1 DEF HandshakeEnds, Typed, InitiatorStates
<1>2. CASE initiator.phase = "DATA_IN"
  BY <1>2 DEF HandshakeEnds, Typed, InitiatorStates
<1>3. CASE initiator.phase = "DATA_OUT"
  BY <1>3 DEF HandshakeEnds, Typed, InitiatorStates
<1>4. CASE initiator.phase = "STATUS" /\ n = 0
  BY <1>4 DEF HandshakeEnds, Typed, InitiatorStates
<1>5. CASE initiator.phase \notin {"COMMAND", "DATA_IN", "DATA_OUT"} /\ ~(initiator.phase = "STATUS" /\ n = 0)
  BY <1>5 DEF HandshakeEnds, Typed, InitiatorStates
<1> QED
  BY <1>1, <1>2, <1>3, <1>4, <1>5

\* These steps begin and end within a command.
LEMMA InCommandBoth ==
    ASSUME HandshakeInv, InCommandStep
    PROVE  InCommand /\ initiator'.pc \notin Selecting \cup {"idle"}
<1>1. InCommand /\ Typed
  BY DEF InCommandStep, Dispatch, InitiatorPut, Acknowledge, EndOfRequest, ReleaseAck, CheckPhase, InitiatorTimeout,
         TakeMessage, EndOfMessage, MessageTimeout, PulseReset, InCommand, Selecting, HandshakeInv
<1>2. CASE Dispatch
  <2>1. initiator'.pc = StepInPhase /\ target.phase \in Phases
    BY <1>1, <1>2, DispatchSteps DEF Typed, InitiatorStates
  <2>2. StepInPhase \in {"put", "loop", "exception", "request", "message"}
    BY <2>1, StepsInPhases
  <2> QED
    BY <1>1, <2>1, <2>2 DEF Selecting
<1>3. CASE InitiatorPut \/ EndOfRequest \/ ReleaseAck \/ TakeMessage \/ EndOfMessage \/ MessageTimeout \/ PulseReset
  <2>1. initiator'.pc \in {"request", "release", "check", "message end", "return", "pulse"}
    BY <1>1, <1>3 DEF InitiatorPut, EndOfRequest, ReleaseAck, TakeMessage, EndOfMessage, MessageTimeout, PulseReset,
                      Typed, InitiatorStates
  <2> QED
    BY <1>1, <2>1 DEF Selecting
<1>4. CASE Acknowledge
  <2>1. CASE SamePhase(Phase)
    <3>1. initiator' = [Taken(Driven("target")) EXCEPT !.pc = "end"]
      BY <1>4, <2>1 DEF Acknowledge
    <3>2. initiator'.pc = "end"
      <4>1. CASE initiator.phase = "DATA_IN"
        BY <1>1, <3>1, <4>1 DEF Taken, Typed, InitiatorStates
      <4>2. CASE initiator.phase = "STATUS"
        BY <1>1, <3>1, <4>2 DEF Taken, Typed, InitiatorStates
      <4>3. CASE initiator.phase \notin {"DATA_IN", "STATUS"}
        BY <1>1, <3>1, <4>3 DEF Taken, Typed, InitiatorStates
      <4> QED
        BY <4>1, <4>2, <4>3
    <3> QED
      BY <1>1, <3>2 DEF Selecting
  <2>2. CASE ~SamePhase(Phase)
    BY <1>1, <1>4, <2>2, HandshakeEndsInCommand DEF Acknowledge, Selecting
  <2> QED
    BY <2>1, <2>2
<1>5. CASE CheckPhase
  <2>1. CASE initiator.seen # TimedOut /\ SamePhase(initiator.seen) /\ initiator.count + 1 # Count
    BY <1>1, <1>5, <2>1 DEF CheckPhase, Selecting, Typed, InitiatorStates
  <2>2. CASE ~(initiator.seen # TimedOut /\ SamePhase(initiator.seen) /\ initiator.count + 1 # Count)
    BY <1>1, <1>5, <2>2, HandshakeEndsInCommand DEF CheckPhase, Selecting
  <2> QED
    BY <2>1, <2>2
<1>6. CASE InitiatorTimeout
  <2>1. CASE initiator.pc = "request"
    BY <1>1, <1>6, <2>1, HandshakeEndsInCommand DEF InitiatorTimeout, Selecting
  <2>2. CASE initiator.pc # "request"
    BY <1>1, <1>6, <2>2 DEF InitiatorTimeout, Selecting, Typed, InitiatorStates
  <2> QED
    BY <2>1, <2>2
<1> QED
  BY <1>1, <1>2, <1>3, <1>4, <1>5, <1>6 DEF InCommandStep

\* COMMAND COMPLETE, with the status that the initiator already has
LEMMA MessageSteps ==
    ASSUME HandshakeInv, TakeMessage \/ EndOfMessage \/ MessageTimeout
    PROVE  /\ initiator.phase = "MSG_IN" /\ initiator'.phase = "MSG_IN" /\ initiator'.status = initiator.status
           /\ initiator'.pc \in {"message end", "return"}
<1>1. Typed /\ InitiatorPlace
  BY DEF HandshakeInv, Places
<1>2. initiator.pc \in {"message", "message end"}
  BY DEF TakeMessage, EndOfMessage, MessageTimeout
<1>3. initiator.phase = "MSG_IN"
  BY <1>1, <1>2 DEF InitiatorPlace, InCommand, Selecting
<1>4. PICK pc \in {"message end", "return"} : initiator' = [initiator EXCEPT !.pc = pc]
  BY DEF TakeMessage, EndOfMessage, MessageTimeout
<1> QED
  BY <1>1, <1>3, <1>4 DEF Typed, InitiatorStates

LEMMA InCommandLoses ==
    ASSUME HandshakeInv, LossInv, InCommandStep
    PROVE  LossInv'
<1>1. /\ command' = command /\ target' = target /\ history'.free = history.free /\ history'.lost = history.lost
      /\ (history.late => history'.late)
  BY InitiatorLeaves
<1>2. InCommand /\ initiator'.pc \notin Selecting \cup {"idle"}
  BY InCommandBoth
<1>3. Fair' => Fair
  BY <1>1, StillFair
<1>4. CASE Fair' /\ initiator.phase # "MSG_IN"
  <2>1. Unlost /\ NothingLost
    BY <1>2, <1>3, <1>4 DEF Unlost, LossInv, WorkingFairly
  <2>2. ~InitiatorTimeout /\ ~PulseReset
    BY <1>4, <2>1, InitiatorTimeoutUnlost DEF PulseReset, NothingLost
  <2>3. ~(TakeMessage \/ EndOfMessage \/ MessageTimeout)
    BY <1>4, MessageSteps
  <2>4. ASSUME Dispatch
        PROVE  WorkingFairly'
    BY <2>1, <2>4, DispatchUnlost DEF WorkingFairly
  <2>5. ASSUME ~Dispatch
        PROVE  WorkingFairly'
    <3>1. initiator'.phase # "MSG_IN" /\ (NothingLost /\ StatusAwaited)'
      BY <2>1, <2>2, <2>3, <2>5, InitiatorPutUnlost, AcknowledgeUnlost, EndOfRequestUnlost, ReleaseAckUnlost,
         CheckPhaseUnlost DEF InCommandStep
    <3> QED
      BY <3>1 DEF WorkingFairly
  <2>6. WorkingFairly'
    BY <2>4, <2>5
  <2> QED
    BY <1>1, <1>2, <2>6, LastingLoses DEF SelectingFairly
<1>5. CASE Fair' /\ initiator.phase = "MSG_IN"
  <2>1. initiator.status # NoStatus /\ initiator.pc \in {"message", "message end", "return"}
    BY <1>2, <1>3, <1>5 DEF LossInv, WorkingFairly
  <2>2. TakeMessage \/ EndOfMessage \/ MessageTimeout
    BY <2>1 DEF InCommandStep, Dispatch, InitiatorPut, Acknowledge, EndOfRequest, ReleaseAck, CheckPhase,
                InitiatorTimeout, PulseReset
  <2>3. /\ initiator'.phase = "MSG_IN" /\ initiator'.status = initiator.status
        /\ initiator'.pc \in {"message end", "return"}
    BY <2>2, MessageSteps
  <2>4. WorkingFairly'
    BY <2>1, <2>3 DEF WorkingFairly
  <2> QED
    BY <1>1, <1>2, <2>4, LastingLoses DEF SelectingFairly
<1>6. CASE ~Fair'
  BY <1>1, <1>2, <1>6, LastingLoses DEF SelectingFairly, WorkingFairly
<1> QED
  BY <1>4, <1>5, <1>6

LEMMA InitiatorLoses ==
    ASSUME HandshakeInv, LossInv, Executing
    PROVE  LossInv'
<1>1. Arbitrate \/ AssertSel \/ Select => LossInv'
  BY SelectingLoses
<1>2. Selected \/ NotSelected \/ CommandTimeout => LossInv'
  BY SelectedLoses, NotSelectedLoses, CommandTimeoutLoses
<1>3. EndCommand \/ EndOfPulse => LossInv'
  BY EndCommandLoses
<1>4. InCommandStep => LossInv'
  BY InCommandLoses
<1> QED
  BY <1>1, <1>2, <1>3, <1>4 DEF Executing, InCommandStep

LEMMA StutteringLoses ==
    ASSUME LossInv, UNCHANGED vars
    PROVE  LossInv'
<1>1. /\ lines' = lines /\ edge' = edge /\ command' = command /\ target' = target /\ initiator' = initiator
      /\ history' = history
  BY DEF vars
<1>2. (InCommand' <=> InCommand) /\ (Fair' <=> Fair) /\ (StatusTaken' <=> StatusTaken)
      /\ Moved("DATA_OUT", command.size)' = Moved("DATA_OUT", command.size)
  BY <1>1 DEF InCommand, Fair, StatusTaken, Moved
<1>3. (NothingLost' <=> NothingLost) /\ (StatusAwaited' <=> StatusAwaited)
  BY <1>1, <1>2 DEF NothingLost, StatusAwaited
<1>4. SelectingFairly'
  BY <1>1, <1>2 DEF LossInv, SelectingFairly
<1>5. WorkingFairly'
  BY <1>1, <1>2, <1>3 DEF LossInv, WorkingFairly
<1> QED
  BY <1>1, <1>4, <1>5 DEF LossInv, Undisturbed

\* A command without a status that only the bus can be blamed for leaves a target that nothing
\* disturbs, and so the next command gets a status, whatever the sizes of the CDB, the chunks and
\* the data (controller.cpp:43, 371).
THEOREM AtMostOneLostTheorem == HandshakeSpec => []AtMostOneLost
<1>1. HandshakeInit => LossInv
  BY DEF HandshakeInit, AtRest, Idle, LossInv, SelectingFairly, WorkingFairly, InCommand, Selecting
<1>2. HandshakeInv /\ LossInv /\ [HandshakeNext]_vars => LossInv'
  BY TargetLoses, InitiatorLoses, StartLoses, StutteringLoses DEF HandshakeNext
<1>3. LossInv => AtMostOneLost
  BY DEF LossInv, AtMostOneLost
<1> QED
  BY <1>1, <1>2, <1>3, HandshakeInvariant, PTL DEF HandshakeSpec
=============================================================================
