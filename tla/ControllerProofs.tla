-------------------------- MODULE ControllerProofs --------------------------
(***************************************************************************)
(* Proofs about Controller, for every set of units, initiators, commands   *)
(* and message bytes.  The first part types what the handlers do when they *)
(* enter a phase, the second one shows that every action preserves the     *)
(* typing invariant.  The third part proves the safety properties of       *)
(* ControllerProperties and ControllerHistory on top of it.  Nearly every  *)
(* handler ends outside of the data phases (Finished); what has to be      *)
(* shown for a data phase is known when Execute() enters it, and nothing   *)
(* changes it later, except for the data that have been moved.  The fourth *)
(* part is about steps: the action properties of ControllerProperties say  *)
(* what a step may never do to the reservation and to the medium of a unit *)
(* (only few commands change them, all other steps keep them, Kept), and   *)
(* the refinement of TargetRefinement what a step may be at all.           *)
(***************************************************************************)
EXTENDS ControllerHistory, TargetRefinement, TLAPS

Lines     == [bsy : BOOLEAN, msg : BOOLEAN, cd : BOOLEAN, io : BOOLEAN]
Resets    == [target : BOOLEAN, initiator : BOOLEAN]
Transfers == [current : Nat, remaining : Nat, chunk : Nat]
Messages  == [atn : BOOLEAN, bytes : Seq(0..255), lun : LunRange \cup {NoLun},
              byte : 0..255]
Links     == [linked : BOOLEAN, flag : BOOLEAN]

\* What UpdateTransferLength() asserts
Consistent(x) == x.chunk <= x.remaining

TypeInv == TypeOK /\ TransferConsistent

\* The variables a handler changes when it answers a command are typed.
Answered ==
    /\ phase' \in Phases
    /\ line' \in Lines
    /\ rst' \in Resets
    /\ xfer' \in Transfers /\ Consistent(xfer')
    /\ status' \in StatusCodes
    /\ msg' \in Messages
    /\ reply' \in Replies
    /\ device' \in [Luns -> Unit]

-----------------------------------------------------------------------------
(* Transfer sizes *)

\* SetTransferSize() yields a chunk that does not exceed the data.
LEMMA TransferType ==
    ASSUME NEW current \in Nat \cup {-1}, NEW length \in Nat, NEW size \in Nat
    PROVE  /\ Transfer(current, length, size) \in
                  [current : Nat \cup {-1}, remaining : Nat, chunk : Nat]
           /\ Transfer(current, length, size).current = current
           /\ Consistent(Transfer(current, length, size))
  BY DEF Transfer, Smaller, Consistent

\* UpdateTransferLength() with no more bytes than remain keeps the sizes natural
\* numbers and the chunk within the data.
LEMMA AdvanceType ==
    ASSUME NEW x \in Transfers, Consistent(x), NEW n \in Nat, n <= x.remaining
    PROVE  Advance(x, n) \in Transfers /\ Consistent(Advance(x, n))
<1> DEFINE rest == x.remaining - n
           chunk == Smaller(rest, x.chunk)
<1>1. rest \in Nat /\ x.chunk \in Nat /\ x.current \in Nat
  BY DEF Transfers
<1>2. chunk \in Nat /\ chunk <= rest
  BY <1>1 DEF Smaller
<1>3. Advance(x, n) = [x EXCEPT !.remaining = rest, !.chunk = chunk]
  BY DEF Advance
<1> HIDE DEF rest, chunk
<1> QED
  BY <1>1, <1>2, <1>3 DEF Transfers, Consistent

LEMMA ConstantTransfers ==
    /\ NoTransfer \in Transfers /\ Consistent(NoTransfer)
    /\ OneByte \in Transfers /\ Consistent(OneByte)
  BY DEF NoTransfer, OneByte, Transfers, Consistent

-----------------------------------------------------------------------------
(* Collecting message bytes *)

LEMMA EmptyMessage == <<>> \in Seq(0..255)
  OBVIOUS

LEMMA MessageBytes ==
    ASSUME NEW m \in Messages, NEW bytes \in Seq(0..255)
    PROVE  /\ [m EXCEPT !.atn = TRUE, !.bytes = bytes] \in Messages
           /\ [m EXCEPT !.bytes = bytes] \in Messages
           /\ [m EXCEPT !.atn = FALSE, !.bytes = bytes, !.byte = 0] \in Messages
<1>0. 0 \in 0..255
  OBVIOUS
<1>1. [m EXCEPT !.atn = TRUE, !.bytes = bytes] \in Messages
  BY Zenon DEF Messages
<1>2. [m EXCEPT !.bytes = bytes] \in Messages
  BY Zenon DEF Messages
<1>3. [m EXCEPT !.atn = FALSE, !.bytes = bytes, !.byte = 0] \in Messages
  BY <1>0, Zenon DEF Messages
<1> QED
  BY <1>1, <1>2, <1>3

LEMMA MessageLun ==
    ASSUME NEW m \in Messages, NEW l \in LunRange \cup {NoLun}
    PROVE  [m EXCEPT !.lun = l] \in Messages
  BY DEF Messages

-----------------------------------------------------------------------------
(* Entering a phase *)

LEMMA EnterStatusType ==
    ASSUME NEW l \in Lines, NEW code \in StatusCodes, EnterStatus(l, code)
    PROVE  /\ phase' \in Phases
           /\ line' \in Lines
           /\ xfer' \in Transfers /\ Consistent(xfer')
           /\ status' \in StatusCodes
           /\ reply' \in Replies
  BY ConstantTransfers DEF EnterStatus, Phases, Lines, StatusCodes, Replies

LEMMA EnterDataInType ==
    ASSUME NEW l \in Lines, NEW x \in Transfers, Consistent(x),
           NEW payload \in Replies, NEW code \in StatusCodes,
           EnterDataIn(l, x, payload, code)
    PROVE  /\ phase' \in Phases
           /\ line' \in Lines
           /\ xfer' \in Transfers /\ Consistent(xfer')
           /\ status' \in StatusCodes
           /\ reply' \in Replies
  BY EnterStatusType DEF EnterDataIn, Phases, Lines

LEMMA EnterDataOutType ==
    ASSUME TypeOK, NEW x \in [current : Nat \cup {-1}, remaining : Nat, chunk : Nat],
           Consistent(x), EnterDataOut(x)
    PROVE  /\ phase' \in Phases
           /\ line' \in Lines
           /\ xfer' \in Transfers /\ Consistent(xfer')
           /\ status' \in StatusCodes
           /\ reply' \in Replies
<1>1. line \in Lines /\ reply \in Replies
  BY DEF TypeOK, Lines
<1>2. CASE x.current = 0
  BY <1>1, <1>2, EnterStatusType DEF EnterDataOut, StatusCodes
<1>3. CASE x.current # 0
  <2> DEFINE c == IF x.current = -1 THEN 0 ELSE x.current
  <2>1. c \in Nat
    OBVIOUS
  <2>2. xfer' = [x EXCEPT !.current = c]
    BY <1>3 DEF EnterDataOut
  <2> HIDE DEF c
  <2>3. xfer' \in Transfers /\ Consistent(xfer')
    BY <2>1, <2>2 DEF Transfers, Consistent
  <2> QED
    BY <1>1, <1>3, <2>3 DEF EnterDataOut, Phases, Lines, StatusCodes
<1> QED
  BY <1>2, <1>3

LEMMA BusFreeType ==
    ASSUME TypeOK, BusFree
    PROVE  /\ phase' \in Phases
           /\ line' \in Lines
           /\ status' \in StatusCodes
           /\ msg' \in Messages
           /\ reply' \in Replies
<1>1. msg \in Messages
  BY DEF TypeOK, Messages
<1>2. msg' \in Messages
  BY <1>1, Zenon DEF BusFree, Messages
<1> QED
  BY <1>2 DEF BusFree, Phases, Lines, Released, StatusCodes, Replies

\* Error() stores the sense data in a unit that exists.
LEMMA SenseLunType ==
    ASSUME NEW c \in Cdb, NEW sense \in Senses
    PROVE  SenseLun(sense, c) \in Luns /\ ExecutingLun(c) \in Luns
  BY ControllerAssumption DEF SenseLun, ExecutingLun

LEMMA ErrorType ==
    ASSUME TypeOK, cdb' \in Cdb, NEW sense \in Senses, NEW code \in StatusCodes,
           NEW d \in [Luns -> Unit], NEW x \in Transfers, Consistent(x),
           Error(sense, code, d, x)
    PROVE  Answered
<1>1. line \in Lines /\ rst \in Resets /\ msg \in Messages
  BY DEF TypeOK, Lines, Resets, Messages
<1>2. CASE ResetSeen /\ BusFree /\ xfer' = x /\ device' = d
  <2>1. rst' \in Resets
    BY <1>1, <1>2 DEF ResetSeen, Resets
  <2> QED
    BY <1>2, <2>1, BusFreeType DEF Answered
<1>3. CASE /\ device' = [d EXCEPT ![SenseLun(sense, cdb')].sense = sense]
           /\ EnterStatus(line, code)
           /\ UNCHANGED <<rst, msg>>
  <2>1. device' \in [Luns -> Unit]
    BY <1>3, SenseLunType DEF Unit
  <2> QED
    BY <1>1, <1>3, <2>1, EnterStatusType DEF Answered
<1> QED
  BY <1>2, <1>3 DEF Error
-----------------------------------------------------------------------------
(* Executing a command *)

\* What the lemmas about the commands assume of unit u and the units at d.
Executing(c, u, d) ==
    /\ c \in Cdb /\ cdb' = c
    /\ u \in Luns
    /\ d \in [Luns -> Unit]

LEMMA Unanswered ==
    ASSUME TypeOK
    PROVE  /\ phase \in Phases /\ line \in Lines /\ rst \in Resets /\ xfer \in Transfers
           /\ status \in StatusCodes /\ msg \in Messages /\ reply \in Replies
           /\ device \in [Luns -> Unit]
  BY DEF TypeOK, Lines, Resets, Transfers, Messages

LEMMA RejectCommandType ==
    ASSUME TypeOK, NEW c, NEW u, NEW d, Executing(c, u, d), RejectCommand(c, u, d)
    PROVE  Answered
<1>1. d[u] \in Unit /\ ReadySense(d[u]) \in Senses /\ AfterCheckReady(d[u]) \in Unit
  <2>1. d[u] \in Unit
    BY DEF Executing
  <2>2. ReadySense(d[u]) \in Senses
    BY DEF ReadySense, Senses
  <2>3. AfterCheckReady(d[u]) \in Unit
    BY <2>1 DEF AfterCheckReady, Unit
  <2> QED
    BY <2>1, <2>2, <2>3
<1>2. [d EXCEPT ![u] = AfterCheckReady(@)] \in [Luns -> Unit]
  BY <1>1 DEF Executing
<1>3. /\ "INVALID_OPCODE" \in Senses /\ "CHECK_CONDITION" \in StatusCodes
      /\ NoTransfer \in Transfers /\ Consistent(NoTransfer) /\ cdb' \in Cdb
  BY ConstantTransfers DEF Executing, Senses, StatusCodes
<1> QED
  BY <1>1, <1>2, <1>3, ErrorType DEF RejectCommand, Executing

LEMMA ReportMediumChangeType ==
    ASSUME TypeOK, NEW c, NEW u, NEW d, Executing(c, u, d), ReportMediumChange(c, u, d)
    PROVE  Answered
<1>1. [d EXCEPT ![u].changed = FALSE] \in [Luns -> Unit]
  BY DEF Executing, Unit
<1>2. /\ "NOT_READY_TO_READY" \in Senses /\ "CHECK_CONDITION" \in StatusCodes
      /\ NoTransfer \in Transfers /\ Consistent(NoTransfer) /\ cdb' \in Cdb
  BY ConstantTransfers DEF Executing, Senses, StatusCodes
<1> QED
  BY <1>1, <1>2, ErrorType DEF ReportMediumChange

LEMMA ExecuteWithoutDataType ==
    ASSUME TypeOK, NEW c, NEW u, NEW d, Executing(c, u, d), ExecuteWithoutData(c, u, d)
    PROVE  Answered
<1>1. initiator \in Initiators \cup {Unknown, NotReserved}
  BY DEF TypeOK
<1>2. device' \in [Luns -> Unit]
  <2>1. /\ [d EXCEPT ![u].holder = initiator] \in [Luns -> Unit]
        /\ [d EXCEPT ![u].holder = NotReserved] \in [Luns -> Unit]
    BY <1>1 DEF Executing, Unit
  <2>2. /\ [d EXCEPT ![u].locked = TRUE] \in [Luns -> Unit]
        /\ [d EXCEPT ![u].locked = FALSE] \in [Luns -> Unit]
    BY DEF Executing, Unit
  <2> QED
    BY <2>1, <2>2 DEF ExecuteWithoutData, Executing
<1>3. EnterStatus(line, "GOOD") /\ "GOOD" \in StatusCodes /\ UNCHANGED <<rst, msg>>
  BY DEF ExecuteWithoutData, StatusCodes
<1> QED
  BY <1>2, <1>3, EnterStatusType, Unanswered DEF Answered

LEMMA EjectOrLoadType ==
    ASSUME TypeOK, NEW c, NEW u, NEW d, Executing(c, u, d), EjectOrLoad(c, u, d)
    PROVE  Answered
<1>1. d[u] \in Unit /\ Ejected(d[u]) \in Unit /\ d[u].ejected \in BOOLEAN
  BY DEF Executing, Unit, Ejected
<1>2. /\ [d EXCEPT ![u] = Ejected(@)] \in [Luns -> Unit]
      /\ [d EXCEPT ![u].changed = d[u].ejected] \in [Luns -> Unit]
  BY <1>1 DEF Executing, Unit
<1>3. /\ "LOAD_OR_EJECT_FAILED" \in Senses /\ "CHECK_CONDITION" \in StatusCodes
      /\ "GOOD" \in StatusCodes
      /\ NoTransfer \in Transfers /\ Consistent(NoTransfer)
      /\ d \in [Luns -> Unit] /\ cdb' \in Cdb
  BY ConstantTransfers DEF Executing, Senses, StatusCodes
<1>4. CASE /\ EnterStatus(line, "GOOD")
           /\ UNCHANGED <<rst, msg>>
           /\ device' \in {[d EXCEPT ![u] = Ejected(@)],
                           [d EXCEPT ![u].changed = d[u].ejected]}
  BY <1>2, <1>3, <1>4, EnterStatusType, Unanswered DEF Answered
<1>5. CASE Error("LOAD_OR_EJECT_FAILED", "CHECK_CONDITION", d, NoTransfer)
  BY <1>3, <1>5, ErrorType
<1> QED
  BY <1>4, <1>5 DEF EjectOrLoad

\* The transfer sizes of READ and WRITE
LEMMA ChunkedTransfer ==
    ASSUME NEW c \in Cdb
    PROVE  /\ Smaller(c.length, c.chunk) \in Nat
           /\ c.length \in Nat /\ c.chunk \in Nat
           /\ Transfer(Smaller(c.length, c.chunk), c.length, c.chunk) \in Transfers
           /\ Consistent(Transfer(Smaller(c.length, c.chunk), c.length, c.chunk))
  BY DEF Cdb, Smaller, Transfer, Transfers, Consistent

LEMMA ExecuteReadType ==
    ASSUME TypeOK, NEW c, NEW u, NEW d, Executing(c, u, d), ExecuteRead(c, d)
    PROVE  Answered
<1> DEFINE x == Transfer(Smaller(c.length, c.chunk), c.length, c.chunk)
           y == [x EXCEPT !.current = c.length]
<1>1. x \in Transfers /\ Consistent(x)
  BY ChunkedTransfer DEF Executing
<1>2. y \in Transfers /\ Consistent(y)
  <2>1. c.length \in Nat
    BY ChunkedTransfer DEF Executing
  <2> HIDE DEF x
  <2> QED
    BY <1>1, <2>1 DEF Transfers, Consistent
<1>3. /\ "DEVICE_ERROR" \in Senses /\ "CHECK_CONDITION" \in StatusCodes
      /\ "GOOD" \in StatusCodes /\ "DATA" \in Replies
      /\ d \in [Luns -> Unit] /\ cdb' \in Cdb
  BY DEF Executing, Senses, StatusCodes, Replies
<1>4. CASE /\ EnterDataIn(line, x, "DATA", "GOOD")
           /\ device' = d
           /\ UNCHANGED <<rst, msg>>
  <2> HIDE DEF x
  <2> QED
    BY <1>1, <1>3, <1>4, EnterDataInType, Unanswered DEF Answered
<1>5. CASE Error("DEVICE_ERROR", "CHECK_CONDITION", d, y)
  <2> HIDE DEF y
  <2> QED
    BY <1>2, <1>3, <1>5, ErrorType
<1> QED
  BY <1>4, <1>5 DEF ExecuteRead

LEMMA ExecuteDataOutType ==
    ASSUME TypeOK, NEW c, NEW u, NEW d, Executing(c, u, d), ExecuteDataOut(c, d)
    PROVE  Answered
<1> DEFINE Sizes == [current : Nat \cup {-1}, remaining : Nat, chunk : Nat]
<1>1. PICK x \in Sizes : Consistent(x) /\ EnterDataOut(x)
  <2>1. CASE c.op = "WRITE"
    BY <2>1, ChunkedTransfer DEF ExecuteDataOut, Transfers, Executing
  <2>2. CASE c.op = "MODE_SELECT"
    BY <2>2, ChunkedTransfer, TransferType DEF ExecuteDataOut, Executing
  <2>3. CASE c.op = "FORMAT"
    BY <2>3, TransferType DEF ExecuteDataOut
  <2> QED
    BY <2>1, <2>2, <2>3 DEF ExecuteDataOut
<1> QED
  BY <1>1, EnterDataOutType, Unanswered DEF ExecuteDataOut, Executing, Answered

LEMMA ExecuteInquiryType ==
    ASSUME TypeOK, NEW c, NEW u, NEW d, Executing(c, u, d), ExecuteInquiry(c, d)
    PROVE  Answered
<1>1. Transfer(c.length, 0, 0) \in Transfers /\ Consistent(Transfer(c.length, 0, 0))
  BY DEF Executing, Cdb, Transfer, Smaller, Transfers, Consistent
<1>2. "GOOD" \in StatusCodes /\ "DATA" \in Replies
  BY DEF StatusCodes, Replies
<1> QED
  BY <1>1, <1>2, EnterDataInType, Unanswered DEF ExecuteInquiry, Executing, Answered

LEMMA EnterMsgInType ==
    ASSUME TypeOK, EnterMsgIn
    PROVE  /\ phase' \in Phases /\ line' \in Lines /\ reply' \in Replies
           /\ xfer' \in Transfers /\ Consistent(xfer')
  BY ConstantTransfers, Unanswered DEF EnterMsgIn, Phases, Lines, Replies

\* The sense data sent are no longer than SenseLength.
LEMMA SenseTransfer ==
    ASSUME NEW c \in Cdb
    PROVE  /\ Smaller(c.length, SenseLength) \in Nat
           /\ Transfer(Smaller(c.length, SenseLength), 0, 0) \in Transfers
           /\ Consistent(Transfer(Smaller(c.length, SenseLength), 0, 0))
           /\ [OneByte EXCEPT !.current = Smaller(c.length, SenseLength)] \in Transfers
           /\ Consistent([OneByte EXCEPT !.current = Smaller(c.length, SenseLength)])
<1>1. Smaller(c.length, SenseLength) \in Nat
  BY ControllerAssumption DEF Cdb, Smaller
<1> QED
  BY <1>1 DEF Transfer, Smaller, OneByte, Transfers, Consistent

\* The sense data of a unit have been sent.
LEMMA SenseSent ==
    ASSUME TypeOK, NEW u \in Luns
    PROVE  /\ [device EXCEPT ![u].sense = "NO_SENSE"] \in [Luns -> Unit]
           /\ device[u].sense \in Replies
  BY Unanswered DEF Unit, Senses, Replies

LEMMA RequestSenseType ==
    ASSUME TypeOK, NEW c, NEW u, Executing(c, u, device), RequestSense(c, u)
    PROVE  Answered
<1> DEFINE x == Transfer(Smaller(c.length, SenseLength), 0, 0)
<1>1. x \in Transfers /\ Consistent(x) /\ u \in Luns /\ cdb' \in Cdb
  BY SenseTransfer DEF Executing
<1>2. "MEDIUM_NOT_PRESENT" \in Senses /\ "CHECK_CONDITION" \in StatusCodes
  BY DEF Senses, StatusCodes
<1> HIDE DEF x
<1>3. CASE Error("MEDIUM_NOT_PRESENT", "CHECK_CONDITION", device, NoTransfer)
  BY <1>1, <1>2, <1>3, ErrorType, ConstantTransfers, Unanswered
<1>4. CASE /\ EnterDataIn(line, x, device[u].sense, status)
           /\ device' = [device EXCEPT ![u].sense = "NO_SENSE"]
           /\ UNCHANGED <<rst, msg>>
  BY <1>1, <1>4, EnterDataInType, SenseSent, Unanswered DEF Answered
<1> QED
  BY <1>3, <1>4 DEF RequestSense, x

LEMMA RequestSenseMissingLunType ==
    ASSUME TypeOK, NEW c, NEW u, Executing(c, u, device), RequestSenseMissingLun(c)
    PROVE  Answered
<1> DEFINE length == Smaller(c.length, SenseLength)
           x      == [OneByte EXCEPT !.current = length]
<1>1. x \in Transfers /\ Consistent(x)
  BY SenseTransfer DEF Executing
<1>2. /\ "LUN_NOT_SUPPORTED" \in Replies /\ "GOOD" \in StatusCodes /\ 0 \in Luns
  BY ControllerAssumption DEF Replies, Senses, StatusCodes
<1>3. device' = [device EXCEPT ![0].sense = "NO_SENSE"] /\ UNCHANGED <<rst, msg>>
  BY DEF RequestSenseMissingLun
<1> HIDE DEF x
<1>4. CASE EnterDataIn(line, x, "LUN_NOT_SUPPORTED", "GOOD")
  BY <1>1, <1>2, <1>3, <1>4, EnterDataInType, SenseSent, Unanswered DEF Answered
<1>5. CASE EnterMsgIn /\ status' = "GOOD"
  BY <1>2, <1>3, <1>5, EnterMsgInType, SenseSent, Unanswered DEF Answered
<1> QED
  BY <1>4, <1>5 DEF RequestSenseMissingLun, x

LEMMA ResetSeenType ==
    ASSUME TypeOK, ResetSeen
    PROVE  rst' \in Resets
  BY Unanswered DEF ResetSeen, Resets

LEMMA RequestSenseMissingLunResetType ==
    ASSUME TypeOK, NEW c, NEW u, Executing(c, u, device), RequestSenseMissingLunReset(c)
    PROVE  Answered
<1> DEFINE x == Transfer(Smaller(c.length, SenseLength), 0, 0)
<1>1. x \in Transfers /\ Consistent(x)
  BY SenseTransfer DEF Executing
<1>2. rst' \in Resets /\ msg' \in Messages
  BY ResetSeenType, Unanswered DEF RequestSenseMissingLunReset, Messages, NoLun
<1>3. Released \in Lines /\ 0 \in Luns /\ "GOOD" \in StatusCodes
      /\ "NONE" \in Replies /\ "BUS_FREE" \in Phases
  BY ControllerAssumption DEF Released, Lines, StatusCodes, Replies, Phases
<1> HIDE DEF x
<1>4. CASE /\ phase' = "BUS_FREE" /\ line' = Released /\ status' = "GOOD"
           /\ xfer' = NoTransfer /\ reply' = "NONE" /\ UNCHANGED device
  BY <1>2, <1>3, <1>4, ConstantTransfers, Unanswered DEF Answered
<1>5. CASE /\ EnterDataIn(Released, x, device[0].sense, "GOOD")
           /\ device' = [device EXCEPT ![0].sense = "NO_SENSE"]
  BY <1>1, <1>2, <1>3, <1>5, EnterDataInType, SenseSent DEF Answered
<1> QED
  BY <1>4, <1>5 DEF RequestSenseMissingLunReset, x

LEMMA DispatchType ==
    ASSUME TypeOK, NEW c, NEW u, NEW d, Executing(c, u, d),
           c.op = "REQUEST_SENSE" => d = device, Dispatch(c, u, d)
    PROVE  Answered
<1>1. CASE ReportMediumChange(c, u, d)
  BY <1>1, ReportMediumChangeType
<1>2. CASE RejectCommand(c, u, d)
  BY <1>2, RejectCommandType
<1>3. CASE \/ ExecuteWithoutData(c, u, d)
           \/ EjectOrLoad(c, u, d)
           \/ ExecuteRead(c, d)
           \/ ExecuteDataOut(c, d)
           \/ ExecuteInquiry(c, d)
  BY <1>3, ExecuteWithoutDataType, EjectOrLoadType, ExecuteReadType,
     ExecuteDataOutType, ExecuteInquiryType
<1>4. CASE /\ c.op = "REQUEST_SENSE"
           /\ \/ RequestSense(c, u)
              \/ RequestSenseMissingLun(c)
              \/ RequestSenseMissingLunReset(c)
  BY <1>4, RequestSenseType, RequestSenseMissingLunType,
     RequestSenseMissingLunResetType
<1> QED
  BY <1>1, <1>2, <1>3, <1>4 DEF Dispatch

\* Whatever a command does, it leaves the controller and the units typed.
LEMMA ExecuteType ==
    ASSUME TypeOK, NEW c \in Cdb, cdb' = c, Execute(c)
    PROVE  Answered
<1> DEFINE u == ExecutingLun(c)
           d == DiscardSense(c)
<1>1. u \in Luns
  BY SenseLunType DEF Senses
<1>2. d \in [Luns -> Unit]
  BY <1>1, SenseSent, Unanswered DEF DiscardSense
<1>3. Executing(c, u, d) /\ (c.op = "REQUEST_SENSE" => d = device)
  BY <1>1, <1>2 DEF Executing, DiscardSense
<1>4. /\ {"LUN_NOT_SUPPORTED", "ILLEGAL_REQUEST"} \subseteq Senses
      /\ {"CHECK_CONDITION", "RESERVATION_CONFLICT"} \subseteq StatusCodes
  BY DEF Senses, StatusCodes
<1> HIDE DEF u, d
<1>5. CASE \/ Error("LUN_NOT_SUPPORTED", "CHECK_CONDITION", device, NoTransfer)
           \/ Error("ILLEGAL_REQUEST", "RESERVATION_CONFLICT", d, NoTransfer)
  BY <1>2, <1>4, <1>5, ErrorType, ConstantTransfers, Unanswered
<1>6. CASE Dispatch(c, u, d)
  BY <1>3, <1>6, DispatchType
<1> QED
  BY <1>5, <1>6 DEF Execute, u, d

-----------------------------------------------------------------------------
(* The type invariant. Each action types the variables it changes.         *)

LEMMA InitType == Init => TypeInv
<1> SUFFICES ASSUME Init PROVE TypeInv
  OBVIOUS
<1>1. NewUnit \in Unit
  BY DEF NewUnit, Unit, Senses, NotReserved
<1>2. ZeroCdb \in Cdb
  BY ControllerAssumption DEF ZeroCdb, Cdb, Ops
<1>3. msg \in [atn : BOOLEAN, bytes : Seq(0..255), lun : LunRange \cup {NoLun},
               byte : 0..255]
  BY DEF Init
<1>4. xfer \in [current : Nat, remaining : Nat, chunk : Nat] /\ TransferConsistent
  BY DEF Init, NoTransfer, TransferConsistent
<1>5. /\ phase \in Phases
      /\ line \in [bsy : BOOLEAN, msg : BOOLEAN, cd : BOOLEAN, io : BOOLEAN]
      /\ rst \in [target : BOOLEAN, initiator : BOOLEAN]
      /\ link \in [linked : BOOLEAN, flag : BOOLEAN]
      /\ sel \in BOOLEAN /\ atn \in BOOLEAN
  BY DEF Init, Phases, Released
<1>6. status \in StatusCodes /\ deferred \in Senses /\ reply \in Replies
  BY DEF Init, StatusCodes, Senses, Replies
<1> QED
  BY <1>1, <1>2, <1>3, <1>4, <1>5, <1>6 DEF Init, TypeInv, TypeOK

\* What remains to be typed after a handler has answered.
LEMMA AnsweredType ==
    ASSUME Answered, sel' \in BOOLEAN, atn' \in BOOLEAN,
           initiator' \in Initiators \cup {Unknown}, cdb' \in Cdb, link' \in Links,
           deferred' \in Senses
    PROVE  TypeInv'
  BY DEF Answered, TypeInv, TypeOK, TransferConsistent, Lines, Resets, Transfers,
         Messages, Links, Consistent

LEMMA Untouched ==
    ASSUME TypeInv
    PROVE  /\ TypeOK /\ Consistent(xfer)
           /\ sel \in BOOLEAN /\ atn \in BOOLEAN
           /\ initiator \in Initiators \cup {Unknown}
           /\ cdb \in Cdb /\ link \in Links /\ deferred \in Senses
  BY DEF TypeInv, TypeOK, TransferConsistent, Consistent, Links

LEMMA HandshakeFailedType ==
    ASSUME TypeInv, HandshakeFailed
    PROVE  Answered
  BY Untouched, Unanswered, BusFreeType DEF HandshakeFailed, Answered, Resets

LEMMA EnvironmentType ==
    ASSUME TypeInv, Environment
    PROVE  TypeInv'
<1>1. CASE Select
  BY <1>1, Untouched, Unanswered, AnsweredType DEF Select, Answered
<1>2. CASE ReleaseSelect
  <2>1. atn' \in BOOLEAN
    BY <1>2, Untouched, Unanswered DEF ReleaseSelect, Lines
  <2> QED
    BY <1>2, <2>1, Untouched, Unanswered, AnsweredType DEF ReleaseSelect, Answered
<1>3. CASE AssertReset \/ ReleaseReset
  <2>1. rst' \in Resets
    BY <1>3, Untouched, Unanswered DEF AssertReset, ReleaseReset, Resets
  <2> QED
    BY <1>3, <2>1, Untouched, Unanswered, AnsweredType
       DEF AssertReset, ReleaseReset, Answered
<1>4. CASE \E l \in Removable : InsertMedium(l) \/ EjectMedium(l)
  <2>1. PICK l \in Luns : InsertMedium(l) \/ EjectMedium(l)
    BY <1>4, ControllerAssumption
  <2>2. device[l] \in Unit
    BY Untouched, Unanswered
  <2>3. device' \in [Luns -> Unit]
    <3>1. CASE InsertMedium(l)
      BY <2>2, <3>1, Untouched, Unanswered DEF InsertMedium, Unit
    <3>2. CASE EjectMedium(l)
      BY <2>2, <3>2, Untouched, Unanswered DEF EjectMedium, Ejected, Unit
    <3> QED
      BY <2>1, <3>1, <3>2
  <2> QED
    BY <2>1, <2>3, Untouched, Unanswered, AnsweredType
       DEF InsertMedium, EjectMedium, Answered
<1> QED
  BY <1>1, <1>2, <1>3, <1>4 DEF Environment

LEMMA SelectionType ==
    ASSUME TypeInv,
           Reset \/ (\E i \in Initiators \cup {Unknown} : StartSelection(i)) \/ EndSelection
    PROVE  TypeInv'
<1>1. CASE Reset
  <2>1. rst' \in Resets /\ msg' \in Messages /\ link' \in Links
    <3>1. rst' \in Resets /\ link' \in Links
      BY <1>1, Untouched, Unanswered DEF Reset, Resets, Links
    <3>2. msg' = [msg EXCEPT !.lun = NoLun, !.atn = FALSE] /\ msg \in Messages
      BY <1>1, Untouched, Unanswered DEF Reset
    <3>3. msg' \in Messages
      BY <3>2, Zenon DEF Messages
    <3> QED
      BY <3>1, <3>3
  <2>2. device' \in [Luns -> Unit]
    <3> SUFFICES ASSUME NEW l \in Luns
                 PROVE  [device[l] EXCEPT !.holder = NotReserved, !.reset = FALSE,
                                          !.attn = FALSE, !.locked = FALSE] \in Unit
      BY <1>1 DEF Reset
    <3>1. device[l] \in Unit
      BY Untouched, Unanswered
    <3> QED
      BY <3>1 DEF Unit
  <2>3. Answered
    BY <1>1, <2>1, <2>2, ConstantTransfers
       DEF Reset, Answered, Phases, Lines, Released, StatusCodes, Replies
  <2> QED
    BY <1>1, <2>1, <2>3, Untouched, AnsweredType DEF Reset
<1>2. CASE \E i \in Initiators \cup {Unknown} : StartSelection(i)
  <2>1. line' \in Lines /\ phase' \in Phases
    BY <1>2, Untouched, Unanswered DEF StartSelection, Lines, Phases
  <2>2. Answered
    BY <1>2, <2>1, Untouched, Unanswered DEF StartSelection, Answered
  <2> QED
    BY <1>2, <2>2, Untouched, AnsweredType DEF StartSelection
<1>3. CASE EndSelection
  <2>1. line' \in Lines /\ phase' \in Phases
    BY <1>3, Untouched, Unanswered DEF EndSelection, EnterCommand, Lines, Phases
  <2>2. msg' \in Messages /\ xfer' \in Transfers /\ Consistent(xfer')
    <3>1. msg' = [msg EXCEPT !.atn = TRUE, !.bytes = <<>>] \/ msg' = msg
      BY <1>3 DEF EndSelection
    <3>2. xfer' = OneByte \/ xfer' = xfer
      BY <1>3 DEF EndSelection
    <3>3. msg \in Messages /\ [msg EXCEPT !.atn = TRUE, !.bytes = <<>>] \in Messages
      BY MessageBytes, EmptyMessage, Untouched, Unanswered
    <3>4. msg' \in Messages
      BY <3>1, <3>3
    <3> QED
      BY <3>2, <3>4, Untouched, Unanswered, ConstantTransfers
  <2>3. Answered
    BY <1>3, <2>1, <2>2, Untouched, Unanswered DEF EndSelection, Answered
  <2> QED
    BY <1>3, <2>3, Untouched, AnsweredType DEF EndSelection
<1> QED
  BY <1>1, <1>2, <1>3

LEMMA CommandType ==
    ASSUME TypeInv,
           CommandTimeout \/ UnknownCommand \/ (\E c \in Commands : ReceiveCommand(c))
    PROVE  TypeInv'
<1>1. /\ {"COMMAND_PHASE_ERROR", "INVALID_OPCODE", "INVALID_FIELD", "NO_SENSE"}
            \subseteq Senses
      /\ "CHECK_CONDITION" \in StatusCodes
  BY DEF Senses, StatusCodes
<1>2. CASE CommandTimeout
  BY <1>1, <1>2, Untouched, HandshakeFailedType, AnsweredType
     DEF CommandTimeout, HandshakeFailed
<1>3. CASE UnknownCommand
  <2>1. Answered
    BY <1>1, <1>3, Untouched, Unanswered, ErrorType DEF UnknownCommand
  <2> QED
    BY <1>1, <1>3, <2>1, Untouched, AnsweredType DEF UnknownCommand
<1>4. CASE \E c \in Commands : ReceiveCommand(c)
  <2>1. PICK c \in Cdb : ReceiveCommand(c)
    BY <1>4, ControllerAssumption
  <2>2. cdb' = c /\ link' \in Links
    BY <2>1 DEF ReceiveCommand, Cdb, Links
  <2>3. CASE /\ deferred' = "INVALID_FIELD"
             /\ Error("INVALID_FIELD", "CHECK_CONDITION", device, xfer)
    <3>1. Answered
      BY <1>1, <2>2, <2>3, Untouched, Unanswered, ErrorType
    <3> QED
      BY <1>1, <2>1, <2>2, <2>3, <3>1, Untouched, AnsweredType DEF ReceiveCommand
  <2>4. CASE /\ deferred' = "NO_SENSE"
             /\ EnterDataIn(line, [xfer EXCEPT !.current = SenseLength], deferred, status)
             /\ UNCHANGED <<rst, msg, device>>
    <3> DEFINE x == [xfer EXCEPT !.current = SenseLength]
    <3>1. x \in Transfers /\ Consistent(x)
      BY Untouched, Unanswered, ControllerAssumption DEF Transfers, Consistent
    <3>2. deferred \in Replies
      BY Untouched DEF Replies
    <3> HIDE DEF x
    <3>3. Answered
      BY <2>4, <3>1, <3>2, Untouched, Unanswered, EnterDataInType DEF Answered, x
    <3> QED
      BY <1>1, <2>1, <2>2, <2>4, <3>3, Untouched, AnsweredType DEF ReceiveCommand
  <2>5. CASE deferred' = "NO_SENSE" /\ Execute(c)
    <3>1. Answered
      BY <2>2, <2>5, Untouched, ExecuteType
    <3> QED
      BY <1>1, <2>1, <2>2, <2>5, <3>1, Untouched, AnsweredType DEF ReceiveCommand
  <2> QED
    BY <2>1, <2>3, <2>4, <2>5 DEF ReceiveCommand
<1> QED
  BY <1>2, <1>3, <1>4

LEMMA TransferBytesType ==
    ASSUME TypeInv,
           TransferBytes \/ TransferFailed \/ (\E b \in MsgBytes : ReceiveMessageByte(b))
    PROVE  TypeInv'
<1> DEFINE x == [xfer EXCEPT !.current = 0]
<1>1. x \in Transfers /\ Consistent(x)
  BY Untouched, Unanswered DEF Transfers, Consistent
<1> HIDE DEF x
<1>2. CASE TransferBytes
  <2>1. Answered
    BY <1>1, <1>2, Untouched, Unanswered DEF TransferBytes, Answered, x
  <2> QED
    BY <1>2, <2>1, Untouched, AnsweredType DEF TransferBytes
<1>3. CASE TransferFailed
  <2>1. UNCHANGED <<cdb, link>> /\ Answered
    BY <1>3, HandshakeFailedType DEF TransferFailed, HandshakeFailed
  <2> QED
    BY <1>3, <2>1, Untouched, AnsweredType DEF TransferFailed
<1>4. CASE \E b \in MsgBytes : ReceiveMessageByte(b)
  <2>1. PICK b \in 0..255 : ReceiveMessageByte(b)
    BY <1>4, ControllerAssumption
  <2>2. msg' \in Messages
    BY <2>1, Untouched, Unanswered DEF ReceiveMessageByte, Messages
  <2>3. Answered
    BY <1>1, <2>1, <2>2, Untouched, Unanswered DEF ReceiveMessageByte, Answered, x
  <2> QED
    BY <2>1, <2>3, Untouched, AnsweredType DEF ReceiveMessageByte
<1> QED
  BY <1>2, <1>3, <1>4

LEMMA ContinueDataInType ==
    ASSUME TypeInv, ContinueDataIn
    PROVE  TypeInv'
<1> DEFINE x == Advance(xfer, xfer.chunk)
           y == [x EXCEPT !.current = NextChunk(x)]
<1>1. x \in Transfers /\ Consistent(x)
  BY Untouched, Unanswered, AdvanceType DEF Transfers, Consistent
<1> HIDE DEF x
<1>2. y \in Transfers /\ Consistent(y)
  BY <1>1 DEF NextChunk, Smaller, Transfers, Consistent
<1> HIDE DEF y
<1>3. CASE EnterStatus(line, status) /\ UNCHANGED <<rst, msg, device>>
  <2>1. Answered
    BY <1>3, Untouched, Unanswered, EnterStatusType DEF Answered
  <2> QED
    BY <2>1, Untouched, AnsweredType DEF ContinueDataIn
<1>4. CASE xfer' = y /\ UNCHANGED <<phase, line, rst, status, msg, reply, device>>
  <2>1. Answered
    BY <1>2, <1>4, Untouched, Unanswered DEF Answered
  <2> QED
    BY <2>1, Untouched, AnsweredType DEF ContinueDataIn
<1>5. CASE Error("DEVICE_ERROR", "CHECK_CONDITION", device, x)
  <2>1. "DEVICE_ERROR" \in Senses /\ "CHECK_CONDITION" \in StatusCodes /\ cdb' = cdb
    BY DEF Senses, StatusCodes, ContinueDataIn
  <2>2. Answered
    BY <1>1, <1>5, <2>1, Untouched, Unanswered, ErrorType
  <2> QED
    BY <2>2, Untouched, AnsweredType DEF ContinueDataIn
<1> QED
  BY <1>3, <1>4, <1>5 DEF ContinueDataIn, x, y

LEMMA ContinueDataOutType ==
    ASSUME TypeInv, ContinueDataOut
    PROVE  TypeInv'
<1> DEFINE n == Smaller(xfer.chunk, xfer.remaining)
           x == Advance(xfer, n)
           y == [x EXCEPT !.current = x.chunk]
<1>1. n \in Nat /\ n <= xfer.remaining
  BY Untouched, Unanswered DEF Transfers, Smaller
<1> HIDE DEF n
<1>2. x \in Transfers /\ Consistent(x)
  BY <1>1, Untouched, Unanswered, AdvanceType
<1> HIDE DEF x
<1>3. y \in Transfers /\ Consistent(y)
  BY <1>2 DEF Transfers, Consistent
<1> HIDE DEF y
<1>4. CASE EnterStatus(line, status) /\ UNCHANGED <<rst, msg, device>>
  <2>1. Answered
    BY <1>4, Untouched, Unanswered, EnterStatusType DEF Answered
  <2> QED
    BY <2>1, Untouched, AnsweredType DEF ContinueDataOut
<1>5. CASE xfer' = y /\ UNCHANGED <<phase, line, rst, status, msg, reply, device>>
  <2>1. Answered
    BY <1>3, <1>5, Untouched, Unanswered DEF Answered
  <2> QED
    BY <2>1, Untouched, AnsweredType DEF ContinueDataOut
<1>6. CASE Error("DEVICE_ERROR", "CHECK_CONDITION", device, xfer)
  <2>1. "DEVICE_ERROR" \in Senses /\ "CHECK_CONDITION" \in StatusCodes /\ cdb' = cdb
    BY DEF Senses, StatusCodes, ContinueDataOut
  <2>2. Answered
    BY <1>6, <2>1, Untouched, Unanswered, ErrorType
  <2> QED
    BY <2>2, Untouched, AnsweredType DEF ContinueDataOut
<1> QED
  BY <1>4, <1>5, <1>6 DEF ContinueDataOut, n, x, y

LEMMA CompletionType ==
    ASSUME TypeInv, EndStatus \/ EndMsgIn
    PROVE  TypeInv'
<1>1. CASE EndStatus
  <2>1. Answered
    BY <1>1, Untouched, Unanswered, EnterMsgInType DEF EndStatus, Answered
  <2> QED
    BY <1>1, <2>1, Untouched, AnsweredType DEF EndStatus
<1>2. CASE EndMsgIn
  <2>1. xfer' \in Transfers /\ Consistent(xfer')
    BY <1>2, Untouched, Unanswered, AdvanceType DEF EndMsgIn, Transfers, Consistent
  <2>2. CASE /\ link' = [linked |-> FALSE, flag |-> FALSE]
             /\ msg' = [msg EXCEPT !.atn = FALSE]
             /\ EnterCommand(line)
             /\ reply' = "NONE"
             /\ UNCHANGED status
    <3>1. line' \in Lines /\ phase' \in Phases /\ reply' \in Replies
      BY <2>2, Untouched, Unanswered DEF EnterCommand, Lines, Phases, Replies
    <3>2. msg' \in Messages /\ link' \in Links
      <4>1. msg \in Messages
        BY Untouched, Unanswered
      <4>2. msg' \in Messages
        BY <2>2, <4>1, Zenon DEF Messages
      <4> QED
        BY <2>2, <4>2 DEF Links
    <3>3. Answered
      BY <1>2, <2>1, <2>2, <3>1, <3>2, Untouched, Unanswered DEF EndMsgIn, Answered
    <3> QED
      BY <1>2, <3>2, <3>3, Untouched, AnsweredType DEF EndMsgIn
  <2>3. CASE BusFree /\ UNCHANGED link
    <3>1. Answered
      BY <1>2, <2>1, <2>3, Untouched, Unanswered, BusFreeType DEF EndMsgIn, Answered
    <3> QED
      BY <1>2, <2>3, <3>1, Untouched, AnsweredType DEF EndMsgIn
  <2> QED
    BY <1>2, <2>2, <2>3 DEF EndMsgIn
<1> QED
  BY <1>1, <1>2

\* MESSAGE OUT: the bytes parsed, and what BUS DEVICE RESET does.
LEMMA ParsedType ==
    ASSUME TypeInv, NEW l \in LunRange \cup {NoLun}
    PROVE  [Parsed EXCEPT !.lun = l] \in Messages /\ NoLun \in LunRange \cup {NoLun}
<1>1. Parsed \in Messages
  BY MessageBytes, EmptyMessage, Untouched, Unanswered DEF Parsed
<1> QED
  BY <1>1, MessageLun

LEMMA AfterTerminatorType ==
    ASSUME TypeInv, NEW bytes, NEW l \in LunRange \cup {NoLun}
    PROVE  AfterTerminator(bytes, l) \in [Luns -> Unit]
<1>1. DeviceReset(l) \in [Luns -> Unit]
  <2> DEFINE k == IF l # NoLun THEN l ELSE cdb.lun
  <2>1. CASE k \notin Luns
    BY <2>1, Untouched, Unanswered DEF DeviceReset
  <2>2. CASE k \in Luns
    <3> HIDE DEF k
    <3>1. device[k] \in Unit /\ device \in [Luns -> Unit]
      BY <2>2, Untouched, Unanswered
    <3>2. [device[k] EXCEPT !.reset = TRUE, !.holder = NotReserved] \in Unit
      BY <3>1 DEF Unit
    <3> QED
      BY <2>2, <3>1, <3>2 DEF DeviceReset, k
  <2> QED
    BY <2>1, <2>2
<1> QED
  BY <1>1, Untouched, Unanswered DEF AfterTerminator

LEMMA EnterCommandType ==
    ASSUME NEW l \in Lines, EnterCommand(l)
    PROVE  phase' \in Phases /\ line' \in Lines
  BY DEF EnterCommand, Phases, Lines

LEMMA MessageConstants ==
    /\ Released \in Lines
    /\ "GOOD" \in StatusCodes
    /\ "MESSAGE_REJECT" \in Replies
  BY DEF Released, Lines, StatusCodes, Replies

LEMMA ParseMessageType ==
    ASSUME TypeInv, NEW bytes, NEW l \in LunRange \cup {NoLun}, ParseMessage(bytes, l)
    PROVE  Answered
<1>1. xfer' \in Transfers /\ Consistent(xfer')
  <2>1. CASE xfer' = Advance(xfer, Smaller(xfer.chunk, xfer.remaining))
    <3> DEFINE n == Smaller(xfer.chunk, xfer.remaining)
    <3>1. n \in Nat /\ n <= xfer.remaining
      BY Untouched, Unanswered DEF Transfers, Smaller
    <3> HIDE DEF n
    <3> QED
      BY <2>1, <3>1, Untouched, Unanswered, AdvanceType DEF n
  <2>2. CASE xfer' = RejectTransfer(bytes)
    BY <2>2 DEF RejectTransfer, OneByte, Transfers, Consistent
  <2> QED
    BY <2>1, <2>2 DEF ParseMessage
<1>2. reply' \in Replies
  BY MessageConstants, Untouched, Unanswered DEF ParseMessage
<1>3. device' \in [Luns -> Unit] /\ rst' = rst
  BY AfterTerminatorType DEF ParseMessage
<1>4. CASE /\ msg' = [Parsed EXCEPT !.lun = l]
           /\ EnterCommand(line)
           /\ UNCHANGED status
  BY <1>1, <1>2, <1>3, <1>4, ParsedType, EnterCommandType, Untouched, Unanswered
     DEF Answered
<1>5. CASE /\ msg' = [Parsed EXCEPT !.lun = NoLun]
           /\ EnterCommand(Released)
           /\ status' = "GOOD"
  BY <1>1, <1>2, <1>3, <1>5, ParsedType, EnterCommandType, MessageConstants,
     Untouched, Unanswered DEF Answered
<1> QED
  BY <1>4, <1>5 DEF ParseMessage

LEMMA RejectFailedType ==
    ASSUME TypeInv, NEW bytes, NEW f, NEW l \in LunRange \cup {NoLun},
           RejectFailed(bytes, f, l)
    PROVE  Answered
<1>1. rst' \in Resets
  BY Untouched, Unanswered DEF RejectFailed, Resets
<1>2. msg' \in Messages
  BY ParsedType DEF RejectFailed
<1>3. device' \in [Luns -> Unit]
  BY AfterTerminatorType DEF RejectFailed
<1> QED
  BY <1>1, <1>2, <1>3, EnterCommandType, MessageConstants, ConstantTransfers
     DEF RejectFailed, Answered

LEMMA ContinueMessageOutType ==
    ASSUME TypeInv, ContinueMessageOut
    PROVE  TypeInv'
<1> DEFINE bytes == Append(msg.bytes, msg.byte)
<1>1. bytes \in Seq(0..255)
  BY Untouched, Unanswered DEF Messages
<1> HIDE DEF bytes
<1>2. Answered
  <2>1. CASE /\ msg' = [msg EXCEPT !.bytes = bytes]
             /\ xfer' = OneByte
             /\ UNCHANGED <<phase, line, rst, status, reply, device>>
    BY <1>1, <2>1, MessageBytes, ConstantTransfers, Untouched, Unanswered DEF Answered
  <2>2. CASE \E l \in LunRange \cup {NoLun} :
                \/ ParseMessage(bytes, l)
                \/ \E f \in ExtendedBytes(bytes) : RejectFailed(bytes, f, l)
    BY <2>2, ParseMessageType, RejectFailedType
  <2> QED
    BY <2>1, <2>2 DEF ContinueMessageOut, bytes
<1> QED
  BY <1>2, Untouched, AnsweredType DEF ContinueMessageOut

LEMMA StepType == TypeInv /\ [Next]_vars => TypeInv'
<1> SUFFICES ASSUME TypeInv, [Next]_vars PROVE TypeInv'
  OBVIOUS
<1>1. CASE Environment
  BY <1>1, EnvironmentType
<1>2. CASE Process
  BY <1>2, SelectionType, CommandType, TransferBytesType, ContinueDataInType,
     ContinueDataOutType, ContinueMessageOutType, CompletionType DEF Process
<1>3. CASE UNCHANGED vars
  BY <1>3, Untouched, Unanswered, AnsweredType DEF vars, Answered
<1> QED
  BY <1>1, <1>2, <1>3 DEF Next

\* Every variable keeps its type. In particular no transfer length becomes
\* negative, which UpdateTransferLength() asserts, and error handling always
\* finds a unit to store its sense data in.
THEOREM TypeCorrect == Spec => []TypeOK
<1>1. TypeInv => TypeOK
  BY DEF TypeInv
<1> QED
  BY <1>1, InitType, StepType, PTL DEF Spec

\* A single transfer never exceeds what remains of the data: the chunk size
\* stays within the remaining length for any sequence of commands.
THEOREM TransfersConsistent == Spec => []TransferConsistent
<1>1. TypeInv => TransferConsistent
  BY DEF TypeInv
<1> QED
  BY <1>1, InitType, StepType, PTL DEF Spec

-----------------------------------------------------------------------------
(* The safety invariant *)

Safe ==
    /\ LinesMatchPhase
    /\ NexusCleared
    /\ NoMissingDevice
    /\ ReservationRespected

\* The inductive invariant
SafeInv == TypeInv /\ Safe

\* The step ends outside of the data phases.
Finished ==
    /\ phase' \notin DataPhases
    /\ LinesMatchPhase'
    /\ NexusCleared'

LEMMA FinishedSafe ==
    ASSUME Finished
    PROVE  Safe'
  BY DEF Finished, Safe, NoMissingDevice, ReservationRespected, DataPhases

-----------------------------------------------------------------------------
(* Entering a phase *)

LEMMA EnterStatusFinishes ==
    ASSUME NEW l \in Lines, NEW code, EnterStatus(l, code)
    PROVE  Finished
  BY DEF EnterStatus, Finished, LinesMatchPhase, NexusCleared, Lines, DataPhases,
         SendPhases

LEMMA EnterCommandFinishes ==
    ASSUME NEW l \in Lines, EnterCommand(l)
    PROVE  Finished
  BY DEF EnterCommand, Finished, LinesMatchPhase, NexusCleared, Lines, DataPhases,
         SendPhases

LEMMA EnterMsgInFinishes ==
    ASSUME TypeOK, EnterMsgIn
    PROVE  Finished
  BY Unanswered DEF EnterMsgIn, Finished, LinesMatchPhase, NexusCleared, Lines,
         DataPhases, SendPhases

LEMMA BusFreeFinishes ==
    ASSUME TypeOK, BusFree
    PROVE  Finished
<1>1. msg'.lun = NoLun /\ ~msg'.atn
  BY Unanswered DEF BusFree, Messages
<1> QED
  BY <1>1 DEF BusFree, Finished, LinesMatchPhase, NexusCleared, Released, DataPhases,
         SendPhases

LEMMA ErrorFinishes ==
    ASSUME TypeOK, NEW sense, NEW code, NEW d, NEW x, Error(sense, code, d, x)
    PROVE  Finished
<1>1. CASE BusFree
  BY <1>1, BusFreeFinishes
<1>2. CASE EnterStatus(line, code)
  BY <1>2, EnterStatusFinishes, Unanswered
<1> QED
  BY <1>1, <1>2 DEF Error

LEMMA EnterDataInLines ==
    ASSUME NEW l \in Lines, NEW x, NEW payload, NEW code, EnterDataIn(l, x, payload, code)
    PROVE  \/ Finished
           \/ /\ phase' = "DATA_IN" /\ xfer' = x
              /\ LinesMatchPhase' /\ NexusCleared'
<1>1. CASE EnterStatus(l, code)
  BY <1>1, EnterStatusFinishes
<1>2. CASE phase' = "DATA_IN" /\ line' = [l EXCEPT !.msg = FALSE, !.cd = FALSE, !.io = TRUE]
  BY <1>2 DEF LinesMatchPhase, NexusCleared, Lines, SendPhases, EnterDataIn, EnterStatus
<1> QED
  BY <1>1, <1>2 DEF EnterDataIn

LEMMA EnterDataOutLines ==
    ASSUME TypeOK, NEW x, EnterDataOut(x)
    PROVE  \/ Finished
           \/ phase' = "DATA_OUT" /\ LinesMatchPhase' /\ NexusCleared'
<1>1. line \in Lines
  BY Unanswered
<1>2. CASE EnterStatus(line, "GOOD")
  BY <1>1, <1>2, EnterStatusFinishes
<1>3. CASE phase' = "DATA_OUT" /\ line' = [line EXCEPT !.msg = FALSE, !.cd = FALSE, !.io = FALSE]
  BY <1>1, <1>3 DEF LinesMatchPhase, NexusCleared, Lines, SendPhases
<1> QED
  BY <1>2, <1>3 DEF EnterDataOut

-----------------------------------------------------------------------------
(* Executing a command *)

\* The checks of Execute() have been passed, for unit u and the units at d.
Granted(c, u, d) ==
    /\ Executing(c, u, d)
    /\ u = ExecutingLun(c)
    /\ EffectiveLun(c) \in Luns \/ c.op \in AnyLunOps
    /\ ~Reserved(c, u, d)
    /\ initiator' = initiator

\* A data phase that is entered by a command that needs its unit
LEMMA DataPhaseSafe ==
    ASSUME TypeOK, NEW c, NEW u, NEW d, Granted(c, u, d),
           c.op \in {"READ", "WRITE", "MODE_SELECT", "FORMAT"},
           device' = d, msg' = msg, LinesMatchPhase', NexusCleared'
    PROVE  Safe'
<1>1. EffectiveLun(c) \in Luns /\ cdb' = c
  BY DEF Granted, Executing, AnyLunOps
<1>2. EffectiveLun(cdb)' \in Luns /\ ExecutingLun(cdb)' = u
  BY <1>1 DEF EffectiveLun, ExecutingLun, Granted
<1>3. device'[u].holder \in {NotReserved, initiator'}
  BY DEF Granted, Reserved, ExemptOps
<1> QED
  BY <1>2, <1>3 DEF Safe, NoMissingDevice, ReservationRespected

\* A DATA IN phase of INQUIRY or REQUEST SENSE, which any initiator may execute
LEMMA ExemptDataInSafe ==
    ASSUME phase' = "DATA_IN", LinesMatchPhase', NexusCleared',
           cdb'.op = "REQUEST_SENSE" \/ (cdb'.op = "INQUIRY" /\ xfer'.remaining <= xfer'.chunk),
           xfer' \in Transfers
    PROVE  Safe'
  BY DEF Safe, NoMissingDevice, ReservationRespected, ExemptOps, Transfers

LEMMA RequestSenseSafe ==
    ASSUME TypeOK, NEW c, NEW u, Granted(c, u, device), c.op = "REQUEST_SENSE",
           RequestSense(c, u) \/ RequestSenseMissingLun(c) \/ RequestSenseMissingLunReset(c)
    PROVE  Safe'
<1>1. xfer' \in Transfers /\ cdb'.op = "REQUEST_SENSE"
  BY RequestSenseType, RequestSenseMissingLunType, RequestSenseMissingLunResetType
     DEF Granted, Executing, Answered
<1>2. CASE RequestSense(c, u)
  BY <1>1, <1>2, ErrorFinishes, EnterDataInLines, FinishedSafe, ExemptDataInSafe, Unanswered
     DEF RequestSense
<1>3. CASE RequestSenseMissingLun(c)
  BY <1>1, <1>3, EnterMsgInFinishes, EnterDataInLines, FinishedSafe, ExemptDataInSafe,
     Unanswered DEF RequestSenseMissingLun
<1>4. CASE RequestSenseMissingLunReset(c)
  <2>1. msg'.lun = NoLun /\ ~msg'.atn
    BY <1>4, Unanswered DEF RequestSenseMissingLunReset, Messages
  <2>2. CASE phase' = "BUS_FREE" /\ line' = Released
    <3>1. Finished
      BY <2>1, <2>2 DEF Finished, LinesMatchPhase, NexusCleared, Released, DataPhases,
         SendPhases
    <3> QED
      BY <3>1, FinishedSafe
  <2>3. CASE EnterDataIn(Released, Transfer(Smaller(c.length, SenseLength), 0, 0),
                         device[0].sense, "GOOD")
    <3>1. Released \in Lines
      BY DEF Released, Lines
    <3> QED
      BY <1>1, <2>3, <3>1, EnterDataInLines, FinishedSafe, ExemptDataInSafe
  <2> QED
    BY <1>4, <2>2, <2>3 DEF RequestSenseMissingLunReset
<1> QED
  BY <1>2, <1>3, <1>4

LEMMA DispatchSafe ==
    ASSUME TypeOK, NEW c, NEW u, NEW d, Granted(c, u, d),
           c.op = "REQUEST_SENSE" => d = device, Dispatch(c, u, d)
    PROVE  Safe'
<1>1. CASE ReportMediumChange(c, u, d) \/ RejectCommand(c, u, d)
  BY <1>1, ErrorFinishes, FinishedSafe DEF ReportMediumChange, RejectCommand
<1>2. CASE ExecuteWithoutData(c, u, d) \/ EjectOrLoad(c, u, d)
  BY <1>2, ErrorFinishes, EnterStatusFinishes, FinishedSafe, Unanswered
     DEF ExecuteWithoutData, EjectOrLoad
<1>3. CASE ExecuteRead(c, d)
  <2> DEFINE x == Transfer(Smaller(c.length, c.chunk), c.length, c.chunk)
  <2>1. c.op = "READ"
    BY <1>3 DEF ExecuteRead
  <2>2. CASE EnterDataIn(line, x, "DATA", "GOOD") /\ device' = d /\ UNCHANGED <<rst, msg>>
    BY <2>1, <2>2, EnterDataInLines, FinishedSafe, DataPhaseSafe, Unanswered
  <2>3. CASE Error("DEVICE_ERROR", "CHECK_CONDITION", d, [x EXCEPT !.current = c.length])
    BY <2>3, ErrorFinishes, FinishedSafe
  <2> QED
    BY <1>3, <2>2, <2>3 DEF ExecuteRead
<1>4. CASE ExecuteDataOut(c, d)
  BY <1>4, EnterDataOutLines, FinishedSafe, DataPhaseSafe DEF ExecuteDataOut
<1>5. CASE ExecuteInquiry(c, d)
  <2>1. cdb'.op = "INQUIRY" /\ xfer' \in Transfers
    BY <1>5, ExecuteInquiryType DEF ExecuteInquiry, Granted, Executing, Answered
  <2>2. xfer'.remaining <= xfer'.chunk \/ Finished
    BY <1>5, EnterDataInLines, Unanswered DEF ExecuteInquiry, Transfer, Smaller
  <2> QED
    BY <1>5, <2>1, <2>2, EnterDataInLines, FinishedSafe, ExemptDataInSafe, Unanswered
       DEF ExecuteInquiry
<1>6. CASE /\ c.op = "REQUEST_SENSE"
           /\ \/ RequestSense(c, u)
              \/ RequestSenseMissingLun(c)
              \/ RequestSenseMissingLunReset(c)
  BY <1>6, RequestSenseSafe
<1> QED
  BY <1>1, <1>2, <1>3, <1>4, <1>5, <1>6 DEF Dispatch

LEMMA ExecuteSafe ==
    ASSUME TypeOK, NEW c \in Cdb, cdb' = c, initiator' = initiator, Execute(c)
    PROVE  Safe'
<1> DEFINE u == ExecutingLun(c)
           d == DiscardSense(c)
<1>1. u \in Luns
  BY SenseLunType DEF Senses
<1>2. d \in [Luns -> Unit] /\ (c.op = "REQUEST_SENSE" => d = device)
  BY <1>1, SenseSent, Unanswered DEF DiscardSense
<1>3. CASE \/ Error("LUN_NOT_SUPPORTED", "CHECK_CONDITION", device, NoTransfer)
           \/ Error("ILLEGAL_REQUEST", "RESERVATION_CONFLICT", d, NoTransfer)
  BY <1>3, ErrorFinishes, FinishedSafe
<1>4. CASE /\ EffectiveLun(c) \in Luns \/ c.op \in AnyLunOps
           /\ ~Reserved(c, u, d)
           /\ Dispatch(c, u, d)
  <2>1. Granted(c, u, d)
    BY <1>1, <1>2, <1>4 DEF Granted, Executing
  <2> HIDE DEF u, d
  <2> QED
    BY <1>2, <1>4, <2>1, DispatchSafe
<1> QED
  BY <1>3, <1>4 DEF Execute

-----------------------------------------------------------------------------
(* The actions *)

\* A step that changes nothing the properties depend on
LEMMA UnchangedSafe ==
    ASSUME Safe,
           UNCHANGED <<phase, line, initiator, cdb, msg, device>>,
           xfer'.remaining = xfer.remaining, xfer'.chunk = xfer.chunk
    PROVE  Safe'
<1>1. EffectiveLun(cdb)' = EffectiveLun(cdb) /\ ExecutingLun(cdb)' = ExecutingLun(cdb)
  BY DEF EffectiveLun, ExecutingLun
<1> QED
  BY <1>1 DEF Safe, LinesMatchPhase, NexusCleared, NoMissingDevice, ReservationRespected

LEMMA EnvironmentSafe ==
    ASSUME SafeInv, Environment
    PROVE  Safe'
<1>1. CASE Select \/ ReleaseSelect \/ AssertReset \/ ReleaseReset
  BY <1>1, UnchangedSafe DEF SafeInv, Select, ReleaseSelect, AssertReset, ReleaseReset
<1>2. CASE \E l \in Removable : InsertMedium(l) \/ EjectMedium(l)
  <2>1. phase' \notin DataPhases /\ UNCHANGED <<phase, line, msg>>
    BY <1>2 DEF InsertMedium, EjectMedium, DataPhases
  <2>2. Finished
    BY <2>1 DEF SafeInv, Safe, Finished, LinesMatchPhase, NexusCleared
  <2> QED
    BY <2>2, FinishedSafe
<1> QED
  BY <1>1, <1>2 DEF Environment

LEMMA SelectionSafe ==
    ASSUME SafeInv,
           Reset \/ (\E i \in Initiators \cup {Unknown} : StartSelection(i)) \/ EndSelection
    PROVE  Safe'
<1>1. TypeOK
  BY DEF SafeInv, TypeInv
<1>2. CASE Reset
  <2>1. msg'.lun = NoLun /\ ~msg'.atn
    BY <1>1, <1>2, Unanswered DEF Reset, Messages
  <2>2. Finished
    BY <1>2, <2>1 DEF Reset, Finished, LinesMatchPhase, NexusCleared, Released,
       DataPhases, SendPhases
  <2> QED
    BY <2>2, FinishedSafe
<1>3. CASE \E i \in Initiators \cup {Unknown} : StartSelection(i)
  <2>1. /\ phase = "BUS_FREE" /\ phase' = "SELECTION" /\ msg' = msg
        /\ line' = [line EXCEPT !.bsy = TRUE]
    BY <1>3 DEF StartSelection
  <2>2. line'.msg = line.msg /\ line'.cd = line.cd /\ line'.io = line.io
    BY <1>1, <2>1, Unanswered DEF Lines
  <2>3. Finished
    BY <2>1, <2>2 DEF SafeInv, Safe, Finished, LinesMatchPhase, NexusCleared, DataPhases,
       SendPhases
  <2> QED
    BY <2>3, FinishedSafe
<1>4. CASE EndSelection
  <2>1. CASE EnterCommand(line)
    BY <1>1, <2>1, EnterCommandFinishes, FinishedSafe, Unanswered
  <2>2. CASE /\ phase' = "MSG_OUT"
             /\ line' = [line EXCEPT !.msg = TRUE, !.cd = TRUE, !.io = FALSE]
    <3>1. line'.msg /\ line'.cd /\ ~line'.io
      BY <1>1, <2>2, Unanswered DEF Lines
    <3>2. Finished
      BY <2>2, <3>1 DEF Finished, LinesMatchPhase, NexusCleared, DataPhases, SendPhases
    <3> QED
      BY <3>2, FinishedSafe
  <2> QED
    BY <1>4, <2>1, <2>2 DEF EndSelection
<1> QED
  BY <1>2, <1>3, <1>4

LEMMA CommandSafe ==
    ASSUME SafeInv,
           CommandTimeout \/ UnknownCommand \/ (\E c \in Commands : ReceiveCommand(c))
    PROVE  Safe'
<1>1. TypeOK
  BY DEF SafeInv, TypeInv
<1>2. CASE CommandTimeout
  BY <1>1, <1>2, BusFreeFinishes, FinishedSafe DEF CommandTimeout, HandshakeFailed
<1>3. CASE UnknownCommand
  BY <1>1, <1>3, ErrorFinishes, FinishedSafe DEF UnknownCommand
<1>4. CASE \E c \in Commands : ReceiveCommand(c)
  <2>1. PICK c \in Cdb : ReceiveCommand(c)
    BY <1>4, ControllerAssumption
  <2>2. cdb' = c /\ initiator' = initiator
    BY <2>1 DEF ReceiveCommand
  <2>3. CASE Error("INVALID_FIELD", "CHECK_CONDITION", device, xfer)
    BY <1>1, <2>3, ErrorFinishes, FinishedSafe
  <2>4. CASE /\ c.op = "REQUEST_SENSE"
             /\ EnterDataIn(line, [xfer EXCEPT !.current = SenseLength], deferred, status)
    <3> DEFINE x == [xfer EXCEPT !.current = SenseLength]
    <3>1. x \in Transfers
      BY <1>1, Unanswered, ControllerAssumption DEF Transfers
    <3>2. Finished \/ (phase' = "DATA_IN" /\ xfer' = x /\ LinesMatchPhase' /\ NexusCleared')
      BY <1>1, <2>4, EnterDataInLines, Unanswered
    <3> HIDE DEF x
    <3> QED
      BY <2>2, <2>4, <3>1, <3>2, FinishedSafe, ExemptDataInSafe
  <2>5. CASE Execute(c)
    BY <1>1, <2>2, <2>5, ExecuteSafe
  <2> QED
    BY <2>1, <2>3, <2>4, <2>5 DEF ReceiveCommand
<1> QED
  BY <1>2, <1>3, <1>4

LEMMA TransferSafe ==
    ASSUME SafeInv,
           \/ TransferBytes \/ TransferFailed
           \/ \E b \in MsgBytes : ReceiveMessageByte(b)
    PROVE  Safe'
<1>1. TypeOK /\ xfer \in Transfers /\ msg \in Messages
  BY Unanswered DEF SafeInv, TypeInv
<1>2. CASE TransferBytes
  <2>1. xfer'.remaining = xfer.remaining /\ xfer'.chunk = xfer.chunk
    BY <1>1, <1>2 DEF TransferBytes, Transfers
  <2> QED
    BY <1>2, <2>1, UnchangedSafe DEF SafeInv, TransferBytes
<1>3. CASE TransferFailed
  BY <1>1, <1>3, BusFreeFinishes, FinishedSafe DEF TransferFailed, HandshakeFailed
<1>4. CASE \E b \in MsgBytes : ReceiveMessageByte(b)
  <2>1. phase = "MSG_OUT" /\ UNCHANGED <<phase, line>>
    BY <1>4 DEF ReceiveMessageByte
  <2>2. Finished
    BY <2>1 DEF SafeInv, Safe, Finished, LinesMatchPhase, NexusCleared, DataPhases
  <2> QED
    BY <2>2, FinishedSafe
<1> QED
  BY <1>2, <1>3, <1>4

\* In a data phase another chunk follows for the same unit, or the phase ends.
LEMMA ContinueDataSafe ==
    ASSUME SafeInv, ContinueDataIn \/ ContinueDataOut
    PROVE  Safe'
<1>1. TypeOK /\ line \in Lines
  BY Unanswered DEF SafeInv, TypeInv
<1>2. CASE \/ EnterStatus(line, status)
           \/ \E x : Error("DEVICE_ERROR", "CHECK_CONDITION", device, x)
  BY <1>1, <1>2, EnterStatusFinishes, ErrorFinishes, FinishedSafe
<1>3. CASE /\ UNCHANGED <<phase, line, initiator, cdb, msg, device>>
           /\ phase = "DATA_OUT" \/ EffectiveLun(cdb) \in Luns
  <2>1. EffectiveLun(cdb)' = EffectiveLun(cdb) /\ ExecutingLun(cdb)' = ExecutingLun(cdb)
    BY <1>3 DEF EffectiveLun, ExecutingLun
  <2>2. EffectiveLun(cdb) \in Luns
    BY <1>3 DEF SafeInv, Safe, NoMissingDevice
  <2> QED
    BY <1>3, <2>1, <2>2
       DEF SafeInv, Safe, LinesMatchPhase, NexusCleared, NoMissingDevice, ReservationRespected
<1> QED
  BY <1>2, <1>3 DEF ContinueDataIn, ContinueDataOut

LEMMA CompletionSafe ==
    ASSUME SafeInv, EndStatus \/ EndMsgIn
    PROVE  Safe'
<1>1. TypeOK /\ line \in Lines
  BY Unanswered DEF SafeInv, TypeInv
<1> QED
  BY <1>1, EnterMsgInFinishes, EnterCommandFinishes, BusFreeFinishes, FinishedSafe
     DEF EndStatus, EndMsgIn

LEMMA ContinueMessageOutSafe ==
    ASSUME SafeInv, ContinueMessageOut
    PROVE  Safe'
<1>1. TypeOK /\ line \in Lines /\ Released \in Lines
  BY Unanswered, MessageConstants DEF SafeInv, TypeInv
<1>2. CASE UNCHANGED <<phase, line>>
  <2>1. phase = "MSG_OUT"
    BY DEF ContinueMessageOut
  <2>2. Finished
    BY <1>2, <2>1 DEF SafeInv, Safe, Finished, LinesMatchPhase, NexusCleared, DataPhases
  <2> QED
    BY <2>2, FinishedSafe
<1>3. CASE EnterCommand(line) \/ EnterCommand(Released)
  BY <1>1, <1>3, EnterCommandFinishes, FinishedSafe
<1> QED
  BY <1>2, <1>3 DEF ContinueMessageOut, ParseMessage, RejectFailed

LEMMA InitSafe == Init => SafeInv
<1> SUFFICES ASSUME Init PROVE SafeInv
  OBVIOUS
<1>1. Safe
  BY DEF Init, Safe, LinesMatchPhase, NexusCleared, NoMissingDevice, ReservationRespected,
         Released, DataPhases, SendPhases
<1> QED
  BY <1>1, InitType DEF SafeInv

LEMMA StepSafe == SafeInv /\ [Next]_vars => SafeInv'
<1> SUFFICES ASSUME SafeInv, [Next]_vars PROVE SafeInv'
  OBVIOUS
<1>1. TypeInv'
  BY StepType DEF SafeInv
<1>2. CASE Environment
  BY <1>1, <1>2, EnvironmentSafe DEF SafeInv
<1>3. CASE Process
  BY <1>1, <1>3, SelectionSafe, CommandSafe, TransferSafe, ContinueDataSafe,
     CompletionSafe, ContinueMessageOutSafe DEF Process, SafeInv
<1>4. CASE UNCHANGED vars
  BY <1>1, <1>4, UnchangedSafe DEF vars, SafeInv
<1> QED
  BY <1>2, <1>3, <1>4 DEF Next

LEMMA SafeInvariant == Spec => []SafeInv
  BY InitSafe, StepSafe, PTL DEF Spec

\* The control lines always tell the initiator the phase the handler is in.
THEOREM LinesCorrect == Spec => []LinesMatchPhase
<1>1. SafeInv => LinesMatchPhase
  BY DEF SafeInv, Safe
<1> QED
  BY <1>1, SafeInvariant, PTL

\* With a free bus no LUN of an IDENTIFY message is left for a later selection.
THEOREM NexusIsCleared == Spec => []NexusCleared
<1>1. SafeInv => NexusCleared
  BY DEF SafeInv, Safe
<1> QED
  BY <1>1, SafeInvariant, PTL

\* TransferFromHost(), and TransferToHost() for any command but REQUEST SENSE,
\* find the unit they dereference, for any set of units and LUNs.
THEOREM DeviceExists == Spec => []NoMissingDevice
<1>1. SafeInv => NoMissingDevice
  BY DEF SafeInv, Safe
<1> QED
  BY <1>1, SafeInvariant, PTL

\* Data are transferred for a unit only while no other initiator has reserved it.
THEOREM ReservationsRespected == Spec => []ReservationRespected
<1>1. SafeInv => ReservationRespected
  BY DEF SafeInv, Safe
<1> QED
  BY <1>1, SafeInvariant, PTL

-----------------------------------------------------------------------------
(* The data of a command                                                   *)

\* What has been moved, and what is still to be moved, of the data of a command c when the
\* transfer sizes are x: the chunk that is being moved is counted in both sizes.
Accounted(moved, x, c) == moved + x.current + (x.remaining - x.chunk) = c.length

DataInv ==
    /\ hist.moved \in Nat
    /\ phase \in DataPhases /\ cdb.op \in DataOps => Accounted(hist.moved, xfer, cdb)
    /\ DataComplete

\* The step ends outside of the data phases, and not with a successful command.
WithoutData == phase' \notin DataPhases /\ ~(phase' = "STATUS" /\ status' = "GOOD")

LEMMA WithoutDataKeeps ==
    ASSUME WithoutData, hist'.moved \in Nat
    PROVE  DataInv'
  BY DEF WithoutData, DataInv, DataComplete

LEMMA ErrorWithoutData ==
    ASSUME NEW sense, NEW code, NEW d, NEW x, Error(sense, code, d, x), code # "GOOD"
    PROVE  WithoutData
  BY DEF Error, BusFree, EnterStatus, WithoutData, DataPhases

\* A command of which nothing has been moved yet: with data, or without any
Begun(c) ==
    \/ phase' \in DataPhases /\ Accounted(0, xfer', c)
    \/ phase' = "STATUS" /\ c.length = 0

LEMMA ChunkedBegins ==
    ASSUME NEW c \in Cdb, c.chunk > 0,
           NEW x, x = Transfer(Smaller(c.length, c.chunk), c.length, c.chunk)
    PROVE  /\ x.current \in Nat
           /\ Accounted(0, x, c)
           /\ x.current = 0 => c.length = 0
<1>1. c.length \in Nat /\ c.chunk \in Nat
  BY DEF Cdb
<1> QED
  BY <1>1 DEF Transfer, Smaller, Accounted

LEMMA SingleBegins ==
    ASSUME NEW c \in Cdb, NEW x, x = Transfer(c.length, 0, 0)
    PROVE  x.current = c.length /\ x.remaining = 0 /\ x.chunk = 0
<1>1. c.length \in Nat
  BY DEF Cdb
<1> QED
  BY <1>1 DEF Transfer, Smaller

LEMMA ExecuteReadBegins ==
    ASSUME NEW c \in Cdb, NEW d, c.op = "READ" => c.chunk > 0, ExecuteRead(c, d)
    PROVE  WithoutData \/ Begun(c)
<1> DEFINE x == Transfer(Smaller(c.length, c.chunk), c.length, c.chunk)
<1>1. x.current \in Nat /\ Accounted(0, x, c) /\ (x.current = 0 => c.length = 0)
  BY ChunkedBegins DEF ExecuteRead
<1>2. CASE EnterDataIn(line, x, "DATA", "GOOD")
  <2> HIDE DEF x
  <2> QED
    BY <1>1, <1>2 DEF EnterDataIn, EnterStatus, Begun, DataPhases
<1>3. CASE Error("DEVICE_ERROR", "CHECK_CONDITION", d, [x EXCEPT !.current = c.length])
  BY <1>3, ErrorWithoutData
<1> QED
  BY <1>2, <1>3 DEF ExecuteRead

LEMMA ExecuteInquiryBegins ==
    ASSUME NEW c \in Cdb, NEW d, ExecuteInquiry(c, d)
    PROVE  Begun(c)
<1> DEFINE x == Transfer(c.length, 0, 0)
<1>1. x.current = c.length /\ x.remaining = 0 /\ x.chunk = 0 /\ c.length \in Nat
  BY SingleBegins DEF Cdb
<1>2. EnterDataIn(line, x, "DATA", "GOOD")
  BY DEF ExecuteInquiry
<1> HIDE DEF x
<1> QED
  BY <1>1, <1>2 DEF EnterDataIn, EnterStatus, Begun, DataPhases, Accounted

LEMMA EnterDataOutBegins ==
    ASSUME NEW x, x.current \in Nat, EnterDataOut(x)
    PROVE  \/ phase' = "STATUS" /\ x.current = 0
           \/ /\ phase' = "DATA_OUT" /\ xfer' = [x EXCEPT !.current = x.current]
  BY DEF EnterDataOut, EnterStatus

LEMMA ExecuteDataOutBegins ==
    ASSUME NEW c \in Cdb, NEW d, c.op = "WRITE" => c.chunk > 0, c.op \in DataOps,
           ExecuteDataOut(c, d)
    PROVE  Begun(c)
<1>1. CASE c.op = "WRITE"
  <2> DEFINE x == Transfer(Smaller(c.length, c.chunk), c.length, c.chunk)
  <2>1. x.current \in Nat /\ Accounted(0, x, c) /\ (x.current = 0 => c.length = 0)
    BY <1>1, ChunkedBegins
  <2>2. EnterDataOut(x)
    BY <1>1 DEF ExecuteDataOut
  <2>3. [x EXCEPT !.current = x.current] = x
    BY DEF Transfer
  <2> HIDE DEF x
  <2> QED
    BY <2>1, <2>2, <2>3, EnterDataOutBegins DEF Begun, DataPhases
<1>2. CASE c.op = "MODE_SELECT"
  <2> DEFINE x == Transfer(c.length, 0, 0)
  <2>1. x.current = c.length /\ x.remaining = 0 /\ x.chunk = 0 /\ c.length \in Nat
    BY SingleBegins DEF Cdb
  <2>2. EnterDataOut(x)
    BY <1>2 DEF ExecuteDataOut
  <2>3. [x EXCEPT !.current = x.current] = x
    BY DEF Transfer
  <2> HIDE DEF x
  <2> QED
    BY <2>1, <2>2, <2>3, EnterDataOutBegins DEF Begun, DataPhases, Accounted
<1> QED
  BY <1>1, <1>2 DEF ExecuteDataOut, DataOps

LEMMA DispatchBegins ==
    ASSUME NEW c \in Cdb, NEW u, NEW d, c.op \in {"READ", "WRITE"} => c.chunk > 0,
           c.op \in DataOps, Dispatch(c, u, d)
    PROVE  WithoutData \/ Begun(c)
<1>1. CASE ReportMediumChange(c, u, d) \/ RejectCommand(c, u, d)
  BY <1>1, ErrorWithoutData DEF ReportMediumChange, RejectCommand
<1>2. CASE ExecuteRead(c, d)
  BY <1>2, ExecuteReadBegins
<1>3. CASE ExecuteDataOut(c, d)
  BY <1>3, ExecuteDataOutBegins
<1>4. CASE ExecuteInquiry(c, d)
  BY <1>4, ExecuteInquiryBegins
<1> QED
  BY <1>1, <1>2, <1>3, <1>4 DEF Dispatch, DataOps, ExecuteWithoutData, EjectOrLoad

LEMMA ExecuteBegins ==
    ASSUME NEW c \in Cdb, c.op \in {"READ", "WRITE"} => c.chunk > 0, c.op \in DataOps, Execute(c)
    PROVE  WithoutData \/ Begun(c)
<1> DEFINE u == ExecutingLun(c)
           d == DiscardSense(c)
<1>1. CASE Dispatch(c, u, d)
  <2> HIDE DEF u, d
  <2> QED
    BY <1>1, DispatchBegins
<1>2. CASE \/ Error("LUN_NOT_SUPPORTED", "CHECK_CONDITION", device, NoTransfer)
           \/ Error("ILLEGAL_REQUEST", "RESERVATION_CONFLICT", d, NoTransfer)
  BY <1>2, ErrorWithoutData
<1> QED
  BY <1>1, <1>2 DEF Execute

\* The bytes that have been moved after a step
LEMMA MovedType ==
    ASSUME TypeInv, TypeInv', DataInv, HistoryStep
    PROVE  hist'.moved = MovedAfterStep /\ hist'.moved \in Nat
<1>1. hist'.moved = MovedAfterStep
  BY DEF HistoryStep
<1>2. xfer.current \in Nat /\ hist.moved \in Nat
  BY Unanswered DEF TypeInv, Transfers, DataInv
<1> QED
  BY <1>1, <1>2 DEF MovedAfterStep

LEMMA ReceiveCommandData ==
    ASSUME DataInv, NEW c \in Commands, ReceiveCommand(c), hist'.moved = 0
    PROVE  DataInv'
<1>1. c \in Cdb /\ cdb' = c /\ (c.op \in {"READ", "WRITE"} => c.chunk > 0)
  BY ControllerAssumption, HistoryAssumption DEF ReceiveCommand
<1>2. CASE c.op \notin DataOps
  BY <1>1, <1>2 DEF DataInv, DataComplete
<1>3. CASE Error("INVALID_FIELD", "CHECK_CONDITION", device, xfer)
  BY <1>3, ErrorWithoutData, WithoutDataKeeps
<1>4. CASE c.op \in DataOps /\ Execute(c)
  <2>1. CASE WithoutData
    BY <2>1, WithoutDataKeeps
  <2>2. CASE Begun(c)
    BY <1>1, <2>2 DEF Begun, DataInv, DataComplete, DataPhases
  <2> QED
    BY <1>1, <1>4, <2>1, <2>2, ExecuteBegins
<1> QED
  BY <1>2, <1>3, <1>4 DEF ReceiveCommand, DataOps

\* A chunk has been moved.
LEMMA TransferBytesData ==
    ASSUME TypeInv, DataInv, TransferBytes, hist'.moved = MovedAfterStep, hist'.moved \in Nat
    PROVE  DataInv'
<1>1. /\ xfer' = [xfer EXCEPT !.current = 0] /\ UNCHANGED <<phase, status, cdb>>
      /\ phase # "COMMAND"
  BY DEF TransferBytes, SendPhases
<1>2. xfer.current \in Nat /\ xfer.remaining \in Nat /\ xfer.chunk \in Nat /\ hist.moved \in Nat
  BY Unanswered DEF TypeInv, Transfers, DataInv
<1>3. xfer'.current = 0 /\ xfer'.remaining = xfer.remaining /\ xfer'.chunk = xfer.chunk
  BY <1>1, Unanswered DEF TypeInv, Transfers
<1>4. CASE phase \in DataPhases
  <2>1. hist'.moved = hist.moved + xfer.current
    BY <1>1, <1>3, <1>4 DEF MovedAfterStep
  <2>2. Accounted(hist.moved, xfer, cdb) => Accounted(hist'.moved, xfer', cdb)
    BY <1>2, <1>3, <2>1 DEF Accounted
  <2> QED
    BY <1>1, <1>4, <2>2 DEF DataInv, DataComplete, DataPhases
<1>5. CASE phase \notin DataPhases
  <2>1. hist'.moved = hist.moved
    BY <1>1, <1>5 DEF MovedAfterStep
  <2> QED
    BY <1>1, <1>5, <2>1 DEF DataInv, DataComplete
<1> QED
  BY <1>4, <1>5

\* All chunks have been moved, or the next one follows.
LEMMA ContinueDataAccount ==
    ASSUME TypeInv, DataInv, ContinueDataIn \/ ContinueDataOut,
           hist'.moved = MovedAfterStep, hist'.moved \in Nat
    PROVE  DataInv'
<1>1. xfer \in Transfers /\ xfer.chunk <= xfer.remaining /\ xfer.current = 0
      /\ phase \in DataPhases /\ UNCHANGED cdb
  BY Unanswered DEF TypeInv, TransferConsistent, ContinueDataIn, ContinueDataOut, DataPhases
<1>2. /\ xfer.remaining \in Nat /\ xfer.chunk \in Nat /\ hist.moved \in Nat
      /\ Smaller(xfer.chunk, xfer.remaining) = xfer.chunk
  BY <1>1 DEF Transfers, DataInv, Smaller
<1> DEFINE x == Advance(xfer, xfer.chunk)
<1>3. /\ x.remaining = xfer.remaining - xfer.chunk
      /\ x.chunk = Smaller(xfer.remaining - xfer.chunk, xfer.chunk)
      /\ x \in Transfers
  BY <1>1, <1>2, AdvanceType DEF Advance, Transfers, Consistent
<1>4. NextChunk(x) = x.chunk
  BY <1>2, <1>3 DEF NextChunk, Smaller
<1>5. hist'.moved = hist.moved
  <2>1. hist.moved + xfer.current = hist.moved
    BY <1>1, <1>2
  <2> QED
    BY <1>1, <2>1 DEF MovedAfterStep, DataPhases
<1> HIDE DEF x
<1>6. CASE x.remaining = 0 /\ EnterStatus(line, status)
  <2>1. Accounted(hist.moved, xfer, cdb) => hist.moved = cdb.length
    BY <1>1, <1>2, <1>3, <1>6 DEF Accounted
  <2> QED
    BY <1>1, <1>2, <1>5, <1>6, <2>1 DEF DataInv, DataComplete, EnterStatus, DataPhases
<1>7. CASE xfer' = [x EXCEPT !.current = x.chunk] /\ UNCHANGED phase
  <2>1. xfer'.current = x.chunk /\ xfer'.remaining = x.remaining /\ xfer'.chunk = x.chunk
        /\ x.chunk \in Nat
    BY <1>3, <1>7 DEF Transfers
  <2>2. Accounted(hist.moved, xfer, cdb) => Accounted(hist.moved, xfer', cdb)
    BY <1>1, <1>2, <1>3, <2>1 DEF Accounted
  <2> QED
    BY <1>1, <1>2, <1>5, <1>7, <2>2 DEF DataInv, DataComplete, DataPhases
<1>8. CASE \E y : Error("DEVICE_ERROR", "CHECK_CONDITION", device, y)
  BY <1>8, ErrorWithoutData, WithoutDataKeeps
<1>9. CASE ContinueDataIn
  BY <1>4, <1>6, <1>7, <1>8, <1>9 DEF ContinueDataIn, x
<1>10. CASE ContinueDataOut
  BY <1>2, <1>6, <1>7, <1>8, <1>10 DEF ContinueDataOut, x
<1> QED
  BY <1>9, <1>10

\* The other steps do not move data.
LEMMA EnvironmentData ==
    ASSUME TypeInv, DataInv, Environment \/ UNCHANGED vars,
           hist'.moved = MovedAfterStep, hist'.moved \in Nat
    PROVE  DataInv'
<1>1. UNCHANGED <<phase, status, cdb, xfer>>
  BY DEF Environment, Select, ReleaseSelect, AssertReset, ReleaseReset, InsertMedium,
         EjectMedium, vars
<1>2. CASE phase = "COMMAND"
  BY <1>1, <1>2, WithoutDataKeeps DEF WithoutData, DataPhases
<1>3. CASE phase # "COMMAND"
  <2>1. hist.moved + 0 = hist.moved
    BY DEF DataInv
  <2>2. hist'.moved = hist.moved
    BY <1>1, <1>3, <2>1 DEF MovedAfterStep
  <2> QED
    BY <1>1, <2>2 DEF DataInv, DataComplete
<1> QED
  BY <1>2, <1>3

LEMMA OtherStepData ==
    ASSUME hist'.moved \in Nat,
           \/ Reset \/ EndSelection \/ CommandTimeout \/ UnknownCommand \/ TransferFailed
           \/ ContinueMessageOut \/ EndStatus \/ EndMsgIn
           \/ \E i \in Initiators \cup {Unknown} : StartSelection(i)
           \/ \E b \in MsgBytes : ReceiveMessageByte(b)
    PROVE  DataInv'
<1>1. WithoutData
  <2>1. CASE UnknownCommand
    BY <2>1, ErrorWithoutData DEF UnknownCommand
  <2>2. CASE CommandTimeout \/ TransferFailed
    BY <2>2 DEF CommandTimeout, TransferFailed, HandshakeFailed, BusFree, WithoutData, DataPhases
  <2>3. CASE ContinueMessageOut
    BY <2>3 DEF ContinueMessageOut, ParseMessage, RejectFailed, EnterCommand, WithoutData,
                DataPhases
  <2>4. CASE EndStatus \/ EndMsgIn
    BY <2>4 DEF EndStatus, EndMsgIn, EnterMsgIn, EnterCommand, BusFree, WithoutData, DataPhases
  <2>5. CASE \/ Reset \/ EndSelection
             \/ \E i \in Initiators \cup {Unknown} : StartSelection(i)
             \/ \E b \in MsgBytes : ReceiveMessageByte(b)
    BY <2>5 DEF Reset, EndSelection, StartSelection, ReceiveMessageByte, EnterCommand,
                WithoutData, DataPhases
  <2> QED
    BY <2>1, <2>2, <2>3, <2>4, <2>5
<1> QED
  BY <1>1, WithoutDataKeeps

LEMMA StepData ==
    TypeInv /\ DataInv /\ [Next /\ HistoryStep]_historyVars => TypeInv' /\ DataInv'
<1> SUFFICES ASSUME TypeInv, DataInv, [Next /\ HistoryStep]_historyVars
             PROVE  TypeInv' /\ DataInv'
  OBVIOUS
<1>1. TypeInv'
  BY StepType DEF historyVars
<1>2. CASE UNCHANGED historyVars
  BY <1>1, <1>2 DEF historyVars, vars, DataInv, DataComplete
<1>3. CASE Next /\ HistoryStep
  <2>1. hist'.moved = MovedAfterStep /\ hist'.moved \in Nat
    BY <1>1, <1>3, MovedType
  <2>2. CASE Environment
    BY <1>1, <2>1, <2>2, EnvironmentData
  <2>3. CASE \E c \in Commands : ReceiveCommand(c)
    <3>1. PICK c \in Commands : ReceiveCommand(c)
      BY <2>3
    <3>2. hist'.moved = 0
      BY <2>1, <3>1 DEF MovedAfterStep, ReceiveCommand
    <3> QED
      BY <1>1, <3>1, <3>2, ReceiveCommandData
  <2>4. CASE TransferBytes
    BY <1>1, <2>1, <2>4, TransferBytesData
  <2>5. CASE ContinueDataIn \/ ContinueDataOut
    BY <1>1, <2>1, <2>5, ContinueDataAccount
  <2> QED
    BY <1>1, <1>3, <2>1, <2>2, <2>3, <2>4, <2>5, OtherStepData DEF Next, Process
<1> QED
  BY <1>1, <1>2, <1>3

\* A command that ends with GOOD has moved exactly its data, for any commands, lengths, chunk
\* sizes and failures before it.
THEOREM DataAreComplete == HistorySpec => []DataComplete
<1>1. Init /\ HistoryInit => TypeInv /\ DataInv
  BY InitType DEF Init, HistoryInit, DataInv, DataComplete, DataPhases
<1>2. DataInv => DataComplete
  BY DEF DataInv
<1> QED
  BY <1>1, <1>2, StepData, PTL DEF HistorySpec

-----------------------------------------------------------------------------
(* The sense data of a failure                                             *)

\* Where the sense data o are: in the controller, or in the unit of the command that has failed.
SenseKept(o, d, units) ==
    \/ o = Nothing
    \/ o.anyLun /\ o.sense = d /\ d # "NO_SENSE"
    \/ /\ ~o.anyLun /\ d = "NO_SENSE" /\ o.sense # "NO_SENSE"
       /\ o.lun \in Luns => units[o.lun].sense = o.sense
       /\ o.lun \notin Luns => o.sense = "LUN_NOT_SUPPORTED" /\ units[0].sense = o.sense

SenseInv ==
    /\ phase \in DataPhases =>
        /\ deferred = "NO_SENSE" /\ hist.owed = Nothing
        /\ cdb.op # "REQUEST_SENSE" => status # "CHECK_CONDITION"
    /\ SenseKept(hist.owed, deferred, device)

\* What the command c has done to the sense data: they are stored in its unit if it fails.
\* REQUEST SENSE sends those of its unit.
Failing(c) ==
    phase' = "STATUS" /\ status' = "CHECK_CONDITION" /\ ~(status = status' /\ c.op = "REQUEST_SENSE")

Reported(c) ==
    /\ Failing(c) => /\ device'[ExecutingLun(c)].sense # "NO_SENSE"
                     /\ EffectiveLun(c) \notin Luns => device'[0].sense = "LUN_NOT_SUPPORTED"
    /\ phase' \in DataPhases /\ c.op # "REQUEST_SENSE" => status' # "CHECK_CONDITION"

Sent(c) ==
    phase' = "DATA_IN" =>
        IF EffectiveLun(c) \in Luns THEN reply' = device[EffectiveLun(c)].sense
        ELSE reply' \in {device[0].sense, "LUN_NOT_SUPPORTED"}

LEMMA ErrorReports ==
    ASSUME NEW c, cdb' = c, NEW d \in [Luns -> Unit], NEW code, NEW x,
           NEW sense, sense # "NO_SENSE",
           sense = "LUN_NOT_SUPPORTED" <=> EffectiveLun(c) \notin Luns,
           Error(sense, code, d, x)
    PROVE  Reported(c) /\ Sent(c)
<1>1. phase' \notin DataPhases /\ phase' # "DATA_IN"
  BY DEF Error, BusFree, EnterStatus, DataPhases
<1>2. CASE BusFree
  BY <1>1, <1>2 DEF BusFree, Reported, Sent, Failing
<1>3. CASE device' = [d EXCEPT ![SenseLun(sense, cdb')].sense = sense]
  <2>1. SenseLun(sense, c) = ExecutingLun(c) /\ ExecutingLun(c) \in Luns
    BY ControllerAssumption DEF SenseLun, ExecutingLun
  <2>2. device'[ExecutingLun(c)].sense = sense
    BY <1>3, <2>1 DEF Unit
  <2>3. EffectiveLun(c) \notin Luns => ExecutingLun(c) = 0
    BY DEF ExecutingLun
  <2> QED
    BY <1>1, <2>2, <2>3 DEF Reported, Sent
<1> QED
  BY <1>2, <1>3 DEF Error

\* A command that answers with GOOD
LEMMA GoodReports ==
    ASSUME NEW c, c.op # "REQUEST_SENSE", status' = "GOOD"
    PROVE  Reported(c)
  BY DEF Reported, Failing

LEMMA RejectionReports ==
    ASSUME NEW c \in Cdb, cdb' = c, NEW d \in [Luns -> Unit], NEW u,
           EffectiveLun(c) \in Luns \/ c.op \in AnyLunOps,
           ReportMediumChange(c, u, d) \/ RejectCommand(c, u, d)
    PROVE  Reported(c) /\ Sent(c)
<1>1. EffectiveLun(c) \in Luns
  BY DEF AnyLunOps, ReportMediumChange, RejectCommand, ReadyOps
<1>2. [d EXCEPT ![u].changed = FALSE] \in [Luns -> Unit]
  BY DEF Unit
<1>3. [d EXCEPT ![u] = AfterCheckReady(@)] \in [Luns -> Unit]
  <2>1. ASSUME u \in Luns PROVE AfterCheckReady(d[u]) \in Unit
    BY <2>1 DEF AfterCheckReady, Unit
  <2> QED
    BY <2>1
<1>4. CASE ReportMediumChange(c, u, d)
  <2>1. PICK e : e = [d EXCEPT ![u].changed = FALSE]
    OBVIOUS
  <2>2. e \in [Luns -> Unit]
    BY <1>2, <2>1
  <2>3. Error("NOT_READY_TO_READY", "CHECK_CONDITION", e, NoTransfer)
    BY <1>4, <2>1 DEF ReportMediumChange
  <2> QED
    BY <1>1, <2>2, <2>3, ErrorReports
<1>5. CASE Error("INVALID_OPCODE", "CHECK_CONDITION", d, NoTransfer)
  BY <1>1, <1>5, ErrorReports
<1>6. CASE /\ ReadySense(d[u]) # "NO_SENSE"
           /\ Error(ReadySense(d[u]), "CHECK_CONDITION",
                    [d EXCEPT ![u] = AfterCheckReady(@)], NoTransfer)
  <2>1. ReadySense(d[u]) # "LUN_NOT_SUPPORTED"
    BY DEF ReadySense
  <2> QED
    BY <1>1, <1>3, <1>6, <2>1, ErrorReports
<1> QED
  BY <1>4, <1>5, <1>6 DEF RejectCommand

LEMMA EjectOrLoadReports ==
    ASSUME NEW c \in Cdb, cdb' = c, NEW d \in [Luns -> Unit], NEW u,
           EffectiveLun(c) \in Luns \/ c.op \in AnyLunOps, EjectOrLoad(c, u, d)
    PROVE  Reported(c)
<1>1. c.op # "REQUEST_SENSE" /\ EffectiveLun(c) \in Luns
  BY DEF EjectOrLoad, AnyLunOps
<1>2. CASE EnterStatus(line, "GOOD")
  BY <1>1, <1>2, GoodReports DEF EnterStatus
<1>3. CASE Error("LOAD_OR_EJECT_FAILED", "CHECK_CONDITION", d, NoTransfer)
  BY <1>1, <1>3, ErrorReports
<1> QED
  BY <1>2, <1>3 DEF EjectOrLoad

LEMMA TransferReports ==
    ASSUME NEW c \in Cdb, cdb' = c, NEW d \in [Luns -> Unit], NEW u,
           EffectiveLun(c) \in Luns \/ c.op \in AnyLunOps,
           \/ ExecuteRead(c, d) \/ ExecuteDataOut(c, d) \/ ExecuteInquiry(c, d)
           \/ ExecuteWithoutData(c, u, d)
    PROVE  Reported(c)
<1>1. c.op # "REQUEST_SENSE"
  BY DEF ExecuteRead, ExecuteDataOut, ExecuteInquiry, ExecuteWithoutData
<1>2. CASE \/ EnterStatus(line, "GOOD")
           \/ \E x : EnterDataOut(x)
           \/ \E x : EnterDataIn(line, x, "DATA", "GOOD")
  <2>1. status' = "GOOD"
    BY <1>2 DEF EnterStatus, EnterDataIn, EnterDataOut
  <2> QED
    BY <1>1, <2>1, GoodReports
<1>3. CASE c.op = "READ" /\ \E x : Error("DEVICE_ERROR", "CHECK_CONDITION", d, x)
  <2>1. EffectiveLun(c) \in Luns
    BY <1>3 DEF AnyLunOps
  <2> QED
    BY <1>3, <2>1, ErrorReports
<1> QED
  BY <1>2, <1>3 DEF ExecuteRead, ExecuteDataOut, ExecuteInquiry, ExecuteWithoutData

LEMMA RequestSenseReports ==
    ASSUME TypeOK, NEW c \in Cdb, cdb' = c, c.op = "REQUEST_SENSE",
           IF EffectiveLun(c) \in Luns THEN RequestSense(c, ExecutingLun(c))
           ELSE RequestSenseMissingLun(c) \/ RequestSenseMissingLunReset(c)
    PROVE  Reported(c) /\ Sent(c)
<1>1. CASE EffectiveLun(c) \in Luns
  <2>1. RequestSense(c, EffectiveLun(c)) /\ device \in [Luns -> Unit]
    BY <1>1, Unanswered DEF ExecutingLun
  <2>2. CASE Error("MEDIUM_NOT_PRESENT", "CHECK_CONDITION", device, NoTransfer)
    BY <1>1, <2>1, <2>2, ErrorReports
  <2>3. CASE \E x : EnterDataIn(line, x, device[EffectiveLun(c)].sense, status)
    <3>1. status' = status /\ (phase' = "DATA_IN" => reply' = device[EffectiveLun(c)].sense)
      BY <2>3 DEF EnterDataIn, EnterStatus
    <3> QED
      BY <1>1, <3>1 DEF Reported, Sent, Failing
  <2> QED
    BY <2>1, <2>2, <2>3 DEF RequestSense
<1>2. CASE EffectiveLun(c) \notin Luns /\ RequestSenseMissingLun(c)
  <2>1. status' = "GOOD" /\ (phase' = "DATA_IN" => reply' = "LUN_NOT_SUPPORTED")
    BY <1>2 DEF RequestSenseMissingLun, EnterDataIn, EnterStatus, EnterMsgIn
  <2> QED
    BY <1>2, <2>1 DEF Reported, Sent, Failing
<1>3. CASE EffectiveLun(c) \notin Luns /\ RequestSenseMissingLunReset(c)
  <2>1. status' = "GOOD" /\ (phase' = "DATA_IN" => reply' = device[0].sense)
    BY <1>3 DEF RequestSenseMissingLunReset, EnterDataIn, EnterStatus
  <2> QED
    BY <1>3, <2>1 DEF Reported, Sent, Failing
<1> QED
  BY <1>1, <1>2, <1>3

LEMMA DispatchReports ==
    ASSUME TypeOK, NEW c \in Cdb, cdb' = c, NEW d \in [Luns -> Unit],
           EffectiveLun(c) \in Luns \/ c.op \in AnyLunOps, Dispatch(c, ExecutingLun(c), d)
    PROVE  Reported(c) /\ (c.op = "REQUEST_SENSE" => Sent(c))
<1> DEFINE u == ExecutingLun(c)
<1>1. CASE ReportMediumChange(c, u, d) \/ RejectCommand(c, u, d)
  BY <1>1, RejectionReports
<1>2. CASE EjectOrLoad(c, u, d)
  BY <1>2, EjectOrLoadReports DEF EjectOrLoad
<1>3. CASE \/ ExecuteRead(c, d) \/ ExecuteDataOut(c, d) \/ ExecuteInquiry(c, d)
           \/ ExecuteWithoutData(c, u, d)
  <2>1. c.op # "REQUEST_SENSE"
    BY <1>3 DEF ExecuteRead, ExecuteDataOut, ExecuteInquiry, ExecuteWithoutData
  <2> QED
    BY <1>3, <2>1, TransferReports
<1>4. CASE /\ c.op = "REQUEST_SENSE"
           /\ IF EffectiveLun(c) \in Luns THEN RequestSense(c, u)
              ELSE RequestSenseMissingLun(c) \/ RequestSenseMissingLunReset(c)
  BY <1>4, RequestSenseReports
<1> QED
  BY <1>1, <1>2, <1>3, <1>4 DEF Dispatch

LEMMA ExecuteReports ==
    ASSUME TypeOK, NEW c \in Cdb, cdb' = c, Execute(c)
    PROVE  Reported(c) /\ (c.op = "REQUEST_SENSE" => Sent(c))
<1> DEFINE u == ExecutingLun(c)
           d == DiscardSense(c)
<1>1. u \in Luns
  BY SenseLunType DEF Senses
<1>2. d \in [Luns -> Unit] /\ device \in [Luns -> Unit]
  BY <1>1, SenseSent, Unanswered DEF DiscardSense
<1>3. CASE /\ EffectiveLun(c) \notin Luns
           /\ Error("LUN_NOT_SUPPORTED", "CHECK_CONDITION", device, NoTransfer)
  BY <1>2, <1>3, ErrorReports
<1>4. CASE Error("ILLEGAL_REQUEST", "RESERVATION_CONFLICT", d, NoTransfer)
  <2>1. phase' \notin DataPhases /\ phase' # "DATA_IN" /\ ~Failing(c)
    BY <1>4 DEF Error, BusFree, EnterStatus, DataPhases, Failing
  <2> QED
    BY <2>1 DEF Reported, Sent
<1>5. CASE (EffectiveLun(c) \in Luns \/ c.op \in AnyLunOps) /\ Dispatch(c, u, d)
  <2> HIDE DEF d
  <2> QED
    BY <1>2, <1>5, DispatchReports
<1> QED
  BY <1>3, <1>4, <1>5 DEF Execute

\* What is owed after a step
LEMMA OwedType ==
    ASSUME HistoryStep
    PROVE  hist'.owed = OwedAfterStep
  BY DEF HistoryStep

\* A command that has been received: it sends the sense data owed, if it is a REQUEST SENSE,
\* and after it only its own are owed.
LEMMA ReceiveCommandSense ==
    ASSUME TypeOK, SenseInv, NEW c \in Commands, ReceiveCommand(c), hist'.owed = OwedAfterStep
    PROVE  SenseInv' /\ DeliversSense
<1>1. c \in Cdb /\ cdb' = c /\ phase = "COMMAND" /\ msg.lun \in LunRange \cup {NoLun}
  BY ControllerAssumption, Unanswered DEF ReceiveCommand, Messages
<1>2. EffectiveLun(c) \in LunRange /\ EffectiveLun(c) # NoLun
  BY <1>1, ControllerAssumption DEF EffectiveLun, Cdb, NoLun
<1>3. CASE deferred' = "INVALID_FIELD" /\ Error("INVALID_FIELD", "CHECK_CONDITION", device, xfer)
  <2>1. phase' \notin DataPhases /\ phase' # "DATA_IN"
    BY <1>3 DEF Error, BusFree, EnterStatus, DataPhases
  <2>2. hist'.owed = [sense |-> deferred', lun |-> NoLun, anyLun |-> TRUE]
    BY <1>1, <1>3 DEF OwedAfterStep
  <2> QED
    BY <1>3, <2>1, <2>2 DEF SenseInv, SenseKept, DeliversSense
<1>4. CASE /\ deferred # "NO_SENSE" /\ c.op = "REQUEST_SENSE" /\ deferred' = "NO_SENSE"
           /\ EnterDataIn(line, [xfer EXCEPT !.current = SenseLength], deferred, status)
  <2>1. status' = status /\ (phase' = "DATA_IN" => reply' = deferred) /\ phase' \in {"STATUS", "DATA_IN"}
    BY <1>4 DEF EnterDataIn, EnterStatus
  <2>2. hist'.owed = Nothing
    BY <1>1, <1>4, <2>1 DEF OwedAfterStep
  <2>3. hist.owed.anyLun \/ hist.owed.lun = EffectiveLun(c) => hist.owed.sense = deferred
    BY <1>2, <1>4 DEF SenseInv, SenseKept, Nothing
  <2> QED
    BY <1>1, <1>4, <2>1, <2>2, <2>3 DEF SenseInv, SenseKept, DeliversSense
<1>5. CASE /\ deferred = "NO_SENSE" \/ c.op # "REQUEST_SENSE"
           /\ deferred' = "NO_SENSE" /\ Execute(c)
  <2>1. Reported(c) /\ (c.op = "REQUEST_SENSE" => Sent(c)) /\ ExecutingLun(c) \in Luns
    BY <1>1, <1>5, ExecuteReports, SenseLunType DEF Senses
  <2>2. phase' # "COMMAND"
    BY <1>5 DEF Execute, Dispatch, Error, BusFree, EnterStatus, ReportMediumChange, RejectCommand,
                ExecuteWithoutData, EjectOrLoad, ExecuteRead, ExecuteDataOut, ExecuteInquiry,
                EnterDataIn, EnterDataOut, RequestSense, RequestSenseMissingLun,
                RequestSenseMissingLunReset, EnterMsgIn
  <2>3. hist'.owed = IF Failing(c)
                     THEN [sense |-> device'[ExecutingLun(c)].sense, lun |-> EffectiveLun(c), anyLun |-> FALSE]
                     ELSE Nothing
    <3>1. EffectiveLun(cdb') = EffectiveLun(c) /\ ExecutingLun(cdb') = ExecutingLun(c)
      BY <1>1
    <3> QED
      BY <1>1, <1>5, <2>2, <3>1 DEF OwedAfterStep, Failing
  <2>4. SenseInv'
    <3>1. CASE Failing(c)
      <4>1. phase' \notin DataPhases
        BY <3>1 DEF Failing, DataPhases
      <4>2. EffectiveLun(c) \in Luns => ExecutingLun(c) = EffectiveLun(c)
        BY DEF ExecutingLun
      <4>3. EffectiveLun(c) \notin Luns => ExecutingLun(c) = 0
        BY DEF ExecutingLun
      <4> QED
        BY <1>5, <2>1, <2>3, <3>1, <4>1, <4>2, <4>3 DEF SenseInv, SenseKept, Reported
    <3>2. CASE ~Failing(c)
      BY <1>1, <1>5, <2>1, <2>3, <3>2 DEF SenseInv, SenseKept, Reported
    <3> QED
      BY <3>1, <3>2
  <2>5. DeliversSense
    <3>1. SUFFICES ASSUME phase' = "DATA_IN", c.op = "REQUEST_SENSE",
                          hist.owed.anyLun \/ hist.owed.lun = EffectiveLun(c)
                   PROVE  reply' = hist.owed.sense /\ reply' # "NO_SENSE"
      BY <1>1 DEF DeliversSense
    <3>2. /\ ~hist.owed.anyLun /\ hist.owed.lun = EffectiveLun(c) /\ hist.owed.sense # "NO_SENSE"
          /\ EffectiveLun(c) \in Luns => device[EffectiveLun(c)].sense = hist.owed.sense
          /\ EffectiveLun(c) \notin Luns =>
                hist.owed.sense = "LUN_NOT_SUPPORTED" /\ device[0].sense = hist.owed.sense
      BY <1>2, <1>5, <3>1 DEF SenseInv, SenseKept, Nothing
    <3> QED
      BY <2>1, <3>1, <3>2 DEF Sent
  <2> QED
    BY <2>4, <2>5
<1> QED
  BY <1>3, <1>4, <1>5 DEF ReceiveCommand

\* The controller rejects the command itself.
LEMMA RejectedSense ==
    ASSUME CommandTimeout \/ UnknownCommand, hist'.owed = OwedAfterStep
    PROVE  SenseInv' /\ DeliversSense
<1>1. /\ phase = "COMMAND" /\ deferred' # "NO_SENSE"
      /\ phase' \notin DataPhases /\ phase' # "DATA_IN"
  BY DEF CommandTimeout, UnknownCommand, HandshakeFailed, Error, BusFree, EnterStatus, DataPhases
<1>2. hist'.owed = [sense |-> deferred', lun |-> NoLun, anyLun |-> TRUE]
  BY <1>1 DEF OwedAfterStep
<1> QED
  BY <1>1, <1>2 DEF SenseInv, SenseKept, DeliversSense

\* Sense data stay in a unit whatever else happens to it.
SameSense == \A l \in Luns : device'[l].sense = device[l].sense

LEMMA SenseKeptUnchanged ==
    ASSUME SenseInv, hist'.owed = hist.owed, deferred' = deferred, SameSense
    PROVE  SenseKept(hist'.owed, deferred', device')
  BY ControllerAssumption DEF SenseInv, SenseKept, SameSense

\* The end of a data phase, with a failure of the unit or without
LEMMA ContinueDataSense ==
    ASSUME SafeInv, SenseInv, ContinueDataIn \/ ContinueDataOut, hist'.owed = OwedAfterStep
    PROVE  SenseInv' /\ DeliversSense
<1>1. /\ phase \in DataPhases /\ phase # "COMMAND" /\ UNCHANGED <<cdb, deferred>>
      /\ deferred = "NO_SENSE" /\ hist.owed = Nothing /\ device \in [Luns -> Unit]
      /\ cdb.op # "REQUEST_SENSE" => status # "CHECK_CONDITION"
  BY Unanswered DEF ContinueDataIn, ContinueDataOut, DataPhases, SenseInv, SafeInv, TypeInv
<1>2. DeliversSense
  BY <1>1 DEF DeliversSense
<1>3. CASE UNCHANGED <<phase, status, device>>
  <2>1. hist'.owed = hist.owed
    BY <1>1, <1>3 DEF OwedAfterStep
  <2> QED
    BY <1>1, <1>2, <1>3, <2>1 DEF SenseInv, SenseKept
<1>4. CASE EnterStatus(line, status)
  <2>1. phase' = "STATUS" /\ status' = status
    BY <1>4 DEF EnterStatus
  <2>2. hist'.owed = hist.owed
    BY <1>1, <2>1 DEF OwedAfterStep, DataPhases
  <2> QED
    BY <1>1, <1>2, <2>1, <2>2 DEF SenseInv, SenseKept, DataPhases
<1>5. CASE EffectiveLun(cdb) \in Luns /\ \E x : Error("DEVICE_ERROR", "CHECK_CONDITION", device, x)
  <2>1. Reported(cdb) /\ phase' \in {"STATUS", "BUS_FREE"}
    BY <1>1, <1>5, ErrorReports DEF Error, BusFree, EnterStatus
  <2>2. hist'.owed = IF Failing(cdb)
                     THEN [sense |-> device'[ExecutingLun(cdb)].sense, lun |-> EffectiveLun(cdb), anyLun |-> FALSE]
                     ELSE Nothing
    <3>1. EffectiveLun(cdb') = EffectiveLun(cdb) /\ ExecutingLun(cdb') = ExecutingLun(cdb)
      BY <1>1
    <3> QED
      BY <1>1, <2>1, <3>1 DEF OwedAfterStep, Failing, DataPhases
  <2>3. ExecutingLun(cdb) = EffectiveLun(cdb)
    BY <1>5 DEF ExecutingLun
  <2> QED
    BY <1>1, <1>2, <1>5, <2>1, <2>2, <2>3 DEF SenseInv, SenseKept, Reported, DataPhases
<1>6. phase = "DATA_OUT" => EffectiveLun(cdb) \in Luns
  BY DEF SafeInv, Safe, NoMissingDevice
<1> QED
  BY <1>3, <1>4, <1>5, <1>6 DEF ContinueDataIn, ContinueDataOut

\* A step that no command is involved in
LEMMA QuietSense ==
    ASSUME SenseInv, SameSense, deferred' = deferred, hist'.owed = OwedAfterStep,
           phase = "COMMAND" => phase' = phase,
           \/ phase' \notin DataPhases /\ (phase \in DataPhases => phase' # "STATUS")
           \/ UNCHANGED <<phase, status, cdb>>
    PROVE  SenseInv' /\ DeliversSense
<1>1. hist'.owed = hist.owed \/ (phase = "COMMAND" /\ deferred # "NO_SENSE")
  BY DEF OwedAfterStep, DataPhases
<1>2. phase = "COMMAND" /\ deferred # "NO_SENSE" =>
        hist'.owed = [sense |-> deferred, lun |-> NoLun, anyLun |-> TRUE]
  BY DEF OwedAfterStep
<1>3. SenseKept(hist'.owed, deferred', device')
  BY <1>1, <1>2, SenseKeptUnchanged DEF SenseKept
<1>4. phase' \in DataPhases => phase \in DataPhases /\ UNCHANGED <<status, cdb>>
  OBVIOUS
<1>5. phase \in DataPhases => hist'.owed = hist.owed
  BY <1>1 DEF DataPhases
<1>6. DeliversSense
  BY DEF DeliversSense
<1> QED
  BY <1>3, <1>4, <1>5, <1>6 DEF SenseInv

LEMMA EnvironmentSense ==
    ASSUME TypeOK, SenseInv, Environment \/ UNCHANGED vars, hist'.owed = OwedAfterStep
    PROVE  SenseInv' /\ DeliversSense
<1>1. UNCHANGED <<phase, status, cdb, deferred>>
  BY DEF Environment, Select, ReleaseSelect, AssertReset, ReleaseReset, InsertMedium,
         EjectMedium, vars
<1>2. SameSense
  <2>1. device \in [Luns -> Unit]
    BY Unanswered
  <2>2. CASE UNCHANGED device
    BY <2>2 DEF SameSense
  <2>3. CASE \E l \in Removable : InsertMedium(l) \/ EjectMedium(l)
    <3>1. PICK l \in Removable : InsertMedium(l) \/ EjectMedium(l)
      BY <2>3
    <3> QED
      <4>1. l \in Luns
        BY ControllerAssumption
      <4>2. CASE InsertMedium(l)
        BY <2>1, <4>1, <4>2 DEF InsertMedium, SameSense, Unit
      <4>3. CASE EjectMedium(l)
        <5>1. Ejected(device[l]).sense = device[l].sense
          BY <2>1, <4>1 DEF Ejected, Unit
        <5>2. device' = [device EXCEPT ![l] = Ejected(device[l])]
          BY <4>3 DEF EjectMedium
        <5> QED
          BY <2>1, <4>1, <5>1, <5>2 DEF SameSense
      <4> QED
        BY <3>1, <4>2, <4>3
  <2> QED
    BY <2>2, <2>3 DEF Environment, Select, ReleaseSelect, AssertReset, ReleaseReset, vars
<1> QED
  BY <1>1, <1>2, QuietSense

LEMMA ProcessSense ==
    ASSUME TypeOK, SenseInv, hist'.owed = OwedAfterStep,
           \/ Reset \/ EndSelection \/ TransferBytes \/ TransferFailed
           \/ ContinueMessageOut \/ EndStatus \/ EndMsgIn
           \/ \E i \in Initiators \cup {Unknown} : StartSelection(i)
           \/ \E b \in MsgBytes : ReceiveMessageByte(b)
    PROVE  SenseInv' /\ DeliversSense
<1>1. device \in [Luns -> Unit]
  BY Unanswered
<1>2. CASE Reset
  <2>1. SameSense
    BY <1>1, <1>2 DEF Reset, SameSense, Unit
  <2> QED
    BY <1>2, <2>1, QuietSense DEF Reset, DataPhases
<1>3. CASE ContinueMessageOut
  <2>1. SameSense
    <3>1. \A lun : \A l \in Luns : DeviceReset(lun)[l].sense = device[l].sense
      BY <1>1 DEF DeviceReset, Unit
    <3>2. \A bytes, lun : \A l \in Luns : AfterTerminator(bytes, lun)[l].sense = device[l].sense
      BY <3>1 DEF AfterTerminator
    <3> QED
      BY <1>3, <3>2 DEF ContinueMessageOut, ParseMessage, RejectFailed, SameSense
  <2> QED
    BY <1>3, <2>1, QuietSense DEF ContinueMessageOut, ParseMessage, RejectFailed, EnterCommand,
       DataPhases
<1>4. CASE TransferFailed
  <2>1. SameSense /\ phase' = "BUS_FREE" /\ phase # "COMMAND" /\ deferred' = deferred
    BY <1>4 DEF TransferFailed, HandshakeFailed, BusFree, SameSense, SendPhases, ReceivePhases
  <2> QED
    BY <2>1, QuietSense DEF DataPhases
<1>5. CASE EndStatus \/ EndMsgIn
  <2>1. SameSense /\ phase' \notin {"STATUS", "DATA_IN", "DATA_OUT"} /\ phase # "COMMAND"
        /\ deferred' = deferred
    BY <1>5 DEF EndStatus, EndMsgIn, EnterMsgIn, EnterCommand, BusFree, SameSense
  <2> QED
    BY <2>1, QuietSense DEF DataPhases
<1>6. CASE \/ EndSelection \/ TransferBytes
           \/ \E i \in Initiators \cup {Unknown} : StartSelection(i)
           \/ \E b \in MsgBytes : ReceiveMessageByte(b)
  <2>1. /\ SameSense /\ phase # "COMMAND" /\ deferred' = deferred
        /\ phase' \notin {"STATUS", "DATA_IN", "DATA_OUT"} \/ UNCHANGED <<phase, status, cdb>>
    BY <1>6 DEF EndSelection, TransferBytes, StartSelection, ReceiveMessageByte, EnterCommand,
                SameSense, SendPhases
  <2> QED
    BY <2>1, QuietSense DEF DataPhases
<1> QED
  BY <1>2, <1>3, <1>4, <1>5, <1>6

LEMMA StepSense ==
    SafeInv /\ SenseInv /\ [Next /\ HistoryStep]_historyVars
        => SafeInv' /\ SenseInv' /\ [DeliversSense]_historyVars
<1> SUFFICES ASSUME SafeInv, SenseInv, [Next /\ HistoryStep]_historyVars
             PROVE  SafeInv' /\ SenseInv' /\ [DeliversSense]_historyVars
  OBVIOUS
<1>1. SafeInv' /\ TypeOK
  BY StepSafe DEF historyVars, SafeInv, TypeInv
<1>2. CASE UNCHANGED historyVars
  <2>1. SenseInv'
    BY <1>2 DEF historyVars, vars, SenseInv, SenseKept
  <2> QED
    BY <1>1, <1>2, <2>1
<1>3. CASE Next /\ HistoryStep
  <2>1. hist'.owed = OwedAfterStep
    BY <1>3, OwedType
  <2>2. SenseInv' /\ DeliversSense
    BY <1>1, <1>3, <2>1, ReceiveCommandSense, RejectedSense, ContinueDataSense, EnvironmentSense,
       ProcessSense DEF Next, Process
  <2> QED
    BY <1>1, <2>2
<1> QED
  BY <1>2, <1>3

\* REQUEST SENSE delivers the sense data of the failure it follows, for any units, commands
\* and failures.
THEOREM SenseIsDelivered == HistorySpec => SenseDelivered
<1>1. Init /\ HistoryInit => SafeInv /\ SenseInv
  BY InitSafe DEF Init, HistoryInit, SenseInv, SenseKept, DataPhases
<1> QED
  BY <1>1, StepSense, PTL DEF HistorySpec, SenseDelivered

-----------------------------------------------------------------------------
(* Steps: reservation, medium, and the abstract target                     *)


\* Reservation, readiness and lock of all units are the same.
Kept(d, e) ==
    \A l \in Luns : /\ e[l].holder = d[l].holder
                    /\ e[l].ready = d[l].ready
                    /\ e[l].locked = d[l].locked

\* What a step may do to the units
Permitted ==
    \A l \in Luns :
        /\ \/ device'[l].holder \in {device[l].holder, NotReserved}
           \/ device[l].holder = NotReserved
        /\ device[l].ready /\ ~device'[l].ready /\ phase # "BUS_FREE"
           => /\ ~device[l].locked
              /\ device[l].holder \in {NotReserved, initiator}

LEMMA KeptPermitted ==
    ASSUME Kept(device, device')
    PROVE  Permitted
  BY DEF Kept, Permitted

LEMMA KeptTransitive ==
    ASSUME NEW d, NEW e, NEW f, Kept(d, e), Kept(e, f)
    PROVE  Kept(d, f)
  BY DEF Kept

-----------------------------------------------------------------------------
(* Executing a command *)

LEMMA ErrorKeeps ==
    ASSUME cdb' \in Cdb, NEW sense \in Senses, NEW code, NEW d \in [Luns -> Unit],
           NEW x, Error(sense, code, d, x)
    PROVE  Kept(d, device')
<1>1. CASE device' = d
  BY <1>1 DEF Kept
<1>2. CASE device' = [d EXCEPT ![SenseLun(sense, cdb')].sense = sense]
  BY <1>2, SenseLunType DEF Kept, Unit
<1> QED
  BY <1>1, <1>2 DEF Error

\* The unit is not reserved for another initiator, or the command is exempt.
Accessible(c, u, d) ==
    /\ Executing(c, u, d)
    /\ Kept(device, d)
    /\ ~Reserved(c, u, d)

LEMMA RejectKeeps ==
    ASSUME TypeOK, NEW c, NEW u, NEW d, Executing(c, u, d),
           ReportMediumChange(c, u, d) \/ RejectCommand(c, u, d)
    PROVE  Kept(d, device')
<1> DEFINE changed == [d EXCEPT ![u].changed = FALSE]
           checked == [d EXCEPT ![u] = AfterCheckReady(@)]
<1>1. d[u] \in Unit /\ d \in [Luns -> Unit] /\ u \in Luns /\ cdb' \in Cdb
  BY DEF Executing
<1>2. changed \in [Luns -> Unit] /\ Kept(d, changed)
  BY <1>1 DEF Kept, Unit
<1>3. AfterCheckReady(d[u]) \in Unit /\ ReadySense(d[u]) \in Senses
  BY <1>1 DEF AfterCheckReady, ReadySense, Unit, Senses
<1>4. checked \in [Luns -> Unit] /\ Kept(d, checked)
  BY <1>1, <1>3 DEF Kept, Unit, AfterCheckReady
<1>5. {"NOT_READY_TO_READY", "INVALID_OPCODE"} \subseteq Senses
  BY DEF Senses
<1> HIDE DEF changed, checked
<1>6. CASE Error("NOT_READY_TO_READY", "CHECK_CONDITION", changed, NoTransfer)
  BY <1>1, <1>2, <1>5, <1>6, ErrorKeeps, KeptTransitive
<1>7. CASE Error("INVALID_OPCODE", "CHECK_CONDITION", d, NoTransfer)
  BY <1>1, <1>5, <1>7, ErrorKeeps
<1>8. CASE Error(ReadySense(d[u]), "CHECK_CONDITION", checked, NoTransfer)
  BY <1>1, <1>3, <1>4, <1>8, ErrorKeeps, KeptTransitive
<1> QED
  BY <1>6, <1>7, <1>8 DEF ReportMediumChange, RejectCommand, changed, checked

LEMMA WithoutDataPermitted ==
    ASSUME TypeOK, NEW c, NEW u, NEW d, Accessible(c, u, d), ExecuteWithoutData(c, u, d)
    PROVE  Permitted
<1>1. /\ d \in [Luns -> Unit] /\ device \in [Luns -> Unit] /\ u \in Luns
      /\ Kept(device, d)
  BY Unanswered DEF Accessible, Executing
<1>2. CASE c.op = "RESERVE"
  <2>1. device' = [d EXCEPT ![u].holder = initiator]
    BY <1>2 DEF ExecuteWithoutData
  <2>2. d[u].holder \in {NotReserved, initiator}
    BY <1>2 DEF Accessible, Reserved, ExemptOps
  <2> QED
    BY <1>1, <2>1, <2>2 DEF Permitted, Kept, Unit
<1>3. CASE c.op = "RELEASE"
  <2>1. device' = [d EXCEPT ![u].holder = NotReserved]
    BY <1>3 DEF ExecuteWithoutData
  <2> QED
    BY <1>1, <2>1 DEF Permitted, Kept, Unit
<1>4. CASE c.op \notin {"RESERVE", "RELEASE"}
  <2>1. \/ device' = d
        \/ device' = [d EXCEPT ![u].locked = TRUE]
        \/ device' = [d EXCEPT ![u].locked = FALSE]
    BY <1>4 DEF ExecuteWithoutData
  <2> QED
    BY <1>1, <2>1 DEF Permitted, Kept, Unit
<1> QED
  BY <1>2, <1>3, <1>4

LEMMA EjectOrLoadPermitted ==
    ASSUME TypeOK, NEW c, NEW u, NEW d, Accessible(c, u, d), EjectOrLoad(c, u, d)
    PROVE  Permitted
<1>1. /\ d \in [Luns -> Unit] /\ device \in [Luns -> Unit] /\ u \in Luns
      /\ Kept(device, d) /\ cdb' \in Cdb
  BY Unanswered DEF Accessible, Executing
<1>2. CASE c.op = "EJECT" /\ CanEject(u, d) /\ device' = [d EXCEPT ![u] = Ejected(@)]
  <2>1. ~d[u].locked /\ d[u].holder \in {NotReserved, initiator}
    BY <1>2 DEF CanEject, Accessible, Reserved, ExemptOps
  <2>2. d[u] \in Unit
    BY <1>1
  <2>3. Ejected(d[u]).holder = d[u].holder
    BY <2>2 DEF Ejected, Unit
  <2>4. device'[u] = Ejected(d[u]) /\ \A l \in Luns : l # u => device'[l] = d[l]
    BY <1>1, <1>2
  <2>5. \A l \in Luns : device'[l].holder = d[l].holder
    BY <2>3, <2>4
  <2> QED
    BY <1>1, <2>1, <2>4, <2>5 DEF Permitted, Kept
<1>3. CASE device' = [d EXCEPT ![u].changed = d[u].ejected]
  BY <1>1, <1>3 DEF Permitted, Kept, Unit
<1>4. CASE Error("LOAD_OR_EJECT_FAILED", "CHECK_CONDITION", d, NoTransfer)
  <2>1. "LOAD_OR_EJECT_FAILED" \in Senses
    BY DEF Senses
  <2> QED
    BY <1>1, <1>4, <2>1, ErrorKeeps, KeptTransitive, KeptPermitted
<1> QED
  BY <1>2, <1>3, <1>4 DEF EjectOrLoad

\* The sense data of a unit do not matter here.
LEMMA SenseSentKeeps ==
    ASSUME TypeOK, NEW u \in Luns
    PROVE  Kept(device, [device EXCEPT ![u].sense = "NO_SENSE"])
  BY Unanswered DEF Kept, Unit

LEMMA RequestSenseKeeps ==
    ASSUME TypeOK, NEW c, NEW u, Executing(c, u, device),
           RequestSense(c, u) \/ RequestSenseMissingLun(c) \/ RequestSenseMissingLunReset(c)
    PROVE  Kept(device, device')
<1>1. /\ device \in [Luns -> Unit] /\ u \in Luns /\ 0 \in Luns /\ cdb' \in Cdb
      /\ "MEDIUM_NOT_PRESENT" \in Senses
  BY Unanswered, ControllerAssumption DEF Executing, Senses
<1>2. CASE Error("MEDIUM_NOT_PRESENT", "CHECK_CONDITION", device, NoTransfer)
  BY <1>1, <1>2, ErrorKeeps
<1>3. CASE \/ device' = [device EXCEPT ![u].sense = "NO_SENSE"]
           \/ device' = [device EXCEPT ![0].sense = "NO_SENSE"]
  BY <1>1, <1>3, SenseSentKeeps
<1>4. CASE UNCHANGED device
  BY <1>4 DEF Kept
<1> QED
  BY <1>2, <1>3, <1>4 DEF RequestSense, RequestSenseMissingLun, RequestSenseMissingLunReset

LEMMA DispatchPermitted ==
    ASSUME TypeOK, NEW c, NEW u, NEW d, Accessible(c, u, d),
           c.op = "REQUEST_SENSE" => d = device, Dispatch(c, u, d)
    PROVE  Permitted
<1>1. /\ d \in [Luns -> Unit] /\ Kept(device, d) /\ cdb' \in Cdb
      /\ Executing(c, u, d) /\ "DEVICE_ERROR" \in Senses
  BY DEF Accessible, Executing, Senses
<1>2. CASE ReportMediumChange(c, u, d) \/ RejectCommand(c, u, d)
  BY <1>1, <1>2, RejectKeeps, KeptTransitive, KeptPermitted
<1>3. CASE ExecuteWithoutData(c, u, d) \/ EjectOrLoad(c, u, d)
  BY <1>3, WithoutDataPermitted, EjectOrLoadPermitted
<1>4. CASE ExecuteRead(c, d) \/ ExecuteDataOut(c, d) \/ ExecuteInquiry(c, d)
  <2>1. CASE device' = d
    BY <1>1, <2>1, KeptPermitted
  <2>2. CASE \E x : Error("DEVICE_ERROR", "CHECK_CONDITION", d, x)
    BY <1>1, <2>2, ErrorKeeps, KeptTransitive, KeptPermitted
  <2> QED
    BY <1>4, <2>1, <2>2 DEF ExecuteRead, ExecuteDataOut, ExecuteInquiry
<1>5. CASE /\ c.op = "REQUEST_SENSE"
           /\ \/ RequestSense(c, u)
              \/ RequestSenseMissingLun(c)
              \/ RequestSenseMissingLunReset(c)
  BY <1>1, <1>5, RequestSenseKeeps, KeptPermitted
<1> QED
  BY <1>2, <1>3, <1>4, <1>5 DEF Dispatch

LEMMA ExecutePermitted ==
    ASSUME TypeOK, NEW c \in Cdb, cdb' = c, Execute(c)
    PROVE  Permitted
<1> DEFINE u == ExecutingLun(c)
           d == DiscardSense(c)
<1>1. u \in Luns /\ {"LUN_NOT_SUPPORTED", "ILLEGAL_REQUEST"} \subseteq Senses
  BY SenseLunType DEF Senses
<1>2. d \in [Luns -> Unit] /\ (c.op = "REQUEST_SENSE" => d = device)
  BY <1>1, SenseSent, Unanswered DEF DiscardSense
<1>3. Kept(device, d)
  <2>1. Kept(device, device)
    BY DEF Kept
  <2> QED
    BY <1>1, <2>1, SenseSentKeeps DEF DiscardSense
<1> HIDE DEF u, d
<1>4. CASE Error("LUN_NOT_SUPPORTED", "CHECK_CONDITION", device, NoTransfer)
  BY <1>1, <1>4, ErrorKeeps, KeptPermitted, Unanswered
<1>5. CASE Error("ILLEGAL_REQUEST", "RESERVATION_CONFLICT", d, NoTransfer)
  BY <1>1, <1>2, <1>3, <1>5, ErrorKeeps, KeptTransitive, KeptPermitted
<1>6. CASE ~Reserved(c, u, d) /\ Dispatch(c, u, d)
  <2>1. Accessible(c, u, d)
    BY <1>1, <1>2, <1>3, <1>6 DEF Accessible, Executing
  <2> QED
    BY <1>2, <1>6, <2>1, DispatchPermitted
<1> QED
  BY <1>4, <1>5, <1>6 DEF Execute, u, d

-----------------------------------------------------------------------------
(* The actions *)

LEMMA EnvironmentPermitted ==
    ASSUME TypeOK, Environment
    PROVE  Permitted
<1>1. CASE Select \/ ReleaseSelect \/ AssertReset \/ ReleaseReset
  BY <1>1 DEF Permitted, Select, ReleaseSelect, AssertReset, ReleaseReset
<1>2. CASE \E l \in Removable : InsertMedium(l) \/ EjectMedium(l)
  <2>1. PICK l \in Luns : InsertMedium(l) \/ EjectMedium(l)
    BY <1>2, ControllerAssumption
  <2>2. device \in [Luns -> Unit] /\ device[l] \in Unit
    BY Unanswered
  <2>3. device'[l].holder = device[l].holder
    <3>1. CASE InsertMedium(l)
      <4>1. device'[l] = [device[l] EXCEPT !.ready = TRUE, !.attn = TRUE,
                                           !.changed = TRUE, !.locked = FALSE]
        BY <2>2, <3>1 DEF InsertMedium
      <4> QED
        BY <2>2, <4>1 DEF Unit
    <3>2. CASE EjectMedium(l)
      <4>1. device'[l] = Ejected(device[l])
        BY <2>2, <3>2 DEF EjectMedium
      <4> QED
        BY <2>2, <4>1 DEF Ejected, Unit
    <3> QED
      BY <2>1, <3>1, <3>2
  <2>4. \A k \in Luns : k # l => device'[k] = device[k]
    BY <2>1, <2>2 DEF InsertMedium, EjectMedium
  <2>5. phase = "BUS_FREE"
    BY <2>1 DEF InsertMedium, EjectMedium
  <2> QED
    BY <2>3, <2>4, <2>5 DEF Permitted
<1> QED
  BY <1>1, <1>2 DEF Environment

LEMMA ResetPermitted ==
    ASSUME TypeOK, Reset
    PROVE  Permitted
<1> SUFFICES ASSUME NEW l \in Luns
             PROVE  device'[l].holder = NotReserved /\ device'[l].ready = device[l].ready
  BY DEF Permitted
<1>1. device[l] \in Unit
  BY Unanswered
<1>2. device'[l] = [device[l] EXCEPT !.holder = NotReserved, !.reset = FALSE,
                                     !.attn = FALSE, !.locked = FALSE]
  BY DEF Reset
<1> QED
  BY <1>1, <1>2 DEF Unit

LEMMA CommandPermitted ==
    ASSUME TypeOK, CommandTimeout \/ UnknownCommand \/ (\E c \in Commands : ReceiveCommand(c))
    PROVE  Permitted
<1>1. /\ {"INVALID_OPCODE", "INVALID_FIELD"} \subseteq Senses
      /\ device \in [Luns -> Unit] /\ cdb \in Cdb
  BY Unanswered DEF Senses, TypeOK
<1>2. CASE CommandTimeout
  BY <1>2 DEF Permitted, CommandTimeout, HandshakeFailed
<1>3. CASE UnknownCommand
  BY <1>1, <1>3, ErrorKeeps, KeptPermitted DEF UnknownCommand
<1>4. CASE \E c \in Commands : ReceiveCommand(c)
  <2>1. PICK c \in Cdb : ReceiveCommand(c)
    BY <1>4, ControllerAssumption
  <2>2. cdb' = c
    BY <2>1 DEF ReceiveCommand
  <2>3. CASE Error("INVALID_FIELD", "CHECK_CONDITION", device, xfer)
    BY <1>1, <2>2, <2>3, ErrorKeeps, KeptPermitted
  <2>4. CASE UNCHANGED device
    BY <2>4 DEF Permitted
  <2>5. CASE Execute(c)
    BY <2>2, <2>5, ExecutePermitted
  <2> QED
    BY <2>1, <2>3, <2>4, <2>5 DEF ReceiveCommand
<1> QED
  BY <1>2, <1>3, <1>4

LEMMA TransferPermitted ==
    ASSUME TypeOK,
           \/ (\E i \in Initiators \cup {Unknown} : StartSelection(i)) \/ EndSelection
           \/ TransferBytes \/ TransferFailed
           \/ (\E b \in MsgBytes : ReceiveMessageByte(b))
           \/ ContinueDataIn \/ ContinueDataOut \/ EndStatus \/ EndMsgIn
    PROVE  Permitted
<1>1. "DEVICE_ERROR" \in Senses /\ device \in [Luns -> Unit] /\ cdb \in Cdb
  BY Unanswered DEF Senses, TypeOK
<1>2. CASE UNCHANGED device
  BY <1>2 DEF Permitted
<1>3. CASE /\ ContinueDataIn \/ ContinueDataOut
           /\ \E x : Error("DEVICE_ERROR", "CHECK_CONDITION", device, x)
  <2>1. cdb' = cdb
    BY <1>3 DEF ContinueDataIn, ContinueDataOut
  <2> QED
    BY <1>1, <1>3, <2>1, ErrorKeeps, KeptPermitted
<1>4. \/ UNCHANGED device
      \/ /\ ContinueDataIn \/ ContinueDataOut
         /\ \E x : Error("DEVICE_ERROR", "CHECK_CONDITION", device, x)
  BY DEF StartSelection, EndSelection, TransferBytes, TransferFailed, HandshakeFailed,
         ReceiveMessageByte, ContinueDataIn, ContinueDataOut, EndStatus, EndMsgIn
<1> QED
  BY <1>2, <1>3, <1>4

\* BUS DEVICE RESET gives up the reservation of a unit.
LEMMA ContinueMessageOutPermitted ==
    ASSUME TypeOK, ContinueMessageOut
    PROVE  Permitted
<1>1. device \in [Luns -> Unit]
  BY Unanswered
<1>2. PICK lun : device' \in {device, DeviceReset(lun)}
  BY DEF ContinueMessageOut, ParseMessage, RejectFailed, AfterTerminator
<1>3. CASE device' = device
  BY <1>3 DEF Permitted
<1>4. CASE device' = DeviceReset(lun)
  <2> DEFINE k == IF lun # NoLun THEN lun ELSE cdb.lun
  <2>1. CASE k \notin Luns
    BY <1>4, <2>1 DEF DeviceReset, Permitted
  <2>2. CASE k \in Luns
    <3>1. device' = [device EXCEPT ![k] = [@ EXCEPT !.reset = TRUE, !.holder = NotReserved]]
      BY <1>4, <2>2 DEF DeviceReset
    <3> HIDE DEF k
    <3>2. device[k] \in Unit
      BY <1>1, <2>2
    <3>3. device'[k].holder = NotReserved /\ device'[k].ready = device[k].ready
      BY <1>1, <2>2, <3>1, <3>2 DEF Unit
    <3>4. \A l \in Luns : l # k => device'[l] = device[l]
      BY <1>1, <2>2, <3>1
    <3> QED
      BY <2>2, <3>3, <3>4 DEF Permitted
  <2> QED
    BY <2>1, <2>2
<1> QED
  BY <1>2, <1>3, <1>4

LEMMA StepPermitted == TypeInv /\ [Next]_vars => Permitted
<1> SUFFICES ASSUME TypeInv, [Next]_vars PROVE Permitted
  OBVIOUS
<1>1. TypeOK
  BY DEF TypeInv
<1>2. CASE Environment
  BY <1>1, <1>2, EnvironmentPermitted
<1>3. CASE Process
  BY <1>1, <1>3, ResetPermitted, CommandPermitted, TransferPermitted,
     ContinueMessageOutPermitted DEF Process
<1>4. CASE UNCHANGED vars
  BY <1>4 DEF vars, Permitted
<1> QED
  BY <1>2, <1>3, <1>4 DEF Next

\* For any number of units and initiators, a reservation never passes from one
\* initiator to another in one step.
THEOREM ReservationsNotTaken == Spec => ReservationNotTaken
<1>1. TypeInv /\ [Next]_vars
        => [\A l \in Luns : device'[l].holder \in {device[l].holder, NotReserved}
                            \/ device[l].holder = NotReserved]_vars
  BY StepPermitted DEF Permitted
<1> QED
  BY <1>1, InitType, StepType, PTL DEF Spec, ReservationNotTaken

\* No command ejects a medium against the lock of PREVENT ALLOW MEDIUM REMOVAL
\* or against the reservation of another initiator.
THEOREM MediaProtected == Spec => MediumProtected
<1>1. TypeInv /\ [Next]_vars
        => [\A l \in Luns : device[l].ready /\ ~device'[l].ready /\ phase # "BUS_FREE"
              => /\ ~device[l].locked
                 /\ device[l].holder \in {NotReserved, initiator}]_vars
  BY StepPermitted DEF Permitted
<1> QED
  BY <1>1, InitType, StepType, PTL DEF Spec, MediumProtected

-----------------------------------------------------------------------------
(* The refinement: every step is a step or a stutter of ScsiTarget. The    *)
(* completion message is announced in MESSAGE IN before the link bits are  *)
(* cleared, and ATN has been dealt with once MESSAGE OUT has been left.    *)

ChainInv ==
    /\ phase # "MSG_OUT" => ~msg.atn
    /\ phase = "MSG_IN" => (Announced <=> link.linked)

TargetInv == TypeInv /\ ChainInv

\* How a command may be answered: with data, with its status, or by releasing
\* the bus because of a bus reset.
Answers ==
    /\ ~msg'.atn
    /\ \/ phase' \in DataPhases
       \/ phase' = "STATUS" /\ xfer'.current = 1
       \/ phase' = "BUS_FREE" /\ RST'

LEMMA StatusAnswers ==
    ASSUME NEW l, NEW code, EnterStatus(l, code), ~msg'.atn
    PROVE  Answers
  BY DEF EnterStatus, OneByte, Answers

LEMMA ErrorAnswers ==
    ASSUME TypeOK, ~msg.atn, NEW sense, NEW code, NEW d, NEW x, Error(sense, code, d, x)
    PROVE  Answers
<1>1. CASE ResetSeen /\ BusFree
  <2>1. ~msg'.atn
    BY <1>1, Unanswered DEF BusFree, Messages
  <2>2. rst'.target \/ rst'.initiator
    BY <1>1, Unanswered DEF ResetSeen, Resets
  <2> QED
    BY <1>1, <2>1, <2>2 DEF BusFree, Answers, RST
<1>2. CASE EnterStatus(line, code) /\ UNCHANGED msg
  BY <1>2, StatusAnswers
<1> QED
  BY <1>1, <1>2 DEF Error

\* A handshake that ended early asserts RST.
LEMMA FailureAnswers ==
    ASSUME TypeOK, HandshakeFailed
    PROVE  Answers
<1>1. ~msg'.atn /\ rst'.target
  BY Unanswered DEF HandshakeFailed, BusFree, Messages, Resets
<1> QED
  BY <1>1 DEF HandshakeFailed, BusFree, Answers, RST

LEMMA DataInAnswers ==
    ASSUME NEW l, NEW x, NEW payload, NEW code, EnterDataIn(l, x, payload, code), ~msg'.atn
    PROVE  Answers
<1>1. CASE EnterStatus(l, code)
  BY <1>1, StatusAnswers
<1>2. CASE phase' = "DATA_IN"
  BY <1>2 DEF Answers, DataPhases
<1> QED
  BY <1>1, <1>2 DEF EnterDataIn

LEMMA DataOutAnswers ==
    ASSUME NEW x, EnterDataOut(x), ~msg'.atn
    PROVE  Answers
<1>1. CASE EnterStatus(line, "GOOD")
  BY <1>1, StatusAnswers
<1>2. CASE phase' = "DATA_OUT"
  BY <1>2 DEF Answers, DataPhases
<1> QED
  BY <1>1, <1>2 DEF EnterDataOut

LEMMA RequestSenseAnswers ==
    ASSUME TypeOK, ~msg.atn, NEW c \in Cdb, NEW u, c.length > 0,
           RequestSense(c, u) \/ RequestSenseMissingLun(c) \/ RequestSenseMissingLunReset(c)
    PROVE  Answers
<1>1. CASE RequestSense(c, u)
  BY <1>1, ErrorAnswers, DataInAnswers DEF RequestSense
<1>2. CASE RequestSenseMissingLun(c)
  <2>1. Smaller(c.length, SenseLength) # 0
    BY ControllerAssumption DEF Cdb, Smaller
  <2> QED
    BY <1>2, <2>1, DataInAnswers DEF RequestSenseMissingLun
<1>3. CASE RequestSenseMissingLunReset(c)
  <2>1. ~msg'.atn
    BY <1>3, Unanswered DEF RequestSenseMissingLunReset, Messages
  <2>2. rst'.target \/ rst'.initiator
    BY <1>3, Unanswered DEF RequestSenseMissingLunReset, ResetSeen, Resets
  <2>3. CASE phase' = "BUS_FREE"
    BY <2>1, <2>2, <2>3 DEF Answers, RST
  <2>4. CASE EnterDataIn(Released, Transfer(Smaller(c.length, SenseLength), 0, 0),
                         device[0].sense, "GOOD")
    BY <2>1, <2>4, DataInAnswers
  <2> QED
    BY <1>3, <2>3, <2>4 DEF RequestSenseMissingLunReset
<1> QED
  BY <1>1, <1>2, <1>3

LEMMA DispatchAnswers ==
    ASSUME TypeOK, ~msg.atn, NEW c \in Cdb, NEW u, NEW d,
           c.op = "REQUEST_SENSE" => c.length > 0, Dispatch(c, u, d)
    PROVE  Answers
<1>1. CASE ReportMediumChange(c, u, d) \/ RejectCommand(c, u, d)
  BY <1>1, ErrorAnswers DEF ReportMediumChange, RejectCommand
<1>2. CASE ExecuteWithoutData(c, u, d) \/ EjectOrLoad(c, u, d)
  BY <1>2, ErrorAnswers, StatusAnswers DEF ExecuteWithoutData, EjectOrLoad
<1>3. CASE ExecuteRead(c, d) \/ ExecuteInquiry(c, d)
  BY <1>3, ErrorAnswers, DataInAnswers DEF ExecuteRead, ExecuteInquiry
<1>4. CASE ExecuteDataOut(c, d)
  BY <1>4, DataOutAnswers DEF ExecuteDataOut
<1>5. CASE /\ c.op = "REQUEST_SENSE"
           /\ \/ RequestSense(c, u)
              \/ RequestSenseMissingLun(c)
              \/ RequestSenseMissingLunReset(c)
  BY <1>5, RequestSenseAnswers
<1> QED
  BY <1>1, <1>2, <1>3, <1>4, <1>5 DEF Dispatch

\* A command is answered, however it ends.
LEMMA CommandAnswers ==
    ASSUME TypeInv, ~msg.atn,
           CommandTimeout \/ UnknownCommand \/ (\E c \in Commands : ReceiveCommand(c))
    PROVE  Answers
<1>1. TypeOK
  BY Untouched
<1>2. CASE CommandTimeout
  BY <1>1, <1>2, FailureAnswers DEF CommandTimeout
<1>3. CASE UnknownCommand
  BY <1>1, <1>3, ErrorAnswers DEF UnknownCommand
<1>4. CASE \E c \in Commands : ReceiveCommand(c)
  <2>1. PICK c \in Commands : ReceiveCommand(c)
    BY <1>4
  <2>2. c \in Cdb /\ (c.op = "REQUEST_SENSE" => c.length > 0)
    BY ControllerAssumption, TargetAssumption
  <2>3. CASE Error("INVALID_FIELD", "CHECK_CONDITION", device, xfer)
    BY <1>1, <2>3, ErrorAnswers
  <2>4. CASE /\ EnterDataIn(line, [xfer EXCEPT !.current = SenseLength], deferred, status)
             /\ UNCHANGED msg
    BY <2>4, DataInAnswers
  <2>5. CASE Execute(c)
    BY <1>1, <2>2, <2>5, ErrorAnswers, DispatchAnswers DEF Execute
  <2> QED
    BY <2>1, <2>3, <2>4, <2>5 DEF ReceiveCommand
<1> QED
  BY <1>2, <1>3, <1>4

\* An answer is a step of the target.
LEMMA AnswerStep ==
    ASSUME phase \in {"COMMAND"} \cup DataPhases, Answers
    PROVE  Target!TargetNext /\ ChainInv'
<1>1. ChainInv'
  BY DEF Answers, ChainInv, DataPhases
<1>2. /\ Stage = IF phase = "COMMAND" THEN "command" ELSE "data"
      /\ Taken = FALSE /\ Announced = FALSE
  BY DEF Stage, Taken, Announced, DataPhases
<1>3. Taken' = FALSE /\ Announced' = FALSE
  BY DEF Answers, Taken, Announced, DataPhases
<1>4. RST' \in BOOLEAN
  BY DEF RST
<1>5. CASE phase' \in DataPhases
  <2>1. Stage' = "data"
    BY <1>5 DEF Stage, DataPhases
  <2> QED
    BY <1>1, <1>2, <1>3, <1>4, <2>1
       DEF Target!TargetNext, Target!TransferData, Target!Enter
<1>6. CASE phase' = "STATUS"
  <2>1. Stage' = "status"
    BY <1>6 DEF Stage, DataPhases
  <2> QED
    BY <1>1, <1>2, <1>3, <1>4, <2>1 DEF Target!TargetNext, Target!Report, Target!Enter
<1>7. CASE phase' = "BUS_FREE" /\ RST'
  <2>1. Stage' = "free"
    BY <1>7 DEF Stage, DataPhases
  <2> QED
    BY <1>1, <1>3, <1>4, <1>7, <2>1 DEF Target!TargetNext, Target!Abandon, Target!Enter
<1> QED
  BY <1>5, <1>6, <1>7 DEF Answers

\* A bus reset ends the selection in any phase.
LEMMA AbandonStep ==
    ASSUME phase' = "BUS_FREE", ~msg'.atn, RST \/ RST'
    PROVE  Target!TargetNext /\ ChainInv'
<1>1. Stage' = "free" /\ Taken' = FALSE /\ Announced' = FALSE /\ ChainInv'
  BY DEF Stage, DataPhases, Taken, Announced, ChainInv
<1>2. RST' \in BOOLEAN
  BY DEF RST
<1> QED
  BY <1>1, <1>2 DEF Target!TargetNext, Target!Abandon, Target!Enter

\* A step within a phase that leaves the bytes of the phase alone
LEMMA StutterStep ==
    ASSUME ChainInv, UNCHANGED <<phase, reply, link>>, msg'.atn = msg.atn,
           xfer' = xfer \/ phase \notin {"STATUS", "MSG_IN"}
    PROVE  Target!TargetNext /\ ChainInv'
<1>1. Stage' = Stage /\ Announced' = Announced /\ ChainInv'
  BY DEF Stage, DataPhases, Announced, ChainInv
<1>2. Taken' = Taken
  BY DEF Taken
<1>3. RST' \in BOOLEAN
  BY DEF RST
<1> QED
  BY <1>1, <1>2, <1>3 DEF Target!TargetNext

LEMMA EnvironmentStep ==
    ASSUME TargetInv, Environment
    PROVE  Target!TargetNext /\ ChainInv'
  BY StutterStep DEF TargetInv, Environment, Select, ReleaseSelect, AssertReset,
     ReleaseReset, InsertMedium, EjectMedium

LEMMA SelectionStep ==
    ASSUME TargetInv,
           Reset \/ (\E i \in Initiators \cup {Unknown} : StartSelection(i)) \/ EndSelection
    PROVE  Target!TargetNext /\ ChainInv'
<1>1. TypeOK /\ msg \in Messages
  BY Untouched, Unanswered DEF TargetInv
<1>2. RST' \in BOOLEAN
  BY DEF RST
<1>3. CASE Reset
  <2>1. phase' = "BUS_FREE" /\ ~msg'.atn /\ RST
    BY <1>1, <1>3 DEF Reset, Messages
  <2> QED
    BY <2>1, AbandonStep
<1>4. CASE \E i \in Initiators \cup {Unknown} : StartSelection(i)
  <2>1. phase = "BUS_FREE" /\ phase' = "SELECTION" /\ msg' = msg
    BY <1>4 DEF StartSelection
  <2>2. Stage = "free" /\ Stage' = "selected" /\ Taken' = FALSE
        /\ Announced' = FALSE /\ ChainInv'
    BY <2>1 DEF Stage, DataPhases, Taken, Announced, TargetInv, ChainInv
  <2> QED
    BY <1>2, <2>2 DEF Target!TargetNext, Target!Connect, Target!Enter
<1>5. CASE EndSelection
  <2>1. Stage = "selected" /\ Taken = FALSE /\ Announced = FALSE
    BY <1>5 DEF EndSelection, Stage, DataPhases, Taken, Announced
  <2>2. CASE phase' = "MSG_OUT"
    <3>1. Stage' = "selected" /\ Taken' = FALSE /\ Announced' = FALSE /\ ChainInv'
      BY <2>2 DEF Stage, DataPhases, Taken, Announced, ChainInv
    <3>2. UNCHANGED <<Stage, Taken, Announced>>
      BY <2>1, <3>1 DEF Taken, Announced
    <3> QED
      BY <1>2, <3>1, <3>2 DEF Target!TargetNext
  <2>3. CASE phase' = "COMMAND" /\ msg' = msg
    <3>1. Stage' = "command" /\ Taken' = FALSE /\ Announced' = FALSE /\ ChainInv'
      BY <1>5, <2>3
         DEF EndSelection, Stage, DataPhases, Taken, Announced, TargetInv, ChainInv
    <3> QED
      BY <1>2, <2>1, <3>1 DEF Target!TargetNext, Target!AwaitCommand, Target!Enter
  <2> QED
    BY <1>5, <2>2, <2>3 DEF EndSelection, EnterCommand
<1> QED
  BY <1>3, <1>4, <1>5

LEMMA CommandStep ==
    ASSUME TargetInv,
           CommandTimeout \/ UnknownCommand \/ (\E c \in Commands : ReceiveCommand(c))
    PROVE  Target!TargetNext /\ ChainInv'
<1>1. phase = "COMMAND"
  BY DEF CommandTimeout, UnknownCommand, ReceiveCommand
<1>2. Answers
  BY <1>1, CommandAnswers DEF TargetInv, ChainInv
<1> QED
  BY <1>1, <1>2, AnswerStep

LEMMA TransferStep ==
    ASSUME TargetInv,
           \/ TransferBytes \/ TransferFailed
           \/ \E b \in MsgBytes : ReceiveMessageByte(b)
    PROVE  Target!TargetNext /\ ChainInv'
<1>1. TypeOK /\ msg \in Messages /\ xfer \in Transfers
  BY Untouched, Unanswered DEF TargetInv
<1>2. CASE TransferBytes
  <2>1. CASE phase \in DataPhases
    BY <1>2, <2>1, StutterStep DEF TransferBytes, TargetInv, DataPhases
  <2>2. CASE phase \in {"STATUS", "MSG_IN"}
    <3>1. xfer.current # 0 /\ xfer'.current = 0 /\ UNCHANGED <<phase, reply, msg, link>>
      BY <1>1, <1>2 DEF TransferBytes, Transfers
    <3>2. Stage \in {"status", "completion"} /\ Stage' = Stage /\ Taken = FALSE
      BY <2>2, <3>1 DEF Stage, Taken, DataPhases
    <3>3. Taken' = TRUE /\ Announced' = Announced /\ ChainInv'
      BY <2>2, <3>1 DEF Taken, Announced, TargetInv, ChainInv
    <3>4. RST' \in BOOLEAN
      BY DEF RST
    <3> QED
      BY <3>2, <3>3, <3>4 DEF Target!TargetNext, Target!Take
  <2> QED
    BY <1>2, <2>1, <2>2 DEF TransferBytes, SendPhases, DataPhases
<1>3. CASE TransferFailed
  <2>1. phase' = "BUS_FREE" /\ ~msg'.atn /\ RST'
    BY <1>1, <1>3, Unanswered
       DEF TransferFailed, HandshakeFailed, BusFree, Messages, Resets, RST
  <2> QED
    BY <2>1, AbandonStep
<1>4. CASE \E b \in MsgBytes : ReceiveMessageByte(b)
  <2>1. phase = "MSG_OUT" /\ msg'.atn = msg.atn /\ UNCHANGED <<phase, reply, link>>
    BY <1>1, <1>4 DEF ReceiveMessageByte, Messages
  <2> QED
    BY <2>1, StutterStep DEF TargetInv
<1> QED
  BY <1>2, <1>3, <1>4

LEMMA ContinueDataStep ==
    ASSUME TargetInv, ContinueDataIn \/ ContinueDataOut
    PROVE  Target!TargetNext /\ ChainInv'
<1>1. TypeOK /\ phase \in DataPhases /\ ~msg.atn
  BY Untouched DEF TargetInv, ChainInv, ContinueDataIn, ContinueDataOut, DataPhases
<1>2. CASE \/ EnterStatus(line, status) /\ UNCHANGED msg
           \/ \E x : Error("DEVICE_ERROR", "CHECK_CONDITION", device, x)
  BY <1>1, <1>2, StatusAnswers, ErrorAnswers, AnswerStep
<1>3. CASE UNCHANGED <<phase, reply, msg, link>>
  BY <1>1, <1>3, StutterStep DEF TargetInv, DataPhases
<1> QED
  BY <1>2, <1>3 DEF ContinueDataIn, ContinueDataOut

LEMMA CompletionStep ==
    ASSUME TargetInv, EndStatus \/ EndMsgIn
    PROVE  Target!TargetNext /\ ChainInv'
<1>1. TypeOK /\ msg \in Messages /\ link \in Links /\ ~msg.atn
  BY Untouched, Unanswered DEF TargetInv, ChainInv, EndStatus, EndMsgIn
<1>2. RST' \in BOOLEAN
  BY DEF RST
<1>3. CASE EndStatus
  <2>1. /\ phase = "STATUS" /\ phase' = "MSG_IN" /\ UNCHANGED <<msg, link>>
        /\ xfer.current = 0 /\ xfer'.current = 1
    BY <1>3 DEF EndStatus, EnterMsgIn, OneByte
  <2>2. Announced' <=> link'.linked
    BY <1>3, <2>1 DEF EndStatus, EnterMsgIn, Announced
  <2>3. Stage = "status" /\ Taken /\ Stage' = "completion" /\ Taken' = FALSE
    BY <2>1 DEF Stage, Taken, DataPhases
  <2>4. Announced' \in BOOLEAN /\ ChainInv'
    BY <1>1, <2>1, <2>2 DEF Announced, ChainInv
  <2> QED
    BY <1>2, <2>3, <2>4 DEF Target!TargetNext, Target!Complete
<1>4. CASE EndMsgIn
  <2>1. phase = "MSG_IN" /\ xfer.current = 0 /\ (Announced <=> CommandExpected)
    BY <1>1, <1>4 DEF EndMsgIn, CommandExpected, TargetInv, ChainInv
  <2>2. Stage = "completion" /\ Taken
    BY <2>1 DEF Stage, Taken, DataPhases
  <2>3. CASE CommandExpected /\ phase' = "COMMAND" /\ msg' = [msg EXCEPT !.atn = FALSE]
    <3>1. ~msg'.atn
      BY <1>1, <2>3 DEF Messages
    <3>2. Stage' = "command" /\ Taken' = FALSE /\ Announced' = FALSE /\ ChainInv'
      BY <2>3, <3>1 DEF Stage, DataPhases, Taken, Announced, ChainInv
    <3> QED
      BY <1>2, <2>1, <2>2, <2>3, <3>2
         DEF Target!TargetNext, Target!ContinueChain, Target!Enter
  <2>4. CASE ~CommandExpected /\ BusFree
    <3>1. phase' = "BUS_FREE" /\ ~msg'.atn
      BY <1>1, <2>4 DEF BusFree, Messages
    <3>2. Stage' = "free" /\ Taken' = FALSE /\ Announced' = FALSE /\ ChainInv'
      BY <3>1 DEF Stage, DataPhases, Taken, Announced, ChainInv
    <3> QED
      BY <1>2, <2>1, <2>2, <2>4, <3>2
         DEF Target!TargetNext, Target!ReleaseBus, Target!Enter
  <2> QED
    BY <1>4, <2>3, <2>4 DEF EndMsgIn, EnterCommand
<1> QED
  BY <1>3, <1>4

\* After the messages the target awaits a command, even after ABORT.
LEMMA ContinueMessageOutStep ==
    ASSUME TargetInv, ContinueMessageOut
    PROVE  Target!TargetNext /\ ChainInv'
<1>1. msg \in Messages /\ phase = "MSG_OUT"
  BY Untouched, Unanswered DEF TargetInv, ContinueMessageOut
<1> DEFINE bytes == Append(msg.bytes, msg.byte)
<1>2. CASE /\ msg' = [msg EXCEPT !.bytes = bytes]
           /\ UNCHANGED <<phase, reply, link>>
  <2>1. msg'.atn = msg.atn
    BY <1>1, <1>2 DEF Messages
  <2> QED
    BY <1>1, <1>2, <2>1, StutterStep DEF TargetInv
<1>3. CASE \E l \in LunRange \cup {NoLun} :
              \/ ParseMessage(bytes, l)
              \/ \E f \in ExtendedBytes(bytes) : RejectFailed(bytes, f, l)
  <2> HIDE DEF bytes
  <2>1. phase' = "COMMAND" /\ \E l : msg' = [Parsed EXCEPT !.lun = l]
    BY <1>3 DEF ParseMessage, RejectFailed, EnterCommand
  <2>2. Parsed \in Messages /\ ~Parsed.atn
    <3>1. Parsed \in Messages
      BY <1>1, EmptyMessage, MessageBytes DEF Parsed
    <3>2. Parsed.atn = FALSE
      BY <1>1, Zenon DEF Parsed, Messages
    <3> QED
      BY <3>1, <3>2
  <2>3. ~msg'.atn
    <3>1. PICK l : msg' = [Parsed EXCEPT !.lun = l]
      BY <2>1
    <3>2. [Parsed EXCEPT !.lun = l].atn = Parsed.atn
      BY <2>2, Zenon DEF Messages
    <3> QED
      BY <2>2, <3>1, <3>2
  <2>4. Stage = "selected" /\ Stage' = "command" /\ Taken' = FALSE
        /\ Announced' = FALSE /\ ChainInv'
    BY <1>1, <2>1, <2>3 DEF Stage, DataPhases, Taken, Announced, ChainInv
  <2>5. RST' \in BOOLEAN
    BY DEF RST
  <2> QED
    BY <2>4, <2>5 DEF Target!TargetNext, Target!AwaitCommand, Target!Enter
<1> QED
  BY <1>2, <1>3 DEF ContinueMessageOut

LEMMA TargetStep ==
    ASSUME TargetInv, Next
    PROVE  Target!TargetNext /\ ChainInv'
<1>1. CASE Environment
  BY <1>1, EnvironmentStep
<1>2. CASE Process
  BY <1>2, SelectionStep, CommandStep, TransferStep, ContinueDataStep, CompletionStep,
     ContinueMessageOutStep DEF Process
<1> QED
  BY <1>1, <1>2 DEF Next

\* Every command of every initiator is answered by one status byte and by one
\* completion message that tells whether another command is expected, and only
\* a bus reset ends a selection otherwise: for any units, commands and messages.
THEOREM ControllerImplementsTarget == Spec => ImplementsTarget
<1>1. Init => Target!TargetInit /\ TargetInv
  <2> SUFFICES ASSUME Init PROVE Target!TargetInit /\ TargetInv
    OBVIOUS
  <2>1. phase = "BUS_FREE" /\ ~msg.atn /\ ~RST
    BY DEF Init, RST
  <2>2. Stage = "free" /\ Taken = FALSE /\ Announced = FALSE /\ RST = FALSE /\ ChainInv
    BY <2>1 DEF Stage, DataPhases, Taken, Announced, ChainInv, RST
  <2> QED
    BY <2>2, InitType DEF Target!TargetInit, TargetInv
<1>2. TargetInv /\ [Next]_vars => TargetInv' /\ [Target!TargetNext]_(Target!targetVars)
  <2> SUFFICES ASSUME TargetInv, [Next]_vars
               PROVE  TargetInv' /\ [Target!TargetNext]_(Target!targetVars)
    OBVIOUS
  <2>1. TypeInv'
    BY StepType DEF TargetInv
  <2>2. CASE Next
    BY <2>1, <2>2, TargetStep DEF TargetInv
  <2>3. CASE UNCHANGED vars
    <3>1. ChainInv' /\ Stage' = Stage /\ Taken' = Taken /\ Announced' = Announced
          /\ RST' = RST
      BY <2>3 DEF vars, TargetInv, ChainInv, Stage, DataPhases, Taken, Announced, RST
    <3> QED
      BY <2>1, <3>1 DEF TargetInv, Target!targetVars
  <2> QED
    BY <2>2, <2>3
<1> QED
  BY <1>1, <1>2, PTL DEF Spec, ImplementsTarget, Target!TargetSpec
=============================================================================
