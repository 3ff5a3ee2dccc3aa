--------------------------- MODULE ServiceProofs ---------------------------
(***************************************************************************)
(* Proofs about Service: the bus is released at every exit but one, SCSI   *)
(* commands and device commands exclude each other, and the results of     *)
(* host services are those of their initiator.                             *)
(*                                                                         *)
(* For the first one the steps of starting up matter: as soon as there is  *)
(* a server socket, whatever closes it has released the bus.               *)
(***************************************************************************)
EXTENDS Service, TLAPS

Started == 10    \* the number of steps
Listening == 6   \* the number of steps with a server socket

Results == [Initiators -> AllRequests \cup {None}]

ServiceTyped ==
    /\ startup \in 0 .. Started
    /\ results \in Results /\ last \in Results
    /\ operation \in Requests \cup {None}
    /\ main \in {"selected"} \cup Processing => initiator \in Initiators

BusSafe ==
    /\ main = "startup" <=> startup < Started
    /\ service = "off" <=> startup < Started
    /\ bus = "off" => startup = 0
    /\ startup >= Listening => running \/ bus = "closed"
    /\ main = "join" => bus = "closed"
    /\ service = "exiting" => bus = "closed"

LockSafe ==
    /\ lock = "scsi" <=> main \in Processing
    /\ lock = "service" <=> service = "locked"

\* SCSI commands are not processed while a command changes the devices.
DispatchExclusive == ~(main \in Processing /\ service = "locked")

ServiceInv == ServiceTyped /\ BusSafe /\ LockSafe /\ BusReleasedAtExit /\ ResultsOfInitiator

-----------------------------------------------------------------------------
(* Steps of starting up                                                    *)

LEMMA StepsOfStartup ==
    ASSUME startup \in 0 .. Started, startup < Started
    PROVE  /\ Step = "bus" <=> startup = 0
           /\ Step = "properties" <=> startup = 2
           /\ Step = "listen" <=> startup = 5
           /\ Step = "devices" <=> startup = 6
           /\ Step = "thread" <=> startup = 9
<1>1. startup \in {0, 1, 2, 3, 4, 5, 6, 7, 8, 9}
  BY DEF Started
<1> QED
  BY <1>1 DEF Step, Startup

LEMMA StartStepGood ==
    ASSUME ServiceInv, StartStep
    PROVE  ServiceInv'
<1>1. /\ startup \in 0 .. Started /\ startup < Started /\ main = "startup" /\ service = "off"
      /\ process' = "running" /\ process = "running" /\ startup' = startup + 1
      /\ UNCHANGED <<initiator, operation, results, last, lock>>
  BY DEF StartStep, ServiceInv, ServiceTyped, BusSafe, Up
<1>2. /\ Step = "bus" <=> startup = 0
      /\ Step = "listen" <=> startup = 5
      /\ Step = "thread" <=> startup = 9
  BY <1>1, StepsOfStartup
<1>3. /\ bus' = IF startup = 0 THEN "open" ELSE bus
      /\ running' = (running \/ startup = 5)
      /\ service' = IF startup = 9 THEN "loop" ELSE service
      /\ main' = IF startup = 9 THEN "loop" ELSE main
  BY <1>2 DEF StartStep
<1>4. ServiceTyped'
  BY <1>1, <1>3 DEF ServiceInv, ServiceTyped, Processing, Started
<1>5. BusSafe'
  <2>1. startup \in Nat /\ startup <= 9 /\ startup' = startup + 1
    BY <1>1 DEF Started
  <2>2. (main' = "startup" <=> startup' < Started) /\ (service' = "off" <=> startup' < Started)
    BY <1>1, <1>3, <2>1 DEF Started
  <2>3. bus' # "off"
    BY <1>3 DEF ServiceInv, BusSafe
  <2>4. startup' >= Listening => running' \/ bus' = "closed"
    <3>1. CASE startup = 5
      BY <1>3, <3>1, Zenon
    <3>2. CASE startup > 5
      <4>1. startup >= Listening /\ startup # 0
        BY <2>1, <3>2 DEF Listening
      <4>2. running \/ bus = "closed"
        BY <4>1 DEF ServiceInv, BusSafe
      <4> QED
        BY <1>3, <4>1, <4>2, Zenon
    <3>3. CASE startup < 5
      BY <2>1, <3>3 DEF Listening
    <3> QED
      BY <2>1, <3>1, <3>2, <3>3
  <2>5. main' # "join" /\ service' # "exiting"
    BY <1>1, <1>3
  <2> QED
    BY <2>2, <2>3, <2>4, <2>5 DEF BusSafe
<1>6. LockSafe'
  BY <1>1, <1>3 DEF ServiceInv, LockSafe, Processing
<1>7. BusReleasedAtExit' /\ ResultsOfInitiator'
  BY <1>1 DEF ServiceInv, BusReleasedAtExit, ResultsOfInitiator
<1> QED
  BY <1>4, <1>5, <1>6, <1>7 DEF ServiceInv

LEMMA StartFailsGood ==
    ASSUME ServiceInv, StartFails
    PROVE  ServiceInv'
<1>1. /\ UNCHANGED <<startup, service, running, lock, main, initiator, operation, results, last>>
      /\ main = "startup" /\ startup < Started /\ service = "off"
      /\ bus' = IF Step = "properties" THEN bus ELSE BusAfterCleanUp
  BY DEF StartFails, scsiVars, serviceVars, Unclean, ServiceInv, BusSafe
<1>2. Step' = Step
  BY <1>1 DEF Step
<1>3. ServiceTyped' /\ LockSafe' /\ ResultsOfInitiator'
  BY <1>1 DEF ServiceInv, ServiceTyped, LockSafe, ResultsOfInitiator
<1>4. BusSafe'
  BY <1>1 DEF ServiceInv, BusSafe, BusAfterCleanUp
<1>5. BusReleasedAtExit'
  BY <1>1, <1>2 DEF BusReleasedAtExit, BusAfterCleanUp
<1> QED
  BY <1>3, <1>4, <1>5 DEF ServiceInv

-----------------------------------------------------------------------------
(* The other steps *)

LEMMA CheckRunningGood ==
    ASSUME ServiceInv, CheckRunning
    PROVE  ServiceInv'
<1> USE DEF ServiceInv, CheckRunning, Up, scsiVars, serviceVars, clientVars, processVars, Processing
<1>1. ServiceTyped'
  BY DEF ServiceTyped, Results
<1>2. BusSafe'
  <2>1. startup = Started /\ startup >= Listening
    BY DEF BusSafe, ServiceTyped, Started, Listening
  <2>2. running \/ bus = "closed"
    BY <2>1 DEF BusSafe
  <2>3. (running /\ main' = "waiting") \/ (~running /\ main' = "join")
    OBVIOUS
  <2>4. main' = "join" => bus' = "closed"
    BY <2>2, <2>3
  <2> QED
    BY <2>1, <2>2, <2>3, <2>4 DEF BusSafe, Started
<1>3. LockSafe'
  BY DEF LockSafe
<1>4. BusReleasedAtExit'
  BY DEF BusReleasedAtExit, BusSafe, Step
<1>5. ResultsOfInitiator'
  BY DEF ResultsOfInitiator, ServiceTyped, Results
<1> QED
  BY <1>1, <1>2, <1>3, <1>4, <1>5

LEMMA LockGood ==
    ASSUME ServiceInv, Lock
    PROVE  ServiceInv'
<1> USE DEF ServiceInv, Lock, Up, scsiVars, serviceVars, clientVars, processVars, Processing
<1>1. ServiceTyped'
  BY DEF ServiceTyped, Results
<1>2. BusSafe'
  BY DEF BusSafe, Started, Listening
<1>3. LockSafe'
  BY DEF LockSafe
<1>4. BusReleasedAtExit'
  BY DEF BusReleasedAtExit, BusSafe, Step
<1>5. ResultsOfInitiator'
  BY DEF ResultsOfInitiator, ServiceTyped, Results
<1> QED
  BY <1>1, <1>2, <1>3, <1>4, <1>5

LEMMA OtherCommandGood ==
    ASSUME ServiceInv, OtherCommand
    PROVE  ServiceInv'
<1> USE DEF ServiceInv, OtherCommand, Up, scsiVars, serviceVars, clientVars, processVars, Processing
<1>1. ServiceTyped'
  BY DEF ServiceTyped, Results
<1>2. BusSafe'
  BY DEF BusSafe, Started, Listening
<1>3. LockSafe'
  BY DEF LockSafe
<1>4. BusReleasedAtExit'
  BY DEF BusReleasedAtExit, BusSafe, Step
<1>5. ResultsOfInitiator'
  BY DEF ResultsOfInitiator, ServiceTyped, Results
<1> QED
  BY <1>1, <1>2, <1>3, <1>4, <1>5

LEMMA StartStopUnitGood ==
    ASSUME ServiceInv, NEW mode \in ShutdownModes, StartStopUnit(mode)
    PROVE  ServiceInv'
<1> USE DEF ServiceInv, StartStopUnit, Up, scsiVars, serviceVars, clientVars, processVars, Processing
<1>1. ServiceTyped'
  BY DEF ServiceTyped, Results
<1>2. BusSafe'
  BY DEF BusSafe, Started, Listening
<1>3. LockSafe'
  BY DEF LockSafe
<1>4. BusReleasedAtExit'
  BY DEF BusReleasedAtExit, BusSafe, Step
<1>5. ResultsOfInitiator'
  BY DEF ResultsOfInitiator, ServiceTyped, Results
<1> QED
  BY <1>1, <1>2, <1>3, <1>4, <1>5

LEMMA ExecuteOperationGood ==
    ASSUME ServiceInv, NEW op \in Requests, ExecuteOperation(op)
    PROVE  ServiceInv'
<1> USE DEF ServiceInv, ExecuteOperation, Up, scsiVars, serviceVars, clientVars, processVars, Processing, Forget
<1>1. ServiceTyped'
  BY DEF ServiceTyped, Results
<1>2. BusSafe'
  BY DEF BusSafe, Started, Listening
<1>3. LockSafe'
  BY DEF LockSafe
<1>4. BusReleasedAtExit'
  BY DEF BusReleasedAtExit, BusSafe, Step
<1>5. ResultsOfInitiator'
  BY DEF ResultsOfInitiator, ServiceTyped, Results
<1> QED
  BY <1>1, <1>2, <1>3, <1>4, <1>5

LEMMA ReceiveOperationResultsGood ==
    ASSUME ServiceInv, ReceiveOperationResults
    PROVE  ServiceInv'
<1> USE DEF ServiceInv, ReceiveOperationResults, Up, scsiVars, serviceVars, clientVars, processVars, Processing, Forget
<1>1. ServiceTyped'
  BY DEF ServiceTyped, Results
<1>2. BusSafe'
  BY DEF BusSafe, Started, Listening
<1>3. LockSafe'
  BY DEF LockSafe
<1>4. BusReleasedAtExit'
  BY DEF BusReleasedAtExit, BusSafe, Step
<1>5. ResultsOfInitiator'
  BY DEF ResultsOfInitiator, ServiceTyped, Results
<1> QED
  BY <1>1, <1>2, <1>3, <1>4, <1>5

LEMMA DataOutFailsGood ==
    ASSUME ServiceInv, DataOutFails
    PROVE  ServiceInv'
<1> USE DEF ServiceInv, DataOutFails, Up, scsiVars, serviceVars, clientVars, processVars, Processing
<1>1. ServiceTyped'
  BY DEF ServiceTyped, Results
<1>2. BusSafe'
  BY DEF BusSafe, Started, Listening
<1>3. LockSafe'
  BY DEF LockSafe
<1>4. BusReleasedAtExit'
  BY DEF BusReleasedAtExit, BusSafe, Step
<1>5. ResultsOfInitiator'
  BY DEF ResultsOfInitiator, ServiceTyped, Results
<1> QED
  BY <1>1, <1>2, <1>3, <1>4, <1>5

LEMMA WriteDataGood ==
    ASSUME ServiceInv, WriteData
    PROVE  ServiceInv'
<1> USE DEF ServiceInv, WriteData, Up, scsiVars, serviceVars, clientVars, processVars, Processing
<1>1. ServiceTyped'
  <2>1. /\ startup' = startup /\ initiator' = initiator /\ operation' \in {operation, None}
        /\ main \in Processing /\ initiator \in Initiators
        /\ operation \in AllRequests \cup {None}
    BY ServiceAssumption DEF ServiceTyped
  <2>2. /\ results' = results \/ results' = [results EXCEPT ![initiator] = operation]
        /\ last' = last \/ last' = [last EXCEPT ![initiator] = operation]
    OBVIOUS
  <2>3. results' \in Results /\ last' \in Results
    BY <2>1, <2>2 DEF ServiceTyped, Results
  <2> QED
    BY <2>1, <2>3 DEF ServiceTyped
<1>2. BusSafe'
  BY DEF BusSafe, Started, Listening
<1>3. LockSafe'
  BY DEF LockSafe
<1>4. BusReleasedAtExit'
  BY DEF BusReleasedAtExit, BusSafe, Step
<1>5. ResultsOfInitiator'
  BY DEF ResultsOfInitiator, ServiceTyped, Results
<1> QED
  BY <1>1, <1>2, <1>3, <1>4, <1>5

LEMMA UnlockGood ==
    ASSUME ServiceInv, Unlock
    PROVE  ServiceInv'
<1> USE DEF ServiceInv, Unlock, Up, scsiVars, serviceVars, clientVars, processVars, Processing
<1>1. ServiceTyped'
  BY DEF ServiceTyped, Results
<1>2. BusSafe'
  BY DEF BusSafe, Started, Listening
<1>3. LockSafe'
  BY DEF LockSafe
<1>4. BusReleasedAtExit'
  BY DEF BusReleasedAtExit, BusSafe, Step
<1>5. ResultsOfInitiator'
  BY DEF ResultsOfInitiator, ServiceTyped, Results
<1> QED
  BY <1>1, <1>2, <1>3, <1>4, <1>5

LEMMA JoinGood ==
    ASSUME ServiceInv, Join
    PROVE  ServiceInv'
<1> USE DEF ServiceInv, Join, Up, scsiVars, serviceVars, clientVars, processVars, Processing
<1>1. ServiceTyped'
  BY DEF ServiceTyped, Results
<1>2. BusSafe'
  BY DEF BusSafe, Started, Listening
<1>3. LockSafe'
  BY DEF LockSafe
<1>4. BusReleasedAtExit'
  BY DEF BusReleasedAtExit, BusSafe, Step
<1>5. ResultsOfInitiator'
  BY DEF ResultsOfInitiator, ServiceTyped, Results
<1> QED
  BY <1>1, <1>2, <1>3, <1>4, <1>5

LEMMA WaitForSelectionGood ==
    ASSUME ServiceInv, NEW i \in Initiators, WaitForSelection(i)
    PROVE  ServiceInv'
<1> USE DEF ServiceInv, WaitForSelection, Up, scsiVars, serviceVars, clientVars, processVars, Processing
<1>1. ServiceTyped'
  BY DEF ServiceTyped, Results
<1>2. BusSafe'
  BY DEF BusSafe, Started, Listening
<1>3. LockSafe'
  BY DEF LockSafe
<1>4. BusReleasedAtExit'
  BY DEF BusReleasedAtExit, BusSafe, Step
<1>5. ResultsOfInitiator'
  BY DEF ResultsOfInitiator, ServiceTyped, Results
<1> QED
  BY <1>1, <1>2, <1>3, <1>4, <1>5

LEMMA NotSelectedGood ==
    ASSUME ServiceInv, NotSelected
    PROVE  ServiceInv'
<1> USE DEF ServiceInv, NotSelected, Up, scsiVars, serviceVars, clientVars, processVars, Processing
<1>1. ServiceTyped'
  BY DEF ServiceTyped, Results
<1>2. BusSafe'
  BY DEF BusSafe, Started, Listening
<1>3. LockSafe'
  BY DEF LockSafe
<1>4. BusReleasedAtExit'
  BY DEF BusReleasedAtExit, BusSafe, Step
<1>5. ResultsOfInitiator'
  BY DEF ResultsOfInitiator, ServiceTyped, Results
<1> QED
  BY <1>1, <1>2, <1>3, <1>4, <1>5

LEMMA TerminationHandlerGood ==
    ASSUME ServiceInv, TerminationHandler
    PROVE  ServiceInv'
<1> USE DEF ServiceInv, TerminationHandler, Up, scsiVars, serviceVars, clientVars, processVars, Processing, ShutServerDown, Deprived
<1>1. ServiceTyped'
  BY DEF ServiceTyped, Results
<1>2. BusSafe'
  BY DEF BusSafe, Started, Listening
<1>3. LockSafe'
  BY DEF LockSafe
<1>4. BusReleasedAtExit'
  BY DEF BusReleasedAtExit, BusSafe, Step
<1>5. ResultsOfInitiator'
  BY DEF ResultsOfInitiator, ServiceTyped, Results
<1> QED
  BY <1>1, <1>2, <1>3, <1>4, <1>5

LEMMA KillGood ==
    ASSUME ServiceInv, Kill
    PROVE  ServiceInv'
<1> USE DEF ServiceInv, Kill, Up, scsiVars, serviceVars, clientVars, processVars, Processing
<1>1. ServiceTyped'
  BY DEF ServiceTyped, Results
<1>2. BusSafe'
  BY DEF BusSafe, Started, Listening
<1>3. LockSafe'
  BY DEF LockSafe
<1>4. BusReleasedAtExit'
  BY DEF BusReleasedAtExit, BusSafe, Step
<1>5. ResultsOfInitiator'
  BY DEF ResultsOfInitiator, ServiceTyped, Results
<1> QED
  BY <1>1, <1>2, <1>3, <1>4, <1>5

LEMMA ConnectGood ==
    ASSUME ServiceInv, NEW c \in Clients, Connect(c)
    PROVE  ServiceInv'
<1> USE DEF ServiceInv, Connect, Up, scsiVars, serviceVars, clientVars, processVars, Processing
<1>1. ServiceTyped'
  BY DEF ServiceTyped, Results
<1>2. BusSafe'
  BY DEF BusSafe, Started, Listening
<1>3. LockSafe'
  BY DEF LockSafe
<1>4. BusReleasedAtExit'
  BY DEF BusReleasedAtExit, BusSafe, Step
<1>5. ResultsOfInitiator'
  BY DEF ResultsOfInitiator, ServiceTyped, Results
<1> QED
  BY <1>1, <1>2, <1>3, <1>4, <1>5

LEMMA SendGood ==
    ASSUME ServiceInv, NEW r \in Requests, Send(r)
    PROVE  ServiceInv'
<1> USE DEF ServiceInv, Send, Up, scsiVars, serviceVars, clientVars, processVars, Processing
<1>1. ServiceTyped'
  BY DEF ServiceTyped, Results
<1>2. BusSafe'
  BY DEF BusSafe, Started, Listening
<1>3. LockSafe'
  BY DEF LockSafe
<1>4. BusReleasedAtExit'
  BY DEF BusReleasedAtExit, BusSafe, Step
<1>5. ResultsOfInitiator'
  BY DEF ResultsOfInitiator, ServiceTyped, Results
<1> QED
  BY <1>1, <1>2, <1>3, <1>4, <1>5

LEMMA DisconnectGood ==
    ASSUME ServiceInv, Disconnect
    PROVE  ServiceInv'
<1> USE DEF ServiceInv, Disconnect, Up, scsiVars, serviceVars, clientVars, processVars, Processing
<1>1. ServiceTyped'
  BY DEF ServiceTyped, Results
<1>2. BusSafe'
  BY DEF BusSafe, Started, Listening
<1>3. LockSafe'
  BY DEF LockSafe
<1>4. BusReleasedAtExit'
  BY DEF BusReleasedAtExit, BusSafe, Step
<1>5. ResultsOfInitiator'
  BY DEF ResultsOfInitiator, ServiceTyped, Results
<1> QED
  BY <1>1, <1>2, <1>3, <1>4, <1>5

LEMMA ServiceLoopGood ==
    ASSUME ServiceInv, ServiceLoop
    PROVE  ServiceInv'
<1> USE DEF ServiceInv, ServiceLoop, Up, scsiVars, serviceVars, clientVars, processVars, Processing
<1>1. ServiceTyped'
  BY DEF ServiceTyped, Results
<1>2. BusSafe'
  BY DEF BusSafe, Started, Listening
<1>3. LockSafe'
  BY DEF LockSafe
<1>4. BusReleasedAtExit'
  BY DEF BusReleasedAtExit, BusSafe, Step
<1>5. ResultsOfInitiator'
  BY DEF ResultsOfInitiator, ServiceTyped, Results
<1> QED
  BY <1>1, <1>2, <1>3, <1>4, <1>5

LEMMA AcceptGood ==
    ASSUME ServiceInv, Accept
    PROVE  ServiceInv'
<1> USE DEF ServiceInv, Accept, Up, scsiVars, serviceVars, clientVars, processVars, Processing
<1>1. ServiceTyped'
  BY DEF ServiceTyped, Results
<1>2. BusSafe'
  BY DEF BusSafe, Started, Listening
<1>3. LockSafe'
  BY DEF LockSafe
<1>4. BusReleasedAtExit'
  BY DEF BusReleasedAtExit, BusSafe, Step
<1>5. ResultsOfInitiator'
  BY DEF ResultsOfInitiator, ServiceTyped, Results
<1> QED
  BY <1>1, <1>2, <1>3, <1>4, <1>5

LEMMA ReadCommandGood ==
    ASSUME ServiceInv, ReadCommand
    PROVE  ServiceInv'
<1> USE DEF ServiceInv, ReadCommand, Up, scsiVars, serviceVars, clientVars, processVars, Processing
<1>1. ServiceTyped'
  BY DEF ServiceTyped, Results
<1>2. BusSafe'
  BY DEF BusSafe, Started, Listening
<1>3. LockSafe'
  BY DEF LockSafe
<1>4. BusReleasedAtExit'
  BY DEF BusReleasedAtExit, BusSafe, Step
<1>5. ResultsOfInitiator'
  BY DEF ResultsOfInitiator, ServiceTyped, Results
<1> QED
  BY <1>1, <1>2, <1>3, <1>4, <1>5

LEMMA EndConnectionGood ==
    ASSUME ServiceInv, EndConnection
    PROVE  ServiceInv'
<1> USE DEF ServiceInv, EndConnection, Up, scsiVars, serviceVars, clientVars, processVars, Processing, Close
<1>1. ServiceTyped'
  BY DEF ServiceTyped, Results
<1>2. BusSafe'
  BY DEF BusSafe, Started, Listening
<1>3. LockSafe'
  BY DEF LockSafe
<1>4. BusReleasedAtExit'
  BY DEF BusReleasedAtExit, BusSafe, Step
<1>5. ResultsOfInitiator'
  BY DEF ResultsOfInitiator, ServiceTyped, Results
<1> QED
  BY <1>1, <1>2, <1>3, <1>4, <1>5

LEMMA ExecuteGood ==
    ASSUME ServiceInv, Execute
    PROVE  ServiceInv'
<1> USE DEF ServiceInv, Execute, Up, scsiVars, serviceVars, clientVars, processVars, Processing, Answer, Close
<1>1. ServiceTyped'
  BY DEF ServiceTyped, Results
<1>2. BusSafe'
  BY DEF BusSafe, Started, Listening
<1>3. LockSafe'
  BY DEF LockSafe
<1>4. BusReleasedAtExit'
  BY DEF BusReleasedAtExit, BusSafe, Step
<1>5. ResultsOfInitiator'
  BY DEF ResultsOfInitiator, ServiceTyped, Results
<1> QED
  BY <1>1, <1>2, <1>3, <1>4, <1>5

LEMMA AcquireLockGood ==
    ASSUME ServiceInv, AcquireLock
    PROVE  ServiceInv'
<1> USE DEF ServiceInv, AcquireLock, Up, scsiVars, serviceVars, clientVars, processVars, Processing
<1>1. ServiceTyped'
  BY DEF ServiceTyped, Results
<1>2. BusSafe'
  BY DEF BusSafe, Started, Listening
<1>3. LockSafe'
  BY DEF LockSafe
<1>4. BusReleasedAtExit'
  BY DEF BusReleasedAtExit, BusSafe, Step
<1>5. ResultsOfInitiator'
  BY DEF ResultsOfInitiator, ServiceTyped, Results
<1> QED
  BY <1>1, <1>2, <1>3, <1>4, <1>5

LEMMA ProcessCmdGood ==
    ASSUME ServiceInv, ProcessCmd
    PROVE  ServiceInv'
<1> USE DEF ServiceInv, ProcessCmd, Up, scsiVars, serviceVars, clientVars, processVars, Processing, Answer, Close, ReleasedLock
<1>1. ServiceTyped'
  BY DEF ServiceTyped, Results
<1>2. BusSafe'
  BY DEF BusSafe, Started, Listening
<1>3. LockSafe'
  BY DEF LockSafe
<1>4. BusReleasedAtExit'
  BY DEF BusReleasedAtExit, BusSafe, Step
<1>5. ResultsOfInitiator'
  BY DEF ResultsOfInitiator, ServiceTyped, Results
<1> QED
  BY <1>1, <1>2, <1>3, <1>4, <1>5

LEMMA HandleDeviceListChangeGood ==
    ASSUME ServiceInv, HandleDeviceListChange
    PROVE  ServiceInv'
<1> USE DEF ServiceInv, HandleDeviceListChange, Up, scsiVars, serviceVars, clientVars, processVars, Processing, Answer, Close
<1>1. ServiceTyped'
  BY DEF ServiceTyped, Results
<1>2. BusSafe'
  BY DEF BusSafe, Started, Listening
<1>3. LockSafe'
  BY DEF LockSafe
<1>4. BusReleasedAtExit'
  BY DEF BusReleasedAtExit, BusSafe, Step
<1>5. ResultsOfInitiator'
  BY DEF ResultsOfInitiator, ServiceTyped, Results
<1> QED
  BY <1>1, <1>2, <1>3, <1>4, <1>5

LEMMA StopGood ==
    ASSUME ServiceInv, Stop
    PROVE  ServiceInv'
<1> USE DEF ServiceInv, Stop, Up, scsiVars, serviceVars, clientVars, processVars, Processing, ShutServerDown, Deprived
<1>1. ServiceTyped'
  BY DEF ServiceTyped, Results
<1>2. BusSafe'
  BY DEF BusSafe, Started, Listening
<1>3. LockSafe'
  BY DEF LockSafe
<1>4. BusReleasedAtExit'
  BY DEF BusReleasedAtExit, BusSafe, Step
<1>5. ResultsOfInitiator'
  BY DEF ResultsOfInitiator, ServiceTyped, Results
<1> QED
  BY <1>1, <1>2, <1>3, <1>4, <1>5

LEMMA ExitGood ==
    ASSUME ServiceInv, Exit
    PROVE  ServiceInv'
<1> USE DEF ServiceInv, Exit, Up, scsiVars, serviceVars, clientVars, processVars, Processing
<1>1. ServiceTyped'
  BY DEF ServiceTyped, Results
<1>2. BusSafe'
  BY DEF BusSafe, Started, Listening
<1>3. LockSafe'
  BY DEF LockSafe
<1>4. BusReleasedAtExit'
  BY DEF BusReleasedAtExit, BusSafe, Step
<1>5. ResultsOfInitiator'
  BY DEF ResultsOfInitiator, ServiceTyped, Results
<1> QED
  BY <1>1, <1>2, <1>3, <1>4, <1>5

-----------------------------------------------------------------------------
(* Theorems                                                                *)

LEMMA InitGood ==
    ASSUME ServiceInit
    PROVE  ServiceInv
<1> USE DEF ServiceInit
<1>1. ServiceTyped
  BY DEF ServiceTyped, Results, Processing, Started
<1>2. BusSafe /\ LockSafe
  BY DEF BusSafe, LockSafe, Processing, Started, Listening
<1>3. BusReleasedAtExit /\ ResultsOfInitiator
  BY DEF BusReleasedAtExit, ResultsOfInitiator
<1> QED
  BY <1>1, <1>2, <1>3 DEF ServiceInv

LEMMA NextGood ==
    ASSUME ServiceInv, ServiceNext
    PROVE  ServiceInv'
<1>1. CASE ScsiThread
  BY <1>1, StartStepGood, CheckRunningGood, LockGood, OtherCommandGood, StartStopUnitGood, ExecuteOperationGood,
     ReceiveOperationResultsGood, DataOutFailsGood, WriteDataGood, UnlockGood, JoinGood
     DEF ScsiThread, Commands
<1>2. CASE ServiceThread
  BY <1>2, ServiceLoopGood, AcceptGood, ReadCommandGood, EndConnectionGood, ExecuteGood, AcquireLockGood,
     ProcessCmdGood, HandleDeviceListChangeGood, StopGood, ExitGood
     DEF ServiceThread
<1>3. CASE Environment
  BY <1>3, StartFailsGood, WaitForSelectionGood, NotSelectedGood, TerminationHandlerGood, KillGood, ConnectGood,
     SendGood, DisconnectGood
     DEF Environment
<1> QED
  BY <1>1, <1>2, <1>3 DEF ServiceNext

LEMMA StutteringGood ==
    ASSUME ServiceInv, UNCHANGED vars
    PROVE  ServiceInv'
  BY DEF vars, scsiVars, serviceVars, clientVars, processVars, ServiceInv, ServiceTyped, BusSafe, LockSafe,
         BusReleasedAtExit, Step, ResultsOfInitiator

\* The inductive invariant: once there is a server socket only what releases the bus closes it
\* (s2p_core.cpp:50), and the lock is held by the thread that processes a command
\* (s2p_core.cpp:479, command_dispatcher.cpp:154).
THEOREM ServiceInvariant == ServiceSpec => []ServiceInv
<1>1. ServiceInv /\ [ServiceNext]_vars => ServiceInv'
  BY NextGood, StutteringGood
<1> QED
  BY <1>1, InitGood, PTL DEF ServiceSpec

\* The program never exits with the bus still in use, except for errors in its properties
\* (s2p_core.cpp:50, 146), whatever signals and shutdowns interrupt.
THEOREM BusIsReleased == ServiceSpec => []BusReleasedAtExit
  BY ServiceInvariant, PTL DEF ServiceInv

\* Host services return only the result of the last operation of the same initiator
\* (host_services.cpp:319), for any number of initiators.
THEOREM ResultsKept == ServiceSpec => []ResultsOfInitiator
  BY ServiceInvariant, PTL DEF ServiceInv

\* While a SCSI command is processed no device command of the remote interface is executed
\* (s2p_core.cpp:479, command_dispatcher.cpp:154).
THEOREM DispatchIsExclusive == ServiceSpec => []DispatchExclusive
<1>1. ServiceInv => DispatchExclusive
  BY DEF ServiceInv, LockSafe, DispatchExclusive
<1> QED
  BY <1>1, ServiceInvariant, PTL
=============================================================================
