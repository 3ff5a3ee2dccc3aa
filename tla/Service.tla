------------------------------- MODULE Service -------------------------------
(***************************************************************************)
(* The two threads of s2p. The SCSI thread, which is the main thread,      *)
(* starts the program up, then waits for selections and processes SCSI     *)
(* commands (s2p/s2p_core.cpp). The service thread accepts a connection    *)
(* and executes the commands of the remote interface (s2p/s2p_thread.cpp,  *)
(* s2p/s2p_server.cpp, command/command_context.cpp and                     *)
(* command/command_dispatcher.cpp). The dispatch lock keeps SCSI commands  *)
(* and device commands apart. The host services device                     *)
(* (devices/host_services.cpp) executes remote interface commands from     *)
(* within a SCSI command. SIGINT and SIGTERM are handled in the SCSI       *)
(* thread.                                                                 *)
(*                                                                         *)
(* Of the devices only host services are modelled, and whether they have   *)
(* got a dispatcher: those that are attached by a client have none.        *)
(* Clients, initiators and signals are the environment.                    *)
(***************************************************************************)
EXTENDS Naturals, Sequences

CONSTANTS
    Clients,      \* the clients of the remote interface
    Initiators,   \* the SCSI IDs of the initiators
    Requests,     \* the operations that clients and initiators ask for
    ShutdownModes, \* the shutdown modes that can be scheduled with START STOP UNIT
    MaxSignals    \* bound on the number of signals

None == "none"

\* INVALID stands for all commands that are refused, GARBAGE for data that are no command,
\* INFO for all operations that do not change devices and are executed without lock.
LockedRequests == {"ATTACH", "DETACH_ALL"}
AllRequests == LockedRequests \cup {"INFO", "INVALID", "SHUT_DOWN", "GARBAGE"}

ASSUME ServiceAssumption ==
    /\ Requests \subseteq AllRequests
    /\ None \notin Clients \cup Initiators \cup ShutdownModes
    /\ MaxSignals \in Nat

\* What Run() does before the threads work
Startup == <<"bus", "arguments", "properties", "extensions", "limits", "listen", "devices",
             "unknown", "environment", "thread">>

VARIABLES
    process,      \* "running", "exited", "killed" (by a signal without handler) or "crashed"
    startup,      \* the steps of Startup that have been done
    main,         \* what the SCSI thread does
    initiator,    \* the initiator of its command
    operation,    \* the operation that host services have received
    results,      \* execution_results of host services
    last,         \* history: the last successful operation of each initiator
    scheduled,    \* shutdown_mode of the controller
    hostServices, \* "none", "initial" or "later": without dispatcher
    bus,          \* "off", "open" or "closed"
    lock,         \* dispatch_lock: "free", "scsi" or "service"
    running,      \* running of the server, i.e. there is a server socket
    service,      \* what the service thread does
    queued,       \* clients that have connected, but have not been accepted
    client,       \* the client the service thread has accepted
    open,         \* this client has not closed the connection
    request,      \* what it has sent and has not been answered
    signals       \* the number of signals

scsiVars    == <<main, initiator, operation, results, last, scheduled>>
clientVars  == <<queued, client, open, request>>
serviceVars == <<service, clientVars>>
processVars == <<process, startup, signals>>
vars == <<scsiVars, serviceVars, processVars, hostServices, bus, lock, running>>

Processing == {"command", "data out", "blocked", "done"}

ServiceInit ==
    /\ process = "running" /\ startup = 0 /\ signals = 0
    /\ main = "startup" /\ initiator = None /\ operation = None
    /\ results = [i \in Initiators |-> None] /\ last = results
    /\ scheduled = None
    /\ hostServices = "none" /\ bus = "off" /\ lock = "free" /\ running = FALSE
    /\ service = "off" /\ queued = {} /\ client = None /\ open = FALSE /\ request = None

Up == process = "running"

-----------------------------------------------------------------------------
(* Starting up                                                             *)

Step == Startup[startup + 1]

\* SetUpEnvironment() has installed the signal handlers.
Handling == startup >= 9

StartStep ==
    /\ Up /\ main = "startup"
    /\ startup' = startup + 1
    /\ bus' = IF Step = "bus" THEN "open" ELSE bus
    /\ running' = (running \/ Step = "listen")
    /\ IF Step = "devices" THEN hostServices' \in {"none", "initial"} ELSE UNCHANGED hostServices
    /\ service' = IF Step = "thread" THEN "loop" ELSE service
    /\ main' = IF Step = "thread" THEN "loop" ELSE main
    /\ UNCHANGED <<process, signals, initiator, operation, results, last, scheduled, lock, clientVars>>

\* CleanUp() releases the bus if there is one.
BusAfterCleanUp == IF bus = "off" THEN bus ELSE "closed"

\* Mutant: an invalid device definition is treated like an invalid property.
UncleanMutant == {"properties", "devices"}

\* Errors in the properties end Run() without CleanUp().
Unclean == {"properties"}

StartFails ==
    /\ Up /\ main = "startup" /\ Step \notin {"environment", "thread"}
    /\ process' = "exited"
    /\ bus' = IF Step \in Unclean THEN bus ELSE BusAfterCleanUp
    /\ UNCHANGED <<scsiVars, serviceVars, startup, signals, hostServices, lock, running>>

-----------------------------------------------------------------------------
(* The SCSI thread                                                         *)

\* IsRunning() of the service thread
CheckRunning ==
    /\ Up /\ main = "loop"
    /\ main' = IF running THEN "waiting" ELSE "join"
    /\ UNCHANGED <<processVars, serviceVars, hostServices, bus, lock, running,
                   initiator, operation, results, last, scheduled>>

\* Once the bus has been cleaned up there are no more events.
WaitForSelection(i) ==
    /\ Up /\ main = "waiting" /\ bus = "open"
    /\ initiator' = i
    /\ main' = "selected"
    /\ UNCHANGED <<processVars, serviceVars, hostServices, bus, lock, running,
                   operation, results, last, scheduled>>

\* The bus may also be free again.
NotSelected ==
    /\ Up /\ main = "waiting" /\ bus = "open"
    /\ main' = "loop"
    /\ UNCHANGED <<processVars, serviceVars, hostServices, bus, lock, running,
                   initiator, operation, results, last, scheduled>>

Lock ==
    /\ Up /\ main = "selected" /\ lock = "free"
    /\ lock' = "scsi"
    /\ main' = "command"
    /\ UNCHANGED <<processVars, serviceVars, hostServices, bus, running,
                   initiator, operation, results, last, scheduled>>

\* A command for another device, or one that is refused
OtherCommand ==
    /\ Up /\ main = "command"
    /\ main' = "done"
    /\ UNCHANGED <<processVars, serviceVars, hostServices, bus, lock, running,
                   initiator, operation, results, last, scheduled>>

StartStopUnit(mode) ==
    /\ Up /\ main = "command" /\ hostServices # "none"
    /\ scheduled' = mode
    /\ main' = "done"
    /\ UNCHANGED <<processVars, serviceVars, hostServices, bus, lock, running,
                   initiator, operation, results, last>>

\* Mutant: an old result is kept until there is a new one.
ForgetMutant(r, i) == r

Forget(r, i) == [r EXCEPT ![i] = None]

\* The old result is erased before the parameters are examined.
ExecuteOperation(op) ==
    /\ Up /\ main = "command" /\ hostServices # "none"
    /\ results' = Forget(results, initiator)
    /\ last' = [last EXCEPT ![initiator] = None]
    /\ \/ operation' = op /\ main' = "data out"
       \/ operation' = None /\ main' = "done"
    /\ UNCHANGED <<processVars, serviceVars, hostServices, bus, lock, running, initiator, scheduled>>

\* Only these commands reach ProcessCmd().
NeedsLock(op) == op \in LockedRequests

\* The data phase has ended early, or the data are no command.
DataOutFails ==
    /\ Up /\ main = "data out"
    /\ main' = "done" /\ operation' = None
    /\ UNCHANGED <<processVars, serviceVars, hostServices, bus, lock, running,
                   initiator, results, last, scheduled>>

\* Without a file descriptor nothing but the status is returned; SHUT_DOWN has no effect.
\* The dispatch lock cannot be taken twice.
WriteData ==
    /\ Up /\ main = "data out" /\ operation # "GARBAGE"
    /\ IF hostServices = "later"
       THEN process' = "crashed" /\ UNCHANGED <<main, operation, results, last>>
       ELSE UNCHANGED process /\
            IF NeedsLock(operation)
            THEN main' = "blocked" /\ UNCHANGED <<operation, results, last>>
            ELSE /\ main' = "done" /\ operation' = None
                 /\ IF operation = "INVALID" THEN UNCHANGED <<results, last>>
                    ELSE /\ results' = [results EXCEPT ![initiator] = operation]
                         /\ last' = [last EXCEPT ![initiator] = operation]
    /\ UNCHANGED <<startup, signals, serviceVars, hostServices, bus, lock, running, initiator, scheduled>>

\* A result can be received once, whether or not the data phase succeeds.
ReceiveOperationResults ==
    /\ Up /\ main = "command" /\ hostServices # "none" /\ results[initiator] # None
    /\ results' = Forget(results, initiator)
    /\ main' = "done"
    /\ UNCHANGED <<processVars, serviceVars, hostServices, bus, lock, running,
                   initiator, operation, last, scheduled>>

\* When the bus is free. The dispatcher reports success for STOP_S2P and nothing else
\* happens. The mode is not reset, so that a shutdown of the Pi is requested again.
Unlock ==
    /\ Up /\ main = "done"
    /\ lock' = "free" /\ initiator' = None
    /\ main' = "loop"
    /\ UNCHANGED <<processVars, serviceVars, hostServices, bus, running,
                   operation, results, last, scheduled>>

\* Run() has returned and the service thread is joined.
Join ==
    /\ Up /\ main = "join" /\ service = "ended"
    /\ process' = "exited"
    /\ UNCHANGED <<scsiVars, serviceVars, startup, signals, hostServices, bus, lock, running>>

-----------------------------------------------------------------------------
(* Termination                                                             *)

\* CleanUp() with the service thread running: all devices are detached, without the lock,
\* and the server socket is closed.
ShutServerDown ==
    /\ hostServices' = "none"
    /\ results' = [i \in Initiators |-> None] /\ last' = results'
    /\ running' = FALSE

\* What happens to a command whose device and controller are deleted is undefined.
Deprived(m) == IF m \in Processing \ {"blocked"} THEN "done" ELSE m

\* The handler runs in the SCSI thread. It ends a blocking call of WaitForSelection().
TerminationHandler ==
    /\ Up /\ signals < MaxSignals /\ Handling
    /\ signals' = signals + 1
    /\ IF running /\ service # "off" THEN ShutServerDown
       ELSE UNCHANGED <<hostServices, results, last, running>>
    /\ bus' = "closed"
    /\ IF main = "waiting" THEN main' = "loop" /\ UNCHANGED process
       ELSE \/ main' = (IF running' # running THEN Deprived(main) ELSE main) /\ UNCHANGED process
            \/ /\ running' # running /\ main \in Processing
               /\ process' = "crashed" /\ UNCHANGED main
    /\ UNCHANGED <<startup, initiator, operation, scheduled, lock, serviceVars>>

\* Without handler a signal ends the process.
Kill ==
    /\ Up /\ signals < MaxSignals /\ ~Handling
    /\ signals' = signals + 1
    /\ process' = "killed"
    /\ UNCHANGED <<startup, scsiVars, serviceVars, hostServices, bus, lock, running>>

-----------------------------------------------------------------------------
(* The service thread                                                      *)

\* Execute()
ServiceLoop ==
    /\ Up /\ service = "loop"
    /\ service' = IF ~running THEN "ended" ELSE IF client = None THEN "accept" ELSE "read"
    /\ UNCHANGED <<processVars, scsiVars, clientVars, hostServices, bus, lock, running>>

\* Mutant: closing the server socket does not end accept().
WokenMutant == FALSE

\* CleanUp() shuts the server socket down before it closes it, which ends accept().
Woken == ~running

Accept ==
    /\ Up /\ service = "accept"
    /\ \/ /\ running
          /\ \E c \in queued : client' = c /\ queued' = queued \ {c}
          /\ open' = TRUE /\ request' = None /\ service' = "read"
       \/ /\ Woken
          /\ service' = "loop"
          /\ UNCHANGED clientVars
    /\ UNCHANGED <<processVars, scsiVars, hostServices, bus, lock, running>>

Close ==
    /\ client' = None /\ open' = FALSE /\ request' = None
    /\ service' = "loop"
    /\ UNCHANGED queued

\* ReadCommand()
ReadCommand ==
    /\ Up /\ service = "read" /\ request \notin {None, "GARBAGE"}
    /\ service' = "execute"
    /\ UNCHANGED <<processVars, scsiVars, clientVars, hostServices, bus, lock, running>>

\* Data that are no command are answered with an error, if this is still possible; then,
\* or if the client has closed the connection, so does the server.
EndConnection ==
    /\ Up /\ service = "read" /\ (request = "GARBAGE" \/ (request = None /\ ~open))
    /\ Close
    /\ UNCHANGED <<processVars, scsiVars, hostServices, bus, lock, running>>

\* Writing a result. With the connection closed by the client it may fail, and the
\* connection is closed. A connection stays open after a refused command.
Answer ==
    \/ /\ request' = None /\ service' = "loop"
       /\ UNCHANGED <<client, open, queued>>
    \/ ~open /\ Close

\* DispatchCommand() for everything but device commands. A shutdown is executed after the
\* result has been written; when this fails there is no shutdown.
Execute ==
    /\ Up /\ service = "execute" /\ ~NeedsLock(request)
    /\ IF request = "SHUT_DOWN"
       THEN \/ /\ request' = None /\ service' = "stopping"
               /\ UNCHANGED <<client, open, queued>>
            \/ ~open /\ Close
       ELSE Answer
    /\ IF request = "DETACH_ALL"
       THEN /\ hostServices' = "none"
            /\ results' = [i \in Initiators |-> None] /\ last' = results'
       ELSE UNCHANGED <<hostServices, results, last>>
    /\ UNCHANGED <<processVars, main, initiator, operation, scheduled, bus, lock, running>>

AcquireLock ==
    /\ Up /\ service = "execute" /\ NeedsLock(request) /\ lock = "free"
    /\ lock' = "service"
    /\ service' = "locked"
    /\ UNCHANGED <<processVars, scsiVars, clientVars, hostServices, bus, running>>

\* Mutant: the lock is not released when the result cannot be written.
ReleasedLockMutant == IF open THEN "free" ELSE lock

\* The lock is released in any case, also by an exception.
ReleasedLock == "free"

\* ProcessCmd(): the result of DETACH_ALL, and errors, are written with the lock held, the
\* devices after ATTACH without.
ProcessCmd ==
    /\ Up /\ service = "locked"
    /\ lock' = ReleasedLock
    /\ \/ /\ request = "ATTACH" /\ hostServices = "none"
          /\ hostServices' = "later"
          /\ service' = "devices"
          /\ UNCHANGED <<clientVars, results, last>>
       \/ /\ request = "ATTACH"
          /\ Answer
          /\ UNCHANGED <<hostServices, results, last>>
       \/ /\ request = "DETACH_ALL"
          /\ hostServices' = "none"
          /\ results' = [i \in Initiators |-> None] /\ last' = results'
          /\ Answer
    /\ UNCHANGED <<processVars, main, initiator, operation, scheduled, bus, running>>

HandleDeviceListChange ==
    /\ Up /\ service = "devices"
    /\ Answer
    /\ UNCHANGED <<processVars, scsiVars, hostServices, bus, lock, running>>

\* The shutdown of ExecuteCommand(): CleanUp() does for the server what the handler does,
\* in the service thread.
Stop ==
    /\ Up /\ service = "stopping"
    /\ service' = "exiting"
    /\ IF running THEN ShutServerDown ELSE UNCHANGED <<hostServices, results, last, running>>
    /\ bus' = "closed"
    /\ \/ /\ main' = IF running THEN Deprived(main) ELSE main
          /\ UNCHANGED process
       \/ /\ running /\ main \in Processing
          /\ process' = "crashed" /\ UNCHANGED main
    /\ UNCHANGED <<startup, signals, initiator, operation, scheduled, lock, clientVars>>

Exit ==
    /\ Up /\ service = "exiting"
    /\ process' = "exited"
    /\ UNCHANGED <<scsiVars, serviceVars, startup, signals, hostServices, bus, lock, running>>

-----------------------------------------------------------------------------
(* The clients                                                             *)

\* A client may connect from the call of listen() on.
Connect(c) ==
    /\ Up /\ running /\ c \notin queued /\ (c # client \/ ~open)
    /\ queued' = queued \cup {c}
    /\ UNCHANGED <<processVars, scsiVars, service, client, open, request, hostServices, bus, lock, running>>

Send(r) ==
    /\ Up /\ client # None /\ open /\ request = None
    /\ request' = r
    /\ UNCHANGED <<processVars, scsiVars, service, client, open, queued, hostServices, bus, lock, running>>

\* A client may not wait for its result.
Disconnect ==
    /\ Up /\ client # None /\ open
    /\ open' = FALSE
    /\ UNCHANGED <<processVars, scsiVars, service, client, request, queued, hostServices, bus, lock, running>>

Commands ==
    \/ OtherCommand
    \/ \E mode \in ShutdownModes : StartStopUnit(mode)
    \/ \E op \in Requests : ExecuteOperation(op)
    \/ ReceiveOperationResults

ScsiThread ==
    \/ StartStep \/ CheckRunning \/ Lock \/ Commands \/ DataOutFails \/ WriteData \/ Unlock \/ Join

ServiceThread ==
    \/ ServiceLoop \/ Accept \/ ReadCommand \/ EndConnection \/ Execute \/ AcquireLock
    \/ ProcessCmd \/ HandleDeviceListChange \/ Stop \/ Exit

Environment ==
    \/ StartFails
    \/ NotSelected \/ \E i \in Initiators : WaitForSelection(i)
    \/ TerminationHandler \/ Kill
    \/ \E c \in Clients : Connect(c)
    \/ \E r \in Requests : Send(r)
    \/ Disconnect

ServiceNext == ScsiThread \/ ServiceThread \/ Environment

ServiceSpec ==
    /\ ServiceInit /\ [][ServiceNext]_vars
    /\ WF_vars(ScsiThread) /\ WF_vars(ServiceThread)

-----------------------------------------------------------------------------
(* Properties                                                              *)

\* The program has ended, or the SCSI thread waits for the lock that it holds itself.
Over == ~Up \/ main = "blocked"

\* Host services return the result of the last operation of the same initiator, provided
\* that it was successful (host_services.cpp:147, 199, 319).
ResultsOfInitiator == \A i \in Initiators : results[i] # None => results[i] = last[i]

\* Whenever the program exits, except for errors in its properties, it has released the bus
\* (s2p_core.cpp:50): neither an error while starting up nor a termination forgets it.
BusReleasedAtExit ==
    process = "exited" /\ bus = "open" => main = "startup" /\ Step = "properties"

\* A command of a client is answered, or the connection closed, provided that the SCSI
\* thread always releases the lock in the end and the service does not end before
\* (s2p_thread.cpp:56).
CommandsAnswered ==
    <>[](lock # "scsi") => (request # None ~> (request = None \/ ~running \/ ~Up))

\* After the first signal that is handled, or a SHUT_DOWN, the program ends
\* (s2p_core.cpp:50, s2p_thread.cpp:31), unless the service thread waits for ever for a
\* client that neither sends anything nor closes the connection, the SCSI thread has
\* blocked itself, or the signal came between IsRunning() and epoll_wait().
Silent == service = "read" /\ request = None /\ open
Unselectable == main = "waiting" /\ bus = "closed"

Terminates ==
    startup = Len(Startup) /\ ~running ~> (Over \/ [](Silent \/ Unselectable))

=============================================================================
