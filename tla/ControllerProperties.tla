------------------------ MODULE ControllerProperties ------------------------
(***************************************************************************)
(* What makes the controller correct, as far as it can be said without     *)
(* history: state invariants, action properties and the liveness of the    *)
(* bus.                                                                    *)
(***************************************************************************)
EXTENDS Controller

\* The lines tell the initiator the phase the handler is in: Send() and
\* Receive() assert it for I/O. A phase can be entered from many handlers,
\* also from inside of another phase, and after BusFree().
LinesMatchPhase ==
    /\ line.msg <=> phase \in {"MSG_IN", "MSG_OUT"}
    /\ line.cd <=> phase \in {"COMMAND", "STATUS", "MSG_IN", "MSG_OUT"}
    /\ line.io <=> phase \in SendPhases

\* A single transfer never exceeds what remains of the data, so that the
\* assertion of UpdateTransferLength() holds for any sequence of commands and
\* for the sizes a previous command has left behind.
TransferConsistent == xfer.chunk <= xfer.remaining

\* TransferToHost() and TransferFromHost() dereference the unit of the CDB: when
\* they are called the unit exists, whatever the phases did to the nexus. This
\* does not hold for REQUEST SENSE: see Crashed.
NoMissingDevice ==
    \/ phase = "DATA_OUT"
    \/ phase = "DATA_IN" /\ xfer.remaining > xfer.chunk /\ cdb.op # "REQUEST_SENSE"
    => EffectiveLun(cdb) \in Luns

\* Data are transferred for a unit only while it is not reserved for another
\* initiator, apart from the commands that CheckReservation() exempts.
ReservationRespected ==
    phase \in DataPhases /\ cdb.op \notin ExemptOps
    => device[ExecutingLun(cdb)].holder \in {NotReserved, initiator}

\* A reservation never passes from one initiator to another: it has to be
\* given up first, by RELEASE, by a bus reset or by BUS DEVICE RESET.
ReservationNotTaken ==
    [][\A l \in Luns : device'[l].holder \in
            {device[l].holder, NotReserved} \/ device[l].holder = NotReserved]_vars

\* A medium leaves its unit against the lock of PREVENT only by request of the
\* remote interface, and a unit that is reserved is not touched by others.
MediumProtected ==
    [][\A l \in Luns : device[l].ready /\ ~device'[l].ready /\ phase # "BUS_FREE"
            => /\ ~device[l].locked
               /\ device[l].holder \in {NotReserved, initiator}]_vars

\* With a free bus nothing is left of the nexus: the LUN of an IDENTIFY message
\* is never used for a later selection.
NexusCleared ==
    phase \in {"BUS_FREE", "SELECTION"} => msg.lun = NoLun /\ ~msg.atn

\* TransferToHost() for a unit that does not exist: ProvideSenseData() does not
\* reset the transfer sizes that an aborted READ has left behind, and the sense
\* data are followed by a transfer from the missing unit.
Crashed == phase = "DATA_IN" /\ xfer.current = 0 /\ xfer.remaining > xfer.chunk
           /\ EffectiveLun(cdb) \notin Luns

\* Every selection ends with a free bus, unless commands are linked: neither a
\* silent initiator nor an error keeps the target on the bus, unless it crashes.
BusReleased ==
    phase # "BUS_FREE" ~> phase = "BUS_FREE" \/ link.linked \/ Crashed

=============================================================================
