-------------------------- MODULE TargetRefinement --------------------------
(* Controller implements ScsiTarget.                                       *)
EXTENDS ControllerProperties

\* REQUEST SENSE of length 0 for a missing unit ends without a status byte:
\* DataIn() calls Status(), which Error() has called before.
ASSUME TargetAssumption ==
    \A c \in Commands : c.op = "REQUEST_SENSE" => c.length > 0

Stage == CASE phase = "BUS_FREE" -> "free"
           [] phase \in {"SELECTION", "MSG_OUT"} -> "selected"
           [] phase = "COMMAND" -> "command"
           [] phase \in DataPhases -> "data"
           [] phase = "STATUS" -> "status"
           [] phase = "MSG_IN" -> "completion"

\* A byte has been taken when the current length is 0 again.
Taken == phase \in {"STATUS", "MSG_IN"} /\ xfer.current = 0

Announced == phase = "MSG_IN" /\ reply \in {"LINKED_COMMAND_COMPLETE",
                                            "LINKED_COMMAND_COMPLETE_WITH_FLAG"}

Target == INSTANCE ScsiTarget WITH stage <- Stage, taken <- Taken,
                                   more <- Announced, reset <- RST

\* Every command is answered by one status byte and one completion message in
\* this order, the message tells truly whether the target awaits a linked
\* command, and the bus is released only after it or because of a bus reset.
ImplementsTarget == Target!TargetSpec
=============================================================================
