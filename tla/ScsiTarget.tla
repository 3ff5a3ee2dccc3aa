----------------------------- MODULE ScsiTarget -----------------------------
(***************************************************************************)
(* What a SCSI target promises an initiator that has selected it, without  *)
(* the commands, the data and the bus lines: every command is answered by  *)
(* one status byte and then by one completion message; the message says    *)
(* whether another command follows on the same selection; and the bus is   *)
(* given back after that message or because of a bus reset, and never in   *)
(* the middle of a command.  Controller implements this specification (see *)
(* TargetRefinement).                                                      *)
(***************************************************************************)

Stages == {"free", "selected", "command", "data", "status", "completion"}

VARIABLES
    stage,   \* how far the command has got
    taken,   \* the status or message byte of this stage has been taken
    more,    \* the completion message announces another command
    reset    \* the bus is being reset, which this specification leaves open

targetVars == <<stage, taken, more, reset>>

TargetTypeOK ==
    /\ stage \in Stages
    /\ taken \in BOOLEAN
    /\ more \in BOOLEAN
    /\ reset \in BOOLEAN

TargetInit ==
    /\ stage = "free"
    /\ taken = FALSE
    /\ more = FALSE
    /\ reset = FALSE

Enter(s) ==
    /\ stage' = s
    /\ taken' = FALSE
    /\ more' = FALSE

Connect == stage = "free" /\ Enter("selected")

AwaitCommand == stage = "selected" /\ Enter("command")

TransferData == stage = "command" /\ Enter("data")

Report == stage \in {"command", "data"} /\ Enter("status")

Take ==
    /\ stage \in {"status", "completion"}
    /\ ~taken
    /\ taken' = TRUE
    /\ UNCHANGED <<stage, more>>

Complete ==
    /\ stage = "status" /\ taken
    /\ stage' = "completion"
    /\ taken' = FALSE
    /\ more' \in BOOLEAN

ContinueChain ==
    /\ stage = "completion" /\ taken /\ more
    /\ Enter("command")

ReleaseBus ==
    /\ stage = "completion" /\ taken /\ ~more
    /\ Enter("free")

Abandon == (reset \/ reset') /\ Enter("free")

TargetNext ==
    /\ reset' \in BOOLEAN
    /\ \/ Connect
       \/ AwaitCommand
       \/ TransferData
       \/ Report
       \/ Take
       \/ Complete
       \/ ContinueChain
       \/ ReleaseBus
       \/ Abandon
       \/ UNCHANGED <<stage, taken, more>>

TargetSpec == TargetInit /\ [][TargetNext]_targetVars
=============================================================================
