---------------------------- MODULE MCOperations ----------------------------
(***************************************************************************)
(* Two programs that watch over captures and share nothing, checked by one  *)
(* run: the host supervisor, and the alerts of a failed capture.  A         *)
(* behaviour is one of them while the other rests in one initial state.     *)
(***************************************************************************)
EXTENDS ContinuousSupervisor, CaptureAlerts

VARIABLE program

operationsVars == <<program, vars, alertVars>>

OperationsInit ==
    /\ program \in {"supervisor", "alerts"}
    /\ Init
    /\ AlertsInit /\ (program # "alerts" => url)

OperationsNext ==
    /\ \/ program = "supervisor" /\ Next /\ UNCHANGED alertVars
       \/ program = "alerts" /\ AlertsNext /\ UNCHANGED vars
    /\ UNCHANGED program

\* systemd schedules the supervisor and docker answers it; a timer keeps starting
\* the checker, which comes to its end, and of the POSTs it repeats the receiver
\* answers one.  Nobody promises signals, faults or the container's own steps.
OperationsSpec ==
    /\ OperationsInit /\ [][OperationsNext]_operationsVars
    /\ WF_vars(program = "supervisor" /\ (Run \/ Cleanup))
    /\ WF_alertVars(program = "alerts" /\ CheckerStep)
    /\ SF_alertVars(program = "alerts" /\ PostAnswered("checker"))
=============================================================================
