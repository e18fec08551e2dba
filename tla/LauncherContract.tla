-------------------------- MODULE LauncherContract --------------------------
(***************************************************************************)
(* What a launcher may rely on when it runs pia-wg-config in constrained    *)
(* mode, seen only through the two output pipes and the exit status.        *)
(* ConstrainedRunner implements this specification.                         *)
(*                                                                          *)
(*   - the config pipe only fills up; it is complete before a success       *)
(*     record is readable, and never changes after one;                     *)
(*   - at most one record ever appears in the result pipe;                  *)
(*   - the process exits 0 only behind a success record;                    *)
(*   - nothing is written after the exit, and the exit comes.               *)
(***************************************************************************)
EXTENDS Sequences

VARIABLES configPipe, resultPipe, status

contract == <<configPipe, resultPipe, status>>

Init ==
    /\ configPipe = "empty"
    /\ resultPipe = <<>>
    /\ status = "running"

Filled == [empty |-> {"partial", "full"}, partial |-> {"full"}, full |-> {}]

\* A configuration that is late may still arrive behind a failure record.
FillConfig ==
    /\ status = "running"
    /\ resultPipe # <<"success">>
    /\ configPipe' \in Filled[configPipe]
    /\ UNCHANGED <<resultPipe, status>>

Succeed ==
    /\ status = "running"
    /\ configPipe = "full"
    /\ resultPipe = <<>>
    /\ resultPipe' = <<"success">>
    /\ UNCHANGED <<configPipe, status>>

Report ==
    /\ status = "running"
    /\ resultPipe = <<>>
    /\ resultPipe' = <<"failure">>
    /\ UNCHANGED <<configPipe, status>>

ExitSuccess ==
    /\ status = "running"
    /\ resultPipe = <<"success">>
    /\ status' = "succeeded"
    /\ UNCHANGED <<configPipe, resultPipe>>

\* The result pipe may be empty (it could not be written), hold the failure
\* record, or hold a success record that was written too late to count.
ExitFailure ==
    /\ status = "running"
    /\ status' = "failed"
    /\ UNCHANGED <<configPipe, resultPipe>>

Next == FillConfig \/ Succeed \/ Report \/ ExitSuccess \/ ExitFailure

Spec == Init /\ [][Next]_contract
FairSpec == Spec /\ WF_contract(ExitSuccess \/ ExitFailure)
=============================================================================
