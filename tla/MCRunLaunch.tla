----------------------------- MODULE MCRunLaunch -----------------------------
(***************************************************************************)
(* RunLaunch without its faults, and a history variable that tells the     *)
(* behaviours in which a pause came between a request and its driver apart.*)
(***************************************************************************)
EXTENDS RunLaunch
VARIABLE disturbed

Undisturbed ==
    \/ \E c \in Requests : Cancel(c) \/ Resume(c) \/ Serve(c)
    \/ \E d \in Drivers : Drive(d)

Disturbance == \E c \in Requests : Pause(c)

LaunchInit == Init /\ disturbed = FALSE

LaunchNext == (Undisturbed /\ UNCHANGED disturbed) \/ (Disturbance /\ disturbed' = TRUE)

\* As long as the run was never paused while ready and nothing failed, a run that is made
\* ready is taken up by a driver or leaves that state: a driver about to retire reads the
\* run again under the launch lock and says that it retires (drive_impl), and start_driver
\* spawns another.
DrivenUndisturbed ==
    (status = "ready" /\ ~disturbed) ~>
        (disturbed \/ status # "ready" \/ \E d \in Drivers : pc[d] \in Working)
=============================================================================
