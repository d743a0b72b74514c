----------------------------- MODULE MCEdgeServer ------------------------------
(* The edge service for TLC: its alert routes and its batch and lag routes.   *)
(* The two share no state, so that every behaviour of the service is one of   *)
(* each side by side; TLC looks at one while the other is at rest.            *)
EXTENDS EdgeAlerts, EdgeBackpressure

ServerInit == Init /\ LagInit
ServerNext ==
    \/ LagInit /\ Next /\ UNCHANGED lagVars
    \/ Init /\ LagNext /\ UNCHANGED vars

ServerSpec == ServerInit /\ [][ServerNext]_<<vars, lagVars>>

FairServerSpec == ServerSpec /\ \A t \in Threads : WF_vars(Handle(t))
================================================================================
