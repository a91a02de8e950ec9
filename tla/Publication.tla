---------------------------- MODULE Publication -----------------------------
(* What the deployments of one project promise to its readers: at most one   *)
(* is published, only the newest one ever becomes it, and a publication that *)
(* was withdrawn or replaced never comes back.                               *)
EXTENDS Naturals

VARIABLES
    issued,     \* the number of deployments issued; they are 1 .. issued
    current     \* the published deployment, or 0

vars == <<issued, current>>

Init == issued = 0 /\ current = 0

Issue == issued' = issued + 1 /\ UNCHANGED current

Withdraw == current # 0 /\ current' = 0 /\ UNCHANGED issued

Publish == current = 0 /\ issued # 0 /\ current' = issued /\ UNCHANGED issued

Next == Issue \/ Withdraw \/ Publish

Spec == Init /\ [][Next]_vars
=============================================================================
