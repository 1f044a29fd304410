------------------------------ MODULE MCHeartbeat ------------------------------
EXTENDS Heartbeat

CONSTANTS plan, deadline, conflict

WorkAndDeadline == (plan :> "pending_work") @@ (deadline :> "deadlines")
OneConflict     == conflict :> "conflicts"
=============================================================================
