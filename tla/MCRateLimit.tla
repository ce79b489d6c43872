---------------------------- MODULE MCRateLimit ----------------------------
(* Small instance of the rate limit: Pacing, with a bounded clock and       *)
(* number of slots, and ScheduleLoop, on logs of up to three slots of the   *)
(* last window and one tick more, and up to three messages.  They share no  *)
(* variable, and are followed one at a time.                                *)
EXTENDS Pacing, ScheduleLoop

CONSTANTS MaxTime, MaxSlots, MaxLogged, MaxCosts

\* Rows are created as time passes: a later row is not older.
InOrder(f) == \A i, j \in DOMAIN f : i < j => f[i][1] <= f[j][1]

MCSlotLogs ==
    {{[id |-> i, at |-> f[i][1], count |-> f[i][2]] : i \in DOMAIN f} :
        f \in {g \in UNION {[1..n -> (0..Start) \X (1..Limit)] : n \in 0..MaxLogged} :
                InOrder(g)}}

MCCostLists == UNION {[1..n -> 0..(Limit + 1)] : n \in 0..MaxCosts}

\* Where nothing is to be planned, the server sends.
Nothing == logged = {} /\ costs = <<>>

MCInit == Init /\ ScheduleInit

MCNext ==
    \/ Nothing /\ Next /\ UNCHANGED scheduleVars
    \/ ScheduleNext /\ UNCHANGED vars

MCSpec == MCInit /\ [][MCNext]_<<vars, scheduleVars>> /\ WF_scheduleVars(ScheduleNext)

Bounded == now <= MaxTime /\ lastId <= MaxSlots
=============================================================================
