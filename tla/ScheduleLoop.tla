---------------------------- MODULE ScheduleLoop ----------------------------
(***************************************************************************)
(* rate_window.schedule() (lib/rate_window.py:40-63) run step by step: one *)
(* step per turn of its while loop and one per message it places.  The     *)
(* slots and the costs are chosen once, at the start; they are any slots   *)
(* the log can hold, also more than Limit in one window (a temporary error *)
(* counts a full window on top of what the batch was counted as).          *)
(***************************************************************************)
EXTENDS RateWindow

CONSTANTS
    SlotLogs,   \* the slot logs tried: a set of sets of slots
    CostLists,  \* the message costs tried: a set of sequences
    Start       \* `now', the time schedule() is called at

ASSUME ScheduleAssumption ==
    /\ Start \in Nat
    /\ \A log \in SlotLogs : IsFiniteSet(log) /\ log \subseteq [id : Nat, at : Nat, count : Nat]
    /\ CostLists \subseteq Seq(Int)

VARIABLES
    logged,     \* the argument slots
    costs,      \* the argument costs
    events,     \* the slots in the window and the messages placed so far
    clock,      \* t, the time the loop has reached
    given       \* times, the result so far

scheduleVars == <<logged, costs, events, clock, given>>

\* The next message to place, and its clipped cost.
Turn == Len(given) + 1
ToPlace == Clipped(costs[Turn])
Fits == Used(events, clock) + ToPlace <= Limit

ScheduleInit ==
    /\ logged \in SlotLogs
    /\ costs \in CostLists
    /\ events = InWindow(logged, Start)
    /\ clock = Start
    /\ given = <<>>

\* Mutant: the wait ends one tick before the slot has left the window.
WaitTooShort ==
    /\ Turn <= Len(costs)
    /\ ~Fits
    /\ InWindow(events, clock) # {}
    /\ clock' = NextRoom(events, clock) - Margin - 1
    /\ UNCHANGED <<logged, costs, events, given>>

\* Mutant: the wait goes past the newest active slot instead of the oldest.
WaitForNewest ==
    /\ Turn <= Len(costs)
    /\ ~Fits
    /\ InWindow(events, clock) # {}
    /\ clock' = Max({s.at : s \in InWindow(events, clock)}) + Window + Margin
    /\ UNCHANGED <<logged, costs, events, given>>

\* while used(...) + cost > limit: wait for the oldest active slot to leave.
\* min() of nothing would raise: the step is disabled there.
Wait ==
    /\ Turn <= Len(costs)
    /\ ~Fits
    /\ InWindow(events, clock) # {}
    /\ clock' = NextRoom(events, clock)
    /\ UNCHANGED <<logged, costs, events, given>>

\* Mutant: placed messages are not counted for the ones after them.
PlaceUncounted ==
    /\ Turn <= Len(costs)
    /\ Fits
    /\ UNCHANGED <<logged, costs, clock, events>>
    /\ given' = Append(given, clock)

\* events.append((t, cost)); times.append(t)
Place ==
    /\ Turn <= Len(costs)
    /\ Fits
    /\ events' = events \cup {Planned(Turn, clock, ToPlace)}
    /\ given' = Append(given, clock)
    /\ UNCHANGED <<logged, costs, clock>>

ScheduleNext == Wait \/ Place

ScheduleSpec == ScheduleInit /\ [][ScheduleNext]_scheduleVars /\ WF_scheduleVars(ScheduleNext)

Done == Len(given) = Len(costs)

-----------------------------------------------------------------------------
\* No window that ends when a planned message is sent holds more than Limit,
\* counting the messages already in the log and every other planned one: what
\* the docstring of schedule() promises for any list of slots.
PlannedWithinLimit ==
    LET sent == logged \cup {Planned(j, given[j], Clipped(costs[j])) : j \in DOMAIN given}
    IN  \A k \in DOMAIN given :
            Used({s \in sent : s.at <= given[k]}, given[k]) <= Limit

\* First in, first out, and nothing is planned in the past.
FirstInFirstOut ==
    /\ \A k \in DOMAIN given : given[k] >= Start
    /\ \A j, k \in DOMAIN given : j < k => given[j] <= given[k]

\* A message that waits does so only because it does not fit earlier: one tick
\* before the slot it waits for leaves the window, there is no room for it.
\* (The wait may be longer than needed by the margin, never by more.)
NoNeedlessWait ==
    \A k \in DOMAIN given :
        LET earlier == IF k = 1 THEN Start ELSE given[k - 1]
            ahead   == {e \in events : e.id > -k}
        IN  given[k] > earlier =>
                Used(ahead, given[k] - Margin - 1) + Clipped(costs[k]) > Limit

\* What the docstring of schedule() promises: as many messages per window as the
\* limit allows, in order, and no message later than it has to be.
PlanKeepsItsPromise == PlannedWithinLimit /\ FirstInFirstOut /\ NoNeedlessWait

\* The step-by-step loop computes what the function Schedule does, which the
\* queue model uses.
LoopComputesSchedule == Done => given = Schedule(logged, costs, Start)

\* The loop ends for every log and every list of costs: it never waits for a
\* slot when none is left, and never forever.
Terminates == <>Done
=============================================================================
