----------------------------- MODULE RateWindow -----------------------------
(***************************************************************************)
(* The sliding-window arithmetic of mail_server_rate_limit                 *)
(* (lib/rate_window.py) for one rate-limited mail server.                  *)
(*                                                                         *)
(* A slot says that `count' messages were counted against the server at    *)
(* time `at'.  The sum of the counts in a window is written as the         *)
(* cardinality of the set of counted messages, <<slot id, 1..count>>,      *)
(* which is the same number and can be reasoned about as a set.            *)
(* Times are clock ticks; Window and Margin are given in the same ticks.   *)
(***************************************************************************)
EXTENDS Integers, Sequences, FiniteSets, FiniteSetsExt

CONSTANTS
    Limit,    \* rate_limit_count: the most messages per window
    Window,   \* rate_limit_minutes: the length of the sliding window
    Margin    \* MARGIN: a deferred mail waits this long after a slot has left

\* _check_rate_limit (ir_mail_server.py:48-54) and _rate_limit_active.
ASSUME RateAssumption ==
    /\ Limit \in Nat \ {0}
    /\ Window \in Nat \ {0}
    /\ Margin \in Nat

\* Mutant: a slot leaves one tick early.
LeavesEarly(slots, t) == {s \in slots : s.at - 1 > t - Window}

\* The slots that still count at time t: a slot leaves at exactly at + Window.
InWindow(slots, t) == {s \in slots : s.at > t - Window}

\* The messages of a slot, and the messages counted in the window ending at t.
Messages(s) == {s.id} \X (1..s.count)
Counted(slots, t) == UNION {Messages(s) : s \in InWindow(slots, t)}

Used(slots, t) == Cardinality(Counted(slots, t))

\* A cost above the limit waits for an empty window, where it is split.
Clipped(cost) == IF cost < 1 THEN 1 ELSE IF cost > Limit THEN Limit ELSE cost

\* When the oldest slot still in the window at t has left it, plus the margin.
NextRoom(slots, t) == Min({s.at : s \in InWindow(slots, t)}) + Window + Margin

\* A planned message: schedule() counts what it has placed like a slot of its
\* own.  Negative ids keep these apart from the rows of the slot table.
Planned(k, t, cost) == [id |-> -k, at |-> t, count |-> cost]

\* schedule(): one time per cost, first in line first.  A message that does not
\* fit at the time reached waits for the oldest slot to leave the window.
Schedule(slots, costs, now) ==
    LET Place[l \in [events : SUBSET [id : Int, at : Nat, count : Nat], t : Nat, times : Seq(Nat)]] ==
            LET k    == Len(l.times) + 1
                cost == Clipped(costs[k])
            IN  IF k > Len(costs)
                THEN l.times
                ELSE IF Used(l.events, l.t) + cost <= Limit
                THEN Place[[events |-> l.events \cup {Planned(k, l.t, cost)},
                            t      |-> l.t,
                            times  |-> Append(l.times, l.t)]]
                ELSE Place[[l EXCEPT !.t = NextRoom(l.events, l.t)]]
    IN  Place[[events |-> InWindow(slots, now), t |-> now, times |-> <<>>]]
=============================================================================
