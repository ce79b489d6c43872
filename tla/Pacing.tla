------------------------------- MODULE Pacing -------------------------------
(***************************************************************************)
(* What the rate limit of a mail server promises, without the mails: a     *)
(* batch is counted in one slot when it is taken from the queue, and its   *)
(* messages reach the provider one after the other, later.  A temporary    *)
(* error ends the batch and counts a full window more.                     *)
(*                                                                         *)
(* The detailed queue, MailQueue, implements this specification as long as *)
(* no worker is killed between taking a batch and its first commit.        *)
(***************************************************************************)
EXTENDS RateWindow

CONSTANTS
    Sizes,  \* the batch sizes, in messages
    Keep,   \* how long the vacuum keeps slots
    Hold    \* the most ticks between taking a batch and its last message

ASSUME PacingAssumption ==
    /\ Sizes \subseteq Nat \ {0}
    /\ Keep \in Nat /\ Keep >= Window
    /\ Hold \in Nat /\ Hold < Window

VARIABLES
    now,
    slots,     \* mail.server.rate.slot rows of the server
    lastId,    \* the id of the newest row
    batch,     \* the slot id of the batch being sent, 0 if none
    untried,   \* the messages of the batch not yet given to the provider
    accepted   \* when the provider accepted the messages it still counts

vars == <<now, slots, lastId, batch, untried, accepted>>

Init ==
    /\ now = 0
    /\ slots = {}
    /\ lastId = 0
    /\ batch = 0
    /\ untried = {}
    /\ accepted = <<>>

\* Mutant: the first message of a batch is not counted.
SlotButOne(count) == [id |-> lastId + 1, at |-> now, count |-> count - 1]

\* _rate_limit_consume(count, now)
Slot(count) == [id |-> lastId + 1, at |-> now, count |-> count]

\* Mutant: the batch that empties the window may be one message too large.
RoomForOneMore(n) == n <= Limit - Used(slots, now) + 1 \/ Used(slots, now) = 0

\* A batch fits what is left of the window; a mail that cannot be split is sent
\* whole when the window is empty.
Room(n) == n <= Limit - Used(slots, now) \/ Used(slots, now) = 0

Take(n) ==
    /\ batch = 0
    /\ Room(n)
    /\ slots' = slots \cup {Slot(n)}
    /\ lastId' = lastId + 1
    /\ batch' = lastId + 1
    /\ untried' = 1..n
    /\ UNCHANGED <<now, accepted>>

\* The messages K of the batch reach the provider now.
Deliver(K) ==
    accepted' = [u \in DOMAIN accepted \cup ({batch} \X K) |->
                    IF u \in {batch} \X K THEN now ELSE accepted[u]]

\* The provider accepts some of the messages: they leave the batch.
Accept(K) ==
    /\ batch # 0
    /\ Deliver(K)
    /\ untried' = untried \ K
    /\ UNCHANGED <<now, slots, lastId, batch>>

\* A message that fails, or is not tried because its mail failed or is gone.
Fail(K) ==
    /\ batch # 0
    /\ untried' = untried \ K
    /\ UNCHANGED <<now, slots, lastId, batch, accepted>>

\* A temporary error: a full window is counted and the batch is over.
Refuse ==
    /\ batch # 0
    /\ slots' = slots \cup {Slot(Limit)}
    /\ lastId' = lastId + 1
    /\ batch' = 0
    /\ untried' = {}
    /\ UNCHANGED <<now, accepted>>

\* The batch is done, or its connection is lost while K may have been accepted.
EndBatch(K) ==
    /\ batch # 0
    /\ Deliver(K)
    /\ batch' = 0
    /\ untried' = {}
    /\ UNCHANGED <<now, slots, lastId>>

\* _gc_rate_slots
Vacuum ==
    /\ slots' = {s \in slots : s.at >= now - Keep}
    /\ UNCHANGED <<now, lastId, batch, untried, accepted>>

\* The provider, external: it counts what it accepted in its own window.
Forget(f, time) == [u \in {v \in DOMAIN f : f[v] > time - Window} |-> f[u]]

\* A batch takes at most Hold ticks.
InTime == \A s \in slots : s.id = batch => now < s.at + Hold

Tick ==
    /\ batch # 0 => InTime
    /\ now' = now + 1
    /\ accepted' = Forget(accepted, now + 1)
    /\ UNCHANGED <<slots, lastId, batch, untried>>

Next ==
    \/ \E n \in Sizes : Take(n)
    \/ \E K \in SUBSET untried : Accept(K) \/ Fail(K) \/ EndBatch(K)
    \/ Refuse
    \/ Vacuum
    \/ Tick

Spec == Init /\ [][Next]_vars

-----------------------------------------------------------------------------
TypeOK ==
    /\ now \in Nat
    /\ lastId \in Nat
    /\ slots \subseteq [id : 1..lastId, at : Nat, count : Nat \ {0}]
    /\ batch \in 0..lastId
    /\ untried \subseteq Nat \ {0}
    /\ DOMAIN accepted \subseteq (1..lastId) \X (Nat \ {0})
    /\ \A u \in DOMAIN accepted : accepted[u] \in Nat

\* The messages given to the provider, or about to be, and those of them that
\* were counted in the window ending now.
Units == DOMAIN accepted \cup ({batch} \X untried)

Live == {u \in Units :
            \E s \in InWindow(slots, now) : s.id = u[1]}

\* At most Limit, or all of one mail too large to split.
AtMostLimit(units) ==
    \/ Cardinality(units) <= Limit
    \/ \E i \in 1..lastId : \A u \in units : u[1] = i

\* Whatever was counted in one window and is sent or about to be, stays within
\* the limit: takes of batches, penalties and expiry cannot add up to more
\* (_rate_limit_take, _rate_limit_budget, _rate_limit_consume).
LiveWithinLimit == AtMostLimit(Live)

\* The promise to the provider: in any Window - Hold ticks it accepts at most
\* Limit messages (or one mail that cannot be split).  The window is shorter by
\* Hold because a batch is counted when it is taken and sent later.
ProviderPaced ==
    AtMostLimit({u \in DOMAIN accepted : accepted[u] > now - (Window - Hold)})
-----------------------------------------------------------------------------
(* Why ProviderPaced holds: the inductive invariant. *)

\* One row per id, none in the future, finitely many messages counted.
SlotLog ==
    /\ \A r, s \in slots : r.id = s.id => r = s
    /\ \A s \in slots : s.at <= now
    /\ IsFiniteSet(UNION {Messages(s) : s \in slots})

\* The slot of the batch in progress is at most Hold old.
BatchSlot ==
    batch # 0 => \E s \in slots : s.id = batch /\ now <= s.at + Hold

\* A message given to the provider is one of those its slot counted.
UnitsOfSlots ==
    \A u \in Units : \A s \in slots : s.id = u[1] => u[2] \in 1..s.count

\* It was accepted at most Hold after it was counted, or so long ago that its
\* slot may be gone.
AcceptedAfterCount ==
    \A u \in DOMAIN accepted :
        /\ accepted[u] <= now
        /\ \/ accepted[u] - Hold <= now - Window
           \/ \E s \in slots : s.id = u[1] /\ s.at >= accepted[u] - Hold

IInv ==
    /\ TypeOK
    /\ SlotLog
    /\ BatchSlot
    /\ UnitsOfSlots
    /\ AcceptedAfterCount
    /\ LiveWithinLimit
=============================================================================
