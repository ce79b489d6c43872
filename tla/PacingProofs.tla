---------------------------- MODULE PacingProofs ----------------------------
(***************************************************************************)
(* The promise of the rate limit, for every limit, window, batch size and  *)
(* length of a batch: proofs about module Pacing.                          *)
(***************************************************************************)
EXTENDS Pacing, FiniteSetTheorems, TLAPS

USE DEF TypeOK

-----------------------------------------------------------------------------
(* Counting *)

\* A slot counts as many messages as its count says.
LEMMA MessagesCount ==
    ASSUME NEW s, s.count \in Nat
    PROVE  /\ IsFiniteSet(Messages(s))
           /\ Cardinality(Messages(s)) = s.count
<1>1. IsFiniteSet({s.id}) /\ Cardinality({s.id}) = 1
    BY FS_Singleton
<1>2. IsFiniteSet(1..s.count) /\ Cardinality(1..s.count) = s.count
    BY FS_Interval
<1>3. /\ IsFiniteSet({s.id} \X (1..s.count))
      /\ Cardinality({s.id} \X (1..s.count)) = 1 * s.count
    BY <1>1, <1>2, FS_Product
<1> QED BY <1>3 DEF Messages

\* In a log whose messages are finitely many, the window's are too.
LEMMA CountedFinite ==
    ASSUME NEW log, NEW t, IsFiniteSet(UNION {Messages(s) : s \in log})
    PROVE  /\ IsFiniteSet(Counted(log, t))
           /\ Used(log, t) \in Nat
<1>1. Counted(log, t) \subseteq UNION {Messages(s) : s \in log}
    BY DEF Counted, InWindow
<1> QED BY <1>1, FS_Subset, FS_CardinalityType DEF Used

\* One slot more keeps the log's messages finitely many.
LEMMA AddSlotFinite ==
    ASSUME NEW log, IsFiniteSet(UNION {Messages(s) : s \in log}),
           NEW new, new.count \in Nat
    PROVE  IsFiniteSet(UNION {Messages(s) : s \in log \cup {new}})
<1>1. UNION {Messages(s) : s \in log \cup {new}}
        = (UNION {Messages(s) : s \in log}) \cup Messages(new)
    OBVIOUS
<1>2. IsFiniteSet(Messages(new))
    BY MessagesCount
<1>3. IsFiniteSet((UNION {Messages(s) : s \in log}) \cup Messages(new))
    BY <1>2, FS_Union
<1> QED BY <1>1, <1>3

\* Every live message is one of those counted in the window.
LEMMA LiveIsCounted ==
    ASSUME TypeOK, SlotLog, UnitsOfSlots
    PROVE  /\ Live \subseteq Counted(slots, now)
           /\ IsFiniteSet(Live)
           /\ Cardinality(Live) <= Used(slots, now)
<1>1. ASSUME NEW u \in Live PROVE u \in Counted(slots, now)
    <2>1. PICK s \in InWindow(slots, now) : s.id = u[1]
        BY DEF Live
    <2>2. u \in Nat \X (Nat \ {0})
        <3>1. CASE u \in DOMAIN accepted
            BY <3>1
        <3>2. CASE u \in {batch} \X untried
            <4>1. batch \in Nat /\ untried \subseteq Nat \ {0}
                OBVIOUS
            <4> QED BY <3>2, <4>1
        <3> QED BY <3>1, <3>2 DEF Live, Units
    <2>3. u[2] \in 1..s.count
        BY <2>1 DEF UnitsOfSlots, Live, InWindow
    <2>4. u \in Messages(s)
        BY <2>1, <2>2, <2>3 DEF Messages
    <2> QED BY <2>1, <2>4 DEF Counted
<1>2. IsFiniteSet(Counted(slots, now))
    BY CountedFinite DEF SlotLog
<1> QED BY <1>1, <1>2, FS_Subset DEF Used

\* A set within the limit stays so when messages leave it.
LEMMA FewerWithinLimit ==
    ASSUME NEW S, IsFiniteSet(S), AtMostLimit(S), NEW T \in SUBSET S
    PROVE  AtMostLimit(T)
<1>1. Cardinality(T) <= Cardinality(S) /\ Cardinality(T) \in Nat /\ Cardinality(S) \in Nat
    BY FS_Subset, FS_CardinalityType
<1> QED BY <1>1, RateAssumption DEF AtMostLimit

-----------------------------------------------------------------------------
(* The inductive invariant *)

LEMMA InitIInv == Init => IInv
<1> SUFFICES ASSUME Init PROVE IInv
    OBVIOUS
<1>1. DOMAIN accepted = {}
    BY DEF Init
<1>2. TypeOK
    BY <1>1 DEF Init
<1>3. UNION {Messages(s) : s \in slots} = {}
    BY DEF Init
<1>4. SlotLog /\ BatchSlot /\ UnitsOfSlots /\ AcceptedAfterCount
    BY <1>1, <1>3, FS_EmptySet DEF Init, SlotLog, BatchSlot, UnitsOfSlots, AcceptedAfterCount
<1>5. Live = {}
    BY <1>1 DEF Init, Live, Units, InWindow
<1>6. LiveWithinLimit
    BY <1>5, FS_EmptySet, RateAssumption DEF LiveWithinLimit, AtMostLimit
<1> QED BY <1>2, <1>4, <1>6 DEF IInv

\* Counting one slot more at the present time.
LEMMA AddSlotKeepsLog ==
    ASSUME TypeOK, SlotLog, NEW n \in Nat \ {0},
           slots' = slots \cup {Slot(n)}, lastId' = lastId + 1, now' = now
    PROVE  /\ slots' \subseteq [id : 1..lastId', at : Nat, count : Nat \ {0}]
           /\ SlotLog'
<1>1. Slot(n) = [id |-> lastId + 1, at |-> now, count |-> n]
    BY DEF Slot
<1>2. \A s \in slots : s.id # lastId + 1
    OBVIOUS
<1>3. \A r, s \in slots' : r.id = s.id => r = s
    BY <1>1, <1>2 DEF SlotLog
<1>4. IsFiniteSet(UNION {Messages(s) : s \in slots'})
    BY <1>1, AddSlotFinite DEF SlotLog
<1>5. \A s \in slots' : s.at <= now'
    BY <1>1 DEF SlotLog
<1>6. slots' \subseteq [id : 1..lastId', at : Nat, count : Nat \ {0}]
    BY <1>1
<1> QED BY <1>3, <1>4, <1>5, <1>6 DEF SlotLog

LEMMA TakeIInv ==
    ASSUME IInv, NEW n \in Sizes, Take(n)
    PROVE  IInv'
<1> USE PacingAssumption, RateAssumption DEF IInv
<1>1. n \in Nat \ {0}
    OBVIOUS
<1>2. Slot(n) = [id |-> lastId + 1, at |-> now, count |-> n]
    BY DEF Slot
<1>3. slots' \subseteq [id : 1..lastId', at : Nat, count : Nat \ {0}] /\ SlotLog'
    BY <1>1, AddSlotKeepsLog DEF Take
<1>4. TypeOK'
    BY <1>1, <1>3 DEF Take
<1>5. BatchSlot'
    BY <1>2 DEF Take, BatchSlot
<1>6. UnitsOfSlots'
    <2> SUFFICES ASSUME NEW u \in Units', NEW s \in slots', s.id = u[1]
                 PROVE  u[2] \in 1..s.count
        BY DEF UnitsOfSlots
    <2>1. CASE u \in DOMAIN accepted
        <3>1. u[1] \in 1..lastId
            BY <2>1
        <3>2. s \in slots
            BY <1>2, <3>1 DEF Take
        <3> QED BY <2>1, <3>2 DEF UnitsOfSlots, Units
    <2>2. CASE u \in {lastId + 1} \X (1..n)
        BY <1>2, <2>2 DEF Take
    <2> QED BY <2>1, <2>2 DEF Units, Take
<1>7. AcceptedAfterCount'
    BY DEF Take, AcceptedAfterCount
<1>8. LiveWithinLimit'
    <2> DEFINE new == {lastId + 1} \X (1..n)
    <2>1. Live' \subseteq Live \cup new
        <3> SUFFICES ASSUME NEW u \in Live', u \notin new PROVE u \in Live
            OBVIOUS
        <3>1. u \in DOMAIN accepted
            BY DEF Live, Units, Take
        <3>2. PICK s \in InWindow(slots', now') : s.id = u[1]
            BY DEF Live
        <3>3. s \in InWindow(slots, now)
            BY <1>2, <3>1, <3>2 DEF Take, InWindow
        <3> QED BY <3>1, <3>2, <3>3 DEF Live, Units
    <2>2. /\ Live \subseteq Counted(slots, now)
          /\ IsFiniteSet(Live)
          /\ Cardinality(Live) <= Used(slots, now)
        BY LiveIsCounted
    <2>3. CASE Used(slots, now) = 0
        <3>1. Counted(slots, now) = {}
            BY <2>3, CountedFinite, FS_EmptySet DEF Used, SlotLog
        <3>2. \A u \in Live' : u[1] = lastId + 1
            BY <2>1, <2>2, <3>1
        <3>3. lastId + 1 \in 1..lastId'
            BY DEF Take
        <3> QED BY <3>2, <3>3 DEF LiveWithinLimit, AtMostLimit
    <2>4. CASE n <= Limit - Used(slots, now)
        <3>1. IsFiniteSet(new) /\ Cardinality(new) = n
            BY <1>1, <1>2, MessagesCount DEF Messages
        <3>2. /\ IsFiniteSet(Live \cup new)
              /\ Cardinality(Live \cup new) = Cardinality(Live) + n - Cardinality(Live \cap new)
            BY <2>2, <3>1, FS_Union
        <3>3. /\ Cardinality(Live \cap new) \in Nat
              /\ Cardinality(Live) \in Nat
              /\ Used(slots, now) \in Nat
            BY <2>2, FS_Intersection, FS_CardinalityType, CountedFinite DEF SlotLog
        <3>4. Cardinality(Live') \in Nat /\ Cardinality(Live') <= Cardinality(Live \cup new)
            BY <2>1, <3>2, FS_Subset, FS_CardinalityType
        <3>5. Cardinality(Live \cup new) <= Limit
            BY <1>1, <2>2, <2>4, <3>2, <3>3
        <3>6. Cardinality(Live \cup new) \in Nat
            BY <3>2, FS_CardinalityType
        <3> QED BY <3>4, <3>5, <3>6 DEF LiveWithinLimit, AtMostLimit
    <2> QED BY <2>3, <2>4 DEF Take, Room
<1> QED BY <1>3, <1>4, <1>5, <1>6, <1>7, <1>8

\* Steps that count nothing new and give the provider only counted messages.
LEMMA FewerUnitsIInv ==
    ASSUME IInv, TypeOK', SlotLog', BatchSlot', AcceptedAfterCount',
           slots' \subseteq slots, Units' \subseteq Units, now' >= now, now' \in Nat,
           lastId' = lastId
    PROVE  IInv'
<1> USE RateAssumption DEF IInv
<1>1. UnitsOfSlots'
    BY DEF UnitsOfSlots
<1>2. Live' \subseteq Live
    BY DEF Live, InWindow
<1>3. IsFiniteSet(Live)
    BY LiveIsCounted
<1>4. AtMostLimit(Live')
    BY <1>2, <1>3, FewerWithinLimit DEF LiveWithinLimit
<1>5. LiveWithinLimit'
    BY <1>4 DEF LiveWithinLimit, AtMostLimit
<1> QED BY <1>1, <1>5

\* The provider gets messages of the batch, which goes on or is over.
LEMMA DeliverIInv ==
    ASSUME IInv, NEW K \in SUBSET untried, batch # 0, Deliver(K),
           \/ batch' = batch /\ untried' \subseteq untried
           \/ batch' = 0 /\ untried' = {},
           UNCHANGED <<now, slots, lastId>>
    PROVE  IInv'
<1> USE PacingAssumption, RateAssumption DEF IInv
<1>1. DOMAIN accepted' = DOMAIN accepted \cup ({batch} \X K)
    BY DEF Deliver
<1>2. \A u \in DOMAIN accepted' :
        accepted'[u] = IF u \in {batch} \X K THEN now ELSE accepted[u]
    BY DEF Deliver
<1>3. {batch} \X K \subseteq (1..lastId) \X (Nat \ {0})
    <2>1. batch \in 1..lastId /\ K \subseteq Nat \ {0}
        OBVIOUS
    <2> QED BY <2>1
<1>4. TypeOK'
    <2>1. batch' \in 0..lastId' /\ untried' \subseteq Nat \ {0}
        <3>1. CASE batch' = batch /\ untried' \subseteq untried
            BY <3>1
        <3>2. CASE batch' = 0 /\ untried' = {}
            BY <3>2
        <3> QED BY <3>1, <3>2
    <2>2. DOMAIN accepted' \subseteq (1..lastId') \X (Nat \ {0})
        BY <1>1, <1>3
    <2>3. \A u \in DOMAIN accepted' : accepted'[u] \in Nat
        BY <1>1, <1>2
    <2> QED BY <2>1, <2>2, <2>3
<1>5. SlotLog' /\ BatchSlot'
    BY DEF SlotLog, BatchSlot
<1>6. Units' \subseteq Units
    BY <1>1 DEF Units
<1>7. AcceptedAfterCount'
    <2> SUFFICES ASSUME NEW u \in DOMAIN accepted'
                 PROVE  /\ accepted'[u] <= now
                        /\ \/ accepted'[u] - Hold <= now - Window
                           \/ \E s \in slots : s.id = u[1] /\ s.at >= accepted'[u] - Hold
        BY DEF AcceptedAfterCount
    <2>1. CASE u \in {batch} \X K
        <3>1. PICK s \in slots : s.id = batch /\ now <= s.at + Hold
            BY DEF BatchSlot
        <3>2. accepted'[u] = now /\ u[1] = batch
            BY <1>2, <2>1
        <3>3. s.at >= now - Hold
            BY <3>1
        <3> QED BY <3>1, <3>2, <3>3
    <2>2. CASE u \notin {batch} \X K
        BY <1>1, <1>2, <2>2 DEF AcceptedAfterCount
    <2> QED BY <2>1, <2>2
<1> QED BY <1>4, <1>5, <1>6, <1>7, FewerUnitsIInv

LEMMA RefuseIInv ==
    ASSUME IInv, Refuse
    PROVE  IInv'
<1> USE PacingAssumption, RateAssumption DEF IInv
<1>1. Slot(Limit) = [id |-> lastId + 1, at |-> now, count |-> Limit]
    BY DEF Slot
<1>2. slots' \subseteq [id : 1..lastId', at : Nat, count : Nat \ {0}] /\ SlotLog'
    BY AddSlotKeepsLog DEF Refuse
<1>3. TypeOK'
    BY <1>2 DEF Refuse
<1>4. BatchSlot'
    BY DEF Refuse, BatchSlot
<1>5. Units' = DOMAIN accepted
    BY DEF Refuse, Units
<1>6. \A u \in Units' : u[1] # lastId + 1
    BY <1>5
<1>7. UnitsOfSlots'
    BY <1>1, <1>5, <1>6 DEF UnitsOfSlots, Units, Refuse
<1>8. AcceptedAfterCount'
    BY DEF Refuse, AcceptedAfterCount
<1>9. Live' \subseteq Live
    BY <1>1, <1>5, <1>6 DEF Live, Units, InWindow, Refuse
<1>10. IsFiniteSet(Live)
    BY LiveIsCounted
<1>11. AtMostLimit(Live')
    BY <1>9, <1>10, FewerWithinLimit DEF LiveWithinLimit
<1>12. LiveWithinLimit'
    BY <1>11 DEF LiveWithinLimit, AtMostLimit, Refuse
<1> QED BY <1>2, <1>3, <1>4, <1>7, <1>8, <1>12

LEMMA VacuumIInv ==
    ASSUME IInv, Vacuum
    PROVE  IInv'
<1> USE PacingAssumption, RateAssumption DEF IInv
<1>1. slots' \subseteq slots /\ \A s \in slots : s \in slots' <=> s.at >= now - Keep
    BY DEF Vacuum
<1>2. TypeOK'
    BY <1>1 DEF Vacuum
<1>3. UNION {Messages(s) : s \in slots'} \subseteq UNION {Messages(s) : s \in slots}
    BY <1>1
<1>4. SlotLog'
    BY <1>1, <1>3, FS_Subset DEF Vacuum, SlotLog
<1>5. BatchSlot'
    BY <1>1 DEF Vacuum, BatchSlot
<1>6. Units' \subseteq Units
    BY DEF Units, Vacuum
<1>7. AcceptedAfterCount'
    <2> SUFFICES ASSUME NEW u \in DOMAIN accepted, accepted[u] - Hold > now - Window
                 PROVE  \E s \in slots' : s.id = u[1] /\ s.at >= accepted[u] - Hold
        BY DEF AcceptedAfterCount, Vacuum
    <2>1. PICK s \in slots : s.id = u[1] /\ s.at >= accepted[u] - Hold
        BY DEF AcceptedAfterCount
    <2>2. s.at >= now - Keep
        BY <2>1
    <2> QED BY <1>1, <2>1, <2>2
<1> QED BY <1>1, <1>2, <1>4, <1>5, <1>6, <1>7, FewerUnitsIInv DEF Vacuum

LEMMA TickIInv ==
    ASSUME IInv, Tick
    PROVE  IInv'
<1> USE PacingAssumption, RateAssumption DEF IInv
<1>1. /\ DOMAIN accepted' \subseteq DOMAIN accepted
      /\ \A u \in DOMAIN accepted' : accepted'[u] = accepted[u]
    BY DEF Tick, Forget
<1>2. TypeOK'
    BY <1>1 DEF Tick
<1>3. SlotLog'
    BY DEF Tick, SlotLog
<1>4. BatchSlot'
    <2> SUFFICES ASSUME batch # 0
                 PROVE  \E s \in slots : s.id = batch /\ now + 1 <= s.at + Hold
        BY DEF BatchSlot, Tick
    <2>1. PICK s \in slots : s.id = batch
        BY DEF BatchSlot
    <2>2. now < s.at + Hold
        BY <2>1 DEF Tick, InTime
    <2>3. now + 1 <= s.at + Hold
        BY <2>2
    <2> QED BY <2>1, <2>3
<1>5. Units' \subseteq Units
    BY <1>1 DEF Units, Tick
<1>6. AcceptedAfterCount'
    <2> SUFFICES ASSUME NEW u \in DOMAIN accepted'
                 PROVE  /\ accepted[u] <= now + 1
                        /\ \/ accepted[u] - Hold <= now + 1 - Window
                           \/ \E s \in slots : s.id = u[1] /\ s.at >= accepted[u] - Hold
        BY <1>1 DEF AcceptedAfterCount, Tick
    <2>1. u \in DOMAIN accepted /\ accepted[u] \in Nat
        BY <1>1
    <2>2. accepted[u] <= now + 1
        BY <2>1 DEF AcceptedAfterCount
    <2>3. \/ accepted[u] - Hold <= now + 1 - Window
          \/ \E s \in slots : s.id = u[1] /\ s.at >= accepted[u] - Hold
        BY <2>1 DEF AcceptedAfterCount
    <2> QED BY <2>2, <2>3
<1> QED BY <1>2, <1>3, <1>4, <1>5, <1>6, FewerUnitsIInv DEF Tick

LEMMA NextIInv == IInv /\ [Next]_vars => IInv'
<1> SUFFICES ASSUME IInv, [Next]_vars PROVE IInv'
    OBVIOUS
<1>1. CASE \E n \in Sizes : Take(n)
    BY <1>1, TakeIInv
<1>2. CASE \E K \in SUBSET untried : Accept(K)
    BY <1>2, DeliverIInv DEF Accept
<1>3. CASE \E K \in SUBSET untried : Fail(K)
    <2>1. TypeOK'
        BY <1>3 DEF Fail, IInv
    <2>2. SlotLog' /\ BatchSlot' /\ AcceptedAfterCount' /\ Units' \subseteq Units
        BY <1>3 DEF Fail, IInv, SlotLog, BatchSlot, AcceptedAfterCount, Units
    <2> QED BY <1>3, <2>1, <2>2, FewerUnitsIInv DEF Fail, IInv
<1>4. CASE Refuse
    BY <1>4, RefuseIInv
<1>5. CASE \E K \in SUBSET untried : EndBatch(K)
    BY <1>5, DeliverIInv DEF EndBatch
<1>6. CASE Vacuum
    BY <1>6, VacuumIInv
<1>7. CASE Tick
    BY <1>7, TickIInv
<1>8. CASE UNCHANGED vars
    BY <1>8 DEF vars, IInv, SlotLog, BatchSlot, UnitsOfSlots, Units, AcceptedAfterCount,
                LiveWithinLimit, AtMostLimit, Live, InWindow
<1> QED BY <1>1, <1>2, <1>3, <1>4, <1>5, <1>6, <1>7, <1>8 DEF Next

\* The provider's own window, Hold ticks shorter, is within the live messages.
LEMMA IInvProviderPaced == IInv => ProviderPaced
<1> SUFFICES ASSUME IInv PROVE ProviderPaced
    OBVIOUS
<1> USE PacingAssumption, RateAssumption DEF IInv
<1> DEFINE recent == {u \in DOMAIN accepted : accepted[u] > now - (Window - Hold)}
<1>1. ASSUME NEW u \in recent PROVE u \in Live
    <2>1. accepted[u] \in Nat /\ accepted[u] - Hold > now - Window
        OBVIOUS
    <2>2. PICK s \in slots : s.id = u[1] /\ s.at >= accepted[u] - Hold
        BY <2>1 DEF AcceptedAfterCount
    <2>3. s \in InWindow(slots, now)
        BY <2>1, <2>2 DEF InWindow
    <2> QED BY <2>2, <2>3 DEF Live, Units
<1>2. IsFiniteSet(Live)
    BY LiveIsCounted
<1>3. AtMostLimit(recent)
    BY <1>1, <1>2, FewerWithinLimit DEF LiveWithinLimit
<1> QED BY <1>3 DEF ProviderPaced

-----------------------------------------------------------------------------
(* The theorems *)

LEMMA Invariance == Spec => []IInv
BY InitIInv, NextIInv, PTL DEF Spec

\* Every value keeps its type, for any number of slots, batches and messages.
THEOREM TypeCorrect == Spec => []TypeOK
<1>1. IInv => TypeOK
    BY DEF IInv
<1> QED BY Invariance, <1>1, PTL

\* What was counted in one window and is sent or about to be never exceeds the
\* limit, whatever the order of takes, temporary errors, expiry and vacuuming.
THEOREM LivePaced == Spec => []LiveWithinLimit
<1>1. IInv => LiveWithinLimit
    BY DEF IInv
<1> QED BY Invariance, <1>1, PTL

\* The provider never accepts more than the limit (or one mail that cannot be
\* split) in Window - Hold ticks, for every limit, window and duration of a batch.
THEOREM ProviderIsPaced == Spec => []ProviderPaced
BY Invariance, IInvProviderPaced, PTL
=============================================================================
