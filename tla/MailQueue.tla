----------------------------- MODULE MailQueue ------------------------------
(***************************************************************************)
(* The mail queue of Odoo with the rate limit of one outgoing mail server  *)
(* (mail_server_rate_limit): the queue cron ("the runner") that takes what *)
(* fits the window, splits and defers the rest, the SMTP session and its   *)
(* answers, and the users who post, retry, cancel and delete mails while   *)
(* it runs.  Odoo's own part (the selection of due mails, the sending loop *)
(* of _send, the cron's triggers, commits) is modelled from how the module *)
(* hooks into it and named external in the map.                            *)
(***************************************************************************)
EXTENDS RateWindow, SequencesExt, TLC

CONSTANTS
    Partners,    \* res.partner recipients
    Addresses,   \* To/Cc addresses
    Letters,     \* what can be posted: [to, cc, notif, autodel]
    Outcomes,    \* the answers of the mail server that are considered
    RetryAfter,  \* rate_limit_retry_minutes
    RetryMax,    \* rate_limit_retry_max
    Hold,        \* the most ticks a batch takes
    Late,        \* the most ticks a due trigger waits while the runner is idle
    MaxPosts, LastPost, MaxMails, MaxTime,  \* bounds: letters, until when, rows, clock
    MaxManual, MaxCrashes                   \* bounds: actions of users, killed workers

ASSUME QueueAssumption ==
    /\ Partners \cap Addresses = {}
    /\ IsFiniteSet(Partners \cup Addresses)
    /\ \A l \in Letters : l.to \subseteq Partners /\ l.cc \subseteq Addresses /\ l.notif \in BOOLEAN
    /\ {MaxPosts, MaxMails, MaxTime} \subseteq Nat
    /\ Outcomes \subseteq {"accept", "invalid", "temporary", "permanent", "drop", "no connection"}
    /\ RetryAfter \in Nat \ {0}
    /\ RetryMax \in Nat
    /\ Hold \in Nat /\ Hold < Window
    /\ Late \in Nat \ {0}

Mails == 1..MaxMails
Posts == 1..MaxPosts
Recipients == Partners \cup Addresses

VARIABLES
    now,
    mail,       \* mail.mail rows
    made,       \* how many rows were ever created: the newest id
    messages,   \* the mail.message rows that exist, by post
    slots,      \* mail.server.rate.slot rows
    lastId,     \* the newest slot id
    triggers,   \* ir.cron.trigger dates of the queue cron
    run,        \* the runner: its phase, batch and the mail it is sending
    saved,      \* the database as of the runner's last commit
    letters,    \* the letters posted so far; post p is letters[p]
    manual,     \* actions of users and killed workers so far (bounds)
    crashes,
    \* what happened, for the properties
    accepted,   \* the provider's own window: <<slot id, message>> -> time
    got,        \* copies accepted, by post and recipient
    cutOff,     \* sends that ended with reached recipients still on the mail
    givenUp     \* <<post, recipient>>: invalid, or its mail deleted by a user

tables == <<mail, messages, slots, triggers>>
ids == <<made, lastId>>
queue == <<tables, ids>>
history == <<accepted, got, cutOff, givenUp>>
bounds == <<letters, manual, crashes>>
vars == <<now, queue, run, saved, bounds, history>>

-----------------------------------------------------------------------------
(* Rows *)

NoMail == [state |-> "none", to |-> {}, cc |-> {}, retries |-> 0, sched |-> 0,
           msg |-> 0, notif |-> FALSE, autodel |-> FALSE]

Exists(m) == mail[m].state # "none"

Idle == [phase |-> "idle", batch |-> 0, credit |-> 0, pending |-> <<>>,
         cur |-> 0, cc |-> {}, to |-> {}, reached |-> {}, invalid |-> FALSE]

\* The ids come from database sequences, which no rollback takes back.
Database == [mail |-> mail, messages |-> messages, slots |-> slots, triggers |-> triggers]

\* The runner's transaction ends with the job; before that, a commit keeps the
\* triggers the job was started for, which only go when the job is done.
Commit == saved' = Database'
CommitDuringJob == saved' = [Database' EXCEPT !.triggers = triggers' \cup saved.triggers]

\* Another transaction commits: the runner's rollback keeps what it wrote.
CommitUser(mails) ==
    saved' = [saved EXCEPT !.mail = [m \in Mails |-> IF m \in mails THEN mail'[m] ELSE @[m]],
                           !.messages = messages',
                           !.triggers = @ \cup (triggers' \ triggers)]

\* Rows the runner has written since its last commit, or is about to write in
\* the same transaction, are locked for everyone else.
Locked(m) ==
    \/ mail[m] # saved.mail[m]
    \/ m = run.cur
    \/ run.phase = "connect" /\ m \in ToSet(run.pending)

SameMessage(m) == {x \in Mails : Exists(x) /\ mail[x].msg = mail[m].msg}

-----------------------------------------------------------------------------
(* Pacing: ir_mail_server.py and _rate_limit_take *)

\* One message per recipient address, at least one.
Cost(table, m) ==
    LET n == Cardinality(table[m].to) + Cardinality(table[m].cc)
    IN  IF n = 0 THEN 1 ELSE n

Budget == Limit - Used(slots, now)

\* _rate_limit_consume: nothing is logged for a count of zero.
Consumed(count) ==
    IF count > 0 THEN slots \cup {[id |-> lastId + 1, at |-> now, count |-> count]} ELSE slots
NextSlot(count) == IF count > 0 THEN lastId + 1 ELSE lastId

\* _rate_limit_defer: when each mail of the line is sent, given the slot log.
DeferTimes(log, table, line) ==
    Schedule(log, [k \in DOMAIN line |-> Cost(table, line[k])], now)

\* Mutant: the deferred mails are left to the cron's own interval.
DeferAsleep(log, table, line) ==
    LET times == DeferTimes(log, table, line)
    IN  [table |-> [m \in Mails |-> IF m \in ToSet(line)
                        THEN [table[m] EXCEPT !.sched = times[CHOOSE k \in DOMAIN line : line[k] = m]]
                        ELSE table[m]],
         wakes |-> {}]

\* The mails with their scheduled dates, and the dates the cron is woken at.
Defer(log, table, line) ==
    LET times == DeferTimes(log, table, line)
    IN  [table |-> [m \in Mails |-> IF m \in ToSet(line)
                        THEN [table[m] EXCEPT !.sched = times[CHOOSE k \in DOMAIN line : line[k] = m]]
                        ELSE table[m]],
         wakes |-> {times[k] : k \in DOMAIN line}]

Due == {m \in Mails : mail[m].state = "outgoing" /\ mail[m].sched <= now}
Line == [k \in 1..Cardinality(Due) |-> CHOOSE m \in Due : Cardinality({x \in Due : x < m}) = k - 1]

\* What the first k mails of the line cost (a sum, written as the number of the messages),
\* and how many of them fit.
Spent(k) == Cardinality(UNION {{i} \X (1..Cost(mail, Line[i])) : i \in 1..k})
Fitting == Max({0} \cup {k \in DOMAIN Line : Spent(k) <= Budget})
RoomLeft == Budget - Spent(Fitting)
First == Line[Fitting + 1]   \* the first mail that does not fit

MoreThanTheLimit == Cost(mail, First) > Limit /\ RoomLeft > 0

\* _rate_limit_split
Kept == RoomLeft - Cardinality(mail[First].cc)
CanSplit == Kept >= 1 /\ Cardinality(mail[First].to) > Kept

\* Mutant: the part is made an owner of the message too, as a plain copy would be.
SplitOwner(first) ==
    [mail EXCEPT
        ![made + 1] = [mail[First] EXCEPT !.to = first, !.retries = 0],
        ![First].to = @ \ first,
        ![First].cc = {}]

\* The copy takes some partners and the To/Cc addresses; it shares the message.
Split(first) ==
    [mail EXCEPT
        ![made + 1] = [mail[First] EXCEPT !.to = first, !.notif = TRUE, !.retries = 0],
        ![First].to = @ \ first,
        ![First].cc = {}]

\* Hand the batch to the SMTP session, count it, defer the others.
Hand(table, count, batch, spent, deferred) ==
    \E d \in {Defer(Consumed(spent), table, deferred)} :
        /\ mail' = d.table
        /\ made' = made + count
        /\ slots' = Consumed(spent)
        /\ lastId' = NextSlot(spent)
        /\ triggers' = (triggers \ (0..now)) \cup d.wakes
        /\ run' = IF batch = <<>> THEN Idle
                  ELSE [Idle EXCEPT !.phase = "connect", !.batch = lastId', !.credit = spent,
                                    !.pending = batch]
        /\ UNCHANGED messages
        /\ IF batch = <<>> THEN Commit ELSE UNCHANGED saved

\* _rate_limit_take
Take ==
    LET taken == SubSeq(Line, 1, Fitting)
    IN  \/ /\ Fitting = Len(Line)
           /\ Hand(mail, 0, taken, Spent(Fitting), <<>>)
        \/ /\ Fitting < Len(Line)
           /\ MoreThanTheLimit /\ CanSplit
           /\ made < MaxMails
           /\ \E first \in kSubset(Kept, mail[First].to) :
                Hand(Split(first), 1, Append(taken, made + 1), Budget, SubSeq(Line, Fitting + 1, Len(Line)))
        \/ /\ Fitting < Len(Line)
           /\ MoreThanTheLimit /\ ~CanSplit /\ RoomLeft = Limit
           /\ Hand(mail, 0, Append(taken, First), Spent(Fitting + 1), SubSeq(Line, Fitting + 2, Len(Line)))
        \/ /\ Fitting < Len(Line)
           /\ ~(MoreThanTheLimit /\ (CanSplit \/ RoomLeft = Limit))
           /\ Hand(mail, 0, taken, Spent(Fitting), SubSeq(Line, Fitting + 1, Len(Line)))

\* process_email_queue, woken by a trigger or by the cron's own interval.
TriggeredRun ==
    /\ run.phase = "idle"
    /\ \E t \in triggers : t <= now
    /\ Take
    /\ UNCHANGED <<now, bounds, history>>

RegularRun ==
    /\ run.phase = "idle"
    /\ \A t \in triggers : t > now
    /\ Due # {}
    /\ Take
    /\ UNCHANGED <<now, bounds, history>>

-----------------------------------------------------------------------------
(* Deleting mails *)

\* unlink: a message whose owner goes is handed to the oldest mail that stays.
Owners(table, S) == {m \in S : ~table[m].notif}
Heir(m, S) == Min(SameMessage(m) \ S)
HasHeir(m, S) == SameMessage(m) \ S # {}

\* Mutant: core's unlink alone.
NotHandedOver(table, S) == table

HandedOver(table, S) ==
    LET leaving == {m \in Owners(table, S) : HasHeir(m, S)}
    IN  [m \in Mails |->
            IF m \in leaving THEN [table[m] EXCEPT !.notif = TRUE]
            ELSE IF \E o \in leaving : Heir(o, S) = m THEN [table[m] EXCEPT !.notif = FALSE]
            ELSE table[m]]

\* Core: the message of an owner goes with it, and every mail on the message.
MessagesLost(table, S) == {table[m].msg : m \in Owners(table, S)}
Deleted(table, S) ==
    [m \in Mails |->
        IF m \in S \/ (Exists(m) /\ table[m].msg \in MessagesLost(table, S)) THEN NoMail ELSE table[m]]

-----------------------------------------------------------------------------
(* Sending: core's send() and _send(), with the overrides *)

ConnectOk ==
    /\ run.phase = "connect"
    /\ run' = [run EXCEPT !.phase = "batch"]
    /\ UNCHANGED <<now, queue, saved, bounds, history>>

\* The whole batch fails (README, Limitations).
ConnectFails ==
    /\ "no connection" \in Outcomes
    /\ run.phase = "connect"
    /\ mail' = [m \in Mails |-> IF m \in ToSet(run.pending) THEN [mail[m] EXCEPT !.state = "exception"] ELSE mail[m]]
    /\ run' = Idle
    /\ UNCHANGED <<now, made, messages, slots, lastId, triggers, bounds, history>>
    /\ Commit

\* Only mail still in the queue is sent; its state is written before the first
\* message, so that a killed session leaves it failed rather than unsent.
StartMail ==
    /\ run.phase = "batch" /\ run.pending # <<>>
    /\ LET m == Head(run.pending)
       IN  IF mail[m].state = "outgoing"
           THEN /\ mail' = [mail EXCEPT ![m].state = "exception"]
                /\ run' = [run EXCEPT !.phase = "smtp", !.pending = Tail(@), !.cur = m,
                                      !.cc = mail[m].cc, !.to = mail[m].to,
                                      !.reached = {}, !.invalid = FALSE]
           ELSE /\ run' = [run EXCEPT !.pending = Tail(@)]
                /\ UNCHANGED mail
    /\ UNCHANGED <<now, made, messages, slots, lastId, triggers, saved, bounds, history>>

\* _prepare_outgoing_list: the To/Cc message first, then one per partner.
Items == IF run.cc # {} THEN {run.cc} ELSE {{p} : p \in run.to}

Sending(outcome) == outcome \in Outcomes /\ run.phase = "smtp" /\ Items # {}

After(item) == [run EXCEPT !.cc = @ \ item, !.to = @ \ item, !.credit = @ - Cardinality(item)]

\* The provider accepts a message: its recipients get a copy, and it counts them, as the
\* messages of the batch's slot that are next.
Deliver(item) ==
    /\ got' = [got EXCEPT ![mail[run.cur].msg] =
                    [r \in Recipients |-> IF r \in item THEN @[r] + 1 ELSE @[r]]]
    /\ LET counted == {run.batch} \X ((run.credit - Cardinality(item) + 1)..run.credit)
       IN  accepted' = [u \in DOMAIN accepted \cup counted |-> IF u \in counted THEN now ELSE accepted[u]]

Accept ==
    /\ Sending("accept")
    /\ \E item \in Items :
        /\ run' = [After(item) EXCEPT !.reached = @ \cup item]
        /\ Deliver(item)
    /\ UNCHANGED <<now, queue, saved, bounds, cutOff, givenUp>>

\* NO_VALID_RECIPIENT: the message is skipped and the reason kept.
Invalid ==
    /\ Sending("invalid")
    /\ \E item \in Items :
        /\ run' = [After(item) EXCEPT !.invalid = TRUE]
        /\ givenUp' = givenUp \cup {mail[run.cur].msg} \X item
    /\ UNCHANGED <<now, queue, saved, bounds, accepted, got, cutOff>>

\* _reached and the recipients a mail is left with: once anything was reached
\* the To/Cc message was handled too.
LeftTo == mail[run.cur].to \ run.reached
LeftCc == IF run.reached # {} THEN {} ELSE mail[run.cur].cc

NextMail == [run EXCEPT !.phase = "batch", !.cur = 0, !.cc = {}, !.to = {}, !.reached = {}, !.invalid = FALSE]

\* An interrupted send leaves the recipients it reached on the mail.
CutOff(reached) ==
    cutOff' = IF reached = {} THEN cutOff ELSE [cutOff EXCEPT ![mail[run.cur].msg] = @ + 1]

\* _rate_limit_requeue
Requeued ==
    [mail[run.cur] EXCEPT !.state = "outgoing", !.retries = @ + 1, !.sched = now + RetryAfter,
                          !.to = LeftTo, !.cc = LeftCc]

RetriesLeft == mail[run.cur].retries < RetryMax

\* Mutant: the batch is retried without the server being counted as full.
PenaltyForgotten == slots

Penalty == Consumed(Limit)

\* _postprocess_sent_message for a 4xx answer: back to the queue, the server
\* counted as full; the rest of the batch is not tried.
RefuseTemporarily ==
    /\ Sending("temporary")
    /\ ~run.invalid
    /\ RetriesLeft
    /\ mail' = [mail EXCEPT ![run.cur] = Requeued]
    /\ slots' = Penalty
    /\ lastId' = lastId + 1
    /\ triggers' = triggers \cup {now + RetryAfter}
    /\ run' = [NextMail EXCEPT !.phase = "stop", !.batch = 0, !.credit = 0]
    /\ UNCHANGED <<now, made, messages, bounds, accepted, got, cutOff, givenUp>>
    /\ CommitDuringJob

\* Mutant: a mail that fails for good keeps the recipients it reached.
StrippedNot == mail[run.cur]

\* _rate_limit_strip_reached
Stripped == [mail[run.cur] EXCEPT !.to = LeftTo, !.cc = LeftCc]

\* A 5xx answer, or a 4xx one after the last retry: failed for good.
FailForGood ==
    /\ \/ Sending("permanent")
       \/ Sending("temporary") /\ ~RetriesLeft
    /\ ~run.invalid
    /\ mail' = [mail EXCEPT ![run.cur] = Stripped]
    /\ run' = NextMail
    /\ UNCHANGED <<now, made, messages, slots, lastId, triggers, bounds, history>>
    /\ CommitDuringJob

\* The same after an invalid address: core keeps that reason, and the override
\* leaves the mail to core.
FailAfterInvalid ==
    /\ Sending("permanent") \/ Sending("temporary")
    /\ run.invalid
    /\ run' = NextMail
    /\ CutOff(run.reached)
    /\ UNCHANGED <<now, queue, bounds, accepted, got, givenUp>>
    /\ CommitDuringJob

\* SMTPServerDisconnected: the batch stops, the mail stays failed as it is.
\* The message being sent may have been accepted before the connection went.
Drop ==
    /\ Sending("drop")
    /\ \/ CutOff(run.reached) /\ UNCHANGED <<got, accepted>>
       \/ \E item \in Items : Deliver(item) /\ CutOff(item)
    /\ run' = Idle
    /\ UNCHANGED <<now, queue, bounds, givenUp>>
    /\ Commit

\* Every message was tried: sent (and deleted) if one was accepted.
FinishMail ==
    /\ run.phase = "smtp" /\ Items = {}
    /\ LET m    == run.cur
           sent == [mail EXCEPT ![m].state = "sent"]
           kept == HandedOver(sent, {m})
       IN  IF run.reached = {}
           THEN UNCHANGED <<mail, messages>>
           ELSE IF ~mail[m].autodel
           THEN mail' = sent /\ UNCHANGED messages
           ELSE /\ mail' = Deleted(kept, {m})
                /\ messages' = messages \ MessagesLost(kept, {m})
    /\ run' = NextMail
    /\ UNCHANGED <<now, made, slots, lastId, triggers, bounds, history>>
    /\ CommitDuringJob

EndBatch ==
    /\ run.phase = "batch" /\ run.pending = <<>>
    /\ run' = Idle
    /\ UNCHANGED <<now, queue, bounds, history>>
    /\ Commit

\* _send: after a temporary error the rest of the batch waits for the window.
StopBatch ==
    /\ run.phase = "stop"
    /\ LET rest == SelectSeq(run.pending, LAMBDA m : mail[m].state = "outgoing")
           d    == Defer(slots, mail, rest)
       IN  /\ mail' = d.table
           /\ triggers' = triggers \cup d.wakes
    /\ run' = Idle
    /\ UNCHANGED <<now, made, messages, slots, lastId, bounds, history>>
    /\ Commit

\* The worker is killed: what was not committed is lost, the triggers it was
\* started for are still there.
Crash ==
    /\ run.phase # "idle"
    /\ crashes < MaxCrashes
    /\ mail' = saved.mail /\ messages' = saved.messages
    /\ slots' = saved.slots /\ triggers' = saved.triggers
    /\ run' = Idle
    /\ crashes' = crashes + 1
    /\ IF run.cur = 0 THEN UNCHANGED cutOff ELSE CutOff(run.reached)
    /\ UNCHANGED <<now, ids, saved, letters, manual, accepted, got, givenUp>>

-----------------------------------------------------------------------------
(* Users *)

Post(l) ==
    /\ Len(letters) < MaxPosts /\ made < MaxMails /\ now <= LastPost
    /\ letters' = Append(letters, l)
    /\ made' = made + 1
    /\ mail' = [mail EXCEPT ![made + 1] =
                    [state |-> "outgoing", to |-> l.to, cc |-> l.cc, retries |-> 0, sched |-> 0,
                     msg |-> Len(letters) + 1, notif |-> l.notif, autodel |-> l.autodel]]
    /\ messages' = messages \cup {Len(letters) + 1}
    /\ UNCHANGED <<now, slots, lastId, triggers, run, manual, crashes, history>>
    /\ CommitUser({made + 1})

\* send() outside the runner: the mail stays, the cron is woken.
SendNow ==
    /\ now \notin triggers
    /\ \E m \in Mails : saved.mail[m].state = "outgoing"
    /\ triggers' = triggers \cup {now}
    /\ UNCHANGED <<now, mail, made, messages, slots, lastId, run, bounds, history>>
    /\ CommitUser({})

ByHand == manual < MaxManual /\ manual' = manual + 1

\* mark_outgoing, the Retry button of a failed or cancelled mail.
Retry(m) ==
    /\ ByHand
    /\ mail[m].state \in {"exception", "cancel"} /\ ~Locked(m)
    /\ mail' = [mail EXCEPT ![m].state = "outgoing", ![m].retries = 0]
    /\ UNCHANGED <<now, made, messages, slots, lastId, triggers, run, letters, crashes, history>>
    /\ CommitUser({m})

Cancel(m) ==
    /\ ByHand
    /\ mail[m].state = "outgoing" /\ ~Locked(m)
    /\ mail' = [mail EXCEPT ![m].state = "cancel"]
    /\ UNCHANGED <<now, made, messages, slots, lastId, triggers, run, letters, crashes, history>>
    /\ CommitUser({m})

\* A user deletes mails: the recipients still on them are given up.
Delete(S) ==
    /\ ByHand
    /\ \A m \in S : Exists(m) /\ \A x \in SameMessage(m) : ~Locked(x)
    /\ LET kept == HandedOver(mail, S)
       IN  /\ mail' = Deleted(kept, S)
           /\ messages' = messages \ MessagesLost(kept, S)
    /\ givenUp' = givenUp \cup UNION {{mail[m].msg} \X (mail[m].to \cup mail[m].cc) : m \in S}
    /\ UNCHANGED <<now, made, slots, lastId, triggers, run, letters, crashes, accepted, got, cutOff>>
    /\ CommitUser(UNION {SameMessage(m) : m \in S})

\* A batch takes at most Hold ticks, and the cron worker comes by at least every
\* Late ticks.  The provider forgets what has left its window.
Tick ==
    /\ now < MaxTime
    /\ run.phase # "stop"
    /\ \A s \in slots : s.id = run.batch => now < s.at + Hold
    /\ run.phase = "idle" => \A t \in triggers : now < t + Late
    /\ now' = now + 1
    /\ accepted' = [u \in {v \in DOMAIN accepted : accepted[v] > now + 1 - Window} |-> accepted[u]]
    /\ UNCHANGED <<queue, run, saved, bounds, got, cutOff, givenUp>>

-----------------------------------------------------------------------------
Init ==
    /\ now = 0
    /\ mail = [m \in Mails |-> NoMail]
    /\ made = 0
    /\ messages = {}
    /\ slots = {}
    /\ lastId = 0
    /\ triggers = {}
    /\ run = Idle
    /\ saved = Database
    /\ letters = <<>> /\ manual = 0 /\ crashes = 0
    /\ accepted = <<>>
    /\ got = [p \in Posts |-> [r \in Recipients |-> 0]]
    /\ cutOff = [p \in Posts |-> 0]
    /\ givenUp = {}

Runner ==
    \/ ConnectOk \/ ConnectFails \/ StartMail
    \/ Accept \/ Invalid \/ RefuseTemporarily \/ FailForGood \/ FailAfterInvalid \/ Drop
    \/ FinishMail \/ EndBatch \/ StopBatch

Users ==
    \/ \E l \in Letters : Post(l)
    \/ SendNow
    \/ \E m \in Mails : Retry(m) \/ Cancel(m)
    \/ \E S \in (SUBSET Mails) \ {{}} : Delete(S)

Next == Tick \/ TriggeredRun \/ RegularRun \/ Runner \/ Crash \/ Users

Spec == Init /\ [][Next]_vars

\* Time passes, a due trigger starts the runner, and it goes on once started.
\* The hourly run of the cron is not relied on, nor anything users do.  Ticks are
\* finitely many here, so they cannot keep the other steps from happening; users
\* who wake the cron again and again must not stop the clock either.
System == Tick \/ TriggeredRun \/ Runner

FairSpec == Spec /\ WF_vars(System) /\ WF_vars(Tick)

-----------------------------------------------------------------------------
(* Properties *)

PartsOf(p) == {m \in Mails : Exists(m) /\ mail[m].msg = p}

\* No recipient gets a second copy of a letter over all its retries, splits and
\* Retry buttons, except one for each send that was cut off with its reached
\* recipients still on the mail: a dropped connection, a killed worker, or an
\* error after an invalid address (mail_mail.py:15-20, 222-288).
NoSecondCopy == \A p \in Posts : \A r \in Recipients : got[p][r] <= 1 + cutOff[p]

\* No recipient is ever lost: each one got the letter, or is still on a mail that
\* exists, or was given up with an invalid address or a mail a user deleted.
\* Splitting, requeueing, stripping, deleting sent parts and crashes move
\* recipients between mails and delete mails (mail_mail.py:61-79, 145-174).
EveryRecipientAccountedFor ==
    \A p \in DOMAIN letters : \A r \in letters[p].to \cup letters[p].cc :
        \/ got[p][r] > 0
        \/ <<p, r>> \in givenUp
        \/ \E m \in PartsOf(p) : r \in mail[m].to \cup mail[m].cc

\* A message a letter owns has exactly one owner among its parts for as long as
\* one exists, and is deleted with the last of them; a notification's message is
\* owned by no mail (unlink, mail_mail.py:61-79; the copy of a split, 155-162).
MessageHasOneOwner ==
    \A p \in DOMAIN letters :
        LET owners == {m \in PartsOf(p) : ~mail[m].notif}
        IN  IF letters[p].notif
            THEN owners = {} /\ p \in messages
            ELSE IF PartsOf(p) = {} THEN p \notin messages
            ELSE p \in messages /\ Cardinality(owners) = 1

\* A queue run only selects mail that is due, so every mail that waits for a date
\* has a trigger of the cron at that date, also after a crash
\* (_rate_limit_defer's docstring, ir_mail_server.py:100-102).
EveryDeferralHasAWake ==
    \A m \in Mails :
        mail[m].state = "outgoing" /\ mail[m].sched > now => mail[m].sched \in triggers

\* What Pacing promises, with the batch and its messages not tried yet read off the runner.
Paced == INSTANCE Pacing WITH
    batch   <- run.batch,
    untried <- 1..run.credit,
    Sizes   <- 1..(Limit + Cardinality(Recipients)),
    Keep    <- Window

\* The queue paces its server as Pacing says: every take of a batch fits the window, every
\* accepted message was counted in a slot before, and a temporary error counts a full
\* window (_rate_limit_take, _rate_limit_consume, _postprocess_sent_message).
QueueIsPaced == Paced!Spec

\* Every mail that is deferred or waits for a retry leaves the queue again, sent
\* or failed, woken by the triggers alone (not by the cron's hourly run).  Asked of
\* mails deferred by LastPost, which leaves the later times to their retries.
DeferredMailLeaves ==
    \A m \in Mails :
        now <= LastPost /\ mail[m].state = "outgoing" /\ mail[m].sched > now
            ~> mail[m].state # "outgoing"

\* mail_mail.py:19-20, "A mail that fails for good loses the reached recipients
\* too, so a Retry by hand does not reach them twice either."
RetryReachesNobodyTwice == \A p \in Posts : \A r \in Recipients : got[p][r] <= 1
=============================================================================
