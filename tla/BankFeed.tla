------------------------------ MODULE BankFeed ------------------------------
(***************************************************************************)
(* Bank statements pulled through Enable Banking                           *)
(* (account_statement_import_online_enable_banking).  A provider pulls one *)
(* account's booked payments day by day; a user's consent at the bank, a   *)
(* session, covers several accounts for some days.  The scheduled pull is  *)
(* one transaction over all providers that are due: it reads the providers *)
(* when it starts, asks the bank, and is refused when it commits if what   *)
(* it wrote has been changed by others meanwhile.                          *)
(*                                                                         *)
(* Time is counted in days, statements are daily.  A payment's amount is   *)
(* one; payments of a day look alike, as at the banks that give no         *)
(* reference.  The loop over the days and the storing of the lines are the *)
(* OCA module's, external.                                                 *)
(***************************************************************************)
EXTENDS Integers, FiniteSets, Sequences

CONSTANTS
    Accounts,       \* a provider (journal) each, at one bank
    ConsentDays,    \* how long the bank's consent lasts
    WarnDays,       \* eb_renewal_warn_days
    RetryDays,      \* EB_RETRY_MAX_DAYS
    LastDay,        \* bound: the last day
    MaxSessions,    \* bound: sessions ever
    MaxBooked,      \* bound: payments ever
    MaxFaults       \* bound: failures of the bank, sessions it ends, manual pulls and resets

ASSUME FeedAssumption ==
    /\ {MaxSessions, ConsentDays, WarnDays, RetryDays, MaxBooked, MaxFaults} \subseteq Nat
    /\ LastDay \in Nat \ {0}
    /\ IsFiniteSet(Accounts)

VARIABLES
    day,        \* today
    booked,     \* by account and day: the payments the bank has booked
    granted,    \* the sessions made, in order: the end of each, and whether the bank still honours it
    prov,       \* the providers
    lines,      \* by account: the import ids of the statement lines
    skipped,    \* days that Odoo said it would not pull again
    tx,         \* the scheduled pull in progress, or None
    faults      \* (bound)

bank == <<day, booked, granted>>
db == <<prov, lines, skipped>>
vars == <<bank, db, tx, faults>>

Days == 1..LastDay
None == [at |-> "none"]

\* A provider's record; session 0, until 0, resume 0 and alarm 0 stand for an empty field,
\* pulls for eb_last_pull: it is another after every manual pull.
NewProvider ==
    [auth |-> FALSE, session |-> 0, account |-> FALSE, until |-> 0,
     last |-> 1, next |-> 1, resume |-> 0, todo |-> FALSE, alarm |-> 0, pulls |-> 0]

Init ==
    /\ day = 1
    /\ booked = [a \in Accounts |-> [d \in Days |-> 0]]
    /\ granted = <<>>
    /\ prov = [a \in Accounts |-> NewProvider]
    /\ lines = [a \in Accounts |-> {}]
    /\ skipped = {}
    /\ tx = None
    /\ faults = 0

Fault == faults < MaxFaults /\ faults' = faults + 1

\* Mutant: identical payments of a day have one id.
OneId(d, n) == {<<d, k>> : k \in {1} \cap 1..n}

\* Import ids of n payments of a day: a hash and a counter (unique_import_id).
Ids(d, n) == {<<d, k>> : k \in 1..n}

Payments(a) == {p \in Days \X (1..MaxBooked) : p[2] <= booked[a][p[1]]}

-----------------------------------------------------------------------------
(* The consent *)

\* action_enable_banking_authorize
Authorize(a) ==
    /\ ~prov[a].auth
    /\ Len(granted) < MaxSessions
    /\ prov' = [prov EXCEPT ![a].auth = TRUE]
    /\ UNCHANGED <<bank, lines, skipped, tx, faults>>

Connected(p, s, until) ==
    [p EXCEPT !.auth = FALSE, !.session = s, !.account = TRUE, !.until = until, !.todo = FALSE]

\* The callback: a session that covers the accounts chosen at the bank is bound to the
\* provider, and to its siblings among them (_enable_banking_finish_authorization,
\* _enable_banking_connect_siblings).  The bank allows one session per person.
Callback(a, chosen) ==
    LET s == Len(granted) + 1
        until == day + ConsentDays
    IN  /\ prov[a].auth
        /\ s <= MaxSessions
        /\ granted' = Append([r \in DOMAIN granted |-> [granted[r] EXCEPT !.live = FALSE]],
                             [until |-> until, live |-> TRUE])
        /\ prov' = [b \in Accounts |->
                IF b \in chosen THEN Connected(prov[b], s, until)
                ELSE IF b = a THEN [prov[b] EXCEPT !.auth = FALSE, !.session = s, !.account = FALSE,
                                                   !.until = until]
                ELSE prov[b]]
        /\ UNCHANGED <<day, booked, lines, skipped, tx, faults>>

\* _enable_banking_check_consents: a to-do before a consent ends.
CheckConsents ==
    /\ prov' = [a \in Accounts |->
            [prov[a] EXCEPT !.todo = @ \/ (prov[a].until # 0 /\ prov[a].until - day <= WarnDays)]]
    /\ UNCHANGED <<bank, lines, skipped, tx, faults>>

\* action_enable_banking_reset
Reset(a) ==
    /\ prov[a].session # 0
    /\ Fault
    /\ prov' = [prov EXCEPT ![a].auth = FALSE, ![a].session = 0, ![a].until = 0, ![a].account = FALSE]
    /\ UNCHANGED <<bank, lines, skipped, tx>>

\* Mutant: only the provider that met the error is told.
Alone(provs, a) == {a}

\* Providers on the session of a.
OnSession(provs, a) == {b \in Accounts : provs[b].session = provs[a].session}

\* _enable_banking_mark_session_ended: the renewal user of each gets a to-do.
Ended(provs, a) ==
    [b \in Accounts |->
        IF b \in OnSession(provs, a) THEN [provs[b] EXCEPT !.until = day, !.todo = TRUE] ELSE provs[b]]

-----------------------------------------------------------------------------
(* The scheduled pull *)

\* What _enable_banking_obtain_statement_data comes to: no consent, the bank has ended
\* the session, an answer, or another failure.
Outcomes(p, a) ==
    IF ~p.account \/ p.session = 0 \/ p.until <= day THEN {"no consent"}
    ELSE IF ~granted[p.session].live THEN {"ended", "busy"}
    ELSE {"answer", "busy", "broken"}

\* _enable_banking_retryable; a broken answer is not.
Retryable(outcome) == outcome \in {"no consent", "ended", "busy"}

\* _log_provider_exception: where the next pull starts, at the failed day or after it.
Retried(outcome, d) == Retryable(outcome) /\ d + 1 >= day - RetryDays
ResumeFrom(outcome, d) == IF Retried(outcome, d) THEN d ELSE d + 1

\* _schedule_next_run
NextRun(p) == [p EXCEPT !.last = IF p.resume # 0 THEN p.resume ELSE day, !.next = day + 1]

\* _pull turns to the next provider that is due, from its last_successful_run on.
Turns(t, provs, due) ==
    IF due = {}
    THEN {[at |-> "end", seen |-> t.seen, prov |-> provs, lines |-> t.lines, skipped |-> t.skipped]}
    ELSE {[at |-> "day", a |-> a, d |-> provs[a].last, due |-> due \ {a}, seen |-> t.seen,
           prov |-> [provs EXCEPT ![a].resume = 0], lines |-> t.lines, skipped |-> t.skipped] : a \in due}

\* The scheduler takes the providers whose time it is.
StartPull ==
    /\ tx = None
    /\ \E a \in Accounts : prov[a].next <= day
    /\ tx' \in Turns([seen |-> prov, lines |-> lines, skipped |-> skipped], prov,
                     {a \in Accounts : prov[a].next <= day})
    /\ UNCHANGED <<bank, db, faults>>

\* The provider's pull is over (_schedule_next_run).
EndProvider(t, provs) == Turns(t, [provs EXCEPT ![t.a] = NextRun(@)], t.due)

\* One day's payments; today's are followed by the balances.
PullDay ==
    /\ tx.at = "day"
    /\ "answer" \in Outcomes(tx.prov[tx.a], tx.a)
    /\ tx' = [tx EXCEPT !.lines[tx.a] = @ \cup Ids(tx.d, booked[tx.a][tx.d]),
                        !.d = IF tx.d < day THEN @ + 1 ELSE @,
                        !.at = IF tx.d < day THEN @ ELSE "balance"]
    /\ UNCHANGED <<bank, db, faults>>

\* A failed day ends the provider's pull (_log_provider_exception).
FailDay ==
    /\ tx.at = "day"
    /\ \E outcome \in Outcomes(tx.prov[tx.a], tx.a) \ {"answer"} :
        /\ IF outcome \in {"busy", "broken"} THEN Fault ELSE faults' = faults
        /\ LET resumed == [tx.prov EXCEPT ![tx.a].resume = ResumeFrom(outcome, tx.d)]
               provs == IF outcome = "ended" THEN Ended(resumed, tx.a) ELSE resumed
           IN  tx' \in EndProvider([tx EXCEPT !.skipped =
                        @ \cup (IF Retried(outcome, tx.d) THEN {} ELSE {<<tx.a, tx.d>>})], provs)
    /\ UNCHANGED <<bank, db>>

-----------------------------------------------------------------------------
(* The balances *)

\* The bank's booked balance may lack some of today's payments; its available balance
\* has them, and may have payments to come or not be sent, external.
Balances(a) ==
    LET all == Cardinality(Payments(a))
    IN  [booked : (all - booked[a][day])..all, available : {-1, all, all + 1}]

\* _enable_banking_explained_by_lag
Lag(odoo, balance, today) == odoo - balance.booked \in 0..today

\* Mutant: the available balance is not looked at.
BookedOnly(odoo, balance, today) == odoo = balance.booked \/ Lag(odoo, balance, today)

\* Odoo's balance agrees with the booked or the available one, or a lag explains the rest.
Agrees(odoo, balance, today) ==
    \/ odoo \in {balance.booked, balance.available}
    \/ Lag(odoo, balance, today) /\ (balance.available = -1 \/ balance.available >= odoo)

\* _enable_banking_check_balance: the difference it warns of, 0 for none.
Alarm(imported, balance) ==
    LET odoo == Cardinality(imported)
        today == Cardinality({i \in imported : i[1] = day})
    IN  IF Agrees(odoo, balance, today) THEN 0 ELSE balance.booked - odoo

\* The balance call, the check and the provider's next run.
CheckBalance ==
    /\ tx.at = "balance"
    /\ \E balance \in Balances(tx.a) :
        tx' \in EndProvider(tx, [tx.prov EXCEPT ![tx.a].alarm = Alarm(tx.lines[tx.a], balance)])
    /\ UNCHANGED <<bank, db, faults>>

\* A failed balance call loses nothing else.
NoBalance ==
    /\ tx.at = "balance"
    /\ Fault
    /\ tx' \in EndProvider(tx, tx.prov)
    /\ UNCHANGED <<bank, db>>

\* Whether others have changed a provider that the pull has written.
Taken == \E a \in Accounts : tx.prov[a] # tx.seen[a] /\ prov[a] # tx.seen[a]

\* All of it is committed, or nothing when the database refuses.
CommitPull ==
    /\ tx.at = "end"
    /\ tx' = None
    /\ IF Taken THEN UNCHANGED db
       ELSE /\ prov' = [a \in Accounts |-> IF tx.prov[a] # tx.seen[a] THEN tx.prov[a] ELSE prov[a]]
            /\ lines' = [a \in Accounts |-> lines[a] \cup tx.lines[a]]
            /\ skipped' = skipped \cup tx.skipped
    /\ UNCHANGED <<bank, faults>>

\* A user pulls some days by hand, with the balances when today is one of them; a
\* failure leaves nothing behind.
ManualPull(a, first, last) ==
    /\ Fault
    /\ "answer" \in Outcomes(prov[a], a)
    /\ lines' = [lines EXCEPT ![a] = @ \cup UNION {Ids(d, booked[a][d]) : d \in first..last}]
    /\ \E balance \in Balances(a) :
        prov' = [prov EXCEPT ![a].resume = 0, ![a].pulls = @ + 1,
                             ![a].alarm = IF last = day THEN Alarm(lines'[a], balance) ELSE @]
    /\ UNCHANGED <<bank, skipped, tx>>

-----------------------------------------------------------------------------
(* The bank, other imports and time, external *)

Book(a) ==
    /\ Cardinality(UNION {{b} \X Payments(b) : b \in Accounts}) < MaxBooked
    /\ booked' = [booked EXCEPT ![a][day] = @ + 1]
    /\ UNCHANGED <<day, granted, db, tx, faults>>

EndSession(s) ==
    /\ granted[s].live
    /\ Fault
    /\ granted' = [granted EXCEPT ![s].live = FALSE]
    /\ UNCHANGED <<day, booked, db, tx>>

\* A payment is imported from the bank's file as well, with an id of its own.
ImportFile(a, d) ==
    /\ booked[a][d] > 0
    /\ Fault
    /\ lines' = [lines EXCEPT ![a] = @ \cup {<<d, 0>>}]
    /\ UNCHANGED <<bank, prov, skipped, tx>>

NextDay ==
    /\ tx = None
    /\ day < LastDay
    /\ day' = day + 1
    /\ UNCHANGED <<booked, granted, db, tx, faults>>

ScheduledPull ==
    \/ StartPull
    \/ PullDay
    \/ FailDay
    \/ CheckBalance
    \/ NoBalance
    \/ CommitPull

Next ==
    \/ \E a \in Accounts :
        \/ Authorize(a)
        \/ \E chosen \in (SUBSET Accounts) \ {{}} : Callback(a, chosen)
        \/ Reset(a)
        \/ \E first, last \in 1..day : ManualPull(a, first, last)
        \/ Book(a)
        \/ \E d \in 1..day : ImportFile(a, d)
    \/ CheckConsents
    \/ ScheduledPull
    \/ \E s \in DOMAIN granted : EndSession(s)
    \/ NextDay

Spec == Init /\ [][Next]_vars

-----------------------------------------------------------------------------
\* Failures, retries, ended sessions, refused transactions and skipped days lose no
\* payment: what the bank booked before the day the next pull starts is in Odoo, line
\* for line, or Odoo has said that the day will not be pulled again
\* (_log_provider_exception, _schedule_next_run, unique_import_id).
NothingMissed ==
    \A a \in Accounts : \A d \in Days :
        d < prov[a].last /\ d <= day =>
            {p \in Payments(a) : p[1] = d} \subseteq lines[a] \/ <<a, d>> \in skipped

\* Providers on one session agree on how long it lasts, whichever of them renewed it or
\* met its end, and when the bank has ended it early each has a to-do
\* (_enable_banking_connect_siblings, _enable_banking_mark_session_ended).
SessionsAgree ==
    \A a, b \in Accounts :
        prov[a].session # 0 /\ prov[a].session = prov[b].session =>
            /\ prov[a].until = prov[b].until
            /\ prov[a].until < granted[prov[a].session].until => prov[a].todo

\* The check after a pull never warns when Odoo has exactly the bank's payments, however
\* its booked balance lags, and always does when the bank's figures are up to date and
\* Odoo has more or less (_enable_banking_check_balance).
AlarmIsRight ==
    tx.at = "balance" =>
        LET all == Cardinality(Payments(tx.a))
        IN  \A balance \in Balances(tx.a) :
            /\ tx.lines[tx.a] = Payments(tx.a) => Alarm(tx.lines[tx.a], balance) = 0
            /\ balance.booked = all /\ balance.available = all /\ Cardinality(tx.lines[tx.a]) # all
                => Alarm(tx.lines[tx.a], balance) # 0
=============================================================================
