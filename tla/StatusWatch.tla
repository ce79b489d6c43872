---------------------------- MODULE StatusWatch ----------------------------
(***************************************************************************)
(* The status watch of l10n_se_bolagsverket.  Customers and suppliers with *)
(* an identity number are looked up at Bolagsverket: new numbers first,    *)
(* then weekly.  The scheduled check takes a list of partners and looks    *)
(* them up one after another, each in a transaction of its own; users      *)
(* change numbers, press the buttons and do their to-dos meanwhile.  The   *)
(* button that takes over the contact data may change the number itself.   *)
(*                                                                         *)
(* A transaction is refused when the partner it wrote has been changed     *)
(* since it was read.  Time is in ticks, relative to now; the error texts  *)
(* and the daily ping are left out, and one user follows up.               *)
(***************************************************************************)
EXTENDS Integers, FiniteSets, Sequences, SequencesExt

CONSTANTS
    PartnerCount,
    Numbers,            \* identity numbers
    Contacts,           \* how users enter numbers: company_registry ("none" when empty, maybe
                        \* invalid), the number in a Swedish VAT number or "none", abroad
    Answers,            \* what Bolagsverket may know of a number: its organisations
    Broken,             \* numbers whose data source is down for good
    Names,              \* what partners may be called
    RecheckTicks,       \* RECHECK_DAYS
    RetryTicks,         \* RETRY_HOURS
    IncompleteTicks,    \* INCOMPLETE_HOURS
    IncompleteStop,     \* INCOMPLETE_STOP
    NewBatch,           \* NEW_BATCH
    DueBatch,           \* DUE_BATCH
    MaxOverdue,         \* bound: time stops when a check is overdue by more
    MaxEvents           \* bound: what users and Bolagsverket do, failures included

ASSUME WatchAssumption ==
    /\ {PartnerCount, RecheckTicks, RetryTicks, IncompleteTicks, MaxOverdue, MaxEvents} \subseteq Nat
    /\ {IncompleteStop, NewBatch, DueBatch} \subseteq Nat \ {0}
    /\ Broken \subseteq Numbers
    /\ \A contact \in Contacts :
        /\ contact = [field \in {"company_registry", "vat", "abroad"} |-> contact[field]]
        /\ contact.vat \in Numbers \cup {"none"} /\ contact.abroad \in BOOLEAN
    /\ \A parsed \in Answers : parsed \in Seq(Range(parsed))
    /\ "none" \notin Numbers \cup Names

VARIABLES
    partner,    \* the partners, by id
    registry,   \* by number: what Bolagsverket knows of it
    run,        \* the scheduled check in progress: the partners left, or None
    tx,         \* by process: the partner it looks up and what it read of it, or None
    events      \* (bound)

vars == <<partner, registry, run, tx, events>>

Partners == 1..PartnerCount
Processes == {"cron", "user"}
None == [p |-> 0]
New == RecheckTicks + 1     \* next_check of a number that was never checked
Bad == {"deregistered", "procedure"}
NotFound == [found |-> FALSE]

\* What is known of a number.  History: of is the number the status is about, lost the one
\* a lookup itself replaced, told what the notifications were about.
Unchecked ==
    [status |-> "none", note |-> "none", mismatch |-> FALSE, chosen |-> 0, next |-> New,
     of |-> "none", lost |-> "none", told |-> [status |-> <<>>, mismatch |-> <<>>]]

\* A row with vals written to it.
Written(rec, vals) ==
    [f \in DOMAIN rec \cup DOMAIN vals |-> IF f \in DOMAIN vals THEN vals[f] ELSE rec[f]]

\* _compute_l10n_se_bv_identity: the number in company_registry of a partner in Sweden, or
\* that of its Swedish VAT number.
Identity(rec) ==
    IF ~rec.abroad /\ rec.company_registry \in Numbers THEN rec.company_registry ELSE rec.vat

Init ==
    /\ \E contact \in [Partners -> Contacts], name \in [Partners -> Names] :
        partner = [p \in Partners |->
            Written(contact[p], Written([name |-> name[p], todo |-> [status |-> 0, mismatch |-> 0]], Unchecked))]
    /\ registry \in [Numbers -> Answers]
    /\ run = None
    /\ tx = [c \in Processes |-> None]
    /\ events = 0

Event == events < MaxEvents /\ events' = events + 1

-----------------------------------------------------------------------------
(* Reading an answer: lib/bolagsverket.py *)

\* status_of, with the note that tells one bad status from another
StatusOf(org) ==
    IF ~org.found THEN "not_found"
    ELSE IF org.deregistered THEN "deregistered"
    ELSE IF org.procedure THEN "procedure"
    ELSE IF ~org.active THEN "inactive"
    ELSE IF org.name # "none" THEN "active" ELSE "unknown"

NoteOf(org) == IF StatusOf(org) \in Bad THEN org.note ELSE "none"

\* pick_organisation: the chosen one, else one that is not deregistered, by preference
\* with the partner's name, else one with a name, else the first.
Rank(org, name, chosen) ==
    CASE org.found /\ chosen # 0 /\ org.no = chosen -> 1
      [] ~org.found \/ org.name = "none" -> 5
      [] org.deregistered -> 4
      [] org.name = name -> 2
      [] OTHER -> 3

Picked(parsed, name, chosen) ==
    LET rank(k) == Rank(parsed[k], name, chosen)
        first(k) == \A j \in DOMAIN parsed : rank(k) < rank(j) \/ (rank(k) = rank(j) /\ k <= j)
    IN  IF parsed = <<>> THEN NotFound ELSE parsed[CHOOSE k \in DOMAIN parsed : first(k)]

Registered(parsed) == {parsed[k].name : k \in {n \in DOMAIN parsed : parsed[n].found}}

-----------------------------------------------------------------------------
(* Applying it *)

\* Mutant: a partner that was bad already is not told of again.
OnlyTurning(rec, status, note) == status \in Bad /\ rec.status \notin Bad

\* Whether a status is news.
Alarming(rec, status, note) == status \in Bad /\ (rec.status \notin Bad \/ note # rec.note)

\* _l10n_se_bv_notify: a note, and a to-do unless one is open.
Notified(rec, kind, about) == [rec EXCEPT !.told[kind] = about, !.todo[kind] = 1]

\* _l10n_se_bv_apply_status: what was picked among what is known of number.
Applied(rec, number, org, parsed) ==
    LET status == StatusOf(org)
        note == NoteOf(org)
        mismatch == org.found /\ org.name # "none" /\ rec.name \notin Registered(parsed)
        stored == [rec EXCEPT !.status = status, !.note = note, !.mismatch = mismatch,
                              !.next = RecheckTicks, !.of = number]
        told == IF Alarming(rec, status, note) THEN Notified(stored, "status", <<number, status, note>>)
                ELSE stored
    IN  IF mismatch /\ ~rec.mismatch THEN Notified(told, "mismatch", <<Identity(rec)>>) ELSE told

\* Mutant: what was learnt about the old number stays.
NextCheckOnly(rec) == [rec EXCEPT !.next = New]

\* BV_FIELDS_RESET; to-dos stay open.
Forgotten(rec) == Written(rec, Unchecked)

\* write: a new number voids everything learnt about the old one.
Saved(rec, vals) ==
    LET new == Written(rec, vals)
    IN  IF Identity(new) # Identity(rec) THEN Forgotten(new) ELSE new

\* _l10n_se_bv_contact_vals: the registered name, the country of the registered address if
\* there is one, and the number where company_registry is empty.
ContactVals(rec, org) ==
    [name |-> IF org.name # "none" THEN org.name ELSE rec.name,
     chosen |-> org.no,
     abroad |-> IF org.land = "unknown" THEN rec.abroad ELSE org.land = "abroad",
     company_registry |-> IF rec.company_registry = "none" THEN Identity(rec) ELSE rec.company_registry]

\* _l10n_se_bv_check_one: what is known of the partner's number is applied, after the
\* contact data when the button takes it over.
Checked(rec, parsed, update) ==
    LET org == Picked(parsed, rec.name, rec.chosen)
        number == Identity(rec)
        fetched == IF update /\ org.found THEN Saved(rec, ContactVals(rec, org)) ELSE rec
        applied == Applied(fetched, number, org, parsed)
    IN  IF Identity(fetched) # number THEN [applied EXCEPT !.lost = number] ELSE applied

-----------------------------------------------------------------------------
(* Users and Bolagsverket *)

\* A user changes company_registry, the VAT number or the country.
ChangeNumber(p) ==
    /\ Event
    /\ \E contact \in Contacts :
        /\ Written(partner[p], contact) # partner[p]
        /\ partner' = [partner EXCEPT ![p] = Saved(@, contact)]
    /\ UNCHANGED <<registry, run, tx>>

Rename(p) ==
    /\ Event
    /\ \E name \in Names \ {partner[p].name} : partner' = [partner EXCEPT ![p].name = name]
    /\ UNCHANGED <<registry, run, tx>>

DoTodo(p) ==
    /\ Event
    /\ \E kind \in {"status", "mismatch"} :
        partner[p].todo[kind] = 1 /\ partner' = [partner EXCEPT ![p].todo[kind] = 0]
    /\ UNCHANGED <<registry, run, tx>>

\* What Bolagsverket knows changes, external.
RegistryChanges(n) ==
    /\ Event
    /\ \E answer \in Answers \ {registry[n]} : registry' = [registry EXCEPT ![n] = answer]
    /\ UNCHANGED <<partner, run, tx>>

\* The partner of a process is as the process read it.
Unchanged(c) == partner[tx[c].p] = tx[c].seen

\* A button: check or fetch (_l10n_se_bv_run_buttons).
Press(p) ==
    /\ tx["user"] = None
    /\ Identity(partner[p]) # "none"
    /\ Event
    /\ \E update \in BOOLEAN :
        tx' = [tx EXCEPT !["user"] = [p |-> p, seen |-> partner[p], update |-> update]]
    /\ UNCHANGED <<partner, registry, run>>

\* Bolagsverket's answer; any error and a refused write leave nothing.
Pressed ==
    LET t == tx["user"]
        number == Identity(t.seen)
    IN  /\ t # None
        /\ \/ /\ Unchanged("user") /\ number \notin Broken
              /\ partner' = [partner EXCEPT ![t.p] = Checked(t.seen, registry[number], t.update)]
           \/ partner' = partner
        /\ tx' = [tx EXCEPT !["user"] = None]
        /\ UNCHANGED <<registry, run, events>>

-----------------------------------------------------------------------------
(* The scheduled check *)

Watched(p) == Identity(partner[p]) # "none"
Due(p) == Watched(p) /\ (partner[p].next = New \/ partner[p].next <= 0)

Upto(n, s) == SubSeq(s, 1, IF n < Len(s) THEN n ELSE Len(s))

\* New numbers by id, then those that are due, the most overdue first.
DueList ==
    LET new == {p \in Partners : Watched(p) /\ partner[p].next = New}
        due == {p \in Partners : Watched(p) /\ partner[p].next <= 0}
        sooner(p, q) == partner[p].next < partner[q].next \/ (partner[p].next = partner[q].next /\ p < q)
    IN  Upto(NewBatch, SetToSortSeq(new, <)) \o Upto(DueBatch, SetToSortSeq(due, sooner))

\* A partner as the scheduled check reads it.
Reading(p) == [tx EXCEPT !["cron"] = [p |-> p, seen |-> partner[p]]]

\* _l10n_se_bv_check_due: the first partner is read with the list.
StartCheck ==
    /\ run = None
    /\ DueList # <<>>
    /\ run' = [list |-> DueList, row |-> 0]
    /\ tx' = Reading(Head(DueList))
    /\ UNCHANGED <<partner, registry, events>>

\* The next partner is read, after the commit of the one before.
Ask ==
    /\ run # None
    /\ tx["cron"] = None
    /\ run.list # <<>>
    /\ tx' = Reading(Head(run.list))
    /\ UNCHANGED <<partner, registry, run, events>>

\* The time of the run is up, or its list is done.
EndCheck ==
    /\ run # None
    /\ tx["cron"] = None
    /\ run' = None
    /\ UNCHANGED <<partner, registry, tx, events>>

\* The partner is written and committed, and the run goes on with row incomplete answers
\* in a row; a refused write ends the run.
Commit(rec, row, stop) ==
    LET p == tx["cron"].p
    IN  /\ tx' = [tx EXCEPT !["cron"] = None]
        /\ IF Unchanged("cron")
           THEN /\ partner' = [partner EXCEPT ![p] = rec]
                /\ run' = IF stop THEN None ELSE [list |-> Tail(run.list), row |-> row]
           ELSE partner' = partner /\ run' = None
        /\ UNCHANGED registry

Asked == tx["cron"].seen

Answered ==
    /\ tx["cron"] # None
    /\ Identity(Asked) \notin Broken \cup {"none"}
    /\ Commit(Checked(Asked, registry[Identity(Asked)], FALSE), 0, FALSE)
    /\ UNCHANGED events

\* Mutant: the number is tried again in the next run.
AtOnce(rec) == rec

\* An incomplete answer is tried again in a few hours.
Postponed(rec) == [rec EXCEPT !.next = IncompleteTicks]

\* A data source is down for this number; several in a row stop the run.
Incomplete ==
    /\ tx["cron"] # None
    /\ Identity(Asked) \in Broken
    /\ Commit(Postponed(Asked), run.row + 1, run.row + 1 >= IncompleteStop)
    /\ UNCHANGED events

\* The number is refused, or something else about this partner goes wrong.
Refused ==
    /\ tx["cron"] # None
    /\ IF Identity(Asked) = "none" THEN events' = events ELSE Event
    /\ Commit([Asked EXCEPT !.next = RetryTicks], 0, FALSE)

\* Network, 429, 5xx, token: the run stops and touches no partner.
Stopped ==
    /\ tx["cron"] # None
    /\ Event
    /\ tx' = [tx EXCEPT !["cron"] = None]
    /\ run' = None
    /\ UNCHANGED <<partner, registry>>

Tick ==
    /\ run = None
    /\ \E p \in Partners : partner[p].next # New
    /\ \A p \in Partners : partner[p].next > -MaxOverdue
    /\ partner' = [p \in Partners |-> [partner[p] EXCEPT !.next = IF @ = New THEN @ ELSE @ - 1]]
    /\ UNCHANGED <<registry, run, tx, events>>

Check == StartCheck \/ Ask \/ Answered \/ Incomplete \/ Refused

Next ==
    \/ Check
    \/ EndCheck
    \/ Stopped
    \/ Tick
    \/ Pressed
    \/ \E p \in Partners : ChangeNumber(p) \/ Rename(p) \/ DoTodo(p) \/ Press(p)
    \/ \E n \in Numbers : RegistryChanges(n)

\* The scheduler runs the job while numbers are due, and a run goes on.
Spec == Init /\ [][Next]_vars /\ WF_vars(Check \/ EndCheck)

-----------------------------------------------------------------------------
\* What a partner shows was learnt about the number it has now, however its number
\* changes while it is looked up (write, BV_FIELDS_RESET), or about one that the lookup
\* itself replaced (OldNumberIsVoid); and nothing is ever concluded from an incomplete
\* answer (parse_answer).
StatusIsOfNumber ==
    \A p \in Partners :
        partner[p].status # "none" =>
            /\ partner[p].of \in {Identity(partner[p]), partner[p].lost}
            /\ partner[p].of \notin Broken

\* "everything learnt about the old number is void" (the comment in write).  Violated: the
\* button that takes over a foreign address changes the number, and then stores the status
\* of the old one (_l10n_se_bv_check_one).
OldNumberIsVoid ==
    \A p \in Partners : partner[p].status # "none" => partner[p].of = Identity(partner[p])

\* A partner shown as bankrupt or deregistered, or under another's name, has been told
\* of: this number with this status and note (_l10n_se_bv_apply_status).  A bad status
\* that a lookup left from the number it replaced may stand for the next one's.
BadIsTold ==
    \A p \in Partners :
        /\ partner[p].status \in Bad =>
            \E number \in {Identity(partner[p]), partner[p].lost} :
                partner[p].told.status = <<number, partner[p].status, partner[p].note>>
        /\ partner[p].mismatch => partner[p].told.mismatch = <<Identity(partner[p])>>

\* Every number is looked up when it is due, whatever the numbers before it in the queue
\* are like, unless Bolagsverket keeps failing (_l10n_se_bv_check_due).
EveryNumberChecked ==
    \A p \in Partners : Due(p) ~> ~Due(p)
=============================================================================
