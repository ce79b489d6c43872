------------------------ MODULE ComplianceCalendar --------------------------
(***************************************************************************)
(* The compliance calendar of one company (l10n_se_compliance_calendar):   *)
(* the nightly update and the button Update Now write the statutory dates, *)
(* those of the company's own rules and its anchor dates into the calendar *)
(* of this year and the next two, each in one transaction that sees the    *)
(* database as it was when it began.  Administrators change settings,      *)
(* rules and anchor dates and users move, archive and delete events.         *)
(*                                                                         *)
(* Of today only the year matters.  An event is told apart by its key and  *)
(* its day; titles and texts are left out, so the hash of an event stands  *)
(* for the day it was computed for.                                        *)
(***************************************************************************)
EXTENDS DeadlineRules

CONSTANTS
    Profiles,       \* what the settings of the company may say
    RuleBook,       \* custom rules there may be
    AnchorDates,    \* days that may be given to anchor dates
    Updaters,      \* the nightly job and users who press Update Now
    FirstYear,
    LastYear,       \* bound
    EditedDays,     \* bound: the days whose events users change
    MaxChanges      \* bound: what administrators and users do

\* What the code checks of profiles and rules.  Every day is one of Python's calendar, also when
\* it moves to an earlier weekday or is for a period of an earlier year (_years).
ASSUME CalendarAssumption ==
    /\ FirstYear \in Nat /\ LastYear \in Nat /\ 4 < FirstYear /\ FirstYear <= LastYear
    /\ \A p \in Profiles : IsProfile(p)
    /\ AnchorDates \subseteq Nat
    /\ \A r \in RuleBook :
          /\ r.mode \in {"keep", "previous", "next"}
          /\ r.type = "fixed" => r.month \in 1..12 /\ r.day \in 1..31
          /\ r.type # "fixed" => \A a \in AnchorDates :
                OffsetDate(a, r.amount, r.unit, r.direction) \in Nat \ 0..365

VARIABLES
    year,       \* this year
    settings,   \* of the company: active, profile, showCustom
    rules,      \* the custom rules that are active
    anchors,    \* by id: the active anchor dates, all of one name and shown
    calendar,   \* by key: the company's events in the calendar
    seen,       \* whether the calendar contact and its filters are in place
    update,     \* by process: the update in progress, or NoUpdate
    lastSync,   \* history: what the last update computed from
    changes     \* (bound)

config == <<settings, rules, anchors>>
calendarVars == <<year, config, calendar, seen, update, lastSync, changes>>

HorizonYears == 2       \* HORIZON_YEARS
AnchorIds == 1..2
NoUpdate == [config |-> <<>>]

CalendarInit ==
    /\ year = FirstYear
    /\ settings \in [active : {TRUE}, profile : Profiles, showCustom : {TRUE}]
    /\ rules = RuleBook
    /\ anchors = <<>>
    /\ calendar = <<>>
    /\ seen = FALSE
    /\ update = [c \in Updaters |-> NoUpdate]
    /\ lastSync = <<>>
    /\ changes = 0

-----------------------------------------------------------------------------
(* What the calendar should hold *)

\* _l10n_se_cc_horizon
Start(y) == Day(y, 1, 1)
End(y) == Day(y + HorizonYears, 12, 31)
Shown(day, y) == Start(y) <= day /\ day <= End(y)

\* _l10n_se_cc_for_company: the company's own date, or else the shared one of the year.
ForCompany(as) ==
    {i \in DOMAIN as : as[i].own \/ ~\E j \in DOMAIN as : as[j].own /\ YearOf(as[j].date) = YearOf(as[i].date)}

\* The rules' _l10n_se_cc_entries.  An entry has the source it comes from, as two may
\* have one key and one day.
RuleEntries(r, as, y) ==
    IF r.type = "fixed"
    THEN {[key |-> <<"custom", r.id, n>>, date |-> Adjusted(Clamped(n, r.month, r.day), r.mode), of |-> 0] :
            n \in y..(y + HorizonYears)}
    ELSE {[key |-> <<"custom", r.id, YearOf(as[i].date)>>, of |-> i,
           date |-> Adjusted(OffsetDate(as[i].date, r.amount, r.unit, r.direction), r.mode)] :
            i \in ForCompany(as)}

AnchorEntries(as) == {[key |-> <<"anchor", i, 0>>, date |-> as[i].date, of |-> i] : i \in ForCompany(as)}

Statutory ==
    [p \in Profiles |-> [y \in FirstYear..LastYear |->
        {[key |-> d.key, date |-> d.date, of |-> 0] : d \in ComputeDeadlines(p, Start(y), End(y))}]]

\* _l10n_se_cc_entries
Entries(c, y) ==
    LET own == (UNION {RuleEntries(r, c[3], y) : r \in c[2]}) \cup AnchorEntries(c[3])
    IN  Statutory[c[1].profile][y]
        \cup (IF c[1].showCustom THEN {e \in own : Shown(e.date, y)} ELSE {})

-----------------------------------------------------------------------------
(* The update: _l10n_se_cc_sync *)

\* Whether an event is written again.
Outdated(event, entry) == event.computed # entry.date \/ ~event.active

AsComputed(entry) == [date |-> entry.date, computed |-> entry.date, active |-> TRUE]

BeginSync(c) ==
    /\ update[c] = NoUpdate
    /\ update' = [update EXCEPT ![c] = [config |-> config, calendar |-> calendar, year |-> year,
                                        overtaken |-> FALSE]]
    /\ UNCHANGED <<year, config, calendar, seen, lastSync, changes>>

\* The row of the company has been written: an update that has begun is refused.
Overtaken ==
    [c \in Updaters |-> IF update[c] = NoUpdate THEN NoUpdate ELSE [update[c] EXCEPT !.overtaken = TRUE]]

\* What an update writes, as it read the database and the year.
Expected(t) == IF t.config[1].active THEN Entries(t.config, t.year) ELSE {}

\* An update ends; refused when two entries have one key, or when somebody else has written
\* the company or an event it writes since it began.
CommitSync(c) ==
    /\ update[c] # NoUpdate
    /\ \E t \in {update[c]} : \E entries \in {Expected(t)} :
          LET keys    == {e.key : e \in entries}
              written == {e \in entries : e.key \in DOMAIN t.calendar => Outdated(t.calendar[e.key], e)}
              set     == {e.key : e \in written}
              removed == {k \in DOMAIN t.calendar \ keys : t.calendar[k].date >= Start(t.year)}
              refused == \/ t.overtaken
                         \/ \E e, f \in entries : e # f /\ e.key = f.key
                         \/ \E k \in removed \cup (set \cap DOMAIN t.calendar) :
                               k \notin DOMAIN calendar \/ calendar[k] # t.calendar[k]
          IN  IF refused
              THEN update' = [update EXCEPT ![c] = NoUpdate] /\ UNCHANGED <<calendar, seen, lastSync>>
              ELSE /\ update' = [Overtaken EXCEPT ![c] = NoUpdate]
                   /\ calendar' = [k \in (DOMAIN calendar \ removed) \cup set |->
                         IF k \in set THEN AsComputed(CHOOSE e \in written : e.key = k) ELSE calendar[k]]
                   /\ seen' = (seen \/ t.config[1].active)
                   /\ lastSync' = <<t.config, t.year>>
    /\ UNCHANGED <<year, config, changes>>

-----------------------------------------------------------------------------
(* Time, administrators and users *)

NewYear ==
    /\ year < LastYear
    /\ year' = year + 1
    /\ UNCHANGED <<config, calendar, seen, update, lastSync, changes>>

Change == changes < MaxChanges /\ changes' = changes + 1

\* The settings are on the company's row.
ChangeSettings ==
    /\ Change
    /\ \E new \in [active : BOOLEAN, profile : Profiles, showCustom : BOOLEAN] :
        \* one setting at a time
        /\ Cardinality({f \in DOMAIN new : new[f] # settings[f]}) = 1
        /\ settings' = new
    /\ update' = Overtaken
    /\ UNCHANGED <<year, rules, anchors, calendar, seen, lastSync>>

ChangeRules ==
    /\ Change
    /\ \E r \in RuleBook : rules' = IF r \in rules THEN rules \ {r} ELSE rules \cup {r}
    /\ UNCHANGED <<year, settings, anchors, calendar, seen, update, lastSync>>

\* _check_one_per_year
OnePerYear(as, i) ==
    \A j \in DOMAIN as \ {i} : as[j].own # as[i].own \/ YearOf(as[j].date) # YearOf(as[i].date)

Anchors == [date : AnchorDates, own : BOOLEAN]

\* Anchor dates are created, changed and archived; each of two administrators at the
\* same time checks what was there before.
ChangeAnchors ==
    /\ Change
    /\ \/ \E i \in AnchorIds, a \in Anchors :
            /\ i \in DOMAIN anchors => anchors[i] # a
            /\ anchors' = [j \in DOMAIN anchors \cup {i} |-> IF j = i THEN a ELSE anchors[j]]
            /\ OnePerYear(anchors', i)
       \/ \E a, b \in Anchors : anchors = <<>> /\ anchors' = <<a, b>>
       \/ \E i \in DOMAIN anchors : anchors' = [j \in DOMAIN anchors \ {i} |-> anchors[j]]
    /\ UNCHANGED <<year, settings, rules, calendar, seen, update, lastSync>>

\* A user drags an event to a later day, archives or deletes it, or hides the contact.
EditEvent ==
    /\ Change
    /\ \/ \E k \in {j \in DOMAIN calendar : calendar[j].date \in EditedDays} :
            \/ calendar' = [calendar EXCEPT ![k].date = @ + 1]
            \/ calendar' = [calendar EXCEPT ![k].active = FALSE]
            \/ calendar' = [j \in DOMAIN calendar \ {k} |-> calendar[j]]
       \/ UNCHANGED calendar
    /\ seen' = (seen /\ calendar' # calendar)
    /\ UNCHANGED <<year, config, update, lastSync>>

CalendarNext ==
    \/ \E c \in Updaters : BeginSync(c) \/ CommitSync(c)
    \/ NewYear \/ ChangeSettings \/ ChangeRules \/ ChangeAnchors \/ EditEvent

CalendarSpec == CalendarInit /\ [][CalendarNext]_calendarVars

-----------------------------------------------------------------------------
(* Properties *)

\* The first weekday from a day on that is no holiday: there is one within a year or so.
FirstWeekday(day) ==
    CHOOSE d \in day..(day + 400) : IsBusinessDay(d) /\ \A n \in day..(d - 1) : ~IsBusinessDay(n)

\* The statutory dates of the years y on, whichever period they are for.
Lawful ==
    [p \in Profiles |-> [y \in FirstYear..LastYear |->
      {e \in {[key |-> d.key, date |-> IF d.move THEN FirstWeekday(d.nominal) ELSE d.nominal] :
                d \in UNION {DueFor(p, n) : n \in (y - 4)..(y + HorizonYears + 1)}} : Shown(e.date, y)}]]

\* A user has moved it since the update wrote it.
Moved(k) == calendar[k].date # calendar[k].computed

\* Nobody has changed it since the updates in progress began.
Untouched(k) ==
    \A c \in Updaters : update[c] # NoUpdate =>
        /\ k \in DOMAIN calendar <=> k \in DOMAIN update[c].calendar
        /\ k \in DOMAIN calendar => calendar[k] = update[c].calendar[k]

\* After every update the calendar holds each statutory date of the settings it saw once,
\* on the day it falls due and not archived, and no other from this year on, whatever was
\* there before; only an event that a user has moved is left where it is, and one that is
\* changed meanwhile is left to the next update (_l10n_se_cc_sync).
CalendarIsLawful ==
    [][lastSync' # lastSync =>
        LET c == lastSync'[1]
            y == lastSync'[2]
            lawful == IF c[1].active THEN Lawful[c[1].profile][y] ELSE {}
            shown == {k \in DOMAIN calendar' : k[1] \notin {"custom", "anchor"} /\ calendar'[k].date >= Start(y)}
        IN  /\ \A e \in lawful : Untouched(e.key) =>
                e.key \in DOMAIN calendar' /\ calendar'[e.key].computed = e.date /\ calendar'[e.key].active
            /\ \A k \in shown : Untouched(k) => \E e \in lawful : e.key = k]_calendarVars

\* A date that has been announced stays as long as what it is computed from does, until
\* its year has passed; but for a rule of the user's own for the end of the year before
\* (_years, _l10n_se_cc_horizon).
AnnouncedStays ==
    [][lastSync' # lastSync /\ lastSync # <<>> /\ lastSync'[1] = lastSync[1] =>
        \A k \in DOMAIN calendar :
            \/ calendar[k].date < Start(lastSync'[2]) \/ Moved(k)
            \/ k[1] = "custom" /\ k[3] < lastSync'[2]
            \/ k \in DOMAIN calendar' /\ calendar'[k].date = calendar[k].date]_calendarVars
=============================================================================
