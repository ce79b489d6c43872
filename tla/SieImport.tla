------------------------------ MODULE SieImport -----------------------------
(***************************************************************************)
(* SIE 4 imports (l10n_se_sie4): the vouchers and opening balances of      *)
(* financial years become journal entries, and the result is compared with *)
(* the file's closing balances.  An import runs in the user's request or,  *)
(* when it is large, batch by batch in a scheduled action; it can be       *)
(* stopped, undone (at once or in the background) and checked again.       *)
(*                                                                         *)
(* A request and a run of the scheduled action are transactions: each      *)
(* reads the database as of its first query and commits later, refused     *)
(* when a row it wrote has changed since or a voucher's key is taken.      *)
(*                                                                         *)
(* The books are one balance sheet account: an entry is an amount on it.   *)
(* Entries are posted; accounts, journals and analytics are left out, and  *)
(* so are the checks of the file itself.                                   *)
(***************************************************************************)
EXTENDS Integers, FiniteSets, FiniteSetsExt, Sequences, SequencesExt

CONSTANTS
    Vouchers,       \* by financial year of the file: the amounts of its vouchers, in order
    FileOpening,    \* by year: #IB of the account
    Selections,     \* what a user may choose: [years, opening, diffs]
    Users,          \* requests at the same time
    SyncLimit,      \* SYNC_LIMIT: entries imported in the request
    UndoSyncLimit,  \* UNDO_SYNC_LIMIT: entries deleted in the request
    UndoAttempts,   \* UNDO_ATTEMPTS
    MaxImports,     \* bound: imports ever created
    MaxTrouble      \* bound: what others do to the books, restarts, and uses of Stop,
                    \* Check Again and Delete

ASSUME SieAssumption ==
    /\ Vouchers \in Seq(Seq(Int))
    /\ Selections \subseteq [years : (SUBSET DOMAIN Vouchers) \ {{}}, opening : BOOLEAN, diffs : BOOLEAN]
    /\ SyncLimit \in Nat /\ UndoSyncLimit \in Nat /\ UndoAttempts \in Nat
    /\ MaxImports \in Nat /\ MaxTrouble \in Nat
    /\ "cron" \notin Users

VARIABLES
    books,     \* the journal entries
    imp,       \* the l10n_se.sie.import records, by id
    lock,      \* the lock date: years up to it are closed
    made,      \* ids used so far
    tx,        \* by process: the transaction it is in, or None
    trouble,   \* how much of it (bound)
    skewed,    \* what an import read was changed by another import or undo before it
               \* ended (history)
    meddled    \* the books were changed by other ways than imports (history)

db == <<books, imp, lock>>
vars == <<db, made, tx, trouble, skewed, meddled>>

Processes == Users \cup {"cron"}
Imports == 1..MaxImports
Years == DOMAIN Vouchers

FileClosing == [y \in Years |-> FoldLeft(+, FileOpening[y], Vouchers[y])]

Key == [year : Years, kind : {"IB", "IBDIFF", "voucher", "none"}, number : Nat]
Entry == [imp : 0..MaxImports, key : Key, amount : Int, live : BOOLEAN, frozen : BOOLEAN]
NoImport == [state |-> "none", years |-> {}, opening |-> FALSE, diffs |-> FALSE,
             attempts |-> 0, check |-> [y \in Years |-> "none"]]

Busy == {"queued", "running", "undoing"}

Database == [books |-> books, imp |-> imp, lock |-> lock]
None == [kind |-> "none"]

Init ==
    /\ books = {}
    /\ imp = [i \in Imports |-> NoImport]
    /\ lock = 0
    /\ made = 0
    /\ tx = [p \in Processes |-> None]
    /\ trouble = 0
    /\ skewed = FALSE
    /\ meddled = FALSE

-----------------------------------------------------------------------------
(* The analysis, on the database as a transaction reads it *)

Live(entries) == {e \in entries : e.live}
Amounts(entries) == MapThenSumSet(LAMBDA e : e.amount, entries)
OpeningKind(e) == e.key.kind \in {"IB", "IBDIFF"}

\* Mutant: cancelled entries are found as well.
KeysOfAll(entries) == {e.key : e \in entries}

\* existing_keys: a cancelled entry does not hold its voucher.
Keys(entries) == {e.key : e \in Live(entries)}

\* odoo_balances of sie_analysis: before a year, with the opening entries of its first day.
BalanceBefore(entries, y) ==
    Amounts({e \in Live(entries) : e.key.year < y \/ (e.key.year = y /\ OpeningKind(e))})

\* _odoo_balances: at the end of a year.
BalanceAt(entries, y) == Amounts({e \in Live(entries) : e.key.year <= y})

FirstYear(import) == Min(import.years)
Prev(import, y) == {z \in import.years : z < y}

\* The closing balance of the selected year before, or else Odoo's own balance.
Before(entries, import, y) ==
    IF Prev(import, y) # {} THEN FileClosing[Max(Prev(import, y))] ELSE BalanceBefore(entries, y)

Item(y, kind, number, amount, before) ==
    [key |-> [year |-> y, kind |-> kind, number |-> number], amount |-> amount, before |-> before]

IB(y) == [year |-> y, kind |-> "IB", number |-> 0]
FromFile(import, y) == import.opening /\ y = FirstYear(import)

\* The entry for the opening balance of a year: the balance itself, or how it
\* differs from what the year before closed with.
OpeningItem(entries, import, y) ==
    LET before == Before(entries, import, y)
    IN  IF FromFile(import, y) THEN Item(y, "IB", 0, FileOpening[y], 0)
        ELSE Item(y, "IBDIFF", 0, FileOpening[y] - before, before)

\* What is already in Odoo, was not asked for or is nothing takes no entry.
Wanted(keys, import, item) ==
    /\ item.key \notin keys
    /\ item.key.kind = "IBDIFF" =>
        import.diffs /\ item.amount # 0 /\ IB(item.key.year) \notin keys

VoucherItems(y) == {Item(y, "voucher", n, Vouchers[y][n], 0) : n \in DOMAIN Vouchers[y]}

\* analyse: what the import would create ...
Items(entries, import) ==
    {item \in UNION {{OpeningItem(entries, import, y)} \cup VoucherItems(y) : y \in import.years} :
        Wanted(Keys(entries), import, item)}

\* ... and in which order: year by year, the opening balance before the vouchers.
Earlier(item, other) ==
    \/ item.key.year < other.key.year
    \/ item.key.year = other.key.year /\ item.key.number < other.key.number

\* An opening balance after the year's start contains the year already.
LaterOpening(seen, i, y) ==
    \E e \in Live(seen.books) : OpeningKind(e) /\ e.imp # i /\ e.key.year > y

\* Mutant: only posted entries of the first year itself count as entries.
BooksOfYear(entries, y) == {e \in Live(entries) : e.key.year = y}

\* entry_dates: whether the books are empty.
BooksTaken(entries, y) == Live(entries)

\* What stops the import.
Blocked(seen, i, import) ==
    \/ \E y \in import.years : LaterOpening(seen, i, y)
    \/ LET y == FirstYear(import)
       IN  import.opening /\ IB(y) \notin Keys(seen.books) /\ BooksTaken(seen.books, y) # {}
    \/ \E item \in Items(seen.books, import) : item.key.year <= seen.lock

-----------------------------------------------------------------------------
(* Running *)

\* Mutant: the difference is booked whatever the books say by now.
AsAnalysed(entries, item) == TRUE

\* _opening_diff_vals: refused when the books are not what they were compared with.
StillAgrees(entries, item) ==
    item.key.kind = "IBDIFF" => BalanceBefore(entries, item.key.year) = item.before

\* _create_entries; ok is FALSE when an entry is refused.
Created(entries, i, items) ==
    LET entry(item) == [imp |-> i, key |-> item.key, amount |-> item.amount, live |-> TRUE, frozen |-> FALSE]
    IN  [books |-> entries \cup {entry(item) : item \in items},
         ok    |-> \A item \in items :
                    StillAgrees(entries \cup {entry(other) : other \in {o \in items : Earlier(o, item)}}, item)]

\* _check: a year's balance is compared with #UB.
Checked(entries, import) ==
    [import EXCEPT !.check = [y \in Years |->
        IF y \notin import.years THEN "none"
        ELSE IF BalanceAt(entries, y) = FileClosing[y] THEN "ok" ELSE "deviates"]]

\* Mutant: only imports are checked again, not the reconciliations.
LaterDone(seen, i, import) ==
    {j \in Imports \ {i} : seen.imp[j].state = "done" /\ \E y \in seen.imp[j].years : y > FirstYear(import)}

\* Imports and reconciliations of later years.
Later(seen, i, import) ==
    {j \in Imports \ {i} : /\ seen.imp[j].state \in {"done", "reconciled"}
                           /\ \E y \in seen.imp[j].years : y > FirstYear(import)}

\* _finish, _check_later_imports
Finished(seen, i, import, entries) ==
    [j \in Imports |->
        IF j = i THEN [Checked(entries, import) EXCEPT !.state = "done"]
        ELSE IF j \in Later(seen, i, import) THEN Checked(entries, seen.imp[j])
        ELSE seen.imp[j]]

\* _run, creating these of the items: the database it leaves, or ok = FALSE.
RunOf(seen, i, import, batch) ==
    LET result == Created(seen.books, i, batch)
        running == [import EXCEPT !.state = "running"]
    IN  [ok |-> ~Blocked(seen, i, import) /\ result.ok,
         db |-> [seen EXCEPT !.books = result.books,
                    !.imp = IF batch = Items(seen.books, import)
                            THEN Finished(seen, i, running, result.books)
                            ELSE [seen.imp EXCEPT ![i] = running]]]

\* The imports transaction t writes: its own (entry_done, state), and those whose
\* check it does anew.
Written(t, seen, new) ==
    {t.id} \cup (IF new.imp[t.id].state = "done" THEN Later(seen, t.id, new.imp[t.id]) ELSE {})

\* Rows transaction t wrote that have changed since its snapshot.
RowsTaken(t, seen, new) ==
    \/ \E i \in Written(t, seen, new) : imp[i] # seen.imp[i]
    \/ seen.books \ new.books # {} /\ ~(seen.books \ new.books \subseteq books)

\* _l10n_se_sie_key_uniq; entries that were not imported have no key.
Indexed(entries) == Keys(entries)

Keyed(entries) == {e \in Live(entries) : e.key.kind # "none"}

KeysUnique(entries) == Cardinality(Indexed(Keyed(entries))) = Cardinality(Keyed(entries))

Merged(seen, new) == (books \ (seen.books \ new.books)) \cup (new.books \ seen.books)

\* The transaction of process p leaves the database new.
CommitDb(p, new) ==
    LET seen == tx[p].seen
    IN  /\ ~RowsTaken(tx[p], seen, new)
        /\ KeysUnique(Merged(seen, new))
        /\ books' = Merged(seen, new)
        /\ imp' = [i \in Imports |-> IF new.imp[i] # seen.imp[i] THEN new.imp[i] ELSE imp[i]]
        /\ tx' = [tx EXCEPT ![p] = None]
        /\ skewed' = \/ skewed
                     \/ books # seen.books /\ tx[p].kind \in {"import", "run"}
                     \/ books' # books /\ \E i \in Imports \ {tx[p].id} : imp[i].state = "running"

\* The database refuses: nothing of the transaction remains.
Refused(p, new) ==
    /\ RowsTaken(tx[p], tx[p].seen, new) \/ ~KeysUnique(Merged(tx[p].seen, new))
    /\ tx' = [tx EXCEPT ![p] = None]
    /\ UNCHANGED <<books, imp, skewed>>

Trouble == trouble < MaxTrouble /\ trouble' = trouble + 1

EndWith(p, new) == CommitDb(p, new) \/ Refused(p, new)

\* The wizard's action_import: a small import runs in the request ...
StartImport(u) ==
    /\ tx[u] = None
    /\ made < MaxImports
    /\ \E choice \in Selections :
        LET import == [NoImport EXCEPT !.years = choice.years, !.opening = choice.opening,
                                       !.diffs = choice.diffs]
            items == Items(books, import)
            new == [import EXCEPT !.state = "queued"]
        IN  /\ ~Blocked(Database, made + 1, import)
            /\ items # {}
            /\ IF Cardinality(items) <= SyncLimit
               THEN /\ tx' = [tx EXCEPT ![u] = [kind |-> "import", id |-> made + 1, import |-> new,
                                                seen |-> Database]]
                    /\ imp' = imp
               ELSE \* ... and a large one is queued for the scheduled action.
                    /\ imp' = [imp EXCEPT ![made + 1] = new]
                    /\ tx' = tx
    /\ made' = made + 1
    /\ UNCHANGED <<books, lock, trouble, skewed, meddled>>

EndImport(u) ==
    /\ tx[u].kind = "import"
    /\ LET t == tx[u]
           run == RunOf(t.seen, t.id, t.import, Items(t.seen.books, t.import))
       IN  IF run.ok THEN EndWith(u, run.db)
           ELSE tx' = [tx EXCEPT ![u] = None] /\ UNCHANGED <<books, imp, skewed>>
    /\ UNCHANGED <<lock, made, trouble, meddled>>

\* action_reconcile: compares and creates nothing.
Reconcile(u) ==
    /\ tx[u] = None
    /\ made < MaxImports
    /\ \E ys \in {choice.years : choice \in Selections} :
        imp' = [imp EXCEPT ![made + 1] =
            [Checked(books, [NoImport EXCEPT !.years = ys]) EXCEPT !.state = "reconciled"]]
    /\ made' = made + 1
    /\ UNCHANGED <<books, lock, tx, trouble, skewed, meddled>>

BusyImports == {i \in Imports : imp[i].state \in Busy}
Oldest == Min(BusyImports)

\* _cron_process takes the oldest import that waits.
CronStart ==
    /\ tx["cron"] = None
    /\ BusyImports # {}
    /\ imp[Oldest].state # "undoing"
    /\ tx' = [tx EXCEPT !["cron"] = [kind |-> "run", id |-> Oldest, seen |-> Database]]
    /\ UNCHANGED <<db, made, trouble, skewed, meddled>>

\* A run creates what the time allows, at least one batch, and is marked failed
\* when anything is refused.
CronEnd ==
    /\ tx["cron"].kind = "run"
    /\ LET t == tx["cron"]
           import == t.seen.imp[t.id]
           items == Items(t.seen.books, import)
       IN  \E batch \in {{item \in items : ~Earlier(last, item)} : last \in items} \cup {items} :
            LET run == RunOf(t.seen, t.id, import, batch)
            IN  EndWith("cron", IF run.ok THEN run.db
                                ELSE [t.seen EXCEPT !.imp[t.id].state = "failed"])
    /\ UNCHANGED <<lock, made, trouble, meddled>>

\* The attempt of an undo is counted in a transaction of its own.
AttemptCounted(n) == n + 1

\* _cron_undo up to its first commit.
CronUndoCount ==
    /\ tx["cron"] = None
    /\ BusyImports # {}
    /\ imp[Oldest].state = "undoing"
    /\ imp' = [imp EXCEPT ![Oldest].attempts = AttemptCounted(@)]
    /\ tx' = [tx EXCEPT !["cron"] = [kind |-> "counted", id |-> Oldest]]
    /\ UNCHANGED <<books, lock, made, trouble, skewed, meddled>>

\* After the commit it reads the database anew.
CronUndoStart ==
    /\ tx["cron"].kind = "counted"
    /\ tx' = [tx EXCEPT !["cron"] = [kind |-> "undo", id |-> tx["cron"].id, seen |-> Database]]
    /\ UNCHANGED <<db, made, trouble, skewed, meddled>>

Own(entries, i) == {e \in entries : e.imp = i}

\* Mutant: entries in a locked period are not looked for.
FrozenOnly(seen, i) == {e \in Own(seen.books, i) : e.frozen}

\* _undo_blockers: locked periods, and entries reconciled, reversed or changed.
Blockers(seen, i) == {e \in Own(seen.books, i) : e.frozen \/ e.key.year <= seen.lock}

\* _undo_all
Undone(seen, i) ==
    [seen EXCEPT !.books = @ \ Own(seen.books, i),
        !.imp[i].state = "undone", !.imp[i].check = [y \in Years |-> "none"]]

CronUndoEnd ==
    /\ tx["cron"].kind = "undo"
    /\ LET t == tx["cron"]
       IN  EndWith("cron",
            IF t.seen.imp[t.id].state = "none" THEN t.seen
            ELSE IF t.seen.imp[t.id].attempts > UndoAttempts \/ Blockers(t.seen, t.id) # {}
            THEN [t.seen EXCEPT !.imp[t.id].state = "failed"]
            ELSE Undone(t.seen, t.id))
    /\ UNCHANGED <<lock, made, trouble, meddled>>

\* The server's time limit cuts off an undo each time it is tried ...
TimedOut ==
    /\ tx["cron"].kind = "undo"
    /\ tx["cron"].seen.imp[tx["cron"].id].attempts <= UndoAttempts
    /\ tx' = [tx EXCEPT !["cron"] = None]
    /\ UNCHANGED <<db, made, trouble, skewed, meddled>>

\* ... and a restart of the worker whatever it does, external.
CronKilled ==
    /\ tx["cron"] # None
    /\ Trouble
    /\ tx' = [tx EXCEPT !["cron"] = None]
    /\ UNCHANGED <<db, made, skewed, meddled>>

\* action_undo, in the request or handed over to the scheduled action.
StartUndo(u, i) ==
    /\ tx[u] = None
    /\ imp[i].state \in {"done", "failed"}
    /\ Blockers(Database, i) = {}
    /\ IF Cardinality(Own(books, i)) > UndoSyncLimit
       THEN /\ imp' = [imp EXCEPT ![i].state = "undoing", ![i].attempts = 0]
            /\ tx' = tx
       ELSE /\ tx' = [tx EXCEPT ![u] = [kind |-> "undo", id |-> i, seen |-> Database]]
            /\ imp' = imp
    /\ UNCHANGED <<books, lock, made, trouble, skewed, meddled>>

EndUndo(u) ==
    /\ tx[u].kind = "undo"
    /\ EndWith(u, Undone(tx[u].seen, tx[u].id))
    /\ UNCHANGED <<lock, made, trouble, meddled>>

\* action_stop
Stop(i) ==
    /\ imp[i].state \in Busy
    /\ Trouble
    /\ imp' = [imp EXCEPT ![i].state = "failed"]
    /\ UNCHANGED <<books, lock, made, tx, skewed, meddled>>

\* action_check_again
CheckAgain(i) ==
    /\ imp[i].state \in {"done", "reconciled"}
    /\ Trouble
    /\ imp' = [imp EXCEPT ![i] = Checked(books, @)]
    /\ UNCHANGED <<books, lock, made, tx, skewed, meddled>>

\* Deleting the record, refused while it has entries.
Unlink(i) ==
    /\ imp[i].state # "none"
    /\ Own(books, i) = {}
    /\ Trouble
    /\ imp' = [imp EXCEPT ![i] = NoImport]
    /\ UNCHANGED <<books, lock, made, tx, skewed, meddled>>

-----------------------------------------------------------------------------
(* What others do to the books, external *)

CancelEntry(e) ==
    /\ e.live /\ ~e.frozen /\ e.key.year > lock
    /\ Trouble
    /\ books' = (books \ {e}) \cup {[e EXCEPT !.live = FALSE]}
    /\ meddled' = TRUE
    /\ UNCHANGED <<imp, lock, made, tx, skewed>>

\* An entry is reconciled, reversed, hashed or changed.
FreezeEntry(e) ==
    /\ e.live /\ ~e.frozen
    /\ Trouble
    /\ books' = (books \ {e}) \cup {[e EXCEPT !.frozen = TRUE]}
    /\ UNCHANGED <<imp, lock, made, tx, skewed, meddled>>

\* An entry of the company's own.
BookEntry(y) ==
    /\ y > lock
    /\ Trouble
    /\ books' = books \cup {[imp |-> 0, key |-> [year |-> y, kind |-> "none", number |-> trouble],
                             amount |-> 1, live |-> TRUE, frozen |-> FALSE]}
    /\ meddled' = TRUE
    /\ UNCHANGED <<imp, lock, made, tx, skewed>>

LockYear(y) ==
    /\ y > lock
    /\ Trouble
    /\ lock' = y
    /\ UNCHANGED <<books, imp, made, tx, skewed, meddled>>

Cron ==
    \/ CronStart
    \/ CronEnd
    \/ CronUndoCount
    \/ CronUndoStart
    \/ CronUndoEnd

Next ==
    \/ \E u \in Users :
        \/ StartImport(u)
        \/ EndImport(u)
        \/ Reconcile(u)
        \/ EndUndo(u)
        \/ \E i \in Imports : StartUndo(u, i)
    \/ Cron
    \/ TimedOut
    \/ CronKilled
    \/ \E i \in Imports : Stop(i) \/ CheckAgain(i) \/ Unlink(i)
    \/ \E e \in books : CancelEntry(e) \/ FreezeEntry(e)
    \/ \E y \in Years : BookEntry(y) \/ LockYear(y)

Spec == Init /\ [][Next]_vars

-----------------------------------------------------------------------------
\* An opening balance from the file contains everything before it: no imported
\* entry of an earlier year is in the books beside it, unless two imports did not
\* see each other or entries were cancelled meanwhile (the order of the years and
\* "only into empty books" in analyse).
CountedOnce ==
    skewed \/ meddled \/
        \A e, f \in Keyed(books) : e.key.kind = "IB" => f.key.year >= e.key.year

\* An import that becomes done has every voucher of its years in the books once.
VouchersOnce ==
    \A i \in Imports :
        (imp[i].state # "done" /\ imp'[i].state = "done" /\ ~skewed') =>
            \A y \in imp'[i].years : \A n \in DOMAIN Vouchers[y] :
                Cardinality({e \in Live(books') : e.key = [year |-> y, kind |-> "voucher", number |-> n]}) = 1

\* An import that is done has put every voucher of its years into the books exactly
\* once, whatever was imported, undone or cancelled before and however many batches it
\* took (analyse, _run, _l10n_se_sie_key_uniq), unless the books changed under it.
EveryVoucherOnce == [][VouchersOnce]_vars

\* When the difference of an opening balance is booked, Odoo's opening balance becomes
\* the file's, also in books that others have changed and in a later batch, unless
\* they changed during the run (analyse, _opening_diff_vals).
OpeningAsFile ==
    [][\A e \in books' \ books :
        (e.key.kind = "IBDIFF" /\ e.live /\ ~e.frozen /\ ~skewed') =>
            BalanceBefore(books', e.key.year) = FileOpening[e.key.year]]_vars

\* Entries go with all others of an import that is undone.
UndoneWhole ==
    \A e \in books :
        (~\E f \in books' : f.imp = e.imp /\ f.key = e.key) =>
            /\ imp'[e.imp].state = "undone"
            /\ Own(books', e.imp) = {}
            /\ ~e.frozen
            /\ \E p \in Processes : /\ tx[p].kind = "undo" /\ tx'[p] = None
                                    /\ e.key.year > tx[p].seen.lock

\* Undo is all or nothing, also in the background and when it is stopped or killed:
\* entries go only with all entries of an import that is then undone, and never one
\* that is reconciled, changed or in a year that was locked before the undo began.
UndoAllOrNothing == [][UndoneWhole]_vars

\* An import that becomes done has the later ones checked anew.
ChecksFresh ==
    \A i, j \in Imports :
        (/\ imp[i].state # "done" /\ imp'[i].state = "done" /\ ~skewed'
         /\ j # i /\ imp'[j].state \in {"done", "reconciled"}
         /\ \E p \in Processes : tx[p] # None /\ tx'[p] = None /\ tx[p].seen.imp[j].state \in {"done", "reconciled"}
         /\ \E y \in imp'[j].years : y > FirstYear(imp'[i])) =>
            imp'[j].check = Checked(books', imp'[j]).check

\* When an import is finished, what the imports and reconciliations of later years
\* say of their balances is what the books now hold, for all that existed when the
\* finishing run began (_check_later_imports).
LaterChecksFresh == [][ChecksFresh]_vars
=============================================================================
