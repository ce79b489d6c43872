--------------------------- MODULE SebPaymentFile ---------------------------
(***************************************************************************)
(* SEB payment files (l10n_se_payment_file_seb_csv): vendor bills are put  *)
(* in a file that is signed in the internet bank, and stay unpaid until    *)
(* the bank statement line is reconciled.  Meanwhile the file's lines must *)
(* keep the bills out of other files.                                      *)
(*                                                                         *)
(* Requests that export run concurrently: each one reads the database as   *)
(* of its first query (PostgreSQL, repeatable read) and commits later.     *)
(* The checks of account and reference data are not modelled: a request    *)
(* they refuse changes nothing.                                            *)
(***************************************************************************)
EXTENDS Integers, FiniteSets

CONSTANTS
    Bills,     \* vendor bills (account.move)
    Totals,    \* what a bill can be for
    Users,     \* concurrent requests
    MaxFiles,  \* bound: files ever created
    MaxOther   \* bound: changes of bills by other ways than a file

ASSUME FileAssumption ==
    /\ Totals \subseteq Nat \ {0}
    /\ MaxFiles \in Nat
    /\ MaxOther \in Nat

VARIABLES
    bill,       \* [posted, total, due, other]: due is amount_residual
    file,       \* the state of l10n_se.payment.export, by id
    line,       \* its l10n_se.payment.export.line, by file and bill
    made,       \* files created so far
    request,    \* by user: what the request has read, or None
    otherwise,  \* bills that were settled or changed by other ways (history)
    others      \* how often (bound)

db == <<bill, file, line, made>>
vars == <<db, request, otherwise, others>>

Files == 1..MaxFiles
Pending == {"draft", "exported"}

\* A file has at most one line for a bill (create, 503-537).  reached is the part
\* of the bill the payment is reconciled with.
Line == [state : {"none", "draft", "exported", "done", "cancelled"},
         amount : Nat, due0 : Nat, reached : Nat]
NoLine == [state |-> "none", amount |-> 0, due0 |-> 0, reached |-> 0]

Snapshot == [bill |-> bill, file |-> file, line |-> line, made |-> made]
None == [made |-> -1]

Reading(u) == request[u] # None

Init ==
    /\ bill \in [Bills -> {[posted |-> TRUE, total |-> t, due |-> t, other |-> 0] : t \in Totals}]
    /\ file = [f \in Files |-> "none"]
    /\ line = [f \in Files |-> [b \in Bills |-> NoLine]]
    /\ made = 0
    /\ request = [u \in Users |-> None]
    /\ otherwise = {}
    /\ others = 0

-----------------------------------------------------------------------------
(* The guard against paying a bill twice *)

\* Mutant: a done line no longer holds its bill.
HoldsWhilePending(l, due) == l.state \in Pending

\* _compute_holds_bill: a done line is released once the amount due has dropped
\* by at least the amount paid.
Holds(l, due) ==
    \/ l.state \in Pending
    \/ l.state = "done" /\ l.due0 - due < l.amount

\* Mutant: only files that may still be signed are looked at.
PayableIfNotPending(seen, b, amount, own) ==
    /\ seen.bill[b].posted
    /\ seen.bill[b].due > 0
    /\ amount > 0 /\ amount <= seen.bill[b].due
    /\ \A f \in Files \ {own} : ~HoldsWhilePending(seen.line[f][b], seen.bill[b].due)

\* _l10n_se_seb_check, as the request sees the database; own is the file whose
\* line is checked again, 0 for a new one.  create() refuses the same bills.
Payable(seen, b, amount, own) ==
    /\ seen.bill[b].posted
    /\ seen.bill[b].due > 0
    /\ amount > 0 /\ amount <= seen.bill[b].due
    /\ \A f \in Files \ {own} : ~Holds(seen.line[f][b], seen.bill[b].due)

\* _l10n_se_seb_pending_lines
MayBeSigned(b) == \E f \in Files : line[f][b].state \in Pending

\* Mutant: without the unique index.
NoIndex(b) == TRUE

\* _move_active_uniq, of the database as it is at the commit.
IndexAllows(b) == ~MayBeSigned(b)

-----------------------------------------------------------------------------
(* Exporting *)

\* The request's first query.
Begin(u) ==
    /\ ~Reading(u)
    /\ request' = [request EXCEPT ![u] = Snapshot]
    /\ UNCHANGED <<db, otherwise, others>>

\* The request ends without an effect: refused, or the other one was first.
Abort(u) ==
    /\ Reading(u)
    /\ request' = [request EXCEPT ![u] = None]
    /\ UNCHANGED <<db, otherwise, others>>

\* _l10n_se_create_batch: the bills S with their amounts, in a new file.
CreateFile(u, S, amount, newState, due0) ==
    /\ Reading(u)
    /\ made < MaxFiles
    /\ \A b \in S : Payable(request[u], b, amount[b], 0) /\ IndexAllows(b)
    /\ made' = made + 1
    /\ file' = [file EXCEPT ![made + 1] = newState]
    /\ line' = [line EXCEPT ![made + 1] =
                    [b \in Bills |-> IF b \in S
                        THEN [state |-> newState, amount |-> amount[b], due0 |-> due0[b], reached |-> 0]
                        ELSE NoLine]]
    /\ request' = [request EXCEPT ![u] = None]
    /\ UNCHANGED <<bill, otherwise, others>>

\* The wizard's action_save_draft: residual_at_export is not known yet.
SaveDraft(u, S, amount) == CreateFile(u, S, amount, "draft", [b \in Bills |-> 0])

\* The wizard's action_generate: created and generated in one request, where the
\* second check sees what the first one saw.
ExportBills(u, S, amount) ==
    CreateFile(u, S, amount, "exported", [b \in Bills |-> request[u].bill[b].due])

InState(f, states) == {b \in Bills : line[f][b].state \in states}
MoveLines(f, S, newState) ==
    [line EXCEPT ![f] = [b \in Bills |-> IF b \in S THEN [@[b] EXCEPT !.state = newState] ELSE @[b]]]

\* action_generate of a saved draft: every line is checked again.  The rows it
\* writes must not have changed since the request read them.
Generate(u, f) ==
    /\ Reading(u)
    /\ request[u].file[f] = "draft"
    /\ file[f] = request[u].file[f] /\ line[f] = request[u].line[f]
    /\ InState(f, {"draft"}) # {}
    /\ \A b \in InState(f, {"draft"}) : Payable(request[u], b, line[f][b].amount, f)
    /\ file' = [file EXCEPT ![f] = "exported"]
    /\ line' = [line EXCEPT ![f] =
                    [b \in Bills |-> IF @[b].state = "draft"
                        THEN [@[b] EXCEPT !.state = "exported", !.due0 = request[u].bill[b].due]
                        ELSE @[b]]]
    /\ request' = [request EXCEPT ![u] = None]
    /\ UNCHANGED <<bill, made, otherwise, others>>

\* Requests take seconds: a file that has been signed and paid is not younger
\* than a request that is still running.
OldEnough(f) == \A u \in Users : Reading(u) => f <= request[u].made

\* action_done.
MarkDone(f) ==
    /\ file[f] = "exported"
    /\ OldEnough(f)
    /\ line' = MoveLines(f, InState(f, {"exported"}), "done")
    /\ file' = [file EXCEPT ![f] = "done"]
    /\ UNCHANGED <<bill, made, request, otherwise, others>>

\* "Only cancel what was not signed": a payment cancelled although it has reached
\* its bill is no longer one of a file.
Misused(f, S) == otherwise' = otherwise \cup {b \in S : line[f][b].reached > 0}

\* Mutant: the lines of a draft are not released.
CancelFileOnly(f) ==
    /\ file[f] \in Pending
    /\ line' = MoveLines(f, InState(f, {"exported"}), "cancelled")
    /\ file' = [file EXCEPT ![f] = "cancelled"]
    /\ Misused(f, InState(f, Pending))
    /\ UNCHANGED <<bill, made, request, others>>

\* action_cancel of the file.
CancelFile(f) ==
    /\ file[f] \in Pending
    /\ line' = MoveLines(f, InState(f, Pending), "cancelled")
    /\ file' = [file EXCEPT ![f] = "cancelled"]
    /\ Misused(f, InState(f, Pending))
    /\ UNCHANGED <<bill, made, request, others>>

\* action_cancel of a line: the file goes with its last one.
CancelLine(f, b) ==
    /\ line[f][b].state \in Pending
    /\ line' = MoveLines(f, {b}, "cancelled")
    /\ file' = IF InState(f, {"draft", "exported", "done"}) = {b}
               THEN [file EXCEPT ![f] = "cancelled"] ELSE file
    /\ Misused(f, {b})
    /\ UNCHANGED <<bill, made, request, others>>

\* unlink: the lines go with the file.
DeleteFile(f) ==
    /\ file[f] \in {"draft", "cancelled"}
    /\ file' = [file EXCEPT ![f] = "none"]
    /\ line' = [line EXCEPT ![f] = [b \in Bills |-> NoLine]]
    /\ UNCHANGED <<bill, made, request, otherwise, others>>

-----------------------------------------------------------------------------
(* The bills: reconciliation and payments are Odoo's own. *)

\* Mutant: a payment is reconciled with more than is due.
AppliedInFull(due, amount) == amount

Applied(due, amount) == IF amount < due THEN amount ELSE due

\* The statement line of a payment arrives and is reconciled with the bill.
Reconcile(f, b) ==
    /\ line[f][b].state \in {"exported", "done"}
    /\ line[f][b].reached = 0
    /\ OldEnough(f)
    /\ bill[b].posted /\ bill[b].due > 0
    /\ line' = [line EXCEPT ![f][b].reached = Applied(bill[b].due, line[f][b].amount)]
    /\ bill' = [bill EXCEPT ![b].due = @ - Applied(@, line[f][b].amount)]
    /\ UNCHANGED <<file, made, request, otherwise, others>>

\* The reconciliation is undone.
Unreconcile(f, b) ==
    /\ line[f][b].reached > 0
    /\ bill' = [bill EXCEPT ![b].due = @ + line[f][b].reached]
    /\ line' = [line EXCEPT ![f][b].reached = 0]
    /\ UNCHANGED <<file, made, request, otherwise, others>>

\* What is not done by a payment file is remembered.
Otherwise(b) ==
    /\ others < MaxOther
    /\ others' = others + 1
    /\ otherwise' = otherwise \cup {b}
    /\ UNCHANGED <<file, made, request>>

SettleOtherwise(b, x) ==
    /\ bill[b].posted /\ x <= bill[b].due
    /\ bill' = [bill EXCEPT ![b].due = @ - x, ![b].other = @ + x]
    /\ UNCHANGED line
    /\ Otherwise(b)

\* A credit note or a statement line that is not a file's payment: not guarded.
Credit(b, x) == SettleOtherwise(b, x)

\* account.payment.register: refused while a file may still be signed.
RegisterPayment(b, x) ==
    /\ ~MayBeSigned(b)
    /\ SettleOtherwise(b, x)

\* button_draft: refused while a file may still be signed; Odoo takes every
\* reconciliation of the bill away.
ResetToDraft(b) ==
    /\ bill[b].posted
    /\ ~MayBeSigned(b)
    /\ bill' = [bill EXCEPT ![b].posted = FALSE, ![b].due = bill[b].total, ![b].other = 0]
    /\ line' = [f \in Files |-> [line[f] EXCEPT ![b].reached = 0]]
    /\ Otherwise(b)

\* The bill is edited and posted again.
PostAgain(b, t) ==
    /\ ~bill[b].posted
    /\ bill' = [bill EXCEPT ![b] = [posted |-> TRUE, total |-> t, due |-> t, other |-> 0]]
    /\ UNCHANGED <<file, line, made, request, otherwise, others>>

-----------------------------------------------------------------------------
Amounts(S) == [S -> UNION {1..t : t \in Totals}]

Export(u) ==
    \/ Begin(u)
    \/ Abort(u)
    \/ \E S \in (SUBSET Bills) \ {{}} : \E amount \in Amounts(S) :
          SaveDraft(u, S, amount) \/ ExportBills(u, S, amount)
    \/ \E f \in Files : Generate(u, f)

Handle(f) ==
    \/ MarkDone(f) \/ CancelFile(f) \/ DeleteFile(f)
    \/ \E b \in Bills : CancelLine(f, b) \/ Reconcile(f, b) \/ Unreconcile(f, b)

Settle(b) ==
    \/ \E x \in UNION {1..t : t \in Totals} : Credit(b, x) \/ RegisterPayment(b, x)
    \/ ResetToDraft(b)
    \/ \E t \in Totals : PostAgain(b, t)

Next ==
    \/ \E u \in Users : Export(u)
    \/ \E f \in Files : Handle(f)
    \/ \E b \in Bills : Settle(b)

Spec == Init /\ [][Next]_vars

-----------------------------------------------------------------------------
(* Properties *)

Bill == [posted : BOOLEAN, total : Nat, due : Nat, other : Nat]
Seen == [bill : [Bills -> Bill],
         file : [Files -> {"none", "draft", "exported", "done", "cancelled"}],
         line : [Files -> [Bills -> Line]],
         made : 0..MaxFiles]

TypeOK ==
    /\ Snapshot \in Seen
    /\ request \in [Users -> Seen \cup {None}]
    /\ otherwise \subseteq Bills
    /\ others \in 0..MaxOther

\* A bill is in at most one file that may still be signed, also when two exports
\* run at the same time (README.md, "At most one payment line per bill").
OneActiveLine ==
    \A b \in Bills : \A f, g \in Files :
        line[f][b].state \in Pending /\ line[g][b].state \in Pending => f = g

\* The state of a file says what its payments are: no line of a draft has been
\* sent, none of a cancelled or done file may still be signed.
FileMatchesLines ==
    \A f \in Files : \A b \in Bills :
        line[f][b].state \in {"none", "cancelled", file[f]}

\* A bill that is only paid by payment files is held from the moment a file with
\* it is made until the payment has reached it, also through partial payments
\* and reconciliations that are undone (_compute_holds_bill).
HeldUntilReached ==
    \A b \in Bills \ otherwise :
        (\E f \in Files : line[f][b].state = "done" /\ line[f][b].reached = 0)
            => \E f \in Files : Holds(line[f][b], bill[b].due)

\* And what is on its way to it is never more than what is due: whatever is still
\* signed or already sent, the supplier is not paid twice.  The sum of the payments
\* is written as the number of their crowns, as in RateWindow.
OnItsWay(b) == {f \in Files : line[f][b].state \in {"draft", "exported", "done"} /\ line[f][b].reached = 0}
NotPaidTwice ==
    \A b \in Bills \ otherwise :
        Cardinality(UNION {{f} \X (1..line[f][b].amount) : f \in OnItsWay(b)}) <= bill[b].due
=============================================================================
