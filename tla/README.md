# Formal models of odoo-l10n-se

TLA+ models of the parts of this repository where the order of events matters: mail that is paced
and retried, payment files that must not pay a bill twice, reminders and letters that no rollback
takes back, imports in batches that are stopped and undone, bank feeds that fail and are resumed,
registers that are asked again and again, a calendar that moves with the years, and deposits that
must end on the right invoice. Every module is translated from the source; `PROJECT.json` maps each
definition to its lines. Each property is checked by TLC on a small instance, and the ones under
*Proofs* are proved with TLAPS for every instance.

## The system

Odoo 19 addons for Swedish accounting. Each is installed on its own and works on shared database
tables through Odoo's ORM: a request or a scheduled job is one PostgreSQL transaction (repeatable
read, rolled back on an error), unless the code commits on the way. So there are three sources of
difficulty: requests and jobs that run at the same time, calls to the outside (SMTP, letters, SMS,
banks, registers) that no rollback takes back, and histories of legal steps nobody tried together.

| Component | State | Operations | What is hard | What must hold | Modules |
|---|---|---|---|---|---|
| `mail_server_rate_limit/lib` | none (pure) | `used`, `schedule` | over-full windows, costs above the limit | first in first out, no window above the limit, the loop ends | `RateWindow`, `ScheduleLoop` |
| `mail_server_rate_limit` server | slot log, cron triggers | budget, consume, defer, wake, vacuum | counted before sent | the provider is paced, every deferred mail is woken | `Pacing`, `MailQueue` |
| `mail_server_rate_limit` queue | `mail.mail` rows, shared messages, retries | take, split, send, requeue, strip, unlink, Retry | answers in the middle of a mail, killed worker, users meanwhile | nobody twice, nobody lost, message has one owner | `MailQueue` |
| `l10n_se_payment_file_seb_csv` | files, lines, amount due of bills | export, save draft, generate, done, cancel, delete; guards on bills | concurrent exports, partial payments, undone reconciliations | a bill is not paid twice | `SebPaymentFile` |
| `account_invoice_reminder` + `_ekopost`, `_sms_46elks` | reminders, level and count on the invoice | create, send, cancel, wizard | a run fails after an SMS has left; drafts side by side | nothing that was sent leaves again, levels and fees follow what was sent | `Reminder`, `InvoiceSend` |
| `account_invoice_send_ekopost` | campaign at Ekopost | create, fill, close, cancel | failure at any call | nothing half is printed | `EkopostCampaign`, `InvoiceSend` |
| `account_invoice_send_sms_46elks` | notes on invoices | send | failure after the first message | letters leave before mails | `InvoiceSend` |
| `account_invoice_send_hand_delivered` | a flag | mark | nothing | | not modelled |
| `account_statement_import_online_enable_banking` | session, consent, resume date, import ids | authorise, callback, reset, pull, retry, check balance; look-alikes, settle Swish | failed periods, shared sessions, unstable rows | no payment missed, one consent one story, right warnings | `BankFeed`, `IncomingPayments` |
| `l10n_se_sie4` import | imports, entries, keys, checks | run in batches, reconcile, stop, undo, check later years | killed jobs, stop against job, years out of order | no voucher twice, undo is all or nothing | `SieImport` |
| `l10n_se_sie4` reader, writer, export | none | parse, format | text | round trip | not modelled |
| `l10n_se_bolagsverket` | number, next check, status, to-dos per partner | cron, check and fetch buttons, status change | outages, budget, head of the queue, numbers that change during a lookup | everyone is checked, bad news is told, a status is of the number it stands beside | `StatusWatch` |
| `l10n_se_compliance_calendar` | calendar events by key | sync, cron | moving horizon, edits by users | events are the dates of the horizon, announced dates stay | `DeadlineRules`, `ComplianceCalendar` |
| `account_statement_import_swedbank_csv` | statement lines | parse, number, settle Swish | look-alike rows in overlapping files | a payment is in the journal once | `SwedbankCsv`, `IncomingPayments` |
| `account_statement_import_bankgirot_xlsx` | bank lines, proposals | match, propose, settle | two companies, equal deposits, a stale index | the right invoice of the right company, once | `BankgirotMatch`, `IncomingPayments` |
| `l10n_se_ocr` | none (pure) | OCR of an invoice | digit arithmetic | | in `BankgirotMatch` |
| `l10n_se_bank_account` | none (pure) | check digits | digit arithmetic | | not modelled |
| `l10n_se_account_banking_pain` | payment orders of OCA | checks, XML | nothing concurrent | | not modelled |
| `account_reconcile_oca_mobile` | none | | styling only | | not modelled |

How they meet: the reminders send e-mail through the queue that `mail_server_rate_limit` paces
(`account_invoice_reminder/models/reminder.py:155-160`) and letters and SMS through the two send
addons, so `InvoiceSend` extends `Reminder` and both use `EkopostCampaign`; the statement imports
and the deposit wizard work on the same lines and invoices, which `IncomingPayments` composes; the
feed and a Swedbank file each tell of lines that look like the other's, and both settle Swish payments. What they settle releases the bills of
payment files (`Reconcile` in `SebPaymentFile`).

### How transactions are modelled

The modules of code that reads first and writes later share one form. A step takes a snapshot of the
tables it reads; outside calls are steps of their own; the last step commits. The commit fails when a
row the transaction wrote has changed since its snapshot, or a unique index refuses it; otherwise
what was read may be stale and is written all the same. Whether Odoo then runs the request again
(`Rerun` in `Reminder`) or the work is dropped (`Refused` in `SieImport`, `CommitPull` in
`BankFeed`) is taken from the code's own handling or from Odoo's. What is done in one transaction
without reading anything others change, or writes the row it read, is one step.

## The mail queue

### Modules

`RateWindow` is the arithmetic of `lib/rate_window.py` on a *slot log*: `InWindow`, `Used` and
`Schedule`. The sum of the counts of a window is the number of pairs <<slot, message>> in it, which
is the same and can be reasoned about as a set. Time is in ticks; `Window`, `Margin` and the retry
delay are given in the same ticks.

`ScheduleLoop` runs `schedule()` turn by turn (`Wait` is a turn of its while loop, `Place` the two
appends after it), for any log and any costs. It shows that the loop ends and that `Schedule`, which
`MailQueue` uses, is what it computes.

`Pacing` is the promise of the rate limit without the mails. A batch of n messages is counted in one
slot (`Take`, when `Room`), its messages are accepted or fail one by one, a temporary error counts a
full window and ends the batch (`Refuse`), and the vacuum removes old slots. The provider keeps a
window of its own: `accepted` holds when each message was really accepted.

`MailQueue` is the addon within Odoo's queue:

| Code | Model |
|---|---|
| `process_email_queue`, `_split_by_mail_configuration`, `_rate_limit_take` | `TriggeredRun` and `RegularRun`, by `Take`: which mails fit, which one is split, who is deferred |
| `_rate_limit_split` | `Split`, `Kept`, `CanSplit` |
| `_rate_limit_consume`, `_budget`, `_defer`, `_wake_queue` | `Consumed`, `Budget`, `Defer`, `triggers` |
| `send` and `_send` of core, one mail at a time | `ConnectOk`, `ConnectFails`, `StartMail`, the answers below, `FinishMail`, `EndBatch` |
| answers of the server, message by message | `Accept`, `Invalid`, `RefuseTemporarily`, `FailForGood`, `FailAfterInvalid`, `Drop` |
| `_postprocess_sent_message`, `_rate_limit_requeue`, `_strip_reached`, `_reached` | `RefuseTemporarily` (`Requeued`, `Penalty`), `FailForGood` (`Stripped`), `LeftTo`, `LeftCc` |
| the rest of the batch after a temporary error | `StopBatch` |
| `unlink` | `HandedOver`, then core's `Deleted` and `MessagesLost` |
| `mark_outgoing` (Retry), cancel, delete, post, Send Now | `Retry`, `Cancel`, `Delete`, `Post`, `SendNow` |
| commits of the job, of `_send` and of other requests; a killed worker | `Commit`, `CommitDuringJob`, `CommitUser`; `saved` is the database at the last commit, `Crash` returns to it |

Core is not in this repository. What it does is read off the hooks (the docstring of `mail_mail.py`
lists them, and `tests/test_rate_limit.py` pins them): which mails are selected, that a mail is
written as failed before its first message, that the To/Cc message goes first, that an invalid
address is skipped and its reason kept, that a connection error ends the batch, that a sent mail
with auto-delete is unlinked. These definitions are marked external in the map.

`accepted`, `got`, `cutOff` and `givenUp` only remember what happened.

### What is checked

| Run | Instance | Shows |
|---|---|---|
| `rate_limit` | limit 2, window 3, margin 1; `ScheduleLoop` on all logs of up to 3 slots in the last window and all lists of up to 3 costs from 0 to 3; `Pacing` with batches of 1 to 3, 5 slots, 9 ticks. The two share no variable and are followed one at a time | `PlanKeepsItsPromise` (no planned window above the limit, over-full logs included; first in first out; no wait longer than the margin too long), `LoopComputesSchedule`, `Terminates`; `LiveWithinLimit`, `ProviderPaced` |
| `queue_safety` | one letter to 3 partners (a template mail, or a notification with a Cc address as well), limit 2, one retry, all answers, one action of a user and one killed worker, 4 rows, 5 ticks | `NoSecondCopy`, `EveryRecipientAccountedFor`, `MessageHasOneOwner`, `EveryDeferralHasAWake` |
| `queue_paced` | one letter: long, short, or too large to split, accepted or refused temporarily, 12 ticks | `QueueIsPaced`: the queue is a `Pacing`; `DeferredMailLeaves` |
| `queue_retry` | one letter, limit 3, Retry once | violation, see *Findings* |

The bounds are chosen so that the cases happen: three recipients against a limit of 2 make a mail
that must be split, whose rest is deferred, so both parts are alive together; a retry needs
`RetryAfter` more ticks, and 5 ticks hold a refusal, its penalty, the retry and the last failure.
Four rows allow a split of a split. The crash and the action of a user are placed at every point, in
both orders. `Hold` is the length of a batch in ticks, less than the window: a slower batch is
outside the promise. `Late` is how long the cron may come late; the safety run leaves it open.
`queue_paced` has no crashes, since with one the provider may get one mail and a full window in the
same window (listed among the hazards); the theorem below covers the harmless ones.

Two reductions are used in `queue_safety`. `PartnerSymmetry`: partners are interchangeable.
`QueueView` (also in `queue_retry`): states are told apart without expired slots, slot ids, due
dates of triggers and the provider's window, because no step and none of the properties of those
runs depends on them.

### Fairness

`FairSpec` asks for weak fairness of the clock and of `System`: the clock, a run woken by a due
trigger, and the steps of a run. This is what Odoo's scheduler gives: a cron worker polls the
triggers and a started job goes on. Not assumed: the hourly run of the cron (`RegularRun`),
anything users do, or a particular answer of the server. Time is bounded, so
`DeferredMailLeaves` is asked of mails deferred by `LastPost`, for whose retries there is time left;
with one `Late` tick per run and one retry, 12 ticks are enough for each of them.

## The payment files

### Module

`SebPaymentFile`: bills with their amount due, files, and one line per file and bill.

| Code | Model |
|---|---|
| wizard `action_save_draft`, `action_generate`, `_l10n_se_create_batch` | `SaveDraft`, `ExportBills`, by `CreateFile` |
| `action_generate` of a saved draft | `Generate` |
| `_l10n_se_seb_check`, `create` of the line | `Payable`: posted, something due, amount within what is due, no other line holds the bill |
| `_compute_holds_bill` | `Holds` |
| the partial unique index | `IndexAllows` |
| `action_done`, `action_cancel` of file and line, `unlink` | `MarkDone`, `CancelFile`, `CancelLine`, `DeleteFile` |
| guards of `button_draft` and `account.payment.register` | `ResetToDraft`, `RegisterPayment` |
| reconciliation, credit notes, editing (Odoo's own) | `Reconcile`, `Unreconcile`, `Credit`, `PostAgain` |

A request that exports is two steps: `Begin` takes the snapshot its checks read, and it commits
later. The commit fails when the unique index sees another active line, or when a row it writes has
changed (`Generate`); otherwise what it read may be stale. The other actions are one transaction
each: they write the rows they checked, so PostgreSQL refuses the second of two.

Assumed (`OldEnough`): a request takes seconds, so a file is not signed, paid, or marked done
between a snapshot taken before the file was made and the commit of that request.

`reached` and `otherwise` are history. `reached` is the part of a bill a line's payment is
reconciled with. `otherwise` are the bills that were credited, paid by hand or reset to draft, and
those whose payment was cancelled in the file although it had arrived: the code's docstring says to
cancel only what was not signed.

### What is checked

`seb_files`: one bill of 2 units, two users, three files, one change by another way: `OneActiveLine`,
`FileMatchesLines`, `HeldUntilReached`, `NotPaidTwice`.

Two units and three files give every order of two partial payments, each reconciled, undone and
reconciled again, and a third file that must not be made. The change by another way (a credit note, a
registered payment, a reset to draft) may come at any point; a bill it touched leaves the two
guarantees. Two users are enough for a stale snapshot; a third would find the index closed by the
first. Files with several bills are covered by the theorems about `OneActiveLine` and
`FileMatchesLines`, which hold for any set of bills.

`OneActiveLine` rests on the index alone and `NotPaidTwice` on the hold: neither check replaces the
other, which the faulty variants below show.

## Reminders, letters and SMS

### Modules

`EkopostCampaign` is one campaign of letters as its chain of HTTP calls. `Answered` is one call,
answered, refused, or carried out although its answer is lost; `OnError` and `Following` are the
control flow of `_ekopost_post_pdfs`. It is a record and a transition on it, used by both senders.

`Reminder` is `account_invoice_reminder` with its two glue addons:

| Code | Model |
|---|---|
| wizard `default_get`, `_next_level` | `OpenWizard`, `Proposal`, `NextLevel` |
| wizard `action_send`, `create_for`, `_previous_fee_amount_for` | `Confirm`, `Created`, `PreviousFees` |
| `action_send` on drafts, `_check_send` | `SendPrepared`, `Drafts`, `Passes` |
| `_send_email`, `_send_manual`, `_send_sms`, `_send_ekopost` | `SendEmail`, `SendManual`, `SendSms`, `StartLetter` to `EndLetter` |
| `_mark_sent` | `Marked`, `Reminded` |
| commit, serialisation failure and retry, an exception | `Commit`, `Rerun`, `RollBack` |
| `action_cancel` | `Cancel` |

The request takes its snapshot at its first query; what its outside calls delivered stays delivered
whatever becomes of it. `copies` counts what left for a reminder, `wasted` how much of that left in
a run that was rolled back, `knew` which reminders were sent when its wizard was opened, and `order`
is the order they were sent in: history.

`InvoiceSend` adds `_hook_if_success` of the two send addons: a batch of invoices whose SMS are sent
first, then its letters in one campaign, then Odoo's mails (`SendInvoices`, `SmsInvoice`,
`StartLetters`, `EndLetters`, `EndBatch`). An error is raised in the dialog and logged in the batch
job.

### What is checked

`invoice_send`: two invoices of one customer at different days overdue, two levels, two users.
`LettersWhole`, `InvoiceTellsReminders`, `LeavesOnce`, `LevelsRise`, `FeesAskedFor`. The run follows
two kinds of histories (`ShortOrByHand`):

* `Short`: two days and two reminders, by SMS or e-mail at the first level and by letter or by hand at
  the second, in requests that run at the same time, with one delivery that goes wrong and one payment
  or cancellation. Two reminders are enough for what a request reads before another commits. The
  second invoice is not overdue yet.
* `LongByHand`: four days and four reminders, of both invoices and of one of them, prepared side by
  side and sent in any order or several in one request, delivered by hand, one request or dialog at a
  time. Four are needed for a level that comes again: two at the first level, the one sent first
  followed by one at the second, and then the other one, which puts the invoice back.

Users are interchangeable (symmetry). A batch of invoices is followed alone (`BatchAlone`): it shares
no row with the reminders, and the campaign it uses is the same module. Four reminders whose requests
run at the same time are left to the proofs.

No fairness is stated: nothing here is scheduled, people press buttons.

## SIE 4 imports

`SieImport` reduces the books to one balance sheet account: an entry is an amount on it with the key
of its voucher. That is what the analysis, the opening balances and the checks compare.

| Code | Model |
|---|---|
| `analyse`, `existing_keys`, `odoo_balances`, `entry_dates` | `Items`, `Keys`, `BalanceBefore`, `BooksTaken`, `Blocked` |
| wizard `action_import`, `action_reconcile` | `StartImport`, `EndImport`, `Reconcile` |
| `_run`, `_create_entries`, `_opening_diff_vals`, `_finish`, `_check_later_imports` | `RunOf`, `Created`, `StillAgrees`, `Finished`, `Checked` |
| `_cron_process` | `CronStart`, `CronEnd` (one run creates one batch or more) |
| `_cron_undo`, `_undo_all`, `_undo_blockers` | `CronUndoCount`, `CronUndoStart`, `CronUndoEnd`, `Undone`, `Blockers` |
| `action_undo`, `action_stop`, `action_check_again`, `unlink` | `StartUndo`, `EndUndo`, `Stop`, `CheckAgain`, `Unlink` |
| the unique index on keys | `KeysUnique` |
| time limit and restart of the worker | `TimedOut`, `CronKilled` |
| other entries, reconciliations, cancellations and locked years | `BookEntry`, `FreezeEntry`, `CancelEntry`, `LockYear` |

`skewed` and `meddled` are history: an import or undo changed what another transaction had read or
was in the middle of, and somebody changed the books by other ways than imports. The guarantees that
depend on what was read are stated outside these; the others hold always.

`sie_import`: two years of one voucher each, the second of which does not open with what the first
closed with; each year alone, or both, with and without the file's opening balance; two imports, one
user beside the scheduled action, small imports in the request (`SyncLimit` 1) and larger ones
in batches, two troubles (a stop, a kill, a check, a deletion or a change by others). `CountedOnce`,
`EveryVoucherOnce`, `OpeningAsFile`, `UndoAllOrNothing`, `LaterChecksFresh`. Two imports are enough
for every pair: earlier and later year, import against undo, import against import. A year with its
opening entry and voucher takes two batches, so a stop or another transaction can come between.

Liveness is not claimed: the job takes the oldest import first, and one that is undone again and
again holds up the younger ones (listed among the hazards).

## Enable Banking

`BankFeed`: providers, sessions at the bank and the payments it has booked.

| Code | Model |
|---|---|
| `action_enable_banking_authorize`, `_enable_banking_finish_authorization`, `_connect_siblings` | `Authorize`, `Callback`, `Connected` |
| `action_enable_banking_reset`, `_check_consents` | `Reset`, `CheckConsents` |
| the scheduled pull of all providers that are due, one transaction | `StartPull`, `PullDay`, `FailDay`, `CheckBalance`, `NoBalance`, `CommitPull` |
| `_log_provider_exception`, `_enable_banking_retryable`, `_schedule_next_run` | `ResumeFrom`, `Retryable`, `NextRun` |
| `_enable_banking_mark_session_ended` | `Ended`, `OnSession` |
| `_enable_banking_check_balance`, `_explained_by_lag` | `Alarm`, `Agrees`, `Lag` |
| a pull by hand | `ManualPull` |

The loop over days and the storing of lines belong to an OCA module and are marked external. A
payment's amount is one, so the balance is a number of payments.

`bank_feed`: two accounts at a bank that keeps one session per person, two sessions, three days, two
payments, one fault (a failing bank, an ended session, a pull by hand, a reset or a file beside the
feed). `NothingMissed`, `SessionsAgree`, `AlarmIsRight`. With `RetryDays` 0 a failed
day is retried on the next day and too old to be on the one after; a consent of two days ends within the three. The
action constraint `Overlapping` keeps to what can matter while a pull runs: bookings, consents and
ended sessions, and pulls by hand. Accounts are interchangeable (symmetry). No fairness: days may
pass without a pull, which is what the retries are for.

## Bolagsverket

`StatusWatch`: partners with identity numbers, what the register knows, the scheduled check and the
buttons. `DueList`, `StartCheck`, `Ask` and `EndCheck` are `_l10n_se_bv_check_due`; the outcomes of
one lookup are `Answered`, `Incomplete`, `Refused` and `Stopped`, each with its commit or the refusal
of a stale write; `Press` and `Pressed` are `_l10n_se_bv_run_buttons`; `StatusOf` and `Picked` are the
library's reading of an answer.

The number itself is computed: `Identity` is `_compute_l10n_se_bv_identity`, of the company
registry, the VAT number and the country. `Saved` is `write`, which resets what was learnt
(`BV_FIELDS_RESET`) when the computed number changes: users change it by any of the three fields
(`ChangeNumber`), and so may the lookup. `Checked` is `_l10n_se_bv_check_one`: with the fetch button it
first writes the contact data (`ContactVals`: name, country, company registry), through the same `write`,
and then `Applied`, with `Notified`, stores the status of the number that was looked up. `of`, `lost`
and `told` are history: the number a status is about, the one a lookup itself replaced, and what the
notifications were about.

`watch_queue`: two partners; a number that works, one whose data source is down, and one of a VAT
number; a contact with a number, with another one beside it, abroad with and without a VAT number;
four answers of the register (trading in Sweden, bankrupt with an address abroad, closed, and a closed
business beside a trading one under the same number); two events (what users do, what the register
changes, failures). `StatusIsOfNumber`, `BadIsTold`, `EveryNumberChecked`. One new number is taken per
run, and `IncompleteStop` incomplete answers stop one, so the head of the queue matters.

`watch_fetch` is the same instance for `OldNumberIsVoid`, what the comment in `write` says: violated,
see *Findings*. `StatusIsOfNumber` says what holds all the same: apart from a number that the fetch
button itself replaced, no status outlives its number.

Fairness: `WF(Check \/ EndCheck)`. The cron runs the job while numbers are due, and a run goes on.
`Stopped` is an event and so happens finitely often: against an error that stops every run at the
same head of the queue nothing is claimed, see *Observed*.

## The compliance calendar

`DeadlineRules` is `rules.py` without its texts: Easter and the other holidays, moved days, and every
statutory date of a company's profile. It was compared with the Python code by a differential test
on random profiles over several years while it was written, and the run compares it again with an
independent statement (`Lawful`: dates over a wide range of years, each on the first weekday from its
nominal day).

`ComplianceCalendar` is the update `_l10n_se_cc_sync` as a snapshot and a commit (`BeginSync`,
`CommitSync`), with the years (`NewYear`), administrators (`ChangeSettings`, `ChangeRules`,
`ChangeAnchors`) and users (`EditEvent`).

`calendar`: four profiles (a company with everything but VAT, monthly VAT of a large one, a sole trader, a
partnership whose year ends on 29 February), 2026 to 2027 with the horizon up to 2029, a fixed and a
relative rule, two anchor dates (a Saturday and a Sunday), two changes, the nightly job.
`CalendarIsLawful`, `AnnouncedStays`. The dates at the turn of the year are those that can be lost or
doubled, so edits are kept to them; a drag is one day later at a time. No fairness is stated. Two updates at the same time, and a fifth profile, were
checked as well and hold; they are left out for time.

## Incoming payments

`SwedbankCsv` is the parser: ids of rows, their numbering, the order of a file (from balances, from
what is stored, from dates) and the payer. `BankgirotMatch` is the choice of the invoice for a
detail of a deposit: exact numbers, printed numbers, candidates, names, amounts, and the check digits
of OCR numbers. `IncomingPayments` composes them with the journal:

| Code | Model |
|---|---|
| the Swedbank wizard: parse, look-alikes, `_swish_reconcile` | `ImportCsv`, `LooksAlike`, `SwishReconciled` |
| the pull of a feed (`_enable_banking_record_pull`, `_file_look_alikes`, `_create_or_update_statement`) | `Feed`, `FeedLine`, `LooksAlike`, `SwishReconciled` |
| the Bankgirot wizard: `_find_statement_line`, index, match, enrich, propose, reconcile | `ImportDeposit`: `StatementLines`, `Index`, `FindInvoice`, `Enrich`, `Proposed`, `Balances` |
| one run of the wizard over several files, one transaction | `wizard`, `EndRun` |
| reconciliation of a line (OCA) | `Settle`, external |

A run of the wizard is one transaction and nothing else happens in it; its index of open invoices is
built once for each company and is therefore stale for the later deposits of the same run.

`incoming_payments`: two companies that number their invoices alike, one with Swedbank exports and a
value-dated feed (two days off) and automatic reconciliation, one with a feed only; deposits by OCR number, by
name, and by two references of which one has a zero left out; three payments over two days, four
events; exports from any day on, made at any time, sorted either way, imported in any order.
`OncePerPayment`, `DoublesTold`, `OwnCompany`, `NamedOrNothing`, `MoneyOnce`. Three payments are the
fewest for a day whose rows cancel out beside one that is not in every export. No fairness is stated.

`OncePerPayment` leaves out the days in `misread`: those of rows that share an id, in a file that was
read the wrong way round although neither its balances nor the lines of an earlier import can tell its
order (`OrderUntold`, stated apart from the operators that find the order). A file whose order could have
been told is never excused. `DoublesTold` holds for either channel coming second.
A small SIE entry whose reference looks like a year is among the invoices, since the rules treat
those apart.

## Findings

* `queue_retry`: the docstring at `mail_server_rate_limit/models/mail_mail.py:19-20` says a mail
  that fails for good loses the reached recipients. After an invalid address core keeps that reason
  as failure type, and line 202 leaves every failure with another type than *unknown* to core: the
  reached recipients stay, and a Retry by hand sends them a second copy. (README.md:75-77 names the
  same path as not retried, but not this.)
* `watch_fetch`: the comment at `l10n_se_bolagsverket/models/res_partner.py:99` says that everything
  learnt about an old number is void. The fetch button takes over the registered address
  (lines 238-246). When that is abroad the number in `company_registry` counts no longer (line 69): the
  write at line 269 resets the partner, and line 273 stores the status of the old number on it.
  The partner shows a status of a number it does not have, and is no longer watched, or only under its
  VAT number. If that one has the same bad status, nobody is told of it.

### Observed

Behaviour met while modelling, without a run of its own. The properties above are stated so that
they hold with it.

* *Pacing.* `mail_server_rate_limit/README.md:3` promises at most N messages per M minutes and lines
  80-81 that counting a batch when it is handed over errs on the slow side. When the slot of a batch
  has expired the next may go at once (`mail_mail.py:139`), so the last messages of the first and
  the first of the second can share a window at the provider. What holds, `ProviderPaced`, is the
  promise for a window shorter by the length of a batch.
* *Payment files.* The README (lines 68-70) blocks a bill in a done file whose payment has not yet
  reached it; the code looks at the amount due alone (`l10n_se_payment_export.py:485-488`), so a
  credit note of the same size releases the bill before its payment has come.
* *Reminders.* Two reminders prepared side by side both leave the other's fee out, and the fee of an
  earlier one can be asked for in both. A missing telephone number is found in the middle of a run,
  after others have left.
* *SIE.* An import or undo that commits between the batches of another can make its opening
  difference wrong (`skewed`).
* *Enable Banking.* A payment booked late on a day that has been pulled is not fetched again. The
  note about a failed pull by hand is rolled back with it. While a consent is missing for more than
  `EB_RETRY_MAX_DAYS`, one day is given up per run (`skipped` says which).
* *Bolagsverket.* A server error or a limit that persists for the number at the head stops every run
  there. A number removed after the list was made is asked for empty. A new bad status with the same
  note text as the old one is not told of.
* *Calendar.* An edited event is not put back by the update, as the hash of the entry and not of the
  event is compared (`res_company.py:314`). A rule of the user's own for 31 December with
  *next* lands in January and is removed on New Year's Day (`compliance_custom_rule.py:89`). Two
  anchors of one name and year, made at the same time, have entries with one key; the update is
  then refused. Users drag events to later days only: a date that has become obsolete, dragged into
  the year before while the update runs that would have removed it, counts as history, and when it is
  dragged back it stays until the next update.
* *Swedbank.* The first import of a day whose rows cancel out is read by guess; when the guess is
  wrong, a later export can skip a payment and import another again (`misread`).
* *Bankgirot.* A second equal deposit of the day overwrites the note and partner of the first (its
  money settles nothing, `MoneyOnce`). An OCR number of fewer than six digits misses the exact rule.
  A file without a known receiver may end on another company's line of the same day and total, and
  settle an invoice of that company (`OwnCompany` speaks of receivers that are known).

## Faulty variants

Next to some operators stands a variant marked *Mutant*: the same operator with a plausible bug
(a retry too many, the index dropped, a trigger forgotten). They are used by nothing. `PROJECT.json`
lists, for every property of every run, a variant that breaks it when it takes the operator's
place, so that each property is known to say something about the code.

## Proofs

`PacingProofs`, for every limit, window, margin, batch length and set of batch sizes:

* `TypeCorrect`, `LivePaced` and `ProviderIsPaced` (`TypeOK`, `LiveWithinLimit`, `ProviderPaced`).

Assumed: `RateAssumption` and `PacingAssumption` (positive limit and window, a batch takes less
than a window, the vacuum keeps at least a window). `ProviderPaced` is not inductive: it speaks of
messages the provider has, whose slots may be gone. `IInv` adds why they were allowed. Each message
belongs to a slot that counted it (`UnitsOfSlots`), was accepted at most `Hold` after it was counted
(`AcceptedAfterCount`), the batch in progress has a live slot (`BatchSlot`), and the messages whose
slots are still in the window are within the limit (`LiveWithinLimit`). A `Take` is the step that
needs an argument: the new units are as many as the slot counts, the old live ones are no more than
`Used`, and `Room` bounds the sum. The provider's window then follows: what it accepted less than
`Window - Hold` ago was counted less than `Window` ago, so it is live.

`SebPaymentFileProofs`, for any set of bills and users and any number of files:

* `TypeCorrect`, `AtMostOneActiveLine` and `FileAndLinesAgree` (`TypeOK`, `OneActiveLine`,
  `FileMatchesLines`);
* `HeldUntilPaymentsArrive` and `NeverPaidTwice` (`HeldUntilReached`, `NotPaidTwice`).

Assumed: `FileAssumption`. The type invariant carries the work: amounts due stay natural numbers,
because a reconciliation never exceeds what is due, and undoing one adds back what was taken.
`FileMatchesLines` is inductive once the files not yet made have no lines; `OneActiveLine` needs
`FileMatchesLines`, since generating a draft must not touch lines that were cancelled.

The last two speak of one bill's column of lines, and both follow from `PaidInv`. `PaidRight` says of
a bill that only files pay: what is due and what has arrived make up the total; what was sent is
within the total; a payment that has arrived arrived in full; of two sent payments the older has
arrived; and the amount due that a signed payment noted is what the older ones leave. So
the newest payment holds the bill as long as one is under way. A request that runs has read a state
in which the same was true, and `Since` relates it to now: what was sent then still is, with its
amount, and nothing newer has been. That is what `OldEnough` in the code's check buys; without it
the second clause fails, and with it both theorems.

`AuthorityProofs`, for any partners, numbers and ways to enter them, answers, delays and batches of `StatusWatch`:

* `StatusIsOfNumberAlways` and `BadIsToldAlways` (`StatusIsOfNumber`, `BadIsTold`).

Assumed: `WatchAssumption`, and for the second theorem `NotesTell`: the note of a deregistration
(its reason and date) never reads as that of a procedure (its text and start). The code tells
two bad statuses apart by their notes as well (`models/res_partner.py:192`), and TLC refutes
`BadIsTold` when two equal notes are among the answers. `IInv` says of every row (`Sound`) that its status
was learnt about its computed number or about the one a lookup replaced, and that a bad one was told of.
The rest is how a row stays so when its number changes under it (`SavedSound`, `ReplacedSound`,
`CheckedSound`). What a process has read needs no invariant of its own, as an answer is written only to
a row that is still what was read.

The same module, for any profiles, rules, anchor dates, years and number of updates of
`ComplianceCalendar`:

* `CalendarIsLawfulAlways` and `AnnouncedStaysAlways` (`CalendarIsLawful`, `AnnouncedStays`).

Assumed: `CalendarAssumption`, which is what `Profile.__post_init__` and `_check_rule` check, and that
no date leaves Python's calendar. Most of the proof is arithmetic of dates. A day of a month is in its
year (`YearIs`); Easter is by the beginning of May (`EasterIs`), so one of the first
seven days of September is no holiday (`SeptemberWorks`), and `next_business_day` ends, within 400 days, on the first
weekday (`NextOf`), whatever the year. Each rule then puts what it
computes for a year in that year or the next (`DueWithin`), and moving adds at most one: these are the
two years that `_years` looks back (`DueInYears`), and why looking back
further (`Lawful`) finds nothing else. `CalendarInv` is for the second theorem: every event of the
horizon that no user has moved is an entry of what the last update read (`IsAnnounced`), and an update
that will not be refused has seen every event and no newer year than the last one (`IsCurrent`). An
entry of one horizon is one of a later year's as long as that has not passed it (`EntriesStay`), but for a
fixed rule of the company's own for the year before: the exception the property makes.

`BankFeedProofs`, for any accounts, consents, retry limits and payments, and for the interleavings
of users and the scheduled pull that the run leaves out by its action constraint as well:

* `Typing`, `SessionsAgreeAlways`, `NothingMissedAlways` and `AlarmIsRightAlways` (`TypeOK`,
  `SessionsAgree`, `NothingMissed`, `AlarmIsRight`).

Assumed: `FeedAssumption`. The types say that a pull starts no later than it is due, so that no day
it turns to lies ahead. `SessionInv` adds the snapshot and the pending writes of a pull in progress: they
agree among themselves, and a provider that others have bound meanwhile is on a session newer than any
the pull has read, so a commit that goes through cannot put two stories on one consent. `MissInv` adds that in
the pull's own rows every day before the one it is at has been imported or given up. The balance is
right because `Book` and the lines count the same days' payments, a bijection the proof builds.

`MailQueueProofs`, for any recipients, letters, limits and answers of the mail server:

* `EveryDeferralHasAWakeAlways`, `EveryRecipientAccountedForAlways`, `MessageHasOneOwnerAlways` and
  `NoSecondCopyAlways` (`EveryDeferralHasAWake`, `EveryRecipientAccountedFor`, `MessageHasOneOwner`,
  `NoSecondCopy`).

Assumed: `QueueAssumption`, in which partners and To/Cc addresses are different recipients (a split
puts them on two mails). None is inductive: each speaks of the queue the runner sees, and
a killed worker puts back the one last committed. `Woken` therefore says of both that a date a mail
waits for has come or has a trigger. `Kept4` does so for recipients and messages: `Accounted` and
`Unique` (whoever has not been reached or given up is on exactly one mail that was not sent), `Owned`
(who deletes a message), and `Synced`, what a rollback may undo; with `Session`, who of the
mail in hand has been reached and who is still to be. `NoSecondCopy` needs `Copied` besides: whoever
is to be sent to again has had no more copies than sends were cut off.

The same module, for any limit, window and batch:

* `QueueImplementsPacing` (`QueueIsPaced`), and from it and `ProviderIsPaced` that the provider of
  the queue's server is paced, `QueuePacesProvider`.

Assumed besides: `CountsKept`, no worker is killed whose count is not committed. It is the gap
the code has (`models/ir_mail_server.py:94`: the slot is part of the runner's transaction):
the provider may have messages then that no slot counts. Workers killed at any other point are
covered, as are their committed batches. The proof turns on `PaceInv`: the messages of the batch's
slot that are not used up (`run.credit`) are enough for all whom the runner is still to send to,
each mail of the line is taken once, and the slot log is finite, with one row per id. That a split
or a user's deletion never adds a recipient to a mail that was counted is what keeps the first true.
A send is a `Pacing` accept of just the messages it has recipients for, so what is accepted was
counted.

The same module holds what is proved of `ScheduleLoop`, for any limit, window, margin, slot log and
list of costs:

* `PlanKeepsItsPromiseAlways` (`PlanKeepsItsPromise`), and `NeverWaitsForNothing`: the loop never
  asks for the oldest slot of an empty window.

Assumed: `ScheduleAssumption`: finite logs, integer costs (`schedule()` clips them). Logs may hold more
than the limit, several slots of one id, and slots of a later time. `LoopInv` says that
`events` is the window at the start and all that is placed, that `clock` is not behind it (`Forward`),
and, for `NoNeedlessWait`, that after a wait the next message did not fit just before (`Waited`):
the wait ends at the oldest slot plus window and margin, so all of the window it saw is still
in the window one tick before. A message placed at `clock` leaves the windows of earlier messages
alone, and shares its own with those placed at the same time.

`SieImportProofs`, for any files, choices and limits, any users and any number of imports:

* `CountedOnceAlways`, `EveryVoucherOnceAlways`, `UndoAllOrNothingAlways` and `LaterChecksFreshAlways`
  (`CountedOnce`, `EveryVoucherOnce`, `UndoAllOrNothing`, `LaterChecksFresh`).

Assumed: `SieAssumption`. A commit is checked against the snapshot its transaction read, so `SieInv`
says what of a snapshot is still so: an import's number means the same years to all (`OneImport`); entries
belong to imports there are, and an opening balance from the file to its first year
(`EntriesOwned`); an import that is being undone is not queued or running again (`Going`). The hard
one is `UndoSees`: an entry of the import that the undo did not read was changed since, and then one
that it did read is gone. So either the undo has read all the import's entries, or one that it would
delete has been changed and the database refuses it: it never leaves half an import. `EveryVoucherOnce`
is what an analysis with nothing left to create and a unique index come to. `Steps` says what all other
steps can do to the books, so that each property is argued for a commit alone.

`InvoiceSendProofs`, for any invoices, levels, fees, days, batches and users, and any answers of
Ekopost, the SMS gateway and the mail server:

* `LettersWholeAlways`, `InvoiceTellsRemindersAlways`, `LeavesOnceAlways`, `LevelsRiseAlways` and
  `FeesAskedForAlways` (`LettersWhole`, `InvoiceTellsReminders`, `LeavesOnce`, `LevelsRise`,
  `FeesAskedFor`).

Assumed: `ReminderAssumption` and `BatchesAssumption` (a batch is a pair of sets of invoices).
Invoices and users are finite; days and fees are natural numbers. The first follows from `LettersInv`:
a campaign in progress was opened by its own request, so it has that request's letters and no others.
The other four follow from `RemindersInv`, and are hard for one reason: a request sends on the database
it read, while others commit. `Requests` therefore says of each one what it has handed over and how
its database differs from what it read (`Sound`): the reminders handed over are marked, each invoice is counted
once for each of them and has the level of the last, and every other row is as read. PostgreSQL refuses
a commit that writes a row changed since it was read, and every delivery writes its reminder and its
invoices: so a commit that goes through adds just its own deliveries to what is there now
(`CommitIs`), the counts add up, and a delivery that does not commit was wasted. `Unborn` keeps the
ids of new reminders apart, and `Ledger` says that `order` lists the reminders sent, each once. For the
levels, `Knowing` says that what is known when a reminder is prepared was sent by then, with all that
was known before it. `Rising` is the property itself, said of every reminder in a wizard, in a request or in the table,
sent or not. A proposal takes the level after that of the invoice, which is of the reminder sent last:
that is where `InvoiceTellsReminders` comes in. For the fees, `Asked` says that those put on a
reminder are the fees of a set of reminders sent before it for its invoices, with all that are known
among them. The sum is a fold over a set, which the proof takes as the function on subsets it is
defined by: it is the same for rows that agree on the levels and no less for a larger set (`FeesSame`, `FeesMonotone`).

`IncomingPaymentsProofs`, for any companies, invoices, payments, exports, deposit files and bounds:

* `OwnCompanyAlways`, `DoublesToldAlways`, `MoneyOnceAlways` and `NamedOrNothingAlways` (`OwnCompany`,
  `DoublesTold`, `MoneyOnce`, `NamedOrNothing`).

Assumed: `PaymentsAssumption`: amounts are integers, a deposit file names the company whose account the
deposit is on or nobody, and a feed's value day is no further from the booking than the four days the
import looks around. `PaymentsInv` says of every line that it holds invoices of its own company, and that it
is a payment the bank has booked, on its day or, from a value-dated feed, on the value day; the first
property is part of it, and the second follows for the step that brings a payment in again, a file's or
a feed's (`ImportTells`). `MoneyInv` is for the third. Its `Sound` says of lines,
residuals and partials together that keys tell lines apart, that money has gone from a line to invoices
only when it is reconciled, and then no more than its amount (`Covered`); the import folds over the lines
of a file, so `Sound` is shown to survive one line settled, and then all of them, one by one (`FoldIs`,
`ImportedAs`). What the invoices of one settlement get is a sum whose parts are cut off where the money
ends. `NamedInv` adds for the fourth that what a run looked up is still all there is to find
(`IndexFull`): no step opens an invoice again, so a number that is named exactly and not found in the
index is of an invoice that has been settled, and then none is taken. The proof also
showed what the property must say: when another open invoice is written out beside the number,
`_find_settled_invoice` returns nothing (line 309), and a guess is made; `NamedOrNothing` leaves that case out.

Only model-checked:

* what the prover cannot do: `Terminates`, `DeferredMailLeaves` and `EveryNumberChecked`, which are
  liveness under fairness; `LoopComputesSchedule`, which is about a recursive definition;
  `OpeningAsFile`, which is about the sums of a file: these need induction over data;
* what is a property of the instance: `OncePerPayment` of `IncomingPayments`, which rests on the
  balances its bank prints.

## Not modelled

* Components: the text work (the SEB CSV writer, the SIE reader, writer and export, check digits of
  bank accounts), which is sequential and has tables of examples as tests; pain.001, which writes XML
  on top of an OCA module that is not in this repository; hand delivery and the mobile layout, which
  have no state worth the name.
* Mail: settings that change while mail waits; several limited servers (they share nothing but the
  queue); a limited server next to others; personal servers (left to core). Rows of
  `mail.notification`: they follow the mail's outcome and decide nothing. How a temporary error is
  recognised in a text: each answer is a choice. In `MailQueue` the vacuum: it keeps at least a window
  (`Pacing` has it, and the proof).
* Payment files: checks of accounts, references, dates and warnings, edits of draft files outside
  the buttons, and the stored copy of `holds_bill` (the model computes it when it is read).
* Reminders and invoices: texts, PDFs, interest and bank account; editing a draft by hand; the address
  and layout of letters; the format of numbers.
* SIE: accounts, journals, analytic accounts, entries left as drafts, and the wizard's presentation.
* Enable Banking: tokens and HTTP, fields of a line, paging, picking an account by hand.
* Bolagsverket: the contact data that neither the number nor the comparison of names depends on
  (street, zip, city), the ping of an idle account, the client's tokens.
* Calendar: titles, texts, alarms and the filters of the view.
* Incoming payments: encodings, columns and the statement's balances; XLSX and XML; the result page;
  users who reconcile lines by hand; a payment the bank prints no balance for is in the operators but
  not in the instance (`BareTexts` is empty there).

## Plan

Done: all modules above with their runs, and the proofs of `Pacing`, `ScheduleLoop`, `SebPaymentFile`,
`StatusWatch`, `ComplianceCalendar`, `BankFeed`, `MailQueue`, `SieImport`, `InvoiceSend` and
`IncomingPayments`.

Left: what the lists above say is not modelled and what is only model-checked.
