---------------------------- MODULE MCMailQueue -----------------------------
(* Small instances of MailQueue.                                             *)
EXTENDS MailQueue

CONSTANTS p1, p2, p3, a1, a2

MCPartners == {p1, p2, p3}
MCAddresses == {a1}
MCTwoAddresses == {a1, a2}

\* A template mail and a notification, both to more addresses than the limit,
\* and a short template mail.
Template == [to |-> MCPartners, cc |-> {}, notif |-> FALSE, autodel |-> TRUE]
Notification == [to |-> MCPartners, cc |-> MCAddresses, notif |-> TRUE, autodel |-> FALSE]
Short == [to |-> {}, cc |-> MCAddresses, notif |-> FALSE, autodel |-> TRUE]

\* Too many To/Cc addresses to be split: it is sent whole when the window is empty.
Circular == [to |-> {p1}, cc |-> {a1, a2}, notif |-> FALSE, autodel |-> TRUE]

LongLetters == {Template, Notification}
MixedLetters == {Template, Short, Circular}

-----------------------------------------------------------------------------
(* What a state is told apart by, where the provider's window is not asked   *)
(* about: expired slots, the ids of slots and the dates of triggers that are *)
(* due make no difference to any later step, but for how long the oldest of  *)
(* them has waited.                                                          *)

Pace(log) == [t \in {s.at : s \in InWindow(log, now)} |-> Used({s \in log : s.at = t}, t)]
Alarm(dates) ==
    LET due == {t \in dates : t <= now}
    IN  (dates \ due) \cup (IF due = {} THEN {} ELSE {IF Late < MaxTime THEN Min(due) ELSE 0})

QueueView ==
    <<now, mail, made, messages, Pace(slots), Alarm(triggers),
      [run EXCEPT !.batch = {s.at : s \in {r \in slots : r.id = run.batch}}, !.credit = 0],
      saved.mail, saved.messages, Pace(saved.slots), Alarm(saved.triggers),
      letters, manual, crashes, got, cutOff, givenUp>>

PartnerSymmetry == Permutations({p1, p2, p3})
=============================================================================
