-------------------------- MODULE AuthorityProofs ---------------------------
(***************************************************************************)
(* Proofs about what the authorities know and ask for.                     *)
(*                                                                         *)
(* StatusWatch, for any partners, numbers, answers, delays and batches:    *)
(* what a partner shows was learnt about the number it has, or about one   *)
(* that the lookup itself replaced, and a partner that shows something bad *)
(* has been told of.                                                       *)
(*                                                                         *)
(* ComplianceCalendar, for any profiles, rules, anchor dates, years and    *)
(* updates in progress: whatever is due for a year falls in it or in one   *)
(* of the two after it, so that the years _years looks at are enough; an   *)
(* update leaves exactly the statutory dates of what it read; and a date   *)
(* that was announced stays while what it is computed from does.           *)
(***************************************************************************)
EXTENDS StatusWatch, ComplianceCalendar, WellFoundedInduction, TLAPS

-----------------------------------------------------------------------------
(* Reading an answer *)

\* A set of natural numbers has a least one.
LEMMA LeastExists ==
    ASSUME NEW S \in SUBSET Nat, S # {}
    PROVE  \E m \in S : \A n \in S : m <= n
  <1>1. PICK m \in S : \A n \in S : ~(<<n, m>> \in OpToRel(<, Nat))
    BY NatLessThanWellFounded, WFMin
  <1>2. \A n \in S : ~(n < m)
    BY <1>1 DEF OpToRel
  <1> QED
    BY <1>2

\* The organisation that is used is one of the answer.
LEMMA PickedIsAnswered ==
    ASSUME NEW parsed \in Answers, NEW name, NEW chosen
    PROVE  Picked(parsed, name, chosen) \in Range(parsed) \cup {NotFound}
  <1> DEFINE rank(k) == Rank(parsed[k], name, chosen)
             first(k) == \A j \in DOMAIN parsed : rank(k) < rank(j) \/ (rank(k) = rank(j) /\ k <= j)
  <1>1. CASE parsed = <<>>
    BY <1>1 DEF Picked
  <1>2. CASE parsed # <<>>
    <2>1. parsed \in Seq(Range(parsed))
      BY WatchAssumption
    <2>2. DOMAIN parsed \subseteq Nat /\ DOMAIN parsed # {}
      BY <1>2, <2>1
    <2>3. \A k : rank(k) \in 1..5
      BY DEF Rank
    <2>4. PICK r \in {rank(k) : k \in DOMAIN parsed} : \A q \in {rank(k) : k \in DOMAIN parsed} : r <= q
      <3> HIDE DEF rank
      <3>1. {rank(k) : k \in DOMAIN parsed} \in SUBSET Nat /\ {rank(k) : k \in DOMAIN parsed} # {}
        BY <2>2, <2>3
      <3> QED
        BY <3>1, LeastExists
    <2>5. PICK k \in {j \in DOMAIN parsed : rank(j) = r} : \A j \in {i \in DOMAIN parsed : rank(i) = r} : k <= j
      <3> HIDE DEF rank
      <3>1. {j \in DOMAIN parsed : rank(j) = r} \in SUBSET Nat /\ {j \in DOMAIN parsed : rank(j) = r} # {}
        BY <2>2, <2>4
      <3> QED
        BY <3>1, LeastExists
    <2>6. first(k)
      <3> HIDE DEF rank
      <3> QED
        BY <2>2, <2>3, <2>4, <2>5
    <2>7. (CHOOSE i \in DOMAIN parsed : first(i)) \in DOMAIN parsed
      <3> HIDE DEF first
      <3> QED
        BY <2>5, <2>6
    <2>8. Picked(parsed, name, chosen) = parsed[CHOOSE i \in DOMAIN parsed : first(i)]
      BY <1>2 DEF Picked
    <2> QED
      BY <2>7, <2>8 DEF Range
  <1> QED
    BY <1>1, <1>2

-----------------------------------------------------------------------------
(* The rows *)

\* The organisations Bolagsverket may know of, and what is assumed of their notes: a
\* deregistration (its reason and date) never reads as a procedure (its text and start),
\* lib/bolagsverket.py, status_of.
Organisations == UNION {Range(parsed) : parsed \in Answers}

NotesTell ==
    \A a, b \in Organisations :
        StatusOf(a) = "deregistered" /\ StatusOf(b) = "procedure" => a.note # b.note

\* A partner has these fields,
Fields == {"company_registry", "vat", "abroad", "name", "todo",
           "status", "note", "mismatch", "chosen", "next", "of", "lost", "told"}

Shaped(rec) ==
    /\ rec = [field \in Fields |-> rec[field]]
    /\ rec.told = [kind \in {"status", "mismatch"} |-> rec.told[kind]]
    /\ rec.vat \in Numbers \cup {"none"}

\* its status was learnt about its number or about one that a lookup replaced,
Learnt(rec) == rec.status # "none" => rec.of \in {Identity(rec), rec.lost} /\ rec.of \notin Broken

\* its bad status and the note are those of an organisation,
Noted(rec) == rec.status \in Bad => \E org \in Organisations : rec.status = StatusOf(org) /\ rec.note = org.note

\* and what is bad about it has been told of.
Told(rec) ==
    /\ rec.status \in Bad =>
        \E number \in {Identity(rec), rec.lost} : rec.told.status = <<number, rec.status, rec.note>>
    /\ rec.mismatch => rec.told.mismatch = <<Identity(rec)>>

Sound(rec) == Shaped(rec) /\ Learnt(rec) /\ Noted(rec) /\ (NotesTell => Told(rec))

\* Two rows of one number, entered alike.
SameContact(new, rec) ==
    new.company_registry = rec.company_registry /\ new.vat = rec.vat /\ new.abroad = rec.abroad

LEMMA SameNumber ==
    ASSUME NEW rec, NEW new, SameContact(new, rec)
    PROVE  Identity(new) = Identity(rec)
  BY DEF SameContact, Identity

LEMMA NumberKnown ==
    ASSUME NEW rec, Shaped(rec)
    PROVE  Identity(rec) \in Numbers \cup {"none"}
  BY DEF Shaped, Identity

\* A notification changes what was told of, and a to-do.
LEMMA NotifiedRow ==
    ASSUME NEW rec, Shaped(rec), NEW kind \in {"status", "mismatch"}, NEW about
    PROVE  LET n == Notified(rec, kind, about)
           IN  /\ Shaped(n)
               /\ SameContact(n, rec)
               /\ n.status = rec.status /\ n.note = rec.note /\ n.mismatch = rec.mismatch
               /\ n.of = rec.of /\ n.lost = rec.lost
               /\ n.told.status = IF kind = "status" THEN about ELSE rec.told.status
               /\ n.told.mismatch = IF kind = "mismatch" THEN about ELSE rec.told.mismatch
  <1> DEFINE n == Notified(rec, kind, about)
             told == [rec.told EXCEPT ![kind] = about]
  <1>1. n.told = told /\ n = [field \in Fields |-> n[field]]
    BY DEF Notified, Shaped, Fields
  <1>2. SameContact(n, rec) /\ n.vat = rec.vat
    BY DEF Notified, Shaped, Fields, SameContact
  <1>3. /\ n.of = rec.of /\ n.lost = rec.lost
        /\ n.status = rec.status /\ n.note = rec.note /\ n.mismatch = rec.mismatch
    BY DEF Notified, Shaped, Fields
  <1>4. /\ told = [k \in {"status", "mismatch"} |-> told[k]]
        /\ told.status = IF kind = "status" THEN about ELSE rec.told.status
        /\ told.mismatch = IF kind = "mismatch" THEN about ELSE rec.told.mismatch
    BY DEF Shaped
  <1> HIDE DEF n, told
  <1>5. Shaped(n)
    BY <1>1, <1>2, <1>4 DEF Shaped
  <1> QED
    BY <1>1, <1>2, <1>3, <1>4, <1>5 DEF n

\* What an answer does to a row.
LEMMA AppliedRow ==
    ASSUME NEW rec, Shaped(rec), NEW number, NEW org, NEW parsed
    PROVE  LET new == Applied(rec, number, org, parsed)
           IN  /\ Shaped(new)
               /\ SameContact(new, rec)
               /\ new.status = StatusOf(org) /\ new.note = NoteOf(org)
               /\ new.of = number /\ new.lost = rec.lost
               /\ new.told.status = IF Alarming(rec, StatusOf(org), NoteOf(org))
                                    THEN <<number, StatusOf(org), NoteOf(org)>> ELSE rec.told.status
               /\ new.mismatch =>
                    new.told.mismatch = IF rec.mismatch THEN rec.told.mismatch ELSE <<Identity(rec)>>
  <1> DEFINE status == StatusOf(org)
             note == NoteOf(org)
             mismatch == org.found /\ org.name # "none" /\ rec.name \notin Registered(parsed)
             stored == [rec EXCEPT !.status = status, !.note = note, !.mismatch = mismatch,
                                   !.next = RecheckTicks, !.of = number]
             told == IF Alarming(rec, status, note)
                     THEN Notified(stored, "status", <<number, status, note>>) ELSE stored
             final == IF mismatch /\ ~rec.mismatch THEN Notified(told, "mismatch", <<Identity(rec)>>) ELSE told
  <1>1. Applied(rec, number, org, parsed) = final
    BY DEF Applied
  <1> HIDE DEF status, note, mismatch
  <1>2. stored = [field \in Fields |-> stored[field]] /\ stored.told = rec.told
    BY DEF Shaped, Fields
  <1>3. SameContact(stored, rec) /\ stored.vat = rec.vat
    BY DEF Shaped, Fields, SameContact
  <1>4. /\ stored.of = number /\ stored.lost = rec.lost
        /\ stored.status = status /\ stored.note = note /\ stored.mismatch = mismatch
    BY DEF Shaped, Fields
  <1> HIDE DEF stored
  <1>5. Shaped(stored)
    BY <1>2, <1>3 DEF Shaped
  <1>6. /\ Shaped(told) /\ SameContact(told, rec) /\ told.of = number /\ told.lost = rec.lost
        /\ told.status = status /\ told.note = note /\ told.mismatch = mismatch
        /\ told.told.mismatch = rec.told.mismatch
        /\ told.told.status = IF Alarming(rec, status, note) THEN <<number, status, note>> ELSE rec.told.status
    <2> DEFINE about == <<number, status, note>>
    <2> HIDE DEF about
    <2>1. CASE Alarming(rec, status, note)
      <3>1. told = Notified(stored, "status", about)
        BY <2>1 DEF about
      <3>2. "status" \in {"status", "mismatch"} /\ "status" # "mismatch"
        OBVIOUS
      <3>3. /\ Shaped(told) /\ SameContact(told, stored) /\ told.of = stored.of /\ told.lost = stored.lost
            /\ told.status = stored.status /\ told.note = stored.note /\ told.mismatch = stored.mismatch
            /\ told.told.mismatch = stored.told.mismatch /\ told.told.status = about
        <4> HIDE DEF told
        <4> QED
          BY <3>1, <3>2, <1>5, NotifiedRow
      <3> HIDE DEF told
      <3> QED
        BY <2>1, <3>3, <1>2, <1>3, <1>4 DEF SameContact, about
    <2>2. CASE ~Alarming(rec, status, note)
      <3>1. told = stored
        BY <2>2
      <3> HIDE DEF told
      <3> QED
        BY <2>2, <3>1, <1>2, <1>3, <1>4, <1>5
    <2> QED
      BY <2>1, <2>2
  <1> HIDE DEF told
  <1>7. /\ Shaped(final) /\ SameContact(final, rec) /\ final.of = number /\ final.lost = rec.lost
        /\ final.status = status /\ final.note = note
        /\ final.told.status = told.told.status
        /\ final.mismatch =>
            final.told.mismatch = IF rec.mismatch THEN rec.told.mismatch ELSE <<Identity(rec)>>
    <2>1. CASE mismatch /\ ~rec.mismatch
      <3> DEFINE about == <<Identity(rec)>>
      <3> HIDE DEF about
      <3>1. final = Notified(told, "mismatch", about)
        BY <2>1 DEF about
      <3>2. "mismatch" \in {"status", "mismatch"} /\ "status" # "mismatch"
        OBVIOUS
      <3>3. /\ Shaped(final) /\ SameContact(final, told) /\ final.of = told.of /\ final.lost = told.lost
            /\ final.status = told.status /\ final.note = told.note
            /\ final.told.status = told.told.status /\ final.told.mismatch = about
        <4> HIDE DEF final
        <4> QED
          BY <3>1, <3>2, <1>6, NotifiedRow
      <3> HIDE DEF final
      <3> QED
        BY <2>1, <3>3, <1>6 DEF SameContact, about
    <2>2. CASE ~(mismatch /\ ~rec.mismatch)
      <3>1. final = told
        BY <2>2
      <3> HIDE DEF final
      <3> QED
        BY <2>2, <3>1, <1>6
    <2> QED
      BY <2>1, <2>2
  <1> HIDE DEF final
  <1> QED
    BY <1>1, <1>6, <1>7 DEF status, note

\* A bad status is that of an organisation, with its note.
LEMMA BadIsRegistered ==
    ASSUME NEW parsed \in Answers, NEW org \in Range(parsed) \cup {NotFound}, StatusOf(org) \in Bad
    PROVE  org \in Organisations /\ NoteOf(org) = org.note
  <1>1. org # NotFound
    BY DEF StatusOf, NotFound, Bad
  <1> QED
    BY <1>1 DEF Organisations, NoteOf

\* A bad status that is no news is the one the row has.
LEMMA OldNews ==
    ASSUME NEW rec, Noted(rec), NotesTell, NEW org \in Organisations, NoteOf(org) = org.note,
           StatusOf(org) \in Bad, ~Alarming(rec, StatusOf(org), NoteOf(org))
    PROVE  rec.status = StatusOf(org) /\ rec.note = NoteOf(org)
  <1>1. rec.status \in Bad /\ rec.note = NoteOf(org)
    BY DEF Alarming
  <1>2. PICK old \in Organisations : rec.status = StatusOf(old) /\ rec.note = old.note
    BY <1>1 DEF Noted
  <1> QED
    BY <1>1, <1>2 DEF NotesTell, Bad

\* An answer about its number keeps a row sound.
LEMMA AppliedSound ==
    ASSUME NEW rec, Sound(rec), Identity(rec) \notin Broken,
           NEW parsed \in Answers, NEW org \in Range(parsed) \cup {NotFound}
    PROVE  Sound(Applied(rec, Identity(rec), org, parsed))
  <1> DEFINE number == Identity(rec)
             new == Applied(rec, number, org, parsed)
             status == StatusOf(org)
             note == NoteOf(org)
  <1>1. status \in Bad => org \in Organisations /\ note = org.note
    BY BadIsRegistered
  <1>2. status \in Bad /\ ~Alarming(rec, status, note) /\ NotesTell => rec.status = status /\ rec.note = note
    BY <1>1, OldNews DEF Sound
  <1> HIDE DEF number
  <1>3. /\ Shaped(new) /\ SameContact(new, rec)
        /\ new.status = status /\ new.note = note /\ new.of = number /\ new.lost = rec.lost
        /\ new.told.status = IF Alarming(rec, status, note) THEN <<number, status, note>> ELSE rec.told.status
        /\ new.mismatch =>
            new.told.mismatch = IF rec.mismatch THEN rec.told.mismatch ELSE <<Identity(rec)>>
    BY AppliedRow DEF Sound
  <1> HIDE DEF new
  <1>4. Identity(new) = number
    BY <1>3, SameNumber DEF number
  <1>5. Learnt(new)
    BY <1>3, <1>4 DEF Learnt, number
  <1>6. Noted(new)
    BY <1>1, <1>3 DEF Noted
  <1> HIDE DEF status, note
  <1>7. ASSUME NotesTell PROVE Told(new)
    <2>1. Told(rec)
      BY <1>7 DEF Sound
    <2>2. ASSUME status \in Bad
          PROVE  \E n \in {number, new.lost} : new.told.status = <<n, status, note>>
      <3>1. CASE Alarming(rec, status, note)
        BY <3>1, <1>3
      <3>2. CASE ~Alarming(rec, status, note)
        <4>1. rec.status = status /\ rec.note = note /\ new.told.status = rec.told.status
          BY <3>2, <2>2, <1>2, <1>3, <1>7
        <4> QED
          BY <4>1, <2>1, <2>2, <1>3 DEF Told, number
      <3> QED
        BY <3>1, <3>2
    <2>3. new.mismatch => new.told.mismatch = <<number>>
      BY <1>3, <2>1 DEF Told, number
    <2> QED
      BY <1>3, <1>4, <2>2, <2>3 DEF Told
  <1> QED
    BY <1>3, <1>5, <1>6, <1>7 DEF Sound, new, number

\* So does one about a number that the lookup has replaced, on a row that forgot all else.
LEMMA ReplacedSound ==
    ASSUME NEW rec, Sound(rec), rec.status = "none", NEW number, number \notin Broken,
           NEW parsed \in Answers, NEW org \in Range(parsed) \cup {NotFound}
    PROVE  Sound([Applied(rec, number, org, parsed) EXCEPT !.lost = number])
  <1> DEFINE applied == Applied(rec, number, org, parsed)
             new == [applied EXCEPT !.lost = number]
             status == StatusOf(org)
             note == NoteOf(org)
  <1>1. status \in Bad => org \in Organisations /\ note = org.note
    BY BadIsRegistered
  <1>2. status \in Bad => Alarming(rec, status, note)
    BY DEF Alarming, Bad
  <1>3. /\ Shaped(applied) /\ SameContact(applied, rec)
        /\ applied.status = status /\ applied.note = note /\ applied.of = number
        /\ applied.told.status = IF Alarming(rec, status, note) THEN <<number, status, note>> ELSE rec.told.status
        /\ applied.mismatch =>
            applied.told.mismatch = IF rec.mismatch THEN rec.told.mismatch ELSE <<Identity(rec)>>
    BY AppliedRow DEF Sound
  <1> HIDE DEF applied
  <1>4. /\ new = [field \in Fields |-> new[field]]
        /\ new.told = applied.told /\ new.lost = number /\ new.of = applied.of
    BY <1>3 DEF Shaped, Fields
  <1>5. SameContact(new, rec) /\ new.vat = applied.vat
    BY <1>3 DEF Shaped, Fields, SameContact
  <1>6. new.status = applied.status /\ new.note = applied.note /\ new.mismatch = applied.mismatch
    BY <1>3 DEF Shaped, Fields
  <1> HIDE DEF new
  <1>7. Shaped(new)
    BY <1>3, <1>4, <1>5 DEF Shaped
  <1>8. Identity(new) = Identity(rec)
    BY <1>5, SameNumber
  <1>9. Learnt(new)
    BY <1>3, <1>4 DEF Learnt
  <1>10. Noted(new)
    BY <1>1, <1>3, <1>6 DEF Noted
  <1> HIDE DEF status, note
  <1>11. ASSUME NotesTell PROVE Told(new)
    <2>1. Told(rec)
      BY <1>11 DEF Sound
    <2>2. status \in Bad => new.told.status = <<new.lost, status, note>>
      BY <1>2, <1>3, <1>4
    <2>3. new.mismatch => new.told.mismatch = <<Identity(rec)>>
      BY <1>3, <1>4, <1>6, <2>1 DEF Told
    <2>4. new.status = status /\ new.note = note
      BY <1>3, <1>6
    <2> QED
      BY <1>8, <2>2, <2>3, <2>4 DEF Told
  <1> QED
    BY <1>7, <1>9, <1>10, <1>11 DEF Sound, new, applied

\* Only these fields make a row sound or not.
LEMMA SameSound ==
    ASSUME NEW rec, Sound(rec), NEW new, Shaped(new), Identity(new) = Identity(rec),
           new.of = rec.of, new.lost = rec.lost, new.status = rec.status, new.note = rec.note,
           new.mismatch = rec.mismatch, new.told = rec.told
    PROVE  Sound(new)
  <1>1. Learnt(new)
    BY DEF Sound, Learnt
  <1>2. Noted(new)
    BY DEF Sound, Noted
  <1>3. NotesTell => Told(new)
    BY DEF Sound, Told
  <1> QED
    BY <1>1, <1>2, <1>3 DEF Sound

\* What users and delays change.
LEMMA ChangedSound ==
    ASSUME NEW rec, Sound(rec), NEW field \in {"name", "next", "todo"}, NEW value
    PROVE  Sound([rec EXCEPT ![field] = value])
  <1> DEFINE new == [rec EXCEPT ![field] = value]
  <1>1. /\ new = [f \in Fields |-> new[f]]
        /\ \A f \in Fields \ {"name", "next", "todo"} : new[f] = rec[f]
    BY DEF Sound, Shaped, Fields
  <1> HIDE DEF new
  <1>2. new.told = rec.told /\ new.of = rec.of /\ new.lost = rec.lost
    BY <1>1 DEF Fields
  <1>3. new.status = rec.status /\ new.note = rec.note /\ new.mismatch = rec.mismatch
    BY <1>1 DEF Fields
  <1>4. SameContact(new, rec) /\ new.vat = rec.vat
    BY <1>1 DEF Fields, SameContact
  <1>5. Shaped(new)
    BY <1>1, <1>2, <1>4 DEF Sound, Shaped
  <1>6. Identity(new) = Identity(rec)
    BY <1>4, SameNumber
  <1>7. Sound(new)
    BY <1>2, <1>3, <1>5, <1>6, SameSound
  <1> QED
    BY <1>7 DEF new

\* A row that forgets keeps how its number was entered, and shows nothing.
LEMMA ForgottenSound ==
    ASSUME NEW rec, DOMAIN rec = Fields, rec.vat \in Numbers \cup {"none"}
    PROVE  Sound(Forgotten(rec)) /\ SameContact(Forgotten(rec), rec) /\ Forgotten(rec).status = "none"
  <1> DEFINE new == Forgotten(rec)
  <1>1. new = [field \in Fields |-> IF field \in DOMAIN Unchecked THEN Unchecked[field] ELSE rec[field]]
    <2>1. DOMAIN Unchecked \cup DOMAIN rec = Fields
      BY DEF Unchecked, Fields
    <2> QED
      BY <2>1 DEF Forgotten, Written
  <1> HIDE DEF new
  <1>2. /\ new = [field \in Fields |-> new[field]]
        /\ new.status = "none" /\ new.mismatch = FALSE
        /\ new.told = [status |-> <<>>, mismatch |-> <<>>]
    BY <1>1 DEF Unchecked, Fields
  <1>3. SameContact(new, rec) /\ new.vat = rec.vat
    BY <1>1 DEF Unchecked, Fields, SameContact
  <1>4. Shaped(new)
    BY <1>2, <1>3 DEF Shaped
  <1>5. Sound(new)
    BY <1>2, <1>4 DEF Sound, Learnt, Noted, Told, Bad
  <1> QED
    BY <1>2, <1>3, <1>5 DEF new

\* What users write, and the button.
LEMMA SavedSound ==
    ASSUME NEW rec, Sound(rec), NEW vals,
           DOMAIN vals \subseteq {"company_registry", "vat", "abroad", "name", "chosen"},
           "vat" \in DOMAIN vals => vals.vat \in Numbers \cup {"none"}
    PROVE  /\ Sound(Saved(rec, vals))
           /\ Identity(Saved(rec, vals)) # Identity(rec) => Saved(rec, vals).status = "none"
  <1> DEFINE new == Written(rec, vals)
  <1>1. new = [field \in Fields |-> IF field \in DOMAIN vals THEN vals[field] ELSE rec[field]]
    <2>1. DOMAIN rec = Fields
      BY DEF Sound, Shaped
    <2>2. DOMAIN rec \cup DOMAIN vals = Fields
      BY <2>1 DEF Fields
    <2> QED
      BY <2>2 DEF Written
  <1>2. Saved(rec, vals) = IF Identity(new) # Identity(rec) THEN Forgotten(new) ELSE new
    BY DEF Saved
  <1> HIDE DEF new
  <1>3. new = [field \in Fields |-> new[field]] /\ DOMAIN new = Fields
    BY <1>1
  <1>4. new.vat \in Numbers \cup {"none"}
    BY <1>1 DEF Sound, Shaped, Fields
  <1>5. CASE Identity(new) # Identity(rec)
    BY <1>2, <1>3, <1>4, <1>5, ForgottenSound
  <1>6. CASE Identity(new) = Identity(rec)
    <2>1. new.told = rec.told /\ new.of = rec.of /\ new.lost = rec.lost
      BY <1>1 DEF Fields
    <2>2. new.status = rec.status /\ new.note = rec.note /\ new.mismatch = rec.mismatch
      BY <1>1 DEF Fields
    <2>3. Shaped(new)
      BY <1>3, <1>4, <2>1 DEF Sound, Shaped
    <2> QED
      BY <1>2, <1>6, <2>1, <2>2, <2>3, SameSound
  <1> QED
    BY <1>5, <1>6

\* A lookup keeps a row sound, whether it takes over the contact data or not.
LEMMA CheckedSound ==
    ASSUME NEW rec, Sound(rec), Identity(rec) \notin Broken, NEW parsed \in Answers, NEW takes
    PROVE  Sound(Checked(rec, parsed, takes))
  <1> DEFINE org == Picked(parsed, rec.name, rec.chosen)
             number == Identity(rec)
             vals == ContactVals(rec, org)
             fetched == IF takes /\ org.found THEN Saved(rec, vals) ELSE rec
             applied == Applied(fetched, number, org, parsed)
  <1>1. Checked(rec, parsed, takes) =
            IF Identity(fetched) # number THEN [applied EXCEPT !.lost = number] ELSE applied
    BY DEF Checked
  <1>2. org \in Range(parsed) \cup {NotFound}
    BY PickedIsAnswered
  <1> HIDE DEF org
  <1>3. Sound(Saved(rec, vals)) /\ (Identity(Saved(rec, vals)) # number => Saved(rec, vals).status = "none")
    <2>1. DOMAIN vals = {"name", "chosen", "abroad", "company_registry"}
      BY DEF ContactVals
    <2> HIDE DEF vals
    <2>2. DOMAIN vals \subseteq {"company_registry", "vat", "abroad", "name", "chosen"} /\ "vat" \notin DOMAIN vals
      BY <2>1
    <2> QED
      BY <2>2, SavedSound
  <1> HIDE DEF vals
  <1>4. Sound(fetched) /\ (Identity(fetched) # number => fetched.status = "none")
    BY <1>3
  <1> HIDE DEF fetched
  <1>5. CASE Identity(fetched) # number
    <2>1. Sound([applied EXCEPT !.lost = number])
      BY <1>2, <1>4, <1>5, ReplacedSound
    <2> QED
      BY <1>1, <1>5, <2>1
  <1>6. CASE Identity(fetched) = number
    <2>1. Sound(Applied(fetched, Identity(fetched), org, parsed))
      BY <1>2, <1>4, <1>6, AppliedSound
    <2> QED
      BY <1>1, <1>6, <2>1
  <1> QED
    BY <1>5, <1>6

-----------------------------------------------------------------------------
(* The invariant *)

\* Every row is sound, and a button is only pressed on a partner with a number.  What a
\* process has read needs no invariant of its own: it is used only while the row is still
\* what was read.
IInv ==
    /\ partner = [p \in Partners |-> partner[p]]
    /\ registry \in [Numbers -> Answers]
    /\ tx = [c \in Processes |-> tx[c]]
    /\ \A p \in Partners : Sound(partner[p])
    /\ tx["user"] # None => Identity(tx["user"].seen) \in Numbers

\* Initially nothing is known.
LEMMA InitIInv == Init => IInv
  <1> SUFFICES ASSUME Init PROVE IInv
    OBVIOUS
  <1>1. PICK contact \in [Partners -> Contacts], name \in [Partners -> Names] :
            partner = [p \in Partners |->
                Written(contact[p], Written([name |-> name[p], todo |-> [status |-> 0, mismatch |-> 0]], Unchecked))]
    BY DEF Init
  <1>2. ASSUME NEW p \in Partners PROVE Sound(partner[p])
    <2> DEFINE own == [name |-> name[p], todo |-> [status |-> 0, mismatch |-> 0]]
               rest == Written(own, Unchecked)
               new == partner[p]
    <2>1. new = Written(contact[p], rest)
      BY <1>1
    <2>2. /\ DOMAIN contact[p] = {"company_registry", "vat", "abroad"}
          /\ contact[p].vat \in Numbers \cup {"none"}
      <3>1. contact[p] \in Contacts
        BY <1>1
      <3> QED
        BY <3>1, WatchAssumption
    <2>3. /\ rest = [field \in Fields \ {"company_registry", "vat", "abroad"} |->
                        IF field \in DOMAIN Unchecked THEN Unchecked[field] ELSE own[field]]
      <3>1. DOMAIN own \cup DOMAIN Unchecked = Fields \ {"company_registry", "vat", "abroad"}
        BY DEF Unchecked, Fields
      <3> QED
        BY <3>1 DEF Written
    <2> HIDE DEF own, rest
    <2>4. new = [field \in Fields |-> IF field \in DOMAIN rest THEN rest[field] ELSE contact[p][field]]
      <3>1. DOMAIN contact[p] \cup DOMAIN rest = Fields
        BY <2>2, <2>3 DEF Fields
      <3> QED
        BY <2>1, <3>1 DEF Written
    <2> HIDE DEF new
    <2>5. rest.status = "none" /\ rest.mismatch = FALSE /\ rest.told = [status |-> <<>>, mismatch |-> <<>>]
      BY <2>3 DEF Unchecked, Fields
    <2>6. /\ new = [field \in Fields |-> new[field]]
          /\ new.status = "none" /\ new.mismatch = FALSE
          /\ new.told = [status |-> <<>>, mismatch |-> <<>>]
      BY <2>3, <2>4, <2>5 DEF Fields
    <2>7. new.vat \in Numbers \cup {"none"}
      BY <2>2, <2>3, <2>4 DEF Fields
    <2>8. Shaped(new)
      BY <2>6, <2>7 DEF Shaped
    <2> QED
      BY <2>6, <2>8 DEF Sound, Learnt, Noted, Told, Bad, new
  <1>3. tx["user"] = None
    BY DEF Init, Processes
  <1> QED
    BY <1>1, <1>2, <1>3 DEF Init, IInv

\* A change of one row keeps the rows sound when the new row is.
LEMMA OneRow ==
    ASSUME IInv, NEW p, NEW rec, p \in Partners => Sound(rec), partner' = [partner EXCEPT ![p] = rec]
    PROVE  /\ partner' = [q \in Partners |-> partner'[q]]
           /\ \A q \in Partners : Sound(partner'[q])
  BY DEF IInv

\* Users keep the rows sound.
LEMMA UsersIInv ==
    ASSUME IInv, NEW p \in Partners, ChangeNumber(p) \/ Rename(p) \/ DoTodo(p) \/ Press(p)
    PROVE  IInv'
  <1>0. Sound(partner[p]) /\ Identity(partner[p]) \in Numbers \cup {"none"}
    BY NumberKnown DEF IInv, Sound
  <1>1. CASE ChangeNumber(p)
    <2>1. PICK contact \in Contacts : partner' = [partner EXCEPT ![p] = Saved(partner[p], contact)]
      BY <1>1 DEF ChangeNumber
    <2>2. /\ DOMAIN contact \subseteq {"company_registry", "vat", "abroad", "name", "chosen"}
          /\ contact.vat \in Numbers \cup {"none"}
      BY WatchAssumption
    <2>3. Sound(Saved(partner[p], contact))
      BY <1>0, <2>2, SavedSound
    <2> QED
      BY <1>1, <2>1, <2>3, OneRow DEF ChangeNumber, IInv
  <1>2. CASE Rename(p)
    <2>1. PICK name : partner' = [partner EXCEPT ![p] = [partner[p] EXCEPT !.name = name]]
      BY <1>2 DEF Rename
    <2>2. Sound([partner[p] EXCEPT !.name = name])
      BY <1>0, ChangedSound
    <2> QED
      BY <1>2, <2>1, <2>2, OneRow DEF Rename, IInv
  <1>3. CASE DoTodo(p)
    <2>1. PICK kind \in {"status", "mismatch"} :
              partner' = [partner EXCEPT ![p] = [partner[p] EXCEPT !.todo = [partner[p].todo EXCEPT ![kind] = 0]]]
      BY <1>3 DEF DoTodo
    <2>2. Sound([partner[p] EXCEPT !.todo = [partner[p].todo EXCEPT ![kind] = 0]])
      BY <1>0, ChangedSound
    <2> QED
      BY <1>3, <2>1, <2>2, OneRow DEF DoTodo, IInv
  <1>4. CASE Press(p)
    <2>1. PICK asked \in BOOLEAN : tx' = [tx EXCEPT !["user"] = [p |-> p, seen |-> partner[p], update |-> asked]]
      BY <1>4 DEF Press
    <2>2. tx' = [c \in Processes |-> tx'[c]] /\ tx'["user"].seen = partner[p]
      BY <2>1 DEF IInv, Processes
    <2>3. Identity(partner[p]) \in Numbers
      BY <1>0, <1>4 DEF Press
    <2> QED
      BY <1>4, <2>2, <2>3 DEF Press, IInv
  <1> QED
    BY <1>1, <1>2, <1>3, <1>4

\* A transaction that ends leaves no reading behind.
LEMMA TxEnds ==
    ASSUME IInv, NEW c \in Processes, tx' = [tx EXCEPT ![c] = None]
    PROVE  tx' = [d \in Processes |-> tx'[d]] /\ (tx'["user"] # None => Identity(tx'["user"].seen) \in Numbers)
  BY DEF IInv, Processes

\* So does the answer to a button.
LEMMA PressedIInv ==
    ASSUME IInv, Pressed
    PROVE  IInv'
  <1> DEFINE t == tx["user"]
             number == Identity(t.seen)
             row == Checked(t.seen, registry[number], t.update)
  <1>1. tx' = [tx EXCEPT !["user"] = None] /\ registry' = registry
    BY DEF Pressed
  <1>2. /\ tx' = [c \in Processes |-> tx'[c]]
        /\ tx'["user"] # None => Identity(tx'["user"].seen) \in Numbers
    BY <1>1, TxEnds DEF Processes
  <1>3. CASE partner' = partner
    BY <1>1, <1>2, <1>3 DEF IInv
  <1>4. CASE Unchanged("user") /\ number \notin Broken /\ partner' = [partner EXCEPT ![t.p] = row]
    <2>1. registry[number] \in Answers
      BY DEF Pressed, IInv
    <2>2. ASSUME t.p \in Partners PROVE Sound(row)
      <3>1. Sound(t.seen)
        BY <1>4, <2>2 DEF IInv, Unchanged
      <3> HIDE DEF t
      <3> QED
        BY <1>4, <2>1, <3>1, CheckedSound
    <2> HIDE DEF row, number, t
    <2>3. /\ partner' = [q \in Partners |-> partner'[q]]
          /\ \A q \in Partners : Sound(partner'[q])
      BY <1>4, <2>2, OneRow
    <2> QED
      BY <1>1, <1>2, <2>3 DEF IInv
  <1> QED
    BY <1>3, <1>4 DEF Pressed

\* What the scheduled check commits keeps the rows sound when the new row is.
LEMMA CommitIInv ==
    ASSUME IInv, NEW rec, NEW row, NEW stop, Sound(Asked) => Sound(rec), Commit(rec, row, stop)
    PROVE  IInv'
  <1> DEFINE p == tx["cron"].p
  <1>1. tx' = [tx EXCEPT !["cron"] = None] /\ registry' = registry
    BY DEF Commit
  <1>2. /\ tx' = [c \in Processes |-> tx'[c]]
        /\ tx'["user"] # None => Identity(tx'["user"].seen) \in Numbers
    BY <1>1, TxEnds DEF Processes
  <1>3. CASE Unchanged("cron")
    <2>1. p \in Partners => Sound(rec)
      BY <1>3 DEF IInv, Unchanged, Asked
    <2>2. partner' = [partner EXCEPT ![p] = rec]
      BY <1>3 DEF Commit
    <2> QED
      BY <1>1, <1>2, <2>1, <2>2, OneRow DEF IInv
  <1>4. CASE ~Unchanged("cron")
    BY <1>1, <1>2, <1>4 DEF Commit, IInv
  <1> QED
    BY <1>3, <1>4

\* The scheduled check keeps the rows sound.
LEMMA CheckIInv ==
    ASSUME IInv, Check \/ EndCheck \/ Stopped
    PROVE  IInv'
  <1>1. ASSUME NEW p, tx' = Reading(p), partner' = partner, registry' = registry PROVE IInv'
    BY <1>1 DEF Reading, IInv, Processes
  <1>2. CASE StartCheck
    BY <1>1, <1>2 DEF StartCheck
  <1>3. CASE Ask
    BY <1>1, <1>3 DEF Ask
  <1>4. CASE Answered
    <2>1. ASSUME Sound(Asked) PROVE Sound(Checked(Asked, registry[Identity(Asked)], FALSE))
      <3>1. Identity(Asked) \in Numbers /\ Identity(Asked) \notin Broken
        BY <1>4, <2>1, NumberKnown DEF Answered, Sound
      <3>2. registry[Identity(Asked)] \in Answers
        BY <3>1 DEF IInv
      <3> QED
        BY <2>1, <3>1, <3>2, CheckedSound
    <2> QED
      BY <1>4, <2>1, CommitIInv DEF Answered
  <1>5. CASE Incomplete
    <2>1. Sound(Asked) => Sound(Postponed(Asked))
      BY ChangedSound DEF Postponed
    <2> QED
      BY <1>5, <2>1, CommitIInv DEF Incomplete
  <1>6. CASE Refused
    <2>1. Sound(Asked) => Sound([Asked EXCEPT !.next = RetryTicks])
      BY ChangedSound
    <2> QED
      BY <1>6, <2>1, CommitIInv DEF Refused
  <1>7. CASE EndCheck
    BY <1>7 DEF EndCheck, IInv
  <1>8. CASE Stopped
    BY <1>8, TxEnds DEF Stopped, IInv, Processes
  <1> QED
    BY <1>2, <1>3, <1>4, <1>5, <1>6, <1>7, <1>8 DEF Check

\* Time passes.
LEMMA TickIInv ==
    ASSUME IInv, Tick
    PROVE  IInv'
  <1>1. \A p \in Partners : Sound(partner'[p])
    BY ChangedSound DEF Tick, IInv
  <1> QED
    BY <1>1 DEF Tick, IInv

\* Every step keeps the invariant.
LEMMA NextIInv == IInv /\ [Next]_vars => IInv'
  <1> SUFFICES ASSUME IInv, [Next]_vars PROVE IInv'
    OBVIOUS
  <1>1. ASSUME NEW n \in Numbers, RegistryChanges(n) PROVE IInv'
    BY <1>1 DEF RegistryChanges, IInv
  <1>2. CASE UNCHANGED vars
    BY <1>2 DEF vars, IInv
  <1> QED
    BY <1>1, <1>2, UsersIInv, PressedIInv, CheckIInv, TickIInv DEF Next

\* The invariant holds throughout.
THEOREM Invariance == Spec => []IInv
  BY InitIInv, NextIInv, PTL DEF Spec

-----------------------------------------------------------------------------
(* The theorems *)

\* What a partner shows was learnt from a complete answer about the number it has now, or
\* about one that the lookup itself replaced (_l10n_se_bv_check_one), however its number
\* changes while it is looked up.
THEOREM StatusIsOfNumberAlways == Spec => []StatusIsOfNumber
  <1>1. IInv => StatusIsOfNumber
    BY DEF IInv, Sound, Learnt, StatusIsOfNumber
  <1> QED
    BY <1>1, Invariance, PTL

\* A partner shown as bankrupt or deregistered, or under another's name, has been told of
\* (_l10n_se_bv_apply_status), if a deregistration never reads as a procedure.
THEOREM BadIsToldAlways ==
    ASSUME NotesTell
    PROVE  Spec => []BadIsTold
  <1>1. IInv => BadIsTold
    BY DEF IInv, Sound, Told, BadIsTold
  <1> QED
    BY <1>1, Invariance, PTL

-----------------------------------------------------------------------------
(* Dates *)

\* The days before a year, and those of a year before a month.
Before(y) == 365 * (y - 1) + (y - 1) \div 4 - (y - 1) \div 100 + (y - 1) \div 400
InYear(y, m) ==
    <<0, 31, 59, 90, 120, 151, 181, 212, 243, 273, 304, 334>>[m] + (IF m > 2 /\ IsLeap(y) THEN 1 ELSE 0)
YearLength(y) == IF IsLeap(y) THEN 366 ELSE 365

\* The months and days the rules name.
LEMMA Literals ==
    /\ 1 \in 1..12 /\ 6 \in 1..12 /\ 9 \in 1..12 /\ 10 \in 1..12 /\ 12 \in 1..12
    /\ 6 \in 0..12 /\ 7 \in 0..12
    /\ 0 \in Int /\ 1 \in Int /\ 5 \in Int /\ 7 \in Int /\ 20 \in Int /\ 31 \in Int /\ 1 \in Nat
OBVIOUS

\* The months of a year follow on each other, December last.
LEMMA Months ==
    ASSUME NEW y \in Nat, NEW m \in 1..12
    PROVE  /\ InYear(y, m) \in Nat /\ MonthLength(y, m) \in 28..31
           /\ InYear(y, 1) = 0
           /\ InYear(y, m) + MonthLength(y, m) = IF m = 12 THEN YearLength(y) ELSE InYear(y, m + 1)
<1>1. m = 1 \/ m = 2 \/ m = 3 \/ m = 4 \/ m = 5 \/ m = 6 \/ m = 7 \/ m = 8 \/ m = 9 \/ m = 10 \/ m = 11 \/ m = 12
  OBVIOUS
<1> QED BY <1>1 DEF InYear, MonthLength, YearLength

\* A month has ended when a later one begins.
LEMMA MonthsInOrder ==
    ASSUME NEW y \in Nat, NEW m \in 1..12, NEW k \in 1..12, m < k
    PROVE  InYear(y, m) + MonthLength(y, m) <= InYear(y, k)
<1>1. m = 1 \/ m = 2 \/ m = 3 \/ m = 4 \/ m = 5 \/ m = 6 \/ m = 7 \/ m = 8 \/ m = 9 \/ m = 10 \/ m = 11 \/ m = 12
  OBVIOUS
<1>2. k = 1 \/ k = 2 \/ k = 3 \/ k = 4 \/ k = 5 \/ k = 6 \/ k = 7 \/ k = 8 \/ k = 9 \/ k = 10 \/ k = 11 \/ k = 12
  OBVIOUS
<1> QED BY <1>1, <1>2 DEF InYear, MonthLength

\* The years follow on each other, of 365 or 366 days each.
LEMMA YearsAdd ==
    ASSUME NEW y \in Nat, y > 0
    PROVE  /\ Before(y) \in Nat
           /\ 365 * (y - 1) <= Before(y) /\ Before(y) <= 366 * (y - 1)
           /\ Before(y + 1) = Before(y) + YearLength(y)
BY DEF Before, YearLength, IsLeap

\* A year has ended when a later one begins.
LEMMA YearsInOrder ==
    ASSUME NEW y \in Nat, NEW z \in Nat, 0 < y, y < z
    PROVE  Before(y) + YearLength(y) <= Before(z)
BY DEF Before, YearLength, IsLeap

\* A date is a day of its month of its year.
LEMMA DayIs ==
    ASSUME NEW y \in Nat, y > 0, NEW m \in 1..12, NEW d \in Int
    PROVE  Day(y, m, d) = Before(y) + InYear(y, m) + d /\ Day(y, m, d) \in Int
<1> DEFINE past == <<0, 31, 59, 90, 120, 151, 181, 212, 243, 273, 304, 334>>[m]
           leap == IF m > 2 /\ IsLeap(y) THEN 1 ELSE 0
           b == Before(y)
<1>1. past \in Int
  <2>1. m = 1 \/ m = 2 \/ m = 3 \/ m = 4 \/ m = 5 \/ m = 6 \/ m = 7 \/ m = 8 \/ m = 9 \/ m = 10 \/ m = 11 \/ m = 12
    OBVIOUS
  <2> QED BY <2>1
<1>2. leap \in Int
  OBVIOUS
<1>3. Day(y, m, d) = b + past + leap + d /\ InYear(y, m) = past + leap
  BY DEF Day, Before, InYear
<1>4. b \in Int
  BY YearsAdd
<1> HIDE DEF past, leap, b
<1>5. b + past + leap + d = b + (past + leap) + d
  BY <1>1, <1>2, <1>4
<1> QED BY <1>1, <1>2, <1>3, <1>4, <1>5 DEF b

\* The first of a month.
LEMMA FirstIs ==
    ASSUME NEW y \in Nat, y > 0, NEW m \in 1..12
    PROVE  Day(y, m, 1) = Before(y) + InYear(y, m) + 1
<1>1. \A d \in Int : Day(y, m, d) = Before(y) + InYear(y, m) + d
  BY DayIs
<1>2. 1 \in Int
  OBVIOUS
<1> HIDE DEF Day, Before, InYear
<1> QED BY <1>1, <1>2

\* December has 31 days and ends the year; January begins it.
LEMMA YearEnds ==
    ASSUME NEW y \in Nat
    PROVE  InYear(y, 12) + 31 = YearLength(y) /\ MonthLength(y, 12) = 31 /\ InYear(y, 1) = 0 /\ MonthLength(y, 1) = 31
BY DEF InYear, MonthLength, YearLength

\* A day of a year comes after the months before it.
LEMMA InYearIs ==
    ASSUME NEW i \in Nat, NEW d \in Nat, d >= 1, i + d <= 366
    PROVE  i + d \in 1..366
OBVIOUS

\* A date's year and month.
LEMMA YearIs ==
    ASSUME NEW y \in Nat, y > 0, NEW m \in 1..12, NEW d \in 1..MonthLength(y, m)
    PROVE  YearOf(Day(y, m, d)) = y /\ MonthOf(Day(y, m, d)) = m /\ DayOfMonth(Day(y, m, d)) = d
<1> DEFINE day == Day(y, m, d)
           Has(z) == Day(z, 1, 1) <= day /\ day < Day(z + 1, 1, 1)
           Span == ((day - 1) \div 366 + 1)..((day - 1) \div 365 + 1)
           InMonth(k) == LET first == Day(YearOf(day), k, 1)
                         IN  first <= day /\ day < first + MonthLength(YearOf(day), k)
<1>0. MonthLength(y, m) \in 28..31 /\ InYear(y, m) \in Nat /\ Before(y) \in Nat
  BY Months, YearsAdd
<1>1. day = Before(y) + InYear(y, m) + d /\ day \in Int /\ d \in Nat /\ InYear(y, m) \in Nat
  <2>1. d \in Nat /\ d \in Int
    BY <1>0
  <2> QED BY <1>0, <2>1, DayIs
<1>2. InYear(y, m) + d <= YearLength(y) /\ YearLength(y) \in 365..366
  <2> DEFINE len == MonthLength(y, m)
  <2>1. len \in 28..31 /\ d \in 1..len
    BY <1>0
  <2>2. InYear(y, m) + len <= YearLength(y)
    <3>1. CASE m = 12
      <4>1. YearLength(y) \in Int
        BY DEF YearLength
      <4>2. len = 31 /\ InYear(y, m) + 31 = YearLength(y)
        BY <3>1, YearEnds
      <4> QED BY <4>1, <4>2
    <3>2. CASE m # 12
      <4>1. InYear(y, m) + len <= InYear(y, 12)
        BY <3>2, MonthsInOrder, Literals
      <4>2. InYear(y, 12) + 31 = YearLength(y)
        BY YearEnds
      <4>3. InYear(y, 12) \in Nat
        BY DEF InYear
      <4> HIDE DEF len
      <4> QED BY <4>1, <4>2, <4>3, <1>0, <2>1
    <3> QED BY <3>1, <3>2
  <2>3. YearLength(y) \in 365..366
    BY DEF YearLength
  <2> HIDE DEF len
  <2> QED BY <2>1, <2>2, <2>3, <1>0
<1>3. \A z \in Nat : z > 0 => Day(z, 1, 1) = Before(z) + 1
  <2> SUFFICES ASSUME NEW z \in Nat, z > 0 PROVE Day(z, 1, 1) = Before(z) + 1
    OBVIOUS
  <2>1. Day(z, 1, 1) = Before(z) + InYear(z, 1) + 1
    BY FirstIs, Literals
  <2> QED BY <2>1, YearEnds, YearsAdd
<1>4. y \in Span /\ Span \subseteq Nat /\ \A z \in Span : z > 0
  <2> DEFINE b == Before(y)
             e == InYear(y, m) + d
  <2>1. b \in Nat /\ 365 * (y - 1) <= b /\ b <= 366 * (y - 1)
    BY YearsAdd
  <2>2. e \in 1..366 /\ day = b + e
    <3>1. d \in Nat /\ d >= 1
      BY <1>0
    <3>2. InYear(y, m) \in Nat /\ InYear(y, m) + d <= 366
      BY <1>0, <1>2, <3>1
    <3>3. InYear(y, m) + d \in 1..366
      BY <3>1, <3>2, InYearIs
    <3>4. day = Before(y) + InYear(y, m) + d
      BY <1>1
    <3>5. Before(y) + InYear(y, m) + d = Before(y) + (InYear(y, m) + d)
      BY <1>0, <3>1, <3>2
    <3> HIDE DEF day
    <3> QED BY <3>3, <3>4, <3>5
  <2> HIDE DEF b, e, day
  <2>3. day - 1 >= 365 * (y - 1) /\ day - 1 < 366 * (y - 1) + 366 /\ day - 1 \in Nat
    BY <2>1, <2>2
  <2>4. (day - 1) \div 366 <= y - 1 /\ (day - 1) \div 366 \in Nat
    BY <2>3, SMTT(30)
  <2>5. (day - 1) \div 365 >= y - 1 /\ (day - 1) \div 365 \in Nat
    BY <2>3, SMTT(30)
  <2> QED BY <2>4, <2>5
<1>5. Has(y)
  <2>1. Day(y, 1, 1) = Before(y) + 1 /\ Day(y + 1, 1, 1) = Before(y + 1) + 1
    BY <1>3
  <2>2. Before(y + 1) = Before(y) + YearLength(y)
    BY YearsAdd
  <2>3. d >= 1
    BY <1>0
  <2> HIDE DEF day
  <2> QED BY <1>0, <1>1, <1>2, <2>1, <2>2, <2>3
<1>6. \A z \in Span : Has(z) => z = y
  <2> SUFFICES ASSUME NEW z \in Span, Has(z) PROVE z = y
    OBVIOUS
  <2>1. z \in Nat /\ z > 0
    BY <1>4
  <2>2. Before(z) + 1 <= day /\ day < Before(z + 1) + 1 /\ Before(y) + 1 <= day /\ day < Before(y + 1) + 1
    BY <2>1, <1>3, <1>5
  <2>3. Before(z + 1) = Before(z) + YearLength(z) /\ Before(y + 1) = Before(y) + YearLength(y)
        /\ Before(z) \in Nat /\ Before(y) \in Nat /\ YearLength(z) \in Nat
    BY <2>1, YearsAdd DEF YearLength
  <2>4. ~(z < y)
    BY <2>1, <2>2, <2>3, <1>1, YearsInOrder
  <2>5. ~(y < z)
    BY <2>1, <2>2, <2>3, <1>1, <1>2, YearsInOrder
  <2> QED BY <2>1, <2>4, <2>5
<1>7. YearOf(day) = y
  <2>1. YearOf(day) = CHOOSE z \in Span : Has(z)
    BY DEF YearOf
  <2> HIDE DEF Span, Has
  <2> QED BY <2>1, <1>4, <1>5, <1>6
<1>8. InMonth(m)
  <2>1. Day(y, m, 1) = Before(y) + InYear(y, m) + 1
    BY FirstIs
  <2>2. d >= 1 /\ d <= MonthLength(y, m)
    BY <1>0
  <2>3. Day(y, m, 1) <= day /\ day < Day(y, m, 1) + MonthLength(y, m)
    <3> HIDE DEF day
    <3> QED BY <1>0, <1>1, <2>1, <2>2
  <2> QED BY <1>7, <2>3
<1>9. \A k \in 1..12 : InMonth(k) => k = m
  <2> SUFFICES ASSUME NEW k \in 1..12, InMonth(k), k # m PROVE FALSE
    OBVIOUS
  <2>1. Day(y, k, 1) <= day /\ day < Day(y, k, 1) + MonthLength(y, k)
    BY <1>7
  <2>2. Day(y, k, 1) = Before(y) + InYear(y, k) + 1 /\ InYear(y, k) \in Nat /\ MonthLength(y, k) \in 28..31
    BY FirstIs, Months
  <2>3. k < m \/ m < k
    OBVIOUS
  <2>4. d >= 1 /\ d <= MonthLength(y, m)
    BY <1>0
  <2>5. \/ InYear(y, k) + MonthLength(y, k) <= InYear(y, m)
        \/ InYear(y, m) + MonthLength(y, m) <= InYear(y, k)
    BY <2>3, MonthsInOrder
  <2> HIDE DEF day
  <2> QED BY <2>1, <2>2, <2>4, <2>5, <1>0, <1>1
<1>10. MonthOf(day) = m
  <2>1. MonthOf(day) = CHOOSE k \in 1..12 : InMonth(k)
    BY DEF MonthOf
  <2> HIDE DEF InMonth
  <2> QED BY <2>1, <1>8, <1>9
<1>11. DayOfMonth(day) = d
  <2>1. Day(y, m, 1) = Before(y) + InYear(y, m) + 1
    BY FirstIs
  <2>2. DayOfMonth(day) = day - Day(y, m, 1) + 1
    BY <1>7, <1>10 DEF DayOfMonth
  <2> HIDE DEF day
  <2> QED BY <1>0, <1>1, <2>1, <2>2
<1> QED BY <1>7, <1>10, <1>11

-----------------------------------------------------------------------------
(* Weekdays that are no holiday *)

\* Easter is by the beginning of May.
LEMMA EasterIs ==
    ASSUME NEW y \in Nat, y > 0
    PROVE  EasterSunday(y) \in Int /\ EasterSunday(y) <= Before(y) + 122
<1> DEFINE a == y % 19
           b == y \div 100
           c == y % 100
           d == b \div 4
           e == b % 4
           f == (b + 8) \div 25
           g == (b - f + 1) \div 3
           h == (19 * a + b - d - g + 15) % 30
           i == c \div 4
           k == c % 4
           m == (32 + 2 * e + 2 * i - h - k) % 7
           n == (a + 11 * h + 22 * m) \div 451
           s == h + m - 7 * n + 114
<1>1. a \in 0..18 /\ h \in 0..29 /\ m \in 0..6
  <2>1. a \in 0..18 /\ b \in Int /\ c \in Int
    OBVIOUS
  <2> HIDE DEF a, b, c
  <2>2. d \in Int /\ e \in Int /\ f \in Int /\ i \in Int /\ k \in Int
    BY <2>1
  <2> HIDE DEF d, e, f, i, k
  <2>3. g \in Int
    BY <2>1, <2>2
  <2> HIDE DEF g
  <2>4. h \in 0..29
    BY <2>1, <2>2, <2>3
  <2> HIDE DEF h
  <2>5. m \in 0..6
    BY <2>1, <2>2, <2>3, <2>4
  <2> QED BY <2>1, <2>4, <2>5
<1> HIDE DEF a, h, m
<1>2. n \in 0..1
  BY <1>1
<1> HIDE DEF n
<1>3. s \in 107..149
  BY <1>1, <1>2
<1> HIDE DEF s
<1>4. s \div 31 \in 3..4 /\ s % 31 \in 0..30
  BY <1>3
<1>5. EasterSunday(y) = Day(y, s \div 31, (s % 31) + 1)
  BY DEF EasterSunday, s, n, m, k, i, h, g, f, e, d, c, b, a
<1> DEFINE month == s \div 31
           day == (s % 31) + 1
<1>6. month \in 3..4 /\ day \in 1..31 /\ EasterSunday(y) = Day(y, month, day)
  BY <1>4, <1>5
<1> HIDE DEF month, day
<1>7. Day(y, month, day) = Before(y) + InYear(y, month) + day
  <2>1. month \in 1..12 /\ day \in Int
    BY <1>6
  <2> QED BY <2>1, DayIs
<1>8. InYear(y, month) \in 59..91
  <2>1. month = 3 \/ month = 4
    BY <1>6
  <2> QED BY <2>1 DEF InYear
<1>9. Before(y) \in Int
  BY YearsAdd
<1> QED BY <1>6, <1>7, <1>8, <1>9

\* One of the first seven days of a September is a weekday, and no September has holidays.
LEMMA SeptemberWorks ==
    ASSUME NEW y \in Nat, y > 0
    PROVE  \E d \in Day(y, 9, 1)..Day(y, 9, 7) : IsBusinessDay(d)
<1> DEFINE first == Day(y, 9, 1)
           d == first + ((7 - Weekday(first)) % 7)
           start == Before(y) + InYear(y, 9)
<1>1. start \in Nat /\ InYear(y, 9) \in 243..244 /\ Before(y) \in Nat
  <2>1. InYear(y, 9) \in 243..244
    BY DEF InYear
  <2>2. Before(y) \in Nat
    BY YearsAdd
  <2> QED BY <2>1, <2>2
<1>2. first = start + 1 /\ Day(y, 9, 7) = start + 7
  BY DayIs, <1>1, Literals
<1> HIDE DEF start
<1>3. d \in first..Day(y, 9, 7) /\ Weekday(d) = 0 /\ d \in Int
  BY <1>1, <1>2 DEF Weekday
<1>4. PICK j \in 1..7 : d = Day(y, 9, j)
  <2>1. \A j \in 1..7 : Day(y, 9, j) = start + j
    <3> SUFFICES ASSUME NEW j \in 1..7 PROVE Day(y, 9, j) = start + j
      OBVIOUS
    <3> QED BY DayIs, Literals DEF start
  <2>2. d - start \in 1..7 /\ d = start + (d - start)
    BY <1>1, <1>2, <1>3
  <2> HIDE DEF d
  <2> QED BY <2>1, <2>2
<1>5. YearOf(d) = y
  <2>1. j \in 1..MonthLength(y, 9)
    BY DEF MonthLength
  <2> QED BY <1>4, <2>1, YearIs, Literals
<1> HIDE DEF d, first
<1>6. d > Before(y) + 243 /\ d <= Before(y) + 251
  BY <1>1, <1>2, <1>3 DEF start
<1>7. ASSUME NEW m \in 1..12, m # 9, NEW x \in 1..31, d = Day(y, m, x), x <= MonthLength(y, m) PROVE FALSE
  <2>1. MonthOf(d) = m
    BY <1>7, YearIs
  <2>2. MonthOf(d) = 9
    <3>1. j \in 1..MonthLength(y, 9)
      BY DEF MonthLength
    <3> QED BY <1>4, <3>1, YearIs, Literals
  <2> QED BY <1>7, <2>1, <2>2
<1>8. d \notin Holidays(y)
  <2>1. ASSUME NEW n \in Int, n <= 49, d = EasterSunday(y) + n PROVE FALSE
    BY <2>1, <1>1, <1>6, EasterIs
  <2>2. ASSUME NEW n \in -1..6, d = Day(y, 6, 20) + n PROVE FALSE
    <3>1. Day(y, 6, 20) = Before(y) + InYear(y, 6) + 20
      BY DayIs, Literals
    <3>2. InYear(y, 6) \in 151..152
      BY DEF InYear
    <3> QED BY <2>2, <3>1, <3>2, <1>1, <1>6
  <2>3. ASSUME NEW n \in 0..6, d = Day(y, 10, 31) + n PROVE FALSE
    <3>1. Day(y, 10, 31) = Before(y) + InYear(y, 10) + 31
      BY DayIs, Literals
    <3>2. InYear(y, 10) \in 273..274
      BY DEF InYear
    <3> QED BY <2>3, <3>1, <3>2, <1>1, <1>6
  <2> DEFINE easter == EasterSunday(y)
             midsummer == SaturdayFrom(y, 6, 20)
             saints == SaturdayFrom(y, 10, 31)
             dates == {<<1, 1>>, <<1, 6>>, <<5, 1>>, <<6, 6>>, <<12, 24>>, <<12, 25>>, <<12, 26>>, <<12, 31>>}
  <2>4. Holidays(y) = {Day(y, f[1], f[2]) : f \in dates} \cup {easter + n : n \in {-2, 0, 1, 39, 49}}
                      \cup {midsummer - 1, midsummer, saints}
    BY DEF Holidays
  <2>5. d \notin {Day(y, f[1], f[2]) : f \in dates}
    <3> SUFFICES ASSUME NEW f \in dates, d = Day(y, f[1], f[2]) PROVE FALSE
      OBVIOUS
    <3>1. f[1] \in 1..12 /\ f[1] # 9 /\ f[2] \in 1..31 /\ f[2] <= MonthLength(y, f[1])
      BY DEF MonthLength
    <3> HIDE DEF dates
    <3> QED BY <3>1, <1>7
  <2>6. d \notin {easter + n : n \in {-2, 0, 1, 39, 49}}
    BY <2>1
  <2>7. Day(y, 6, 20) \in Int /\ Day(y, 10, 31) \in Int
    BY DayIs, Literals
  <2>8. d \notin {midsummer - 1, midsummer}
    <3> DEFINE n == (5 - Weekday(Day(y, 6, 20))) % 7
    <3>1. n \in 0..6 /\ midsummer = Day(y, 6, 20) + n
      BY <2>7 DEF SaturdayFrom, Weekday
    <3> HIDE DEF n, midsummer
    <3>2. midsummer - 1 = Day(y, 6, 20) + (n - 1) /\ n - 1 \in -1..6 /\ n \in -1..6
      BY <3>1, <2>7
    <3> QED BY <3>1, <3>2, <2>2
  <2>9. d # saints
    <3> DEFINE n == (5 - Weekday(Day(y, 10, 31))) % 7
    <3>1. n \in 0..6 /\ saints = Day(y, 10, 31) + n
      BY <2>7 DEF SaturdayFrom, Weekday
    <3> HIDE DEF n, saints
    <3> QED BY <3>1, <2>3
  <2> HIDE DEF easter, midsummer, saints, dates
  <2> QED BY <2>4, <2>5, <2>6, <2>8, <2>9
<1> QED BY <1>3, <1>5, <1>8 DEF IsBusinessDay, first

-----------------------------------------------------------------------------
(* Walking from a day to the nearest weekday *)

\* The day some steps on or back, and a walk that ends at the first weekday.
At(d, s, k) == IF s = 1 THEN d + k ELSE d - k
Walks(f, s) == f = [d \in Int |-> IF IsBusinessDay(d) THEN d ELSE f[At(d, s, 1)]]

\* A walk to the next or previous business day is a function, also where it does not end.
LEMMA WalkExists ==
    ASSUME NEW s \in {-1, 1}
    PROVE  \E f : Walks(f, s)
<1> DEFINE First(d) == {k \in Nat : IsBusinessDay(At(d, s, k)) /\ \A j \in 0..(k - 1) : ~IsBusinessDay(At(d, s, j))}
           Ends(d) == {At(d, s, k) : k \in First(d)}
           g(d) == IF Ends(d) # {} THEN CHOOSE e \in Ends(d) : TRUE ELSE 0
           f == [d \in Int |-> g(d)]
<1>1. ASSUME NEW d \in Int, IsBusinessDay(d) PROVE g(d) = d
  <2>1. \A k \in First(d) : k = 0
    <3> SUFFICES ASSUME NEW k \in First(d), k # 0 PROVE FALSE
      OBVIOUS
    <3>1. 0 \in 0..(k - 1) /\ At(d, s, 0) = d
      BY DEF At
    <3> QED BY <3>1, <1>1
  <2>2. 0 \in First(d) /\ At(d, s, 0) = d
    BY <1>1 DEF At
  <2>3. Ends(d) = {d}
    BY <2>1, <2>2
  <2> HIDE DEF Ends
  <2> QED BY <2>3
<1>2. ASSUME NEW d \in Int, ~IsBusinessDay(d) PROVE g(d) = g(At(d, s, 1))
  <2>1. \A k \in Nat : At(d, s, k + 1) = At(At(d, s, 1), s, k)
    BY DEF At
  <2>2. \A k \in First(d) : k # 0
    BY <1>2 DEF At
  <2>3. \A k \in Nat : k + 1 \in First(d) <=> k \in First(At(d, s, 1))
    <3> SUFFICES ASSUME NEW k \in Nat PROVE k + 1 \in First(d) <=> k \in First(At(d, s, 1))
      OBVIOUS
    <3>1. (\A j \in 0..k : ~IsBusinessDay(At(d, s, j)))
          <=> \A j \in 0..(k - 1) : ~IsBusinessDay(At(At(d, s, 1), s, j))
      <4>1. ASSUME \A j \in 0..k : ~IsBusinessDay(At(d, s, j)), NEW j \in 0..(k - 1)
            PROVE  ~IsBusinessDay(At(At(d, s, 1), s, j))
        <5>1. j + 1 \in 0..k /\ j \in Nat
          OBVIOUS
        <5> QED BY <4>1, <5>1, <2>1
      <4>2. ASSUME \A j \in 0..(k - 1) : ~IsBusinessDay(At(At(d, s, 1), s, j)), NEW j \in 0..k
            PROVE  ~IsBusinessDay(At(d, s, j))
        <5>1. CASE j = 0
          BY <5>1, <1>2 DEF At
        <5>2. CASE j # 0
          <6>1. j - 1 \in 0..(k - 1) /\ j - 1 \in Nat /\ (j - 1) + 1 = j
            BY <5>2
          <6> QED BY <4>2, <6>1, <2>1
        <5> QED BY <5>1, <5>2
      <4> QED BY <4>1, <4>2
    <3>2. k + 1 \in Nat /\ (k + 1) - 1 = k
      OBVIOUS
    <3> QED BY <3>1, <3>2, <2>1
  <2> HIDE DEF First
  <2>4. Ends(d) = Ends(At(d, s, 1))
    <3>1. ASSUME NEW k \in First(d) PROVE At(d, s, k) \in Ends(At(d, s, 1))
      <4>1. k \in Nat
        BY DEF First
      <4>2. k - 1 \in Nat /\ (k - 1) + 1 = k
        BY <4>1, <2>2
      <4> QED BY <4>1, <4>2, <2>1, <2>3
    <3>2. ASSUME NEW k \in First(At(d, s, 1)) PROVE At(At(d, s, 1), s, k) \in Ends(d)
      <4>1. k \in Nat
        BY DEF First
      <4> QED BY <4>1, <2>1, <2>3
    <3> QED BY <3>1, <3>2
  <2> HIDE DEF Ends
  <2> QED BY <2>4
<1>3. \A d \in Int : At(d, s, 1) \in Int
  BY DEF At
<1>4. f = [d \in Int |-> IF IsBusinessDay(d) THEN d ELSE f[At(d, s, 1)]]
  <2> HIDE DEF g
  <2>1. \A d \in Int : f[d] = IF IsBusinessDay(d) THEN d ELSE f[At(d, s, 1)]
    BY <1>1, <1>2, <1>3
  <2> QED BY <2>1
<1> HIDE DEF f
<1> QED BY <1>4 DEF Walks

\* A walk that can end does, at the first weekday.
LEMMA WalkEnds ==
    ASSUME NEW s \in {-1, 1}, NEW f, Walks(f, s), NEW d \in Int, NEW k \in Nat, IsBusinessDay(At(d, s, k))
    PROVE  \E e \in 0..k : /\ f[d] = At(d, s, e) /\ IsBusinessDay(At(d, s, e))
                           /\ \A j \in 0..(e - 1) : ~IsBusinessDay(At(d, s, j))
<1> DEFINE Works == {j \in Nat : IsBusinessDay(At(d, s, j))}
<1>1. PICK e \in Works : \A j \in Works : e <= j
  <2>1. Works \in SUBSET Nat /\ k \in Works
    OBVIOUS
  <2> HIDE DEF Works
  <2> QED BY <2>1, LeastExists
<1>2. e \in 0..k /\ \A j \in 0..(e - 1) : ~IsBusinessDay(At(d, s, j))
  BY <1>1
<1> DEFINE Wrong == {j \in Nat : j <= e /\ f[At(d, s, e - j)] # At(d, s, e)}
<1>3. Wrong = {}
  <2> SUFFICES ASSUME Wrong # {} PROVE FALSE
    OBVIOUS
  <2>1. PICK j \in Wrong : \A i \in Wrong : j <= i
    <3>1. Wrong \in SUBSET Nat
      OBVIOUS
    <3> HIDE DEF Wrong
    <3> QED BY <3>1, LeastExists
  <2>2. \A x \in Int : f[x] = IF IsBusinessDay(x) THEN x ELSE f[At(x, s, 1)]
    <3> DEFINE F == [x \in Int |-> IF IsBusinessDay(x) THEN x ELSE f[At(x, s, 1)]]
    <3>1. f = F
      BY DEF Walks
    <3>2. \A x \in Int : F[x] = IF IsBusinessDay(x) THEN x ELSE f[At(x, s, 1)]
      OBVIOUS
    <3> HIDE DEF F
    <3> QED BY <3>1, <3>2
  <2>3. j # 0
    <3>1. At(d, s, e) \in Int /\ e - 0 = e
      BY DEF At
    <3> QED BY <2>2, <3>1
  <2>4. j - 1 \in Nat /\ j - 1 <= e /\ j - 1 \notin Wrong
    BY <2>1, <2>3
  <2>5. f[At(d, s, e - (j - 1))] = At(d, s, e)
    BY <2>4
  <2>6. ~IsBusinessDay(At(d, s, e - j))
    BY <1>2, <2>3
  <2>7. At(At(d, s, e - j), s, 1) = At(d, s, e - (j - 1)) /\ At(d, s, e - j) \in Int
    BY DEF At
  <2>8. f[At(d, s, e - j)] = At(d, s, e)
    BY <2>2, <2>5, <2>6, <2>7
  <2> QED BY <2>8
<1>4. e \notin Wrong /\ e - e = 0 /\ At(d, s, 0) = d
  BY <1>3 DEF At
<1> QED BY <1>1, <1>2, <1>4

\* next_business_day stops at the first business day, if there is one.
LEMMA NextIs ==
    ASSUME NEW day \in Int, NEW k \in Nat, IsBusinessDay(day + k)
    PROVE  /\ NextBusinessDay(day) \in day..(day + k)
           /\ IsBusinessDay(NextBusinessDay(day))
           /\ \A n \in day..(NextBusinessDay(day) - 1) : ~IsBusinessDay(n)
<1> DEFINE Step(f) == f = [d \in Int |-> IF IsBusinessDay(d) THEN d ELSE f[d + 1]]
           f == CHOOSE f : Step(f)
<1>1. \A g : Step(g) <=> Walks(g, 1)
  BY DEF Walks, At
<1>2. Walks(f, 1)
  <2>1. \E g : Step(g)
    BY <1>1, WalkExists
  <2> HIDE DEF Step
  <2> QED BY <1>1, <2>1
<1>3. NextBusinessDay(day) = f[day]
  BY DEF NextBusinessDay
<1> HIDE DEF f
<1>4. IsBusinessDay(At(day, 1, k))
  BY DEF At
<1>5. PICK e \in 0..k : /\ f[day] = At(day, 1, e) /\ IsBusinessDay(At(day, 1, e))
                        /\ \A j \in 0..(e - 1) : ~IsBusinessDay(At(day, 1, j))
  BY <1>2, <1>4, WalkEnds
<1>6. \A j : At(day, 1, j) = day + j
  BY DEF At
<1>7. f[day] = day + e /\ IsBusinessDay(day + e) /\ \A j \in 0..(e - 1) : ~IsBusinessDay(day + j)
  BY <1>5, <1>6
<1>8. \A n \in day..(day + e - 1) : n - day \in 0..(e - 1) /\ day + (n - day) = n
  OBVIOUS
<1> QED BY <1>3, <1>7, <1>8

\* previous_business_day stops no earlier than at a business day before.
LEMMA PreviousIs ==
    ASSUME NEW day \in Int, NEW k \in Nat, IsBusinessDay(day - k)
    PROVE  PreviousBusinessDay(day) \in (day - k)..day
<1> DEFINE Step(f) == f = [d \in Int |-> IF IsBusinessDay(d) THEN d ELSE f[d - 1]]
           f == CHOOSE f : Step(f)
<1>1. \A g : Step(g) <=> Walks(g, -1)
  BY DEF Walks, At
<1>2. Walks(f, -1)
  <2>1. \E g : Step(g)
    BY <1>1, WalkExists
  <2> HIDE DEF Step
  <2> QED BY <1>1, <2>1
<1>3. PreviousBusinessDay(day) = f[day]
  BY DEF PreviousBusinessDay
<1> HIDE DEF f
<1>4. \A j : At(day, -1, j) = day - j
  BY DEF At
<1>5. PICK e \in 0..k : f[day] = At(day, -1, e)
  BY <1>2, <1>4, WalkEnds
<1> QED BY <1>3, <1>4, <1>5

\* The next weekday of a day before September is no later than its first week.
LEMMA NextBySeptember ==
    ASSUME NEW y \in Nat, y > 0, NEW day \in Int, day <= Day(y, 9, 1)
    PROVE  /\ NextBusinessDay(day) \in day..Day(y, 9, 7)
           /\ IsBusinessDay(NextBusinessDay(day))
           /\ \A n \in day..(NextBusinessDay(day) - 1) : ~IsBusinessDay(n)
<1>1. PICK d \in Day(y, 9, 1)..Day(y, 9, 7) : IsBusinessDay(d)
  BY SeptemberWorks
<1>2. Day(y, 9, 1) \in Int /\ Day(y, 9, 7) \in Int
  BY DayIs, Literals
<1>3. d - day \in Nat /\ day + (d - day) = d
  BY <1>1, <1>2
<1>4. NextBusinessDay(day) \in day..d
  BY <1>1, <1>3, NextIs
<1>5. IsBusinessDay(NextBusinessDay(day)) /\ \A n \in day..(NextBusinessDay(day) - 1) : ~IsBusinessDay(n)
  BY <1>1, <1>3, NextIs
<1> QED BY <1>1, <1>2, <1>4, <1>5

\* A deadline of a year or the next one has moved to the first weekday from it, and not past
\* the year after.
LEMMA NextOf ==
    ASSUME NEW n \in Nat, n > 0, NEW day \in Int, Day(n, 1, 1) <= day, day < Day(n + 2, 1, 1)
    PROVE  /\ NextBusinessDay(day) = FirstWeekday(day)
           /\ NextBusinessDay(day) \in Int
           /\ day <= NextBusinessDay(day) /\ NextBusinessDay(day) < Day(n + 3, 1, 1)
<1> DEFINE N == NextBusinessDay(day)
           September(y, k) == Before(y) + InYear(y, 9) + k
<1>1. \A y \in Nat : y > 0 => /\ Day(y, 9, 1) = September(y, 1) /\ Day(y, 9, 7) = September(y, 7)
                              /\ Day(y, 1, 1) = Before(y) + 1
                              /\ Before(y + 1) = Before(y) + YearLength(y)
                              /\ InYear(y, 9) \in 243..244 /\ YearLength(y) \in 365..366 /\ Before(y) \in Nat
  <2> SUFFICES ASSUME NEW y \in Nat, y > 0
               PROVE  /\ Day(y, 9, 1) = September(y, 1) /\ Day(y, 9, 7) = September(y, 7)
                      /\ Day(y, 1, 1) = Before(y) + 1
                      /\ Before(y + 1) = Before(y) + YearLength(y)
                      /\ InYear(y, 9) \in 243..244 /\ YearLength(y) \in 365..366 /\ Before(y) \in Nat
    OBVIOUS
  <2>1. Day(y, 9, 1) = September(y, 1) /\ Day(y, 9, 7) = September(y, 7)
    BY DayIs, Literals
  <2>2. Day(y, 1, 1) = Before(y) + InYear(y, 1) + 1 /\ InYear(y, 1) = 0 /\ Before(y) \in Nat
    <3>1. Day(y, 1, 1) = Before(y) + InYear(y, 1) + 1
      BY FirstIs, Literals
    <3>2. InYear(y, 1) = 0
      BY YearEnds
    <3>3. Before(y) \in Nat
      BY YearsAdd
    <3> QED BY <3>1, <3>2, <3>3
  <2>3. InYear(y, 9) \in 243..244 /\ YearLength(y) \in 365..366
    BY DEF InYear, YearLength
  <2> QED BY <2>1, <2>2, <2>3, YearsAdd
<1>2. \E y \in {n, n + 1, n + 2} : day <= Day(y, 9, 1) /\ Day(y, 9, 7) <= day + 400 /\ Day(y, 9, 7) < Day(n + 3, 1, 1)
  <2>1. n + 1 \in Nat /\ n + 2 \in Nat /\ n + 3 \in Nat /\ (n + 1) + 1 = n + 2 /\ (n + 2) + 1 = n + 3
    OBVIOUS
  <2> DEFINE b == Before(n)
             l == YearLength(n)
             k == YearLength(n + 1)
             h == YearLength(n + 2)
             p == InYear(n, 9)
             q == InYear(n + 1, 9)
             r == InYear(n + 2, 9)
  <2>2. /\ Before(n + 1) = b + l /\ Before(n + 2) = (b + l) + k /\ Before(n + 3) = ((b + l) + k) + h
        /\ b \in Nat /\ {l, k, h} \subseteq 365..366 /\ {p, q, r} \subseteq 243..244
    BY <1>1, <2>1
  <2>3. /\ Day(n, 9, 1) = b + p + 1 /\ Day(n, 9, 7) = b + p + 7
        /\ Day(n + 1, 9, 1) = (b + l) + q + 1 /\ Day(n + 1, 9, 7) = (b + l) + q + 7
        /\ Day(n + 2, 9, 1) = ((b + l) + k) + r + 1 /\ Day(n + 2, 9, 7) = ((b + l) + k) + r + 7
        /\ Day(n, 1, 1) = b + 1 /\ Day(n + 2, 1, 1) = ((b + l) + k) + 1
        /\ Day(n + 3, 1, 1) = (((b + l) + k) + h) + 1
    BY <1>1, <2>1, <2>2
  <2> HIDE DEF b, l, k, h, p, q, r
  <2>4. CASE day <= Day(n, 9, 1)
    <3>1. Day(n, 9, 7) <= day + 400 /\ Day(n, 9, 7) < Day(n + 3, 1, 1)
      BY <2>2, <2>3
    <3> QED BY <3>1, <2>4
  <2>5. CASE ~(day <= Day(n, 9, 1)) /\ day <= Day(n + 1, 9, 1)
    <3>1. Day(n + 1, 9, 7) <= day + 400 /\ Day(n + 1, 9, 7) < Day(n + 3, 1, 1)
      BY <2>2, <2>3, <2>5
    <3> QED BY <3>1, <2>5
  <2>6. CASE ~(day <= Day(n + 1, 9, 1))
    <3>1. Day(n + 2, 9, 7) <= day + 400 /\ Day(n + 2, 9, 7) < Day(n + 3, 1, 1) /\ day <= Day(n + 2, 9, 1)
      BY <2>2, <2>3, <2>6
    <3> QED BY <3>1
  <2> QED BY <2>4, <2>5, <2>6
<1>3. PICK y \in {n, n + 1, n + 2} :
        day <= Day(y, 9, 1) /\ Day(y, 9, 7) <= day + 400 /\ Day(y, 9, 7) < Day(n + 3, 1, 1)
  BY <1>2
<1>4. y \in Nat /\ y > 0
  OBVIOUS
<1>5. N \in day..Day(y, 9, 7) /\ IsBusinessDay(N) /\ \A d \in day..(N - 1) : ~IsBusinessDay(d)
  BY <1>3, <1>4, NextBySeptember
<1>6. Day(y, 9, 7) \in Int /\ Day(n + 3, 1, 1) \in Int
  <2>1. n + 3 \in Nat /\ n + 3 > 0
    OBVIOUS
  <2> QED BY <1>4, <2>1, DayIs, Literals
<1> HIDE DEF N
<1>7. N \in day..(day + 400) /\ N \in Int /\ N < Day(n + 3, 1, 1)
  BY <1>3, <1>5, <1>6
<1>8. FirstWeekday(day) = N
  <2> DEFINE Is(d) == IsBusinessDay(d) /\ \A m \in day..(d - 1) : ~IsBusinessDay(m)
  <2>1. \A d \in day..(day + 400) : Is(d) => d = N
    <3> SUFFICES ASSUME NEW d \in day..(day + 400), Is(d), d # N PROVE FALSE
      OBVIOUS
    <3>1. d < N => d \in day..(N - 1)
      BY <1>7
    <3>2. N < d => N \in day..(d - 1)
      BY <1>7
    <3> QED BY <3>1, <3>2, <1>5, <1>7
  <2>2. FirstWeekday(day) = CHOOSE d \in day..(day + 400) : Is(d)
    BY DEF FirstWeekday
  <2>3. Is(N)
    BY <1>5
  <2> HIDE DEF Is
  <2> QED BY <2>1, <2>2, <2>3, <1>7
<1> QED BY <1>5, <1>6, <1>7, <1>8 DEF N

-----------------------------------------------------------------------------
(* When the periods of a year are due *)

\* A day of a year or of the next one.
Within(n, day) == day \in Int /\ Day(n, 1, 1) <= day /\ day < Day(n + 2, 1, 1)

\* A date of a year or the next, some days later in the same month.
LEMMA DayWithin ==
    ASSUME NEW n \in Nat, n > 0, NEW y \in {n, n + 1}, NEW m \in 1..12, NEW d \in Int, NEW e \in Int, d + e \in 1..31
    PROVE  Within(n, Day(y, m, d) + e)
<1>1. y \in Nat /\ y > 0 /\ n + 1 \in Nat /\ n + 2 \in Nat /\ (n + 1) + 1 = n + 2
  OBVIOUS
<1>2. Day(y, m, d) = Before(y) + InYear(y, m) + d /\ InYear(y, m) \in Nat /\ Before(y) \in Nat
  <2>1. Day(y, m, d) = Before(y) + InYear(y, m) + d
    BY <1>1, DayIs
  <2>2. InYear(y, m) \in Nat
    BY <1>1, Months
  <2>3. Before(y) \in Nat
    BY <1>1, YearsAdd
  <2> QED BY <2>1, <2>2, <2>3
<1>3. InYear(y, m) + 31 <= YearLength(y) /\ YearLength(y) \in Nat
  <2>1. YearLength(y) \in Nat
    BY DEF YearLength
  <2>2. CASE m = 12
    BY <2>1, <2>2, <1>1, YearEnds
  <2>3. CASE m # 12
    <3>1. InYear(y, m) + MonthLength(y, m) <= InYear(y, 12)
      BY <2>3, <1>1, MonthsInOrder, Literals
    <3>2. MonthLength(y, m) \in 28..31 /\ InYear(y, m) \in Nat
      BY <1>1, Months
    <3>3. InYear(y, 12) + 31 = YearLength(y) /\ InYear(y, 12) \in Nat
      <4>1. InYear(y, 12) \in Nat
        BY DEF InYear
      <4> QED BY <4>1, <1>1, YearEnds
    <3> QED BY <2>1, <3>1, <3>2, <3>3
  <2> QED BY <2>2, <2>3
<1>4. \A z \in Nat : z > 0 => Day(z, 1, 1) = Before(z) + 1
  <2> SUFFICES ASSUME NEW z \in Nat, z > 0 PROVE Day(z, 1, 1) = Before(z) + 1
    OBVIOUS
  <2> QED BY FirstIs, YearEnds, YearsAdd, Literals
<1>5. Day(n, 1, 1) = Before(n) + 1 /\ Day(n + 2, 1, 1) = Before(n + 2) + 1
  BY <1>1, <1>4
<1>6. /\ Before(n + 1) = Before(n) + YearLength(n) /\ Before(n + 2) = Before(n + 1) + YearLength(n + 1)
      /\ Before(n) \in Nat /\ YearLength(n) \in Nat /\ YearLength(n + 1) \in Nat
  <2>1. YearLength(n) \in Nat /\ YearLength(n + 1) \in Nat
    BY DEF YearLength
  <2> QED BY <1>1, <2>1, YearsAdd
<1>7. Day(y, m, d) + e = Before(y) + InYear(y, m) + (d + e)
  BY <1>2
<1>8. CASE y = n
  BY <1>2, <1>3, <1>5, <1>6, <1>7, <1>8 DEF Within
<1>9. CASE y = n + 1
  BY <1>2, <1>3, <1>5, <1>6, <1>7, <1>9 DEF Within
<1> QED BY <1>8, <1>9

\* A month up to a year later.
LEMMA ShiftedIs ==
    ASSUME NEW n \in Nat, NEW m \in 1..12, NEW k \in 0..12, NEW d
    PROVE  \E y \in {n, n + 1}, j \in 1..12 : Shifted(n, m, k, d) = Day(y, j, d)
<1> DEFINE i == n * 12 + (m - 1) + k
<1>1. i \in Int /\ i \div 12 \in {n, n + 1} /\ (i % 12) + 1 \in 1..12
  OBVIOUS
<1>2. Shifted(n, m, k, d) = Day(i \div 12, (i % 12) + 1, d)
  BY DEF Shifted
<1> HIDE DEF i
<1> QED BY <1>1, <1>2

\* The day itself, and one or five days later.
LEMMA LateWithin ==
    ASSUME NEW n \in Nat, n > 0, NEW y \in {n, n + 1}, NEW m \in 1..12, NEW d \in 1..26
    PROVE  /\ Within(n, Day(y, m, d)) /\ Within(n, Late(Day(y, m, d)))
           /\ \A ms : Within(n, Early(Day(y, m, d), ms))
<1> DEFINE day == Day(y, m, d)
<1>1. d \in Int /\ d + 0 \in 1..31 /\ d + 1 \in 1..31 /\ d + 5 \in 1..31
  OBVIOUS
<1>2. \A e \in Int : d + e \in 1..31 => Within(n, day + e)
  BY <1>1, DayWithin
<1>3. day \in Int
  <2>1. y \in Nat /\ y > 0
    OBVIOUS
  <2> QED BY <1>1, <2>1, DayIs
<1> HIDE DEF day
<1>4. Within(n, day + 0) /\ Within(n, day + 1) /\ Within(n, day + 5) /\ day + 0 = day
  BY <1>1, <1>2, <1>3, Literals
<1>5. Within(n, day) /\ Within(n, Late(day)) /\ \A ms : Within(n, Early(day, ms))
  BY <1>4 DEF Late, Early
<1> QED BY <1>5 DEF day

\* The days of _month_shift, up to a year later.
LEMMA ShiftedWithin ==
    ASSUME NEW n \in Nat, n > 0, NEW m \in 1..12, NEW k \in 0..12, NEW d \in 1..26
    PROVE  /\ Within(n, Shifted(n, m, k, d)) /\ Within(n, Late(Shifted(n, m, k, d)))
           /\ \A ms : Within(n, Early(Shifted(n, m, k, d), ms))
<1>1. PICK y \in {n, n + 1}, j \in 1..12 : Shifted(n, m, k, d) = Day(y, j, d)
  BY ShiftedIs
<1> QED BY <1>1, LateWithin

\* The day of _payment_day is one of the two that Early says.
LEMMA PaymentWithin ==
    ASSUME NEW p, NEW n, NEW day, \A ms : Within(n, Early(day, ms))
    PROVE  Within(n, Payment(p, day))
BY DEF Payment

\* The end of a financial year.
LEMMA FiscalYearEndIs ==
    ASSUME NEW p, IsProfile(p), NEW n \in Nat, n > 0
    PROVE  LET end == FiscalYearEnd(p, n)
           IN  YearOf(end) = n /\ MonthOf(end) = p.fyMonth /\ p.fyMonth \in 1..12 /\ DayOfMonth(end) \in 1..31
<1> DEFINE d == IF p.fyDay > MonthLength(n, p.fyMonth) THEN MonthLength(n, p.fyMonth) ELSE p.fyDay
<1>1. p.fyMonth \in 1..12 /\ p.fyDay \in 1..31
  BY DEF IsProfile
<1>2. MonthLength(n, p.fyMonth) \in 28..31
  BY <1>1, Months
<1>3. d \in 1..MonthLength(n, p.fyMonth) /\ d \in 1..31
  BY <1>1, <1>2
<1>4. FiscalYearEnd(p, n) = Day(n, p.fyMonth, d)
  BY DEF FiscalYearEnd, Clamped
<1> HIDE DEF d
<1>5. LET day == Day(n, p.fyMonth, d) IN YearOf(day) = n /\ MonthOf(day) = p.fyMonth /\ DayOfMonth(day) = d
  BY <1>1, <1>3, YearIs
<1> QED BY <1>1, <1>3, <1>4, <1>5

\* The days of clamped_date.
LEMMA ClampedWithin ==
    ASSUME NEW n \in Nat, n > 0, NEW y \in {n, n + 1}, NEW m \in 1..12, NEW d \in 1..31
    PROVE  Within(n, Clamped(y, m, d))
<1> DEFINE x == IF d > MonthLength(y, m) THEN MonthLength(y, m) ELSE d
<1>1. y \in Nat /\ y > 0
  OBVIOUS
<1>2. MonthLength(y, m) \in 28..31
  BY <1>1, Months
<1>3. x \in 1..31 /\ x \in Int /\ x + 0 \in 1..31
  BY <1>2
<1>4. Clamped(y, m, d) = Day(y, m, x)
  BY DEF Clamped
<1> HIDE DEF x
<1>5. Day(y, m, x) \in Int
  BY <1>1, <1>3, DayIs
<1>6. Within(n, Day(y, m, x) + 0)
  BY <1>3, DayWithin, Literals
<1> QED BY <1>4, <1>5, <1>6

\* The days of the company law, some months from the end of the financial year.
LEMMA AddMonthsWithin ==
    ASSUME NEW p, IsProfile(p), NEW n \in Nat, n > 0, NEW k \in 0..12
    PROVE  Within(n, AddMonths(FiscalYearEnd(p, n), k))
<1> DEFINE end == FiscalYearEnd(p, n)
           first == Shifted(YearOf(end), MonthOf(end), k, 1)
           last == DayOfMonth(end) = MonthLength(YearOf(end), MonthOf(end))
           d == IF last THEN 31 ELSE DayOfMonth(end)
<1>1. YearOf(end) = n /\ MonthOf(end) \in 1..12 /\ d \in 1..31
  BY FiscalYearEndIs
<1>2. AddMonths(end, k) = Clamped(YearOf(first), MonthOf(first), d)
  BY DEF AddMonths
<1>3. \E y \in {n, n + 1}, j \in 1..12 : first = Day(y, j, 1)
  <2> DEFINE Y == YearOf(end)
             m == MonthOf(end)
  <2>1. Y = n /\ Y \in Nat /\ m \in 1..12
    BY <1>1
  <2> HIDE DEF Y, m
  <2>2. \E y \in {Y, Y + 1}, j \in 1..12 : Shifted(Y, m, k, 1) = Day(y, j, 1)
    BY <2>1, ShiftedIs
  <2>3. first = Shifted(Y, m, k, 1)
    BY DEF Y, m
  <2> QED BY <2>1, <2>2, <2>3
<1>4. PICK y \in {n, n + 1}, j \in 1..12 : first = Day(y, j, 1)
  BY <1>3
<1>5. YearOf(first) = y /\ MonthOf(first) = j
  <2>1. y \in Nat /\ y > 0
    OBVIOUS
  <2>2. MonthLength(y, j) \in 28..31
    BY <2>1, Months
  <2>3. 1 \in 1..MonthLength(y, j)
    BY <2>2
  <2> QED BY <1>4, <2>1, <2>3, YearIs
<1> HIDE DEF first, d
<1>6. Within(n, Clamped(y, j, d))
  BY <1>1, ClampedWithin
<1> QED BY <1>2, <1>5, <1>6

\* Whatever is due for the periods of a year is due in it or in the next one, before it has moved.
LEMMA DueWithin ==
    ASSUME NEW p, IsProfile(p), NEW n \in Nat, n > 0, NEW e \in DueFor(p, n)
    PROVE  Within(n, e.nominal)
<1> DEFINE OK(due) == \A d \in due : Within(n, d.nominal)
<1>0. /\ n \in {n, n + 1} /\ n + 1 \in {n, n + 1}
      /\ \A key, day : Moving(key, day).nominal = day /\ Fixed(key, day).nominal = day
  BY DEF Moving, Fixed
<1>1. \A m \in 1..12, k \in 0..12, d \in 1..26 :
        /\ Within(n, Shifted(n, m, k, d)) /\ Within(n, Late(Shifted(n, m, k, d)))
        /\ \A ms : Within(n, Early(Shifted(n, m, k, d), ms))
  BY ShiftedWithin
<1>2. \A y \in {n, n + 1}, m \in 1..12, d \in 1..26 :
        Within(n, Day(y, m, d)) /\ \A ms : Within(n, Early(Day(y, m, d), ms))
  BY LateWithin
<1>3. OK(Vat(p, n))
  <2>1. CASE p.vat = "none"
    BY <2>1 DEF Vat
  <2>2. CASE p.vat = "month"
    <3>1. Vat(p, n) = {Moving(<<"vat", n, m>>, IF p.large THEN Late(Shifted(n, m, 1, 26))
                                               ELSE Early(Shifted(n, m, 2, 12), {1, 8})) : m \in 1..12}
      BY <2>2 DEF Vat
    <3>2. 1 \in 0..12 /\ 2 \in 0..12 /\ 26 \in 1..26 /\ 12 \in 1..26
      OBVIOUS
    <3>3. \A m \in 1..12 : Within(n, Late(Shifted(n, m, 1, 26))) /\ Within(n, Early(Shifted(n, m, 2, 12), {1, 8}))
      BY <1>1, <3>2
    <3> SUFFICES ASSUME NEW m \in 1..12,
                        NEW due, due = Moving(<<"vat", n, m>>, IF p.large THEN Late(Shifted(n, m, 1, 26))
                                                               ELSE Early(Shifted(n, m, 2, 12), {1, 8}))
                 PROVE  Within(n, due.nominal)
      BY <3>1
    <3>4. due.nominal = IF p.large THEN Late(Shifted(n, m, 1, 26)) ELSE Early(Shifted(n, m, 2, 12), {1, 8})
      BY <1>0
    <3> QED BY <3>3, <3>4
  <2>3. CASE p.vat = "quarter"
    <3>1. Vat(p, n) = {Moving(<<"vat q", n, q>>, Early(Shifted(n, 3 * q, 2, 12), {8})) : q \in 1..4}
      BY <2>3 DEF Vat
    <3>2. 2 \in 0..12 /\ 12 \in 1..26 /\ \A q \in 1..4 : 3 * q \in 1..12
      OBVIOUS
    <3> SUFFICES ASSUME NEW q \in 1..4, NEW due, due = Moving(<<"vat q", n, q>>, Early(Shifted(n, 3 * q, 2, 12), {8}))
                 PROVE  Within(n, due.nominal)
      BY <3>1
    <3>3. Within(n, Early(Shifted(n, 3 * q, 2, 12), {8}))
      BY <1>1, <3>2
    <3>4. due.nominal = Early(Shifted(n, 3 * q, 2, 12), {8})
      BY <1>0
    <3> QED BY <3>3, <3>4
  <2>4. CASE p.vat = "year"
    <3> DEFINE end == FiscalYearEnd(p, n)
    <3>1. Vat(p, n) = {Moving(<<"vat fy", end, 0>>, AnnualVatDate(p, end))}
      BY <2>4 DEF Vat
    <3>2. YearOf(end) = n /\ MonthOf(end) \in 1..12
      BY FiscalYearEndIs
    <3> HIDE DEF end
    <3>3. 2 \in 0..12 /\ 26 \in 1..26 /\ 12 \in 1..26 /\ 17 \in 1..26
          /\ 4 \in 1..12 /\ 5 \in 1..12 /\ 1 \in 1..12 /\ 8 \in 1..12 /\ 12 \in 1..12
      OBVIOUS
    <3>4. Within(n, Late(Shifted(n, MonthOf(end), 2, 26))) /\ Within(n, Day(n + 1, 5, 12))
          /\ Within(n, Day(n, 12, 12)) /\ Within(n, Day(n + 1, 1, 17)) /\ Within(n, Day(n + 1, 4, 12))
          /\ Within(n, Day(n + 1, 8, 17))
      BY <1>0, <1>1, <1>2, <3>2, <3>3
    <3>5. Within(n, AnnualVatDate(p, end))
      BY <3>2, <3>4 DEF AnnualVatDate
    <3> QED BY <1>0, <3>1, <3>5
  <2> QED BY <2>1, <2>2, <2>3, <2>4 DEF IsProfile
<1>4. OK(EcSalesList(p, n))
  <2>1. CASE ~p.eu \/ p.list = "none"
    BY <2>1 DEF EcSalesList, IsProfile
  <2>2. CASE p.eu /\ p.list = "month"
    <3>1. EcSalesList(p, n) = {Fixed(<<"list", n, m>>, Shifted(n, m, 1, 25)) : m \in 1..12}
      BY <2>2 DEF EcSalesList
    <3>2. 1 \in 0..12 /\ 25 \in 1..26
      OBVIOUS
    <3> SUFFICES ASSUME NEW m \in 1..12, NEW due, due = Fixed(<<"list", n, m>>, Shifted(n, m, 1, 25))
                 PROVE  Within(n, due.nominal)
      BY <3>1
    <3>3. Within(n, Shifted(n, m, 1, 25))
      BY <1>1, <3>2
    <3>4. due.nominal = Shifted(n, m, 1, 25)
      BY <1>0
    <3> QED BY <3>3, <3>4
  <2>3. CASE p.eu /\ p.list = "quarter"
    <3>1. EcSalesList(p, n) = {Fixed(<<"list q", n, q>>, Shifted(n, 3 * q, 1, 25)) : q \in 1..4}
      BY <2>3 DEF EcSalesList
    <3>2. 1 \in 0..12 /\ 25 \in 1..26 /\ \A q \in 1..4 : 3 * q \in 1..12
      OBVIOUS
    <3> SUFFICES ASSUME NEW q \in 1..4, NEW due, due = Fixed(<<"list q", n, q>>, Shifted(n, 3 * q, 1, 25))
                 PROVE  Within(n, due.nominal)
      BY <3>1
    <3>3. Within(n, Shifted(n, 3 * q, 1, 25))
      BY <1>1, <3>2
    <3>4. due.nominal = Shifted(n, 3 * q, 1, 25)
      BY <1>0
    <3> QED BY <3>3, <3>4
  <2> QED BY <2>1, <2>2, <2>3 DEF IsProfile
<1>5. OK(Employer(p, n))
  <2>1. 1 \in 0..12 /\ 26 \in 1..26 /\ 12 \in 1..26
    OBVIOUS
  <2>2. \A m \in 1..12 : Within(n, Late(Shifted(n, m, 1, 26))) /\ Within(n, Payment(p, Shifted(n, m, 1, 12)))
    BY <1>1, <2>1, PaymentWithin
  <2> QED BY <1>0, <2>2 DEF Employer
<1>6. OK(FTax(p, n))
  <2>1. 12 \in 1..26
    OBVIOUS
  <2>2. ASSUME NEW m \in 1..12 PROVE Within(n, Payment(p, Day(n, m, 12)))
    <3>1. \A ms : Within(n, Early(Day(n, m, 12), ms))
      BY <1>2, <2>1
    <3> QED BY <3>1, PaymentWithin
  <2> QED BY <1>0, <2>2 DEF FTax
<1>7. OK(IncomeTax(p, n))
  <2>1. 12 \in 1..12 /\ 5 \in 1..12 /\ 1 \in 1..12 /\ 4 \in 1..12 /\ 8 \in 1..12 /\ 2 \in 1..26 /\ 1 \in 1..26 /\ 15 \in 1..26
    OBVIOUS
  <2>2. Within(n, Day(n + 1, 5, 2)) /\ Within(n, Day(n, 12, 1)) /\ Within(n, Day(n + 1, 1, 15))
        /\ Within(n, Day(n + 1, 4, 1)) /\ Within(n, Day(n + 1, 8, 1))
    BY <1>0, <1>2, <2>1
  <2> QED BY <1>0, <2>2 DEF IncomeTax
<1>8. OK(CompanyLaw(p, n))
  <2>1. Within(n, AddMonths(FiscalYearEnd(p, n), 6)) /\ Within(n, AddMonths(FiscalYearEnd(p, n), 7))
    BY AddMonthsWithin, Literals
  <2>2. \A kind : Within(n, AddMonths(FiscalYearEnd(p, n), IF kind = "agm" THEN 6 ELSE 7))
    <3> SUFFICES ASSUME NEW kind
                 PROVE  Within(n, AddMonths(FiscalYearEnd(p, n), IF kind = "agm" THEN 6 ELSE 7))
      OBVIOUS
    <3>1. CASE kind = "agm"
      BY <2>1, <3>1
    <3>2. CASE kind # "agm"
      BY <2>1, <3>2
    <3> QED BY <3>1, <3>2
  <2> SUFFICES ASSUME NEW kind, NEW due,
                      due = Fixed(<<kind, FiscalYearEnd(p, n), 0>>,
                                  AddMonths(FiscalYearEnd(p, n), IF kind = "agm" THEN 6 ELSE 7))
               PROVE  Within(n, due.nominal)
    <3> DEFINE of(kind) == Fixed(<<kind, FiscalYearEnd(p, n), 0>>,
                                 AddMonths(FiscalYearEnd(p, n), IF kind = "agm" THEN 6 ELSE 7))
    <3>1. CompanyLaw(p, n) \subseteq {of(kind) : kind \in p.kinds \cap {"agm", "annual_report"}}
      BY DEF CompanyLaw
    <3> HIDE DEF of
    <3>2. \A due \in CompanyLaw(p, n) : \E kind : due = of(kind)
      BY <3>1
    <3> QED BY <3>2 DEF of
  <2>3. due.nominal = AddMonths(FiscalYearEnd(p, n), IF kind = "agm" THEN 6 ELSE 7)
    BY <1>0
  <2> QED BY <2>2, <2>3
<1>9. e \in Vat(p, n) \/ e \in EcSalesList(p, n) \/ e \in Employer(p, n) \/ e \in FTax(p, n)
      \/ e \in IncomeTax(p, n) \/ e \in CompanyLaw(p, n)
  <2> DEFINE Of(kind) ==
        CASE kind = "vat" -> Vat(p, n)
          [] kind = "ec_sales_list" -> EcSalesList(p, n)
          [] kind = "employer" -> Employer(p, n)
          [] kind = "f_tax" -> FTax(p, n)
          [] kind = "income_tax" -> IncomeTax(p, n)
          [] kind \in {"agm", "annual_report"} -> {}
  <2>1. DueFor(p, n) = (UNION {Of(kind) : kind \in p.kinds}) \cup CompanyLaw(p, n)
    BY DEF DueFor
  <2>2. \A kind \in DeadlineKinds : Of(kind) \in {Vat(p, n), EcSalesList(p, n), Employer(p, n), FTax(p, n),
                                                IncomeTax(p, n), {}}
    <3>1. /\ Of("vat") = Vat(p, n) /\ Of("ec_sales_list") = EcSalesList(p, n) /\ Of("employer") = Employer(p, n)
          /\ Of("f_tax") = FTax(p, n) /\ Of("income_tax") = IncomeTax(p, n)
          /\ Of("agm") = {} /\ Of("annual_report") = {}
      OBVIOUS
    <3> HIDE DEF Of
    <3> QED BY <3>1 DEF DeadlineKinds
  <2> HIDE DEF Of
  <2>3. CASE e \in CompanyLaw(p, n)
    BY <2>3
  <2>4. CASE e \notin CompanyLaw(p, n)
    <3> DEFINE all == {Of(k) : k \in p.kinds}
    <3>0. \A S \in all : \E k \in p.kinds : S = Of(k)
      OBVIOUS
    <3>3. DueFor(p, n) = (UNION all) \cup CompanyLaw(p, n)
      BY <2>1
    <3> HIDE DEF all
    <3>4. e \in (UNION all) \cup CompanyLaw(p, n)
      BY <3>3
    <3>5. PICK S \in all : e \in S
      BY <2>4, <3>4
    <3>1. PICK kind \in p.kinds : e \in Of(kind)
      BY <3>0, <3>5
    <3>2. kind \in DeadlineKinds
      BY DEF IsProfile
    <3> QED BY <2>2, <3>1, <3>2
  <2> QED BY <2>3, <2>4
<1> QED BY <1>3, <1>4, <1>5, <1>6, <1>7, <1>8, <1>9

-----------------------------------------------------------------------------
(* The statutory dates of a horizon *)

\* 1 January of a year is in that year, and behind as many years as there are before.
LEMMA YearStarts ==
    ASSUME NEW y \in Nat, y > 0
    PROVE  /\ Start(y) = Before(y) + 1 /\ Start(y) \in Nat /\ Start(y) > 365 * (y - 1)
           /\ YearOf(Start(y)) = y
<1>1. 1 \in 1..12 /\ MonthLength(y, 1) = 31 /\ InYear(y, 1) = 0
  BY YearEnds
<1>2. 1 \in 1..MonthLength(y, 1)
  BY <1>1
<1>3. Start(y) = Before(y) + InYear(y, 1) + 1
  BY <1>1, FirstIs DEF Start
<1>4. YearOf(Start(y)) = y
  BY <1>1, <1>2, YearIs DEF Start
<1>5. Before(y) \in Nat /\ 365 * (y - 1) <= Before(y)
  BY YearsAdd
<1> QED BY <1>1, <1>3, <1>4, <1>5

\* A later year starts later.
LEMMA StartsInOrder ==
    ASSUME NEW y \in Nat, NEW z \in Nat, 0 < y, y < z
    PROVE  Start(y) < Start(z)
<1>1. /\ Start(y) = Before(y) + 1 /\ Start(z) = Before(z) + 1 /\ Before(y) \in Nat /\ Before(z) \in Nat
  BY YearStarts, YearsAdd
<1>2. Before(y) + YearLength(y) <= Before(z) /\ YearLength(y) \in 365..366
  BY YearsInOrder DEF YearLength
<1> QED BY <1>1, <1>2

\* A horizon ends where its fourth year begins.
LEMMA HorizonEnds ==
    ASSUME NEW y \in Nat, y > 0
    PROVE  End(y) \in Int /\ End(y) = Start(y + 3) - 1 /\ YearOf(End(y)) = y + 2
<1> DEFINE z == y + 2
<1>1. z \in Nat /\ z > 0 /\ z + 1 \in Nat /\ z + 1 > 0 /\ y + 3 = z + 1
  OBVIOUS
<1>2. End(y) = Day(z, 12, 31)
  BY DEF End, HorizonYears
<1> HIDE DEF z
<1>3. InYear(z, 12) + 31 = YearLength(z) /\ MonthLength(z, 12) = 31
  BY <1>1, YearEnds
<1>4. 31 \in 1..MonthLength(z, 12) /\ 12 \in 1..12 /\ 31 \in Int
  BY <1>3
<1>5. YearOf(End(y)) = z
  BY <1>1, <1>2, <1>4, YearIs
<1>6. End(y) = Before(z) + InYear(z, 12) + 31
  BY <1>1, <1>2, <1>4, DayIs
<1>7. InYear(z, 12) \in Nat /\ Before(z) \in Nat /\ YearLength(z) \in Nat
  BY <1>1, <1>4, Months, YearsAdd DEF YearLength
<1>8. Start(y + 3) = Before(z) + YearLength(z) + 1
  BY <1>1, YearStarts, YearsAdd
<1> QED BY <1>3, <1>5, <1>6, <1>7, <1>8 DEF z

\* What is due for a year is shown in it or in one of the next two.
LEMMA ActualIs ==
    ASSUME NEW p, IsProfile(p), NEW n \in Nat, n > 0, NEW e \in DueFor(p, n)
    PROVE  /\ Actual(e) = IF e.move THEN FirstWeekday(e.nominal) ELSE e.nominal
           /\ Actual(e) \in Int /\ Start(n) <= Actual(e) /\ Actual(e) < Start(n + 3)
<1>1. Within(n, e.nominal)
  BY DueWithin
<1>2. n + 2 \in Nat /\ n + 3 \in Nat /\ 0 < n + 2 /\ n + 2 < n + 3 /\ 0 < n + 3
  OBVIOUS
<1>3. Start(n + 2) < Start(n + 3) /\ Start(n + 2) \in Nat /\ Start(n + 3) \in Nat /\ Start(n) \in Nat
  BY <1>2, StartsInOrder, YearStarts
<1>4. /\ e.nominal \in Int /\ Start(n) <= e.nominal /\ e.nominal < Start(n + 2)
      /\ Day(n, 1, 1) <= e.nominal /\ e.nominal < Day(n + 2, 1, 1)
  BY <1>1 DEF Within, Start
<1>5. CASE e.move
  <2>1. /\ NextBusinessDay(e.nominal) = FirstWeekday(e.nominal) /\ NextBusinessDay(e.nominal) \in Int
        /\ e.nominal <= NextBusinessDay(e.nominal) /\ NextBusinessDay(e.nominal) < Start(n + 3)
    BY <1>4, NextOf DEF Start
  <2>2. Actual(e) = NextBusinessDay(e.nominal)
    BY <1>5 DEF Actual
  <2> QED BY <1>3, <1>4, <1>5, <2>1, <2>2
<1>6. CASE ~e.move
  <2>1. Actual(e) = e.nominal
    BY <1>6 DEF Actual
  <2> QED BY <1>3, <1>4, <1>6, <2>1
<1> QED BY <1>5, <1>6

\* A date of the horizon of a year, for whichever period.
IsDue(p, y, key, date) ==
    /\ Shown(date, y)
    /\ \E n \in Nat \ {0} : \E e \in DueFor(p, n) : key = e.key /\ date = Actual(e)

\* It is for a period of the five years that _years looks at.
LEMMA DueInYears ==
    ASSUME NEW p, IsProfile(p), NEW y \in Nat, y > 0, NEW n \in Nat, n > 0, NEW e \in DueFor(p, n), Shown(Actual(e), y)
    PROVE  n \in (y - 2)..(y + 2)
<1>1. Actual(e) \in Int /\ Start(n) <= Actual(e) /\ Actual(e) < Start(n + 3)
  BY ActualIs
<1>2. y + 3 \in Nat /\ y + 3 > 0 /\ n + 3 \in Nat /\ n + 3 > 0
  OBVIOUS
<1>3. {Start(y), Start(n), Start(y + 3), Start(n + 3)} \subseteq Nat
  BY <1>2, YearStarts
<1>4. Start(y) <= Actual(e) /\ Actual(e) < Start(y + 3)
  <2>1. End(y) = Start(y + 3) - 1
    BY HorizonEnds
  <2>2. Start(y) <= Actual(e) /\ Actual(e) <= End(y)
    BY DEF Shown
  <2> QED BY <1>1, <1>3, <2>1, <2>2
<1>5. Start(y) < Start(n + 3) /\ Start(n) < Start(y + 3)
  BY <1>1, <1>3, <1>4
<1>6. y < n + 3
  <2> SUFFICES ASSUME ~(y < n + 3) PROVE FALSE
    OBVIOUS
  <2>1. y = n + 3 \/ n + 3 < y
    OBVIOUS
  <2>2. n + 3 < y => Start(n + 3) < Start(y)
    BY <1>2, StartsInOrder
  <2> QED BY <1>3, <1>5, <2>1, <2>2
<1>7. n < y + 3
  <2> SUFFICES ASSUME ~(n < y + 3) PROVE FALSE
    OBVIOUS
  <2>1. n = y + 3 \/ y + 3 < n
    OBVIOUS
  <2>2. y + 3 < n => Start(y + 3) < Start(n)
    BY <1>2, StartsInOrder
  <2> QED BY <1>3, <1>5, <2>1, <2>2
<1> QED BY <1>6, <1>7

\* compute_deadlines finds the dates that are due in a horizon, and no others.
LEMMA StatutoryIs ==
    ASSUME NEW p \in Profiles, NEW y \in FirstYear..LastYear
    PROVE  \A x : x \in Statutory[p][y] <=>
             \E key, date : x = [key |-> key, date |-> date, of |-> 0] /\ IsDue(p, y, key, date)
<1>1. y \in Nat /\ y > 4 /\ y > 0 /\ IsProfile(p)
  BY CalendarAssumption
<1> DEFINE found == {[key |-> d.key, date |-> Actual(d)] :
                       d \in {e \in UNION {DueFor(p, n) : n \in (y - 2)..(y + 2)} :
                                Start(y) <= Actual(e) /\ Actual(e) <= End(y)}}
<1>2. ComputeDeadlines(p, Start(y), End(y)) = found
  <2>1. YearOf(Start(y)) = y /\ YearOf(End(y)) = y + 2
    BY <1>1, YearStarts, HorizonEnds
  <2> QED BY <2>1 DEF ComputeDeadlines, Years
<1>3. Statutory[p][y] = {[key |-> d.key, date |-> d.date, of |-> 0] : d \in found}
  BY <1>2 DEF Statutory
<1>4. \A d : d \in found <=> \E key, date : d = [key |-> key, date |-> date] /\ IsDue(p, y, key, date)
  <2>1. ASSUME NEW d \in found PROVE \E key, date : d = [key |-> key, date |-> date] /\ IsDue(p, y, key, date)
    <3>1. PICK e \in UNION {DueFor(p, n) : n \in (y - 2)..(y + 2)} :
            d = [key |-> e.key, date |-> Actual(e)] /\ Shown(Actual(e), y)
      BY DEF Shown
    <3>2. PICK n \in (y - 2)..(y + 2) : e \in DueFor(p, n)
      OBVIOUS
    <3>3. n \in Nat \ {0}
      BY <1>1
    <3> QED BY <3>1, <3>2, <3>3 DEF IsDue
  <2>2. ASSUME NEW key, NEW date, IsDue(p, y, key, date) PROVE [key |-> key, date |-> date] \in found
    <3>1. Shown(date, y)
      BY <2>2 DEF IsDue
    <3>0. PICK n \in Nat \ {0} : \E e \in DueFor(p, n) : key = e.key /\ date = Actual(e)
      BY <2>2 DEF IsDue
    <3>2. PICK e \in DueFor(p, n) : key = e.key /\ date = Actual(e)
      BY <3>0
    <3>3. n \in (y - 2)..(y + 2)
      BY <1>1, <3>1, <3>2, DueInYears
    <3>4. e \in {d \in UNION {DueFor(p, k) : k \in (y - 2)..(y + 2)} : Start(y) <= Actual(d) /\ Actual(d) <= End(y)}
      BY <3>1, <3>2, <3>3 DEF Shown
    <3> QED BY <3>2, <3>4
  <2> HIDE DEF found
  <2> QED BY <2>1, <2>2
<1> HIDE DEF found
<1>5. ASSUME NEW x \in Statutory[p][y]
      PROVE  \E key, date : x = [key |-> key, date |-> date, of |-> 0] /\ IsDue(p, y, key, date)
  <2>1. PICK d \in found : x = [key |-> d.key, date |-> d.date, of |-> 0]
    BY <1>3
  <2>2. PICK key, date : d = [key |-> key, date |-> date] /\ IsDue(p, y, key, date)
    BY <1>4
  <2>3. d.key = key /\ d.date = date
    BY <2>2
  <2> QED BY <2>1, <2>2, <2>3
<1>6. ASSUME NEW key, NEW date, IsDue(p, y, key, date)
      PROVE  [key |-> key, date |-> date, of |-> 0] \in Statutory[p][y]
  <2> DEFINE d == [key |-> key, date |-> date]
  <2>1. d \in found /\ d.key = key /\ d.date = date
    BY <1>4, <1>6
  <2> HIDE DEF d
  <2> QED BY <1>3, <2>1
<1> QED BY <1>5, <1>6

\* So do the lawful dates.
LEMMA LawfulIs ==
    ASSUME NEW p \in Profiles, NEW y \in FirstYear..LastYear
    PROVE  \A x : x \in Lawful[p][y] <=>
             \E key, date : x = [key |-> key, date |-> date] /\ IsDue(p, y, key, date)
<1>1. y \in Nat /\ y > 4 /\ y > 0 /\ IsProfile(p)
  BY CalendarAssumption
<1> DEFINE due == UNION {DueFor(p, n) : n \in (y - 4)..(y + 3)}
           of(d) == [key |-> d.key, date |-> IF d.move THEN FirstWeekday(d.nominal) ELSE d.nominal]
<1>2. Lawful[p][y] = {x \in {of(d) : d \in due} : Shown(x.date, y)}
  <2>1. y + HorizonYears + 1 = y + 3
    BY <1>1 DEF HorizonYears
  <2> QED BY <2>1 DEF Lawful
<1>3. \A d \in due : of(d) = [key |-> d.key, date |-> Actual(d)]
  <2> SUFFICES ASSUME NEW d \in due PROVE of(d) = [key |-> d.key, date |-> Actual(d)]
    OBVIOUS
  <2>1. PICK n \in (y - 4)..(y + 3) : d \in DueFor(p, n)
    OBVIOUS
  <2>2. n \in Nat /\ n > 0
    BY <1>1
  <2>3. Actual(d) = IF d.move THEN FirstWeekday(d.nominal) ELSE d.nominal
    BY <1>1, <2>1, <2>2, ActualIs
  <2> QED BY <2>3
<1>4. ASSUME NEW x \in Lawful[p][y]
      PROVE  \E key, date : x = [key |-> key, date |-> date] /\ IsDue(p, y, key, date)
  <2>1. PICK d \in due : x = of(d) /\ Shown(x.date, y)
    BY <1>2
  <2>2. PICK n \in (y - 4)..(y + 3) : d \in DueFor(p, n)
    OBVIOUS
  <2>3. n \in Nat \ {0}
    <3> HIDE DEF due
    <3> QED BY <1>1
  <2>4. x = [key |-> d.key, date |-> Actual(d)]
    BY <1>3, <2>1
  <2>5. IsDue(p, y, d.key, Actual(d))
    <3>1. Shown(Actual(d), y)
      BY <2>1, <2>4
    <3> QED BY <2>2, <2>3, <3>1 DEF IsDue
  <2> QED BY <2>4, <2>5
<1>5. ASSUME NEW key, NEW date, IsDue(p, y, key, date)
      PROVE  [key |-> key, date |-> date] \in Lawful[p][y]
  <2>1. Shown(date, y)
    BY <1>5 DEF IsDue
  <2>0. PICK n \in Nat \ {0} : \E e \in DueFor(p, n) : key = e.key /\ date = Actual(e)
    BY <1>5 DEF IsDue
  <2>2. PICK e \in DueFor(p, n) : key = e.key /\ date = Actual(e)
    BY <2>0
  <2>3. n \in (y - 4)..(y + 3)
    <3>1. n \in (y - 2)..(y + 2)
      BY <1>1, <2>1, <2>2, DueInYears
    <3> QED BY <1>1, <3>1
  <2>4. e \in due
    BY <2>2, <2>3
  <2>5. of(e) = [key |-> key, date |-> date]
    BY <1>3, <2>2, <2>4
  <2> HIDE DEF due, of
  <2> QED BY <1>2, <2>1, <2>4, <2>5
<1> QED BY <1>4, <1>5

-----------------------------------------------------------------------------
(* The entries of a horizon *)

\* A day moves to a day.
LEMMA AdjustedIs ==
    ASSUME NEW day \in Int, day > 365, NEW mode \in {"keep", "previous", "next"}
    PROVE  Adjusted(day, mode) \in Int
<1>1. CASE mode = "keep"
  BY <1>1 DEF Adjusted
<1>2. CASE mode = "next"
  <2>1. day \in Nat /\ day > 0
    OBVIOUS
  <2>2. Day(day, 9, 1) \in Int /\ Day(day, 9, 7) \in Int /\ day <= Day(day, 9, 1)
    <3>1. Day(day, 9, 1) = Before(day) + InYear(day, 9) + 1 /\ Day(day, 9, 1) \in Int /\ Day(day, 9, 7) \in Int
      BY <2>1, DayIs, Literals
    <3>2. InYear(day, 9) \in 243..244
      BY DEF InYear
    <3>3. Before(day) \in Nat /\ 365 * (day - 1) <= Before(day)
      BY <2>1, YearsAdd
    <3> QED BY <3>1, <3>2, <3>3
  <2>3. NextBusinessDay(day) \in day..Day(day, 9, 7)
    BY <2>1, <2>2, NextBySeptember
  <2> QED BY <1>2, <2>2, <2>3 DEF Adjusted
<1>3. CASE mode = "previous"
  <2>1. PICK d \in Day(1, 9, 1)..Day(1, 9, 7) : IsBusinessDay(d)
    BY SeptemberWorks, Literals
  <2>2. Day(1, 9, 1) = 244 /\ Day(1, 9, 7) = 250
    <3>1. IsLeap(1) = FALSE /\ Before(1) = 0
      BY DEF IsLeap, Before
    <3>2. Day(1, 9, 1) = Before(1) + InYear(1, 9) + 1 /\ Day(1, 9, 7) = Before(1) + InYear(1, 9) + 7
      BY DayIs, Literals
    <3>3. InYear(1, 9) = 243
      BY <3>1 DEF InYear
    <3> QED BY <3>1, <3>2, <3>3
  <2>3. day - d \in Nat /\ day - (day - d) = d
    BY <2>1, <2>2
  <2>4. PreviousBusinessDay(day) \in (day - (day - d))..day
    BY <2>1, <2>3, PreviousIs
  <2>5. PreviousBusinessDay(day) \in Int
    BY <2>1, <2>2, <2>3, <2>4
  <2> QED BY <1>3, <2>5 DEF Adjusted
<1> QED BY <1>1, <1>2, <1>3

\* The entries of the company's own rules have dates, and keys of their own.
LEMMA CustomDates ==
    ASSUME NEW r \in RuleBook, NEW as, \A i \in DOMAIN as : as[i].date \in AnchorDates,
           NEW y \in FirstYear..LastYear, NEW f \in RuleEntries(r, as, y)
    PROVE  f.date \in Int /\ f.key[1] = "custom"
<1>1. r.mode \in {"keep", "previous", "next"} /\ FirstYear \in Nat /\ FirstYear > 4 /\ y \in Nat /\ y > 4
  BY CalendarAssumption
<1>2. CASE r.type = "fixed"
  <2>1. PICK n \in y..(y + HorizonYears) :
          f = [key |-> <<"custom", r.id, n>>, date |-> Adjusted(Clamped(n, r.month, r.day), r.mode), of |-> 0]
    BY <1>2 DEF RuleEntries
  <2>2. n \in Nat /\ n > 4
    BY <1>1 DEF HorizonYears
  <2>3. r.month \in 1..12 /\ r.day \in 1..31
    BY <1>2, CalendarAssumption
  <2>4. Within(n, Clamped(n, r.month, r.day))
    BY <2>2, <2>3, ClampedWithin, SMTT(30)
  <2>5. Start(n) \in Nat /\ Start(n) > 365 * (n - 1)
    BY <2>2, YearStarts
  <2> DEFINE day == Clamped(n, r.month, r.day)
  <2>6. day \in Int /\ day > 365
    BY <2>2, <2>4, <2>5 DEF Within, Start
  <2> HIDE DEF day
  <2>7. Adjusted(day, r.mode) \in Int
    BY <1>1, <2>6, AdjustedIs
  <2> QED BY <2>1, <2>7 DEF day
<1>3. CASE r.type # "fixed"
  <2>1. PICK i \in ForCompany(as) :
          f = [key |-> <<"custom", r.id, YearOf(as[i].date)>>, of |-> i,
               date |-> Adjusted(OffsetDate(as[i].date, r.amount, r.unit, r.direction), r.mode)]
    BY <1>3 DEF RuleEntries
  <2> DEFINE day == OffsetDate(as[i].date, r.amount, r.unit, r.direction)
  <2>2. as[i].date \in AnchorDates
    BY DEF ForCompany
  <2>3. day \in Nat \ 0..365
    BY <1>3, <2>2, CalendarAssumption
  <2> HIDE DEF day
  <2>4. day \in Int /\ day > 365
    BY <2>3
  <2>5. Adjusted(day, r.mode) \in Int
    BY <1>1, <2>4, AdjustedIs
  <2> QED BY <2>1, <2>5 DEF day
<1> QED BY <1>2, <1>3

\* What updates read of the settings, the rules and the anchor dates.
IsConfig(c) ==
    /\ c[1].profile \in Profiles
    /\ c[2] \subseteq RuleBook
    /\ \A i \in DOMAIN c[3] : c[3][i].date \in AnchorDates

\* The entries of the company's own.
Own(c, y) == (UNION {RuleEntries(r, c[3], y) : r \in c[2]}) \cup AnchorEntries(c[3])

\* An entry is statutory or, when they are shown, of the company's own.
LEMMA EntriesAre ==
    ASSUME NEW c, IsConfig(c), NEW y \in FirstYear..LastYear, NEW f
    PROVE  f \in Entries(c, y) <=> \/ f \in Statutory[c[1].profile][y]
                                   \/ c[1].showCustom /\ f \in Own(c, y) /\ Shown(f.date, y)
BY DEF Entries, Own

\* Those of the company's own cannot be taken for statutory ones.
LEMMA OwnEntries ==
    ASSUME NEW c, IsConfig(c), NEW y \in FirstYear..LastYear, NEW f \in Own(c, y)
    PROVE  f.date \in Int /\ f.key[1] \in {"custom", "anchor"}
<1>1. CASE f \in AnchorEntries(c[3])
  <2>1. PICK i \in ForCompany(c[3]) : f = [key |-> <<"anchor", i, 0>>, date |-> c[3][i].date, of |-> i]
    BY <1>1 DEF AnchorEntries
  <2>2. c[3][i].date \in Nat
    BY CalendarAssumption DEF IsConfig, ForCompany
  <2> QED BY <2>1, <2>2
<1>2. CASE f \notin AnchorEntries(c[3])
  <2>1. PICK r \in c[2] : f \in RuleEntries(r, c[3], y)
    BY <1>2 DEF Own
  <2>2. r \in RuleBook /\ \A i \in DOMAIN c[3] : c[3][i].date \in AnchorDates
    BY DEF IsConfig
  <2> QED BY <2>1, <2>2, CustomDates
<1> QED BY <1>1, <1>2

\* A statutory entry has a date.
LEMMA StatutoryDates ==
    ASSUME NEW p \in Profiles, NEW y \in FirstYear..LastYear, NEW f \in Statutory[p][y]
    PROVE  f.date \in Int
<1>1. IsProfile(p)
  BY CalendarAssumption
<1>2. PICK key, date : f = [key |-> key, date |-> date, of |-> 0] /\ IsDue(p, y, key, date)
  BY StatutoryIs
<1>3. PICK n \in Nat \ {0} : \E e \in DueFor(p, n) : key = e.key /\ date = Actual(e)
  BY <1>2 DEF IsDue
<1>4. PICK e \in DueFor(p, n) : date = Actual(e)
  BY <1>3
<1>5. Actual(e) \in Int
  BY <1>1, <1>4, ActualIs
<1> QED BY <1>2, <1>4, <1>5

\* Every entry has a date.
LEMMA EntryDates ==
    ASSUME NEW c, IsConfig(c), NEW y \in FirstYear..LastYear, NEW f \in Entries(c, y)
    PROVE  f.date \in Int
BY EntriesAre, OwnEntries, StatutoryDates DEF IsConfig

\* The horizon of a later year ends later.
LEMMA StaysShown ==
    ASSUME NEW y \in Nat, y > 0, NEW z \in Nat, y <= z, NEW date \in Int, Shown(date, y), Start(z) <= date
    PROVE  Shown(date, z)
<1>1. End(y) = Start(y + 3) - 1 /\ End(z) = Start(z + 3) - 1
  BY HorizonEnds
<1>2. y + 3 \in Nat /\ z + 3 \in Nat /\ 0 < y + 3 /\ 0 < z + 3
  OBVIOUS
<1>3. Start(y + 3) \in Nat /\ Start(z + 3) \in Nat
  BY <1>2, YearStarts
<1>4. Start(y + 3) <= Start(z + 3)
  <2>1. y = z \/ y + 3 < z + 3
    OBVIOUS
  <2>2. y + 3 < z + 3 => Start(y + 3) < Start(z + 3)
    BY <1>2, StartsInOrder
  <2> QED BY <1>3, <2>1, <2>2
<1> QED BY <1>1, <1>3, <1>4 DEF Shown

\* An entry stays in the horizon of a later year until that has begun; a fixed rule of the
\* company's own has one for each of the years of the horizon.
LEMMA EntriesStay ==
    ASSUME NEW c, IsConfig(c), NEW y \in FirstYear..LastYear, NEW z \in FirstYear..LastYear, y <= z,
           NEW f \in Entries(c, y), Start(z) <= f.date, ~(f.key[1] = "custom" /\ f.key[3] < z)
    PROVE  f \in Entries(c, z)
<1>1. y \in Nat /\ y > 4 /\ z \in Nat /\ z > 4 /\ c[1].profile \in Profiles
  BY CalendarAssumption DEF IsConfig
<1>2. f.date \in Int
  BY EntryDates
<1>3. CASE f \in Statutory[c[1].profile][y]
  <2>1. PICK key, date : f = [key |-> key, date |-> date, of |-> 0] /\ IsDue(c[1].profile, y, key, date)
    BY <1>1, <1>3, StatutoryIs
  <2>2. f.date = date
    BY <2>1
  <2>3. Shown(date, y)
    BY <2>1 DEF IsDue
  <2>4. Shown(date, z)
    BY <1>1, <1>2, <2>2, <2>3, StaysShown
  <2>5. IsDue(c[1].profile, z, key, date)
    BY <2>1, <2>4 DEF IsDue
  <2>6. f \in Statutory[c[1].profile][z]
    BY <1>1, <2>1, <2>5, StatutoryIs
  <2> QED BY <2>6, EntriesAre
<1>4. CASE f \notin Statutory[c[1].profile][y]
  <2>1. c[1].showCustom /\ f \in Own(c, y) /\ Shown(f.date, y)
    BY <1>4, EntriesAre
  <2>2. Shown(f.date, z)
    BY <1>1, <1>2, <2>1, StaysShown
  <2>3. CASE f \in AnchorEntries(c[3])
    BY <2>1, <2>2, <2>3, EntriesAre DEF Own
  <2>4. CASE f \notin AnchorEntries(c[3])
    <3>1. PICK r \in c[2] : f \in RuleEntries(r, c[3], y)
      BY <2>1, <2>4 DEF Own
    <3>2. f \in RuleEntries(r, c[3], z)
      <4>1. CASE r.type = "fixed"
        <5>1. PICK n \in y..(y + HorizonYears) :
                f = [key |-> <<"custom", r.id, n>>, of |-> 0,
                     date |-> Adjusted(Clamped(n, r.month, r.day), r.mode)]
          BY <3>1, <4>1 DEF RuleEntries
        <5>2. f.key = <<"custom", r.id, n>>
          BY <5>1
        <5>3. ~(n < z)
          BY <5>2
        <5>4. n \in z..(z + HorizonYears)
          BY <1>1, <5>3 DEF HorizonYears
        <5> QED BY <4>1, <5>1, <5>4 DEF RuleEntries
      <4>2. CASE r.type # "fixed"
        BY <3>1, <4>2 DEF RuleEntries
      <4> QED BY <4>1, <4>2
    <3>3. f \in Own(c, z)
      BY <3>1, <3>2 DEF Own
    <3> QED BY <2>1, <2>2, <3>3, EntriesAre
  <2> QED BY <2>3, <2>4
<1> QED BY <1>3, <1>4

-----------------------------------------------------------------------------
(* The invariant *)

\* What an update expects that read the settings, rules and anchor dates c in the year y.
Listed(c, y) == IF c[1].active THEN Entries(c, y) ELSE {}

\* An event is never before the day it was computed for: users move it to later ones.
Events == [date : Int, computed : Int, active : BOOLEAN]
IsCalendar(cal) == \A k \in DOMAIN cal : cal[k] \in Events /\ cal[k].computed <= cal[k].date

\* What an update has read.
IsRead(t, y) ==
    /\ t = [config |-> t.config, calendar |-> t.calendar, year |-> t.year, overtaken |-> t.overtaken]
    /\ IsConfig(t.config) /\ IsCalendar(t.calendar) /\ t.year \in FirstYear..y

\* An update that has not been overtaken has seen every event there is, and no later update
\* has ended.
IsCurrent(t, cal, last) ==
    /\ DOMAIN cal \subseteq DOMAIN t.calendar
    /\ \A k \in DOMAIN cal : cal[k].computed = t.calendar[k].computed
    /\ last # <<>> => last[2] <= t.year

\* Every event of the horizon that no user has moved is what the last update expected.
IsAnnounced(cal, last) ==
    last # <<>> =>
        /\ IsConfig(last[1])
        /\ \A k \in DOMAIN cal : Start(last[2]) <= cal[k].date /\ cal[k].date = cal[k].computed =>
              \E f \in Listed(last[1], last[2]) : f.key = k /\ f.date = cal[k].date

Years0 == year \in FirstYear..LastYear /\ (lastSync # <<>> => lastSync[2] \in FirstYear..year)

CalendarInv ==
    /\ Years0
    /\ IsConfig(config)
    /\ IsCalendar(calendar)
    /\ IsAnnounced(calendar, lastSync)
    /\ DOMAIN update = Updaters
    /\ \A c \in Updaters : update[c] # NoUpdate =>
          IsRead(update[c], year) /\ (~update[c].overtaken => IsCurrent(update[c], calendar, lastSync))

\* The years of a calendar are numbers.
LEMMA YearsKnown ==
    ASSUME CalendarInv
    PROVE  /\ FirstYear \in Nat /\ LastYear \in Nat /\ year \in Nat
           /\ FirstYear <= year /\ year <= LastYear
           /\ lastSync # <<>> => lastSync[2] \in FirstYear..year
<1>1. FirstYear \in Nat /\ LastYear \in Nat
  BY CalendarAssumption
<1>2. year \in FirstYear..LastYear /\ (lastSync # <<>> => lastSync[2] \in FirstYear..year)
  BY DEF CalendarInv, Years0
<1> QED BY <1>1, <1>2

\* The invariant holds at first.
LEMMA CalendarInitInv == CalendarInit => CalendarInv
<1> SUFFICES ASSUME CalendarInit PROVE CalendarInv
  OBVIOUS
<1>1. FirstYear \in Nat /\ LastYear \in Nat
  BY CalendarAssumption
<1>2. Years0 /\ IsCalendar(calendar) /\ IsAnnounced(calendar, lastSync)
  <2>1. DOMAIN calendar = {} /\ lastSync = <<>> /\ year = FirstYear
    BY DEF CalendarInit
  <2>2. year \in FirstYear..LastYear
    BY <1>1, <2>1, CalendarAssumption
  <2> QED BY <2>1, <2>2 DEF Years0, IsCalendar, IsAnnounced
<1>3. IsConfig(config)
  BY DEF CalendarInit, config, IsConfig
<1>4. DOMAIN update = Updaters /\ \A c \in Updaters : update[c] = NoUpdate
  BY DEF CalendarInit
<1> QED BY <1>2, <1>3, <1>4 DEF CalendarInv

\* What the updates in progress have read stays so while the calendar only loses events, keeps
\* the days they were computed for and no update ends.
LEMMA UpdatesStay ==
    ASSUME CalendarInv, UNCHANGED lastSync, year' \in year..LastYear,
           DOMAIN update' = Updaters,
           \A c \in Updaters : update'[c] # NoUpdate =>
               \/ update'[c] = update[c]
               \/ update[c] # NoUpdate /\ update'[c] = [update[c] EXCEPT !.overtaken = TRUE],
           DOMAIN calendar' \subseteq DOMAIN calendar,
           \A k \in DOMAIN calendar' : calendar'[k].computed = calendar[k].computed
    PROVE  \A c \in Updaters : update'[c] # NoUpdate =>
              IsRead(update'[c], year') /\ (~update'[c].overtaken => IsCurrent(update'[c], calendar', lastSync'))
<1> SUFFICES ASSUME NEW c \in Updaters, update'[c] # NoUpdate
             PROVE  IsRead(update'[c], year') /\ (~update'[c].overtaken => IsCurrent(update'[c], calendar', lastSync'))
  OBVIOUS
<1> DEFINE t == update[c]
           u == update'[c]
<1>1. t # NoUpdate /\ IsRead(t, year) /\ (~t.overtaken => IsCurrent(t, calendar, lastSync))
  BY DEF CalendarInv
<1>2. u = t \/ u = [config |-> t.config, calendar |-> t.calendar, year |-> t.year, overtaken |-> TRUE]
  BY <1>1 DEF IsRead
<1>3. FirstYear \in Nat /\ year \in Nat /\ year' \in Nat /\ year <= year'
  <2>1. FirstYear \in Nat /\ LastYear \in Nat /\ year \in Nat
    BY YearsKnown
  <2> QED BY <2>1
<1> HIDE DEF t, u
<1>4. IsRead(u, year')
  BY <1>1, <1>2, <1>3 DEF IsRead
<1>5. ASSUME ~u.overtaken PROVE IsCurrent(u, calendar', lastSync')
  BY <1>1, <1>2, <1>5 DEF IsCurrent
<1> QED BY <1>4, <1>5 DEF u

\* Administrators change what updates read.
LEMMA ConfigIs ==
    ASSUME CalendarInv,
           settings'.profile \in Profiles, rules' \subseteq RuleBook, \A i \in DOMAIN anchors' : anchors'[i].date \in AnchorDates
    PROVE  IsConfig(config')
BY DEF IsConfig, config

\* A write to the company's row overtakes every update in progress, and ends none.
LEMMA OvertakenIs ==
    ASSUME CalendarInv
    PROVE  /\ DOMAIN Overtaken = Updaters
           /\ \A c \in Updaters : Overtaken[c] # NoUpdate =>
                update[c] # NoUpdate /\ Overtaken[c] = [update[c] EXCEPT !.overtaken = TRUE]
BY DEF Overtaken

\* An update that begins has read everything there is.
LEMMA BeginInv ==
    ASSUME CalendarInv, NEW c \in Updaters, BeginSync(c)
    PROVE  CalendarInv'
<1> DEFINE t == [config |-> config, calendar |-> calendar, year |-> year, overtaken |-> FALSE]
<1>1. /\ update' = [update EXCEPT ![c] = t] /\ UNCHANGED <<year, config, calendar, lastSync>>
      /\ DOMAIN update = Updaters
  BY DEF BeginSync, CalendarInv
<1>2. year \in FirstYear..year /\ year' \in Nat
  <2>1. FirstYear \in Nat /\ year \in Nat /\ FirstYear <= year
    BY YearsKnown
  <2>2. year' = year
    BY <1>1
  <2> QED BY <2>1, <2>2
<1>3. IsRead(t, year)
  BY <1>2 DEF IsRead, CalendarInv
<1>4. IsCurrent(t, calendar, lastSync)
  <2>1. lastSync # <<>> => lastSync[2] <= year
    BY YearsKnown
  <2> QED BY <2>1 DEF IsCurrent
<1> HIDE DEF t
<1>5. DOMAIN update' = Updaters /\ update'[c] = t /\ \A d \in Updaters \ {c} : update'[d] = update[d]
  BY <1>1
<1>6. \A d \in Updaters : update'[d] # NoUpdate =>
        IsRead(update'[d], year') /\ (~update'[d].overtaken => IsCurrent(update'[d], calendar', lastSync'))
  BY <1>1, <1>3, <1>4, <1>5 DEF CalendarInv
<1> QED BY <1>1, <1>5, <1>6 DEF CalendarInv, Years0

\* New years and administrators leave the calendar alone.
LEMMA OthersInv ==
    ASSUME CalendarInv, NewYear \/ ChangeSettings \/ ChangeRules \/ ChangeAnchors
    PROVE  CalendarInv'
<1>1. UNCHANGED <<calendar, lastSync>> /\ year' \in year..LastYear /\ year' \in FirstYear..LastYear /\ year \in Nat
  <2>1. FirstYear \in Nat /\ LastYear \in Nat /\ year \in Nat /\ FirstYear <= year /\ year <= LastYear
    BY YearsKnown
  <2>2. CASE NewYear
    <3>1. UNCHANGED <<calendar, lastSync>> /\ year' = year + 1 /\ year < LastYear
      BY <2>2 DEF NewYear
    <3> QED BY <2>1, <3>1
  <2>3. CASE ChangeSettings \/ ChangeRules \/ ChangeAnchors
    <3>1. UNCHANGED <<calendar, lastSync, year>>
      BY <2>3 DEF ChangeSettings, ChangeRules, ChangeAnchors
    <3> QED BY <2>1, <3>1
  <2> QED BY <2>2, <2>3
<1>2. /\ DOMAIN update' = Updaters
      /\ \A c \in Updaters : update'[c] # NoUpdate =>
           \/ update'[c] = update[c]
           \/ update[c] # NoUpdate /\ update'[c] = [update[c] EXCEPT !.overtaken = TRUE]
  <2>1. CASE update' = update
    BY <2>1 DEF CalendarInv
  <2>2. CASE update' = Overtaken
    BY <2>2, OvertakenIs
  <2> QED BY <2>1, <2>2 DEF NewYear, ChangeSettings, ChangeRules, ChangeAnchors
<1>3. IsConfig(config')
  <2>1. settings.profile \in Profiles /\ rules \subseteq RuleBook /\ \A i \in DOMAIN anchors : anchors[i].date \in AnchorDates
    BY DEF CalendarInv, IsConfig, config
  <2>2. CASE NewYear
    BY <2>1, <2>2, ConfigIs DEF NewYear, config
  <2>3. CASE ChangeSettings
    BY <2>1, <2>3, ConfigIs DEF ChangeSettings
  <2>4. CASE ChangeRules
    BY <2>1, <2>4, ConfigIs DEF ChangeRules
  <2>5. CASE ChangeAnchors
    <3>1. settings' = settings /\ rules' = rules
      BY <2>5 DEF ChangeAnchors
    <3>2. \A i \in DOMAIN anchors' : anchors'[i].date \in AnchorDates
      <4>1. CASE \E i \in AnchorIds, a \in Anchors :
                   anchors' = [j \in DOMAIN anchors \cup {i} |-> IF j = i THEN a ELSE anchors[j]]
        BY <2>1, <4>1 DEF Anchors
      <4>2. CASE \E a, b \in Anchors : anchors' = <<a, b>>
        BY <4>2 DEF Anchors
      <4>3. CASE \E i \in DOMAIN anchors : anchors' = [j \in DOMAIN anchors \ {i} |-> anchors[j]]
        BY <2>1, <4>3
      <4> QED BY <2>5, <4>1, <4>2, <4>3 DEF ChangeAnchors
    <3> QED BY <2>1, <3>1, <3>2, ConfigIs
  <2> QED BY <2>2, <2>3, <2>4, <2>5
<1>4. \A c \in Updaters : update'[c] # NoUpdate =>
        IsRead(update'[c], year') /\ (~update'[c].overtaken => IsCurrent(update'[c], calendar', lastSync'))
  BY <1>1, <1>2, UpdatesStay
<1>5. Years0'
  BY <1>1 DEF Years0, CalendarInv
<1> QED BY <1>1, <1>2, <1>3, <1>4, <1>5 DEF CalendarInv

\* An edit removes an event, archives it or makes it one that was moved.
LEMMA EditInv ==
    ASSUME CalendarInv, EditEvent
    PROVE  CalendarInv'
<1>1. UNCHANGED <<year, config, update, lastSync>>
  BY DEF EditEvent
<1>2. /\ DOMAIN calendar' \subseteq DOMAIN calendar
      /\ \A k \in DOMAIN calendar' :
            /\ calendar'[k] \in Events /\ calendar'[k].computed = calendar[k].computed
            /\ calendar'[k].date = calendar[k].date \/ calendar'[k].date = calendar[k].date + 1
  <2>1. \A k \in DOMAIN calendar : calendar[k] \in Events
    BY DEF CalendarInv, IsCalendar
  <2>2. CASE \E k \in DOMAIN calendar : calendar' = [calendar EXCEPT ![k].date = @ + 1]
    <3>1. PICK k \in DOMAIN calendar : calendar' = [calendar EXCEPT ![k] = [calendar[k] EXCEPT !.date = calendar[k].date + 1]]
      BY <2>2
    <3>2. calendar'[k] = [calendar[k] EXCEPT !.date = calendar[k].date + 1] /\ DOMAIN calendar' = DOMAIN calendar
          /\ \A j \in DOMAIN calendar \ {k} : calendar'[j] = calendar[j]
      BY <3>1
    <3>3. calendar'[k] \in Events /\ calendar'[k].computed = calendar[k].computed
          /\ calendar'[k].date = calendar[k].date + 1
      BY <2>1, <3>2 DEF Events
    <3> QED BY <2>1, <3>2, <3>3
  <2>3. CASE \E k \in DOMAIN calendar : calendar' = [calendar EXCEPT ![k].active = FALSE]
    <3>1. PICK k \in DOMAIN calendar : calendar' = [calendar EXCEPT ![k] = [calendar[k] EXCEPT !.active = FALSE]]
      BY <2>3
    <3>2. calendar'[k] = [calendar[k] EXCEPT !.active = FALSE] /\ DOMAIN calendar' = DOMAIN calendar
          /\ \A j \in DOMAIN calendar \ {k} : calendar'[j] = calendar[j]
      BY <3>1
    <3>3. calendar'[k] \in Events /\ calendar'[k].computed = calendar[k].computed
          /\ calendar'[k].date = calendar[k].date
      BY <2>1, <3>2 DEF Events
    <3> QED BY <2>1, <3>2, <3>3
  <2>4. CASE \E k \in DOMAIN calendar : calendar' = [j \in DOMAIN calendar \ {k} |-> calendar[j]]
    BY <2>1, <2>4
  <2>5. CASE calendar' = calendar
    BY <2>1, <2>5
  <2> QED BY <2>2, <2>3, <2>4, <2>5 DEF EditEvent
<1>3. \A k \in DOMAIN calendar' :
        /\ k \in DOMAIN calendar /\ calendar[k] \in Events /\ calendar[k].computed <= calendar[k].date
        /\ calendar'[k].computed <= calendar'[k].date
        /\ calendar'[k].date = calendar'[k].computed => calendar'[k].date = calendar[k].date
  <2> SUFFICES ASSUME NEW k \in DOMAIN calendar'
               PROVE  /\ k \in DOMAIN calendar /\ calendar[k] \in Events /\ calendar[k].computed <= calendar[k].date
                      /\ calendar'[k].computed <= calendar'[k].date
                      /\ calendar'[k].date = calendar'[k].computed => calendar'[k].date = calendar[k].date
    OBVIOUS
  <2>1. k \in DOMAIN calendar /\ calendar[k] \in Events /\ calendar[k].computed <= calendar[k].date
    BY <1>2 DEF CalendarInv, IsCalendar
  <2>2. calendar[k].computed \in Int /\ calendar[k].date \in Int
    BY <2>1 DEF Events
  <2> QED BY <1>2, <2>1, <2>2
<1>4. IsCalendar(calendar')
  BY <1>2, <1>3 DEF IsCalendar
<1>5. IsAnnounced(calendar', lastSync')
  BY <1>1, <1>2, <1>3 DEF IsAnnounced, CalendarInv
<1>6. year' \in year..LastYear /\ DOMAIN update' = Updaters
  <2>1. LastYear \in Nat /\ year \in Nat /\ year <= LastYear
    BY YearsKnown
  <2>2. year' = year /\ DOMAIN update' = Updaters
    BY <1>1 DEF CalendarInv
  <2> QED BY <2>1, <2>2
<1>7. \A c \in Updaters : update'[c] # NoUpdate =>
        IsRead(update'[c], year') /\ (~update'[c].overtaken => IsCurrent(update'[c], calendar', lastSync'))
  BY <1>1, <1>2, <1>6, UpdatesStay
<1>8. Years0' /\ IsConfig(config')
  BY <1>1 DEF Years0, CalendarInv
<1> QED BY <1>4, <1>5, <1>6, <1>7, <1>8 DEF CalendarInv

\* What an update that is not refused does: an event of the calendar it leaves is one of its
\* entries as computed, or else one that it had no reason to write or remove; an entry is
\* written unless the event it has read is of the same day and not archived.
Committed(t) ==
    /\ ~t.overtaken /\ lastSync' = <<t.config, t.year>>
    /\ \A k \in DOMAIN calendar' :
          \/ \E f \in Listed(t.config, t.year) : f.key = k /\ calendar'[k] = AsComputed(f)
          \/ /\ k \in DOMAIN calendar /\ calendar'[k] = calendar[k]
             /\ k \in DOMAIN t.calendar =>
                   \/ ~(t.calendar[k].date >= Start(t.year))
                   \/ \E f \in Listed(t.config, t.year) : f.key = k /\ t.calendar[k].computed = f.date
    /\ \A f \in Listed(t.config, t.year) :
          \/ f.key \in DOMAIN calendar' /\ calendar'[f.key] = AsComputed(f)
          \/ /\ f.key \in DOMAIN t.calendar
             /\ t.calendar[f.key].computed = f.date /\ (t.calendar[f.key].active \in BOOLEAN => t.calendar[f.key].active)
             /\ f.key \in DOMAIN calendar => f.key \in DOMAIN calendar' /\ calendar'[f.key] = calendar[f.key]

\* An update ends refused, or does what Committed says.
LEMMA CommitIs ==
    ASSUME NEW c \in Updaters, CommitSync(c)
    PROVE  \/ UNCHANGED <<calendar, lastSync>> /\ update' = [update EXCEPT ![c] = NoUpdate]
           \/ Committed(update[c]) /\ update' = [Overtaken EXCEPT ![c] = NoUpdate]
<1> DEFINE t       == update[c]
           entries == Listed(t.config, t.year)
           keys    == {e.key : e \in entries}
           written == {e \in entries : e.key \in DOMAIN t.calendar => Outdated(t.calendar[e.key], e)}
           set     == {e.key : e \in written}
           removed == {k \in DOMAIN t.calendar \ keys : t.calendar[k].date >= Start(t.year)}
           new(k)  == AsComputed(CHOOSE e \in written : e.key = k)
<1>1. SUFFICES ASSUME ~(UNCHANGED <<calendar, lastSync>> /\ update' = [update EXCEPT ![c] = NoUpdate])
               PROVE  Committed(t) /\ update' = [Overtaken EXCEPT ![c] = NoUpdate]
  OBVIOUS
<1>2. Expected(t) = entries
  BY DEF Expected, Listed
<1>3. /\ ~t.overtaken /\ ~\E e, f \in entries : e # f /\ e.key = f.key
      /\ update' = [Overtaken EXCEPT ![c] = NoUpdate] /\ lastSync' = <<t.config, t.year>>
      /\ calendar' = [k \in (DOMAIN calendar \ removed) \cup set |-> IF k \in set THEN new(k) ELSE calendar[k]]
  <2> DEFINE refused == \/ t.overtaken
                        \/ \E e, f \in entries : e # f /\ e.key = f.key
                        \/ \E k \in removed \cup (set \cap DOMAIN t.calendar) :
                              k \notin DOMAIN calendar \/ calendar[k] # t.calendar[k]
             after == [k \in (DOMAIN calendar \ removed) \cup set |-> IF k \in set THEN new(k) ELSE calendar[k]]
  <2>1. IF refused
        THEN update' = [update EXCEPT ![c] = NoUpdate] /\ UNCHANGED <<calendar, seen, lastSync>>
        ELSE /\ update' = [Overtaken EXCEPT ![c] = NoUpdate]
             /\ calendar' = after
             /\ seen' = (seen \/ t.config[1].active)
             /\ lastSync' = <<t.config, t.year>>
    <3> DEFINE Ends(u, es) ==
          LET ks   == {e.key : e \in es}
              ws   == {e \in es : e.key \in DOMAIN u.calendar => Outdated(u.calendar[e.key], e)}
              s    == {e.key : e \in ws}
              rs   == {k \in DOMAIN u.calendar \ ks : u.calendar[k].date >= Start(u.year)}
              no   == \/ u.overtaken
                      \/ \E e, f \in es : e # f /\ e.key = f.key
                      \/ \E k \in rs \cup (s \cap DOMAIN u.calendar) :
                            k \notin DOMAIN calendar \/ calendar[k] # u.calendar[k]
          IN  IF no
              THEN update' = [update EXCEPT ![c] = NoUpdate] /\ UNCHANGED <<calendar, seen, lastSync>>
              ELSE /\ update' = [Overtaken EXCEPT ![c] = NoUpdate]
                   /\ calendar' = [k \in (DOMAIN calendar \ rs) \cup s |->
                         IF k \in s THEN AsComputed(CHOOSE e \in ws : e.key = k) ELSE calendar[k]]
                   /\ seen' = (seen \/ u.config[1].active)
                   /\ lastSync' = <<u.config, u.year>>
    <3>1. \E u \in {t} : \E es \in {Expected(u)} : Ends(u, es)
      BY DEF CommitSync
    <3>2. Ends(t, entries)
      <4> HIDE DEF Ends, entries
      <4> QED BY <1>2, <3>1
    <3> HIDE DEF entries, t
    <3> QED BY <3>2
  <2>2. ~refused
    <3> HIDE DEF refused, after
    <3> QED BY <1>1, <2>1
  <2>3. update' = [Overtaken EXCEPT ![c] = NoUpdate] /\ calendar' = after /\ lastSync' = <<t.config, t.year>>
    <3> HIDE DEF refused, after
    <3> QED BY <2>1, <2>2
  <2>4. ~t.overtaken /\ ~\E e, f \in entries : e # f /\ e.key = f.key
    <3> HIDE DEF entries, removed, set
    <3> QED BY <2>2
  <2> QED BY <2>3, <2>4
<1>4. \A f \in written : f.key \in DOMAIN calendar' /\ calendar'[f.key] = AsComputed(f)
  <2> SUFFICES ASSUME NEW f \in written PROVE f.key \in DOMAIN calendar' /\ calendar'[f.key] = AsComputed(f)
    OBVIOUS
  <2>1. written \subseteq entries /\ f.key \in set
    OBVIOUS
  <2> HIDE DEF written, set, removed, entries, keys
  <2>2. (CHOOSE e \in written : e.key = f.key) = f
    BY <1>3, <2>1
  <2> QED BY <1>3, <2>1, <2>2
<1>5. \A k \in DOMAIN calendar' \ set : k \in DOMAIN calendar /\ k \notin removed /\ calendar'[k] = calendar[k]
  <2> HIDE DEF set, removed, new
  <2> QED BY <1>3
<1>6. \A f \in entries \ written : f.key \in DOMAIN t.calendar /\ ~Outdated(t.calendar[f.key], f) /\ f.key \notin set
  <2> SUFFICES ASSUME NEW f \in entries \ written
               PROVE  f.key \in DOMAIN t.calendar /\ ~Outdated(t.calendar[f.key], f) /\ f.key \notin set
    OBVIOUS
  <2>1. f.key \in DOMAIN t.calendar /\ ~Outdated(t.calendar[f.key], f)
    OBVIOUS
  <2>2. written \subseteq entries /\ f \in entries /\ f \notin written
    OBVIOUS
  <2> HIDE DEF written, entries
  <2>3. f.key \notin set
    BY <1>3, <2>2
  <2> QED BY <2>1, <2>3
<1>7. \A k \in set : \E f \in written : f.key = k
  OBVIOUS
<1>8. ASSUME NEW k \in DOMAIN calendar'
      PROVE  \/ \E f \in entries : f.key = k /\ calendar'[k] = AsComputed(f)
             \/ /\ k \in DOMAIN calendar /\ calendar'[k] = calendar[k]
                /\ k \in DOMAIN t.calendar =>
                      \/ ~(t.calendar[k].date >= Start(t.year))
                      \/ \E f \in entries : f.key = k /\ t.calendar[k].computed = f.date
  <2>1. CASE k \in set
    <3>1. written \subseteq entries
      OBVIOUS
    <3> HIDE DEF written, entries, set
    <3> QED BY <1>4, <1>7, <2>1, <3>1
  <2>2. CASE k \notin set
    <3>1. k \in DOMAIN calendar /\ k \notin removed /\ calendar'[k] = calendar[k]
      BY <1>5, <2>2
    <3>2. ASSUME k \in DOMAIN t.calendar, t.calendar[k].date >= Start(t.year)
          PROVE  \E f \in entries : f.key = k /\ t.calendar[k].computed = f.date
      <4>1. k \in keys
        BY <3>1, <3>2
      <4>2. PICK f \in entries : f.key = k
        BY <4>1
      <4>3. f \notin written
        BY <2>2, <4>2
      <4>4. ~Outdated(t.calendar[k], f)
        <5> HIDE DEF written, entries, set
        <5> QED BY <1>6, <4>2, <4>3
      <4> QED BY <4>2, <4>4 DEF Outdated
    <3> HIDE DEF entries
    <3> QED BY <3>1, <3>2
  <2> QED BY <2>1, <2>2
<1>9. ASSUME NEW f \in entries
      PROVE  \/ f.key \in DOMAIN calendar' /\ calendar'[f.key] = AsComputed(f)
             \/ /\ f.key \in DOMAIN t.calendar
                /\ t.calendar[f.key].computed = f.date /\ (t.calendar[f.key].active \in BOOLEAN => t.calendar[f.key].active)
                /\ f.key \in DOMAIN calendar => f.key \in DOMAIN calendar' /\ calendar'[f.key] = calendar[f.key]
  <2>1. CASE f \in written
    <3> HIDE DEF written
    <3> QED BY <1>4, <2>1
  <2>2. CASE f \notin written
    <3>1. f.key \in DOMAIN t.calendar /\ ~Outdated(t.calendar[f.key], f) /\ f.key \notin set
      <4> HIDE DEF written, entries, set
      <4> QED BY <1>6, <2>2
    <3>2. f.key \notin removed
      OBVIOUS
    <3> HIDE DEF written, entries, set, removed, new
    <3>3. f.key \in DOMAIN calendar => f.key \in DOMAIN calendar' /\ calendar'[f.key] = calendar[f.key]
      BY <1>3, <3>1, <3>2
    <3> QED BY <3>1, <3>3 DEF Outdated
  <2> QED BY <2>1, <2>2
<1> HIDE DEF t
<1> QED BY <1>3, <1>8, <1>9 DEF Committed

\* An update that is not refused leaves an announced calendar and overtakes the others.
LEMMA CommitInv ==
    ASSUME CalendarInv, NEW c \in Updaters, CommitSync(c)
    PROVE  CalendarInv'
<1>1. UNCHANGED <<year, config>> /\ update[c] # NoUpdate
  BY DEF CommitSync
<1>2. FirstYear \in Nat /\ year \in Nat /\ year' \in year..LastYear
  <2>1. FirstYear \in Nat /\ LastYear \in Nat /\ year \in Nat /\ year <= LastYear
    BY YearsKnown
  <2> QED BY <1>1, <2>1
<1>3. CASE UNCHANGED <<calendar, lastSync>> /\ update' = [update EXCEPT ![c] = NoUpdate]
  <2>1. /\ DOMAIN update' = Updaters
        /\ \A d \in Updaters : update'[d] # NoUpdate => update'[d] = update[d]
    BY <1>3 DEF CalendarInv
  <2>2. \A d \in Updaters : update'[d] # NoUpdate =>
          IsRead(update'[d], year') /\ (~update'[d].overtaken => IsCurrent(update'[d], calendar', lastSync'))
    BY <1>1, <1>3, <2>1 DEF CalendarInv
  <2> QED BY <1>1, <1>3, <2>1, <2>2 DEF CalendarInv, Years0
<1>4. CASE Committed(update[c]) /\ update' = [Overtaken EXCEPT ![c] = NoUpdate]
  <2> DEFINE t == update[c]
             entries == Listed(t.config, t.year)
  <2>1. IsRead(t, year) /\ ~t.overtaken /\ IsCurrent(t, calendar, lastSync)
    BY <1>1, <1>4 DEF CalendarInv, Committed
  <2>2. /\ DOMAIN update' = Updaters
        /\ \A d \in Updaters : update'[d] # NoUpdate =>
             update[d] # NoUpdate /\ update'[d] = [update[d] EXCEPT !.overtaken = TRUE]
    BY <1>4, OvertakenIs DEF CalendarInv
  <2>3. \A d \in Updaters : update'[d] # NoUpdate => IsRead(update'[d], year') /\ update'[d].overtaken
    <3> SUFFICES ASSUME NEW d \in Updaters, update'[d] # NoUpdate
                 PROVE  IsRead(update'[d], year') /\ update'[d].overtaken
      OBVIOUS
    <3> DEFINE u == update[d]
    <3>1. IsRead(u, year) /\ update'[d] = [u EXCEPT !.overtaken = TRUE]
      BY <2>2 DEF CalendarInv
    <3>2. update'[d] = [config |-> u.config, calendar |-> u.calendar, year |-> u.year, overtaken |-> TRUE]
      BY <3>1 DEF IsRead
    <3> HIDE DEF u
    <3> QED BY <1>1, <3>1, <3>2 DEF IsRead
  <2>4. /\ lastSync' = <<t.config, t.year>> /\ lastSync'[1] = t.config /\ lastSync'[2] = t.year
        /\ \A k \in DOMAIN calendar' :
             \/ \E f \in entries : f.key = k /\ calendar'[k] = AsComputed(f)
             \/ /\ k \in DOMAIN calendar /\ calendar'[k] = calendar[k]
                /\ k \in DOMAIN t.calendar =>
                      \/ ~(t.calendar[k].date >= Start(t.year))
                      \/ \E f \in entries : f.key = k /\ t.calendar[k].computed = f.date
    BY <1>4 DEF Committed
  <2>5. IsConfig(t.config) /\ IsCalendar(t.calendar) /\ t.year \in FirstYear..year /\ t.year \in FirstYear..LastYear
    <3>1. IsConfig(t.config) /\ IsCalendar(t.calendar) /\ t.year \in FirstYear..year
      BY <2>1 DEF IsRead
    <3>2. year \in FirstYear..LastYear
      BY DEF CalendarInv, Years0
    <3>3. FirstYear \in Nat /\ LastYear \in Nat
      BY CalendarAssumption
    <3> HIDE DEF t
    <3> QED BY <3>1, <3>2, <3>3
  <2> HIDE DEF t
  <2>6. \A f \in entries : f.date \in Int
    BY <2>5, EntryDates DEF Listed
  <2> HIDE DEF entries
  <2>7. IsCalendar(calendar')
    <3> SUFFICES ASSUME NEW k \in DOMAIN calendar'
                 PROVE  calendar'[k] \in Events /\ calendar'[k].computed <= calendar'[k].date
      BY DEF IsCalendar
    <3>1. CASE \E f \in entries : f.key = k /\ calendar'[k] = AsComputed(f)
      BY <2>6, <3>1 DEF AsComputed, Events
    <3>2. CASE k \in DOMAIN calendar /\ calendar'[k] = calendar[k]
      BY <3>2 DEF CalendarInv, IsCalendar
    <3> QED BY <2>4, <3>1, <3>2
  <2>8. ASSUME NEW k \in DOMAIN calendar', Start(t.year) <= calendar'[k].date, calendar'[k].date = calendar'[k].computed
        PROVE  \E f \in entries : f.key = k /\ f.date = calendar'[k].date
    <3>1. CASE \E f \in entries : f.key = k /\ calendar'[k] = AsComputed(f)
      BY <3>1 DEF AsComputed
    <3>2. CASE ~\E f \in entries : f.key = k /\ calendar'[k] = AsComputed(f)
      <4>1. k \in DOMAIN calendar /\ calendar'[k] = calendar[k] /\ k \in DOMAIN t.calendar
            /\ calendar[k].computed = t.calendar[k].computed
        BY <2>1, <2>4, <3>2 DEF IsCurrent, t
      <4>2. t.calendar[k] \in Events /\ t.calendar[k].computed <= t.calendar[k].date
        BY <2>5, <4>1 DEF IsCalendar
      <4>3. t.calendar[k].date \in Int /\ t.calendar[k].computed \in Int
        BY <4>2 DEF Events
      <4>4. Start(t.year) \in Int
        BY <2>5, CalendarAssumption, YearStarts
      <4>5. t.calendar[k].date >= Start(t.year)
        BY <2>8, <4>1, <4>2, <4>3, <4>4
      <4>6. PICK f \in entries : f.key = k /\ t.calendar[k].computed = f.date
        BY <2>4, <3>2, <4>1, <4>5
      <4> QED BY <2>8, <4>1, <4>6
    <3> QED BY <3>1, <3>2
  <2>9. IsAnnounced(calendar', lastSync')
    BY <2>4, <2>5, <2>8 DEF IsAnnounced, entries
  <2>10. Years0' /\ IsConfig(config')
    BY <1>1, <2>4, <2>5 DEF CalendarInv, Years0
  <2> QED BY <2>2, <2>3, <2>7, <2>9, <2>10 DEF CalendarInv
<1> QED BY <1>3, <1>4, CommitIs

\* Every step preserves the invariant.
LEMMA CalendarNextInv == CalendarInv /\ [CalendarNext]_calendarVars => CalendarInv'
<1> SUFFICES ASSUME CalendarInv, [CalendarNext]_calendarVars PROVE CalendarInv'
  OBVIOUS
<1>1. CASE UNCHANGED calendarVars
  BY <1>1 DEF calendarVars, CalendarInv, Years0, IsRead, IsCurrent
<1>2. ASSUME NEW c \in Updaters, BeginSync(c) \/ CommitSync(c) PROVE CalendarInv'
  BY <1>2, BeginInv, CommitInv
<1>3. CASE NewYear \/ ChangeSettings \/ ChangeRules \/ ChangeAnchors
  BY <1>3, OthersInv
<1>4. CASE EditEvent
  BY <1>4, EditInv
<1> QED BY <1>1, <1>2, <1>3, <1>4 DEF CalendarNext

\* Types, years that do not go back, and what the updates in progress and the last one expected.
THEOREM CalendarInvariance == CalendarSpec => []CalendarInv
BY CalendarInitInv, CalendarNextInv, PTL DEF CalendarSpec

\* An update that ends has read one of the invariant's readings.
LEMMA Ended ==
    ASSUME CalendarInv, [CalendarNext]_calendarVars, lastSync' # lastSync
    PROVE  \E c \in Updaters :
             /\ update[c] # NoUpdate /\ Committed(update[c])
             /\ IsRead(update[c], year) /\ IsCurrent(update[c], calendar, lastSync)
             /\ update[c].year \in FirstYear..LastYear
<1>1. PICK c \in Updaters : CommitSync(c)
  BY DEF CalendarNext, calendarVars, BeginSync, NewYear, ChangeSettings, ChangeRules, ChangeAnchors, EditEvent
<1>2. Committed(update[c]) /\ update[c] # NoUpdate
  BY <1>1, CommitIs DEF CommitSync
<1>3. IsRead(update[c], year) /\ IsCurrent(update[c], calendar, lastSync)
  BY <1>2 DEF CalendarInv, Committed
<1>4. update[c].year \in FirstYear..LastYear
  <2>1. update[c].year \in FirstYear..year
    BY <1>3 DEF IsRead
  <2>2. FirstYear \in Nat /\ LastYear \in Nat /\ year \in Nat /\ year <= LastYear
    BY YearsKnown
  <2> QED BY <2>1, <2>2
<1> QED BY <1>2, <1>3, <1>4

\* CalendarIsLawful: after every update the calendar holds each statutory date of the settings it
\* saw once, on the day it falls due, and no other from this year on, but for events that users
\* move or change meanwhile (_l10n_se_cc_sync).
THEOREM CalendarIsLawfulAlways == CalendarSpec => CalendarIsLawful
<1> DEFINE lawful(c, y) == IF c[1].active THEN Lawful[c[1].profile][y] ELSE {}
           Holds(c, y) ==
             /\ \A e \in lawful(c, y) : Untouched(e.key) =>
                  e.key \in DOMAIN calendar' /\ calendar'[e.key].computed = e.date /\ calendar'[e.key].active
             /\ \A k \in {j \in DOMAIN calendar' : j[1] \notin {"custom", "anchor"} /\ calendar'[j].date >= Start(y)} :
                  Untouched(k) => \E e \in lawful(c, y) : e.key = k
<1>1. ASSUME CalendarInv, [CalendarNext]_calendarVars, lastSync' # lastSync
      PROVE  Holds(lastSync'[1], lastSync'[2])
  <2>1. PICK u \in Updaters :
          /\ update[u] # NoUpdate /\ Committed(update[u])
          /\ IsRead(update[u], year) /\ IsCurrent(update[u], calendar, lastSync)
          /\ update[u].year \in FirstYear..LastYear
    BY <1>1, Ended
  <2> DEFINE t == update[u]
             c == t.config
             y == t.year
             p == c[1].profile
  <2>2. lastSync' = <<c, y>> /\ lastSync'[1] = c /\ lastSync'[2] = y
    BY <2>1 DEF Committed
  <2>3. IsConfig(c) /\ y \in FirstYear..LastYear /\ p \in Profiles /\ IsCalendar(t.calendar)
    BY <2>1 DEF IsRead, IsConfig
  <2>4. \A k : Untouched(k) =>
          /\ k \in DOMAIN calendar <=> k \in DOMAIN t.calendar
          /\ k \in DOMAIN calendar => calendar[k] = t.calendar[k]
    BY <2>1 DEF Untouched
  <2>5. ASSUME NEW e \in lawful(c, y), Untouched(e.key)
        PROVE  e.key \in DOMAIN calendar' /\ calendar'[e.key].computed = e.date /\ calendar'[e.key].active
    <3>1. c[1].active /\ e \in Lawful[p][y]
      OBVIOUS
    <3>2. PICK key, date : e = [key |-> key, date |-> date] /\ IsDue(p, y, key, date)
      BY <2>3, <3>1, LawfulIs
    <3> DEFINE f == [key |-> key, date |-> date, of |-> 0]
    <3>3. f.key = e.key /\ f.date = e.date
      BY <3>2
    <3>4. f \in Statutory[p][y]
      BY <2>3, <3>2, StatutoryIs
    <3> HIDE DEF f
    <3>5. f \in Listed(c, y)
      BY <2>3, <3>1, <3>4, EntriesAre DEF Listed
    <3>6. CASE f.key \in DOMAIN calendar' /\ calendar'[f.key] = AsComputed(f)
      BY <3>3, <3>6 DEF AsComputed
    <3>7. CASE /\ f.key \in DOMAIN t.calendar
               /\ t.calendar[f.key].computed = f.date /\ (t.calendar[f.key].active \in BOOLEAN => t.calendar[f.key].active)
               /\ f.key \in DOMAIN calendar => f.key \in DOMAIN calendar' /\ calendar'[f.key] = calendar[f.key]
      <4>1. t.calendar[f.key].active \in BOOLEAN
        BY <2>3, <3>7 DEF IsCalendar, Events
      <4> QED BY <2>4, <2>5, <3>3, <3>7, <4>1
    <3> QED BY <2>1, <3>5, <3>6, <3>7 DEF Committed
  <2>6. ASSUME NEW k \in DOMAIN calendar', k[1] \notin {"custom", "anchor"}, calendar'[k].date >= Start(y), Untouched(k)
        PROVE  \E e \in lawful(c, y) : e.key = k
    <3>1. PICK f \in Listed(c, y) : f.key = k
      <4>1. CASE \E f \in Listed(c, y) : f.key = k /\ calendar'[k] = AsComputed(f)
        BY <4>1
      <4>2. CASE /\ k \in DOMAIN calendar /\ calendar'[k] = calendar[k]
                 /\ k \in DOMAIN t.calendar =>
                      \/ ~(t.calendar[k].date >= Start(y))
                      \/ \E f \in Listed(c, y) : f.key = k /\ t.calendar[k].computed = f.date
        BY <2>4, <2>6, <4>2
      <4> QED BY <2>1, <4>1, <4>2 DEF Committed
    <3>2. c[1].active /\ f \in Entries(c, y)
      BY DEF Listed
    <3>3. f \in Statutory[p][y]
      BY <2>3, <2>6, <3>1, <3>2, EntriesAre, OwnEntries
    <3>4. PICK key, date : f = [key |-> key, date |-> date, of |-> 0] /\ IsDue(p, y, key, date)
      BY <2>3, <3>3, StatutoryIs
    <3>5. [key |-> key, date |-> date] \in Lawful[p][y] /\ [key |-> key, date |-> date].key = k
      BY <2>3, <3>1, <3>4, LawfulIs
    <3> QED BY <3>2, <3>5
  <2> HIDE DEF t, lawful
  <2> QED BY <2>2, <2>5, <2>6
<1>2. CalendarInv /\ [CalendarNext]_calendarVars =>
        [lastSync' # lastSync =>
          LET c == lastSync'[1]
              y == lastSync'[2]
              legal == IF c[1].active THEN Lawful[c[1].profile][y] ELSE {}
              shown == {k \in DOMAIN calendar' : k[1] \notin {"custom", "anchor"} /\ calendar'[k].date >= Start(y)}
          IN  /\ \A e \in legal : Untouched(e.key) =>
                  e.key \in DOMAIN calendar' /\ calendar'[e.key].computed = e.date /\ calendar'[e.key].active
              /\ \A k \in shown : Untouched(k) => \E e \in legal : e.key = k]_calendarVars
  BY <1>1
<1> QED BY <1>2, CalendarInvariance, PTL DEF CalendarSpec, CalendarIsLawful

\* AnnouncedStays: a date that has been announced stays as long as what it is computed from does,
\* until its year has passed; but for a rule of the user's own for the end of the year before
\* (_years, _l10n_se_cc_horizon).
THEOREM AnnouncedStaysAlways == CalendarSpec => AnnouncedStays
<1>1. ASSUME CalendarInv, [CalendarNext]_calendarVars,
             lastSync' # lastSync, lastSync # <<>>, lastSync'[1] = lastSync[1],
             NEW k \in DOMAIN calendar,
             ~(calendar[k].date < Start(lastSync'[2])), ~Moved(k), ~(k[1] = "custom" /\ k[3] < lastSync'[2])
      PROVE  k \in DOMAIN calendar' /\ calendar'[k].date = calendar[k].date
  <2>1. PICK u \in Updaters :
          /\ update[u] # NoUpdate /\ Committed(update[u])
          /\ IsRead(update[u], year) /\ IsCurrent(update[u], calendar, lastSync)
          /\ update[u].year \in FirstYear..LastYear
    BY <1>1, Ended
  <2> DEFINE t == update[u]
             c == t.config
             y == lastSync[2]
             z == t.year
  <2>2. lastSync' = <<c, z>> /\ lastSync'[1] = c /\ lastSync'[2] = z /\ lastSync[1] = c
    BY <1>1, <2>1 DEF Committed
  <2>3. IsConfig(c) /\ z \in FirstYear..LastYear /\ y \in FirstYear..LastYear /\ y <= z /\ FirstYear \in Nat
    <3>1. IsConfig(c) /\ z \in FirstYear..LastYear
      BY <2>1 DEF IsRead
    <3>2. y \in FirstYear..year /\ year \in FirstYear..LastYear
      BY <1>1 DEF CalendarInv, Years0
    <3>3. y <= z
      BY <1>1, <2>1 DEF IsCurrent
    <3>4. FirstYear \in Nat /\ LastYear \in Nat
      BY CalendarAssumption
    <3> HIDE DEF c, y, z
    <3> QED BY <3>1, <3>2, <3>3, <3>4
  <2>4. calendar[k].date \in Int /\ calendar[k].date = calendar[k].computed
    BY <1>1 DEF CalendarInv, IsCalendar, Events, Moved
  <2>5. Start(y) \in Int /\ Start(z) \in Int /\ Start(y) <= Start(z)
    <3>1. y \in Nat /\ z \in Nat /\ 0 < y /\ 0 < z
      BY <2>3, CalendarAssumption
    <3>2. y = z \/ y < z
      BY <2>3, <3>1
    <3>3. Start(y) \in Nat /\ Start(z) \in Nat
      BY <3>1, YearStarts
    <3> QED BY <3>1, <3>2, <3>3, StartsInOrder
  <2>6. Start(z) <= calendar[k].date /\ Start(y) <= calendar[k].date
    BY <1>1, <2>2, <2>4, <2>5
  <2>7. PICK f \in Listed(c, y) : f.key = k /\ f.date = calendar[k].date
    BY <1>1, <2>2, <2>4, <2>6 DEF CalendarInv, IsAnnounced
  <2>8. f \in Listed(c, z)
    <3>1. c[1].active /\ f \in Entries(c, y)
      BY DEF Listed
    <3>2. f \in Entries(c, z)
      BY <1>1, <2>2, <2>3, <2>6, <2>7, <3>1, EntriesStay
    <3> QED BY <3>1, <3>2 DEF Listed
  <2> HIDE DEF t
  <2>9. \/ k \in DOMAIN calendar' /\ calendar'[k] = AsComputed(f)
        \/ k \in DOMAIN calendar' /\ calendar'[k] = calendar[k]
    BY <2>1, <2>7, <2>8 DEF Committed, t
  <2> QED BY <2>7, <2>9 DEF AsComputed
<1>2. CalendarInv /\ [CalendarNext]_calendarVars =>
        [lastSync' # lastSync /\ lastSync # <<>> /\ lastSync'[1] = lastSync[1] =>
          \A k \in DOMAIN calendar :
            \/ calendar[k].date < Start(lastSync'[2]) \/ Moved(k)
            \/ k[1] = "custom" /\ k[3] < lastSync'[2]
            \/ k \in DOMAIN calendar' /\ calendar'[k].date = calendar[k].date]_calendarVars
  BY <1>1
<1> QED BY <1>2, CalendarInvariance, PTL DEF CalendarSpec, AnnouncedStays
=============================================================================
