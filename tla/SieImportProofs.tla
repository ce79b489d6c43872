-------------------------- MODULE SieImportProofs ---------------------------
(***************************************************************************)
(* Imports, their undo and the scheduled action, for any files, choices    *)
(* and users and any number of imports: proofs about module SieImport.     *)
(***************************************************************************)
EXTENDS SieImport, FiniteSetTheorems, WellFoundedInduction, TLAPS

-----------------------------------------------------------------------------
(* The inductive invariant *)

\* What entries, imports and databases are made of.
EntryOK(e) == /\ DOMAIN e = {"imp", "key", "amount", "live", "frozen"}
              /\ e.imp \in 0..MaxImports
              /\ e.key \in Key
RowOK(r) == /\ DOMAIN r = {"state", "years", "opening", "diffs", "attempts", "check"}
            /\ r.years \in SUBSET Years
DbOK(d) == /\ DOMAIN d = {"books", "imp", "lock"}
           /\ IsFiniteSet(d.books) /\ \A e \in d.books : EntryOK(e)
           /\ DOMAIN d.imp = Imports /\ \A i \in Imports : RowOK(d.imp[i])
           /\ d.lock \in Nat

Reads(p) == tx[p].kind \in {"import", "run", "undo"}

Typed ==
    /\ DbOK(Database)
    /\ made \in 0..MaxImports
    /\ trouble \in Nat
    /\ DOMAIN tx = Processes
    /\ \A p \in Processes : Reads(p) => DbOK(tx[p].seen)

\* An id is used once: what was never made is nowhere, a number says the same import to all.
OneImport(i) ==
    /\ i > made => imp[i].state = "none"
    /\ \A p \in Processes : Reads(p) /\ tx[p].seen.imp[i].state # "none" =>
        /\ i <= made
        /\ imp[i].state # "none" => tx[p].seen.imp[i].years = imp[i].years

\* Entries belong to imports there are, and an opening balance from a file to the first year.
EntriesOwned ==
    \A e \in books :
        /\ e.imp # 0 => imp[e.imp].state # "none"
        /\ e.key.kind = "IB" => e.imp # 0 /\ e.key.year = FirstYear(imp[e.imp])

Untouched(e) == e.live /\ ~e.frozen

\* An entry of the import that the transaction did not read was changed since: one that it did
\* read is gone.
UndoSees(t) ==
    /\ \A e \in Own(books, t.id) \ t.seen.books : ~Untouched(e)
    /\ Own(books, t.id) \subseteq t.seen.books
       \/ \E e \in Own(t.seen.books, t.id) \ books : Untouched(e)

\* What a transaction may count on until it ends.
Going(p) ==
    LET t == tx[p]
    IN  /\ t.kind \in {"none", "import", "run", "counted", "undo"}
        /\ t.kind # "none" => t.id \in 1..made
        /\ t.kind = "import" =>
            /\ imp[t.id].state = "none"
            /\ RowOK(t.import)
            /\ \A q \in Processes \ {p} :
                /\ tx[q].kind # "none" => tx[q].id # t.id
                /\ Reads(q) => tx[q].seen.imp[t.id].state = "none"
        /\ t.kind = "run" => t.seen.imp[t.id].state \in {"queued", "running"}
        /\ t.kind \in {"counted", "undo"} => imp[t.id].state \notin {"queued", "running"}
        /\ t.kind = "undo" =>
            /\ UndoSees(t)
            /\ t.seen.imp[t.id].state \notin {"queued", "running"}
            /\ p # "cron" => t.seen.imp[t.id].state # "none" /\ Blockers(t.seen, t.id) = {}

SieInv ==
    /\ Typed
    /\ \A i \in Imports : OneImport(i)
    /\ EntriesOwned
    /\ \A p \in Processes : Going(p)

-----------------------------------------------------------------------------
(* What a transaction leaves *)

\* The import a run is about, as it read it or chose it.
Import(t) == IF t.kind = "import" THEN t.import ELSE t.seen.imp[t.id]

Complete(entries, years) ==
    \A y \in years : \A n \in DOMAIN Vouchers[y] :
        \E e \in Live(entries) : e.key = [year |-> y, kind |-> "voucher", number |-> n]

\* A new entry of import i, in books that held the entries seen.
NewEntry(e, i, import, seen) ==
    /\ e.imp = i /\ e.key.kind # "none" /\ e.key.year \in import.years
    /\ e.key.kind = "IB" => e.key.year = FirstYear(import) /\ Live(seen) = {}
    /\ \A f \in Live(seen) : OpeningKind(f) /\ f.imp # i => ~(f.key.year > e.key.year)

\* A run has created entries, and checked the later imports when it was the last.
Imported(seen, i, import, new) ==
    /\ seen.books \subseteq new.books
    /\ \A e \in new.books \ seen.books : NewEntry(e, i, import, seen.books)
    /\ new.imp[i].state \in {"running", "done"}
    /\ new.imp[i].years = import.years
    /\ \A j \in Imports \ {i} :
        new.imp[j] = IF new.imp[i].state = "done" /\ j \in Later(seen, i, new.imp[i])
                     THEN Checked(new.books, seen.imp[j]) ELSE seen.imp[j]
    /\ new.imp[i].state = "done" => Complete(new.books, import.years)

\* Only the import's own row is other than it was.
OwnRow(seen, i, new) ==
    /\ new.imp[i].years = seen.imp[i].years
    /\ \A j \in Imports \ {i} : new.imp[j] = seen.imp[j]

GivenUp(seen, i, new) ==
    /\ new.books = seen.books
    /\ seen.imp[i].state # "none" /\ new.imp[i].state = "failed"
    /\ OwnRow(seen, i, new)

TakenBack(seen, i, new) ==
    /\ new.books = seen.books \ Own(seen.books, i)
    /\ Blockers(seen, i) = {}
    /\ seen.imp[i].state # "none" /\ new.imp[i].state = "undone"
    /\ OwnRow(seen, i, new)

Leaves(t, new) ==
    /\ DbOK(new)
    /\ \/ t.kind \in {"import", "run"} /\ Imported(t.seen, t.id, Import(t), new)
       \/ t.kind \in {"run", "undo"} /\ GivenUp(t.seen, t.id, new)
       \/ t.kind = "undo" /\ TakenBack(t.seen, t.id, new)
       \/ t.kind = "undo" /\ new = t.seen

-----------------------------------------------------------------------------
(* The items of a file *)

LEMMA Numbers ==
    /\ Years \in SUBSET Nat /\ IsFiniteSet(Years)
    /\ \A y \in Years : DOMAIN Vouchers[y] \in SUBSET Nat /\ IsFiniteSet(DOMAIN Vouchers[y])
    /\ MaxImports \in Nat /\ "cron" \notin Users
    /\ \A choice \in Selections : choice.years \in SUBSET Years
  <1>1. Vouchers \in Seq(Seq(Int))
    BY SieAssumption
  <1>2. Years = 1..Len(Vouchers) /\ Len(Vouchers) \in Nat
    BY <1>1 DEF Years
  <1>3. \A y \in Years : DOMAIN Vouchers[y] = 1..Len(Vouchers[y]) /\ Len(Vouchers[y]) \in Nat
    BY <1>1, <1>2
  <1>4. IsFiniteSet(Years)
    BY <1>2, FS_Interval
  <1>5. \A y \in Years : IsFiniteSet(DOMAIN Vouchers[y])
    BY <1>3, FS_Interval
  <1>6. \A choice \in Selections : choice.years \in SUBSET Years
    BY SieAssumption DEF Years
  <1>7. MaxImports \in Nat /\ "cron" \notin Users
    BY SieAssumption
  <1> QED
    BY <1>2, <1>3, <1>4, <1>5, <1>6, <1>7

\* A set of numbers has a least one.
LEMMA LeastExists ==
    ASSUME NEW S \in SUBSET Nat, S # {}
    PROVE  \E n \in S : \A m \in S : n <= m
  <1>1. PICK n \in S : \A m \in Nat : <<m, n>> \in OpToRel(<, Nat) => m \notin S
    BY WFMin, NatLessThanWellFounded
  <1>2. \A m \in S : ~(m < n)
    BY <1>1 DEF OpToRel
  <1> QED
    BY <1>2

LEMMA FirstOf ==
    ASSUME NEW import, import.years \in SUBSET Years, NEW y \in import.years
    PROVE  FirstYear(import) \in import.years /\ FirstYear(import) <= y
  <1>1. import.years \in SUBSET Nat /\ import.years # {}
    BY Numbers
  <1>2. \E n \in import.years : \A m \in import.years : n <= m
    BY <1>1, LeastExists
  <1> QED
    BY <1>2 DEF FirstYear, Min

\* The image of a finite set under a function is finite.
LEMMA ImageFinite ==
    ASSUME NEW f, IsFiniteSet(DOMAIN f)
    PROVE  IsFiniteSet({f[x] : x \in DOMAIN f})
  <1> DEFINE g == [x \in DOMAIN f |-> f[x]]
  <1>1. g \in Surjection(DOMAIN f, {f[x] : x \in DOMAIN f})
    BY DEF Surjection
  <1> QED
    BY <1>1, FS_Surjection

LEMMA ItemsOf ==
    ASSUME NEW entries, NEW import, RowOK(import)
    PROVE  /\ \A item \in Items(entries, import) :
                /\ item.key \in Key /\ item.key.kind # "none" /\ item.key.year \in import.years
                /\ item.key \notin Keys(entries)
                /\ item.key.kind = "IB" =>
                    import.opening /\ item.key = IB(FirstYear(import))
           /\ \A y \in import.years : \A n \in DOMAIN Vouchers[y] :
                LET key == [year |-> y, kind |-> "voucher", number |-> n]
                IN  key \in Keys(entries) \/ \E item \in Items(entries, import) : item.key = key
           /\ IsFiniteSet(Items(entries, import))
  <1> DEFINE of(y) == {OpeningItem(entries, import, y)} \cup VoucherItems(y)
             all == UNION {of(y) : y \in import.years}
  <1>1. import.years \in SUBSET Years
    BY DEF RowOK
  <1>2. \A y \in import.years : y \in Nat /\ DOMAIN Vouchers[y] \in SUBSET Nat /\ y \in Years
    BY <1>1, Numbers
  <1>3. ASSUME NEW y \in import.years
        PROVE  LET item == OpeningItem(entries, import, y)
               IN  /\ item.key.year = y /\ item.key.number = 0 /\ item.key.kind \in {"IB", "IBDIFF"}
                   /\ item.key \in Key
                   /\ item.key.kind = "IB" =>
                        import.opening /\ y = FirstYear(import) /\ item.key = IB(y)
    <2>1. CASE FromFile(import, y)
      <3>1. OpeningItem(entries, import, y).key = IB(y)
        BY <2>1 DEF OpeningItem, Item, IB
      <3>2. import.opening /\ y = FirstYear(import)
        BY <2>1 DEF FromFile
      <3> QED
        BY <1>2, <3>1, <3>2 DEF IB, Key
    <2>2. CASE ~FromFile(import, y)
      <3>1. OpeningItem(entries, import, y).key = [year |-> y, kind |-> "IBDIFF", number |-> 0]
        BY <2>2 DEF OpeningItem, Item
      <3> QED
        BY <1>2, <3>1 DEF Key
    <2> QED
      BY <2>1, <2>2
  <1>4. ASSUME NEW y \in import.years, NEW item \in VoucherItems(y)
        PROVE  item.key.year = y /\ item.key.kind = "voucher" /\ item.key \in Key
    BY <1>2 DEF VoucherItems, Item, Key
  <1>5. ASSUME NEW item \in Items(entries, import)
        PROVE  /\ item.key \in Key /\ item.key.kind # "none" /\ item.key.year \in import.years
               /\ item.key \notin Keys(entries)
               /\ item.key.kind = "IB" => import.opening /\ item.key = IB(FirstYear(import))
    <2>1. PICK y \in import.years : item \in of(y)
      BY DEF Items
    <2>2. item.key \notin Keys(entries)
      BY DEF Items, Wanted
    <2>3. CASE item = OpeningItem(entries, import, y)
      BY <1>3, <2>2, <2>3
    <2>4. CASE item \in VoucherItems(y)
      BY <1>4, <2>2, <2>4
    <2> QED
      BY <2>1, <2>3, <2>4
  <1>6. ASSUME NEW y \in import.years, NEW n \in DOMAIN Vouchers[y]
        PROVE  LET key == [year |-> y, kind |-> "voucher", number |-> n]
               IN  key \in Keys(entries) \/ \E item \in Items(entries, import) : item.key = key
    <2> DEFINE item == Item(y, "voucher", n, Vouchers[y][n], 0)
    <2>1. item \in all
      BY DEF VoucherItems
    <2>2. item.key = [year |-> y, kind |-> "voucher", number |-> n]
      BY DEF Item
    <2>3. item.key \notin Keys(entries) => item \in Items(entries, import)
      BY <2>1, <2>2 DEF Items, Wanted
    <2> QED
      BY <2>2, <2>3
  <1>7. IsFiniteSet(Items(entries, import))
    <2>1. ASSUME NEW y \in import.years PROVE IsFiniteSet(of(y))
      <3> DEFINE f == [n \in DOMAIN Vouchers[y] |-> Item(y, "voucher", n, Vouchers[y][n], 0)]
      <3>1. IsFiniteSet(DOMAIN f)
        BY <1>2, Numbers
      <3>2. VoucherItems(y) = {f[n] : n \in DOMAIN f}
        BY DEF VoucherItems
      <3>3. IsFiniteSet(VoucherItems(y))
        <4> HIDE DEF f
        <4> QED
          BY <3>1, <3>2, ImageFinite
      <3> QED
        BY <3>3, FS_Singleton, FS_Union
    <2> DEFINE g == [y \in import.years |-> of(y)]
    <2>2. IsFiniteSet(import.years)
      BY <1>1, Numbers, FS_Subset
    <2>3. IsFiniteSet({g[y] : y \in DOMAIN g})
      BY <2>2, ImageFinite
    <2>4. {g[y] : y \in DOMAIN g} = {of(y) : y \in import.years}
      OBVIOUS
    <2>5. IsFiniteSet(all)
      BY <2>1, <2>3, <2>4, FS_UNION
    <2>6. Items(entries, import) \subseteq all
      BY DEF Items
    <2> QED
      BY <2>5, <2>6, FS_Subset
  <1> QED
    BY <1>5, <1>6, <1>7

-----------------------------------------------------------------------------
(* What each transaction leaves *)

LEMMA CheckedKeeps ==
    ASSUME NEW entries, NEW r, RowOK(r)
    PROVE  /\ RowOK(Checked(entries, r))
           /\ Checked(entries, r).state = r.state
           /\ Checked(entries, r).years = r.years
  BY DEF Checked, RowOK

LEMMA CheckedRow ==
    ASSUME NEW entries, NEW r, RowOK(r)
    PROVE  /\ RowOK(Checked(entries, r))
           /\ Checked(entries, r).state = r.state /\ Checked(entries, r).years = r.years
           /\ Checked(entries, r).check =
                [y \in Years |-> IF y \notin r.years THEN "none"
                                 ELSE IF BalanceAt(entries, y) = FileClosing[y] THEN "ok" ELSE "deviates"]
  BY DEF Checked, RowOK

LEMMA StateRow ==
    ASSUME NEW entries, NEW r, RowOK(r), NEW state
    PROVE  LET left == [Checked(entries, r) EXCEPT !.state = state]
           IN  RowOK(left) /\ left.state = state /\ left.years = r.years
  <1> DEFINE checked == Checked(entries, r)
  <1>1. RowOK(checked) /\ checked.years = r.years
    BY CheckedKeeps
  <1> HIDE DEF checked
  <1>2. LET left == [checked EXCEPT !.state = state]
        IN  RowOK(left) /\ left.state = state /\ left.years = r.years
    BY <1>1 DEF RowOK
  <1> QED
    BY <1>2 DEF checked

LEMMA RunLeaves ==
    ASSUME NEW seen, DbOK(seen), NEW i \in Imports, NEW import, RowOK(import),
           NEW batch \in SUBSET Items(seen.books, import),
           RunOf(seen, i, import, batch).ok
    PROVE  LET new == RunOf(seen, i, import, batch).db
           IN  DbOK(new) /\ Imported(seen, i, import, new)
  <1> DEFINE entry(item) == [imp |-> i, key |-> item.key, amount |-> item.amount, live |-> TRUE, frozen |-> FALSE]
             f       == [item \in batch |-> entry(item)]
             fresh   == {f[item] : item \in DOMAIN f}
             new     == RunOf(seen, i, import, batch).db
             running == [import EXCEPT !.state = "running"]
  <1>1. new.books = seen.books \cup fresh /\ new.lock = seen.lock /\ DOMAIN new = {"books", "imp", "lock"}
        /\ new.imp = IF batch = Items(seen.books, import) THEN Finished(seen, i, running, new.books)
                     ELSE [seen.imp EXCEPT ![i] = running]
    BY DEF RunOf, Created, DbOK
  <1>2. ~Blocked(seen, i, import)
    BY DEF RunOf
  <1>3. RowOK(running) /\ running.state = "running" /\ running.years = import.years
    BY DEF RowOK
  <1>4. IsFiniteSet(new.books)
    <2>1. IsFiniteSet(batch)
      BY ItemsOf, FS_Subset
    <2>2. IsFiniteSet(fresh)
      BY <2>1, ImageFinite
    <2>3. IsFiniteSet(seen.books) /\ new.books = seen.books \cup fresh
      BY <1>1 DEF DbOK
    <2> HIDE DEF fresh, new
    <2> QED
      BY <2>2, <2>3, FS_Union
  <1>5. ASSUME NEW e \in fresh PROVE EntryOK(e) /\ NewEntry(e, i, import, seen.books)
    <2>1. PICK item \in batch : e = entry(item)
      OBVIOUS
    <2>2. /\ item.key \in Key /\ item.key.kind # "none" /\ item.key.year \in import.years
          /\ item.key \notin Keys(seen.books)
          /\ item.key.kind = "IB" => import.opening /\ item.key = IB(FirstYear(import))
      BY ItemsOf
    <2>3. EntryOK(e)
      BY <2>1, <2>2, Numbers DEF EntryOK, Imports
    <2>4. ASSUME e.key.kind = "IB" PROVE e.key.year = FirstYear(import) /\ Live(seen.books) = {}
      <3>1. import.opening /\ IB(FirstYear(import)) \notin Keys(seen.books) /\ e.key.year = FirstYear(import)
        BY <2>1, <2>2, <2>4 DEF IB
      <3>2. BooksTaken(seen.books, FirstYear(import)) = {}
        BY <1>2, <3>1 DEF Blocked
      <3> QED
        BY <3>1, <3>2 DEF BooksTaken
    <2>5. ASSUME NEW o \in Live(seen.books), OpeningKind(o), o.imp # i PROVE ~(o.key.year > e.key.year)
      <3>1. ~LaterOpening(seen, i, e.key.year)
        BY <1>2, <2>1, <2>2 DEF Blocked
      <3> QED
        BY <2>5, <3>1 DEF LaterOpening
    <2> QED
      BY <2>1, <2>2, <2>3, <2>4, <2>5 DEF NewEntry
  <1>6. \A j \in Imports : RowOK(seen.imp[j])
    BY DEF DbOK
  <1>7. CASE batch # Items(seen.books, import)
    <2>1. new.imp = [seen.imp EXCEPT ![i] = running]
      BY <1>1, <1>7
    <2>2. DOMAIN new.imp = Imports /\ new.imp[i] = running /\ \A j \in Imports \ {i} : new.imp[j] = seen.imp[j]
      BY <2>1 DEF DbOK
    <2>3. DbOK(new)
      BY <1>1, <1>3, <1>4, <1>5, <1>6, <2>2 DEF DbOK
    <2> QED
      BY <1>1, <1>3, <1>5, <2>2, <2>3 DEF Imported
  <1>8. CASE batch = Items(seen.books, import)
    <2> DEFINE entries == new.books
               done    == [Checked(entries, running) EXCEPT !.state = "done"]
    <2>1. new.imp = Finished(seen, i, running, new.books)
      BY <1>1, <1>8
    <2>2. RowOK(done) /\ done.state = "done" /\ done.years = import.years
      <3> HIDE DEF entries, running
      <3> QED
        BY <1>3, StateRow
    <2>3. Later(seen, i, done) = Later(seen, i, running)
      BY <1>3, <2>2 DEF Later, FirstYear
    <2>4. /\ DOMAIN new.imp = Imports /\ new.imp[i] = done
          /\ \A j \in Imports \ {i} :
                new.imp[j] = IF j \in Later(seen, i, done) THEN Checked(new.books, seen.imp[j]) ELSE seen.imp[j]
      BY <2>1, <2>3 DEF Finished
    <2>5. ASSUME NEW j \in Imports PROVE RowOK(new.imp[j])
      <3>1. CASE j = i
        BY <2>2, <2>4, <3>1
      <3>2. CASE j # i
        <4>1. RowOK(seen.imp[j])
          BY <1>6
        <4>2. RowOK(Checked(new.books, seen.imp[j]))
          BY <4>1, CheckedKeeps
        <4>3. new.imp[j] = Checked(new.books, seen.imp[j]) \/ new.imp[j] = seen.imp[j]
          BY <2>4, <3>2
        <4> QED
          BY <4>1, <4>2, <4>3
      <3> QED
        BY <3>1, <3>2
    <2>6. DbOK(new)
      BY <1>1, <1>4, <1>5, <2>4, <2>5 DEF DbOK
    <2>7. Complete(new.books, import.years)
      <3> SUFFICES ASSUME NEW y \in import.years, NEW n \in DOMAIN Vouchers[y]
                   PROVE  \E e \in Live(new.books) : e.key = [year |-> y, kind |-> "voucher", number |-> n]
        BY DEF Complete
      <3> DEFINE key == [year |-> y, kind |-> "voucher", number |-> n]
      <3>1. key \in Keys(seen.books) \/ \E item \in Items(seen.books, import) : item.key = key
        BY ItemsOf
      <3>2. CASE key \in Keys(seen.books)
        BY <1>1, <3>2 DEF Keys, Live
      <3>3. ASSUME NEW item \in batch, item.key = key PROVE \E e \in Live(new.books) : e.key = key
        <4>1. entry(item) \in new.books
          BY <1>1
        <4> QED
          BY <3>3, <4>1 DEF Live
      <3> QED
        BY <1>8, <3>1, <3>2, <3>3
    <2> QED
      BY <1>1, <1>5, <2>2, <2>4, <2>6, <2>7 DEF Imported
  <1> QED
    BY <1>7, <1>8

\* Giving up, and taking the entries back.
LEMMA UndoLeaves ==
    ASSUME NEW seen, DbOK(seen), NEW i \in Imports, seen.imp[i].state # "none"
    PROVE  /\ LET new == [seen EXCEPT !.imp[i].state = "failed"]
              IN  DbOK(new) /\ GivenUp(seen, i, new)
           /\ Blockers(seen, i) = {} => DbOK(Undone(seen, i)) /\ TakenBack(seen, i, Undone(seen, i))
  <1>1. \A j \in Imports : RowOK(seen.imp[j])
    BY DEF DbOK
  <1>2. LET new == [seen EXCEPT !.imp[i].state = "failed"]
        IN  DbOK(new) /\ GivenUp(seen, i, new)
    BY <1>1 DEF DbOK, RowOK, GivenUp, OwnRow
  <1>3. ASSUME Blockers(seen, i) = {} PROVE DbOK(Undone(seen, i)) /\ TakenBack(seen, i, Undone(seen, i))
    <2> DEFINE new == Undone(seen, i)
    <2>1. /\ DOMAIN new = {"books", "imp", "lock"}
          /\ new.books = seen.books \ Own(seen.books, i) /\ new.lock = seen.lock
          /\ new.imp[i] = [seen.imp[i] EXCEPT !.state = "undone", !.check = [y \in Years |-> "none"]]
          /\ DOMAIN new.imp = Imports
          /\ \A j \in Imports \ {i} : new.imp[j] = seen.imp[j]
      BY DEF Undone, DbOK
    <2>2. RowOK(new.imp[i]) /\ new.imp[i].state = "undone" /\ new.imp[i].years = seen.imp[i].years
      BY <1>1, <2>1 DEF RowOK
    <2>3. IsFiniteSet(new.books)
      BY <2>1, FS_Subset DEF DbOK
    <2> QED
      BY <1>1, <1>3, <2>1, <2>2, <2>3 DEF DbOK, TakenBack, OwnRow
  <1> QED
    BY <1>2, <1>3

-----------------------------------------------------------------------------
(* How a transaction ends *)

LEMMA DatabaseParts ==
    ASSUME NEW b, NEW m, NEW l
    PROVE  DbOK([books |-> b, imp |-> m, lock |-> l]) <=>
            /\ IsFiniteSet(b) /\ \A e \in b : EntryOK(e)
            /\ DOMAIN m = Imports /\ \A i \in Imports : RowOK(m[i])
            /\ l \in Nat
  BY DEF DbOK

\* Nothing of the transaction remains.
Dropped(p) ==
    /\ tx' = [tx EXCEPT ![p] = None]
    /\ UNCHANGED <<books, imp, lock, made, skewed>>

Ended(p) ==
    /\ Reads(p)
    /\ UNCHANGED <<lock, made, trouble, meddled>>
    /\ \/ Dropped(p)
       \/ \E new : CommitDb(p, new) /\ Leaves(tx[p], new)

\* A transaction is dropped, or leaves what its kind may leave.
LEMMA EndsAs ==
    ASSUME SieInv
    PROVE  /\ \A u \in Users : EndImport(u) \/ EndUndo(u) => Ended(u)
           /\ CronEnd \/ CronUndoEnd => Ended("cron")
  <1>1. ASSUME NEW p \in Processes, NEW new,
               UNCHANGED <<lock, made, trouble, meddled>>, EndWith(p, new), Reads(p), Leaves(tx[p], new)
        PROVE  Ended(p)
    <2>1. CASE CommitDb(p, new)
      BY <1>1, <2>1 DEF Ended
    <2>2. CASE Refused(p, new)
      BY <1>1, <2>2 DEF Ended, Dropped, Refused
    <2> QED
      BY <1>1, <2>1, <2>2 DEF EndWith
  <1>2. ASSUME NEW p \in Processes, Reads(p)
        PROVE  DbOK(tx[p].seen) /\ tx[p].id \in Imports
    <2>1. tx[p].id \in 1..made /\ made \in 0..MaxImports
      BY <1>2 DEF SieInv, Going, Typed, Reads
    <2> QED
      BY <1>2, <2>1, Numbers DEF SieInv, Typed, Imports
  <1>3. ASSUME NEW u \in Users, EndImport(u) PROVE Ended(u)
    <2> DEFINE t   == tx[u]
               run == RunOf(t.seen, t.id, t.import, Items(t.seen.books, t.import))
    <2>1. u \in Processes /\ t.kind = "import" /\ Reads(u) /\ RowOK(t.import)
      BY <1>3 DEF EndImport, Processes, Reads, SieInv, Going
    <2>2. CASE run.ok
      <3>1. DbOK(run.db) /\ Imported(t.seen, t.id, t.import, run.db)
        BY <1>2, <2>1, <2>2, RunLeaves
      <3>2. Leaves(t, run.db)
        BY <2>1, <3>1 DEF Leaves, Import
      <3>3. EndWith(u, run.db) /\ UNCHANGED <<lock, made, trouble, meddled>>
        BY <1>3, <2>2 DEF EndImport
      <3> QED
        BY <1>1, <2>1, <3>2, <3>3
    <2>3. CASE ~run.ok
      BY <1>3, <2>1, <2>3 DEF EndImport, Ended, Dropped
    <2> QED
      BY <2>2, <2>3
  <1>4. ASSUME NEW u \in Users, EndUndo(u) PROVE Ended(u)
    <2> DEFINE t == tx[u]
    <2>1. u \in Processes /\ u # "cron" /\ t.kind = "undo" /\ Reads(u)
      BY <1>4, Numbers DEF EndUndo, Processes, Reads
    <2>2. t.seen.imp[t.id].state # "none" /\ Blockers(t.seen, t.id) = {}
      BY <2>1 DEF SieInv, Going
    <2>3. DbOK(Undone(t.seen, t.id)) /\ TakenBack(t.seen, t.id, Undone(t.seen, t.id))
      BY <1>2, <2>1, <2>2, UndoLeaves
    <2>4. Leaves(t, Undone(t.seen, t.id))
      BY <2>1, <2>3 DEF Leaves
    <2> QED
      BY <1>1, <1>4, <2>1, <2>4 DEF EndUndo
  <1>5. ASSUME CronEnd PROVE Ended("cron")
    <2> DEFINE t      == tx["cron"]
               import == t.seen.imp[t.id]
               items  == Items(t.seen.books, import)
               failed == [t.seen EXCEPT !.imp[t.id].state = "failed"]
    <2>1. "cron" \in Processes /\ t.kind = "run" /\ Reads("cron") /\ import.state # "none"
      BY <1>5 DEF CronEnd, Processes, Reads, SieInv, Going
    <2>2. DbOK(t.seen) /\ t.id \in Imports /\ RowOK(import)
      BY <1>2, <2>1 DEF DbOK
    <2>3. PICK batch \in SUBSET items :
            LET run == RunOf(t.seen, t.id, import, batch)
            IN  EndWith("cron", IF run.ok THEN run.db ELSE failed)
      BY <1>5 DEF CronEnd
    <2> DEFINE run == RunOf(t.seen, t.id, import, batch)
    <2>4. CASE run.ok
      <3>1. DbOK(run.db) /\ Imported(t.seen, t.id, import, run.db)
        BY <2>2, <2>4, RunLeaves
      <3>2. Leaves(t, run.db)
        BY <2>1, <3>1 DEF Leaves, Import
      <3>3. EndWith("cron", run.db)
        BY <2>3, <2>4
      <3> QED
        BY <1>1, <1>5, <2>1, <3>2, <3>3 DEF CronEnd
    <2>5. CASE ~run.ok
      <3>1. DbOK(failed) /\ GivenUp(t.seen, t.id, failed)
        BY <2>1, <2>2, UndoLeaves
      <3>2. Leaves(t, failed)
        BY <2>1, <3>1 DEF Leaves
      <3>3. EndWith("cron", failed)
        BY <2>3, <2>5
      <3> QED
        BY <1>1, <1>5, <2>1, <3>2, <3>3 DEF CronEnd
    <2> QED
      BY <2>4, <2>5
  <1>6. ASSUME CronUndoEnd PROVE Ended("cron")
    <2> DEFINE t      == tx["cron"]
               failed == [t.seen EXCEPT !.imp[t.id].state = "failed"]
    <2>1. "cron" \in Processes /\ t.kind = "undo" /\ Reads("cron")
      BY <1>6 DEF CronUndoEnd, Processes, Reads
    <2>2. DbOK(t.seen) /\ t.id \in Imports
      BY <1>2, <2>1
    <2>3. PICK new : EndWith("cron", new) /\
            \/ t.seen.imp[t.id].state = "none" /\ new = t.seen
            \/ t.seen.imp[t.id].state # "none" /\ new = failed
            \/ t.seen.imp[t.id].state # "none" /\ Blockers(t.seen, t.id) = {} /\ new = Undone(t.seen, t.id)
      BY <1>6 DEF CronUndoEnd
    <2>4. Leaves(t, new)
      <3>1. CASE new = t.seen
        BY <2>1, <2>2, <3>1 DEF Leaves
      <3>2. CASE t.seen.imp[t.id].state # "none" /\ new = failed
        BY <2>1, <2>2, <3>2, UndoLeaves DEF Leaves
      <3>3. CASE t.seen.imp[t.id].state # "none" /\ Blockers(t.seen, t.id) = {} /\ new = Undone(t.seen, t.id)
        BY <2>1, <2>2, <3>3, UndoLeaves DEF Leaves
      <3> QED
        BY <2>3, <3>1, <3>2, <3>3
    <2> QED
      BY <1>1, <1>6, <2>1, <2>3, <2>4 DEF CronUndoEnd
  <1> QED
    BY <1>3, <1>4, <1>5, <1>6

\* What a transaction counts on stays when its own state does.
LEMMA StillGoing ==
    ASSUME NEW p \in Processes, Going(p), tx'[p] = tx[p],
           tx[p].kind # "none" => tx[p].id \in 1..made',
           tx[p].kind = "import" =>
            /\ imp'[tx[p].id].state = "none"
            /\ \A q \in Processes \ {p} :
                /\ tx'[q].kind # "none" => tx'[q].id # tx[p].id
                /\ Reads(q)' => tx'[q].seen.imp[tx[p].id].state = "none",
           tx[p].kind \in {"counted", "undo"} => imp'[tx[p].id].state \notin {"queued", "running"},
           tx[p].kind = "undo" => UndoSees(tx[p])'
    PROVE  Going(p)'
  BY DEF Going

\* Dropping a transaction disturbs no other.
LEMMA DropKeeps ==
    ASSUME SieInv, NEW p \in Processes, tx' = [tx EXCEPT ![p] = None],
           UNCHANGED <<books, imp, lock, made>>, trouble' \in Nat
    PROVE  SieInv'
  <1>1. tx'[p] = None /\ None.kind = "none" /\ DOMAIN tx' = Processes
        /\ \A q \in Processes \ {p} : tx'[q] = tx[q]
    BY DEF SieInv, Typed, None
  <1>2. ~Reads(p)' /\ \A q \in Processes : Reads(q)' => Reads(q) /\ tx'[q] = tx[q] /\ q # p
    BY <1>1 DEF Reads
  <1>3. Typed'
    <2>1. DbOK(Database)'
      BY DEF SieInv, Typed, Database
    <2> QED
      BY <1>1, <1>2, <2>1 DEF SieInv, Typed
  <1>4. \A i \in Imports : OneImport(i)'
    BY <1>2 DEF SieInv, OneImport
  <1>5. EntriesOwned'
    BY DEF SieInv, EntriesOwned
  <1>6. ASSUME NEW q \in Processes PROVE Going(q)'
    <2>1. CASE q = p
      BY <1>1, <2>1 DEF Going
    <2>2. CASE q # p
      <3>1. Going(q) /\ tx'[q] = tx[q]
        BY <1>1, <2>2 DEF SieInv
      <3>2. ASSUME NEW r \in Processes \ {q}, tx[q].kind = "import"
            PROVE  /\ tx'[r].kind # "none" => tx'[r].id # tx[q].id
                   /\ Reads(r)' => tx'[r].seen.imp[tx[q].id].state = "none"
        BY <1>1, <1>2, <3>1, <3>2 DEF Going
      <3>3. tx[q].kind = "undo" => UndoSees(tx[q])'
        BY <3>1 DEF Going, UndoSees, Own, Untouched
      <3> QED
        BY <3>1, <3>2, <3>3, StillGoing DEF Going
    <2> QED
      BY <2>1, <2>2
  <1> QED
    BY <1>3, <1>4, <1>5, <1>6 DEF SieInv

\* What a commit does to the database that it finds, which may not be the one it read.
LEMMA CommitDoes ==
    ASSUME SieInv, NEW p \in Processes, Reads(p), NEW new, CommitDb(p, new), Leaves(tx[p], new)
    PROVE  LET t == tx[p]
               i == t.id
           IN  /\ i \in 1..made /\ i \in Imports
               /\ imp[i] = t.seen.imp[i] /\ imp'[i] = new.imp[i]
               /\ DOMAIN imp' = Imports /\ \A j \in Imports : RowOK(imp'[j])
               /\ \A j \in Imports \ {i} : imp'[j].state = imp[j].state /\ imp'[j].years = imp[j].years
               /\ books' = Merged(t.seen, new)
               /\ t.seen.books \ new.books # {} => t.seen.books \ new.books \subseteq books
               /\ tx' = [tx EXCEPT ![p] = None]
  <1> DEFINE t    == tx[p]
             i    == t.id
             seen == t.seen
  <1>1. i \in 1..made /\ i \in Imports /\ DbOK(seen) /\ DbOK(new) /\ DOMAIN imp = Imports
        /\ \A j \in Imports : RowOK(imp[j])
    <2>1. i \in 1..made /\ made \in 0..MaxImports
      BY DEF SieInv, Going, Typed, Reads
    <2>2. i \in Imports
      BY <2>1, Numbers DEF Imports
    <2>3. DbOK(Database) /\ DbOK(seen)
      BY DEF SieInv, Typed
    <2> QED
      BY <2>1, <2>2, <2>3, DatabaseParts DEF Leaves, Database
  <1>2. /\ ~RowsTaken(t, seen, new) /\ books' = Merged(seen, new) /\ tx' = [tx EXCEPT ![p] = None]
        /\ imp' = [j \in Imports |-> IF new.imp[j] # seen.imp[j] THEN new.imp[j] ELSE imp[j]]
    BY DEF CommitDb
  <1>3. imp[i] = seen.imp[i] /\ imp'[i] = new.imp[i]
    BY <1>1, <1>2, SMTT(30) DEF RowsTaken, Written
  <1>4. \A j \in Imports : RowOK(imp'[j])
    BY <1>1, <1>2 DEF DbOK
  <1>5. ASSUME NEW j \in Imports \ {i}
        PROVE  imp'[j].state = imp[j].state /\ imp'[j].years = imp[j].years
    <2>1. CASE new.imp[j] = seen.imp[j]
      BY <1>2, <2>1
    <2>2. CASE new.imp[j] # seen.imp[j]
      <3>1. Imported(seen, i, Import(t), new)
        BY <2>2 DEF Leaves, GivenUp, TakenBack, OwnRow
      <3>2. new.imp[i].state = "done" /\ j \in Later(seen, i, new.imp[i])
            /\ new.imp[j] = Checked(new.books, seen.imp[j])
        BY <2>2, <3>1 DEF Imported
      <3>3. imp[j] = seen.imp[j]
        BY <1>2, <3>2 DEF RowsTaken, Written
      <3>4. RowOK(imp[j])
        BY <1>1
      <3>5. imp'[j] = Checked(new.books, imp[j])
        BY <1>2, <2>2, <3>2, <3>3
      <3>6. /\ Checked(new.books, imp[j]).state = imp[j].state
            /\ Checked(new.books, imp[j]).years = imp[j].years
        BY <3>4, CheckedKeeps
      <3> QED
        BY <3>5, <3>6
    <2> QED
      BY <2>1, <2>2
  <1> QED
    BY <1>1, <1>2, <1>3, <1>4, <1>5 DEF RowsTaken

\* The state the import was in, and the one it is left in.
LEMMA CommitStates ==
    ASSUME SieInv, NEW p \in Processes, Reads(p), NEW new, CommitDb(p, new), Leaves(tx[p], new)
    PROVE  LET t == tx[p]
               i == t.id
           IN  /\ t.kind = "import" => imp[i].state = "none"
               /\ t.kind = "run" => imp[i].state \in {"queued", "running"}
               /\ imp'[i].state # imp[i].state => imp'[i].state \in {"running", "done", "failed", "undone"}
               /\ imp[i].state # "none" => imp'[i].state # "none" /\ imp'[i].years = imp[i].years
               /\ t.kind = "undo" => imp'[i].state \notin {"queued", "running"}
  <1> DEFINE t    == tx[p]
             i    == t.id
             seen == t.seen
  <1>1. imp[i] = seen.imp[i] /\ imp'[i] = new.imp[i]
    BY CommitDoes
  <1>2. /\ t.kind = "import" => imp[i].state = "none"
        /\ t.kind = "run" => imp[i].state \in {"queued", "running"}
        /\ t.kind = "undo" => imp[i].state \notin {"queued", "running"}
    BY <1>1 DEF SieInv, Going
  <1>3. CASE t.kind \in {"import", "run"} /\ Imported(seen, i, Import(t), new)
    BY <1>1, <1>2, <1>3 DEF Imported, Import
  <1>4. CASE t.kind \in {"run", "undo"} /\ GivenUp(seen, i, new)
    BY <1>1, <1>2, <1>4 DEF GivenUp, OwnRow
  <1>5. CASE t.kind = "undo" /\ TakenBack(seen, i, new)
    BY <1>1, <1>2, <1>5 DEF TakenBack, OwnRow
  <1>6. CASE t.kind = "undo" /\ new = seen
    BY <1>1, <1>2, <1>6
  <1> QED
    BY <1>3, <1>4, <1>5, <1>6 DEF Leaves

\* The entries that are there afterwards, and those of other imports.
LEMMA CommitBooks ==
    ASSUME SieInv, NEW p \in Processes, Reads(p), NEW new, CommitDb(p, new), Leaves(tx[p], new)
    PROVE  LET t == tx[p]
           IN  /\ IsFiniteSet(books') /\ \A e \in books' : EntryOK(e)
               /\ \A e \in books' \ books : NewEntry(e, t.id, Import(t), t.seen.books)
                                            /\ e \in new.books
                                            /\ t.kind \in {"import", "run"} /\ Imported(t.seen, t.id, Import(t), new)
               /\ \A e \in books \ books' : t.kind = "undo" /\ TakenBack(t.seen, t.id, new)
                                            /\ e \in Own(t.seen.books, t.id)
               /\ t.kind = "undo" => books' \subseteq books
  <1> DEFINE t    == tx[p]
             i    == t.id
             seen == t.seen
  <1>1. books' = (books \ (seen.books \ new.books)) \cup (new.books \ seen.books)
    BY CommitDoes DEF Merged
  <1>2. DbOK(new) /\ DbOK(Database)
    BY DEF SieInv, Typed, Leaves
  <1>3. IsFiniteSet(books) /\ IsFiniteSet(new.books)
        /\ \A e \in books : EntryOK(e)
    BY <1>2, DatabaseParts DEF Database, DbOK
  <1>4. IsFiniteSet(books')
    <2>1. books' \subseteq books \cup new.books
      BY <1>1
    <2> DEFINE all == books \cup new.books
    <2>2. IsFiniteSet(all)
      BY <1>3, FS_Union
    <2> HIDE DEF all
    <2> QED
      BY <2>1, <2>2, FS_Subset DEF all
  <1>5. \A e \in books' : EntryOK(e)
    BY <1>1, <1>2, <1>3 DEF DbOK
  <1>6. ASSUME NEW e \in new.books \ seen.books
        PROVE  t.kind \in {"import", "run"} /\ Imported(seen, i, Import(t), new)
               /\ NewEntry(e, i, Import(t), seen.books)
    BY DEF Leaves, Imported, GivenUp, TakenBack
  <1>7. ASSUME NEW e \in seen.books \ new.books
        PROVE  t.kind = "undo" /\ TakenBack(seen, i, new) /\ e \in Own(seen.books, i)
    BY DEF Leaves, Imported, GivenUp, TakenBack
  <1> QED
    BY <1>1, <1>4, <1>5, <1>6, <1>7

LEMMA CommitKeeps ==
    ASSUME SieInv, NEW p \in Processes, Reads(p), NEW new, CommitDb(p, new), Leaves(tx[p], new),
           UNCHANGED <<lock, made, trouble>>
    PROVE  SieInv'
  <1> DEFINE t    == tx[p]
             i    == t.id
             seen == t.seen
  <1>1. /\ i \in 1..made /\ i \in Imports /\ DOMAIN imp' = Imports
        /\ \A j \in Imports : RowOK(imp'[j])
        /\ \A j \in Imports \ {i} : imp'[j].state = imp[j].state /\ imp'[j].years = imp[j].years
        /\ tx' = [tx EXCEPT ![p] = None]
    BY CommitDoes
  <1>2. /\ t.kind = "import" => imp[i].state = "none"
        /\ t.kind = "run" => imp[i].state \in {"queued", "running"}
        /\ imp'[i].state # imp[i].state => imp'[i].state \in {"running", "done", "failed", "undone"}
        /\ imp[i].state # "none" => imp'[i].state # "none" /\ imp'[i].years = imp[i].years
        /\ t.kind = "undo" => imp'[i].state \notin {"queued", "running"}
    BY CommitStates
  <1>3. tx'[p] = None /\ None.kind = "none" /\ DOMAIN tx' = Processes
        /\ \A q \in Processes \ {p} : tx'[q] = tx[q]
    BY <1>1 DEF SieInv, Typed, None
  <1>4. ~Reads(p)' /\ \A q \in Processes : Reads(q)' => Reads(q) /\ tx'[q] = tx[q] /\ q # p
    BY <1>3 DEF Reads
  <1>5. Typed'
    <2>1. IsFiniteSet(books') /\ \A e \in books' : EntryOK(e)
      BY CommitBooks
    <2>2. lock' \in Nat /\ made' \in 0..MaxImports /\ trouble' \in Nat
      BY DEF SieInv, Typed, DbOK, Database
    <2>3. DbOK(Database')
      BY <1>1, <2>1, <2>2, DatabaseParts DEF Database
    <2>4. \A q \in Processes : Reads(q)' => DbOK(tx'[q].seen)
      BY <1>4 DEF SieInv, Typed
    <2> QED
      BY <1>3, <2>2, <2>3, <2>4 DEF Typed
  <1>6. ASSUME NEW j \in Imports PROVE OneImport(j)'
    <2>1. OneImport(j)
      BY DEF SieInv
    <2>2. CASE j # i
      BY <1>1, <1>4, <2>1, <2>2 DEF OneImport
    <2>3. CASE j = i
      <3>1. ~(j > made)
        BY <1>1, <2>3 DEF SieInv, Typed
      <3>2. ASSUME NEW q \in Processes, Reads(q)', tx'[q].seen.imp[i].state # "none"
            PROVE  imp[i].state = "none" => t.kind # "import"
        <4>1. tx'[q] = tx[q] /\ Reads(q) /\ q \in Processes \ {p}
          BY <1>4, <3>2
        <4>2. Going(p)
          BY DEF SieInv
        <4> QED
          BY <3>2, <4>1, <4>2 DEF Going
      <3>3. ASSUME imp[i].state = "none", t.kind # "import"
            PROVE  imp'[i].state = "none"
        <4>1. t.kind = "undo"
          BY <1>2, <3>3 DEF Reads
        <4>2. imp[i] = seen.imp[i] /\ imp'[i] = new.imp[i]
          BY CommitDoes
        <4> QED
          BY <3>3, <4>1, <4>2 DEF Leaves, GivenUp, TakenBack
      <3> QED
        BY <1>2, <1>4, <2>1, <2>3, <3>1, <3>2, <3>3 DEF OneImport
    <2> QED
      BY <2>2, <2>3
  <1>7. EntriesOwned'
    <2> SUFFICES ASSUME NEW e \in books'
                 PROVE  /\ e.imp # 0 => imp'[e.imp].state # "none"
                        /\ e.key.kind = "IB" => e.imp # 0 /\ e.key.year = FirstYear(imp'[e.imp])
      BY DEF EntriesOwned, FirstYear
    <2>1. EntryOK(e)
      BY CommitBooks
    <2>2. e.imp # 0 => e.imp \in Imports
      BY <2>1, Numbers DEF EntryOK, Imports
    <2>3. CASE e \in books
      <3>1. /\ e.imp # 0 => imp[e.imp].state # "none"
            /\ e.key.kind = "IB" => e.imp # 0 /\ e.key.year = FirstYear(imp[e.imp])
        BY <2>3 DEF SieInv, EntriesOwned
      <3>2. e.imp # 0 => imp'[e.imp].state # "none" /\ imp'[e.imp].years = imp[e.imp].years
        BY <1>1, <1>2, <2>2, <3>1
      <3> QED
        BY <3>1, <3>2 DEF FirstYear
    <2>4. CASE e \notin books
      <3>1. NewEntry(e, i, Import(t), seen.books) /\ Imported(seen, i, Import(t), new)
        BY <2>4, CommitBooks
      <3>2. imp'[i] = new.imp[i]
        BY CommitDoes
      <3>3. e.imp = i /\ imp'[i].state \in {"running", "done"} /\ imp'[i].years = Import(t).years
        BY <3>1, <3>2 DEF NewEntry, Imported
      <3>4. i # 0
        BY <1>1 DEF SieInv, Typed
      <3>5. e.key.kind = "IB" => e.key.year = FirstYear(Import(t))
        BY <3>1 DEF NewEntry
      <3> QED
        BY <3>3, <3>4, <3>5 DEF FirstYear
    <2> QED
      BY <2>3, <2>4
  <1>8. ASSUME NEW q \in Processes PROVE Going(q)'
    <2>1. CASE q = p
      BY <1>3, <2>1 DEF Going
    <2>2. CASE q # p
      <3>1. Going(q) /\ tx'[q] = tx[q] /\ Going(p)
        BY <1>3, <2>2 DEF SieInv
      <3>2. t.kind \in {"import", "run", "undo"}
        BY DEF Reads
      <3>3. tx[q].kind # "none" => tx[q].id \in Imports
        <4>1. tx[q].kind # "none" => tx[q].id \in 1..made
          BY <3>1 DEF Going
        <4>2. made \in 0..MaxImports /\ MaxImports \in Nat
          BY SieAssumption DEF SieInv, Typed
        <4> QED
          BY <4>1, <4>2 DEF Imports
      <3>4. ASSUME tx[q].kind = "import"
            PROVE  /\ imp'[tx[q].id].state = "none"
                   /\ \A r \in Processes \ {q} :
                        /\ tx'[r].kind # "none" => tx'[r].id # tx[q].id
                        /\ Reads(r)' => tx'[r].seen.imp[tx[q].id].state = "none"
        <4>1. tx[q].id # i /\ imp[tx[q].id].state = "none"
          BY <2>2, <3>1, <3>2, <3>4 DEF Going
        <4>2. imp'[tx[q].id].state = "none"
          BY <1>1, <3>3, <3>4, <4>1
        <4>3. ASSUME NEW r \in Processes \ {q}
              PROVE  /\ tx'[r].kind # "none" => tx'[r].id # tx[q].id
                     /\ Reads(r)' => tx'[r].seen.imp[tx[q].id].state = "none"
          <5>1. /\ tx[r].kind # "none" => tx[r].id # tx[q].id
                /\ Reads(r) => tx[r].seen.imp[tx[q].id].state = "none"
            BY <3>1, <3>4 DEF Going
          <5>2. CASE r = p
            BY <1>3, <1>4, <5>2
          <5>3. CASE r # p
            BY <1>3, <1>4, <5>1, <5>3
          <5> QED
            BY <5>2, <5>3
        <4> QED
          BY <4>2, <4>3
      <3>5. ASSUME tx[q].kind \in {"counted", "undo"}
            PROVE  /\ imp'[tx[q].id].state \notin {"queued", "running"}
                   /\ tx[q].id = i => t.kind = "undo"
        <4>1. imp[tx[q].id].state \notin {"queued", "running"}
          BY <3>1, <3>5 DEF Going
        <4>2. CASE tx[q].id # i
          BY <1>1, <3>3, <3>5, <4>1, <4>2
        <4>3. CASE tx[q].id = i
          <5>1. t.kind # "run"
            BY <1>2, <4>1, <4>3
          <5>2. t.kind # "import"
            BY <2>2, <3>1, <3>5, <4>3 DEF Going
          <5> QED
            BY <1>2, <3>2, <4>3, <5>1, <5>2
        <4> QED
          BY <4>2, <4>3
      <3>6. ASSUME tx[q].kind = "undo"
            PROVE  UndoSees(tx[q])'
        <4> DEFINE s == tx[q]
        <4>1. UndoSees(s)
          BY <3>1, <3>6 DEF Going
        <4>2. Own(books', s.id) \subseteq Own(books, s.id)
          <5>1. ASSUME NEW e \in books' \ books, e.imp = s.id PROVE FALSE
            <6>1. e.imp = i /\ t.kind \in {"import", "run"}
              BY CommitBooks DEF NewEntry
            <6> QED
              BY <3>5, <3>6, <5>1, <6>1
          <5> QED
            BY <5>1 DEF Own
        <4>3. ASSUME NEW e \in Own(s.seen.books, s.id) \ books PROVE e \notin books'
          <5>1. e.imp = s.id
            BY DEF Own
          <5> QED
            BY <4>2, <5>1 DEF Own
        <4>4. /\ \A e \in Own(books', s.id) \ s.seen.books : ~Untouched(e)
              /\ Own(books', s.id) \subseteq s.seen.books
                 \/ \E e \in Own(s.seen.books, s.id) \ books' : Untouched(e)
          BY <4>1, <4>2, <4>3 DEF UndoSees
        <4> QED
          BY <3>1, <4>4 DEF UndoSees, Own
      <3>7. tx[q].kind # "none" => tx[q].id \in 1..made'
        BY <3>1 DEF Going
      <3> QED
        BY <3>1, <3>4, <3>5, <3>6, <3>7, StillGoing
    <2> QED
      BY <2>1, <2>2
  <1> QED
    BY <1>5, <1>6, <1>7, <1>8 DEF SieInv

-----------------------------------------------------------------------------
(* The other steps *)

\* A process starts to read the database as it is, about an import of before.
Starts(p, t) ==
    /\ t.kind \in {"run", "undo"} /\ t.seen = Database /\ t.id \in 1..made
    /\ tx' = [tx EXCEPT ![p] = t]
    /\ UNCHANGED <<books, imp, lock, made, trouble>>
    /\ \A q \in Processes \ {p} : tx[q].kind = "import" => tx[q].id # t.id
    /\ t.kind = "run" => imp[t.id].state \in {"queued", "running"}
    /\ t.kind = "undo" => imp[t.id].state \notin {"queued", "running"}
    /\ t.kind = "undo" /\ p # "cron" => imp[t.id].state # "none" /\ Blockers(Database, t.id) = {}

LEMMA StartKeeps ==
    ASSUME SieInv, NEW p \in Processes, NEW t, Starts(p, t)
    PROVE  SieInv'
  <1> USE DEF Starts
  <1>1. tx'[p] = t /\ DOMAIN tx' = Processes /\ \A q \in Processes \ {p} : tx'[q] = tx[q]
    BY DEF SieInv, Typed
  <1>2. Database' = Database /\ Database.books = books /\ Database.imp = imp
    BY DEF Database
  <1>3. \A q \in Processes : Reads(q)' => q = p \/ (Reads(q) /\ tx'[q] = tx[q])
    BY <1>1 DEF Reads
  <1>4. Typed'
    <2>1. DbOK(Database)' /\ DbOK(t.seen)
      BY <1>2 DEF SieInv, Typed
    <2>2. made' \in 0..MaxImports /\ trouble' \in Nat
      BY DEF SieInv, Typed
    <2>3. \A q \in Processes : Reads(q)' => DbOK(tx'[q].seen)
      BY <1>1, <1>3, <2>1 DEF SieInv, Typed
    <2> QED
      BY <1>1, <2>1, <2>2, <2>3 DEF Typed
  <1>5. ASSUME NEW j \in Imports PROVE OneImport(j)'
    <2>1. OneImport(j) /\ made \in 0..MaxImports
      BY DEF SieInv, Typed
    <2>2. imp[j].state # "none" => j <= made
      BY <2>1, Numbers DEF OneImport, Imports
    <2> QED
      BY <1>1, <1>2, <1>3, <2>1, <2>2 DEF OneImport
  <1>6. EntriesOwned'
    BY DEF SieInv, EntriesOwned
  <1>7. ASSUME NEW q \in Processes PROVE Going(q)'
    <2>1. CASE q = p
      <3>1. UndoSees(t)'
        BY <1>2 DEF UndoSees, Own
      <3>2. UndoSees(tx[p])'
        BY <1>1, <3>1 DEF UndoSees, Own
      <3> QED
        BY <1>1, <1>2, <2>1, <3>2 DEF Going
    <2>2. CASE q # p
      <3>1. Going(q) /\ tx'[q] = tx[q]
        BY <1>1, <2>2 DEF SieInv
      <3>2. ASSUME NEW r \in Processes \ {q}, tx[q].kind = "import"
            PROVE  /\ tx'[r].kind # "none" => tx'[r].id # tx[q].id
                   /\ Reads(r)' => tx'[r].seen.imp[tx[q].id].state = "none"
        <4>1. CASE r = p
          BY <1>1, <1>2, <2>2, <3>1, <3>2, <4>1 DEF Going
        <4>2. CASE r # p
          BY <1>1, <1>3, <3>1, <3>2, <4>2 DEF Going
        <4> QED
          BY <4>1, <4>2
      <3>3. tx[q].kind = "undo" => UndoSees(tx[q])'
        BY <3>1 DEF Going, UndoSees, Own
      <3> QED
        BY <3>1, <3>2, <3>3, StillGoing DEF Going
    <2> QED
      BY <2>1, <2>2
  <1> QED
    BY <1>4, <1>5, <1>6, <1>7 DEF SieInv

\* The database is read by an import that has no row yet.
LEMMA NewImportKeeps ==
    ASSUME SieInv, NEW p \in Processes, NEW t, t.kind = "import", t.seen = Database, RowOK(t.import),
           tx' = [tx EXCEPT ![p] = t], UNCHANGED <<books, imp, lock, trouble>>,
           t.id = made + 1, made' = made + 1, made < MaxImports
    PROVE  SieInv'
  <1>1. tx'[p] = t /\ DOMAIN tx' = Processes /\ \A q \in Processes \ {p} : tx'[q] = tx[q]
    BY DEF SieInv, Typed
  <1>2. Database' = Database /\ Database.books = books /\ Database.imp = imp
    BY DEF Database
  <1>3. \A q \in Processes : Reads(q)' => q = p \/ (Reads(q) /\ tx'[q] = tx[q])
    BY <1>1 DEF Reads
  <1>4. made \in Nat /\ made' \in 0..MaxImports /\ t.id \in Imports
    BY Numbers DEF SieInv, Typed, Imports
  <1>5. Typed'
    <2>1. DbOK(Database)' /\ DbOK(t.seen) /\ trouble' \in Nat
      BY <1>2 DEF SieInv, Typed
    <2>2. \A q \in Processes : Reads(q)' => DbOK(tx'[q].seen)
      BY <1>1, <1>3, <2>1 DEF SieInv, Typed
    <2> QED
      BY <1>1, <1>4, <2>1, <2>2 DEF Typed
  <1>6. ASSUME NEW j \in Imports PROVE OneImport(j)'
    <2>1. OneImport(j) /\ j \in Nat
      BY Numbers DEF SieInv, Imports
    <2>2. imp[j].state # "none" => j <= made
      BY <1>4, <2>1 DEF OneImport
    <2>3. j <= made => j <= made'
      BY <1>4, <2>1
    <2>4. j > made' => j > made
      BY <1>4, <2>1
    <2> QED
      BY <1>1, <1>2, <1>3, <2>1, <2>2, <2>3, <2>4 DEF OneImport
  <1>7. EntriesOwned'
    BY DEF SieInv, EntriesOwned
  <1>8. imp[t.id].state = "none"
        /\ \A q \in Processes : /\ tx[q].kind # "none" => tx[q].id # t.id
                                /\ Reads(q) => tx[q].seen.imp[t.id].state = "none"
    <2>1. OneImport(t.id) /\ t.id > made /\ ~(t.id <= made)
      BY <1>4 DEF SieInv
    <2>2. \A q \in Processes : tx[q].kind # "none" => tx[q].id \in 1..made
      BY DEF SieInv, Going
    <2> QED
      BY <1>4, <2>1, <2>2 DEF OneImport
  <1>9. ASSUME NEW q \in Processes PROVE Going(q)'
    <2>1. CASE q = p
      <3>1. t.id \in 1..made'
        BY <1>4
      <3>2. \A r \in Processes \ {p} : /\ tx'[r].kind # "none" => tx'[r].id # t.id
                                       /\ Reads(r)' => tx'[r].seen.imp[t.id].state = "none"
        BY <1>1, <1>3, <1>8
      <3>3. imp'[t.id].state = "none"
        BY <1>8
      <3> QED
        BY <1>1, <2>1, <3>1, <3>2, <3>3 DEF Going
    <2>2. CASE q # p
      <3>1. Going(q) /\ tx'[q] = tx[q]
        BY <1>1, <2>2 DEF SieInv
      <3>2. ASSUME NEW r \in Processes \ {q}, tx[q].kind = "import"
            PROVE  /\ tx'[r].kind # "none" => tx'[r].id # tx[q].id
                   /\ Reads(r)' => tx'[r].seen.imp[tx[q].id].state = "none"
        <4>1. CASE r = p
          BY <1>1, <1>2, <1>8, <3>1, <3>2, <4>1 DEF Going
        <4>2. CASE r # p
          BY <1>1, <1>3, <3>1, <3>2, <4>2 DEF Going
        <4> QED
          BY <4>1, <4>2
      <3>3. tx[q].kind = "undo" => UndoSees(tx[q])'
        BY <3>1 DEF Going, UndoSees, Own
      <3>4. tx[q].kind # "none" => tx[q].id \in 1..made'
        BY <1>4, <3>1, SMTT(30) DEF Going
      <3> QED
        BY <3>1, <3>2, <3>3, <3>4, StillGoing DEF Going
    <2> QED
      BY <2>1, <2>2
  <1> QED
    BY <1>5, <1>6, <1>7, <1>9 DEF SieInv

LEMMA FreshId ==
    ASSUME SieInv, made < MaxImports
    PROVE  /\ made + 1 \in Imports /\ made \in Nat /\ made + 1 \in 0..MaxImports
           /\ imp[made + 1].state = "none"
           /\ \A q \in Processes : /\ tx[q].kind # "none" => tx[q].id \in 1..made /\ tx[q].id # made + 1
                                   /\ Reads(q) => tx[q].seen.imp[made + 1].state = "none"
  <1>1. made \in Nat /\ made + 1 \in 0..MaxImports /\ made + 1 \in Imports
    BY Numbers DEF SieInv, Typed, Imports
  <1>2. OneImport(made + 1) /\ made + 1 > made /\ ~(made + 1 <= made)
    BY <1>1 DEF SieInv
  <1>3. \A q \in Processes : tx[q].kind # "none" => tx[q].id \in 1..made
    BY DEF SieInv, Going
  <1> QED
    BY <1>1, <1>2, <1>3 DEF OneImport

\* A row is written that was not there.
LEMMA NewRowKeeps ==
    ASSUME SieInv, NEW r, RowOK(r), made < MaxImports,
           imp' = [imp EXCEPT ![made + 1] = r], made' = made + 1,
           UNCHANGED <<books, lock, tx, trouble>>
    PROVE  SieInv'
  <1>1. /\ made + 1 \in Imports /\ made \in Nat /\ made' \in 0..MaxImports
        /\ imp[made + 1].state = "none"
        /\ \A q \in Processes : /\ tx[q].kind # "none" => tx[q].id \in 1..made /\ tx[q].id # made + 1
                                /\ Reads(q) => tx[q].seen.imp[made + 1].state = "none"
    BY FreshId
  <1>2. DbOK(Database) /\ DOMAIN imp = Imports /\ \A j \in Imports : RowOK(imp[j])
    BY DatabaseParts DEF SieInv, Typed, Database
  <1>3. /\ DOMAIN imp' = Imports /\ imp'[made + 1] = r
        /\ \A j \in Imports \ {made + 1} : imp'[j] = imp[j]
    BY <1>1, <1>2
  <1>4. \A q \in Processes : Reads(q)' <=> Reads(q)
    BY DEF Reads
  <1>5. Typed'
    <2>1. \A j \in Imports : RowOK(imp'[j])
      BY <1>2, <1>3
    <2>2. DbOK(Database')
      BY <1>2, <1>3, <2>1, DatabaseParts DEF Database
    <2> QED
      BY <1>1, <1>4, <2>2 DEF SieInv, Typed
  <1>6. ASSUME NEW j \in Imports PROVE OneImport(j)'
    <2>1. OneImport(j) /\ j \in Nat
      BY Numbers DEF SieInv, Imports
    <2>2. j > made' => j > made /\ j # made + 1
      BY <1>1, <2>1
    <2>3. j <= made => j <= made'
      BY <1>1, <2>1
    <2>4. CASE j = made + 1
      BY <1>1, <1>4, <2>2, <2>4 DEF OneImport
    <2>5. CASE j # made + 1
      BY <1>3, <1>4, <2>1, <2>2, <2>3, <2>5 DEF OneImport
    <2> QED
      BY <2>4, <2>5
  <1>7. EntriesOwned'
    <2>1. ASSUME NEW e \in books, e.imp # 0 PROVE imp'[e.imp] = imp[e.imp]
      <3>1. imp[e.imp].state # "none" /\ EntryOK(e)
        BY <1>2, <2>1, DatabaseParts DEF SieInv, EntriesOwned, Database
      <3>2. e.imp \in Imports
        BY <2>1, <3>1, Numbers DEF EntryOK, Imports
      <3> QED
        BY <1>1, <1>3, <3>1, <3>2
    <2> QED
      BY <2>1 DEF SieInv, EntriesOwned
  <1>8. ASSUME NEW q \in Processes PROVE Going(q)'
    <2>1. Going(q)
      BY DEF SieInv
    <2>2. tx[q].kind # "none" => tx[q].id \in Imports /\ tx[q].id \in 1..made' /\ imp'[tx[q].id] = imp[tx[q].id]
      BY <1>1, <1>3, Numbers DEF Imports
    <2>3. tx[q].kind = "undo" => UndoSees(tx[q])'
      BY <2>1 DEF Going, UndoSees, Own
    <2> QED
      BY <1>4, <2>1, <2>2, <2>3, StillGoing DEF Going
  <1> QED
    BY <1>5, <1>6, <1>7, <1>8 DEF SieInv

\* An import's own row is written by its user, or by the job that counts an undo.
LEMMA RowKeeps ==
    ASSUME SieInv, NEW i \in Imports, imp[i].state # "none", NEW r, RowOK(r),
           r.state \notin {"queued", "running"},
           \/ r.state # "none" /\ r.years = imp[i].years
           \/ r.state = "none" /\ Own(books, i) = {},
           imp' = [imp EXCEPT ![i] = r],
           tx' = tx \/ tx' = [tx EXCEPT !["cron"] = [kind |-> "counted", id |-> i]],
           UNCHANGED <<books, lock, made>>, trouble' \in Nat
    PROVE  SieInv'
  <1>1. DbOK(Database) /\ DOMAIN imp = Imports /\ (\A j \in Imports : RowOK(imp[j])) /\ made \in 0..MaxImports
    BY DatabaseParts DEF SieInv, Typed, Database
  <1>2. /\ DOMAIN imp' = Imports /\ imp'[i] = r
        /\ \A j \in Imports \ {i} : imp'[j] = imp[j]
    BY <1>1
  <1>3. i \in 1..made
    <2>1. OneImport(i)
      BY DEF SieInv
    <2> QED
      BY <1>1, <2>1, Numbers DEF OneImport, Imports
  <1>4. /\ DOMAIN tx' = Processes
        /\ \A q \in Processes : tx'[q] = tx[q] \/ (q = "cron" /\ tx'[q] = [kind |-> "counted", id |-> i])
    BY DEF SieInv, Typed
  <1>5. \A q \in Processes : Reads(q)' => Reads(q) /\ tx'[q] = tx[q]
    BY <1>4 DEF Reads
  <1>6. Typed'
    <2>1. \A j \in Imports : RowOK(imp'[j])
      BY <1>1, <1>2
    <2>2. DbOK(Database')
      BY <1>1, <1>2, <2>1, DatabaseParts DEF Database
    <2> QED
      BY <1>1, <1>4, <1>5, <2>2 DEF SieInv, Typed
  <1>7. ASSUME NEW j \in Imports PROVE OneImport(j)'
    <2>1. OneImport(j)
      BY DEF SieInv
    <2>2. CASE j = i
      <3>1. ~(i > made)
        BY <1>1, <1>3
      <3> QED
        BY <1>2, <1>5, <2>1, <2>2, <3>1 DEF OneImport
    <2>3. CASE j # i
      BY <1>2, <1>5, <2>1, <2>3 DEF OneImport
    <2> QED
      BY <2>2, <2>3
  <1>8. EntriesOwned'
    <2>1. ASSUME NEW e \in books, e.imp # 0
          PROVE  imp'[e.imp].state # "none" /\ imp'[e.imp].years = imp[e.imp].years
      <3>1. imp[e.imp].state # "none" /\ EntryOK(e)
        BY <1>1, <2>1, DatabaseParts DEF SieInv, EntriesOwned, Database
      <3>2. e.imp \in Imports
        BY <2>1, <3>1, Numbers DEF EntryOK, Imports
      <3>3. e.imp = i => r.state # "none"
        BY DEF Own
      <3> QED
        BY <1>2, <3>1, <3>2, <3>3
    <2> QED
      BY <2>1 DEF SieInv, EntriesOwned, FirstYear
  <1>9. ASSUME NEW q \in Processes PROVE Going(q)'
    <2>1. CASE tx'[q] # tx[q]
      BY <1>2, <1>3, <1>4, <2>1 DEF Going
    <2>2. CASE tx'[q] = tx[q]
      <3>1. Going(q)
        BY DEF SieInv
      <3>2. tx[q].kind # "none" => tx[q].id \in Imports /\ tx[q].id \in 1..made'
        <4>1. tx[q].kind # "none" => tx[q].id \in 1..made
          BY <3>1 DEF Going
        <4> QED
          BY <1>1, <4>1, Numbers DEF Imports
      <3>3. ASSUME tx[q].kind = "import"
            PROVE  /\ imp'[tx[q].id].state = "none"
                   /\ \A s \in Processes \ {q} :
                        /\ tx'[s].kind # "none" => tx'[s].id # tx[q].id
                        /\ Reads(s)' => tx'[s].seen.imp[tx[q].id].state = "none"
        <4>1. tx[q].id # i /\ imp[tx[q].id].state = "none"
          BY <3>1, <3>3 DEF Going
        <4>2. imp'[tx[q].id].state = "none"
          BY <1>2, <3>2, <3>3, <4>1
        <4>3. ASSUME NEW s \in Processes \ {q}
              PROVE  /\ tx'[s].kind # "none" => tx'[s].id # tx[q].id
                     /\ Reads(s)' => tx'[s].seen.imp[tx[q].id].state = "none"
          <5>1. /\ tx[s].kind # "none" => tx[s].id # tx[q].id
                /\ Reads(s) => tx[s].seen.imp[tx[q].id].state = "none"
            BY <3>1, <3>3 DEF Going
          <5> QED
            BY <1>4, <1>5, <4>1, <5>1
        <4> QED
          BY <4>2, <4>3
      <3>4. ASSUME tx[q].kind \in {"counted", "undo"}
            PROVE  imp'[tx[q].id].state \notin {"queued", "running"}
        BY <1>2, <3>1, <3>2, <3>4 DEF Going
      <3>5. tx[q].kind = "undo" => UndoSees(tx[q])'
        BY <2>2, <3>1 DEF Going, UndoSees, Own
      <3> QED
        BY <2>2, <3>1, <3>2, <3>3, <3>4, <3>5, StillGoing
    <2> QED
      BY <2>1, <2>2
  <1> QED
    BY <1>6, <1>7, <1>8, <1>9 DEF SieInv

\* What others do to an entry nobody has touched.
LEMMA TouchKeeps ==
    ASSUME SieInv, NEW e \in books, Untouched(e), NEW f, EntryOK(f), ~Untouched(f),
           f.imp = e.imp, f.key = e.key,
           books' = (books \ {e}) \cup {f},
           UNCHANGED <<imp, lock, made, tx>>, trouble' \in Nat
    PROVE  SieInv'
  <1>1. DbOK(Database) /\ IsFiniteSet(books) /\ DOMAIN imp = Imports /\ \A g \in books : EntryOK(g)
    BY DatabaseParts DEF SieInv, Typed, Database
  <1>2. f # e
    OBVIOUS
  <1>3. Typed'
    <2>1. IsFiniteSet(books')
      <3> DEFINE rest == books \ {e}
                 one  == {f}
      <3>1. IsFiniteSet(rest) /\ IsFiniteSet(one)
        BY <1>1, FS_Subset, FS_Singleton
      <3>2. books' = rest \cup one
        OBVIOUS
      <3> HIDE DEF rest, one
      <3>3. IsFiniteSet(rest \cup one)
        BY <3>1, FS_Union
      <3> QED
        BY <3>2, <3>3
    <2>2. \A g \in books' : EntryOK(g)
      BY <1>1
    <2>3. DbOK(Database')
      BY <1>1, <2>1, <2>2, DatabaseParts DEF Database
    <2> QED
      BY <2>3 DEF SieInv, Typed, Reads
  <1>4. \A i \in Imports : OneImport(i)'
    BY DEF SieInv, OneImport, Reads
  <1>5. EntriesOwned'
    BY DEF SieInv, EntriesOwned
  <1>6. ASSUME NEW q \in Processes PROVE Going(q)'
    <2>1. Going(q)
      BY DEF SieInv
    <2>2. ASSUME tx[q].kind = "undo" PROVE UndoSees(tx[q])'
      <3> DEFINE t == tx[q]
      <3>1. UndoSees(t)
        BY <2>1, <2>2 DEF Going
      <3>2. \A g \in Own(books', t.id) \ t.seen.books : ~Untouched(g)
        BY <3>1 DEF UndoSees, Own
      <3>3. CASE e.imp # t.id
        <4>1. Own(books', t.id) = Own(books, t.id)
          BY <3>3 DEF Own
        <4>2. \A g \in Own(t.seen.books, t.id) \ books : g \notin books'
          BY <3>3 DEF Own
        <4> QED
          BY <3>1, <3>2, <4>1, <4>2 DEF UndoSees
      <3>4. CASE e.imp = t.id
        <4>1. e \in t.seen.books
          BY <3>1, <3>4 DEF UndoSees, Own
        <4>2. e \in Own(t.seen.books, t.id) \ books'
          BY <1>2, <3>4, <4>1 DEF Own
        <4> QED
          BY <3>2, <4>2 DEF UndoSees
      <3> QED
        BY <3>3, <3>4
    <2>3. \A r \in Processes : Reads(r)' <=> Reads(r)
      BY DEF Reads
    <2> QED
      BY <2>1, <2>2, <2>3, StillGoing DEF Going
  <1> QED
    BY <1>3, <1>4, <1>5, <1>6 DEF SieInv

\* An entry of the company's own is no import's.
LEMMA BookKeeps ==
    ASSUME SieInv, NEW y \in Years, BookEntry(y)
    PROVE  SieInv'
  <1> DEFINE f == [imp |-> 0, key |-> [year |-> y, kind |-> "none", number |-> trouble],
                   amount |-> 1, live |-> TRUE, frozen |-> FALSE]
  <1>1. /\ books' = books \cup {f} /\ UNCHANGED <<imp, lock, made, tx>>
        /\ trouble \in Nat /\ trouble' = trouble + 1
    BY DEF BookEntry, Trouble, SieInv, Typed
  <1>2. DbOK(Database) /\ IsFiniteSet(books) /\ DOMAIN imp = Imports /\ \A g \in books : EntryOK(g)
    BY DatabaseParts DEF SieInv, Typed, Database
  <1>3. EntryOK(f) /\ f.imp = 0 /\ f.key.kind = "none"
    BY <1>1, Numbers DEF EntryOK, Key
  <1> HIDE DEF f
  <1>4. Typed'
    <2>1. IsFiniteSet(books')
      BY <1>1, <1>2, FS_Singleton, FS_Union
    <2>2. \A g \in books' : EntryOK(g)
      BY <1>1, <1>2, <1>3
    <2>3. DbOK(Database')
      BY <1>1, <1>2, <2>1, <2>2, DatabaseParts DEF Database
    <2>4. trouble' \in Nat
      BY <1>1
    <2> QED
      BY <1>1, <2>3, <2>4 DEF SieInv, Typed, Reads
  <1>5. \A i \in Imports : OneImport(i)'
    BY <1>1 DEF SieInv, OneImport, Reads
  <1>6. EntriesOwned'
    BY <1>1, <1>3 DEF SieInv, EntriesOwned
  <1>7. ASSUME NEW q \in Processes PROVE Going(q)'
    <2>1. Going(q) /\ made \in 0..MaxImports
      BY DEF SieInv, Typed
    <2>2. ASSUME tx[q].kind = "undo" PROVE UndoSees(tx[q])'
      <3>1. tx[q].id # 0
        BY <2>1, <2>2 DEF Going
      <3> QED
        BY <1>1, <1>3, <2>1, <2>2, <3>1 DEF Going, UndoSees, Own
    <2>3. \A r \in Processes : Reads(r)' <=> Reads(r)
      BY <1>1 DEF Reads
    <2> QED
      BY <1>1, <2>1, <2>2, <2>3, StillGoing DEF Going
  <1> QED
    BY <1>4, <1>5, <1>6, <1>7 DEF SieInv

LEMMA LockKeeps ==
    ASSUME SieInv, NEW l \in Nat, lock' = l, UNCHANGED <<books, imp, made, tx>>, trouble' \in Nat
    PROVE  SieInv'
  <1>1. \A q \in Processes : Reads(q)' <=> Reads(q)
    BY DEF Reads
  <1>2. Typed'
    <2>1. DbOK(Database')
      BY DatabaseParts DEF SieInv, Typed, Database
    <2> QED
      BY <1>1, <2>1 DEF SieInv, Typed
  <1>3. \A i \in Imports : OneImport(i)'
    BY <1>1 DEF SieInv, OneImport
  <1>4. EntriesOwned'
    BY DEF SieInv, EntriesOwned
  <1>5. ASSUME NEW q \in Processes PROVE Going(q)'
    <2>1. Going(q)
      BY DEF SieInv
    <2>2. tx[q].kind = "undo" => UndoSees(tx[q])'
      BY <2>1 DEF Going, UndoSees, Own
    <2> QED
      BY <1>1, <2>1, <2>2, StillGoing DEF Going
  <1> QED
    BY <1>2, <1>3, <1>4, <1>5 DEF SieInv

-----------------------------------------------------------------------------
(* Every step keeps the invariant *)

LEMMA OldestBusy ==
    ASSUME SieInv, BusyImports # {}
    PROVE  Oldest \in 1..made /\ Oldest \in Imports /\ imp[Oldest].state \in Busy
  <1>1. BusyImports \in SUBSET Nat
    BY Numbers DEF BusyImports, Imports
  <1>2. \E n \in BusyImports : \A m \in BusyImports : n <= m
    BY <1>1, LeastExists
  <1>3. Oldest \in BusyImports
    BY <1>2 DEF Oldest, Min
  <1>4. Oldest \in Imports /\ imp[Oldest].state \in Busy /\ imp[Oldest].state # "none"
    BY <1>3 DEF BusyImports, Busy
  <1>5. OneImport(Oldest) /\ made \in 0..MaxImports
    BY <1>4 DEF SieInv, Typed
  <1> QED
    BY <1>4, <1>5, Numbers DEF OneImport, Imports

LEMMA NoImportRow ==
    /\ RowOK(NoImport) /\ NoImport.state = "none" /\ NoImport.years = {}
    /\ \A ys \in SUBSET Years : \A opening, diffs, state :
        RowOK([[NoImport EXCEPT !.years = ys, !.opening = opening, !.diffs = diffs] EXCEPT !.state = state])
    /\ \A ys \in SUBSET Years : RowOK([NoImport EXCEPT !.years = ys])
  BY DEF NoImport, RowOK

LEMMA EndKeeps ==
    ASSUME SieInv, NEW p \in Processes, Ended(p)
    PROVE  SieInv'
  <1>1. CASE Dropped(p)
    <2>1. trouble' \in Nat
      BY DEF Ended, SieInv, Typed
    <2> QED
      BY <1>1, <2>1, DropKeeps DEF Dropped
  <1>2. ASSUME NEW new, CommitDb(p, new), Leaves(tx[p], new) PROVE SieInv'
    BY <1>2, CommitKeeps DEF Ended
  <1> QED
    BY <1>1, <1>2 DEF Ended

LEMMA StartImportKeeps ==
    ASSUME SieInv, NEW u \in Users, StartImport(u)
    PROVE  SieInv'
  <1>1. PICK choice \in Selections :
        LET import == [NoImport EXCEPT !.years = choice.years, !.opening = choice.opening,
                                       !.diffs = choice.diffs]
            items == Items(books, import)
            new == [import EXCEPT !.state = "queued"]
        IN  IF Cardinality(items) <= SyncLimit
            THEN /\ tx' = [tx EXCEPT ![u] = [kind |-> "import", id |-> made + 1, import |-> new,
                                             seen |-> Database]]
                 /\ imp' = imp
            ELSE /\ imp' = [imp EXCEPT ![made + 1] = new]
                 /\ tx' = tx
    BY DEF StartImport
  <1> DEFINE import == [NoImport EXCEPT !.years = choice.years, !.opening = choice.opening,
                                        !.diffs = choice.diffs]
             new    == [import EXCEPT !.state = "queued"]
             t      == [kind |-> "import", id |-> made + 1, import |-> new, seen |-> Database]
  <1>2. made < MaxImports /\ made' = made + 1 /\ UNCHANGED <<books, lock, trouble>>
    BY DEF StartImport
  <1>3. RowOK(new)
    BY Numbers, NoImportRow
  <1>4. u \in Processes
    BY DEF Processes
  <1> HIDE DEF new
  <1>5. \/ tx' = [tx EXCEPT ![u] = t] /\ imp' = imp
        \/ tx' = tx /\ imp' = [imp EXCEPT ![made + 1] = new]
    BY <1>1 DEF new
  <1>6. CASE tx' = [tx EXCEPT ![u] = t] /\ imp' = imp
    <2>1. t.kind = "import" /\ t.seen = Database /\ t.import = new /\ t.id = made + 1
      OBVIOUS
    <2> HIDE DEF t
    <2> QED
      BY <1>2, <1>3, <1>4, <1>6, <2>1, NewImportKeeps
  <1>7. CASE tx' = tx /\ imp' = [imp EXCEPT ![made + 1] = new]
    BY <1>2, <1>3, <1>7, NewRowKeeps
  <1> QED
    BY <1>5, <1>6, <1>7

LEMMA StartUndoKeeps ==
    ASSUME SieInv, NEW u \in Users, NEW i \in Imports, StartUndo(u, i)
    PROVE  SieInv'
  <1> DEFINE r == [imp[i] EXCEPT !.state = "undoing", !.attempts = 0]
             t == [kind |-> "undo", id |-> i, seen |-> Database]
  <1>1. /\ imp[i].state \in {"done", "failed"} /\ Blockers(Database, i) = {}
        /\ UNCHANGED <<books, lock, made, trouble>>
        /\ \/ tx' = tx /\ imp' = [imp EXCEPT ![i].state = "undoing", ![i].attempts = 0]
           \/ tx' = [tx EXCEPT ![u] = t] /\ imp' = imp
    BY DEF StartUndo
  <1>2. RowOK(imp[i]) /\ DOMAIN imp = Imports
    BY DatabaseParts DEF SieInv, Typed, Database
  <1>3. RowOK(r) /\ r.state = "undoing" /\ r.years = imp[i].years
    BY <1>2 DEF RowOK
  <1>4. i \in 1..made
    <2>1. OneImport(i) /\ made \in 0..MaxImports
      BY DEF SieInv, Typed
    <2> QED
      BY <1>1, <2>1, Numbers DEF OneImport, Imports
  <1>5. CASE tx' = tx /\ imp' = [imp EXCEPT ![i].state = "undoing", ![i].attempts = 0]
    <2>1. imp' = [imp EXCEPT ![i] = r]
      BY <1>2, <1>5
    <2>2. trouble' \in Nat
      BY <1>1 DEF SieInv, Typed
    <2> HIDE DEF r
    <2> QED
      BY <1>1, <1>3, <1>5, <2>1, <2>2, RowKeeps
  <1>6. CASE tx' = [tx EXCEPT ![u] = t] /\ imp' = imp
    <2>1. t.kind = "undo" /\ t.seen = Database /\ t.id = i
      OBVIOUS
    <2>2. \A q \in Processes : tx[q].kind = "import" => tx[q].id # i
      BY <1>1 DEF SieInv, Going
    <2>3. u \in Processes
      BY DEF Processes
    <2> HIDE DEF t
    <2>4. Starts(u, t)
      BY <1>1, <1>4, <1>6, <2>1, <2>2 DEF Starts
    <2> QED
      BY <2>3, <2>4, StartKeeps
  <1> QED
    BY <1>1, <1>5, <1>6

LEMMA CronStartsKeep ==
    ASSUME SieInv, CronStart \/ CronUndoCount \/ CronUndoStart
    PROVE  SieInv'
  <1>1. "cron" \in Processes
    BY DEF Processes
  <1>2. CASE CronStart
    <2> DEFINE t == [kind |-> "run", id |-> Oldest, seen |-> Database]
    <2>1. /\ tx' = [tx EXCEPT !["cron"] = t] /\ UNCHANGED <<books, imp, lock, made, trouble>>
          /\ BusyImports # {} /\ imp[Oldest].state # "undoing"
      BY <1>2 DEF CronStart, db
    <2>2. Oldest \in 1..made /\ imp[Oldest].state \in {"queued", "running"}
      BY <2>1, OldestBusy DEF Busy
    <2>3. t.kind = "run" /\ t.seen = Database /\ t.id = Oldest
      OBVIOUS
    <2>4. \A q \in Processes : tx[q].kind = "import" => tx[q].id # Oldest
      BY <2>2 DEF SieInv, Going
    <2> HIDE DEF t
    <2>5. Starts("cron", t)
      BY <2>1, <2>2, <2>3, <2>4 DEF Starts
    <2> QED
      BY <1>1, <2>5, StartKeeps
  <1>3. CASE CronUndoCount
    <2> DEFINE r == [imp[Oldest] EXCEPT !.attempts = AttemptCounted(@)]
    <2>1. /\ imp' = [imp EXCEPT ![Oldest].attempts = AttemptCounted(@)]
          /\ tx' = [tx EXCEPT !["cron"] = [kind |-> "counted", id |-> Oldest]]
          /\ UNCHANGED <<books, lock, made, trouble>>
          /\ BusyImports # {} /\ imp[Oldest].state = "undoing"
      BY <1>3 DEF CronUndoCount
    <2>2. Oldest \in Imports
      BY <2>1, OldestBusy
    <2>3. RowOK(imp[Oldest])
      BY <2>2, DatabaseParts DEF SieInv, Typed, Database
    <2>4. RowOK(r) /\ r.state = "undoing" /\ r.years = imp[Oldest].years
      BY <2>1, <2>3 DEF RowOK
    <2>5. imp' = [imp EXCEPT ![Oldest] = r]
      BY <2>1
    <2>6. trouble' \in Nat
      BY <2>1 DEF SieInv, Typed
    <2> HIDE DEF r
    <2> QED
      BY <2>1, <2>2, <2>4, <2>5, <2>6, RowKeeps
  <1>4. CASE CronUndoStart
    <2> DEFINE t == [kind |-> "undo", id |-> tx["cron"].id, seen |-> Database]
    <2>1. /\ tx' = [tx EXCEPT !["cron"] = t] /\ UNCHANGED <<books, imp, lock, made, trouble>>
          /\ tx["cron"].kind = "counted"
      BY <1>4 DEF CronUndoStart, db
    <2>2. t.kind = "undo" /\ t.seen = Database /\ t.id = tx["cron"].id
      OBVIOUS
    <2>3. t.id \in 1..made /\ imp[t.id].state \notin {"queued", "running"}
      BY <1>1, <2>1, <2>2 DEF SieInv, Going
    <2>4. \A q \in Processes \ {"cron"} : tx[q].kind = "import" => tx[q].id # t.id
      BY <1>1, <2>1, <2>2 DEF SieInv, Going
    <2> HIDE DEF t
    <2>5. Starts("cron", t)
      BY <2>1, <2>2, <2>3, <2>4 DEF Starts
    <2> QED
      BY <1>1, <2>5, StartKeeps
  <1> QED
    BY <1>2, <1>3, <1>4

LEMMA RowsKeep ==
    ASSUME SieInv, (\E u \in Users : Reconcile(u)) \/ (\E i \in Imports : Stop(i) \/ CheckAgain(i) \/ Unlink(i))
    PROVE  SieInv'
  <1>1. /\ \A i \in Imports : RowOK(imp[i])
        /\ DOMAIN imp = Imports
    BY DatabaseParts DEF SieInv, Typed, Database
  <1>2. ASSUME NEW u \in Users, Reconcile(u) PROVE SieInv'
    <2>1. PICK ys \in {choice.years : choice \in Selections} :
            imp' = [imp EXCEPT ![made + 1] =
                [Checked(books, [NoImport EXCEPT !.years = ys]) EXCEPT !.state = "reconciled"]]
      BY <1>2 DEF Reconcile
    <2> DEFINE r == [Checked(books, [NoImport EXCEPT !.years = ys]) EXCEPT !.state = "reconciled"]
    <2>2. ys \in SUBSET Years
      BY Numbers
    <2>3. RowOK([NoImport EXCEPT !.years = ys])
      BY <2>2, NoImportRow
    <2>4. RowOK(r)
      BY <2>3, StateRow
    <2>5. imp' = [imp EXCEPT ![made + 1] = r]
      BY <2>1
    <2> HIDE DEF r
    <2> QED
      BY <1>2, <2>4, <2>5, NewRowKeeps DEF Reconcile
  <1>3. ASSUME NEW i \in Imports, Stop(i) PROVE SieInv'
    <2> DEFINE r == [imp[i] EXCEPT !.state = "failed"]
    <2>1. /\ RowOK(r) /\ r.state = "failed" /\ r.years = imp[i].years
      BY <1>1 DEF RowOK
    <2>2. imp' = [imp EXCEPT ![i] = r] /\ imp[i].state # "none" /\ UNCHANGED <<books, lock, made, tx>>
      BY <1>3 DEF Stop, Busy
    <2>3. trouble' \in Nat
      BY <1>3 DEF Stop, Trouble, SieInv, Typed
    <2> HIDE DEF r
    <2> QED
      BY <2>1, <2>2, <2>3, RowKeeps
  <1>4. ASSUME NEW i \in Imports, CheckAgain(i) PROVE SieInv'
    <2> DEFINE r == Checked(books, imp[i])
    <2>1. imp' = [imp EXCEPT ![i] = r] /\ imp[i].state \in {"done", "reconciled"} /\ UNCHANGED <<books, lock, made, tx>>
      BY <1>4 DEF CheckAgain
    <2>2. /\ RowOK(r) /\ r.state = imp[i].state /\ r.years = imp[i].years
      <3>1. RowOK(imp[i])
        BY <1>1
      <3> QED
        BY <3>1, CheckedKeeps
    <2>3. trouble' \in Nat
      BY <1>4 DEF CheckAgain, Trouble, SieInv, Typed
    <2> HIDE DEF r
    <2> QED
      BY <2>1, <2>2, <2>3, RowKeeps
  <1>5. ASSUME NEW i \in Imports, Unlink(i) PROVE SieInv'
    <2>1. imp' = [imp EXCEPT ![i] = NoImport] /\ imp[i].state # "none" /\ Own(books, i) = {}
          /\ UNCHANGED <<books, lock, made, tx>>
      BY <1>5 DEF Unlink
    <2>2. trouble' \in Nat
      BY <1>5 DEF Unlink, Trouble, SieInv, Typed
    <2> QED
      BY <2>1, <2>2, NoImportRow, RowKeeps
  <1> QED
    BY <1>2, <1>3, <1>4, <1>5

LEMMA OthersKeep ==
    ASSUME SieInv, (\E e \in books : CancelEntry(e) \/ FreezeEntry(e)) \/ (\E y \in Years : BookEntry(y) \/ LockYear(y))
    PROVE  SieInv'
  <1>1. \A e \in books : EntryOK(e)
    BY DatabaseParts DEF SieInv, Typed, Database
  <1>2. ASSUME NEW e \in books, CancelEntry(e) PROVE SieInv'
    <2> DEFINE f == [e EXCEPT !.live = FALSE]
    <2>1. /\ EntryOK(f) /\ f.imp = e.imp /\ f.key = e.key
      BY <1>1 DEF EntryOK
    <2>2. ~Untouched(f)
      BY <1>1 DEF Untouched, EntryOK
    <2>3. books' = (books \ {e}) \cup {f} /\ UNCHANGED <<imp, lock, made, tx>> /\ Untouched(e)
      BY <1>2 DEF CancelEntry, Untouched
    <2>4. trouble' \in Nat
      BY <1>2 DEF CancelEntry, Trouble, SieInv, Typed
    <2> HIDE DEF f
    <2> QED
      BY <2>1, <2>2, <2>3, <2>4, TouchKeeps
  <1>3. ASSUME NEW e \in books, FreezeEntry(e) PROVE SieInv'
    <2> DEFINE f == [e EXCEPT !.frozen = TRUE]
    <2>1. /\ EntryOK(f) /\ f.imp = e.imp /\ f.key = e.key
      BY <1>1 DEF EntryOK
    <2>2. ~Untouched(f)
      BY <1>1 DEF Untouched, EntryOK
    <2>3. books' = (books \ {e}) \cup {f} /\ UNCHANGED <<imp, lock, made, tx>> /\ Untouched(e)
      BY <1>3 DEF FreezeEntry, Untouched
    <2>4. trouble' \in Nat
      BY <1>3 DEF FreezeEntry, Trouble, SieInv, Typed
    <2> HIDE DEF f
    <2> QED
      BY <2>1, <2>2, <2>3, <2>4, TouchKeeps
  <1>4. ASSUME NEW y \in Years, LockYear(y) PROVE SieInv'
    <2>1. y \in Nat /\ lock' = y /\ UNCHANGED <<books, imp, made, tx>>
      BY <1>4, Numbers DEF LockYear
    <2>2. trouble' \in Nat
      BY <1>4 DEF LockYear, Trouble, SieInv, Typed
    <2> QED
      BY <2>1, <2>2, LockKeeps
  <1> QED
    BY <1>2, <1>3, <1>4, BookKeeps

LEMMA InitHolds == Init => SieInv
  <1> SUFFICES ASSUME Init PROVE SieInv
    OBVIOUS
  <1>1. /\ books = {} /\ imp = [i \in Imports |-> NoImport] /\ lock = 0 /\ made = 0 /\ trouble = 0
        /\ tx = [p \in Processes |-> None] /\ None.kind = "none"
    BY DEF Init, None
  <1>2. DbOK(Database)
    <2>1. /\ IsFiniteSet(books) /\ \A e \in books : EntryOK(e)
          /\ DOMAIN imp = Imports /\ lock \in Nat
      BY <1>1, FS_EmptySet
    <2>2. \A i \in Imports : RowOK(imp[i])
      BY <1>1, NoImportRow
    <2> QED
      BY <2>1, <2>2, DatabaseParts DEF Database
  <1>3. Typed
    BY <1>1, <1>2, Numbers DEF Typed, Reads
  <1>4. \A i \in Imports : OneImport(i)
    BY <1>1, NoImportRow DEF OneImport, Reads
  <1>5. EntriesOwned
    BY <1>1 DEF EntriesOwned
  <1>6. \A p \in Processes : Going(p)
    BY <1>1 DEF Going
  <1> QED
    BY <1>3, <1>4, <1>5, <1>6 DEF SieInv

LEMMA NextKeeps == SieInv /\ [Next]_vars => SieInv'
  <1> SUFFICES ASSUME SieInv, [Next]_vars PROVE SieInv'
    OBVIOUS
  <1>1. \A u \in Users : u \in Processes
    BY DEF Processes
  <1>2. "cron" \in Processes
    BY DEF Processes
  <1>3. ASSUME NEW u \in Users, StartImport(u) PROVE SieInv'
    BY <1>3, StartImportKeeps
  <1>4. ASSUME NEW u \in Users, EndImport(u) \/ EndUndo(u) PROVE SieInv'
    BY <1>1, <1>4, EndsAs, EndKeeps
  <1>5. ASSUME NEW u \in Users, NEW i \in Imports, StartUndo(u, i) PROVE SieInv'
    BY <1>5, StartUndoKeeps
  <1>6. CASE CronEnd \/ CronUndoEnd
    BY <1>2, <1>6, EndsAs, EndKeeps
  <1>7. CASE CronStart \/ CronUndoCount \/ CronUndoStart
    BY <1>7, CronStartsKeep
  <1>8. CASE TimedOut
    <2>1. trouble' \in Nat
      BY <1>8 DEF TimedOut, SieInv, Typed
    <2> QED
      BY <1>2, <1>8, <2>1, DropKeeps DEF TimedOut, db
  <1>9. CASE CronKilled
    <2>1. trouble' \in Nat
      BY <1>9 DEF CronKilled, Trouble, SieInv, Typed
    <2> QED
      BY <1>2, <1>9, <2>1, DropKeeps DEF CronKilled, db
  <1>10. CASE (\E u \in Users : Reconcile(u)) \/ (\E i \in Imports : Stop(i) \/ CheckAgain(i) \/ Unlink(i))
    BY <1>10, RowsKeep
  <1>11. CASE (\E e \in books : CancelEntry(e) \/ FreezeEntry(e)) \/ (\E y \in Years : BookEntry(y) \/ LockYear(y))
    BY <1>11, OthersKeep
  <1>12. CASE UNCHANGED vars
    <2>1. lock \in Nat /\ trouble' \in Nat /\ UNCHANGED <<books, imp, lock, made, tx>>
      BY <1>12 DEF vars, db, SieInv, Typed, DbOK, Database
    <2> QED
      BY <2>1, LockKeeps
  <1> QED
    BY <1>3, <1>4, <1>5, <1>6, <1>7, <1>8, <1>9, <1>10, <1>11, <1>12 DEF Next, Cron

\* In every reachable state transactions may count on what they read and entries belong to
\* the imports that made them, however many users, imports and years there are.
THEOREM Invariant == Spec => []SieInv
  BY InitHolds, NextKeeps, PTL DEF Spec

-----------------------------------------------------------------------------
(* What a step can do to the books *)

Commits(p, new) ==
    /\ Reads(p) /\ CommitDb(p, new) /\ Leaves(tx[p], new)
    /\ UNCHANGED <<lock, made, trouble, meddled>>

\* An entry is changed by somebody else and keeps its import and its key.
Touched(e, f) ==
    /\ f.imp = e.imp /\ f.key = e.key
    /\ books' = (books \ {e}) \cup {f}
    /\ meddled' = TRUE \/ e.live

\* No step but a commit finishes an import or takes an entry away.
Otherwise ==
    /\ \A i \in Imports : imp'[i].state = "done" => imp[i].state = "done"
    /\ skewed' = skewed
    /\ meddled' = meddled \/ meddled' = TRUE
    /\ \/ books' = books
       \/ meddled' = TRUE /\ books \subseteq books'
       \/ \E e \in books : \E f : Touched(e, f)

LEMMA Steps ==
    ASSUME SieInv, [Next]_vars
    PROVE  Otherwise \/ \E p \in Processes : \E new : Commits(p, new)
  <1>1. /\ "cron" \in Processes /\ \A u \in Users : u \in Processes
        /\ DOMAIN imp = Imports /\ \A i \in Imports : RowOK(imp[i])
    BY DatabaseParts DEF Processes, SieInv, Typed, Database
  <1>2. ASSUME NEW p \in Processes, Ended(p)
        PROVE  Otherwise \/ \E q \in Processes : \E new : Commits(q, new)
    BY <1>2 DEF Ended, Dropped, Commits, Otherwise
  <1>3. ASSUME NEW u \in Users, StartImport(u) PROVE Otherwise
    <2>1. \E s : /\ RowOK(s) /\ s.state = "queued"
                 /\ imp' = imp \/ imp' = [imp EXCEPT ![made + 1] = s]
      <3>1. PICK choice \in Selections :
              LET import == [NoImport EXCEPT !.years = choice.years, !.opening = choice.opening,
                                             !.diffs = choice.diffs]
              IN  imp' = imp \/ imp' = [imp EXCEPT ![made + 1] = [import EXCEPT !.state = "queued"]]
        BY <1>3 DEF StartImport
      <3> DEFINE s == [[NoImport EXCEPT !.years = choice.years, !.opening = choice.opening,
                                        !.diffs = choice.diffs] EXCEPT !.state = "queued"]
      <3>2. RowOK(s) /\ s.state = "queued"
        BY Numbers, NoImportRow DEF NoImport
      <3> QED
        BY <3>1, <3>2
    <2> QED
      BY <1>1, <1>3, <2>1 DEF StartImport, Otherwise
  <1>4. ASSUME NEW u \in Users, NEW i \in Imports, StartUndo(u, i) PROVE Otherwise
    BY <1>1, <1>4 DEF StartUndo, Otherwise, RowOK
  <1>5. ASSUME CronStart \/ CronUndoCount \/ CronUndoStart PROVE Otherwise
    BY <1>1, <1>5 DEF CronStart, CronUndoCount, CronUndoStart, Otherwise, db, RowOK
  <1>6. ASSUME TimedOut \/ CronKilled PROVE Otherwise
    BY <1>6 DEF TimedOut, CronKilled, Otherwise, db
  <1>7. ASSUME NEW u \in Users, Reconcile(u) PROVE Otherwise
    <2>1. PICK ys \in {choice.years : choice \in Selections} :
            imp' = [imp EXCEPT ![made + 1] =
                [Checked(books, [NoImport EXCEPT !.years = ys]) EXCEPT !.state = "reconciled"]]
      BY <1>7 DEF Reconcile
    <2> DEFINE r == [Checked(books, [NoImport EXCEPT !.years = ys]) EXCEPT !.state = "reconciled"]
    <2>2. RowOK([NoImport EXCEPT !.years = ys])
      BY Numbers, NoImportRow
    <2>3. r.state = "reconciled"
      BY <2>2, StateRow
    <2>4. imp' = [imp EXCEPT ![made + 1] = r]
      BY <2>1
    <2> HIDE DEF r
    <2> QED
      BY <1>1, <1>7, <2>3, <2>4 DEF Reconcile, Otherwise
  <1>8. ASSUME NEW i \in Imports, Stop(i) \/ Unlink(i) PROVE Otherwise
    BY <1>1, <1>8, NoImportRow DEF Stop, Unlink, Otherwise, RowOK
  <1>9. ASSUME NEW i \in Imports, CheckAgain(i) PROVE Otherwise
    <2> DEFINE r == Checked(books, imp[i])
    <2>1. RowOK(imp[i])
      BY <1>1
    <2>2. r.state = imp[i].state
      BY <2>1, CheckedKeeps
    <2>3. imp' = [imp EXCEPT ![i] = r]
      BY <1>9 DEF CheckAgain
    <2> HIDE DEF r
    <2> QED
      BY <1>1, <1>9, <2>2, <2>3 DEF CheckAgain, Otherwise
  <1>10. ASSUME NEW e \in books, CancelEntry(e) \/ FreezeEntry(e) PROVE Otherwise
    <2>1. DOMAIN e = {"imp", "key", "amount", "live", "frozen"}
      BY DatabaseParts DEF SieInv, Typed, Database, EntryOK
    <2>2. PICK f : /\ f = [e EXCEPT !.live = FALSE] \/ f = [e EXCEPT !.frozen = TRUE]
                   /\ books' = (books \ {e}) \cup {f}
                   /\ meddled' = TRUE \/ (meddled' = meddled /\ e.live)
                   /\ UNCHANGED <<imp, skewed>>
      BY <1>10 DEF CancelEntry, FreezeEntry
    <2>3. f.imp = e.imp /\ f.key = e.key
      BY <2>1, <2>2
    <2> QED
      BY <2>2, <2>3 DEF Otherwise, Touched
  <1>11. ASSUME NEW y \in Years, BookEntry(y) \/ LockYear(y) PROVE Otherwise
    BY <1>11 DEF BookEntry, LockYear, Otherwise
  <1>12. ASSUME UNCHANGED vars PROVE Otherwise
    BY <1>12 DEF vars, db, Otherwise
  <1> QED
    BY <1>1, <1>2, <1>3, <1>4, <1>5, <1>6, <1>7, <1>8, <1>9, <1>10, <1>11, <1>12, EndsAs DEF Next, Cron

\* A commit that finishes an import is the end of its last run, and unless it skewed something
\* the books are as that run read them.
LEMMA Finishes ==
    ASSUME SieInv, [Next]_vars, NEW i \in Imports, imp[i].state # "done", imp'[i].state = "done"
    PROVE  \E p \in Processes : \E new :
            /\ Commits(p, new) /\ tx[p].id = i /\ imp'[i] = new.imp[i]
            /\ Imported(tx[p].seen, i, Import(tx[p]), new)
            /\ ~skewed' => books = tx[p].seen.books /\ books' = new.books
            /\ KeysUnique(books') /\ IsFiniteSet(books')
  <1>1. PICK p \in Processes : \E new : Commits(p, new)
    BY Steps DEF Otherwise
  <1>2. PICK new : Commits(p, new)
    BY <1>1
  <1> DEFINE t == tx[p]
  <1>3. Reads(p) /\ CommitDb(p, new) /\ Leaves(t, new)
    BY <1>2 DEF Commits
  <1>4. t.id = i
    BY <1>3, CommitDoes
  <1>5. imp'[i] = new.imp[i] /\ imp[i] = t.seen.imp[i]
    BY <1>3, <1>4, CommitDoes
  <1>6. t.kind \in {"import", "run"} /\ Imported(t.seen, i, Import(t), new)
    BY <1>3, <1>4, <1>5 DEF Leaves, GivenUp, TakenBack
  <1>7. ASSUME ~skewed' PROVE books = t.seen.books /\ books' = new.books
    <2>1. books = t.seen.books
      BY <1>3, <1>6, <1>7 DEF CommitDb
    <2>2. books' = (books \ (t.seen.books \ new.books)) \cup (new.books \ t.seen.books)
      BY <1>3 DEF CommitDb, Merged
    <2>3. t.seen.books \subseteq new.books
      BY <1>6 DEF Imported
    <2> QED
      BY <2>1, <2>2, <2>3
  <1>8. KeysUnique(books')
    BY <1>3 DEF CommitDb
  <1>9. IsFiniteSet(books')
    BY <1>3, CommitBooks
  <1> QED
    BY <1>2, <1>4, <1>5, <1>6, <1>7, <1>8, <1>9

\* What the unique index says: no two live entries have the same key.
LEMMA KeyedOnce ==
    ASSUME NEW entries, IsFiniteSet(entries), KeysUnique(entries),
           NEW e \in Keyed(entries), NEW f \in Keyed(entries), e.key = f.key
    PROVE  e = f
  <1> DEFINE S == Keyed(entries)
             T == {g.key : g \in S}
             key == [g \in S |-> g.key]
  <1>1. IsFiniteSet(S)
    BY FS_Subset DEF Keyed, Live
  <1>2. key \in Surjection(S, T)
    BY DEF Surjection
  <1>3. Live(S) = S
    BY DEF Keyed, Live
  <1>4. Cardinality(T) = Cardinality(S)
    BY <1>3 DEF KeysUnique, Indexed, Keys
  <1> HIDE DEF S, T, key
  <1>5. key \in Injection(S, T)
    BY <1>1, <1>2, <1>4, FS_Surjection
  <1> QED
    BY <1>5 DEF Injection, IsInjective, S, key

LEMMA VouchersCounted ==
    SieInv /\ [Next]_vars => VouchersOnce
  <1> SUFFICES ASSUME SieInv, [Next]_vars, NEW i \in Imports,
                      imp[i].state # "done", imp'[i].state = "done", ~skewed',
                      NEW y \in imp'[i].years, NEW n \in DOMAIN Vouchers[y]
               PROVE  Cardinality({e \in Live(books') :
                        e.key = [year |-> y, kind |-> "voucher", number |-> n]}) = 1
    BY DEF VouchersOnce
  <1> DEFINE key == [year |-> y, kind |-> "voucher", number |-> n]
  <1>1. PICK p \in Processes : \E new :
            /\ imp'[i] = new.imp[i] /\ Imported(tx[p].seen, i, Import(tx[p]), new)
            /\ books' = new.books /\ KeysUnique(books') /\ IsFiniteSet(books')
    BY Finishes
  <1>2. PICK new : /\ imp'[i] = new.imp[i] /\ Imported(tx[p].seen, i, Import(tx[p]), new)
                   /\ books' = new.books /\ KeysUnique(books') /\ IsFiniteSet(books')
    BY <1>1
  <1>3. Complete(books', imp'[i].years)
    BY <1>2 DEF Imported
  <1>4. PICK e \in Live(books') : e.key = key
    BY <1>3 DEF Complete
  <1>5. key.kind # "none"
    OBVIOUS
  <1>6. \A f \in Live(books') : f.key = key => f = e
    BY <1>2, <1>4, <1>5, KeyedOnce DEF Keyed
  <1>7. {f \in Live(books') : f.key = key} = {e}
    BY <1>4, <1>6
  <1> HIDE DEF key
  <1>8. Cardinality({f \in Live(books') : f.key = key}) = 1
    BY <1>7, FS_Singleton
  <1> QED
    BY <1>8 DEF key

\* An import that becomes done has every voucher of its years in the books exactly once,
\* whatever was imported, undone or cancelled before and however many batches it took
\* (analyse, _run, _l10n_se_sie_key_uniq), unless the books changed under its run.
THEOREM EveryVoucherOnceAlways == Spec => EveryVoucherOnce
  BY Invariant, VouchersCounted, PTL DEF Spec, EveryVoucherOnce

LEMMA WholeUndone ==
    SieInv /\ [Next]_vars => UndoneWhole
  <1> SUFFICES ASSUME SieInv, [Next]_vars, NEW e \in books,
                      ~\E f \in books' : f.imp = e.imp /\ f.key = e.key
               PROVE  /\ imp'[e.imp].state = "undone"
                      /\ Own(books', e.imp) = {}
                      /\ ~e.frozen
                      /\ \E p \in Processes : /\ tx[p].kind = "undo" /\ tx'[p] = None
                                              /\ e.key.year > tx[p].seen.lock
    BY DEF UndoneWhole
  <1>1. e \notin books'
    OBVIOUS
  <1>2. ~Otherwise
    BY <1>1 DEF Otherwise, Touched
  <1>3. PICK p \in Processes : \E new : Commits(p, new)
    BY <1>2, Steps
  <1>4. PICK new : Commits(p, new)
    BY <1>3
  <1> DEFINE t == tx[p]
  <1>5. Reads(p) /\ CommitDb(p, new) /\ Leaves(t, new)
    BY <1>4 DEF Commits
  <1>6. t.kind = "undo" /\ TakenBack(t.seen, t.id, new) /\ e \in Own(t.seen.books, t.id)
    BY <1>1, <1>5, CommitBooks
  <1>7. e.imp = t.id /\ Blockers(t.seen, t.id) = {} /\ t.seen.books \ new.books = Own(t.seen.books, t.id)
    BY <1>6 DEF Own, TakenBack
  <1>8. Own(t.seen.books, t.id) \subseteq books /\ imp'[t.id] = new.imp[t.id]
        /\ books' = (books \ Own(t.seen.books, t.id)) \cup (new.books \ t.seen.books)
        /\ tx' = [tx EXCEPT ![p] = None]
    BY <1>5, <1>6, <1>7, CommitDoes DEF Merged
  <1>9. UndoSees(t)
    BY <1>6 DEF SieInv, Going
  <1>10. Own(books, t.id) \subseteq t.seen.books
    BY <1>8, <1>9 DEF UndoSees
  <1>11. Own(books', t.id) = {}
    BY <1>6, <1>8, <1>10 DEF Own, TakenBack
  <1>12. ~e.frozen /\ e.key.year > t.seen.lock
    <2>1. ~e.frozen /\ ~(e.key.year <= t.seen.lock)
      BY <1>6, <1>7 DEF Blockers
    <2>2. t.seen.lock \in Nat /\ EntryOK(e)
      BY <1>5, DatabaseParts DEF SieInv, Typed, DbOK, Database
    <2>3. e.key.year \in Nat
      BY <2>2, Numbers DEF EntryOK, Key
    <2> QED
      BY <2>1, <2>2, <2>3
  <1>13. tx'[p] = None
    BY <1>8 DEF SieInv, Typed
  <1> QED
    BY <1>6, <1>7, <1>8, <1>11, <1>12, <1>13 DEF TakenBack

\* Undo is all or nothing, also in the background and when it is stopped or killed: entries
\* go only with all entries of an import that is then undone, never one that is reconciled,
\* changed or in a year locked before the undo began (_undo_all, _undo_blockers).
THEOREM UndoAllOrNothingAlways == Spec => UndoAllOrNothing
  BY Invariant, WholeUndone, PTL DEF Spec, UndoAllOrNothing

LEMMA LaterChecked ==
    SieInv /\ [Next]_vars => ChecksFresh
  <1> SUFFICES ASSUME SieInv, [Next]_vars, NEW i \in Imports, NEW j \in Imports,
                      imp[i].state # "done", imp'[i].state = "done", ~skewed',
                      j # i, imp'[j].state \in {"done", "reconciled"},
                      \E p \in Processes : tx[p] # None /\ tx'[p] = None
                                           /\ tx[p].seen.imp[j].state \in {"done", "reconciled"},
                      \E y \in imp'[j].years : y > FirstYear(imp'[i])
               PROVE  imp'[j].check = Checked(books', imp'[j]).check
    BY DEF ChecksFresh
  <1>1. PICK p \in Processes : \E new :
            /\ Commits(p, new) /\ tx[p].id = i /\ imp'[i] = new.imp[i]
            /\ Imported(tx[p].seen, i, Import(tx[p]), new) /\ books' = new.books
    BY Finishes
  <1>2. PICK new : /\ Commits(p, new) /\ tx[p].id = i /\ imp'[i] = new.imp[i]
                   /\ Imported(tx[p].seen, i, Import(tx[p]), new) /\ books' = new.books
    BY <1>1
  <1> DEFINE seen == tx[p].seen
  <1>3. Reads(p) /\ CommitDb(p, new) /\ Leaves(tx[p], new)
    BY <1>2 DEF Commits
  <1>4. imp'[j].state = imp[j].state /\ imp'[j].years = imp[j].years /\ tx' = [tx EXCEPT ![p] = None]
    BY <1>2, <1>3, CommitDoes
  <1>5. seen.imp[j].state \in {"done", "reconciled"}
    <2>1. \A q \in Processes \ {p} : tx'[q] = tx[q]
      BY <1>4 DEF SieInv, Typed
    <2> QED
      BY <2>1
  <1>6. seen.imp[j].years = imp[j].years
    BY <1>3, <1>4, <1>5 DEF SieInv, OneImport
  <1>7. j \in Later(seen, i, new.imp[i])
    BY <1>2, <1>4, <1>5, <1>6 DEF Later
  <1>8. new.imp[j] = Checked(new.books, seen.imp[j]) /\ new.imp[i].state = "done"
    BY <1>2, <1>7 DEF Imported
  <1>9. imp[j] = seen.imp[j]
    BY <1>2, <1>3, <1>7, <1>8 DEF CommitDb, RowsTaken, Written
  <1>10. imp'[j] = new.imp[j]
    BY <1>3, <1>9 DEF CommitDb
  <1>11. imp'[j] = Checked(books', seen.imp[j]) /\ RowOK(seen.imp[j]) /\ RowOK(imp'[j])
    BY <1>2, <1>3, <1>8, <1>10, CommitDoes DEF SieInv, Typed, DbOK
  <1> DEFINE entries == books'
             before  == seen.imp[j]
             after   == imp'[j]
  <1>12. after = Checked(entries, before) /\ RowOK(before) /\ RowOK(after) /\ after.years = before.years
    BY <1>4, <1>6, <1>11
  <1> HIDE DEF entries, before, after
  <1>13. after.check = [y \in Years |-> IF y \notin before.years THEN "none"
                                        ELSE IF BalanceAt(entries, y) = FileClosing[y] THEN "ok" ELSE "deviates"]
    BY <1>12, CheckedRow
  <1>14. Checked(entries, after).check =
            [y \in Years |-> IF y \notin after.years THEN "none"
                             ELSE IF BalanceAt(entries, y) = FileClosing[y] THEN "ok" ELSE "deviates"]
    BY <1>12, CheckedRow
  <1>15. after.check = Checked(entries, after).check
    BY <1>12, <1>13, <1>14
  <1> QED
    BY <1>15 DEF entries, after

\* When an import is finished, what the imports and reconciliations of later years say of
\* their balances is what the books now hold, for all that existed when the finishing run
\* began and whatever other transactions did meanwhile (_check_later_imports).
THEOREM LaterChecksFreshAlways == Spec => LaterChecksFresh
  BY Invariant, LaterChecked, PTL DEF Spec, LaterChecksFresh

LEMMA CountedNext ==
    SieInv /\ CountedOnce /\ [Next]_vars => CountedOnce'
  <1> SUFFICES ASSUME SieInv, CountedOnce, [Next]_vars, ~skewed', ~meddled',
                      NEW e \in Keyed(books'), NEW f \in Keyed(books'), e.key.kind = "IB"
               PROVE  f.key.year >= e.key.year
    BY DEF CountedOnce
  <1>2. CASE Otherwise
    <2>1. ~skewed /\ ~meddled
      BY <1>2 DEF Otherwise
    <2>2. \A g, h \in Keyed(books) : g.key.kind = "IB" => h.key.year >= g.key.year
      BY <2>1 DEF CountedOnce
    <2>3. CASE books' = books
      BY <2>2, <2>3
    <2>4. ASSUME NEW g \in books, NEW h, Touched(g, h) PROVE f.key.year >= e.key.year
      <3>1. \A k \in Keyed(books') : \E l \in Keyed(books) : l.key = k.key
        BY <2>4 DEF Touched, Keyed, Live
      <3> QED
        BY <2>2, <3>1
    <2> QED
      BY <1>2, <2>3, <2>4 DEF Otherwise
  <1>3. ASSUME NEW p \in Processes, NEW new, Commits(p, new) PROVE f.key.year >= e.key.year
    <2> DEFINE t      == tx[p]
               i      == t.id
               import == Import(t)
    <2>1. Reads(p) /\ CommitDb(p, new) /\ Leaves(t, new)
      BY <1>3 DEF Commits
    <2>2. ~skewed /\ ~meddled /\ (t.kind \in {"import", "run"} => books = t.seen.books)
      BY <1>3, <2>1 DEF CommitDb, Commits
    <2>3. \A g, h \in Keyed(books) : g.key.kind = "IB" => h.key.year >= g.key.year
      BY <2>2 DEF CountedOnce
    <2>4. /\ e.live /\ f.live /\ e.key.kind # "none" /\ f.key.kind # "none"
          /\ e \in books' /\ f \in books'
          /\ e.key.year \in Nat /\ f.key.year \in Nat
      <3>1. EntryOK(e) /\ EntryOK(f)
        BY <2>1, CommitBooks DEF Keyed, Live
      <3> QED
        BY <3>1, Numbers DEF Keyed, Live, EntryOK, Key
    <2>5. CASE e \in books /\ f \in books
      BY <2>3, <2>4, <2>5 DEF Keyed, Live
    <2>6. ASSUME e \notin books \/ f \notin books
          PROVE  /\ t.kind \in {"import", "run"} /\ books = t.seen.books
                 /\ \A g \in {e, f} \ books : NewEntry(g, i, import, books)
                 /\ RowOK(import)
      <3>1. t.kind \in {"import", "run"} /\ \A g \in {e, f} \ books : NewEntry(g, i, import, t.seen.books)
        BY <2>1, <2>4, <2>6, CommitBooks
      <3>2. RowOK(import)
        BY <2>1, <3>1, CommitDoes DEF Import, SieInv, Typed, Going, DbOK
      <3> QED
        BY <2>2, <3>1, <3>2
    <2>7. CASE e \notin books /\ f \in books
      <3>1. Live(books) = {}
        BY <2>6, <2>7 DEF NewEntry
      <3> QED
        BY <2>4, <2>7, <3>1 DEF Live
    <2>8. CASE e \notin books /\ f \notin books
      <3>1. e.key.year = FirstYear(import) /\ f.key.year \in import.years
        BY <2>6, <2>8 DEF NewEntry
      <3>2. import.years \in SUBSET Years
        BY <2>6, <2>8 DEF RowOK
      <3>3. FirstYear(import) <= f.key.year
        BY <3>1, <3>2, FirstOf
      <3> QED
        BY <2>4, <3>1, <3>3
    <2>9. CASE e \in books /\ f \notin books
      <3>1. NewEntry(f, i, import, books) /\ RowOK(import)
        BY <2>6, <2>9
      <3>2. CASE e.imp # i
        <4>1. ~(e.key.year > f.key.year)
          BY <2>4, <2>9, <3>1, <3>2 DEF NewEntry, Live, OpeningKind
        <4> QED
          BY <2>4, <4>1
      <3>3. CASE e.imp = i
        <4>1. i # 0
          BY <2>1, CommitDoes DEF SieInv, Typed
        <4>2. imp[i].state # "none" /\ e.key.year = FirstYear(imp[i])
          BY <2>9, <3>3, <4>1 DEF SieInv, EntriesOwned
        <4>3. t.kind = "run"
          BY <2>1, <2>6, <2>9, <4>2, CommitStates
        <4>4. import = imp[i]
          BY <2>1, <4>3, CommitDoes DEF Import
        <4>5. f.key.year \in import.years /\ import.years \in SUBSET Years
          BY <3>1 DEF NewEntry, RowOK
        <4>6. FirstYear(import) <= f.key.year
          BY <4>5, FirstOf
        <4> QED
          BY <2>4, <4>2, <4>4, <4>6
      <3> QED
        BY <3>2, <3>3
    <2> QED
      BY <2>5, <2>7, <2>8, <2>9
  <1> QED
    BY <1>2, <1>3, Steps

\* An opening balance from the file contains everything before it: no imported entry of an
\* earlier year is in the books beside it, in whatever order years are imported, undone and
\* imported again and however runs and requests interleave (LaterOpening and BooksTaken in
\* analyse), unless one did not see another's entries or others booked or cancelled some.
THEOREM CountedOnceAlways == Spec => []CountedOnce
  <1>1. Init => CountedOnce
    BY DEF Init, CountedOnce, Keyed, Live
  <1> QED
    BY <1>1, Invariant, CountedNext, PTL DEF Spec
=============================================================================
