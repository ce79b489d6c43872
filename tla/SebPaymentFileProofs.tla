------------------------ MODULE SebPaymentFileProofs ------------------------
(***************************************************************************)
(* Proofs about SebPaymentFile, for any bills, amounts and number of       *)
(* concurrent requests: the types; that the state of a file says what its  *)
(* lines are; that a bill is never in two files that may be signed; and,   *)
(* for a bill that only files pay, that it is held until all its payments  *)
(* have arrived and that no more is on its way than is due.                *)
(***************************************************************************)
EXTENDS SebPaymentFile, FiniteSetTheorems, WellFoundedInduction, TLAPS

\* The amounts a request enters are natural numbers.
LEMMA AmountsAreNat ==
    ASSUME NEW S, NEW amount \in Amounts(S), NEW b \in S
    PROVE  amount[b] \in Nat
  BY FileAssumption DEF Amounts

\* The initial states are well typed.
LEMMA InitTypeOK == Init => TypeOK
  <1> SUFFICES ASSUME Init PROVE TypeOK
    OBVIOUS
  <1>1. bill \in [Bills -> Bill]
    <2>1. {[posted |-> TRUE, total |-> t, due |-> t, other |-> 0] : t \in Totals} \subseteq Bill
      <3> SUFFICES ASSUME NEW t \in Totals
                   PROVE  [posted |-> TRUE, total |-> t, due |-> t, other |-> 0] \in Bill
        OBVIOUS
      <3>1. t \in Nat
        BY FileAssumption
      <3> QED
        BY <3>1 DEF Bill
    <2> QED
      BY <2>1 DEF Init
  <1>2. NoLine \in Line
    BY DEF NoLine, Line
  <1>3. Snapshot \in Seen
    BY <1>1, <1>2, FileAssumption DEF Init, Snapshot, Seen, Files
  <1> QED
    BY <1>3, FileAssumption DEF Init, TypeOK

\* What a request has read is a database state.
LEMMA SeenIsTyped ==
    ASSUME TypeOK, NEW u \in Users, Reading(u)
    PROVE  request[u] \in Seen
  BY DEF TypeOK, Reading

\* Begin and Abort change no row.
LEMMA RequestTypeOK ==
    ASSUME TypeOK, NEW u \in Users, Begin(u) \/ Abort(u)
    PROVE  TypeOK'
  <1>1. Snapshot' = Snapshot
    BY DEF Begin, Abort, db, Snapshot
  <1>2. request' \in [Users -> Seen \cup {None}]
    BY DEF Begin, Abort, TypeOK
  <1> QED
    BY <1>1, <1>2 DEF Begin, Abort, TypeOK, Seen

\* A new file has well-typed lines.
LEMMA CreateTypeOK ==
    ASSUME TypeOK, NEW u \in Users, NEW S \in SUBSET Bills,
           NEW amount, \A b \in S : amount[b] \in Nat,
           NEW newState \in {"draft", "exported"},
           NEW due0, \A b \in S : due0[b] \in Nat,
           CreateFile(u, S, amount, newState, due0)
    PROVE  TypeOK'
  <1>1. made' \in 0..MaxFiles /\ made + 1 \in Files
    BY FileAssumption DEF CreateFile, TypeOK, Snapshot, Seen, Files
  <1>2. file' \in [Files -> {"none", "draft", "exported", "done", "cancelled"}]
    BY <1>1 DEF CreateFile, TypeOK, Snapshot, Seen
  <1>3. [b \in Bills |-> IF b \in S
            THEN [state |-> newState, amount |-> amount[b], due0 |-> due0[b], reached |-> 0]
            ELSE NoLine] \in [Bills -> Line]
    BY DEF Line, NoLine
  <1>4. line' \in [Files -> [Bills -> Line]]
    BY <1>1, <1>3 DEF CreateFile, TypeOK, Snapshot, Seen
  <1>5. Snapshot' \in Seen'
    BY <1>1, <1>2, <1>4 DEF CreateFile, TypeOK, Snapshot, Seen
  <1>6. request' \in [Users -> Seen \cup {None}]
    BY DEF CreateFile, TypeOK
  <1> QED
    BY <1>5, <1>6 DEF CreateFile, TypeOK, Seen

\* Changing the state of a file and its lines keeps the types.
LEMMA MoveTyped ==
    ASSUME TypeOK, NEW f \in Files, NEW S,
           NEW newState \in {"none", "draft", "exported", "done", "cancelled"}
    PROVE  MoveLines(f, S, newState) \in [Files -> [Bills -> Line]]
  <1>1. line \in [Files -> [Bills -> Line]]
    BY DEF TypeOK, Snapshot, Seen
  <1>2. ASSUME NEW b \in Bills
        PROVE  [line[f][b] EXCEPT !.state = newState] \in Line
    BY <1>1 DEF Line
  <1> QED
    BY <1>1, <1>2 DEF MoveLines

LEMMA HandleTypeOK ==
    ASSUME TypeOK, NEW f \in Files, Handle(f)
    PROVE  TypeOK'
  <1> USE DEF TypeOK, Snapshot, Seen
  <1>1. CASE MarkDone(f)
    <2>1. line' \in [Files -> [Bills -> Line]]
      BY <1>1, MoveTyped DEF MarkDone
    <2> QED
      BY <1>1, <2>1 DEF MarkDone
  <1>2. CASE CancelFile(f)
    <2>1. line' \in [Files -> [Bills -> Line]]
      BY <1>2, MoveTyped DEF CancelFile
    <2> QED
      BY <1>2, <2>1 DEF CancelFile, Misused, InState
  <1>3. CASE DeleteFile(f)
    <2>1. line' \in [Files -> [Bills -> Line]]
      BY <1>3 DEF DeleteFile, NoLine, Line
    <2> QED
      BY <1>3, <2>1 DEF DeleteFile
  <1>4. ASSUME NEW b \in Bills, CancelLine(f, b)
        PROVE  TypeOK'
    <2>1. line' \in [Files -> [Bills -> Line]]
      BY <1>4, MoveTyped DEF CancelLine
    <2> QED
      BY <1>4, <2>1 DEF CancelLine, Misused
  <1>5. ASSUME NEW b \in Bills, Reconcile(f, b)
        PROVE  TypeOK'
    <2>1. /\ bill[b].due \in Nat /\ line[f][b].amount \in Nat
          /\ bill[b] \in Bill /\ line[f][b] \in Line
      BY DEF Bill, Line
    <2>2. /\ Applied(bill[b].due, line[f][b].amount) \in Nat
          /\ bill[b].due - Applied(bill[b].due, line[f][b].amount) \in Nat
      BY <2>1 DEF Applied
    <2>3. line' \in [Files -> [Bills -> Line]]
      BY <1>5, <2>1, <2>2 DEF Reconcile, Line
    <2>4. bill' \in [Bills -> Bill]
      BY <1>5, <2>1, <2>2 DEF Reconcile, Bill
    <2> QED
      BY <1>5, <2>3, <2>4 DEF Reconcile
  <1>6. ASSUME NEW b \in Bills, Unreconcile(f, b)
        PROVE  TypeOK'
    <2>1. bill[b] \in Bill /\ line[f][b] \in Line
      OBVIOUS
    <2>2. bill[b].due + line[f][b].reached \in Nat
      BY <2>1 DEF Bill, Line
    <2>3. line' \in [Files -> [Bills -> Line]]
      BY <1>6, <2>1 DEF Unreconcile, Line
    <2>4. bill' \in [Bills -> Bill]
      BY <1>6, <2>1, <2>2 DEF Unreconcile, Bill
    <2> QED
      BY <1>6, <2>3, <2>4 DEF Unreconcile
  <1> QED
    BY <1>1, <1>2, <1>3, <1>4, <1>5, <1>6 DEF Handle

\* Bills that are settled or changed by other ways stay well typed.
LEMMA SettleTypeOK ==
    ASSUME TypeOK, NEW b \in Bills, Settle(b)
    PROVE  TypeOK'
  <1> USE DEF TypeOK, Snapshot, Seen
  <1>0. bill[b] \in Bill
    OBVIOUS
  <1>1. ASSUME NEW x \in UNION {1..t : t \in Totals}, SettleOtherwise(b, x)
        PROVE  TypeOK'
    <2>1. x \in Nat
      BY FileAssumption
    <2>2. bill[b].due - x \in Nat /\ bill[b].other + x \in Nat
      BY <1>0, <1>1, <2>1 DEF SettleOtherwise, Bill
    <2>3. bill' \in [Bills -> Bill]
      BY <1>0, <1>1, <2>2 DEF SettleOtherwise, Bill
    <2>4. others' \in 0..MaxOther
      BY <1>1, FileAssumption DEF SettleOtherwise, Otherwise
    <2> QED
      BY <1>1, <2>3, <2>4 DEF SettleOtherwise, Otherwise
  <1>2. CASE ResetToDraft(b)
    <2>1. bill' \in [Bills -> Bill]
      BY <1>0, <1>2 DEF ResetToDraft, Bill
    <2>2. ASSUME NEW f \in Files
          PROVE  [line[f] EXCEPT ![b].reached = 0] \in [Bills -> Line]
      <3>1. line[f] \in [Bills -> Line] /\ line[f][b] \in Line
        OBVIOUS
      <3> QED
        BY <3>1 DEF Line
    <2>3. line' \in [Files -> [Bills -> Line]]
      BY <1>2, <2>2 DEF ResetToDraft
    <2>4. others' \in 0..MaxOther
      BY <1>2, FileAssumption DEF ResetToDraft, Otherwise
    <2> QED
      BY <1>2, <2>1, <2>3, <2>4 DEF ResetToDraft, Otherwise
  <1>3. ASSUME NEW t \in Totals, PostAgain(b, t)
        PROVE  TypeOK'
    <2>1. bill' \in [Bills -> Bill]
      BY <1>3, FileAssumption DEF PostAgain, Bill
    <2> QED
      BY <1>3, <2>1 DEF PostAgain
  <1> QED
    BY <1>1, <1>2, <1>3 DEF Settle, Credit, RegisterPayment

\* A generated draft keeps the types.
LEMMA GenerateTypeOK ==
    ASSUME TypeOK, NEW u \in Users, NEW f \in Files, Generate(u, f)
    PROVE  TypeOK'
  <1>1. request[u] \in Seen
    BY SeenIsTyped DEF Generate
  <1>2. line \in [Files -> [Bills -> Line]]
    BY DEF TypeOK, Snapshot, Seen
  <1>3. ASSUME NEW b \in Bills
        PROVE  (IF line[f][b].state = "draft"
                THEN [line[f][b] EXCEPT !.state = "exported", !.due0 = request[u].bill[b].due]
                ELSE line[f][b]) \in Line
    <2>1. request[u].bill[b].due \in Nat
      BY <1>1 DEF Seen, Bill
    <2>2. line[f][b] \in Line
      BY <1>2
    <2> DEFINE row == line[f][b]
               due == request[u].bill[b].due
    <2> HIDE DEF row, due
    <2>3. [row EXCEPT !.state = "exported", !.due0 = due] \in Line
      BY <2>1, <2>2 DEF Line, row, due
    <2> QED
      BY <2>2, <2>3 DEF row, due
  <1>4. line' \in [Files -> [Bills -> Line]]
    BY <1>2, <1>3 DEF Generate
  <1>5. Snapshot' \in Seen'
    BY <1>4 DEF Generate, TypeOK, Snapshot, Seen
  <1>6. request' \in [Users -> Seen \cup {None}]
    BY DEF Generate, TypeOK
  <1> QED
    BY <1>5, <1>6 DEF Generate, TypeOK, Seen

LEMMA ExportTypeOK ==
    ASSUME TypeOK, NEW u \in Users, Export(u)
    PROVE  TypeOK'
  <1>1. CASE Begin(u) \/ Abort(u)
    BY <1>1, RequestTypeOK
  <1>2. ASSUME NEW S \in SUBSET Bills, NEW amount \in Amounts(S), SaveDraft(u, S, amount)
        PROVE  TypeOK'
    <2>1. \A b \in S : amount[b] \in Nat
      BY AmountsAreNat
    <2> QED
      BY <1>2, <2>1, CreateTypeOK DEF SaveDraft
  <1>3. ASSUME NEW S \in SUBSET Bills, NEW amount \in Amounts(S), ExportBills(u, S, amount)
        PROVE  TypeOK'
    <2>1. \A b \in S : amount[b] \in Nat
      BY AmountsAreNat
    <2>2. request[u] \in Seen
      BY <1>3, SeenIsTyped DEF ExportBills, CreateFile
    <2>3. \A b \in S : [c \in Bills |-> request[u].bill[c].due][b] \in Nat
      BY <2>2 DEF Seen, Bill
    <2> QED
      BY <1>3, <2>1, <2>3, CreateTypeOK DEF ExportBills
  <1>4. ASSUME NEW f \in Files, Generate(u, f)
        PROVE  TypeOK'
    BY <1>4, GenerateTypeOK
  <1> QED
    BY <1>1, <1>2, <1>3, <1>4 DEF Export

LEMMA NextTypeOK == TypeOK /\ [Next]_vars => TypeOK'
  <1> SUFFICES ASSUME TypeOK, [Next]_vars PROVE TypeOK'
    OBVIOUS
  <1>1. CASE UNCHANGED vars
    BY <1>1 DEF vars, db, TypeOK, Snapshot, Seen
  <1>2. CASE Next
    BY <1>2, ExportTypeOK, HandleTypeOK, SettleTypeOK DEF Next
  <1> QED
    BY <1>1, <1>2

\* Every reachable state is well typed: no amount due goes below zero, whatever
\* is reconciled, undone, credited and edited in whatever order.
THEOREM TypeCorrect == Spec => []TypeOK
  <1>1. Init => TypeOK
    BY InitTypeOK
  <1>2. TypeOK /\ [Next]_vars => TypeOK'
    BY NextTypeOK
  <1> QED
    BY <1>1, <1>2, PTL DEF Spec

-----------------------------------------------------------------------------
(* One active line.  Only a new file makes a line pending, and the index lets *)
(* it commit only while the bill has none.                                    *)

NoMorePending ==
    \A f \in Files : \A b \in Bills : line'[f][b].state \in Pending => line[f][b].state \in Pending

LEMMA FewerPending ==
    ASSUME OneActiveLine, NoMorePending
    PROVE  OneActiveLine'
  BY DEF OneActiveLine, NoMorePending, Pending, Files

LEMMA CreateOneActive ==
    ASSUME TypeOK, OneActiveLine, NEW u, NEW S, NEW amount, NEW newState, NEW due0,
           CreateFile(u, S, amount, newState, due0)
    PROVE  OneActiveLine'
  <1>1. line \in [Files -> [Bills -> Line]] /\ made + 1 \in Files
    BY FileAssumption DEF CreateFile, TypeOK, Snapshot, Seen, Files
  <1>2. \A f \in Files \ {made + 1} : line'[f] = line[f]
    BY <1>1 DEF CreateFile
  <1>3. ASSUME NEW b \in Bills, line'[made + 1][b].state \in Pending
        PROVE  \A f \in Files : line[f][b].state \notin Pending
    <2>1. b \in S
      <3>1. line'[made + 1] = [c \in Bills |-> IF c \in S
                THEN [state |-> newState, amount |-> amount[c], due0 |-> due0[c], reached |-> 0]
                ELSE NoLine]
        BY <1>1 DEF CreateFile
      <3>2. NoLine.state \notin Pending
        BY DEF NoLine, Pending
      <3> QED
        BY <1>3, <3>1, <3>2
    <2> QED
      BY <2>1 DEF CreateFile, IndexAllows, MayBeSigned
  <1> QED
    BY <1>1, <1>2, <1>3 DEF OneActiveLine

LEMMA MoveState ==
    ASSUME TypeOK, NEW f \in Files, NEW S, NEW newState,
           line' = MoveLines(f, S, newState)
    PROVE  \A g \in Files : \A b \in Bills :
              /\ g = f /\ b \in S => line'[g][b].state = newState
              /\ g # f \/ b \notin S => line'[g][b].state = line[g][b].state
  <1>1. line \in [Files -> [Bills -> Line]]
    BY DEF TypeOK, Snapshot, Seen
  <1>2. ASSUME NEW b \in Bills
        PROVE  [line[f][b] EXCEPT !.state = newState].state = newState
    BY <1>1 DEF Line
  <1> QED
    BY <1>1, <1>2 DEF MoveLines

\* Cancelling a line moves that line only.
LEMMA CancelLineState ==
    ASSUME TypeOK, NEW f \in Files, NEW b \in Bills, CancelLine(f, b)
    PROVE  \A g \in Files : \A c \in Bills :
              /\ g = f /\ c = b => line'[g][c].state = "cancelled"
              /\ g # f \/ c # b => line'[g][c].state = line[g][c].state
  <1>1. line \in [Files -> [Bills -> Line]]
    BY DEF TypeOK, Snapshot, Seen
  <1>2. [line[f][b] EXCEPT !.state = "cancelled"].state = "cancelled"
    BY <1>1 DEF Line
  <1>3. \A c \in Bills : line'[f][c] = IF c = b THEN [line[f][b] EXCEPT !.state = "cancelled"] ELSE line[f][c]
    BY <1>1 DEF CancelLine, MoveLines
  <1>4. \A g \in Files \ {f} : line'[g] = line[g]
    BY <1>1 DEF CancelLine, MoveLines
  <1> QED
    BY <1>2, <1>3, <1>4

\* Generating moves draft lines to exported and touches no other state.
LEMMA GenerateState ==
    ASSUME TypeOK, NEW u, NEW f \in Files, Generate(u, f)
    PROVE  \A g \in Files : \A b \in Bills :
              line'[g][b].state = IF g = f /\ line[g][b].state = "draft"
                                  THEN "exported" ELSE line[g][b].state
  <1>1. line \in [Files -> [Bills -> Line]]
    BY DEF TypeOK, Snapshot, Seen
  <1>2. ASSUME NEW b \in Bills, NEW due
        PROVE  [line[f][b] EXCEPT !.state = "exported", !.due0 = due].state = "exported"
    BY <1>1 DEF Line
  <1> QED
    BY <1>1, <1>2 DEF Generate

\* Reconciling, undoing and settling leave the states of the lines alone.
LEMMA ReconcileState ==
    ASSUME TypeOK, NEW f \in Files, NEW b \in Bills, Reconcile(f, b) \/ Unreconcile(f, b)
    PROVE  \A g \in Files : \A c \in Bills : line'[g][c].state = line[g][c].state
  <1>1. line \in [Files -> [Bills -> Line]]
    BY DEF TypeOK, Snapshot, Seen
  <1>2. ASSUME NEW r, line' = [line EXCEPT ![f][b].reached = r]
        PROVE  \A g \in Files : \A c \in Bills : line'[g][c].state = line[g][c].state
    <2>1. [line[f][b] EXCEPT !.reached = r].state = line[f][b].state
      BY <1>1 DEF Line
    <2>2. ASSUME NEW g \in Files, NEW c \in Bills
          PROVE  line'[g][c] = IF g = f /\ c = b THEN [line[f][b] EXCEPT !.reached = r] ELSE line[g][c]
      BY <1>1, <1>2
    <2> QED
      BY <2>1, <2>2
  <1>3. CASE Reconcile(f, b)
    <2>1. line' = [line EXCEPT ![f][b].reached = Applied(bill[b].due, line[f][b].amount)]
      BY <1>3 DEF Reconcile
    <2> QED
      BY <2>1, <1>2
  <1>4. CASE Unreconcile(f, b)
    <2>1. line' = [line EXCEPT ![f][b].reached = 0]
      BY <1>4 DEF Unreconcile
    <2> QED
      BY <2>1, <1>2
  <1> QED
    BY <1>3, <1>4

LEMMA SettleState ==
    ASSUME TypeOK, NEW b \in Bills, Settle(b)
    PROVE  \A g \in Files : \A c \in Bills : line'[g][c].state = line[g][c].state
  <1>1. line \in [Files -> [Bills -> Line]]
    BY DEF TypeOK, Snapshot, Seen
  <1>2. CASE ResetToDraft(b)
    <2>1. ASSUME NEW g \in Files
          PROVE  [line[g][b] EXCEPT !.reached = 0].state = line[g][b].state
      BY <1>1 DEF Line
    <2>2. ASSUME NEW g \in Files, NEW c \in Bills
          PROVE  line'[g][c] = IF c = b THEN [line[g][b] EXCEPT !.reached = 0] ELSE line[g][c]
      BY <1>1, <1>2 DEF ResetToDraft
    <2> QED
      BY <2>1, <2>2
  <1>3. ASSUME line' = line
        PROVE  \A g \in Files : \A c \in Bills : line'[g][c].state = line[g][c].state
    BY <1>3
  <1> QED
    BY <1>2, <1>3 DEF Settle, Credit, RegisterPayment, SettleOtherwise, PostAgain

LEMMA HandleNoMorePending ==
    ASSUME TypeOK, NEW f \in Files, Handle(f)
    PROVE  NoMorePending
  <1>1. CASE MarkDone(f)
    BY <1>1, MoveState DEF MarkDone, NoMorePending, Pending
  <1>2. CASE CancelFile(f)
    BY <1>2, MoveState DEF CancelFile, NoMorePending, Pending
  <1>3. CASE DeleteFile(f)
    BY <1>3 DEF DeleteFile, NoLine, TypeOK, Snapshot, Seen, NoMorePending, Pending
  <1>4. ASSUME NEW b \in Bills, CancelLine(f, b)
        PROVE  NoMorePending
    BY <1>4, CancelLineState DEF NoMorePending, Pending
  <1>5. ASSUME NEW b \in Bills, Reconcile(f, b) \/ Unreconcile(f, b)
        PROVE  NoMorePending
    BY <1>5, ReconcileState DEF NoMorePending
  <1> QED
    BY <1>1, <1>2, <1>3, <1>4, <1>5 DEF Handle

LEMMA NextOneActive == TypeOK /\ OneActiveLine /\ [Next]_vars => OneActiveLine'
  <1> SUFFICES ASSUME TypeOK, OneActiveLine, [Next]_vars PROVE OneActiveLine'
    OBVIOUS
  <1>1. CASE UNCHANGED vars
    BY <1>1 DEF vars, db, OneActiveLine
  <1>2. ASSUME NEW u \in Users, Export(u)
        PROVE  OneActiveLine'
    <2>1. CASE Begin(u) \/ Abort(u)
      BY <2>1 DEF Begin, Abort, db, OneActiveLine
    <2>2. ASSUME NEW S, NEW amount, SaveDraft(u, S, amount) \/ ExportBills(u, S, amount)
          PROVE  OneActiveLine'
      BY <2>2, CreateOneActive DEF SaveDraft, ExportBills
    <2>3. ASSUME NEW f \in Files, Generate(u, f)
          PROVE  OneActiveLine'
      BY <2>3, GenerateState, FewerPending DEF NoMorePending, Pending
    <2> QED
      BY <1>2, <2>1, <2>2, <2>3 DEF Export
  <1>3. ASSUME NEW f \in Files, Handle(f)
        PROVE  OneActiveLine'
    BY <1>3, HandleNoMorePending, FewerPending
  <1>4. ASSUME NEW b \in Bills, Settle(b)
        PROVE  OneActiveLine'
    BY <1>4, SettleState, FewerPending DEF NoMorePending
  <1> QED
    BY <1>1, <1>2, <1>3, <1>4 DEF Next

\* No bill is ever in two files that may still be signed, whatever exports run at
\* the same time and whatever they have read (_move_active_uniq).
THEOREM AtMostOneActiveLine == Spec => []OneActiveLine
  <1>1. Init => OneActiveLine
    BY DEF Init, OneActiveLine, NoLine, Pending
  <1>2. TypeOK /\ OneActiveLine /\ [Next]_vars => OneActiveLine'
    BY NextOneActive
  <1> QED
    BY <1>1, <1>2, TypeCorrect, PTL DEF Spec

-----------------------------------------------------------------------------
(* The state of a file and of its lines. *)

LEMMA NextFileMatches == TypeOK /\ FileMatchesLines /\ [Next]_vars => FileMatchesLines'
  <1> SUFFICES ASSUME TypeOK, FileMatchesLines, [Next]_vars PROVE FileMatchesLines'
    OBVIOUS
  <1>0. /\ line \in [Files -> [Bills -> Line]]
        /\ file \in [Files -> {"none", "draft", "exported", "done", "cancelled"}]
    BY DEF TypeOK, Snapshot, Seen
  <1>1. CASE UNCHANGED vars
    BY <1>1 DEF vars, db, FileMatchesLines
  <1>2. ASSUME NEW u \in Users, Export(u)
        PROVE  FileMatchesLines'
    <2>1. CASE Begin(u) \/ Abort(u)
      BY <2>1 DEF Begin, Abort, db, FileMatchesLines
    <2>2. ASSUME NEW S, NEW amount, NEW newState, NEW due0, CreateFile(u, S, amount, newState, due0)
          PROVE  FileMatchesLines'
      <3>1. made + 1 \in Files
        BY <2>2, FileAssumption DEF CreateFile, TypeOK, Snapshot, Seen, Files
      <3>2. \A f \in Files \ {made + 1} : line'[f] = line[f] /\ file'[f] = file[f]
        BY <1>0, <2>2 DEF CreateFile
      <3>3. \A b \in Bills : line'[made + 1][b].state \in {"none", newState}
        BY <1>0, <2>2, <3>1 DEF CreateFile, NoLine
      <3>4. file'[made + 1] = newState
        BY <1>0, <2>2, <3>1 DEF CreateFile
      <3> QED
        BY <3>1, <3>2, <3>3, <3>4 DEF FileMatchesLines
    <2>3. ASSUME NEW f \in Files, Generate(u, f)
          PROVE  FileMatchesLines'
      <3>1. file[f] = "draft" /\ file' = [file EXCEPT ![f] = "exported"]
        BY <2>3 DEF Generate
      <3> QED
        BY <1>0, <2>3, <3>1, GenerateState DEF FileMatchesLines
    <2> QED
      BY <1>2, <2>1, <2>2, <2>3 DEF Export, SaveDraft, ExportBills
  <1>3. ASSUME NEW f \in Files, Handle(f)
        PROVE  FileMatchesLines'
    <2>1. CASE MarkDone(f)
      <3>1. PICK S : S = InState(f, {"exported"}) /\ line' = MoveLines(f, S, "done")
        BY <2>1 DEF MarkDone
      <3>2. file[f] = "exported" /\ file' = [file EXCEPT ![f] = "done"]
        BY <2>1 DEF MarkDone
      <3>3. \A g \in Files : \A c \in Bills :
              /\ g = f /\ c \in S => line'[g][c].state = "done"
              /\ g # f \/ c \notin S => line'[g][c].state = line[g][c].state
        BY <3>1, MoveState
      <3> QED
        BY <1>0, <3>1, <3>2, <3>3 DEF FileMatchesLines, InState
    <2>2. CASE CancelFile(f)
      <3>1. PICK S : S = InState(f, Pending) /\ line' = MoveLines(f, S, "cancelled")
        BY <2>2 DEF CancelFile
      <3>2. file[f] \in Pending /\ file' = [file EXCEPT ![f] = "cancelled"]
        BY <2>2 DEF CancelFile
      <3>3. \A g \in Files : \A c \in Bills :
              /\ g = f /\ c \in S => line'[g][c].state = "cancelled"
              /\ g # f \/ c \notin S => line'[g][c].state = line[g][c].state
        BY <3>1, MoveState
      <3> QED
        <4> SUFFICES ASSUME NEW g \in Files, NEW c \in Bills
                     PROVE  line'[g][c].state \in {"none", "cancelled", file'[g]}
          BY DEF FileMatchesLines
        <4>1. line[g][c].state \in {"none", "cancelled", file[g]}
          BY <1>0 DEF FileMatchesLines
        <4>2. CASE g # f
          BY <1>0, <3>2, <3>3, <4>1, <4>2
        <4>3. CASE g = f /\ c \in S
          BY <3>3, <4>3
        <4>4. CASE g = f /\ c \notin S
          <5>1. line[f][c].state \notin Pending /\ line'[f][c].state = line[f][c].state
            BY <3>1, <3>3, <4>4 DEF InState
          <5> QED
            BY <3>2, <4>1, <4>4, <5>1
        <4> QED
          BY <4>2, <4>3, <4>4
    <2>3. CASE DeleteFile(f)
      <3>1. line'[f] = [b \in Bills |-> NoLine]
        BY <1>0, <2>3 DEF DeleteFile
      <3>2. \A g \in Files \ {f} : line'[g] = line[g] /\ file'[g] = file[g]
        BY <1>0, <2>3 DEF DeleteFile
      <3> QED
        BY <3>1, <3>2 DEF FileMatchesLines, NoLine
    <2>4. ASSUME NEW b \in Bills, CancelLine(f, b)
          PROVE  FileMatchesLines'
      <3>2. \A g \in Files : \A c \in Bills :
              /\ g = f /\ c = b => line'[g][c].state = "cancelled"
              /\ g # f \/ c # b => line'[g][c].state = line[g][c].state
        BY <2>4, CancelLineState
      <3>3. CASE InState(f, {"draft", "exported", "done"}) = {b}
        <4>1. file' = [file EXCEPT ![f] = "cancelled"]
          BY <2>4, <3>3 DEF CancelLine
        <4>2. \A c \in Bills \ {b} : line[f][c].state \in {"none", "cancelled"}
          BY <1>0, <3>3 DEF InState, Line
        <4>3. \A c \in Bills : line'[f][c].state \in {"none", "cancelled", file'[f]}
          BY <3>2, <4>2
        <4>4. ASSUME NEW g \in Files \ {f}, NEW c \in Bills
              PROVE  line'[g][c].state \in {"none", "cancelled", file'[g]}
          <5>1. line'[g][c].state = line[g][c].state /\ file'[g] = file[g]
            BY <1>0, <3>2, <4>1
          <5> QED
            BY <5>1 DEF FileMatchesLines
        <4> QED
          BY <4>3, <4>4 DEF FileMatchesLines
      <3>4. CASE InState(f, {"draft", "exported", "done"}) # {b}
        <4>1. file' = file
          BY <2>4, <3>4 DEF CancelLine
        <4> QED
          BY <3>2, <4>1 DEF FileMatchesLines
      <3> QED
        BY <3>3, <3>4
    <2>5. ASSUME NEW b \in Bills, Reconcile(f, b) \/ Unreconcile(f, b)
          PROVE  FileMatchesLines'
      BY <2>5, ReconcileState DEF Reconcile, Unreconcile, FileMatchesLines
    <2> QED
      BY <1>3, <2>1, <2>2, <2>3, <2>4, <2>5 DEF Handle
  <1>4. ASSUME NEW b \in Bills, Settle(b)
        PROVE  FileMatchesLines'
    <2>1. file' = file
      BY <1>4 DEF Settle, Credit, RegisterPayment, SettleOtherwise, ResetToDraft, PostAgain, Otherwise
    <2> QED
      BY <1>4, <2>1, SettleState DEF FileMatchesLines
  <1> QED
    BY <1>1, <1>2, <1>3, <1>4 DEF Next

\* A file's state says what its lines are: a draft has sent nothing, a cancelled or
\* done file has nothing left to sign (action_generate, action_cancel, action_done).
THEOREM FileAndLinesAgree == Spec => []FileMatchesLines
  <1>1. Init => FileMatchesLines
    BY DEF Init, FileMatchesLines, NoLine
  <1>2. TypeOK /\ FileMatchesLines /\ [Next]_vars => FileMatchesLines'
    BY NextFileMatches
  <1> QED
    BY <1>1, <1>2, TypeCorrect, PTL DEF Spec
-----------------------------------------------------------------------------
(* Sums of payments.  A bill's payments are a column of lines, by file; their *)
(* sum is the number of their crowns.                                         *)

Alive == {"draft", "exported", "done"}

Column(rows, b) == [f \in Files |-> rows[f][b]]

Sent(col) == {f \in Files : col[f].state \in Alive}
Arrived(col) == {f \in Files : col[f].reached > 0}
Before(col, f) == {g \in Sent(col) : g < f}

Crowns(col, F) == UNION {{f} \X (1..col[f].amount) : f \in F}
Sum(col, F) == Cardinality(Crowns(col, F))

LEMMA OnePayment ==
    ASSUME NEW f, NEW n \in Nat
    PROVE  IsFiniteSet({f} \X (1..n)) /\ Cardinality({f} \X (1..n)) = n
  <1>1. IsFiniteSet({f}) /\ Cardinality({f}) = 1
    BY FS_Singleton
  <1>2. IsFiniteSet(1..n) /\ Cardinality(1..n) = n
    BY FS_Interval
  <1> DEFINE S == {f}
             T == 1..n
  <1>3. IsFiniteSet(S) /\ IsFiniteSet(T) /\ Cardinality(S) = 1 /\ Cardinality(T) = n
    BY <1>1, <1>2
  <1> HIDE DEF S, T
  <1>4. /\ IsFiniteSet(S \X T)
        /\ Cardinality(S \X T) = Cardinality(S) * Cardinality(T)
    BY <1>3, FS_Product
  <1>5. Cardinality(S) * Cardinality(T) = n
    BY <1>3
  <1>6. IsFiniteSet(S \X T) /\ Cardinality(S \X T) = n
    BY <1>4, <1>5
  <1> QED
    BY <1>6 DEF S, T

LEMMA SumIsNat ==
    ASSUME NEW col \in [Files -> Line], NEW F \in SUBSET Files
    PROVE  IsFiniteSet(Crowns(col, F)) /\ Sum(col, F) \in Nat
  <1> DEFINE part == [f \in F |-> {f} \X (1..col[f].amount)]
             T == {part[f] : f \in F}
  <1>1. IsFiniteSet(F)
    <2>1. IsFiniteSet(Files)
      BY FileAssumption, FS_Interval DEF Files
    <2> QED
      BY <2>1, FS_Subset
  <1>2. IsFiniteSet(T)
    <2>1. part \in Surjection(F, T)
      BY DEF Surjection
    <2> QED
      BY <1>1, <2>1, FS_Surjection
  <1>3. \A t \in T : IsFiniteSet(t)
    <2>1. ASSUME NEW f \in F PROVE IsFiniteSet(part[f])
      <3>1. col[f].amount \in Nat
        BY DEF Line
      <3> QED
        BY <3>1, OnePayment
    <2> QED
      BY <2>1
  <1>4. IsFiniteSet(UNION T)
    BY <1>2, <1>3, FS_UNION
  <1>5. Crowns(col, F) = UNION T
    BY DEF Crowns
  <1> QED
    BY <1>4, <1>5, FS_CardinalityType DEF Sum

LEMMA SumMonotone ==
    ASSUME NEW col \in [Files -> Line], NEW F \in SUBSET Files, NEW G \in SUBSET F
    PROVE  Sum(col, G) <= Sum(col, F)
  <1>1. Crowns(col, G) \subseteq Crowns(col, F)
    BY DEF Crowns
  <1> QED
    BY <1>1, SumIsNat, FS_Subset DEF Sum

LEMMA SumOfTwo ==
    ASSUME NEW col \in [Files -> Line], NEW F \in SUBSET Files, NEW G \in SUBSET Files,
           F \cap G = {}
    PROVE  Sum(col, F \cup G) = Sum(col, F) + Sum(col, G)
  <1>1. Crowns(col, F \cup G) = Crowns(col, F) \cup Crowns(col, G)
    BY DEF Crowns
  <1>2. Crowns(col, F) \cap Crowns(col, G) = {}
    BY DEF Crowns
  <1>3. IsFiniteSet(Crowns(col, F)) /\ IsFiniteSet(Crowns(col, G))
    BY SumIsNat
  <1>4. Cardinality(Crowns(col, F) \cup Crowns(col, G))
          = Cardinality(Crowns(col, F)) + Cardinality(Crowns(col, G)) - Cardinality({})
    BY <1>2, <1>3, FS_Union
  <1>5. Cardinality({}) = 0
    BY FS_EmptySet
  <1>6. Sum(col, F) \in Nat /\ Sum(col, G) \in Nat
    BY SumIsNat
  <1>7. Sum(col, F \cup G) = Sum(col, F) + Sum(col, G) - 0
    BY <1>1, <1>4, <1>5 DEF Sum
  <1> QED
    BY <1>6, <1>7

LEMMA SumAddOne ==
    ASSUME NEW col \in [Files -> Line], NEW F \in SUBSET Files, NEW f \in Files, f \notin F
    PROVE  Sum(col, F \cup {f}) = Sum(col, F) + col[f].amount
  <1>1. Sum(col, F \cup {f}) = Sum(col, F) + Sum(col, {f})
    BY SumOfTwo
  <1>2. Crowns(col, {f}) = {f} \X (1..col[f].amount)
    BY DEF Crowns
  <1>3. col[f].amount \in Nat
    BY DEF Line
  <1> QED
    BY <1>1, <1>2, <1>3, OnePayment DEF Sum

LEMMA SameSum ==
    ASSUME NEW c, NEW d, NEW F, \A f \in F : c[f].amount = d[f].amount
    PROVE  Sum(c, F) = Sum(d, F)
  <1>1. Crowns(c, F) = Crowns(d, F)
    BY DEF Crowns
  <1> QED
    BY <1>1 DEF Sum

\* The newest of a bill's files.
LEMMA LeastExists ==
    ASSUME NEW S \in SUBSET Nat, S # {}
    PROVE  \E n \in S : \A m \in S : n <= m
  <1>1. PICK n \in S : \A m \in Nat : <<m, n>> \in OpToRel(<, Nat) => m \notin S
    BY WFMin, NatLessThanWellFounded
  <1>2. \A m \in S : ~(m < n)
    BY <1>1 DEF OpToRel
  <1> QED
    BY <1>2

LEMMA NewestExists ==
    ASSUME NEW F \in SUBSET Files, F # {}
    PROVE  \E n \in F : \A f \in F : f <= n
  <1> DEFINE T == {MaxFiles - f : f \in F}
  <1>1. T \in SUBSET Nat /\ T # {}
    <2>1. \A f \in F : MaxFiles - f \in Nat
      BY FileAssumption DEF Files
    <2> QED
      BY <2>1
  <1>2. PICK k \in T : \A m \in T : k <= m
    BY <1>1, LeastExists
  <1>3. PICK n \in F : k = MaxFiles - n
    BY <1>2
  <1>4. ASSUME NEW f \in F PROVE f <= n
    <2>1. MaxFiles - f \in T
      OBVIOUS
    <2>2. MaxFiles - n <= MaxFiles - f
      BY <1>2, <1>3, <2>1
    <2> QED
      BY <2>2, FileAssumption DEF Files
  <1> QED
    BY <1>4
-----------------------------------------------------------------------------
(* Why a bill is held and not paid twice.  Each payment that is signed or     *)
(* sent was checked when all the older ones had arrived, so the amount due it *)
(* was written with is what the older ones leave of the total.                *)

PaidRight(x, col) ==
    /\ x.due + Sum(col, Arrived(col)) = x.total
    /\ Sum(col, Sent(col)) <= x.total
    /\ \A f \in Sent(col) : col[f].amount > 0
    /\ \A f \in Arrived(col) :
          col[f].state \in {"exported", "done"} /\ col[f].reached = col[f].amount
    /\ \A f \in Sent(col) : \A g \in Before(col, f) : col[g].state = "done"
    /\ \A f \in Sent(col) :
          col[f].state # "draft" => col[f].due0 + Sum(col, Before(col, f)) = x.total

LEMMA ArrivedWereSent ==
    ASSUME NEW x, NEW col, PaidRight(x, col)
    PROVE  Arrived(col) \subseteq Sent(col)
  BY DEF PaidRight, Arrived, Sent, Alive

\* While a payment has not arrived, one holds the bill: the newest, if the bill is
\* in no file that may be signed.  So a bill that may be paid has got them all.
LEMMA FreeOnceArrived ==
    ASSUME NEW x \in Bill, NEW col \in [Files -> Line], PaidRight(x, col),
           NEW own, own \in Files => col[own].state = "draft",
           \A f \in Files \ {own} : ~Holds(col[f], x.due)
    PROVE  /\ Arrived(col) = Sent(col) \ {own}
           /\ \A f \in Sent(col) \ {own} : col[f].state = "done"
  <1> DEFINE U == Sent(col) \ {own}
  <1>1. \A f \in U : f \in Files /\ col[f].state = "done"
    BY DEF Sent, Alive, Holds, Pending
  <1>2. Arrived(col) \subseteq U
    <2>1. own \notin Arrived(col)
      BY DEF PaidRight, Arrived
    <2> QED
      BY <2>1, ArrivedWereSent
  <1>3. ASSUME NEW f \in U, f \notin Arrived(col)
        PROVE  FALSE
    <2>1. U \in SUBSET Files /\ U # {}
      BY <1>1, <1>3
    <2>2. PICK n \in U : \A g \in U : g <= n
      BY <2>1, NewestExists
    <2>3. n \in Files /\ n \in Sent(col) /\ col[n] \in Line /\ col[n].state = "done"
      BY <1>1, <2>2
    <2>4. Before(col, n) = U \ {n}
      <3>1. own \in Sent(col) => ~(own < n)
        <4>1. ASSUME own \in Sent(col), own < n PROVE FALSE
          <5>1. \A g \in Before(col, own) : col[g].state = "done"
            BY <4>1 DEF PaidRight
          <5>2. own \in Before(col, n)
            BY <4>1 DEF Before
          <5>3. col[own].state = "done"
            BY <2>3, <5>2 DEF PaidRight
          <5> QED
            BY <4>1, <5>3 DEF Sent
        <4> QED
          BY <4>1
      <3>2. \A g \in U : g < n <=> g # n
        BY <2>1, <2>2 DEF Files
      <3> QED
        BY <3>1, <3>2 DEF Before
    <2>5. col[n].due0 + Sum(col, U \ {n}) = x.total
      BY <2>3, <2>4 DEF PaidRight
    <2>6. Sum(col, U) = Sum(col, U \ {n}) + col[n].amount
      <3>1. U = (U \ {n}) \cup {n}
        BY <2>2
      <3> QED
        BY <2>1, <2>3, <3>1, SumAddOne
    <2>7. Sum(col, Arrived(col) \cup {f}) = Sum(col, Arrived(col)) + col[f].amount
      BY <1>1, <1>2, <1>3, <2>1, SumAddOne
    <2>8. Sum(col, Arrived(col) \cup {f}) <= Sum(col, U)
      BY <1>2, <1>3, <2>1, SumMonotone
    <2>9. x.due + Sum(col, Arrived(col)) = x.total /\ col[f].amount > 0
      BY <1>3 DEF PaidRight
    <2>10. /\ x.due \in Nat /\ x.total \in Nat
           /\ col[n].due0 \in Nat /\ col[n].amount \in Nat /\ col[f].amount \in Nat
      BY <1>1, <1>3, <2>3 DEF Bill, Line
    <2>11. /\ Sum(col, U) \in Nat /\ Sum(col, U \ {n}) \in Nat
           /\ Sum(col, Arrived(col)) \in Nat /\ Sum(col, Arrived(col) \cup {f}) \in Nat
      BY <1>1, <1>2, <2>1, SumIsNat
    <2>12. col[n].due0 - x.due < col[n].amount
      <3> HIDE DEF U
      <3> QED
        BY <2>5, <2>6, <2>7, <2>8, <2>9, <2>10, <2>11
    <2> QED
      BY <2>2, <2>3, <2>12 DEF Holds
  <1> QED
    BY <1>1, <1>2, <1>3

\* What is on its way is not more than what is due.
LEMMA NoMoreThanDue ==
    ASSUME NEW x \in Bill, NEW col \in [Files -> Line], PaidRight(x, col),
           NEW F \in SUBSET Sent(col), F \cap Arrived(col) = {}
    PROVE  Sum(col, F) <= x.due
  <1>1. Sent(col) \in SUBSET Files /\ Arrived(col) \in SUBSET Sent(col)
    BY ArrivedWereSent DEF Sent
  <1>2. Sum(col, F \cup Arrived(col)) = Sum(col, F) + Sum(col, Arrived(col))
    BY <1>1, SumOfTwo
  <1>3. Sum(col, F \cup Arrived(col)) <= Sum(col, Sent(col))
    BY <1>1, SumMonotone
  <1>4. /\ Sum(col, F) \in Nat /\ Sum(col, Arrived(col)) \in Nat /\ Sum(col, Sent(col)) \in Nat
    BY <1>1, SumIsNat
  <1>5. x.due \in Nat /\ x.total \in Nat
    BY DEF Bill
  <1>6. /\ x.due + Sum(col, Arrived(col)) = x.total
        /\ Sum(col, Sent(col)) <= x.total
    BY DEF PaidRight
  <1> QED
    BY <1>2, <1>3, <1>4, <1>5, <1>6
-----------------------------------------------------------------------------
(* What the actions do to a bill's column of payments.                        *)

\* A new payment of what the older ones, all arrived, leave of the total.
LEMMA NewPayment ==
    ASSUME NEW x \in Bill, NEW col \in [Files -> Line], PaidRight(x, col),
           NEW f \in Files, \A g \in Files : g >= f => col[g].state = "none",
           \A g \in Sent(col) : col[g].state = "done",
           NEW next \in [Files -> Line], \A g \in Files \ {f} : next[g] = col[g],
           next[f].state \in Pending, next[f].amount > 0, next[f].reached = 0,
           Sum(col, Sent(col)) + next[f].amount <= x.total,
           next[f].state # "draft" => next[f].due0 + Sum(col, Sent(col)) = x.total
    PROVE  PaidRight(x, next)
  <1>2. f \notin Sent(col) /\ f \notin Arrived(col) /\ Sent(col) \in SUBSET Files
    BY DEF Sent, Alive, PaidRight, Arrived, Files
  <1>3. Sent(next) = Sent(col) \cup {f}
    BY DEF Sent, Alive, Pending
  <1>4. Arrived(next) = Arrived(col)
    BY <1>2 DEF Arrived
  <1>5. Arrived(col) \in SUBSET Sent(col)
    BY ArrivedWereSent
  <1>6. Before(next, f) = Sent(col)
    <2>1. \A g \in Sent(col) : g < f
      BY <1>2 DEF Sent, Alive, Files
    <2>2. ~(f < f)
      BY DEF Files
    <2> QED
      BY <1>3, <2>1, <2>2 DEF Before
  <1>7. ASSUME NEW g \in Sent(col) PROVE Before(next, g) = Before(col, g)
    <2>1. ~(f < g)
      BY <1>2 DEF Sent, Alive, Files
    <2> QED
      BY <1>3, <2>1 DEF Before
  <1>8. ASSUME NEW F \in SUBSET Sent(col) PROVE Sum(next, F) = Sum(col, F)
    <2>1. \A g \in F : next[g].amount = col[g].amount
      BY <1>2
    <2> QED
      BY <2>1, SameSum
  <1>9. Sum(next, Sent(next)) = Sum(col, Sent(col)) + next[f].amount
    BY <1>2, <1>3, <1>8, SumAddOne
  <1>10. x.due + Sum(next, Arrived(next)) = x.total
    BY <1>4, <1>5, <1>8 DEF PaidRight
  <1>11. Sum(next, Sent(next)) <= x.total
    BY <1>9
  <1>12. \A g \in Sent(next) : next[g].amount > 0
    BY <1>2, <1>3 DEF PaidRight
  <1>13. \A g \in Arrived(next) :
            next[g].state \in {"exported", "done"} /\ next[g].reached = next[g].amount
    BY <1>2, <1>4, <1>5 DEF PaidRight
  <1>14. \A g \in Sent(next) : \A h \in Before(next, g) : next[h].state = "done"
    <2>1. \A h \in Sent(col) : next[h].state = "done"
      BY <1>2
    <2>2. \A g \in Sent(col) : Before(col, g) \subseteq Sent(col)
      BY DEF Before
    <2>3. ASSUME NEW g \in Sent(next) PROVE Before(next, g) \subseteq Sent(col)
      BY <1>3, <1>6, <1>7, <2>2
    <2> QED
      BY <2>1, <2>3
  <1>15. ASSUME NEW g \in Sent(next), next[g].state # "draft"
         PROVE  next[g].due0 + Sum(next, Before(next, g)) = x.total
    <2>1. CASE g = f
      BY <1>6, <1>8, <1>15, <2>1
    <2>2. CASE g # f
      <3>1. g \in Sent(col) /\ next[g] = col[g] /\ Before(col, g) \subseteq Sent(col)
        BY <1>2, <1>3, <2>2 DEF Before
      <3>2. Sum(next, Before(next, g)) = Sum(col, Before(col, g))
        BY <1>7, <1>8, <3>1
      <3>3. col[g].due0 + Sum(col, Before(col, g)) = x.total
        BY <1>15, <3>1 DEF PaidRight
      <3> QED
        BY <3>1, <3>2, <3>3
    <2> QED
      BY <2>1, <2>2
  <1> QED
    BY <1>10, <1>11, <1>12, <1>13, <1>14, <1>15 DEF PaidRight

\* A payment moves on: it is still the same payment, and one that leaves the
\* drafts is written with what the others leave of the total.
LEMMA MovedOn ==
    ASSUME NEW x \in Bill, NEW col \in [Files -> Line], PaidRight(x, col),
           NEW f \in Sent(col), NEW next \in [Files -> Line],
           \A g \in Files \ {f} : next[g] = col[g],
           next[f].state \in {"exported", "done"},
           next[f].amount = col[f].amount, next[f].reached = col[f].reached,
           next[f].due0 + Sum(col, Before(col, f)) = x.total,
           col[f].state = "done" => next[f].state = "done"
    PROVE  PaidRight(x, next)
  <1>1. Sent(next) = Sent(col)
    BY DEF Sent, Alive
  <1>2. Arrived(next) = Arrived(col)
    BY DEF Arrived
  <1>3. \A g \in Sent(next) : Before(next, g) = Before(col, g)
    BY <1>1 DEF Before
  <1>4. ASSUME NEW F PROVE Sum(next, F \cap Files) = Sum(col, F \cap Files)
    <2>1. \A g \in F \cap Files : next[g].amount = col[g].amount
      OBVIOUS
    <2> QED
      BY <2>1, SameSum
  <1>5. ASSUME NEW F \in SUBSET Files PROVE Sum(next, F) = Sum(col, F)
    <2>1. F \cap Files = F
      OBVIOUS
    <2> QED
      BY <1>4, <2>1
  <1>6. Sent(col) \in SUBSET Files /\ Arrived(col) \in SUBSET Files
    BY DEF Sent, Arrived
  <1>7. \A g \in Sent(col) : Before(col, g) \in SUBSET Files
    BY <1>6 DEF Before
  <1>8. x.due + Sum(next, Arrived(next)) = x.total /\ Sum(next, Sent(next)) <= x.total
    BY <1>1, <1>2, <1>5, <1>6 DEF PaidRight
  <1>9. \A g \in Sent(next) : next[g].amount > 0
    BY <1>1, <1>6 DEF PaidRight
  <1>10. \A g \in Arrived(next) :
            next[g].state \in {"exported", "done"} /\ next[g].reached = next[g].amount
    BY <1>2, <1>6 DEF PaidRight
  <1>11. \A g \in Sent(next) : \A h \in Before(next, g) : next[h].state = "done"
    BY <1>1, <1>3, <1>6, <1>7 DEF PaidRight
  <1>12. ASSUME NEW g \in Sent(next), next[g].state # "draft"
         PROVE  next[g].due0 + Sum(next, Before(next, g)) = x.total
    <2>1. Sum(next, Before(next, g)) = Sum(col, Before(col, g))
      BY <1>1, <1>3, <1>5, <1>7
    <2>2. CASE g = f
      BY <2>1, <2>2
    <2>3. CASE g # f
      <3>1. next[g] = col[g] /\ g \in Sent(col)
        BY <1>1, <1>6, <2>3
      <3> QED
        BY <1>12, <2>1, <3>1 DEF PaidRight
    <2> QED
      BY <2>2, <2>3
  <1> QED
    BY <1>8, <1>9, <1>10, <1>11, <1>12 DEF PaidRight

\* A payment that has not been sent, or has not arrived and can still be stopped, is
\* taken away.
LEMMA TakenAway ==
    ASSUME NEW x \in Bill, NEW col \in [Files -> Line], PaidRight(x, col),
           NEW f \in Files, col[f].state # "done", col[f].reached = 0,
           NEW next \in [Files -> Line], \A g \in Files \ {f} : next[g] = col[g],
           next[f].state \notin Alive, next[f].reached = 0
    PROVE  PaidRight(x, next)
  <1>1. Sent(next) = Sent(col) \ {f}
    BY DEF Sent
  <1>2. Arrived(next) = Arrived(col) /\ f \notin Arrived(col)
    BY DEF Arrived
  <1>3. ASSUME NEW g \in Sent(next) PROVE Before(next, g) = Before(col, g)
    <2>1. g \in Sent(col)
      BY <1>1
    <2>2. f \notin Before(col, g)
      BY <2>1 DEF PaidRight
    <2> QED
      BY <1>1, <2>2 DEF Before
  <1>4. ASSUME NEW F \in SUBSET (Files \ {f}) PROVE Sum(next, F) = Sum(col, F)
    <2>1. \A g \in F : next[g].amount = col[g].amount
      OBVIOUS
    <2> QED
      BY <2>1, SameSum
  <1>5. /\ Sent(next) \in SUBSET (Files \ {f}) /\ Arrived(next) \in SUBSET (Files \ {f})
        /\ Sent(col) \in SUBSET Files
    BY <1>1, <1>2 DEF Sent, Arrived
  <1>6. \A g \in Sent(next) : Before(next, g) \in SUBSET (Files \ {f})
    BY <1>5 DEF Before
  <1>7. x.due + Sum(next, Arrived(next)) = x.total
    BY <1>2, <1>4, <1>5 DEF PaidRight
  <1>8. Sum(next, Sent(next)) <= x.total
    <2>1. Sum(next, Sent(next)) = Sum(col, Sent(next))
      BY <1>4, <1>5
    <2>2. Sum(col, Sent(next)) <= Sum(col, Sent(col))
      BY <1>1, <1>5, SumMonotone
    <2>3. /\ Sum(col, Sent(next)) \in Nat /\ Sum(col, Sent(col)) \in Nat /\ x.total \in Nat
      BY <1>1, <1>5, SumIsNat DEF Bill
    <2>4. Sum(col, Sent(col)) <= x.total
      BY DEF PaidRight
    <2> QED
      BY <2>1, <2>2, <2>3, <2>4
  <1>9. \A g \in Sent(next) : next[g].amount > 0
    BY <1>1, <1>5 DEF PaidRight
  <1>10. \A g \in Arrived(next) :
            next[g].state \in {"exported", "done"} /\ next[g].reached = next[g].amount
    BY <1>2, <1>5 DEF PaidRight
  <1>11. ASSUME NEW g \in Sent(next), NEW h \in Before(next, g)
         PROVE  next[h].state = "done"
    <2>1. h \in Files \ {f} /\ h \in Before(col, g) /\ g \in Sent(col)
      BY <1>1, <1>3, <1>6
    <2> QED
      BY <2>1 DEF PaidRight
  <1>12. ASSUME NEW g \in Sent(next), next[g].state # "draft"
         PROVE  next[g].due0 + Sum(next, Before(next, g)) = x.total
    <2>1. Sum(next, Before(next, g)) = Sum(col, Before(col, g))
      BY <1>3, <1>4, <1>6
    <2>2. next[g] = col[g] /\ g \in Sent(col)
      BY <1>1, <1>5
    <2> QED
      BY <1>12, <2>1, <2>2 DEF PaidRight
  <1> QED
    BY <1>7, <1>8, <1>9, <1>10, <1>11, <1>12 DEF PaidRight
\* A payment that has not arrived is not more than what is due.
LEMMA FitsInDue ==
    ASSUME NEW x \in Bill, NEW col \in [Files -> Line], PaidRight(x, col),
           NEW f \in Sent(col), col[f].reached = 0
    PROVE  col[f].amount <= x.due
  <1>1. f \in Files /\ f \notin Arrived(col)
    BY DEF Sent, Arrived
  <1>2. Sum(col, {f}) <= x.due
    BY <1>1, NoMoreThanDue
  <1>3. Sum(col, {} \cup {f}) = Sum(col, {}) + col[f].amount
    BY <1>1, SumAddOne
  <1>4. Sum(col, {}) \in Nat
    BY SumIsNat
  <1>5. {} \cup {f} = {f}
    OBVIOUS
  <1>6. col[f].amount \in Nat /\ x.due \in Nat
    BY <1>1 DEF Line, Bill
  <1>7. Sum(col, {f}) = Sum(col, {}) + col[f].amount
    BY <1>3, <1>5
  <1>8. Sum(col, {f}) \in Nat
    BY <1>1, SumIsNat
  <1> QED
    BY <1>2, <1>4, <1>6, <1>7, <1>8

\* Only what has arrived and what is due may change.
LEMMA OnlyArrived ==
    ASSUME NEW x \in Bill, NEW col \in [Files -> Line], PaidRight(x, col),
           NEW y \in Bill, NEW next \in [Files -> Line],
           y.total = x.total, y.due + Sum(col, Arrived(next)) = x.total,
           \A g \in Files : /\ next[g].state = col[g].state
                            /\ next[g].amount = col[g].amount
                            /\ next[g].due0 = col[g].due0,
           \A g \in Arrived(next) :
              next[g].state \in {"exported", "done"} /\ next[g].reached = next[g].amount
    PROVE  PaidRight(y, next)
  <1>1. Sent(next) = Sent(col)
    BY DEF Sent
  <1>2. \A g : Before(next, g) = Before(col, g)
    BY <1>1 DEF Before
  <1>3. ASSUME NEW F \in SUBSET Files PROVE Sum(next, F) = Sum(col, F)
    <2>1. \A g \in F : next[g].amount = col[g].amount
      OBVIOUS
    <2> QED
      BY <2>1, SameSum
  <1>4. Sent(col) \in SUBSET Files /\ Arrived(next) \in SUBSET Files
    BY DEF Sent, Arrived
  <1>5. \A g : Before(col, g) \in SUBSET Files
    BY <1>4 DEF Before
  <1>6. y.due + Sum(next, Arrived(next)) = y.total /\ Sum(next, Sent(next)) <= y.total
    BY <1>1, <1>3, <1>4 DEF PaidRight
  <1>7. \A g \in Sent(next) : next[g].amount > 0
    BY <1>1, <1>4 DEF PaidRight
  <1>8. ASSUME NEW g \in Sent(next), NEW h \in Before(next, g)
        PROVE  next[h].state = "done"
    <2>1. h \in Files /\ h \in Before(col, g) /\ g \in Sent(col)
      BY <1>1, <1>2, <1>5
    <2> QED
      BY <2>1 DEF PaidRight
  <1>9. ASSUME NEW g \in Sent(next), next[g].state # "draft"
        PROVE  next[g].due0 + Sum(next, Before(next, g)) = y.total
    <2>1. g \in Files /\ g \in Sent(col)
      BY <1>1, <1>4
    <2>2. Sum(next, Before(next, g)) = Sum(col, Before(col, g))
      BY <1>2, <1>3, <1>5
    <2>3. col[g].due0 + Sum(col, Before(col, g)) = x.total
      BY <1>9, <2>1 DEF PaidRight
    <2> QED
      BY <2>1, <2>2, <2>3
  <1> QED
    BY <1>6, <1>7, <1>8, <1>9 DEF PaidRight

\* A payment arrives, in full.
LEMMA Arrives ==
    ASSUME NEW x \in Bill, NEW col \in [Files -> Line], PaidRight(x, col),
           NEW f \in Files, col[f].state \in {"exported", "done"}, col[f].reached = 0,
           NEW y \in Bill, y.total = x.total, y.due = x.due - col[f].amount,
           NEW next \in [Files -> Line], \A g \in Files \ {f} : next[g] = col[g],
           next[f].state = col[f].state, next[f].amount = col[f].amount,
           next[f].due0 = col[f].due0, next[f].reached = col[f].amount
    PROVE  PaidRight(y, next)
  <1>1. f \in Sent(col) /\ f \notin Arrived(col) /\ Arrived(col) \in SUBSET Files
    BY DEF Sent, Alive, Arrived
  <1>2. col[f].amount > 0
    BY <1>1 DEF PaidRight
  <1>3. Arrived(next) = Arrived(col) \cup {f}
    BY <1>2 DEF Arrived
  <1>4. Sum(col, Arrived(next)) = Sum(col, Arrived(col)) + col[f].amount
    BY <1>1, <1>3, SumAddOne
  <1>5. x.due + Sum(col, Arrived(col)) = x.total
    BY DEF PaidRight
  <1>6. /\ x.due \in Nat /\ x.total \in Nat /\ col[f].amount \in Nat
        /\ Sum(col, Arrived(col)) \in Nat
    BY <1>1, SumIsNat DEF Bill, Line
  <1>7. y.due + Sum(col, Arrived(next)) = x.total
    BY <1>4, <1>5, <1>6
  <1>8. \A g \in Arrived(next) :
            next[g].state \in {"exported", "done"} /\ next[g].reached = next[g].amount
    BY <1>1, <1>3 DEF PaidRight
  <1>9. \A g \in Files : /\ next[g].state = col[g].state
                         /\ next[g].amount = col[g].amount
                         /\ next[g].due0 = col[g].due0
    OBVIOUS
  <1> QED
    BY <1>7, <1>8, <1>9, OnlyArrived

\* The reconciliation of a payment is undone.
LEMMA Undone ==
    ASSUME NEW x \in Bill, NEW col \in [Files -> Line], PaidRight(x, col),
           NEW f \in Arrived(col),
           NEW y \in Bill, y.total = x.total, y.due = x.due + col[f].reached,
           NEW next \in [Files -> Line], \A g \in Files \ {f} : next[g] = col[g],
           next[f].state = col[f].state, next[f].amount = col[f].amount,
           next[f].due0 = col[f].due0, next[f].reached = 0
    PROVE  PaidRight(y, next)
  <1>1. f \in Files /\ Arrived(col) \in SUBSET Files /\ col[f].reached = col[f].amount
    BY DEF Arrived, PaidRight
  <1>2. Arrived(next) = Arrived(col) \ {f}
    BY DEF Arrived
  <1>3. Arrived(col) = Arrived(next) \cup {f} /\ f \notin Arrived(next) /\ Arrived(next) \in SUBSET Files
    BY <1>1, <1>2
  <1>4. Sum(col, Arrived(col)) = Sum(col, Arrived(next)) + col[f].amount
    BY <1>1, <1>3, SumAddOne
  <1>5. x.due + Sum(col, Arrived(col)) = x.total
    BY DEF PaidRight
  <1>6. /\ x.due \in Nat /\ x.total \in Nat /\ col[f].amount \in Nat
        /\ Sum(col, Arrived(next)) \in Nat
    BY <1>1, <1>3, SumIsNat DEF Bill, Line
  <1>7. y.due + Sum(col, Arrived(next)) = x.total
    BY <1>1, <1>4, <1>5, <1>6
  <1>8. \A g \in Arrived(next) :
            next[g].state \in {"exported", "done"} /\ next[g].reached = next[g].amount
    BY <1>1, <1>2 DEF PaidRight
  <1>9. \A g \in Files : /\ next[g].state = col[g].state
                         /\ next[g].amount = col[g].amount
                         /\ next[g].due0 = col[g].due0
    BY <1>1
  <1> QED
    BY <1>7, <1>8, <1>9, OnlyArrived

-----------------------------------------------------------------------------
(* What a request has read may be old, but not that old: since then no payment *)
(* that was sent has gone, and none that it has not seen has been marked done. *)

Since(x0, col0, made0, x, col) ==
    /\ x0.total = x.total
    /\ PaidRight(x0, col0)
    /\ \A f \in Files :
          /\ f > made0 => col[f].state # "done"
          /\ col0[f].state = "done" => col[f].state = "done" /\ col[f].amount = col0[f].amount
          /\ f <= made0 /\ col0[f].state \notin Alive => col[f].state \notin Alive

\* What a step may do to a column of which a request has seen the files up to made0.
Later(col, next, made0) ==
    \A f \in Files :
        /\ f > made0 /\ next[f].state = "done" => col[f].state = "done"
        /\ col[f].state = "done" => next[f].state = "done" /\ next[f].amount = col[f].amount
        /\ f <= made0 /\ col[f].state \notin Alive => next[f].state \notin Alive

LEMMA StillSince ==
    ASSUME NEW x0, NEW col0, NEW made0, NEW x, NEW col, Since(x0, col0, made0, x, col),
           NEW y, y.total = x.total, NEW next, Later(col, next, made0)
    PROVE  Since(x0, col0, made0, y, next)
  BY DEF Since, Later

\* So a bill that may be paid as the request sees it may be paid now, if it is in no
\* other file that may be signed: what was due then is what the payments leave.
LEMMA PayableThenIsPayableNow ==
    ASSUME NEW x0 \in Bill, NEW col0 \in [Files -> Line], NEW made0 \in Nat,
           NEW x \in Bill, NEW col \in [Files -> Line], Since(x0, col0, made0, x, col),
           NEW own, own \in Files => col0[own].state = "draft",
           \A f \in Files \ {own} : ~Holds(col0[f], x0.due),
           \A f \in Sent(col) \ {own} : col[f].state = "done"
    PROVE  x0.due + Sum(col, Sent(col) \ {own}) = x.total
  <1>1. /\ Arrived(col0) = Sent(col0) \ {own}
        /\ \A f \in Sent(col0) \ {own} : col0[f].state = "done"
    <2>1. PaidRight(x0, col0)
      BY DEF Since
    <2> QED
      BY <2>1, FreeOnceArrived
  <1>2. Sent(col) \ {own} \subseteq Sent(col0) \ {own}
    <2>1. ASSUME NEW f \in Sent(col), f # own PROVE f \in Sent(col0)
      <3>1. f \in Files /\ col[f].state = "done"
        BY <2>1 DEF Sent
      <3>2. f <= made0
        BY <3>1 DEF Since, Files
      <3>3. col0[f].state \in Alive
        BY <3>1, <3>2 DEF Since, Alive
      <3> QED
        BY <3>1, <3>3 DEF Sent
    <2> QED
      BY <2>1
  <1>3. Sent(col0) \ {own} \subseteq Sent(col) \ {own}
    BY <1>1 DEF Since, Sent, Alive
  <1>4. Sum(col, Sent(col) \ {own}) = Sum(col0, Sent(col) \ {own})
    <2>1. \A f \in Sent(col) \ {own} : col[f].amount = col0[f].amount
      BY <1>1, <1>2 DEF Since, Sent
    <2> QED
      BY <2>1, SameSum
  <1>5. x0.due + Sum(col0, Arrived(col0)) = x0.total /\ x0.total = x.total
    BY DEF Since, PaidRight
  <1>6. Sent(col) \ {own} = Sent(col0) \ {own}
    BY <1>2, <1>3
  <1> QED
    BY <1>1, <1>4, <1>5, <1>6
-----------------------------------------------------------------------------
(* The invariant: it holds of a bill until something else than a file pays it. *)

Right(b) ==
    /\ bill[b].posted
    /\ PaidRight(bill[b], Column(line, b))
    /\ \A u \in Users : Reading(u) =>
          Since(request[u].bill[b], Column(request[u].line, b), request[u].made,
                bill[b], Column(line, b))

NotYetMade == \A f \in Files : f > made => \A b \in Bills : line[f][b].state = "none"

SeenInOrder == \A u \in Users : Reading(u) => request[u].made <= made

PaidInv ==
    /\ NotYetMade
    /\ SeenInOrder
    /\ \A b \in Bills \ otherwise : Right(b)

LEMMA ColumnTyped ==
    ASSUME NEW rows \in [Files -> [Bills -> Line]], NEW b \in Bills
    PROVE  /\ Column(rows, b) \in [Files -> Line]
           /\ \A f \in Files : Column(rows, b)[f] = rows[f][b]
  BY DEF Column

LEMMA Rows ==
    ASSUME TypeOK
    PROVE  /\ line \in [Files -> [Bills -> Line]] /\ bill \in [Bills -> Bill] /\ made \in 0..MaxFiles
           /\ \A u \in Users : Reading(u) =>
                /\ request[u].line \in [Files -> [Bills -> Line]]
                /\ request[u].bill \in [Bills -> Bill]
                /\ request[u].made \in Nat
  <1>1. Snapshot \in Seen
    BY DEF TypeOK
  <1>2. \A u \in Users : Reading(u) => request[u] \in Seen
    BY SeenIsTyped
  <1>3. \A s \in Seen : /\ s.line \in [Files -> [Bills -> Line]]
                        /\ s.bill \in [Bills -> Bill]
                        /\ s.made \in 0..MaxFiles /\ s.made \in Nat
    BY FileAssumption DEF Seen
  <1> QED
    BY <1>1, <1>2, <1>3 DEF Snapshot

LEMMA NextColumnTyped ==
    ASSUME TypeOK', NEW b \in Bills
    PROVE  /\ Column(line', b) \in [Files -> Line]
           /\ \A f \in Files : Column(line', b)[f] = line'[f][b]
  <1>1. line' \in [Files -> [Bills -> Line]]
    BY DEF TypeOK, Snapshot, Seen
  <1> QED
    BY <1>1, ColumnTyped

\* No request starts, and those that go on keep what they have read.
NoneBegins == \A u \in Users : Reading(u)' => Reading(u) /\ request'[u] = request[u]

LEMMA StepRight ==
    ASSUME NEW b \in Bills, Right(b), NoneBegins,
           bill'[b].posted, bill'[b].total = bill[b].total,
           PaidRight(bill'[b], Column(line', b)),
           \A u \in Users : Reading(u) => Later(Column(line, b), Column(line', b), request[u].made)
    PROVE  Right(b)'
  <1>1. ASSUME NEW u \in Users, Reading(u)'
        PROVE  Since(request'[u].bill[b], Column(request'[u].line, b), request'[u].made,
                     bill'[b], Column(line', b))
    <2>1. Reading(u) /\ request'[u] = request[u]
      BY <1>1 DEF NoneBegins
    <2>2. Since(request[u].bill[b], Column(request[u].line, b), request[u].made,
                bill[b], Column(line, b))
      BY <2>1 DEF Right
    <2>3. Later(Column(line, b), Column(line', b), request[u].made)
      BY <2>1
    <2> QED
      BY <2>1, <2>2, <2>3, StillSince
  <1> QED
    BY <1>1, Zenon DEF Right

LEMMA Untouched ==
    ASSUME NEW b \in Bills, Right(b), NoneBegins,
           bill'[b] = bill[b], \A f \in Files : line'[f][b] = line[f][b]
    PROVE  Right(b)'
  <1>1. Column(line', b) = Column(line, b)
    BY DEF Column
  <1>2. \A m : Later(Column(line, b), Column(line', b), m)
    BY <1>1 DEF Later
  <1>3. PaidRight(bill'[b], Column(line', b))
    BY <1>1 DEF Right
  <1>4. bill'[b].posted
    BY Zenon DEF Right
  <1> QED
    BY <1>2, <1>3, <1>4, StepRight

LEMMA BeginRight ==
    ASSUME TypeOK, NotYetMade, NEW u \in Users, Begin(u), NEW b \in Bills, Right(b)
    PROVE  Right(b)'
  <1>1. bill' = bill /\ line' = line /\ made' = made
    BY DEF Begin, db
  <1>2. Since(bill[b], Column(line, b), made, bill[b], Column(line, b))
    <2>1. \A f \in Files : f > made => Column(line, b)[f].state = "none"
      BY Rows, ColumnTyped DEF NotYetMade
    <2> QED
      BY <2>1 DEF Since, Right
  <1>3. ASSUME NEW v \in Users, Reading(v)'
        PROVE  Since(request'[v].bill[b], Column(request'[v].line, b), request'[v].made,
                     bill'[b], Column(line', b))
    <2>1. CASE v = u
      <3>1. request'[v] = Snapshot
        BY <2>1 DEF Begin, TypeOK
      <3>2. Snapshot.bill = bill /\ Snapshot.line = line /\ Snapshot.made = made
        BY DEF Snapshot
      <3> QED
        BY <1>1, <1>2, <3>1, <3>2
    <2>2. CASE v # u
      <3>1. request'[v] = request[v]
        BY <2>2 DEF Begin, TypeOK
      <3>2. Reading(v)
        BY <1>3, <3>1 DEF Reading, None
      <3> QED
        BY <1>1, <3>1, <3>2 DEF Right
    <2> QED
      BY <2>1, <2>2
  <1>4. bill'[b].posted
    BY <1>1, Zenon DEF Right
  <1>5. PaidRight(bill'[b], Column(line', b))
    BY <1>1 DEF Right
  <1> QED
    BY <1>3, <1>4, <1>5, Zenon DEF Right

LEMMA EndsReading ==
    ASSUME TypeOK, NEW u \in Users, request' = [request EXCEPT ![u] = None]
    PROVE  NoneBegins
  BY DEF TypeOK, NoneBegins, Reading, None

\* A bill in a new file.
LEMMA CreateRight ==
    ASSUME TypeOK, NotYetMade, SeenInOrder, NEW u \in Users, NEW S \in SUBSET Bills,
           NEW amount, \A b \in S : amount[b] \in Nat,
           NEW newState \in {"draft", "exported"},
           NEW due0, \A b \in S : due0[b] \in Nat,
           newState = "exported" => \A b \in S : due0[b] = request[u].bill[b].due,
           CreateFile(u, S, amount, newState, due0),
           NEW b \in Bills, Right(b)
    PROVE  Right(b)'
  <1> DEFINE f == made + 1
             col == Column(line, b)
             next == Column(line', b)
  <1>1. TypeOK'
    BY CreateTypeOK
  <1>2. /\ f \in Files /\ Reading(u) /\ bill' = bill /\ NoneBegins /\ made \in Nat
        /\ \A g \in Files \ {f} : line'[g] = line[g]
        /\ line'[f] = [c \in Bills |-> IF c \in S
              THEN [state |-> newState, amount |-> amount[c], due0 |-> due0[c], reached |-> 0]
              ELSE NoLine]
    <2>1. made \in 0..MaxFiles /\ line \in [Files -> [Bills -> Line]]
      BY Rows
    <2>2. f \in Files /\ made \in Nat
      BY <2>1, FileAssumption DEF CreateFile, Files
    <2>3. NoneBegins
      BY EndsReading DEF CreateFile
    <2> QED
      BY <2>1, <2>2, <2>3 DEF CreateFile
  <1>3. /\ col \in [Files -> Line] /\ next \in [Files -> Line]
        /\ \A g \in Files : col[g] = line[g][b] /\ next[g] = line'[g][b]
    BY <1>1, NextColumnTyped, Rows, ColumnTyped
  <1>4. /\ bill[b] \in Bill /\ PaidRight(bill[b], col)
    BY Rows DEF Right
  <1>5. \A g \in Files : g >= f => col[g].state = "none"
    BY <1>2, <1>3 DEF NotYetMade, Files
  <1>6. \A v \in Users : Reading(v) => Later(col, next, request[v].made)
    <2>1. ASSUME NEW v \in Users, Reading(v) PROVE f > request[v].made
      BY <1>2, <2>1, Rows DEF SeenInOrder
    <2>2. next[f].state # "done" /\ col[f].state # "done"
      BY <1>2, <1>3, <1>5 DEF NoLine, Files
    <2>3. \A g \in Files \ {f} : next[g] = col[g]
      BY <1>2, <1>3
    <2>4. ASSUME NEW v \in Users, Reading(v) PROVE ~(f <= request[v].made)
      BY <2>1, <2>4, <1>2, Rows
    <2> HIDE DEF f, next, col
    <2> QED
      BY <2>2, <2>3, <2>4 DEF Later
  <1>7. PaidRight(bill[b], next)
    <2>1. \A g \in Files \ {f} : next[g] = col[g]
      BY <1>2, <1>3
    <2>2. CASE b \in S
      <3>1. /\ next[f].state = newState /\ next[f].amount = amount[b]
            /\ next[f].due0 = due0[b] /\ next[f].reached = 0
        BY <1>2, <1>3, <2>2
      <3>2. /\ Payable(request[u], b, amount[b], 0) /\ IndexAllows(b)
        BY <2>2 DEF CreateFile
      <3>3. \A g \in Sent(col) : col[g].state = "done"
        BY <1>3, <3>2 DEF IndexAllows, MayBeSigned, Sent, Alive, Pending
      <3>4. request[u].bill[b].due + Sum(col, Sent(col)) = bill[b].total
        <4> DEFINE col0 == Column(request[u].line, b)
                   x0 == request[u].bill[b]
                   x == bill[b]
                   made0 == request[u].made
        <4>1. /\ col0 \in [Files -> Line] /\ x0 \in Bill /\ made0 \in Nat
              /\ \A g \in Files : col0[g] = request[u].line[g][b]
          BY <1>2, Rows, ColumnTyped
        <4>2. Since(x0, col0, made0, x, col)
          BY <1>2 DEF Right
        <4>3. \A g \in Files \ {0} : ~Holds(col0[g], x0.due)
          BY <3>2, <4>1 DEF Payable
        <4>4. 0 \notin Files
          BY DEF Files
        <4>5. Sent(col) \ {0} = Sent(col)
          BY DEF Sent, Files
        <4>6. x \in Bill
          BY <1>4
        <4>7. \A g \in Sent(col) \ {0} : col[g].state = "done"
          BY <3>3
        <4> HIDE DEF col0, col, x0, x, made0
        <4>8. x0.due + Sum(col, Sent(col) \ {0}) = x.total
          BY <1>3, <4>1, <4>2, <4>3, <4>4, <4>6, <4>7, PayableThenIsPayableNow
        <4> QED
          BY <4>5, <4>8 DEF x0, x
      <3>5. Sent(col) \in SUBSET Files
        BY DEF Sent
      <3>6. /\ amount[b] > 0 /\ amount[b] <= request[u].bill[b].due /\ amount[b] \in Nat
            /\ request[u].bill[b].due \in Nat
        BY <1>2, <2>2, <3>2, Rows DEF Payable, Bill
      <3>7. Sum(col, Sent(col)) \in Nat /\ bill[b].total \in Nat
        BY <1>3, <1>4, <3>5, SumIsNat DEF Bill
      <3>8. Sum(col, Sent(col)) + next[f].amount <= bill[b].total
        <4>1. Sum(col, Sent(col)) + amount[b] <= bill[b].total
          <5> HIDE DEF col
          <5> QED
            BY <3>4, <3>6, <3>7
        <4> QED
          BY <3>1, <4>1
      <3>9. next[f].state # "draft" => next[f].due0 + Sum(col, Sent(col)) = bill[b].total
        BY <2>2, <3>1, <3>4
      <3>10. next[f].state \in Pending /\ next[f].amount > 0
        BY <3>1, <3>6 DEF Pending
      <3> HIDE DEF f, col, next
      <3> QED
        BY <1>2, <1>3, <1>4, <1>5, <2>1, <3>1, <3>3, <3>8, <3>9, <3>10, NewPayment
    <2>3. CASE b \notin S
      <3>1. next[f].state \notin Alive /\ next[f].reached = 0
        BY <1>2, <1>3, <2>3 DEF NoLine, Alive
      <3>2. col[f].state = "none"
        BY <1>2, <1>5 DEF Files
      <3>3. col[f].reached = 0
        BY <1>2, <1>3, <1>4, <3>2 DEF PaidRight, Arrived, Line
      <3> HIDE DEF f, col, next
      <3> QED
        BY <1>2, <1>3, <1>4, <2>1, <3>1, <3>2, <3>3, TakenAway
    <2> QED
      BY <2>2, <2>3
  <1>8. bill'[b].posted
    BY <1>2, Zenon DEF Right
  <1> QED
    BY <1>2, <1>6, <1>7, <1>8, StepRight
\* A draft is generated: the other payments that are checked again have arrived.
LEMMA GenerateRight ==
    ASSUME TypeOK, NEW u \in Users, NEW f \in Files, Generate(u, f),
           NEW b \in Bills, Right(b)
    PROVE  Right(b)'
  <1> DEFINE col == Column(line, b)
             next == Column(line', b)
  <1>1. TypeOK' /\ NoneBegins /\ Reading(u) /\ bill' = bill
    BY GenerateTypeOK, EndsReading DEF Generate
  <1>2. /\ col \in [Files -> Line] /\ next \in [Files -> Line]
        /\ \A g \in Files : col[g] = line[g][b] /\ next[g] = line'[g][b]
    BY <1>1, NextColumnTyped, Rows, ColumnTyped
  <1>3. bill[b] \in Bill /\ PaidRight(bill[b], col)
    BY Rows DEF Right
  <1>0. bill'[b].posted
    BY <1>1, Zenon DEF Right
  <1>4. \A g \in Files \ {f} : next[g] = col[g]
    BY <1>2, Rows DEF Generate
  <1>5. next[f] = IF col[f].state = "draft"
                  THEN [col[f] EXCEPT !.state = "exported", !.due0 = request[u].bill[b].due]
                  ELSE col[f]
    BY <1>2, Rows DEF Generate
  <1>6. CASE col[f].state # "draft"
    <2>1. \A g \in Files : line'[g][b] = line[g][b]
      BY <1>2, <1>4, <1>5, <1>6
    <2> QED
      BY <1>1, <2>1, Untouched
  <1>7. CASE col[f].state = "draft"
    <2>1. /\ next[f].state = "exported" /\ next[f].amount = col[f].amount
          /\ next[f].reached = col[f].reached /\ next[f].due0 = request[u].bill[b].due
      BY <1>2, <1>5, <1>7 DEF Line
    <2>2. f \in Sent(col)
      BY <1>7 DEF Sent, Alive
    <2>3. Before(col, f) = Sent(col) \ {f}
      <3>1. ASSUME NEW g \in Sent(col), g # f PROVE g < f
        <4>1. ASSUME f < g PROVE FALSE
          <5>1. f \in Before(col, g)
            BY <2>2, <4>1 DEF Before
          <5> QED
            BY <1>3, <1>7, <3>1, <5>1 DEF PaidRight
        <4>2. g \in Nat /\ f \in Nat
          BY DEF Sent, Files
        <4> QED
          BY <3>1, <4>1, <4>2
      <3>2. ~(f < f)
        BY DEF Files
      <3> QED
        BY <3>1, <3>2 DEF Before
    <2>4. request[u].bill[b].due + Sum(col, Before(col, f)) = bill[b].total
      <3> DEFINE col0 == Column(request[u].line, b)
                 x0 == request[u].bill[b]
                 x == bill[b]
                 made0 == request[u].made
      <3>1. /\ col0 \in [Files -> Line] /\ x0 \in Bill /\ made0 \in Nat
            /\ \A g \in Files : col0[g] = request[u].line[g][b]
        BY <1>1, Rows, ColumnTyped
      <3>2. Since(x0, col0, made0, x, col)
        BY <1>1 DEF Right
      <3>3. Payable(request[u], b, line[f][b].amount, f) /\ line[f] = request[u].line[f]
        BY <1>2, <1>7 DEF Generate, InState
      <3>4. \A g \in Files \ {f} : ~Holds(col0[g], x0.due)
        BY <3>1, <3>3 DEF Payable
      <3>5. col0[f].state = "draft"
        BY <1>2, <1>7, <3>1, <3>3
      <3>6. \A g \in Sent(col) \ {f} : col[g].state = "done"
        BY <1>3, <2>2, <2>3 DEF PaidRight
      <3>7. x \in Bill
        BY <1>3
      <3> HIDE DEF col0, col, x0, x, made0
      <3>8. x0.due + Sum(col, Sent(col) \ {f}) = x.total
        BY <1>2, <3>1, <3>2, <3>4, <3>5, <3>6, <3>7, PayableThenIsPayableNow
      <3> QED
        BY <2>3, <3>8 DEF x0, x
    <2>5. PaidRight(bill[b], next)
      <3>1. next[f].due0 + Sum(col, Before(col, f)) = bill[b].total
        BY <2>1, <2>4
      <3> HIDE DEF col, next
      <3> QED
        BY <1>2, <1>3, <1>4, <1>7, <2>1, <2>2, <3>1, MovedOn
    <2>6. \A m : Later(col, next, m)
      <3> HIDE DEF col, next
      <3> QED
        BY <1>4, <1>7, <2>1 DEF Later, Alive
    <2> QED
      BY <1>0, <1>1, <2>5, <2>6, StepRight
  <1> QED
    BY <1>6, <1>7

\* What moving lines does to a bill's column.
LEMMA MovedLine ==
    ASSUME TypeOK, NEW f \in Files, NEW S, NEW newState, line' = MoveLines(f, S, newState),
           NEW b \in Bills
    PROVE  /\ \A g \in Files \ {f} : line'[g][b] = line[g][b]
           /\ b \notin S => line'[f][b] = line[f][b]
           /\ b \in S => /\ line'[f][b].state = newState
                         /\ line'[f][b].amount = line[f][b].amount
                         /\ line'[f][b].due0 = line[f][b].due0
                         /\ line'[f][b].reached = line[f][b].reached
  <1>1. line \in [Files -> [Bills -> Line]]
    BY Rows
  <1>2. line[f][b] \in Line
    BY <1>1
  <1>3. /\ \A g \in Files \ {f} : line'[g] = line[g]
        /\ line'[f][b] = IF b \in S THEN [line[f][b] EXCEPT !.state = newState] ELSE line[f][b]
    BY <1>1 DEF MoveLines
  <1> QED
    BY <1>2, <1>3 DEF Line

\* A payment is cancelled or deleted before it is done and before it has arrived.
LEMMA TakenAwayRight ==
    ASSUME TypeOK, TypeOK', NoneBegins, NEW b \in Bills, Right(b), bill' = bill,
           NEW f \in Files, line[f][b].state # "done", line[f][b].reached = 0,
           \A g \in Files \ {f} : line'[g][b] = line[g][b],
           line'[f][b].state \notin Alive, line'[f][b].reached = 0
    PROVE  Right(b)'
  <1> DEFINE col == Column(line, b)
             next == Column(line', b)
  <1>1. /\ col \in [Files -> Line] /\ next \in [Files -> Line]
        /\ \A g \in Files : col[g] = line[g][b] /\ next[g] = line'[g][b]
    BY NextColumnTyped, Rows, ColumnTyped
  <1>2. bill[b] \in Bill /\ PaidRight(bill[b], col)
    BY Rows DEF Right
  <1>3. /\ \A g \in Files \ {f} : next[g] = col[g]
        /\ next[f].state \notin Alive /\ next[f].reached = 0
        /\ col[f].state # "done" /\ col[f].reached = 0
    BY <1>1
  <1>4. PaidRight(bill[b], next)
    <2> HIDE DEF col, next
    <2> QED
      BY <1>1, <1>2, <1>3, TakenAway
  <1>5. \A m : Later(col, next, m)
    <2> HIDE DEF col, next
    <2> QED
      BY <1>3 DEF Later, Alive
  <1>6. bill'[b].posted
    BY Zenon DEF Right
  <1> QED
    BY <1>4, <1>5, <1>6, StepRight

\* The files and their lines change.
LEMMA HandleRight ==
    ASSUME TypeOK, FileMatchesLines, NEW f \in Files, Handle(f),
           NEW b \in Bills \ otherwise', Right(b)
    PROVE  Right(b)'
  <1> DEFINE col == Column(line, b)
             next == Column(line', b)
  <1>1. TypeOK'
    BY HandleTypeOK
  <1>2. NoneBegins
    BY DEF Handle, MarkDone, CancelFile, DeleteFile, CancelLine, Reconcile, Unreconcile,
           NoneBegins, Reading
  <1>3. /\ col \in [Files -> Line] /\ next \in [Files -> Line]
        /\ \A g \in Files : col[g] = line[g][b] /\ next[g] = line'[g][b]
    BY <1>1, NextColumnTyped, Rows, ColumnTyped
  <1>4. bill[b] \in Bill /\ bill'[b] \in Bill /\ PaidRight(bill[b], col)
    BY <1>1, Rows DEF Right, TypeOK, Snapshot, Seen
  <1>5. line[f][b].reached # 0 => line[f][b].state \in {"exported", "done"}
    BY <1>3, <1>4 DEF PaidRight, Arrived, Line
  <1>6. CASE MarkDone(f)
    <2>1. bill' = bill /\ line' = MoveLines(f, InState(f, {"exported"}), "done") /\ OldEnough(f)
      BY <1>6 DEF MarkDone
    <2>2. CASE line[f][b].state # "exported"
      <3>1. b \notin InState(f, {"exported"})
        BY <2>2 DEF InState
      <3>2. \A g \in Files : line'[g][b] = line[g][b]
        BY <2>1, <3>1, MovedLine
      <3> QED
        BY <1>2, <2>1, <3>2, Untouched
    <2>3. CASE line[f][b].state = "exported"
      <3>1. b \in InState(f, {"exported"})
        BY <2>3 DEF InState
      <3>2. /\ \A g \in Files \ {f} : next[g] = col[g]
            /\ next[f].state = "done" /\ next[f].amount = col[f].amount
            /\ next[f].due0 = col[f].due0 /\ next[f].reached = col[f].reached
            /\ col[f].state = "exported"
        BY <1>3, <2>1, <2>3, <3>1, MovedLine
      <3>3. f \in Sent(col)
        BY <3>2 DEF Sent, Alive
      <3>4. next[f].due0 + Sum(col, Before(col, f)) = bill[b].total
        BY <1>4, <3>2, <3>3 DEF PaidRight
      <3>5. PaidRight(bill[b], next)
        <4> HIDE DEF col, next
        <4> QED
          BY <1>3, <1>4, <3>2, <3>3, <3>4, MovedOn
      <3>6. ASSUME NEW v \in Users, Reading(v) PROVE Later(col, next, request[v].made)
        <4>1. ~(f > request[v].made)
          BY <2>1, <3>6, Rows DEF OldEnough, Files
        <4> HIDE DEF col, next
        <4> QED
          BY <3>2, <4>1 DEF Later, Alive
      <3>7. bill'[b].posted
        BY <2>1, Zenon DEF Right
      <3> QED
        BY <1>2, <2>1, <3>5, <3>6, <3>7, StepRight
    <2> QED
      BY <2>2, <2>3
  <1>7. ASSUME NEW S \in SUBSET Bills, \A c \in S : line[f][c].state \in Pending, Misused(f, S),
               line' = MoveLines(f, S, "cancelled"), bill' = bill
        PROVE  Right(b)'
    <2>1. CASE b \notin S
      <3>1. \A g \in Files : line'[g][b] = line[g][b]
        BY <1>7, <2>1, MovedLine
      <3> QED
        BY <1>2, <1>7, <3>1, Untouched
    <2>2. CASE b \in S
      <3>1. line[f][b].state # "done"
        BY <1>7, <2>2 DEF Pending
      <3>2. line[f][b].reached = 0
        BY <1>3, <1>7, <2>2 DEF Misused, Line
      <3>3. /\ \A g \in Files \ {f} : line'[g][b] = line[g][b]
            /\ line'[f][b].state \notin Alive /\ line'[f][b].reached = 0
        BY <1>7, <2>2, <3>2, MovedLine DEF Alive
      <3> QED
        BY <1>1, <1>2, <1>7, <3>1, <3>2, <3>3, TakenAwayRight
    <2> QED
      BY <2>1, <2>2
  <1>8. CASE CancelFile(f)
    BY <1>7, <1>8 DEF CancelFile, InState
  <1>9. ASSUME NEW c \in Bills, CancelLine(f, c)
        PROVE  Right(b)'
    BY <1>7, <1>9 DEF CancelLine
  <1>10. CASE DeleteFile(f)
    <2>1. /\ bill' = bill /\ file[f] \in {"draft", "cancelled"}
          /\ line' = [line EXCEPT ![f] = [c \in Bills |-> NoLine]]
      BY <1>10 DEF DeleteFile
    <2>2. line[f][b].state \in {"none", "cancelled", "draft"}
      BY <2>1 DEF FileMatchesLines
    <2>3. \A g \in Files \ {f} : line'[g][b] = line[g][b]
      BY <2>1, Rows
    <2>4. line'[f][b].state \notin Alive /\ line'[f][b].reached = 0
      BY <2>1, Rows DEF NoLine, Alive
    <2> QED
      BY <1>1, <1>2, <1>5, <2>1, <2>2, <2>3, <2>4, TakenAwayRight
  <1>11. ASSUME NEW c \in Bills, Reconcile(f, c) \/ Unreconcile(f, c)
         PROVE  Right(b)'
    <2>1. CASE c # b
      <3>1. bill'[b] = bill[b] /\ \A g \in Files : line'[g][b] = line[g][b]
        BY <1>11, <2>1, Rows DEF Reconcile, Unreconcile
      <3> QED
        BY <1>2, <3>1, Untouched
    <2>2. CASE c = b
      <3>1. PICK r, due :
              /\ line' = [line EXCEPT ![f][b].reached = r]
              /\ bill' = [bill EXCEPT ![b].due = due]
              /\ \/ /\ col[f].state \in {"exported", "done"} /\ col[f].reached = 0
                    /\ r = Applied(bill[b].due, col[f].amount) /\ due = bill[b].due - r
                 \/ col[f].reached > 0 /\ r = 0 /\ due = bill[b].due + col[f].reached
        BY <1>3, <1>11, <2>2 DEF Reconcile, Unreconcile
      <3>2. /\ bill'[b].due = due /\ bill'[b].total = bill[b].total
            /\ bill'[b].posted = bill[b].posted
        BY <1>4, <3>1, Rows DEF Bill
      <3>3. bill'[b].posted
        BY <3>2, Zenon DEF Right
      <3>4. /\ \A g \in Files \ {f} : next[g] = col[g]
            /\ next[f] = [col[f] EXCEPT !.reached = r]
        BY <1>3, <3>1, Rows
      <3>5. /\ next[f].state = col[f].state /\ next[f].amount = col[f].amount
            /\ next[f].due0 = col[f].due0 /\ next[f].reached = r
        BY <1>3, <3>4 DEF Line
      <3>6. \A m : Later(col, next, m)
        <4> HIDE DEF col, next
        <4> QED
          BY <3>4, <3>5 DEF Later, Alive
      <3>7. PaidRight(bill'[b], next)
        <4>1. CASE col[f].reached = 0
          <5>1. f \in Sent(col) /\ r = Applied(bill[b].due, col[f].amount) /\ due = bill[b].due - r
                /\ col[f].state \in {"exported", "done"}
            BY <3>1, <4>1 DEF Sent, Alive
          <5>2. col[f].amount <= bill[b].due
            BY <1>3, <1>4, <4>1, <5>1, FitsInDue
          <5>3. r = col[f].amount
            <6>1. col[f].amount \in Nat /\ bill[b].due \in Nat
              BY <1>3, <1>4 DEF Line, Bill
            <6> HIDE DEF col
            <6> QED
              BY <5>1, <5>2, <6>1 DEF Applied
          <5> DEFINE x == bill[b]
                     y == bill'[b]
          <5>4. x \in Bill /\ y \in Bill /\ y.total = x.total
                /\ y.due = x.due - col[f].amount /\ PaidRight(x, col)
            BY <1>4, <3>2, <5>1, <5>3
          <5> HIDE DEF col, next, x, y
          <5>5. \A g \in Files \ {f} : next[g] = col[g]
            BY <3>4
          <5>6. /\ next[f].state = col[f].state /\ next[f].amount = col[f].amount
                /\ next[f].due0 = col[f].due0 /\ next[f].reached = col[f].amount
            BY <3>5, <5>3
          <5>7. PaidRight(y, next)
            BY <1>3, <4>1, <5>1, <5>4, <5>5, <5>6, Arrives
          <5> QED
            BY <5>7 DEF y
        <4>2. CASE col[f].reached # 0
          <5>1. f \in Arrived(col) /\ r = 0 /\ due = bill[b].due + col[f].reached
            BY <3>1, <4>2 DEF Arrived
          <5> DEFINE x == bill[b]
                     y == bill'[b]
          <5>2. x \in Bill /\ y \in Bill /\ y.total = x.total
                /\ y.due = x.due + col[f].reached /\ PaidRight(x, col)
            BY <1>4, <3>2, <5>1
          <5> HIDE DEF col, next, x, y
          <5>3. \A g \in Files \ {f} : next[g] = col[g]
            BY <3>4
          <5>4. /\ next[f].state = col[f].state /\ next[f].amount = col[f].amount
                /\ next[f].due0 = col[f].due0 /\ next[f].reached = 0
            BY <3>5, <5>1
          <5>5. PaidRight(y, next)
            BY <1>3, <5>1, <5>2, <5>3, <5>4, Undone
          <5> QED
            BY <5>5 DEF y
        <4> QED
          BY <4>1, <4>2
      <3> QED
        BY <1>2, <3>2, <3>3, <3>6, <3>7, StepRight
    <2> QED
      BY <2>1, <2>2
  <1> QED
    BY <1>6, <1>8, <1>9, <1>10, <1>11 DEF Handle

\* A bill that something else changes is not one of those that only files pay.
LEMMA SettleRight ==
    ASSUME TypeOK, NEW c \in Bills, Settle(c), NEW b \in Bills \ otherwise', Right(b)
    PROVE  Right(b)'
  <1>1. NoneBegins
    BY DEF Settle, Credit, RegisterPayment, SettleOtherwise, ResetToDraft, PostAgain, Otherwise,
           NoneBegins, Reading
  <1>2. c # b
    <2>1. bill[b].posted
      BY Zenon DEF Right
    <2>2. CASE \E t \in Totals : PostAgain(c, t)
      BY <2>1, <2>2, Zenon DEF PostAgain
    <2>3. CASE ~\E t \in Totals : PostAgain(c, t)
      BY <2>3 DEF Settle, Credit, RegisterPayment, SettleOtherwise, ResetToDraft, Otherwise
    <2> QED
      BY <2>2, <2>3
  <1>3. bill'[b] = bill[b]
    BY <1>2, Rows DEF Settle, Credit, RegisterPayment, SettleOtherwise, ResetToDraft, PostAgain
  <1>4. \A g \in Files : line'[g][b] = line[g][b]
    <2>1. CASE ResetToDraft(c)
      BY <1>2, <2>1, Rows DEF ResetToDraft
    <2>2. CASE ~ResetToDraft(c)
      <3>1. line' = line
        BY <2>2 DEF Settle, Credit, RegisterPayment, SettleOtherwise, PostAgain
      <3> QED
        BY <3>1
    <2> QED
      BY <2>1, <2>2
  <1> QED
    BY <1>1, <1>3, <1>4, Untouched
\* Only a new file gets lines, and it is the next one.
LEMMA NextNotYetMade == TypeOK /\ NotYetMade /\ [Next]_vars => NotYetMade'
  <1> SUFFICES ASSUME TypeOK, NotYetMade, [Next]_vars PROVE NotYetMade'
    OBVIOUS
  <1>1. CASE UNCHANGED vars
    BY <1>1 DEF vars, db, NotYetMade
  <1>2. ASSUME NEW u \in Users, Export(u)
        PROVE  NotYetMade'
    <2>1. CASE Begin(u) \/ Abort(u)
      BY <2>1 DEF Begin, Abort, db, NotYetMade
    <2>2. ASSUME NEW S, NEW amount, SaveDraft(u, S, amount) \/ ExportBills(u, S, amount)
          PROVE  NotYetMade'
      <3>1. /\ made' = made + 1
            /\ \A f \in Files \ {made + 1} : line'[f] = line[f]
        BY <2>2, Rows DEF SaveDraft, ExportBills, CreateFile
      <3>2. \A f \in Files : f > made + 1 => f > made /\ f # made + 1
        BY Rows DEF Files
      <3> QED
        BY <3>1, <3>2 DEF NotYetMade
    <2>3. ASSUME NEW f \in Files, Generate(u, f)
          PROVE  NotYetMade'
      <3>1. made' = made
        BY <2>3 DEF Generate
      <3>2. \A g \in Files : \A b \in Bills :
              line[g][b].state = "none" => line'[g][b].state = "none"
        BY <2>3, GenerateState
      <3> QED
        BY <3>1, <3>2 DEF NotYetMade
    <2> QED
      BY <1>2, <2>1, <2>2, <2>3 DEF Export
  <1>3. ASSUME NEW f \in Files, Handle(f)
        PROVE  NotYetMade'
    <2>1. made' = made
      BY <1>3 DEF Handle, MarkDone, CancelFile, DeleteFile, CancelLine, Reconcile, Unreconcile
    <2>2. ASSUME NEW S, NEW newState, line' = MoveLines(f, S, newState),
                 \A b \in S : line[f][b].state # "none"
          PROVE  NotYetMade'
      BY <2>1, <2>2, MoveState DEF NotYetMade
    <2>3. CASE MarkDone(f) \/ CancelFile(f)
      <3>1. line' = MoveLines(f, InState(f, {"exported"}), "done")
              \/ line' = MoveLines(f, InState(f, Pending), "cancelled")
        BY <2>3 DEF MarkDone, CancelFile
      <3>2. /\ \A b \in InState(f, {"exported"}) : line[f][b].state # "none"
            /\ \A b \in InState(f, Pending) : line[f][b].state # "none"
        BY DEF InState, Pending
      <3> QED
        BY <2>2, <3>1, <3>2
    <2>4. ASSUME NEW b \in Bills, CancelLine(f, b)
          PROVE  NotYetMade'
      BY <2>2, <2>4 DEF CancelLine, Pending
    <2>5. CASE DeleteFile(f)
      <3>1. \A g \in Files \ {f} : line'[g] = line[g]
        BY <2>5, Rows DEF DeleteFile
      <3>2. \A b \in Bills : line'[f][b].state = "none"
        BY <2>5, Rows DEF DeleteFile, NoLine
      <3> QED
        BY <2>1, <3>1, <3>2 DEF NotYetMade
    <2>6. ASSUME NEW b \in Bills, Reconcile(f, b) \/ Unreconcile(f, b)
          PROVE  NotYetMade'
      BY <2>1, <2>6, ReconcileState DEF NotYetMade
    <2> QED
      BY <1>3, <2>3, <2>4, <2>5, <2>6 DEF Handle
  <1>4. ASSUME NEW b \in Bills, Settle(b)
        PROVE  NotYetMade'
    <2>1. made' = made
      BY <1>4 DEF Settle, Credit, RegisterPayment, SettleOtherwise, ResetToDraft, PostAgain, Otherwise
    <2> QED
      BY <1>4, <2>1, SettleState DEF NotYetMade
  <1> QED
    BY <1>1, <1>2, <1>3, <1>4 DEF Next

LEMMA NextSeenInOrder == TypeOK /\ SeenInOrder /\ [Next]_vars => SeenInOrder'
  <1> SUFFICES ASSUME TypeOK, SeenInOrder, [Next]_vars PROVE SeenInOrder'
    OBVIOUS
  <1>1. ASSUME NoneBegins, made' \in {made, made + 1}
        PROVE  SeenInOrder'
    BY <1>1, Rows DEF NoneBegins, SeenInOrder
  <1>2. ASSUME request' = request, made' = made
        PROVE  SeenInOrder'
    BY <1>2 DEF SeenInOrder, Reading
  <1>3. CASE UNCHANGED vars
    BY <1>2, <1>3 DEF vars, db
  <1>4. ASSUME NEW u \in Users, Export(u)
        PROVE  SeenInOrder'
    <2>1. CASE Begin(u)
      <3>1. made' = made /\ request' = [request EXCEPT ![u] = Snapshot] /\ Snapshot.made = made
        BY <2>1 DEF Begin, db, Snapshot
      <3>2. ASSUME NEW v \in Users, Reading(v)' PROVE request'[v].made <= made
        <4>1. CASE v = u
          BY <3>1, <4>1, Rows DEF TypeOK
        <4>2. CASE v # u
          BY <3>1, <3>2, <4>2 DEF TypeOK, SeenInOrder, Reading
        <4> QED
          BY <4>1, <4>2
      <3> QED
        BY <3>1, <3>2 DEF SeenInOrder
    <2>2. CASE ~Begin(u)
      <3>1. request' = [request EXCEPT ![u] = None] /\ made' \in {made, made + 1}
        BY <1>4, <2>2 DEF Export, Abort, db, SaveDraft, ExportBills, CreateFile, Generate
      <3> QED
        BY <1>1, <3>1, EndsReading
    <2> QED
      BY <2>1, <2>2
  <1>5. ASSUME NEW f \in Files, Handle(f)
        PROVE  SeenInOrder'
    BY <1>2, <1>5 DEF Handle, MarkDone, CancelFile, DeleteFile, CancelLine, Reconcile, Unreconcile
  <1>6. ASSUME NEW b \in Bills, Settle(b)
        PROVE  SeenInOrder'
    BY <1>2, <1>6 DEF Settle, Credit, RegisterPayment, SettleOtherwise, ResetToDraft, PostAgain, Otherwise
  <1> QED
    BY <1>3, <1>4, <1>5, <1>6 DEF Next

LEMMA NextRight ==
    ASSUME TypeOK, FileMatchesLines, PaidInv, [Next]_vars, NEW b \in Bills \ otherwise'
    PROVE  Right(b)'
  <1>1. otherwise \subseteq otherwise'
    <2>1. ASSUME NEW u \in Users, Export(u)
          PROVE  otherwise' = otherwise
      BY <2>1 DEF Export, Begin, Abort, SaveDraft, ExportBills, CreateFile, Generate
    <2>2. ASSUME NEW f \in Files, Handle(f)
          PROVE  otherwise \subseteq otherwise'
      BY <2>2 DEF Handle, MarkDone, CancelFile, DeleteFile, CancelLine, Reconcile, Unreconcile, Misused
    <2>3. ASSUME NEW c \in Bills, Settle(c)
          PROVE  otherwise \subseteq otherwise'
      BY <2>3 DEF Settle, Credit, RegisterPayment, SettleOtherwise, ResetToDraft, PostAgain, Otherwise
    <2>4. CASE UNCHANGED vars
      BY <2>4 DEF vars
    <2> QED
      BY <2>1, <2>2, <2>3, <2>4 DEF Next
  <1>2. NotYetMade /\ SeenInOrder /\ Right(b)
    BY <1>1 DEF PaidInv
  <1>3. CASE UNCHANGED vars
    <2>1. bill' = bill /\ line' = line /\ request' = request
      BY <1>3 DEF vars, db
    <2>2. NoneBegins
      BY <2>1 DEF NoneBegins, Reading
    <2> QED
      BY <1>2, <2>1, <2>2, Untouched
  <1>4. ASSUME NEW u \in Users, Export(u)
        PROVE  Right(b)'
    <2>1. CASE Begin(u)
      BY <1>2, <2>1, BeginRight
    <2>2. CASE Abort(u)
      <3>1. bill' = bill /\ line' = line /\ NoneBegins
        BY <2>2, EndsReading DEF Abort, db
      <3> QED
        BY <1>2, <3>1, Untouched
    <2>3. ASSUME NEW S \in SUBSET Bills, NEW amount \in Amounts(S), SaveDraft(u, S, amount)
          PROVE  Right(b)'
      <3>1. \A c \in S : amount[c] \in Nat
        BY AmountsAreNat
      <3>2. CreateFile(u, S, amount, "draft", [c \in Bills |-> 0])
        BY <2>3 DEF SaveDraft
      <3>3. \A c \in S : [d \in Bills |-> 0][c] \in Nat
        OBVIOUS
      <3> QED
        BY <1>2, <3>1, <3>2, <3>3, CreateRight
    <2>4. ASSUME NEW S \in SUBSET Bills, NEW amount \in Amounts(S), ExportBills(u, S, amount)
          PROVE  Right(b)'
      <3> DEFINE due0 == [c \in Bills |-> request[u].bill[c].due]
      <3>1. \A c \in S : amount[c] \in Nat
        BY AmountsAreNat
      <3>2. CreateFile(u, S, amount, "exported", due0) /\ Reading(u)
        BY <2>4 DEF ExportBills, CreateFile
      <3>3. \A c \in S : due0[c] = request[u].bill[c].due
        OBVIOUS
      <3>4. \A c \in S : due0[c] \in Nat
        BY <3>2, Rows DEF Bill
      <3> HIDE DEF due0
      <3> QED
        BY <1>2, <3>1, <3>2, <3>3, <3>4, CreateRight
    <2>5. ASSUME NEW f \in Files, Generate(u, f)
          PROVE  Right(b)'
      BY <1>2, <2>5, GenerateRight
    <2> QED
      BY <1>4, <2>1, <2>2, <2>3, <2>4, <2>5 DEF Export
  <1>5. ASSUME NEW f \in Files, Handle(f)
        PROVE  Right(b)'
    BY <1>2, <1>5, HandleRight
  <1>6. ASSUME NEW c \in Bills, Settle(c)
        PROVE  Right(b)'
    BY <1>2, <1>6, SettleRight
  <1> QED
    BY <1>3, <1>4, <1>5, <1>6 DEF Next

LEMMA InitPaidInv == Init => PaidInv
  <1> SUFFICES ASSUME Init PROVE PaidInv
    OBVIOUS
  <1>1. TypeOK
    BY InitTypeOK
  <1>2. NotYetMade /\ \A u \in Users : ~Reading(u)
    BY DEF Init, NotYetMade, NoLine, Reading
  <1>3. ASSUME NEW b \in Bills PROVE Right(b)
    <2> DEFINE col == Column(line, b)
    <2>1. \A f \in Files : col[f] = NoLine
      BY DEF Init, Column
    <2>2. Sent(col) = {} /\ Arrived(col) = {}
      BY <2>1 DEF NoLine, Sent, Arrived, Alive
    <2>3. PICK t \in Totals : bill[b] = [posted |-> TRUE, total |-> t, due |-> t, other |-> 0]
      BY DEF Init
    <2>4. Sum(col, {}) = 0
      <3>1. Crowns(col, {}) = {}
        BY DEF Crowns
      <3> QED
        BY <3>1, FS_EmptySet DEF Sum
    <2>5. bill[b].posted
      BY <2>3
    <2>6. PaidRight(bill[b], col)
      BY <2>2, <2>3, <2>4, FileAssumption DEF PaidRight
    <2> QED
      BY <1>2, <2>5, <2>6, Zenon DEF Right
  <1> QED
    BY <1>2, <1>3 DEF PaidInv, SeenInOrder

LEMMA AlwaysPaidInv == Spec => []PaidInv
  <1>1. Init => PaidInv
    BY InitPaidInv
  <1>2. TypeOK /\ FileMatchesLines /\ PaidInv /\ [Next]_vars => PaidInv'
    BY NextNotYetMade, NextSeenInOrder, NextRight DEF PaidInv
  <1> QED
    BY <1>1, <1>2, TypeCorrect, FileAndLinesAgree, PTL DEF Spec

\* What the invariant says of one bill.
LEMMA BillIsRight ==
    ASSUME TypeOK, PaidInv, NEW b \in Bills \ otherwise
    PROVE  /\ PaidRight(bill[b], Column(line, b)) /\ bill[b] \in Bill
           /\ Column(line, b) \in [Files -> Line]
           /\ \A f \in Files : Column(line, b)[f] = line[f][b]
  BY Rows, ColumnTyped DEF PaidInv, Right

\* A bill that only files pay is held until all its payments have arrived, however
\* its payments arrive in part, are taken back and arrive again while others export
\* it (_compute_holds_bill).
THEOREM HeldUntilPaymentsArrive == Spec => []HeldUntilReached
  <1>1. TypeOK /\ PaidInv => HeldUntilReached
    <2> SUFFICES ASSUME TypeOK, PaidInv, NEW b \in Bills \ otherwise,
                        NEW f \in Files, line[f][b].state = "done", line[f][b].reached = 0,
                        \A g \in Files : ~Holds(line[g][b], bill[b].due)
                 PROVE  FALSE
      BY DEF HeldUntilReached
    <2> DEFINE col == Column(line, b)
               x == bill[b]
    <2>1. /\ PaidRight(x, col) /\ x \in Bill /\ col \in [Files -> Line]
          /\ \A g \in Files : col[g] = line[g][b]
      BY BillIsRight
    <2>2. /\ \A g \in Files \ {0} : ~Holds(col[g], x.due)
          /\ col[f].state = "done" /\ col[f].reached = 0
      BY <2>1
    <2>3. 0 \notin Files
      BY DEF Files
    <2> HIDE DEF col, x
    <2>4. Arrived(col) = Sent(col) \ {0}
      BY <2>1, <2>2, <2>3, FreeOnceArrived
    <2> QED
      BY <2>2, <2>3, <2>4 DEF Arrived, Sent, Alive
  <1> QED
    BY <1>1, TypeCorrect, AlwaysPaidInv, PTL

\* And what is on its way to it is never more than what is due: no supplier is paid
\* twice, whatever requests have read and whatever order they commit in.
THEOREM NeverPaidTwice == Spec => []NotPaidTwice
  <1>1. TypeOK /\ PaidInv => NotPaidTwice
    <2> SUFFICES ASSUME TypeOK, PaidInv, NEW b \in Bills \ otherwise
                 PROVE  Cardinality(UNION {{f} \X (1..line[f][b].amount) : f \in OnItsWay(b)}) <= bill[b].due
      BY DEF NotPaidTwice
    <2> DEFINE col == Column(line, b)
               x == bill[b]
               F == OnItsWay(b)
    <2>1. /\ PaidRight(x, col) /\ x \in Bill /\ col \in [Files -> Line]
          /\ \A g \in Files : col[g] = line[g][b]
      BY BillIsRight
    <2>2. F \in SUBSET Sent(col) /\ F \cap Arrived(col) = {}
      BY <2>1 DEF OnItsWay, Sent, Arrived, Alive
    <2>3. \A f \in F : col[f].amount = line[f][b].amount
      BY <2>1 DEF OnItsWay
    <2>4. UNION {{f} \X (1..line[f][b].amount) : f \in F} = Crowns(col, F)
      <3> HIDE DEF col, F
      <3> QED
        BY <2>3 DEF Crowns
    <2>5. Sum(col, F) <= x.due
      <3> HIDE DEF col, F, x
      <3> QED
        BY <2>1, <2>2, NoMoreThanDue
    <2> QED
      BY <2>4, <2>5 DEF Sum
  <1> QED
    BY <1>1, TypeCorrect, AlwaysPaidInv, PTL
=============================================================================
