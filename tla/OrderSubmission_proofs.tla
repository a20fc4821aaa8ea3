----------------------- MODULE OrderSubmission_proofs -----------------------
(***************************************************************************)
(* Proofs about the execution processes that share one ledger, for every   *)
(* number of processes, orders and units: that they use the ledger as      *)
(* OrderLedger says, that an order is transmitted at most once, and that   *)
(* the ledger reports only outcomes and fills of the broker.               *)
(***************************************************************************)
EXTENDS OrderSubmission, OrderLedger_proofs, FiniteSetTheorems

Size(o) == TermQuantity[InitialTerms[o]]

-----------------------------------------------------------------------------
(* The types of what the processes and the broker keep.                    *)

StatusesOf(o) ==
    {StatusOf(word, InitialTerms[o], Size(o), n) : word \in BrokerWord, n \in 0..Size(o)}

StatusMessages ==
    UNION {{[kind |-> "status", order |-> o, status |-> st] : st \in StatusesOf(o)} :
              o \in Orders}

OtherMessages ==
    [kind : {"execution"}, order : Orders, root : Nat]
    \cup [kind : {"error"}, order : Orders, code : {201, 202}]

Messages == StatusMessages \cup OtherMessages

CallSteps ==
    {"idle", "gate", "risk", "claim", "send", "wait", "unknown", "apply", "cancel gate",
     "cancel claim", "cancel send", "cancel wait", "expire"}

BookEntry ==
    [sent : Nat, state : {"none", "pending", "working"} \cup BrokerTerminal, filled : Nat,
     cancelAsked : BOOLEAN, owner : Processes \cup {NoProcess}]

DueRow == [order : Orders, brokerId : BOOLEAN, revision : Nat]

-----------------------------------------------------------------------------
(* What is true of the broker at this moment, and stays true.              *)

\* The broker could have reported the status at some moment until now.
Past(o, st) ==
    /\ st \in StatusesOf(o)
    /\ st.filled <= book[o].filled
    /\ st.status = "Filled" => book[o].state = "filled"
    /\ st.status = "Cancelled" => book[o].state = "cancelled"
    /\ st.status = "Inactive" => book[o].state = "rejected"

\* A message of the broker about an order that it has.
Told(m) ==
    /\ book[m.order].state # "none"
    /\ m.kind = "status" => Past(m.order, m.status)
    /\ m.kind = "execution" => m.root \in 1..book[m.order].filled
    /\ m.kind = "error" => book[m.order].state = IF m.code = 202 THEN "cancelled" ELSE "rejected"

\* The broker's record makes sense: an order is filled when all its units are, one it has was
\* transmitted, and transmissions were granted.
BookInv ==
    /\ book \in [Orders -> BookEntry]
    /\ \A o \in Orders :
          /\ book[o].filled <= Size(o)
          /\ book[o].state = "filled" <=> book[o].filled = Size(o)
          /\ book[o].state # "none" => book[o].sent > 0
          /\ book[o].sent <= claims[o]

\* A call past the claim and a cancellation belong to a claimed order, and the status that a
\* call has copied was true.
BeforeClaim == {"idle", "gate", "risk", "claim"}

CallFits(c) ==
    /\ DOMAIN c = {"step", "order", "seen", "answer", "ttl", "revision"}
    /\ c.step \in CallSteps
    /\ c.step # "idle" => c.order \in Orders
    /\ c.step \notin BeforeClaim => AtBroker(c.order)
    /\ c.step = "apply" => Past(c.order, c.answer)

CallInv == DOMAIN call = Processes /\ \A p \in Processes : CallFits(call[p])

\* Whoever is about to call placeOrder has the claim, has not used it, and is alone.
SendersAlone ==
    \A p \in Processes : At(p, "send") =>
        /\ claims[call[p].order] > 0
        /\ book[call[p].order].sent = 0
        /\ \A q \in Processes : At(q, "send") /\ call[q].order = call[p].order => p = q

\* A row that was read with a broker identity belongs to a claimed order.
DueFits(d) == d \in DueRow /\ (d.brokerId => AtBroker(d.order))

ScanInv ==
    /\ DOMAIN due = Processes
    /\ \A p \in Processes : due[p] # NoOrder => DueFits(due[p])

\* Everything that is under way to the ledger was true of the broker: the callbacks, the
\* adapter's records and the snapshots of reconciliations.
InboxInv ==
    /\ inbox \in [Processes -> Seq(Messages)]
    /\ \A p \in Processes : \A i \in 1..Len(inbox[p]) : Told(inbox[p][i])

HeardInv ==
    /\ DOMAIN heard = Processes
    /\ \A p \in Processes : DOMAIN heard[p] = Orders
    /\ \A p \in Processes, o \in Orders : heard[p][o] # NoStatus => Past(o, heard[p][o])

SnapshotFits(s) ==
    /\ DOMAIN s = {"status", "fills", "left", "ok"}
    /\ s.left \subseteq Orders
    /\ \A o \in s.left : Past(o, s.status[o])
    /\ s.fills # NoSnapshot =>
          \A o \in Orders : s.fills[o] \in Nat /\ s.fills[o] <= book[o].filled

SnapshotInv ==
    /\ DOMAIN recon = Processes
    /\ \A p \in Processes : recon[p] # NoSnapshot => SnapshotFits(recon[p])

Stored(o) == {n \in Roots : Seen(o, n) # {}}

\* A row of an order, against the broker's record of the order.
RowIsTrue(o, row) ==
    /\ row.terms = InitialTerms[o] /\ row.pending = NoTerms
    /\ row.filled \in 0..book[o].filled
    /\ row.state = "ABSENT" => row.filled = 0
    /\ row.state # "ABSENT" => row.remaining = Size(o) - row.filled
    /\ row.state = "FILLED" => book[o].state = "filled"
    /\ row.state = "CANCELLED" => book[o].state = "cancelled"
    /\ row.state = "REJECTED" => book[o].state = "rejected"

\* The executions stored, against those the broker has made.
StoreIsTrue(o) ==
    /\ Stored(o) \subseteq 1..book[o].filled
    /\ executed[o] = Cardinality(Stored(o))
    /\ \A n \in Roots : Seen(o, n) \subseteq {1}
    /\ \A n \in Roots : Seen(o, n) = {} => executions[o][n].live = 0

IdentitiesAreTrue == \A o \in Orders : rows[o].brokerId => AtBroker(o)

RowsAreTrue == \A o \in Orders : RowIsTrue(o, rows[o]) /\ StoreIsTrue(o)

SubmissionInv ==
    /\ IInv
    /\ RowsAreTrue
    /\ IdentitiesAreTrue
    /\ BookInv
    /\ CallInv
    /\ SendersAlone
    /\ ScanInv
    /\ InboxInv
    /\ HeardInv
    /\ SnapshotInv

-----------------------------------------------------------------------------
(* What the processes do to the ledger.                                    *)

\* One operation on one row, with what its caller knows of the broker.
LedgerOp(o) ==
    \/ CreateIntent(o)
    \/ \E target \in CallerTargets(o) :
          /\ target = "CANCELLED" => book[o].state = "cancelled"
          /\ target = "REJECTED" => book[o].state = "rejected"
          /\ Transition(o, target)
    \/ ClaimSubmission(o)
    \/ ClaimCancellation(o)
    \/ MarkExpiredAfterCancel(o)
    \/ \E st \in StatusesOf(o), settle \in BOOLEAN :
          /\ Past(o, st)
          /\ ApplyReconciledStatus(o, LifecycleFromBrokerStatus(st), st, settle)
    \/ \E n \in 1..book[o].filled : 1 \notin Seen(o, n) /\ UpsertExecution(o, n, 1, 1)

\* The order has a quantity, and the terms it was created with.
LEMMA SizeType ==
    ASSUME NEW o \in Orders
    PROVE  Size(o) \in Nat \ {0} /\ InitialTerms[o] \in Terms /\ Size(o) \in Quantities
BY TermsAssumption, LedgerAssumption DEF Size, Quantities

\* A status of an order has its terms and splits its quantity.
LEMMA StatusFields ==
    ASSUME NEW o \in Orders, NEW st \in StatusesOf(o)
    PROVE  /\ st \in BrokerOrderStatus
           /\ st.terms = InitialTerms[o]
           /\ st.filled \in 0..Size(o)
           /\ st.remaining = Size(o) - st.filled
           /\ st.status \in BrokerWord
<1>1. PICK word \in BrokerWord, n \in 0..Size(o) : st = StatusOf(word, InitialTerms[o], Size(o), n)
  BY DEF StatusesOf
<1>2. Size(o) \in Nat /\ InitialTerms[o] \in Terms
  BY SizeType
<1> QED BY <1>1, <1>2 DEF StatusOf, BrokerOrderStatus

\* Each of these operations is a step of OrderLedger.
LEMMA LedgerOpIsStep ==
    ASSUME BookInv, NEW o \in Orders, LedgerOp(o)
    PROVE  Next
<1>1. ASSUME NEW st \in StatusesOf(o), NEW settle \in BOOLEAN,
             ApplyReconciledStatus(o, LifecycleFromBrokerStatus(st), st, settle)
      PROVE  ReconcileStatus(o)
  <2>1. PICK word \in BrokerWord, n \in 0..Size(o) :
           st = StatusOf(word, InitialTerms[o], Size(o), n)
    BY DEF StatusesOf
  <2>2. InitialTerms[o] \in Terms \cup {NoTerms} /\ Size(o) \in Quantities
    BY SizeType
  <2> QED BY <1>1, <2>1, <2>2 DEF ReconcileStatus
<1>2. ASSUME NEW n \in 1..book[o].filled, UpsertExecution(o, n, 1, 1)
      PROVE  RecordExecution(o)
  <2>1. book[o].filled \in Nat /\ book[o].filled <= Size(o)
    BY DEF BookInv, BookEntry
  <2>2. Size(o) \in Nat \ {0} /\ Size(o) \in Quantities
    BY SizeType
  <2>3. n \in Roots /\ 1 \in Versions
    <3>1. n \in 1..Size(o)
      BY <2>1, <2>2
    <3> QED BY <3>1, SubmissionAssumption DEF Size
  <2>4. 1 \in 1..Size(o)
    BY <2>2
  <2> QED BY <1>2, <2>2, <2>3, <2>4 DEF RecordExecution
<1> QED BY <1>1, <1>2 DEF LedgerOp, Next

\* What applying a status makes of a row that has no replacement pending.
LEMMA RowAfterStatus ==
    ASSUME NEW row \in Row, row.pending = NoTerms, NEW target, NEW st \in BrokerOrderStatus,
           NEW settle \in BOOLEAN
    PROVE  LET after == RevisedIfChanged(row, RowFromStatus(row, target, st, settle))
           IN  /\ after.terms = row.terms
               /\ after.pending = NoTerms
               /\ after.filled = st.filled
               /\ after.remaining = st.remaining
               /\ after.brokerId
               /\ after.state \in {row.state, target}
<1> DEFINE applied == StateApplied(row, target, FALSE)
           written == RowFromStatus(row, target, st, settle)
<1>1. PendingSettled(row, st, settle) = row /\ TermsMismatch(row, st, settle) = FALSE
  BY DEF PendingSettled, TermsMismatch
<1>2. written = BrokerFieldsApplied(applied, target, st)
  BY <1>1 DEF RowFromStatus
<1>3. /\ DOMAIN applied = DOMAIN row
      /\ applied.terms = row.terms
      /\ applied.pending = NoTerms
      /\ applied.state \in {row.state, target}
  BY DEF StateApplied, Row
<1>4. /\ DOMAIN written = DOMAIN row
      /\ written.terms = row.terms
      /\ written.pending = NoTerms
      /\ written.filled = st.filled
      /\ written.remaining = st.remaining
      /\ written.brokerId
      /\ written.state \in {row.state, target}
  <2> HIDE DEF applied, written
  <2> QED BY <1>2, <1>3 DEF BrokerFieldsApplied, Row
<1>5. LET after == RevisedIfChanged(row, written)
      IN  /\ after.terms = row.terms
          /\ after.pending = NoTerms
          /\ after.filled = st.filled
          /\ after.remaining = st.remaining
          /\ after.brokerId
          /\ after.state \in {row.state, target}
  <2> HIDE DEF written
  <2> QED BY <1>4 DEF RevisedIfChanged, Row
<1> QED BY <1>5

\* The state read from a status the broker could have reported is true of the broker.
LEMMA LifecycleIsTrue ==
    ASSUME NEW o \in Orders, NEW st, Past(o, st), BookInv
    PROVE  /\ LifecycleFromBrokerStatus(st) = "FILLED" => book[o].state = "filled"
           /\ LifecycleFromBrokerStatus(st) = "CANCELLED" => book[o].state = "cancelled"
           /\ LifecycleFromBrokerStatus(st) = "REJECTED" => book[o].state = "rejected"
<1>1. /\ st.filled \in 0..Size(o)
      /\ st.terms = InitialTerms[o]
      /\ st.status \in BrokerWord
  BY StatusFields DEF Past
<1>2. Size(o) \in Nat /\ book[o].filled \in Nat /\ book[o].filled <= Size(o)
  BY SizeType DEF BookInv, BookEntry
<1>3. st.filled >= Size(o) => book[o].state = "filled"
  BY <1>1, <1>2 DEF Past, BookInv
<1> QED BY <1>1, <1>3 DEF LifecycleFromBrokerStatus, Past, BrokerWord, Size

-----------------------------------------------------------------------------
(* The operations keep the rows true.                                      *)

\* A row moved to another state says the same of the fills.
LEMMA RevisedIsTrue ==
    ASSUME NEW o \in Orders, NEW row \in Row, RowIsTrue(o, row), row.state # "ABSENT",
           NEW state \in RowState \ {"ABSENT"}, NEW after,
           \/ after = Revised(row, state)
           \/ \E remark : after = [Revised(row, state) EXCEPT !.remark = remark],
           state = "FILLED" => book[o].state = "filled",
           state = "CANCELLED" => book[o].state = "cancelled",
           state = "REJECTED" => book[o].state = "rejected"
    PROVE  RowIsTrue(o, after) /\ after.brokerId = row.brokerId
<1>1. /\ after.state = state
      /\ after.terms = row.terms
      /\ after.pending = row.pending
      /\ after.filled = row.filled
      /\ after.remaining = row.remaining
      /\ after.brokerId = row.brokerId
  BY DEF Revised, Row
<1> QED BY <1>1 DEF RowIsTrue

\* A new row starts with all its quantity remaining.
LEMMA IntentIsTrue ==
    ASSUME NEW o \in Orders, rows[o] \in Row, RowIsTrue(o, rows[o]), CreateIntent(o)
    PROVE  \E after : /\ ChangeRow(o, after)
                      /\ RowIsTrue(o, after) /\ after.brokerId = rows[o].brokerId
<1> DEFINE after == [rows[o] EXCEPT !.state = "INTENT_PERSISTED",
                                    !.remaining = TermQuantity[rows[o].terms],
                                    !.revision = 1]
<1>1. /\ after.state = "INTENT_PERSISTED"
      /\ after.terms = rows[o].terms
      /\ after.pending = rows[o].pending
      /\ after.filled = rows[o].filled
      /\ after.remaining = TermQuantity[rows[o].terms]
      /\ after.brokerId = rows[o].brokerId
  BY DEF Row
<1>2. rows[o].filled = 0 /\ rows[o].terms = InitialTerms[o]
  BY DEF CreateIntent, Exists, RowIsTrue
<1>3. Size(o) - 0 = Size(o)
  BY SizeType
<1>4. RowIsTrue(o, after)
  <2> HIDE DEF after
  <2> QED BY <1>1, <1>2, <1>3 DEF RowIsTrue, Size
<1> QED BY <1>1, <1>4 DEF CreateIntent

\* A status the broker could have reported leaves a true row.
LEMMA StatusIsTrue ==
    ASSUME IInv, BookInv, NEW o \in Orders, RowIsTrue(o, rows[o]),
           NEW st \in StatusesOf(o), NEW settle \in BOOLEAN, Past(o, st),
           ApplyReconciledStatus(o, LifecycleFromBrokerStatus(st), st, settle)
    PROVE  \E after : ChangeRow(o, after) /\ RowIsTrue(o, after) /\ AtBroker(o)
<1> DEFINE target == LifecycleFromBrokerStatus(st)
           after == RevisedIfChanged(rows[o], RowFromStatus(rows[o], target, st, settle))
<1>1. rows[o] \in Row /\ rows[o].pending = NoTerms /\ rows[o].terms = InitialTerms[o]
  BY DEF IInv, TypeOK, RowIsTrue
<1>2. /\ after.terms = rows[o].terms
      /\ after.pending = NoTerms
      /\ after.filled = st.filled
      /\ after.remaining = st.remaining
      /\ after.state \in {rows[o].state, target}
  <2> HIDE DEF target
  <2> QED BY <1>1, StatusFields, RowAfterStatus
<1>3. /\ target # "ABSENT"
      /\ target = "FILLED" => book[o].state = "filled"
      /\ target = "CANCELLED" => book[o].state = "cancelled"
      /\ target = "REJECTED" => book[o].state = "rejected"
  BY BrokerStateIsKnown, LifecycleIsTrue DEF WORKING_STATES
<1>4. AtBroker(o) /\ rows[o].state # "ABSENT"
  BY DEF ApplyReconciledStatus, AtBroker, IInv, TypeOK, ClaimedOnce
<1>5. /\ st.filled \in 0..Size(o)
      /\ st.remaining = Size(o) - st.filled
      /\ st.filled <= book[o].filled
      /\ book[o].filled \in Nat
  BY StatusFields DEF Past, BookInv, BookEntry
<1>6. st.filled \in 0..book[o].filled
  BY <1>5, SizeType
<1>7. RowIsTrue(o, after)
  <2> HIDE DEF target, after
  <2> QED BY <1>1, <1>2, <1>3, <1>4, <1>5, <1>6 DEF RowIsTrue
<1> QED BY <1>4, <1>7 DEF ApplyReconciledStatus

\* The operations that move a row to another state, with or without a remark.
LEMMA MoveIsTrue ==
    ASSUME IInv, NEW o \in Orders, RowIsTrue(o, rows[o]),
           \/ \E target \in CallerTargets(o) :
                 /\ target = "CANCELLED" => book[o].state = "cancelled"
                 /\ target = "REJECTED" => book[o].state = "rejected"
                 /\ Transition(o, target)
           \/ ClaimCancellation(o)
           \/ MarkExpiredAfterCancel(o)
    PROVE  \E after : /\ ChangeRow(o, after)
                      /\ RowIsTrue(o, after) /\ after.brokerId = rows[o].brokerId
<1>1. rows[o] \in Row
  BY DEF IInv, TypeOK
<1>2. ASSUME NEW target \in CallerTargets(o), Transition(o, target),
             target = "CANCELLED" => book[o].state = "cancelled",
             target = "REJECTED" => book[o].state = "rejected"
      PROVE  \E after : /\ ChangeRow(o, after)
                        /\ RowIsTrue(o, after) /\ after.brokerId = rows[o].brokerId
  <2> DEFINE plain == Revised(rows[o], target)
             after == IF target = "AUTHORIZED" THEN plain
                      ELSE [plain EXCEPT !.remark = Plain("reason")]
  <2>1. target \in {"RISK_REJECTED", "AUTHORIZED", "EXPIRED", "UNKNOWN", "CANCELLED", "REJECTED"}
    BY DEF CallerTargets
  <2>2. target \in RowState \ {"ABSENT"} /\ target # "FILLED"
    BY <2>1 DEF RowState, OrderLifecycleState, PRE_SUBMISSION_STATES, WORKING_STATES,
                TERMINAL_ORDER_STATES
  <2>3. ChangeRow(o, after) /\ rows[o].state # "ABSENT"
    BY <1>2 DEF Transition, Exists
  <2>4. after = plain \/ \E remark : after = [plain EXCEPT !.remark = remark]
    OBVIOUS
  <2>5. RowIsTrue(o, after) /\ after.brokerId = rows[o].brokerId
    <3> HIDE DEF after
    <3> QED BY <1>1, <1>2, <2>2, <2>3, <2>4, RevisedIsTrue
  <2> QED BY <2>3, <2>5
<1>3. ASSUME ClaimCancellation(o)
      PROVE  \E after : /\ ChangeRow(o, after)
                        /\ RowIsTrue(o, after) /\ after.brokerId = rows[o].brokerId
  <2>1. "CANCEL_PENDING" \in RowState \ {"ABSENT"}
    BY DEF RowState, OrderLifecycleState, WORKING_STATES
  <2>2. /\ ChangeRow(o, Revised(rows[o], "CANCEL_PENDING"))
        /\ rows[o].state # "ABSENT"
    BY <1>3 DEF ClaimCancellation
  <2> QED BY <1>1, <2>1, <2>2, RevisedIsTrue
<1>4. ASSUME MarkExpiredAfterCancel(o)
      PROVE  \E after : /\ ChangeRow(o, after)
                        /\ RowIsTrue(o, after) /\ after.brokerId = rows[o].brokerId
  <2> DEFINE after == [Revised(rows[o], "EXPIRED") EXCEPT !.remark = Plain("ttl elapsed")]
  <2>1. "EXPIRED" \in RowState \ {"ABSENT"}
    BY DEF RowState, OrderLifecycleState, TERMINAL_ORDER_STATES
  <2>2. ChangeRow(o, after) /\ rows[o].state # "ABSENT"
    BY <1>4 DEF MarkExpiredAfterCancel
  <2>3. \E remark : after = [Revised(rows[o], "EXPIRED") EXCEPT !.remark = remark]
    OBVIOUS
  <2>4. RowIsTrue(o, after) /\ after.brokerId = rows[o].brokerId
    <3> HIDE DEF after
    <3> QED BY <1>1, <2>1, <2>2, <2>3, RevisedIsTrue
  <2> QED BY <2>2, <2>4
<1> QED BY <1>2, <1>3, <1>4

\* The stored executions stay true while nobody writes them.
LEMMA StoreStays ==
    ASSUME RowsAreTrue, UNCHANGED <<executions, executed, book>>, NEW o \in Orders
    PROVE  StoreIsTrue(o)'
<1>1. \A n \in Roots : Seen(o, n)' = Seen(o, n)
  BY DEF Seen
<1>2. Stored(o)' = Stored(o)
  BY <1>1 DEF Stored
<1>3. StoreIsTrue(o)
  BY DEF RowsAreTrue
<1> QED BY <1>1, <1>2, <1>3 DEF StoreIsTrue

\* A change of one row alone keeps all rows true, as far as it is true itself.
LEMMA ChangeKeepsRows ==
    ASSUME IInv, RowsAreTrue, NEW o \in Orders, NEW after, ChangeRow(o, after),
           RowIsTrue(o, after), UNCHANGED book
    PROVE  RowsAreTrue'
<1>1. \A x \in Orders : rows'[x] = IF x = o THEN after ELSE rows[x]
  BY DEF ChangeRow, IInv, TypeOK
<1>2. \A x \in Orders : RowIsTrue(x, rows'[x])
  BY <1>1 DEF RowsAreTrue
<1>3. \A x \in Orders : RowIsTrue(x, rows[x])'
  BY <1>2 DEF RowIsTrue, Size
<1>4. \A x \in Orders : StoreIsTrue(x)'
  BY StoreStays DEF ChangeRow
<1> QED BY <1>3, <1>4 DEF RowsAreTrue

\* The claim moves the row to SUBMITTING and counts the permission.
LEMMA ClaimKeepsRows ==
    ASSUME IInv, RowsAreTrue, NEW o \in Orders, ClaimSubmission(o), UNCHANGED book
    PROVE  /\ RowsAreTrue'
           /\ claims[o] = 0 /\ claims' = [claims EXCEPT ![o] = 1]
           /\ \A x \in Orders : rows'[x].brokerId = rows[x].brokerId
<1> DEFINE after == Revised(rows[o], "SUBMITTING")
<1>1. rows[o] \in Row /\ rows[o].state = "AUTHORIZED" /\ claims[o] = 0
  BY DEF IInv, TypeOK, ClaimedOnce, ClaimSubmission, PRE_SUBMISSION_STATES
<1>2. "SUBMITTING" \in RowState \ {"ABSENT"}
  BY DEF RowState, OrderLifecycleState, WORKING_STATES
<1>3. RowIsTrue(o, after) /\ after.brokerId = rows[o].brokerId
  <2>1. RowIsTrue(o, rows[o])
    BY DEF RowsAreTrue
  <2> HIDE DEF after
  <2>2. after = Revised(rows[o], "SUBMITTING")
    BY DEF after
  <2> QED BY <1>1, <1>2, <2>1, <2>2, RevisedIsTrue
<1>4. \A x \in Orders : rows'[x] = IF x = o THEN after ELSE rows[x]
  BY DEF ClaimSubmission, IInv, TypeOK
<1> HIDE DEF after
<1>5. \A x \in Orders : RowIsTrue(x, rows[x])'
  BY <1>3, <1>4 DEF RowsAreTrue, RowIsTrue, Size
<1>6. \A x \in Orders : StoreIsTrue(x)'
  BY StoreStays DEF ClaimSubmission
<1>7. claims' = [claims EXCEPT ![o] = 1]
  BY <1>1 DEF ClaimSubmission
<1> QED BY <1>1, <1>3, <1>4, <1>5, <1>6, <1>7 DEF RowsAreTrue

\* There are n numbers from 1 to n.
LEMMA IntervalSize ==
    ASSUME NEW n \in Nat
    PROVE  IsFiniteSet(1..n) /\ Cardinality(1..n) = n
<1>1. /\ IsFiniteSet(1..n)
      /\ Cardinality(1..n) = IF 1 > n THEN 0 ELSE n - 1 + 1
  <2>1. 1 \in Int /\ n \in Int
    OBVIOUS
  <2> QED BY <2>1, FS_Interval
<1> QED BY <1>1

\* A new execution adds its root to the stored ones, and one unit to their sum.
LEMMA ExecutionIsStored ==
    ASSUME IInv, RowsAreTrue, BookInv, NEW o \in Orders, NEW n \in 1..book[o].filled,
           n \in Roots, 1 \notin Seen(o, n), UpsertExecution(o, n, 1, 1), UNCHANGED book
    PROVE  /\ \A x \in Orders : StoreIsTrue(x)'
           /\ Seen(o, n) = {}
           /\ ExecutedAfter(o, n, 1) \in 1..book[o].filled
<1> DEFINE total == ExecutedAfter(o, n, 1)
           before == executions[o][n]
           entry == [quantity |-> [before.quantity EXCEPT ![1] = 1], current |-> {1}, live |-> 1]
<1>1. /\ before \in ExecutionEntry
      /\ executions \in [Orders -> [Roots -> ExecutionEntry]]
      /\ executed \in [Orders -> Int]
      /\ 1 \in Versions
  BY SubmissionAssumption DEF IInv, TypeOK
<1>2. /\ executions' = [executions EXCEPT ![o][n] = entry]
      /\ executed' = [executed EXCEPT ![o] = total]
  BY DEF UpsertExecution
<1>3. Seen(o, n) = {} /\ before.live = 0
  BY DEF RowsAreTrue, StoreIsTrue
<1>4. total = executed[o] + 1
  BY <1>1, <1>3 DEF ExecutedAfter
<1>5. \A x \in Orders, r \in Roots :
        executions'[x][r] = IF x = o /\ r = n THEN entry ELSE executions[x][r]
  BY <1>1, <1>2
<1>6. \A v \in Versions : entry.quantity[v] > 0 <=> v = 1
  <2>1. \A v \in Versions : ~(before.quantity[v] > 0)
    BY <1>3 DEF Seen
  <2>2. \A v \in Versions : entry.quantity[v] = IF v = 1 THEN 1 ELSE before.quantity[v]
    BY <1>1 DEF ExecutionEntry
  <2> QED BY <2>1, <2>2
<1>7. Seen(o, n)' = {1}
  <2> HIDE DEF entry
  <2>1. executions'[o][n] = entry
    BY <1>5
  <2> QED BY <1>1, <1>6, <2>1 DEF Seen
<1>8. \A x \in Orders, r \in Roots : x # o \/ r # n => Seen(x, r)' = Seen(x, r)
  <2> HIDE DEF entry
  <2> QED BY <1>5 DEF Seen
<1>9. Stored(o)' = Stored(o) \cup {n} /\ n \notin Stored(o)
  BY <1>3, <1>7, <1>8 DEF Stored
<1>10. Stored(o) \subseteq 1..book[o].filled /\ executed[o] = Cardinality(Stored(o))
  BY DEF RowsAreTrue, StoreIsTrue
<1>11. book[o].filled \in Nat
  BY DEF BookInv, BookEntry
<1>12. IsFiniteSet(1..book[o].filled) /\ Cardinality(1..book[o].filled) = book[o].filled
  BY <1>11, IntervalSize
<1>13. IsFiniteSet(Stored(o)) /\ Cardinality(Stored(o)) \in Nat
  BY <1>10, <1>12, FS_Subset, FS_CardinalityType
<1>14. Cardinality(Stored(o)') = Cardinality(Stored(o)) + 1
  BY <1>9, <1>13, FS_AddElement
<1>15. Stored(o)' \subseteq 1..book[o].filled
  BY <1>9, <1>10
<1>16. Cardinality(Stored(o)') <= book[o].filled
  BY <1>12, <1>15, FS_Subset
<1>17. total \in 1..book[o].filled
  <2> HIDE DEF total
  <2> QED BY <1>4, <1>10, <1>11, <1>13, <1>14, <1>16
<1>18. StoreIsTrue(o)'
  <2>1. executed'[o] = Cardinality(Stored(o)')
    BY <1>1, <1>2, <1>4, <1>10, <1>14
  <2>2. \A r \in Roots : Seen(o, r)' \subseteq {1}
    BY <1>7, <1>8 DEF RowsAreTrue, StoreIsTrue
  <2>3. \A r \in Roots : Seen(o, r)' = {} => executions'[o][r].live = 0
    BY <1>5, <1>7, <1>8 DEF RowsAreTrue, StoreIsTrue
  <2> QED BY <1>15, <2>1, <2>2, <2>3 DEF StoreIsTrue
<1>19. ASSUME NEW x \in Orders, x # o
       PROVE  StoreIsTrue(x)'
  <2>1. Stored(x)' = Stored(x)
    BY <1>8, <1>19 DEF Stored
  <2>2. executed'[x] = executed[x]
    BY <1>1, <1>2, <1>19
  <2>3. \A r \in Roots : Seen(x, r)' = Seen(x, r) /\ executions'[x][r] = executions[x][r]
    BY <1>5, <1>8, <1>19
  <2> QED BY <2>1, <2>2, <2>3 DEF RowsAreTrue, StoreIsTrue
<1> QED BY <1>3, <1>17, <1>18, <1>19

\* The row counts the execution, at most as many units as the broker has filled.
LEMMA ExecutionKeepsRows ==
    ASSUME IInv, RowsAreTrue, BookInv, NEW o \in Orders,
           NEW n \in 1..book[o].filled, n \in Roots, 1 \notin Seen(o, n),
           UpsertExecution(o, n, 1, 1), UNCHANGED book
    PROVE  /\ RowsAreTrue'
           /\ AtBroker(o) /\ UNCHANGED claims
           /\ \A x \in Orders : x # o => rows'[x] = rows[x]
<1> DEFINE total == ExecutedAfter(o, n, 1)
           row == rows[o]
           after == RowFromExecution(row, total, FALSE)
<1>1. /\ \A x \in Orders : StoreIsTrue(x)'
      /\ Seen(o, n) = {}
      /\ total \in 1..book[o].filled
  BY ExecutionIsStored
<1>2. /\ rows \in [Orders -> Row]
      /\ rows' = [rows EXCEPT ![o] = after]
      /\ AtBroker(o)
      /\ UNCHANGED claims
  <2>1. rows' = [rows EXCEPT ![o] = RowFromExecution(@, total, Seen(o, n) # {})]
    BY DEF UpsertExecution
  <2>2. (Seen(o, n) # {}) = FALSE
    BY <1>1
  <2> QED BY <2>1, <2>2 DEF UpsertExecution, IInv, TypeOK
<1>3. row \in Row /\ RowIsTrue(o, row) /\ row.state # "ABSENT"
  BY <1>2 DEF RowsAreTrue, IInv, ClaimedOnce, AtBroker
<1>4. /\ book[o].filled \in Nat /\ book[o].filled <= Size(o)
      /\ Size(o) \in Nat \ {0}
      /\ TermQuantity[row.terms] = Size(o)
  BY <1>3, SizeType DEF BookInv, BookEntry, RowIsTrue, Size
<1>5. /\ row.filled \in 0..book[o].filled
      /\ row.remaining = Size(o) - row.filled
  BY <1>3 DEF RowIsTrue
<1> DEFINE counted == total >= row.filled
           filled == IF counted THEN Lesser(Size(o), total) ELSE row.filled
           remaining == IF counted THEN AtLeastZero(Size(o) - filled) ELSE row.remaining
           state == IF remaining = 0 /\ filled > 0 THEN "FILLED"
                    ELSE IF filled > 0 /\ row.state \notin TERMINAL_ORDER_STATES
                    THEN "PARTIAL_FILL" ELSE row.state
<1>6. /\ filled \in 0..book[o].filled
      /\ remaining = Size(o) - filled
  <2> HIDE DEF total, row
  <2> QED BY <1>1, <1>4, <1>5 DEF Lesser, AtLeastZero
<1>7. after = [Revised(row, state) EXCEPT !.filled = filled, !.remaining = remaining]
  BY <1>4 DEF RowFromExecution
<1>8. /\ after.state = state
      /\ after.terms = row.terms
      /\ after.pending = row.pending
      /\ after.filled = filled
      /\ after.remaining = remaining
  <2> HIDE DEF total, row, filled, remaining, state, after
  <2> QED BY <1>3, <1>7 DEF Revised, Row
<1>9. /\ state # "ABSENT"
      /\ state = "FILLED" => book[o].state = "filled"
      /\ state = "CANCELLED" => book[o].state = "cancelled"
      /\ state = "REJECTED" => book[o].state = "rejected"
  <2>1. remaining = 0 => book[o].state = "filled"
    <3> HIDE DEF filled, remaining
    <3> QED BY <1>4, <1>6 DEF BookInv
  <2> HIDE DEF filled, remaining
  <2> QED BY <1>3, <2>1 DEF RowIsTrue
<1>10. RowIsTrue(o, after)
  <2> HIDE DEF total, row, filled, remaining, state, after
  <2> QED BY <1>3, <1>6, <1>8, <1>9 DEF RowIsTrue
<1> HIDE DEF after
<1>11. \A x \in Orders : rows'[x] = IF x = o THEN after ELSE rows[x]
  BY <1>2
<1>12. \A x \in Orders : RowIsTrue(x, rows[x])'
  BY <1>10, <1>11 DEF RowsAreTrue, RowIsTrue, Size
<1> QED BY <1>1, <1>2, <1>11, <1>12 DEF RowsAreTrue

\* What the processes know of an order stays so: a claim is never taken back, and an identity
\* is recorded of claimed orders only.
ClaimsGrow ==
    /\ \A x \in Orders : claims[x] \in Nat /\ claims'[x] \in Nat /\ claims[x] <= claims'[x]
    /\ \A x \in Orders : rows'[x].brokerId => rows[x].brokerId \/ claims'[x] > 0

\* Every operation keeps the rows true, and only a claim of submission changes the claims.
LEMMA LedgerOpKeepsRows ==
    ASSUME IInv, RowsAreTrue, BookInv, NEW o \in Orders, LedgerOp(o),
           UNCHANGED book
    PROVE  /\ RowsAreTrue' /\ ClaimsGrow
           /\ UNCHANGED claims \/ ClaimSubmission(o)
<1>1. RowIsTrue(o, rows[o]) /\ rows \in [Orders -> Row] /\ claims \in [Orders -> Nat]
  BY DEF RowsAreTrue, IInv, TypeOK
<1>2. ASSUME NEW after, ChangeRow(o, after), RowIsTrue(o, after),
             after.brokerId = rows[o].brokerId \/ AtBroker(o)
      PROVE  RowsAreTrue' /\ ClaimsGrow /\ UNCHANGED claims
  <2>1. RowsAreTrue'
    BY <1>2, ChangeKeepsRows
  <2>2. \A x \in Orders : rows'[x] = IF x = o THEN after ELSE rows[x]
    BY <1>1, <1>2 DEF ChangeRow
  <2>3. UNCHANGED claims
    BY <1>2 DEF ChangeRow
  <2> QED BY <1>1, <1>2, <2>1, <2>2, <2>3 DEF ClaimsGrow, AtBroker
<1>3. CASE CreateIntent(o)
  BY <1>1, <1>2, <1>3, IntentIsTrue
<1>4. CASE \/ \E target \in CallerTargets(o) :
                 /\ target = "CANCELLED" => book[o].state = "cancelled"
                 /\ target = "REJECTED" => book[o].state = "rejected"
                 /\ Transition(o, target)
           \/ ClaimCancellation(o)
           \/ MarkExpiredAfterCancel(o)
  BY <1>1, <1>2, <1>4, MoveIsTrue
<1>5. CASE ClaimSubmission(o)
  <2>1. /\ RowsAreTrue'
        /\ claims' = [claims EXCEPT ![o] = 1] /\ claims[o] = 0
        /\ \A x \in Orders : rows'[x].brokerId = rows[x].brokerId
    BY <1>5, ClaimKeepsRows
  <2>2. ClaimsGrow
    BY <1>1, <2>1 DEF ClaimsGrow
  <2> QED BY <1>5, <2>1, <2>2
<1>6. CASE \E st \in StatusesOf(o), settle \in BOOLEAN :
              /\ Past(o, st)
              /\ ApplyReconciledStatus(o, LifecycleFromBrokerStatus(st), st, settle)
  <2>1. \E after : ChangeRow(o, after) /\ RowIsTrue(o, after) /\ AtBroker(o)
    BY <1>1, <1>6, StatusIsTrue
  <2> QED BY <1>2, <2>1
<1>7. ASSUME NEW n \in 1..book[o].filled, 1 \notin Seen(o, n), UpsertExecution(o, n, 1, 1)
      PROVE  RowsAreTrue' /\ ClaimsGrow /\ UNCHANGED claims
  <2>1. n \in Roots
    <3>1. book[o].filled \in Nat /\ book[o].filled <= Size(o) /\ Size(o) \in Nat
      BY SizeType DEF BookInv, BookEntry
    <3>2. n \in 1..Size(o)
      BY <3>1
    <3> QED BY <3>2, SubmissionAssumption DEF Size
  <2>2. /\ RowsAreTrue'
        /\ AtBroker(o) /\ UNCHANGED claims
        /\ \A x \in Orders : x # o => rows'[x] = rows[x]
    BY <1>7, <2>1, ExecutionKeepsRows
  <2> QED BY <1>1, <2>2 DEF ClaimsGrow, AtBroker
<1> QED BY <1>3, <1>4, <1>5, <1>6, <1>7 DEF LedgerOp

-----------------------------------------------------------------------------
(* Every step uses the ledger as one operation, with what is true.         *)

\* A step leaves the ledger alone, or is one operation on one row while the broker stands
\* still.
LedgerUse ==
    \/ UNCHANGED ledgerVars
    \/ \E o \in Orders : LedgerOp(o) /\ UNCHANGED book

\* A transition that may be refused.
LEMMA TransitionUse ==
    ASSUME NEW o \in Orders, NEW target \in CallerTargets(o), TransitionOrRaise(o, target),
           target = "CANCELLED" => book[o].state = "cancelled",
           target = "REJECTED" => book[o].state = "rejected"
    PROVE  UNCHANGED ledgerVars \/ LedgerOp(o)
BY DEF TransitionOrRaise, LedgerOp

\* Callers that know nothing of the broker may reject, authorize and expire a row.
LEMMA LocalTransitionUse ==
    ASSUME NEW o \in Orders, NEW target \in {"RISK_REJECTED", "AUTHORIZED", "EXPIRED"},
           TransitionOrRaise(o, target)
    PROVE  UNCHANGED ledgerVars \/ LedgerOp(o)
<1>1. target \in CallerTargets(o) /\ target # "CANCELLED" /\ target # "REJECTED"
  BY DEF CallerTargets
<1> QED BY <1>1, TransitionUse

\* A claimed order may be marked UNKNOWN.
LEMMA UnknownUse ==
    ASSUME NEW o \in Orders, AtBroker(o), TransitionOrRaise(o, "UNKNOWN")
    PROVE  UNCHANGED ledgerVars \/ LedgerOp(o)
<1>1. "UNKNOWN" \in CallerTargets(o)
  BY DEF CallerTargets
<1> QED BY <1>1, TransitionUse

\* The submit call of a process.
LEMMA SubmitUse ==
    ASSUME SubmissionInv, NEW p \in Processes,
           \/ \E o \in Orders : SubmitPersist(p, o)
           \/ SubmitSteps(p)
    PROVE  LedgerUse
<1> DEFINE o == call[p].order
<1>1. CallFits(call[p])
  BY DEF SubmissionInv, CallInv
<1>2. ~At(p, "idle") => o \in Orders
  BY <1>1 DEF CallFits, At
<1>3. CASE \E x \in Orders : SubmitPersist(p, x)
  BY <1>3 DEF SubmitPersist, LedgerUse, LedgerOp, brokerVars
<1>4. CASE \/ SubmitGate(p) \/ SubmitGivesUp(p) \/ SubmitTransmit(p) \/ SubmitRefused(p)
           \/ SubmitAcknowledged(p) \/ SubmitFails(p)
  BY <1>4 DEF SubmitGate, SubmitGivesUp, SubmitTransmit, SubmitRefused, SubmitAcknowledged,
              SubmitFails, LedgerUse
<1>5. CASE SubmitRejectedByRisk(p)
  <2>1. o \in Orders /\ TransitionOrRaise(o, "RISK_REJECTED") /\ UNCHANGED book
    BY <1>2, <1>5 DEF SubmitRejectedByRisk, At, brokerVars
  <2> HIDE DEF o
  <2>2. UNCHANGED ledgerVars \/ LedgerOp(o)
    BY <2>1, LocalTransitionUse
  <2> QED BY <2>1, <2>2 DEF LedgerUse
<1>6. CASE SubmitAuthorized(p)
  <2>1. /\ o \in Orders /\ UNCHANGED book
        /\ TransitionOrRaise(o, "AUTHORIZED") \/ UNCHANGED ledgerVars
    BY <1>2, <1>6 DEF SubmitAuthorized, At, brokerVars
  <2> HIDE DEF o
  <2>2. UNCHANGED ledgerVars \/ LedgerOp(o)
    BY <2>1, LocalTransitionUse
  <2> QED BY <2>1, <2>2 DEF LedgerUse
<1>7. CASE SubmitClaim(p)
  BY <1>2, <1>7 DEF SubmitClaim, At, brokerVars, LedgerUse, LedgerOp
<1>8. CASE MarkUnknown(p)
  <2>1. /\ o \in Orders /\ UNCHANGED book /\ AtBroker(o)
        /\ TransitionOrRaise(o, "UNKNOWN") \/ UNCHANGED ledgerVars
    BY <1>1, <1>2, <1>8 DEF MarkUnknown, At, brokerVars, CallFits, BeforeClaim
  <2> HIDE DEF o
  <2>2. UNCHANGED ledgerVars \/ LedgerOp(o)
    BY <2>1, UnknownUse
  <2> QED BY <2>1, <2>2 DEF LedgerUse
<1>9. CASE ApplyAnswer(p)
  <2> DEFINE st == call[p].answer
  <2>1. /\ o \in Orders /\ UNCHANGED book /\ Past(o, st)
        /\ ApplyReconciledStatus(o, LifecycleFromBrokerStatus(st), st, FALSE)
    BY <1>1, <1>2, <1>9 DEF ApplyAnswer, At, brokerVars, CallFits
  <2>2. st \in StatusesOf(o) /\ FALSE \in BOOLEAN
    BY <2>1 DEF Past
  <2> QED BY <2>1, <2>2 DEF LedgerUse, LedgerOp
<1> QED BY <1>3, <1>4, <1>5, <1>6, <1>7, <1>8, <1>9 DEF SubmitSteps

\* The cancel call, and the TTL scan.
LEMMA CancelUse ==
    ASSUME SubmissionInv, NEW p \in Processes,
           \/ \E o \in Orders : OperatorCancel(p, o) \/ ExpireRead(p, o)
           \/ CancelSteps(p) \/ ExpireIntent(p) \/ ExpireByCancel(p)
    PROVE  LedgerUse
<1> DEFINE o == call[p].order
<1>1. CallFits(call[p])
  BY DEF SubmissionInv, CallInv
<1>2. ~At(p, "idle") => o \in Orders
  BY <1>1 DEF CallFits, At
<1>3. CASE \/ \E x \in Orders : OperatorCancel(p, x) \/ ExpireRead(p, x)
           \/ CancelGate(p) \/ CancelSend(p) \/ CancelAcknowledged(p) \/ CancelFails(p)
           \/ ExpireByCancel(p)
  BY <1>3 DEF OperatorCancel, ExpireRead, CancelGate, CancelSend, CancelAcknowledged,
              CancelFails, ExpireByCancel, LedgerUse
<1>4. CASE CancelClaim(p)
  BY <1>2, <1>4 DEF CancelClaim, At, brokerVars, LedgerUse, LedgerOp
<1>5. CASE ExpireAfterCancel(p)
  <2>1. o \in Orders /\ AtBroker(o) /\ UNCHANGED book
    BY <1>1, <1>2, <1>5 DEF ExpireAfterCancel, At, brokerVars, CallFits, BeforeClaim
  <2>2. MarkExpiredAfterCancel(o) \/ TransitionOrRaise(o, "UNKNOWN")
    BY <1>5 DEF ExpireAfterCancel
  <2>3. UNCHANGED ledgerVars \/ LedgerOp(o)
    <3> HIDE DEF o
    <3>1. CASE MarkExpiredAfterCancel(o)
      BY <3>1 DEF LedgerOp
    <3>2. CASE TransitionOrRaise(o, "UNKNOWN")
      BY <2>1, <3>2, UnknownUse
    <3> QED BY <2>2, <3>1, <3>2
  <2> QED BY <2>1, <2>3 DEF LedgerUse
<1>6. CASE ExpireIntent(p)
  <2>1. due[p].order \in Orders
    BY <1>6 DEF ExpireIntent, SubmissionInv, ScanInv, DueFits, DueRow
  <2>2. TransitionOrRaise(due[p].order, "EXPIRED") /\ UNCHANGED book
    BY <1>6 DEF ExpireIntent, brokerVars
  <2>3. UNCHANGED ledgerVars \/ LedgerOp(due[p].order)
    BY <2>1, <2>2, LocalTransitionUse
  <2> QED BY <2>1, <2>2, <2>3 DEF LedgerUse
<1> QED BY <1>3, <1>4, <1>5, <1>6 DEF CancelSteps

\* An order that the broker has was claimed.
LEMMA KnownIsClaimed ==
    ASSUME SubmissionInv, NEW o \in Orders, book[o].state # "none"
    PROVE  AtBroker(o)
BY DEF SubmissionInv, BookInv, BookEntry, IInv, TypeOK, AtBroker

\* A message is about an order.
LEMMA MessageOrder ==
    ASSUME NEW m \in Messages
    PROVE  m.order \in Orders
<1>1. CASE m \in OtherMessages
  BY <1>1 DEF OtherMessages
<1>2. CASE m \in StatusMessages
  <2>1. \A o, st : [kind |-> "status", order |-> o, status |-> st].order = o
    OBVIOUS
  <2> QED BY <1>2, <2>1 DEF StatusMessages
<1> QED BY <1>1, <1>2 DEF Messages

\* The callback at the head of the queue is true.
LEMMA HeadIsTold ==
    ASSUME SubmissionInv, NEW p \in Processes, inbox[p] # <<>>
    PROVE  /\ Head(inbox[p]) \in Messages /\ Told(Head(inbox[p]))
           /\ Head(inbox[p]).order \in Orders
<1>1. inbox[p] \in Seq(Messages) /\ \A i \in 1..Len(inbox[p]) : Told(inbox[p][i])
  BY DEF SubmissionInv, InboxInv
<1>2. 1 \in 1..Len(inbox[p]) /\ Head(inbox[p]) = inbox[p][1] /\ Head(inbox[p]) \in Messages
  BY <1>1
<1> QED BY <1>1, <1>2, MessageOrder

\* A callback.
LEMMA DeliverUse ==
    ASSUME SubmissionInv, NEW p \in Processes, Deliver(p)
    PROVE  LedgerUse
<1> DEFINE message == Head(inbox[p])
           o == message.order
<1>1. /\ message \in Messages /\ Told(message) /\ o \in Orders
  BY HeadIsTold DEF Deliver
<1>2. UNCHANGED book
  BY DEF Deliver
<1>3. CASE /\ message.kind = "status"
           /\ ApplyReconciledStatus(o, LifecycleFromBrokerStatus(message.status),
                                    message.status, FALSE)
  <2>1. Past(o, message.status) /\ message.status \in StatusesOf(o) /\ FALSE \in BOOLEAN
    BY <1>1, <1>3 DEF Told, Past
  <2> QED BY <1>1, <1>2, <1>3, <2>1 DEF LedgerUse, LedgerOp
<1>4. CASE message.kind = "execution" /\ ApplyExecution(o, message.root)
  BY <1>1, <1>2, <1>4 DEF Told, ApplyExecution, LedgerUse, LedgerOp
<1>5. CASE message.kind = "error" /\ ApplyRejection(o, message.code)
  <2>1. /\ AtBroker(o)
        /\ message.code = 202 => book[o].state = "cancelled"
        /\ message.code # 202 => book[o].state = "rejected"
    BY <1>1, <1>5, KnownIsClaimed DEF Told
  <2>2. \/ UNCHANGED ledgerVars
        \/ message.code = 202 /\ TransitionOrRaise(o, "CANCELLED")
        \/ message.code # 202 /\ TransitionOrRaise(o, "REJECTED")
    BY <1>5 DEF ApplyRejection
  <2>3. {"CANCELLED", "REJECTED"} \subseteq CallerTargets(o)
    BY <2>1 DEF CallerTargets
  <2>4. ASSUME message.code = 202, TransitionOrRaise(o, "CANCELLED")
        PROVE  UNCHANGED ledgerVars \/ LedgerOp(o)
    <3> HIDE DEF o, message
    <3> QED BY <1>1, <2>1, <2>3, <2>4, TransitionUse
  <2>5. ASSUME message.code # 202, TransitionOrRaise(o, "REJECTED")
        PROVE  UNCHANGED ledgerVars \/ LedgerOp(o)
    <3> HIDE DEF o, message
    <3> QED BY <1>1, <2>1, <2>3, <2>5, TransitionUse
  <2> QED BY <1>1, <1>2, <2>2, <2>4, <2>5 DEF LedgerUse
<1> QED BY <1>3, <1>4, <1>5 DEF Deliver

\* Reconciliation.
LEMMA ReconcileUse ==
    ASSUME SubmissionInv, NEW p \in Processes, ReconcileReadOrders(p) \/ ReconcileSteps(p)
    PROVE  LedgerUse
<1>1. CASE \/ ReconcileReadOrders(p) \/ ReconcileReadExecutions(p) \/ ReconcileReadFails(p)
           \/ ReconcileFinish(p)
  BY <1>1 DEF ReconcileReadOrders, ReconcileReadExecutions, ReconcileReadFails,
              ReconcileFinish, LedgerUse
<1>2. ASSUME NEW o \in Orders, ReconcileOrder(p, o)
      PROVE  LedgerUse
  <2> DEFINE st == recon[p].status[o]
  <2>1. SnapshotFits(recon[p]) /\ o \in recon[p].left
    BY <1>2 DEF ReconcileOrder, HasSnapshot, SubmissionInv, SnapshotInv
  <2>2. Past(o, st) /\ st \in StatusesOf(o) /\ TRUE \in BOOLEAN
    BY <2>1 DEF SnapshotFits, Past
  <2>3. ApplyReconciledStatus(o, LifecycleFromBrokerStatus(st), st, TRUE) /\ UNCHANGED book
    BY <1>2 DEF ReconcileOrder, brokerVars
  <2> QED BY <2>2, <2>3 DEF LedgerUse, LedgerOp
<1>3. ASSUME NEW o \in Orders, ReconcileExecution(p, o)
      PROVE  LedgerUse
  <2>1. /\ SnapshotFits(recon[p]) /\ recon[p].fills # NoSnapshot
    BY <1>3 DEF ReconcileExecution, HasSnapshot, SubmissionInv, SnapshotInv
  <2>2. /\ recon[p].fills[o] \in Nat /\ recon[p].fills[o] <= book[o].filled
        /\ book[o].filled \in Nat
    BY <2>1 DEF SnapshotFits, SubmissionInv, BookInv, BookEntry
  <2>3. PICK n \in Unstored(p, o) : UpsertExecution(o, n, 1, 1)
    BY <1>3 DEF ReconcileExecution
  <2>4. n \in 1..book[o].filled /\ 1 \notin Seen(o, n)
    BY <2>2, <2>3 DEF Unstored
  <2>5. UNCHANGED book
    BY <1>3 DEF ReconcileExecution, brokerVars
  <2> QED BY <2>3, <2>4, <2>5 DEF LedgerUse, LedgerOp
<1> QED BY <1>1, <1>2, <1>3 DEF ReconcileSteps

\* All steps.
LEMMA StepUse ==
    ASSUME SubmissionInv, [SubmissionNext]_vars
    PROVE  LedgerUse
<1>1. CASE BrokerNext
  BY <1>1 DEF BrokerNext, BrokerAccept, BrokerReject, BrokerFill, BrokerCancel, BrokerChanges,
              LedgerUse
<1>2. CASE LeaseExpires \/ UNCHANGED vars
  BY <1>2 DEF LeaseExpires, LedgerUse, vars
<1>3. ASSUME NEW p \in Processes, Start(p) \/ SupervisorDemotes(p) \/ Crash(p)
      PROVE  LedgerUse
  BY <1>3 DEF Start, SupervisorDemotes, Crash, LedgerUse
<1> QED BY <1>1, <1>2, <1>3, SubmitUse, CancelUse, DeliverUse, ReconcileUse DEF SubmissionNext

-----------------------------------------------------------------------------
(* What was true of the broker stays true.                                 *)

\* The broker fills more and more of an order, and keeps an outcome.
BookGrows ==
    \A o \in Orders :
        /\ book[o].filled <= book'[o].filled
        /\ book[o].state # "none" => book'[o].state # "none"
        /\ book[o].state \in BrokerTerminal => book'[o].state = book[o].state

\* An old status is still one that the broker could have reported.
LEMMA PastStays ==
    ASSUME BookInv, BookInv', BookGrows, NEW o \in Orders, NEW st, Past(o, st)
    PROVE  Past(o, st)'
<1>1. st.filled \in Int /\ book[o].filled \in Int /\ book'[o].filled \in Int
  BY StatusFields DEF Past, BookInv, BookEntry, BrokerOrderStatus
<1>2. st.filled <= book'[o].filled
  BY <1>1 DEF Past, BookGrows
<1> QED BY <1>2 DEF Past, BookGrows, BrokerTerminal, StatusesOf, Size

\* An old message is still true.
LEMMA ToldStays ==
    ASSUME BookInv, BookInv', BookGrows, NEW m \in Messages, m.order \in Orders, Told(m)
    PROVE  Told(m)'
<1>1. m.kind = "status" => Past(m.order, m.status)'
  BY PastStays DEF Told
<1>2. m.kind = "execution" => m.root \in 1..book'[m.order].filled
  <2>1. book[m.order].filled \in Int /\ book'[m.order].filled \in Int
    BY DEF BookInv, BookEntry
  <2> QED BY <2>1 DEF Told, BookGrows
<1> QED BY <1>1, <1>2 DEF Told, BookGrows, BrokerTerminal

\* The rows stay true while the ledger stands still and the broker goes on.
LEMMA RowsStay ==
    ASSUME IInv, RowsAreTrue, BookInv, BookInv', BookGrows, UNCHANGED ledgerVars
    PROVE  RowsAreTrue'
<1>1. \A o \in Orders : book[o].filled \in Int /\ book'[o].filled \in Int
  BY DEF BookInv, BookEntry
<1>2. \A o \in Orders : RowIsTrue(o, rows[o])'
  BY <1>1 DEF RowsAreTrue, RowIsTrue, BookGrows, BrokerTerminal, ledgerVars, Size
<1>3. ASSUME NEW o \in Orders
      PROVE  StoreIsTrue(o)'
  <2>1. \A n \in Roots : Seen(o, n)' = Seen(o, n)
    BY DEF Seen, ledgerVars
  <2>2. Stored(o)' = Stored(o)
    BY <2>1 DEF Stored
  <2>3. 1..book[o].filled \subseteq 1..book'[o].filled
    BY <1>1 DEF BookGrows
  <2>4. StoreIsTrue(o)
    BY DEF RowsAreTrue
  <2> QED BY <2>1, <2>2, <2>3, <2>4 DEF StoreIsTrue, ledgerVars
<1> QED BY <1>2, <1>3 DEF RowsAreTrue

\* The ledger part of the invariant, for every step that uses the ledger as it should.
LEMMA LedgerKept ==
    ASSUME SubmissionInv, LedgerUse,
           UNCHANGED book \/ (UNCHANGED ledgerVars /\ BookInv' /\ BookGrows)
    PROVE  /\ IInv' /\ RowsAreTrue' /\ IdentitiesAreTrue' /\ ClaimsGrow
           /\ BookInv' /\ BookGrows
           /\ [Next]_ledgerVars
<1>1. IInv /\ RowsAreTrue /\ IdentitiesAreTrue /\ BookInv /\ claims \in [Orders -> Nat]
  BY DEF SubmissionInv, IInv, TypeOK
<1>2. [Next]_ledgerVars
  BY <1>1, LedgerOpIsStep DEF LedgerUse
<1>3. IInv'
  BY <1>1, <1>2, StepIInv
<1>4. UNCHANGED book => BookGrows
  BY <1>1 DEF BookGrows, BookInv, BookEntry
<1>5. ClaimsGrow
  <2>1. CASE UNCHANGED ledgerVars
    BY <1>1, <2>1 DEF ClaimsGrow, ledgerVars
  <2>2. CASE \E o \in Orders : LedgerOp(o) /\ UNCHANGED book
    BY <1>1, <2>2, LedgerOpKeepsRows
  <2> QED BY <2>1, <2>2 DEF LedgerUse
<1>6. UNCHANGED book => BookInv'
  <2>1. \A o \in Orders : book[o].sent \in Int /\ claims[o] \in Int /\ claims'[o] \in Int
    BY <1>1, <1>5 DEF BookInv, BookEntry, ClaimsGrow
  <2> QED BY <1>1, <1>5, <2>1 DEF BookInv, ClaimsGrow, Size
<1>7. RowsAreTrue'
  <2>1. CASE UNCHANGED ledgerVars
    BY <1>1, <1>4, <1>6, <2>1, RowsStay
  <2>2. CASE \E o \in Orders : LedgerOp(o) /\ UNCHANGED book
    BY <1>1, <2>2, LedgerOpKeepsRows
  <2> QED BY <2>1, <2>2 DEF LedgerUse
<1>8. IdentitiesAreTrue'
  BY <1>1, <1>5 DEF IdentitiesAreTrue, ClaimsGrow, AtBroker
<1> QED BY <1>2, <1>3, <1>4, <1>5, <1>6, <1>7, <1>8

-----------------------------------------------------------------------------
(* What a step may do to the memory of the processes.                      *)

\* The broker part and the claims, after a step.
Grown ==
    /\ IInv' /\ RowsAreTrue' /\ IdentitiesAreTrue' /\ ClaimsGrow
    /\ BookInv' /\ BookGrows

\* A call is kept or is made to fit.
CallsKept ==
    /\ DOMAIN call' = Processes
    /\ \A p \in Processes : call'[p] = call[p] \/ \E c : call'[p] = c /\ CallFits(c)'

ScansKept ==
    /\ DOMAIN due' = Processes
    /\ \A p \in Processes : due'[p] \in {due[p], NoOrder} \/ \E d : due'[p] = d /\ DueFits(d)'

\* A message that is still in the queue, or a new one.
InboxKept ==
    /\ inbox' \in [Processes -> Seq(Messages)]
    /\ \A p \in Processes : \A i \in 1..Len(inbox'[p]) :
          \/ \E j \in 1..Len(inbox[p]) : inbox'[p][i] = inbox[p][j]
          \/ \E m : inbox'[p][i] = m /\ Told(m)'

HeardKept ==
    /\ DOMAIN heard' = Processes
    /\ \A p \in Processes : DOMAIN heard'[p] = Orders
    /\ \A p \in Processes, o \in Orders :
          heard'[p][o] \in {heard[p][o], NoStatus} \/ \E st : heard'[p][o] = st /\ Past(o, st)'

SnapshotsKept ==
    /\ DOMAIN recon' = Processes
    /\ \A p \in Processes :
          recon'[p] \in {recon[p], NoSnapshot} \/ \E s : recon'[p] = s /\ SnapshotFits(s)'

\* No process comes to the point where it calls placeOrder, and none calls it.
NoSender ==
    /\ \A o \in Orders : book'[o].sent = book[o].sent
    /\ \A p \in Processes : call'[p].step = "send" => call'[p] = call[p]

\* A call that is kept still fits.
LEMMA CallsStay ==
    ASSUME SubmissionInv, Grown, CallsKept
    PROVE  CallInv'
<1>1. ASSUME NEW c, CallFits(c)
      PROVE  CallFits(c)'
  <2>1. c.step = "apply" => c.order \in Orders /\ Past(c.order, c.answer)'
    BY <1>1, PastStays DEF CallFits, SubmissionInv, Grown
  <2>2. c.step # "idle" /\ AtBroker(c.order) => AtBroker(c.order)'
    BY <1>1 DEF CallFits, Grown, ClaimsGrow, AtBroker
  <2> QED BY <1>1, <2>1, <2>2 DEF CallFits, BeforeClaim
<1>2. \A p \in Processes : CallFits(call[p])
  BY DEF SubmissionInv, CallInv
<1>3. ASSUME NEW p \in Processes
      PROVE  CallFits(call[p])'
  <2>1. PICK c : call'[p] = c /\ CallFits(c)'
    BY <1>1, <1>2 DEF CallsKept
  <2> QED BY <2>1 DEF CallFits, Past, AtBroker
<1> QED BY <1>3 DEF CallInv, CallsKept

\* A row that was read still belongs to a claimed order.
LEMMA ScansStay ==
    ASSUME SubmissionInv, Grown, ScansKept
    PROVE  ScanInv'
<1>1. ASSUME NEW d, DueFits(d)
      PROVE  DueFits(d)'
  <2>1. d.order \in Orders
    BY <1>1 DEF DueFits, DueRow
  <2> QED BY <1>1, <2>1 DEF DueFits, Grown, ClaimsGrow, AtBroker
<1>2. ASSUME NEW p \in Processes, due'[p] # NoOrder
      PROVE  DueFits(due[p])'
  <2>1. PICK d : due'[p] = d /\ DueFits(d)'
    BY <1>1, <1>2 DEF ScansKept, SubmissionInv, ScanInv
  <2> QED BY <2>1 DEF DueFits, AtBroker
<1> QED BY <1>2 DEF ScanInv, ScansKept

\* A callback that waits is still true.
LEMMA InboxStays ==
    ASSUME SubmissionInv, Grown, InboxKept
    PROVE  InboxInv'
<1>1. ASSUME NEW p \in Processes, NEW i \in 1..Len(inbox[p])
      PROVE  Told(inbox[p][i]) /\ inbox[p][i] \in Messages
  BY <1>1 DEF SubmissionInv, InboxInv
<1>2. ASSUME NEW m \in Messages, Told(m)
      PROVE  Told(m)'
  BY <1>2, MessageOrder, ToldStays DEF SubmissionInv, Grown
<1>3. ASSUME NEW p \in Processes, NEW i \in 1..Len(inbox'[p])
      PROVE  Told(inbox[p][i])'
  <2>1. PICK m : inbox'[p][i] = m /\ Told(m)'
    <3>1. CASE \E j \in 1..Len(inbox[p]) : inbox'[p][i] = inbox[p][j]
      <4>1. PICK j \in 1..Len(inbox[p]) : inbox'[p][i] = inbox[p][j]
        BY <3>1
      <4>2. Told(inbox[p][j]) /\ inbox[p][j] \in Messages
        BY <1>1
      <4> QED BY <1>2, <4>1, <4>2
    <3>2. CASE \E m : inbox'[p][i] = m /\ Told(m)'
      BY <3>2
    <3> QED BY <1>3, <3>1, <3>2 DEF InboxKept
  <2> QED BY <2>1 DEF Told, Past
<1> QED BY <1>3 DEF InboxInv, InboxKept

\* A status that was heard is still true.
LEMMA HeardStays ==
    ASSUME SubmissionInv, Grown, HeardKept
    PROVE  HeardInv'
<1>1. ASSUME NEW p \in Processes, NEW o \in Orders, heard'[p][o] # NoStatus
      PROVE  Past(o, heard[p][o])'
  <2>1. \A st : Past(o, st) => Past(o, st)'
    BY PastStays DEF SubmissionInv, Grown
  <2>2. PICK st : heard'[p][o] = st /\ Past(o, st)'
    BY <1>1, <2>1 DEF HeardKept, SubmissionInv, HeardInv
  <2> QED BY <2>2 DEF Past
<1> QED BY <1>1 DEF HeardInv, HeardKept

\* A snapshot is still true.
LEMMA SnapshotStays ==
    ASSUME SubmissionInv, Grown, NEW s, SnapshotFits(s)
    PROVE  SnapshotFits(s)'
<1>1. \A o \in Orders : \A st : Past(o, st) => Past(o, st)'
  BY PastStays DEF SubmissionInv, Grown
<1>2. \A o \in Orders : book[o].filled \in Int /\ book'[o].filled \in Int
  BY DEF SubmissionInv, Grown, BookInv, BookEntry
<1>3. \A o \in Orders : book[o].filled <= book'[o].filled
  BY DEF Grown, BookGrows
<1>4. s.fills # NoSnapshot => \A o \in Orders : s.fills[o] \in Nat /\ s.fills[o] <= book'[o].filled
  BY <1>2, <1>3 DEF SnapshotFits
<1>5. \A o \in s.left : Past(o, s.status[o])'
  <2>1. \A o \in s.left : o \in Orders /\ Past(o, s.status[o])
    BY DEF SnapshotFits
  <2> QED BY <1>1, <2>1
<1> QED BY <1>4, <1>5 DEF SnapshotFits

\* All snapshots are.
LEMMA SnapshotsStay ==
    ASSUME SubmissionInv, Grown, SnapshotsKept
    PROVE  SnapshotInv'
<1>1. ASSUME NEW p \in Processes, recon'[p] # NoSnapshot
      PROVE  SnapshotFits(recon[p])'
  <2>1. PICK s : recon'[p] = s /\ SnapshotFits(s)'
    BY <1>1, SnapshotStays DEF SnapshotsKept, SubmissionInv, SnapshotInv
  <2> QED BY <2>1 DEF SnapshotFits, Past
<1> QED BY <1>1 DEF SnapshotInv, SnapshotsKept

\* The senders are still alone.
LEMMA SendersStay ==
    ASSUME SubmissionInv, Grown, CallsKept, NoSender
    PROVE  SendersAlone'
<1>1. \A p \in Processes : At(p, "send")' =>
         /\ At(p, "send") /\ call'[p] = call[p] /\ call[p].order \in Orders
  BY DEF At, NoSender, SubmissionInv, CallInv, CallFits
<1>2. ASSUME NEW p \in Processes, At(p, "send")'
      PROVE  /\ claims'[call'[p].order] > 0
             /\ book'[call'[p].order].sent = 0
             /\ \A q \in Processes :
                   At(q, "send")' /\ call'[q].order = call'[p].order => p = q
  <2>1. At(p, "send") /\ call'[p] = call[p] /\ call[p].order \in Orders
    BY <1>1, <1>2
  <2>2. claims'[call[p].order] > 0
    BY <2>1 DEF SubmissionInv, SendersAlone, Grown, ClaimsGrow
  <2>3. book'[call[p].order].sent = 0
    BY <2>1 DEF SubmissionInv, SendersAlone, NoSender
  <2> QED BY <1>1, <2>1, <2>2, <2>3 DEF SubmissionInv, SendersAlone
<1> QED BY <1>2 DEF SendersAlone, At

\* Taken together: a step that keeps all the parts keeps the invariant.
LEMMA PartsStay ==
    ASSUME SubmissionInv, Grown, CallsKept, ScansKept, InboxKept, HeardKept, SnapshotsKept,
           SendersAlone'
    PROVE  SubmissionInv'
<1>1. CallInv' /\ ScanInv' /\ InboxInv' /\ HeardInv' /\ SnapshotInv'
  BY CallsStay, ScansStay, InboxStays, HeardStays, SnapshotsStay
<1> QED BY <1>1 DEF SubmissionInv, Grown

\* What a step leaves alone is kept.
LEMMA Untouched ==
    ASSUME SubmissionInv
    PROVE  /\ UNCHANGED call => CallsKept
           /\ UNCHANGED due => ScansKept
           /\ UNCHANGED inbox => InboxKept
           /\ UNCHANGED heard => HeardKept
           /\ UNCHANGED recon => SnapshotsKept
           /\ UNCHANGED <<call, book>> => NoSender
<1>1. UNCHANGED inbox => InboxKept
  BY DEF SubmissionInv, InboxInv, InboxKept
<1> QED BY <1>1 DEF SubmissionInv, CallInv, ScanInv, HeardInv, SnapshotInv, CallsKept, ScansKept,
              HeardKept, SnapshotsKept, NoSender

-----------------------------------------------------------------------------
(* The moves of a call.                                                    *)

\* A claim is never taken back.
LEMMA StillClaimed ==
    ASSUME Grown, NEW o \in Orders, AtBroker(o)
    PROVE  claims'[o] > 0
BY DEF Grown, ClaimsGrow, AtBroker

\* A process gets a call that fits.
LEMMA MoveFits ==
    ASSUME SubmissionInv, NEW p \in Processes, NEW c, CallFits(c)',
           call' = [call EXCEPT ![p] = c]
    PROVE  /\ CallsKept
           /\ c.step # "send" /\ (\A o \in Orders : book'[o].sent = book[o].sent) => NoSender
<1>1. DOMAIN call = Processes
  BY DEF SubmissionInv, CallInv
<1>2. \A q \in Processes : call'[q] = IF q = p THEN c ELSE call[q]
  BY <1>1
<1> QED BY <1>1, <1>2 DEF CallsKept, NoSender

\* The call ends.
LEMMA IdleFits ==
    ASSUME SubmissionInv, NEW p \in Processes, call' = [call EXCEPT ![p] = IdleCall],
           \A o \in Orders : book'[o].sent = book[o].sent
    PROVE  CallsKept /\ NoSender
<1>1. PICK c : c = IdleCall
  OBVIOUS
<1>2. DOMAIN c = {"step", "order", "seen", "answer", "ttl", "revision"} /\ c.step = "idle"
  BY <1>1 DEF IdleCall
<1>3. CallFits(c)'
  BY <1>2 DEF CallFits, CallSteps, BeforeClaim
<1> QED BY <1>1, <1>2, <1>3, MoveFits

\* The call goes on to another step.
LEMMA StepFits ==
    ASSUME SubmissionInv, Grown, NEW p \in Processes, ~At(p, "idle"),
           NEW step \in CallSteps \ {"idle", "apply"},
           call' = [call EXCEPT ![p] = Step(p, step)],
           step \in BeforeClaim \/ claims'[call[p].order] > 0
    PROVE  /\ CallsKept
           /\ step # "send" /\ (\A o \in Orders : book'[o].sent = book[o].sent) => NoSender
<1>1. CallFits(call[p]) /\ call[p].order \in Orders
  BY DEF SubmissionInv, CallInv, CallFits, At
<1>2. PICK c : c = Step(p, step)
  OBVIOUS
<1>3. /\ DOMAIN c = {"step", "order", "seen", "answer", "ttl", "revision"}
      /\ c.step = step
      /\ c.order = call[p].order
  BY <1>1, <1>2 DEF CallFits, Step
<1>4. CallFits(c)'
  BY <1>1, <1>3 DEF CallFits, BeforeClaim, AtBroker
<1> QED BY <1>2, <1>3, <1>4, MoveFits

\* The call copies a status.
LEMMA AnswerFits ==
    ASSUME SubmissionInv, Grown, NEW p \in Processes, ~At(p, "idle"), NEW st,
           call' = [call EXCEPT ![p] = [call[p] EXCEPT !.step = "apply", !.answer = st]],
           AtBroker(call[p].order), Past(call[p].order, st),
           \A o \in Orders : book'[o].sent = book[o].sent
    PROVE  CallsKept /\ NoSender
<1>1. CallFits(call[p]) /\ call[p].order \in Orders
  BY DEF SubmissionInv, CallInv, CallFits, At
<1>2. PICK c : c = [call[p] EXCEPT !.step = "apply", !.answer = st]
  OBVIOUS
<1>3. /\ DOMAIN c = {"step", "order", "seen", "answer", "ttl", "revision"}
      /\ c.step = "apply"
      /\ c.order = call[p].order
      /\ c.answer = st
  BY <1>1, <1>2 DEF CallFits
<1>4. claims'[c.order] > 0 /\ Past(c.order, c.answer)'
  <2>1. claims'[call[p].order] > 0
    BY <1>1, StillClaimed
  <2>2. \A o \in Orders : \A x : Past(o, x) => Past(o, x)'
    BY PastStays DEF SubmissionInv, Grown
  <2> QED BY <1>1, <1>3, <2>1, <2>2
<1>5. CallFits(c)'
  BY <1>1, <1>3, <1>4 DEF CallFits, CallSteps, AtBroker
<1> QED BY <1>2, <1>3, <1>5, MoveFits

\* A call begins with an order that fits its first step.
LEMMA NewCallFits ==
    ASSUME SubmissionInv, Grown, NEW p \in Processes, NEW o \in Orders, NEW c,
           call' = [call EXCEPT ![p] = c],
           DOMAIN c = DOMAIN IdleCall, c.order = o,
           c.step = "gate" \/ (c.step = "cancel gate" /\ AtBroker(o)),
           \A x \in Orders : book'[x].sent = book[x].sent
    PROVE  CallsKept /\ NoSender
<1>1. DOMAIN c = {"step", "order", "seen", "answer", "ttl", "revision"}
  BY DEF IdleCall
<1>2. AtBroker(o) => claims'[o] > 0
  BY StillClaimed
<1>3. CallFits(c)'
  BY <1>1, <1>2 DEF CallFits, CallSteps, BeforeClaim, AtBroker
<1> QED BY <1>3, MoveFits

\* Where a step leaves the call: at its end, at a later step, or with a status to apply.
CallGoes(p) ==
    \/ call' = [call EXCEPT ![p] = IdleCall]
    \/ /\ ~At(p, "idle")
       /\ \/ \E step \in CallSteps \ {"idle", "apply", "send"} :
                /\ call' = [call EXCEPT ![p] = Step(p, step)]
                /\ step \in BeforeClaim \/ AtBroker(call[p].order)
          \/ /\ AtBroker(call[p].order)
             /\ \E st : /\ Past(call[p].order, st)
                        /\ call' = [call EXCEPT ![p] = [call[p] EXCEPT !.step = "apply",
                                                                       !.answer = st]]

\* A call that goes on without transmitting keeps what is known of the calls and adds no
\* sender.
LEMMA CallGoesOn ==
    ASSUME SubmissionInv, Grown, NEW p \in Processes, CallGoes(p),
           \A o \in Orders : book'[o].sent = book[o].sent
    PROVE  CallsKept /\ NoSender
<1>1. ASSUME ~At(p, "idle"), NEW step \in CallSteps \ {"idle", "apply", "send"},
             call' = [call EXCEPT ![p] = Step(p, step)],
             step \in BeforeClaim \/ AtBroker(call[p].order)
      PROVE  CallsKept /\ NoSender
  <2>1. call[p].order \in Orders
    BY <1>1 DEF SubmissionInv, CallInv, CallFits, At
  <2>2. step \in BeforeClaim \/ claims'[call[p].order] > 0
    BY <1>1, <2>1, StillClaimed
  <2> QED BY <1>1, <2>2, StepFits
<1>2. CASE call' = [call EXCEPT ![p] = IdleCall]
  BY <1>2, IdleFits
<1> QED BY <1>1, <1>2, AnswerFits DEF CallGoes

\* The steps of submit() but its claim and its transmission.
LEMMA SubmitMoves ==
    ASSUME SubmissionInv, NEW p \in Processes,
           \/ SubmitGate(p) \/ SubmitRejectedByRisk(p) \/ SubmitAuthorized(p)
           \/ SubmitGivesUp(p) \/ SubmitRefused(p) \/ SubmitAcknowledged(p) \/ SubmitFails(p)
           \/ MarkUnknown(p) \/ ApplyAnswer(p)
    PROVE  CallGoes(p) /\ UNCHANGED <<due, inbox, heard, recon>>
<1> DEFINE o == call[p].order
<1>1. /\ call[p].step \in {"send", "wait", "unknown", "apply"} => AtBroker(o) /\ o \in Orders
      /\ \A st : At(p, "wait") /\ heard[p][o] # NoStatus => Past(o, heard[p][o])
  BY DEF SubmissionInv, CallInv, CallFits, BeforeClaim, HeardInv, At
<1>2. {"risk", "claim"} \subseteq BeforeClaim
  BY DEF BeforeClaim
<1>3. CASE SubmitGate(p) \/ SubmitAuthorized(p)
  <2>1. /\ UNCHANGED <<due, inbox, heard, recon>>
        /\ ~At(p, "idle")
        /\ \/ call' = [call EXCEPT ![p] = IdleCall]
           \/ call' = [call EXCEPT ![p] = Step(p, "risk")]
           \/ call' = [call EXCEPT ![p] = Step(p, "claim")]
    BY <1>3 DEF SubmitGate, SubmitAuthorized, Goes, brokerVars, At
  <2> QED BY <1>2, <2>1 DEF CallGoes, CallSteps
<1>4. CASE SubmitRejectedByRisk(p) \/ SubmitGivesUp(p) \/ MarkUnknown(p)
  BY <1>4 DEF SubmitRejectedByRisk, SubmitGivesUp, MarkUnknown, Goes, brokerVars, CallGoes
<1>5. CASE SubmitRefused(p) \/ SubmitFails(p)
  <2>1. /\ UNCHANGED <<due, inbox, heard, recon>>
        /\ ~At(p, "idle") /\ AtBroker(o)
        /\ call' = [call EXCEPT ![p] = Step(p, "unknown")]
    BY <1>1, <1>5 DEF SubmitRefused, SubmitFails, Goes, brokerVars, At
  <2> QED BY <2>1 DEF CallGoes, CallSteps
<1>6. CASE SubmitAcknowledged(p)
  <2>1. /\ UNCHANGED <<due, inbox, heard, recon>>
        /\ ~At(p, "idle") /\ AtBroker(o) /\ Past(o, heard[p][o])
        /\ call' = [call EXCEPT ![p] = [call[p] EXCEPT !.step = "apply", !.answer = heard[p][o]]]
    BY <1>1, <1>6 DEF SubmitAcknowledged, Goes, brokerVars, At
  <2> QED BY <2>1 DEF CallGoes
<1>7. CASE ApplyAnswer(p)
  <2>1. /\ UNCHANGED <<due, inbox, heard, recon>>
        /\ ~At(p, "idle") /\ AtBroker(o)
        /\ \/ call' = [call EXCEPT ![p] = Step(p, "expire")]
           \/ call' = [call EXCEPT ![p] = IdleCall]
    BY <1>1, <1>7 DEF ApplyAnswer, Goes, brokerVars, At
  <2> QED BY <2>1 DEF CallGoes, CallSteps
<1> QED BY <1>3, <1>4, <1>5, <1>6, <1>7

\* The steps of cancel().
LEMMA CancelMoves ==
    ASSUME SubmissionInv, NEW p \in Processes, CancelSteps(p)
    PROVE  CallGoes(p) /\ UNCHANGED <<due, inbox, heard, recon>>
<1> DEFINE o == call[p].order
<1>1. /\ ~At(p, "idle") => o \in Orders
      /\ call[p].step \in {"cancel gate", "cancel claim", "cancel send", "cancel wait", "expire"}
           => AtBroker(o)
      /\ ~At(p, "idle") /\ heard[p][o] # NoStatus => Past(o, heard[p][o])
  BY DEF SubmissionInv, CallInv, CallFits, BeforeClaim, HeardInv, At
<1>2. CASE CancelGate(p) \/ CancelClaim(p)
  <2>1. /\ UNCHANGED <<due, inbox, heard, recon>>
        /\ ~At(p, "idle") /\ AtBroker(o)
        /\ \/ call' = [call EXCEPT ![p] = IdleCall]
           \/ call' = [call EXCEPT ![p] = Step(p, "cancel claim")]
           \/ call' = [call EXCEPT ![p] = Step(p, "cancel send")]
           \/ call' = [call EXCEPT ![p] = Step(p, "expire")]
           \/ call' = [call EXCEPT ![p] = Step(p, "unknown")]
    BY <1>1, <1>2 DEF CancelGate, CancelClaim, CancelRaised, Goes, brokerVars, At
  <2> QED BY <2>1 DEF CallGoes, CallSteps
<1>3. CASE CancelSend(p) \/ CancelAcknowledged(p)
  <2>1. /\ UNCHANGED <<due, inbox, heard, recon>>
        /\ ~At(p, "idle") /\ AtBroker(o)
        /\ \/ call' = [call EXCEPT ![p] = Step(p, "unknown")]
           \/ call' = [call EXCEPT ![p] = Step(p, "cancel wait")]
           \/ /\ Past(o, heard[p][o])
              /\ call' = [call EXCEPT ![p] = [call[p] EXCEPT !.step = "apply",
                                                             !.answer = heard[p][o]]]
    BY <1>1, <1>3 DEF CancelSend, CancelAcknowledged, Goes, brokerVars, At
  <2> QED BY <2>1 DEF CallGoes, CallSteps
<1>4. CASE CancelFails(p)
  <2>1. /\ UNCHANGED <<due, inbox, heard, recon>>
        /\ ~At(p, "idle") /\ AtBroker(o)
        /\ call' = [call EXCEPT ![p] = Step(p, "unknown")]
    BY <1>1, <1>4 DEF CancelFails, Goes, brokerVars, At
  <2> QED BY <2>1 DEF CallGoes, CallSteps
<1>5. CASE ExpireAfterCancel(p)
  BY <1>5 DEF ExpireAfterCancel, Goes, brokerVars, CallGoes
<1> QED BY <1>2, <1>3, <1>4, <1>5 DEF CancelSteps

\* The beginnings of a call, and the scan.
LEMMA CallBegins ==
    ASSUME SubmissionInv, Grown, NEW p \in Processes,
           \/ \E o \in Orders : SubmitPersist(p, o) \/ OperatorCancel(p, o)
           \/ ExpireByCancel(p)
    PROVE  CallsKept /\ NoSender /\ ScansKept /\ UNCHANGED <<inbox, heard, recon>>
<1>1. ASSUME NEW o \in Orders, SubmitPersist(p, o) \/ OperatorCancel(p, o)
      PROVE  CallsKept /\ NoSender /\ ScansKept /\ UNCHANGED <<inbox, heard, recon>>
  <2>1. UNCHANGED <<due, inbox, heard, recon, book>>
    BY <1>1 DEF SubmitPersist, OperatorCancel, Goes, brokerVars
  <2>2. PICK c : /\ call' = [call EXCEPT ![p] = c]
                 /\ DOMAIN c = DOMAIN IdleCall /\ c.order = o
                 /\ c.step = "gate" \/ (c.step = "cancel gate" /\ rows[o].brokerId)
    <3>1. \A seen : LET c == [IdleCall EXCEPT !.step = "gate", !.order = o, !.seen = seen]
                    IN DOMAIN c = DOMAIN IdleCall /\ c.order = o /\ c.step = "gate"
      BY DEF IdleCall
    <3>2. \A revision : LET c == [IdleCall EXCEPT !.step = "cancel gate", !.order = o,
                                                  !.revision = revision]
                        IN DOMAIN c = DOMAIN IdleCall /\ c.order = o /\ c.step = "cancel gate"
      BY DEF IdleCall
    <3>3. CASE SubmitPersist(p, o)
      BY <3>1, <3>3 DEF SubmitPersist, Goes
    <3>4. CASE OperatorCancel(p, o)
      BY <3>2, <3>4 DEF OperatorCancel
    <3> QED BY <1>1, <3>3, <3>4
  <2>3. rows[o].brokerId => AtBroker(o)
    BY DEF SubmissionInv, IdentitiesAreTrue
  <2>4. CallsKept /\ NoSender
    BY <2>1, <2>2, <2>3, NewCallFits
  <2> QED BY <2>1, <2>4, Untouched
<1>2. CASE ExpireByCancel(p)
  <2>1. due[p].order \in Orders /\ AtBroker(due[p].order)
    BY <1>2 DEF ExpireByCancel, SubmissionInv, ScanInv, DueFits, DueRow
  <2>2. UNCHANGED <<inbox, heard, recon, book>> /\ due' = [due EXCEPT ![p] = NoOrder]
    BY <1>2 DEF ExpireByCancel, brokerVars
  <2>3. PICK c : /\ call' = [call EXCEPT ![p] = c]
                 /\ DOMAIN c = DOMAIN IdleCall /\ c.order = due[p].order
                 /\ c.step = "cancel gate"
    <3> DEFINE c == [IdleCall EXCEPT !.step = "cancel gate", !.order = due[p].order,
                                     !.ttl = TRUE, !.revision = due[p].revision]
    <3>1. DOMAIN c = DOMAIN IdleCall /\ c.order = due[p].order /\ c.step = "cancel gate"
      BY DEF IdleCall
    <3>2. call' = [call EXCEPT ![p] = c]
      BY <1>2 DEF ExpireByCancel
    <3> HIDE DEF c
    <3> QED BY <3>1, <3>2
  <2>4. CallsKept /\ NoSender
    BY <2>1, <2>2, <2>3, NewCallFits
  <2>5. ScansKept
    BY <2>2 DEF SubmissionInv, ScanInv, ScansKept
  <2> QED BY <2>2, <2>4, <2>5
<1> QED BY <1>1, <1>2

\* A TTL scan that reads an order or leaves it keeps what is known of the scans and moves
\* nothing else.
LEMMA ScanMoves ==
    ASSUME SubmissionInv, Grown, NEW p \in Processes,
           ExpireIntent(p) \/ \E o \in Orders : ExpireRead(p, o)
    PROVE  ScansKept /\ UNCHANGED <<call, inbox, heard, recon, book>>
<1>1. CASE ExpireIntent(p)
  BY <1>1 DEF ExpireIntent, brokerVars, SubmissionInv, ScanInv, ScansKept
<1>2. ASSUME NEW o \in Orders, ExpireRead(p, o)
      PROVE  ScansKept /\ UNCHANGED <<call, inbox, heard, recon, book>>
  <2>1. rows[o].brokerId \in BOOLEAN /\ rows[o].revision \in Nat
    BY DEF SubmissionInv, IInv, TypeOK, Row
  <2>2. rows[o].brokerId => claims'[o] > 0
    BY StillClaimed DEF SubmissionInv, IdentitiesAreTrue
  <2>3. PICK d : d = [order |-> o, brokerId |-> rows[o].brokerId, revision |-> rows[o].revision]
    OBVIOUS
  <2>4. d \in DueRow /\ d.order = o /\ d.brokerId = rows[o].brokerId
    BY <2>1, <2>3 DEF DueRow
  <2>5. DueFits(d)'
    BY <2>2, <2>4 DEF DueFits, AtBroker
  <2>6. due' = [due EXCEPT ![p] = d] /\ UNCHANGED <<call, inbox, heard, recon, book>>
    BY <1>2, <2>3 DEF ExpireRead, brokerVars
  <2> QED BY <2>5, <2>6 DEF SubmissionInv, ScanInv, ScansKept
<1> QED BY <1>1, <1>2

-----------------------------------------------------------------------------
(* The moves of the broker's record.                                       *)

\* The broker's entry of one order changes.
LEMMA BookMoves ==
    ASSUME SubmissionInv, UNCHANGED claims, NEW o \in Orders, NEW entry \in BookEntry,
           book' = [book EXCEPT ![o] = entry],
           book[o].filled <= entry.filled, entry.filled <= Size(o),
           entry.state = "filled" <=> entry.filled = Size(o),
           book[o].state # "none" => entry.state # "none",
           book[o].state \in BrokerTerminal => entry.state = book[o].state,
           entry.state # "none" => entry.sent > 0,
           entry.sent <= claims[o]
    PROVE  BookInv' /\ BookGrows
<1>1. \A x \in Orders : book'[x] = IF x = o THEN entry ELSE book[x]
  BY DEF SubmissionInv, BookInv
<1>2. book' \in [Orders -> BookEntry]
  BY DEF SubmissionInv, BookInv
<1>3. BookInv'
  BY <1>1, <1>2 DEF SubmissionInv, BookInv, Size
<1>4. BookGrows
  BY <1>1 DEF SubmissionInv, BookInv, BookEntry, BookGrows
<1> QED BY <1>3, <1>4

\* A request to cancel changes nothing else.
LEMMA CancelAskedMoves ==
    ASSUME SubmissionInv, UNCHANGED claims, NEW o \in Orders,
           book' = [book EXCEPT ![o] = CancelAsked(o)]
    PROVE  BookInv' /\ BookGrows /\ \A x \in Orders : book'[x].sent = book[x].sent
<1>1. book \in [Orders -> BookEntry] /\ BookInv
  BY DEF SubmissionInv, BookInv
<1>2. PICK entry : entry = CancelAsked(o)
  OBVIOUS
<1>3. /\ entry \in BookEntry
      /\ entry.sent = book[o].sent /\ entry.state = book[o].state /\ entry.filled = book[o].filled
  BY <1>1, <1>2 DEF CancelAsked, BookEntry
<1>4. BookInv' /\ BookGrows
  <2>1. book[o].filled <= entry.filled
    BY <1>1, <1>3 DEF BookEntry
  <2>2. /\ book[o].filled <= Size(o)
        /\ book[o].state = "filled" <=> book[o].filled = Size(o)
        /\ book[o].state # "none" => book[o].sent > 0
        /\ book[o].sent <= claims[o]
    BY <1>1 DEF BookInv
  <2>3. book' = [book EXCEPT ![o] = entry]
    BY <1>2
  <2> QED BY <1>3, <2>1, <2>2, <2>3, BookMoves
<1> QED BY <1>1, <1>2, <1>3, <1>4

\* What the broker reports of an order that it has.
LEMMA ReportFields ==
    ASSUME NEW o \in Orders, NEW entry \in BookEntry, entry.state # "none",
           entry.filled <= Size(o)
    PROVE  /\ Report(o, entry) \in StatusesOf(o)
           /\ Report(o, entry).filled = entry.filled
           /\ Report(o, entry).status = "Filled" => entry.state = "filled"
           /\ Report(o, entry).status = "Cancelled" => entry.state = "cancelled"
           /\ Report(o, entry).status = "Inactive" => entry.state = "rejected"
<1>1. entry.state \in {"pending", "working", "filled", "cancelled", "rejected"}
  BY DEF BookEntry, BrokerTerminal
<1>2. /\ WordOf(entry.state) \in BrokerWord
      /\ WordOf(entry.state) = "Filled" => entry.state = "filled"
      /\ WordOf(entry.state) = "Cancelled" => entry.state = "cancelled"
      /\ WordOf(entry.state) = "Inactive" => entry.state = "rejected"
  BY <1>1 DEF WordOf, BrokerWord
<1>3. entry.filled \in 0..Size(o)
  BY SizeType DEF BookEntry
<1>4. Report(o, entry) = StatusOf(WordOf(entry.state), InitialTerms[o], Size(o), entry.filled)
  BY DEF Report, Size
<1> QED BY <1>2, <1>3, <1>4 DEF StatusOf, StatusesOf

\* The messages about an order, once the broker's record says what they say.
LEMMA MessagesAreTold ==
    ASSUME NEW o \in Orders, NEW entry \in BookEntry, entry.state # "none",
           entry.filled <= Size(o), book'[o] = entry
    PROVE  /\ StatusMessage(o, entry) \in Messages /\ Told(StatusMessage(o, entry))'
           /\ entry.filled > 0 =>
                /\ ExecutionMessage(o, entry.filled) \in Messages
                /\ Told(ExecutionMessage(o, entry.filled))'
           /\ entry.state = "cancelled" =>
                ErrorMessage(o, 202) \in Messages /\ Told(ErrorMessage(o, 202))'
           /\ entry.state = "rejected" =>
                ErrorMessage(o, 201) \in Messages /\ Told(ErrorMessage(o, 201))'
<1>1. PICK st : st = Report(o, entry)
  OBVIOUS
<1>2. st \in StatusesOf(o) /\ st.filled \in Int
  BY <1>1, ReportFields DEF BookEntry
<1>3. Past(o, st)'
  <2>1. st.filled <= book'[o].filled
    BY <1>1, <1>2, ReportFields
  <2> QED BY <1>1, <1>2, <2>1, ReportFields DEF Past, StatusesOf, Size
<1>4. /\ [kind |-> "status", order |-> o, status |-> st] \in Messages
      /\ Told([kind |-> "status", order |-> o, status |-> st])'
  <2>1. [kind |-> "status", order |-> o, status |-> st] \in StatusMessages
    BY <1>2 DEF StatusMessages
  <2> QED BY <1>3, <2>1 DEF Messages, Told
<1>5. entry.filled > 0 =>
         /\ ExecutionMessage(o, entry.filled) \in OtherMessages
         /\ Told(ExecutionMessage(o, entry.filled))'
  BY DEF ExecutionMessage, OtherMessages, Told, BookEntry
<1>6. \A code \in {201, 202} : ErrorMessage(o, code) \in OtherMessages
  BY DEF ErrorMessage, OtherMessages
<1>7. /\ entry.state = "cancelled" => Told(ErrorMessage(o, 202))'
      /\ entry.state = "rejected" => Told(ErrorMessage(o, 201))'
  BY DEF ErrorMessage, Told
<1>8. StatusMessage(o, entry) = [kind |-> "status", order |-> o, status |-> st]
  BY <1>1 DEF StatusMessage
<1> QED BY <1>4, <1>5, <1>6, <1>7, <1>8 DEF Messages

\* Two sequences of messages in a row.
LEMMA QueueGrows ==
    ASSUME NEW s \in Seq(Messages), NEW t \in Seq(Messages)
    PROVE  /\ s \o t \in Seq(Messages)
           /\ \A i \in 1..Len(s \o t) :
                 \/ \E j \in 1..Len(s) : (s \o t)[i] = s[j]
                 \/ \E j \in 1..Len(t) : (s \o t)[i] = t[j]
<1>1. ASSUME NEW i \in 1..Len(s \o t), i > Len(s)
      PROVE  \E j \in 1..Len(t) : (s \o t)[i] = t[j]
  <2>1. i - Len(s) \in 1..Len(t) /\ (s \o t)[i] = t[i - Len(s)]
    BY <1>1
  <2> QED BY <2>1
<1>2. ASSUME NEW i \in 1..Len(s \o t), i <= Len(s)
      PROVE  \E j \in 1..Len(s) : (s \o t)[i] = s[j]
  <2>1. i \in 1..Len(s) /\ (s \o t)[i] = s[i]
    BY <1>2
  <2> QED BY <2>1
<1>3. \A i \in 1..Len(s \o t) : i > Len(s) \/ i <= Len(s)
  OBVIOUS
<1> QED BY <1>1, <1>2, <1>3

\* The broker changes an entry and says so.
LEMMA BrokerMoves ==
    ASSUME SubmissionInv, NEW o \in Orders, NEW entry \in BookEntry, NEW messages \in Seq(Messages),
           BrokerChanges(o, entry, messages),
           \A i \in 1..Len(messages) : Told(messages[i])'
    PROVE  /\ InboxKept
           /\ book' = [book EXCEPT ![o] = entry]
           /\ UNCHANGED <<call, due, heard, recon, ledgerVars>>
<1>1. ASSUME NEW p \in Processes
      PROVE  /\ inbox'[p] \in Seq(Messages)
             /\ \A i \in 1..Len(inbox'[p]) :
                   \/ \E j \in 1..Len(inbox[p]) : inbox'[p][i] = inbox[p][j]
                   \/ \E m : inbox'[p][i] = m /\ Told(m)'
  <2>1. inbox[p] \in Seq(Messages)
    BY DEF SubmissionInv, InboxInv
  <2>2. CASE inbox'[p] = inbox[p]
    BY <2>1, <2>2
  <2>3. CASE inbox'[p] = inbox[p] \o messages
    <3> DEFINE queue == inbox[p] \o messages
    <3>1. /\ queue \in Seq(Messages)
          /\ \A i \in 1..Len(queue) :
                \/ \E j \in 1..Len(inbox[p]) : queue[i] = inbox[p][j]
                \/ \E j \in 1..Len(messages) : queue[i] = messages[j]
      BY <2>1, QueueGrows, Zenon
    <3>2. \A j \in 1..Len(messages) : \E m : messages[j] = m /\ Told(m)'
      OBVIOUS
    <3>3. inbox'[p] = queue
      BY <2>3
    <3> HIDE DEF queue
    <3> QED BY <3>1, <3>2, <3>3
  <2> QED BY <2>2, <2>3 DEF BrokerChanges
<1>2. inbox' \in [Processes -> Seq(Messages)]
  BY <1>1 DEF BrokerChanges
<1> QED BY <1>1, <1>2 DEF InboxKept, BrokerChanges, processVars

\* One message that is true.
LEMMA Single ==
    ASSUME NEW a \in Messages, Told(a)'
    PROVE  <<a>> \in Seq(Messages) /\ \A i \in 1..Len(<<a>>) : Told(<<a>>[i])'
<1>1. <<a>> \in Seq(Messages) /\ Len(<<a>>) = 1 /\ <<a>>[1] = a
  OBVIOUS
<1>2. \A i \in 1..1 : i = 1
  OBVIOUS
<1>3. ASSUME NEW i \in 1..1
      PROVE  \E m : <<a>>[i] = m /\ Told(m)'
  BY <1>1, <1>2
<1> QED BY <1>1, <1>3

\* Two messages that are true.
LEMMA Pair ==
    ASSUME NEW a \in Messages, NEW b \in Messages, Told(a)', Told(b)'
    PROVE  <<a, b>> \in Seq(Messages) /\ \A i \in 1..Len(<<a, b>>) : Told(<<a, b>>[i])'
<1>1. <<a, b>> \in Seq(Messages) /\ Len(<<a, b>>) = 2
  OBVIOUS
<1>2. <<a, b>>[1] = a /\ <<a, b>>[2] = b
  OBVIOUS
<1>3. \A i \in 1..2 : i = 1 \/ i = 2
  OBVIOUS
<1>4. ASSUME NEW i \in 1..2
      PROVE  \E m : <<a, b>>[i] = m /\ Told(m)'
  BY <1>2, <1>3
<1> QED BY <1>1, <1>4

\* The broker's own steps.
LEMMA BrokerStep ==
    ASSUME SubmissionInv, BrokerNext
    PROVE  /\ BookInv' /\ BookGrows /\ InboxKept
           /\ \A x \in Orders : book'[x].sent = book[x].sent
           /\ UNCHANGED <<call, due, heard, recon, ledgerVars>>
<1> DEFINE Goal == /\ BookInv' /\ BookGrows /\ InboxKept
                   /\ \A x \in Orders : book'[x].sent = book[x].sent
                   /\ UNCHANGED <<call, due, heard, recon, ledgerVars>>
<1>1. /\ book \in [Orders -> BookEntry]
      /\ \A o \in Orders :
            /\ book[o].filled \in Nat /\ book[o].sent \in Nat
            /\ book[o].filled <= Size(o)
            /\ book[o].state = "filled" <=> book[o].filled = Size(o)
            /\ book[o].state # "none" => book[o].sent > 0
            /\ book[o].sent <= claims[o]
  BY DEF SubmissionInv, BookInv, BookEntry
<1>2. ASSUME NEW o \in Orders, NEW entry \in BookEntry, NEW messages \in Seq(Messages),
             BrokerChanges(o, entry, messages),
             \A i \in 1..Len(messages) : Told(messages[i])',
             book[o].state \in {"pending", "working"},
             entry.state \in {"working"} \cup BrokerTerminal,
             book[o].filled <= entry.filled, entry.filled <= Size(o),
             entry.state = "filled" <=> entry.filled = Size(o),
             entry.sent = book[o].sent
      PROVE  Goal
  <2>1. /\ InboxKept
        /\ book' = [book EXCEPT ![o] = entry]
        /\ UNCHANGED <<call, due, heard, recon, ledgerVars>>
    BY <1>2, BrokerMoves
  <2>2. UNCHANGED claims
    BY <2>1 DEF ledgerVars
  <2>3. /\ book[o].state \notin BrokerTerminal /\ book[o].state # "none"
        /\ entry.state # "none"
    BY <1>2 DEF BrokerTerminal
  <2>4. BookInv' /\ BookGrows
    BY <1>1, <1>2, <2>1, <2>2, <2>3, BookMoves
  <2> QED BY <1>1, <1>2, <2>1, <2>4
<1>3. ASSUME NEW o \in Orders, BrokerAccept(o)
      PROVE  Goal
  <2>1. PICK entry : entry = [book[o] EXCEPT !.state = "working"]
    OBVIOUS
  <2>2. /\ entry \in BookEntry /\ entry.state = "working"
        /\ entry.filled = book[o].filled /\ entry.sent = book[o].sent
    BY <1>1, <2>1 DEF BookEntry
  <2>3. BrokerChanges(o, entry, <<StatusMessage(o, entry)>>) /\ book[o].state = "pending"
    BY <1>3, <2>1 DEF BrokerAccept
  <2>4. book'[o] = entry
    BY <1>1, <2>3 DEF BrokerChanges
  <2>5. StatusMessage(o, entry) \in Messages /\ Told(StatusMessage(o, entry))'
    BY <1>1, <2>2, <2>4, MessagesAreTold
  <2>6. PICK messages : messages = <<StatusMessage(o, entry)>>
    OBVIOUS
  <2>7. messages \in Seq(Messages) /\ \A i \in 1..Len(messages) : Told(messages[i])'
    BY <2>5, <2>6, Single
  <2>8. /\ book[o].state \in {"pending", "working"}
        /\ entry.state \in {"working"} \cup BrokerTerminal
        /\ entry.state = "filled" <=> entry.filled = Size(o)
        /\ book[o].filled <= entry.filled /\ entry.filled <= Size(o)
    BY <1>1, <2>2, <2>3 DEF BrokerTerminal
  <2> QED BY <1>2, <2>2, <2>3, <2>6, <2>7, <2>8
<1>4. ASSUME NEW o \in Orders, BrokerReject(o)
      PROVE  Goal
  <2>1. PICK entry : entry = [book[o] EXCEPT !.state = "rejected"]
    OBVIOUS
  <2>2. /\ entry \in BookEntry /\ entry.state = "rejected"
        /\ entry.filled = book[o].filled /\ entry.sent = book[o].sent
    BY <1>1, <2>1 DEF BookEntry, BrokerTerminal
  <2>3. /\ BrokerChanges(o, entry, <<ErrorMessage(o, 201), StatusMessage(o, entry)>>)
        /\ book[o].state = "pending"
    BY <1>4, <2>1 DEF BrokerReject
  <2>4. book'[o] = entry
    BY <1>1, <2>3 DEF BrokerChanges
  <2>5. /\ StatusMessage(o, entry) \in Messages /\ Told(StatusMessage(o, entry))'
        /\ ErrorMessage(o, 201) \in Messages /\ Told(ErrorMessage(o, 201))'
    BY <1>1, <2>2, <2>4, MessagesAreTold
  <2>6. PICK messages : messages = <<ErrorMessage(o, 201), StatusMessage(o, entry)>>
    OBVIOUS
  <2>7. messages \in Seq(Messages) /\ \A i \in 1..Len(messages) : Told(messages[i])'
    BY <2>5, <2>6, Pair
  <2>8. /\ book[o].state \in {"pending", "working"}
        /\ entry.state \in {"working"} \cup BrokerTerminal
        /\ entry.state = "filled" <=> entry.filled = Size(o)
        /\ book[o].filled <= entry.filled /\ entry.filled <= Size(o)
    BY <1>1, <2>2, <2>3 DEF BrokerTerminal
  <2> QED BY <1>2, <2>2, <2>3, <2>6, <2>7, <2>8
<1>5. ASSUME NEW o \in Orders, BrokerCancel(o)
      PROVE  Goal
  <2>1. PICK entry : entry = [book[o] EXCEPT !.state = "cancelled"]
    OBVIOUS
  <2>2. /\ entry \in BookEntry /\ entry.state = "cancelled"
        /\ entry.filled = book[o].filled /\ entry.sent = book[o].sent
    BY <1>1, <2>1 DEF BookEntry, BrokerTerminal
  <2>3. /\ BrokerChanges(o, entry, <<StatusMessage(o, entry), ErrorMessage(o, 202)>>)
        /\ book[o].state \in {"pending", "working"}
    BY <1>5, <2>1 DEF BrokerCancel
  <2>4. book'[o] = entry
    BY <1>1, <2>3 DEF BrokerChanges
  <2>5. /\ StatusMessage(o, entry) \in Messages /\ Told(StatusMessage(o, entry))'
        /\ ErrorMessage(o, 202) \in Messages /\ Told(ErrorMessage(o, 202))'
    BY <1>1, <2>2, <2>4, MessagesAreTold
  <2>6. PICK messages : messages = <<StatusMessage(o, entry), ErrorMessage(o, 202)>>
    OBVIOUS
  <2>7. messages \in Seq(Messages) /\ \A i \in 1..Len(messages) : Told(messages[i])'
    BY <2>5, <2>6, Pair
  <2>8. /\ book[o].state \in {"pending", "working"}
        /\ entry.state \in {"working"} \cup BrokerTerminal
        /\ entry.state = "filled" <=> entry.filled = Size(o)
        /\ book[o].filled <= entry.filled /\ entry.filled <= Size(o)
    BY <1>1, <2>2, <2>3 DEF BrokerTerminal
  <2> QED BY <1>2, <2>2, <2>3, <2>6, <2>7, <2>8
<1>6. ASSUME NEW o \in Orders, BrokerFill(o)
      PROVE  Goal
  <2>1. PICK n : n = book[o].filled + 1
    OBVIOUS
  <2>2. PICK entry : entry = [book[o] EXCEPT !.filled = n,
                                             !.state = IF n = Size(o) THEN "filled" ELSE @]
    OBVIOUS
  <2>3. /\ book[o].state = "working"
        /\ \/ BrokerChanges(o, entry, <<ExecutionMessage(o, n), StatusMessage(o, entry)>>)
           \/ BrokerChanges(o, entry, <<StatusMessage(o, entry), ExecutionMessage(o, n)>>)
    BY <1>6, <2>1, <2>2 DEF BrokerFill, Size
  <2>4. n \in Nat /\ n > 0 /\ book[o].filled <= n /\ n <= Size(o)
    BY <1>1, <2>1, <2>3, SizeType
  <2>5. /\ entry \in BookEntry /\ entry.filled = n /\ entry.sent = book[o].sent
        /\ entry.state = IF n = Size(o) THEN "filled" ELSE "working"
    BY <1>1, <2>2, <2>3, <2>4 DEF BookEntry, BrokerTerminal
  <2>6. book'[o] = entry
    BY <1>1, <2>3 DEF BrokerChanges
  <2>7. /\ StatusMessage(o, entry) \in Messages /\ Told(StatusMessage(o, entry))'
        /\ ExecutionMessage(o, n) \in Messages /\ Told(ExecutionMessage(o, n))'
    BY <2>4, <2>5, <2>6, MessagesAreTold
  <2>8. PICK messages : /\ BrokerChanges(o, entry, messages)
                        /\ \/ messages = <<ExecutionMessage(o, n), StatusMessage(o, entry)>>
                           \/ messages = <<StatusMessage(o, entry), ExecutionMessage(o, n)>>
    BY <2>3
  <2>9. messages \in Seq(Messages) /\ \A i \in 1..Len(messages) : Told(messages[i])'
    BY <2>7, <2>8, Pair
  <2>10. /\ entry.state \in {"working"} \cup BrokerTerminal
         /\ entry.state = "filled" <=> entry.filled = Size(o)
         /\ book[o].filled <= entry.filled /\ entry.filled <= Size(o)
    BY <2>4, <2>5 DEF BrokerTerminal
  <2> QED BY <1>2, <2>3, <2>5, <2>8, <2>9, <2>10
<1> QED BY <1>3, <1>4, <1>5, <1>6 DEF BrokerNext

-----------------------------------------------------------------------------
(* The claim, the transmission, callbacks, snapshots and crashes.          *)

\* The claim makes the caller the only sender of the order.
LEMMA ClaimMoves ==
    ASSUME SubmissionInv, Grown, NEW p \in Processes, SubmitClaim(p)
    PROVE  CallsKept /\ SendersAlone' /\ UNCHANGED <<due, inbox, heard, recon>>
<1> DEFINE o == call[p].order
<1>1. /\ ~At(p, "idle") /\ o \in Orders
      /\ UNCHANGED <<due, inbox, heard, recon, book>>
  BY DEF SubmitClaim, Goes, brokerVars, At, SubmissionInv, CallInv, CallFits
<1>2. CASE call' = [call EXCEPT ![p] = IdleCall]
  BY <1>1, <1>2, IdleFits, SendersStay
<1>3. CASE ClaimSubmission(o) /\ call' = [call EXCEPT ![p] = Step(p, "send")]
  <2>1. claims[o] = 0 /\ claims' = [claims EXCEPT ![o] = 1]
    BY <1>1, <1>3, ClaimKeepsRows DEF SubmissionInv
  <2>2. claims \in [Orders -> Nat]
    BY DEF SubmissionInv, IInv, TypeOK
  <2>3. claims'[o] > 0
    BY <1>1, <2>1, <2>2
  <2>4. CallsKept
    <3>1. "send" \in CallSteps \ {"idle", "apply"}
      BY DEF CallSteps
    <3> QED BY <1>1, <1>3, <2>3, <3>1, StepFits
  <2>5. /\ \A q \in Processes : q # p => call'[q] = call[q]
        /\ call'[p].order = o
    BY <1>3 DEF SubmissionInv, CallInv, CallFits, Step
  <2>6. \A q \in Processes : At(q, "send") => call[q].order # o /\ call[q].order \in Orders
    BY <2>1 DEF SubmissionInv, SendersAlone, CallInv, CallFits, At
  <2>7. book'[o].sent = 0
    BY <1>1, <2>1 DEF SubmissionInv, BookInv, BookEntry
  <2>8. ASSUME NEW q \in Processes, call'[q].step = "send"
        PROVE  /\ claims'[call'[q].order] > 0
               /\ book'[call'[q].order].sent = 0
               /\ \A r \in Processes :
                     call'[r].step = "send" /\ call'[r].order = call'[q].order => q = r
    <3>1. \A x \in Orders : x # o => claims'[x] = claims[x]
      BY <2>1, <2>2
    <3>2. CASE q = p
      BY <2>3, <2>5, <2>6, <2>7, <3>2 DEF At
    <3>3. CASE q # p
      <4>1. call'[q] = call[q] /\ At(q, "send") /\ call[q].order # o /\ call[q].order \in Orders
        BY <2>5, <2>6, <2>8, <3>3 DEF At
      <4>2. claims'[call[q].order] > 0 /\ book'[call[q].order].sent = 0
        BY <1>1, <3>1, <4>1 DEF SubmissionInv, SendersAlone
      <4> QED BY <2>5, <4>1, <4>2 DEF SubmissionInv, SendersAlone, At
    <3> QED BY <3>2, <3>3
  <2> QED BY <1>1, <2>4, <2>8 DEF SendersAlone, At
<1> QED BY <1>2, <1>3 DEF SubmitClaim, Goes

\* placeOrder uses the claim up.
LEMMA TransmitBook ==
    ASSUME SubmissionInv, NEW p \in Processes, SubmitTransmit(p)
    PROVE  BookInv' /\ BookGrows
<1> DEFINE o == call[p].order
<1>1. o \in Orders /\ claims[o] > 0 /\ book[o].sent = 0
  BY DEF SubmitTransmit, SubmissionInv, SendersAlone, CallInv, CallFits, At
<1>2. /\ book \in [Orders -> BookEntry] /\ claims \in [Orders -> Nat]
      /\ book[o].filled <= Size(o)
      /\ book[o].state = "filled" <=> book[o].filled = Size(o)
  BY <1>1 DEF SubmissionInv, BookInv, IInv, TypeOK
<1>3. PICK entry : /\ book' = [book EXCEPT ![o] = entry]
                   /\ \/ entry = Placed(o, p)
                      \/ entry = [book[o] EXCEPT !.sent = @ + 1]
  BY DEF SubmitTransmit
<1>4. /\ entry.sent = 1 /\ entry.filled = book[o].filled
      /\ \/ entry.state = book[o].state
         \/ entry.state = "pending" /\ book[o].state = "none"
      /\ entry \in BookEntry
  <2>1. book[o] \in BookEntry /\ book[o].sent + 1 = 1
    BY <1>1, <1>2
  <2>2. CASE entry = Placed(o, p)
    <3>1. PICK state : state = IF book[o].state = "none" THEN "pending" ELSE book[o].state
      OBVIOUS
    <3>2. entry = [book[o] EXCEPT !.sent = 1, !.state = state, !.owner = p]
      BY <2>1, <2>2, <3>1 DEF Placed
    <3>3. state \in {"none", "pending", "working"} \cup BrokerTerminal
      BY <2>1, <3>1 DEF BookEntry
    <3> QED BY <2>1, <3>1, <3>2, <3>3 DEF BookEntry
  <2>3. CASE entry = [book[o] EXCEPT !.sent = @ + 1]
    <3>1. entry = [book[o] EXCEPT !.sent = 1]
      BY <2>1, <2>3
    <3> QED BY <2>1, <3>1 DEF BookEntry
  <2> QED BY <1>3, <2>2, <2>3
<1>5. UNCHANGED claims
  BY DEF SubmitTransmit, ledgerVars
<1>6. /\ book[o].filled <= entry.filled /\ entry.filled <= Size(o)
      /\ entry.state = "filled" <=> entry.filled = Size(o)
      /\ book[o].state # "none" => entry.state # "none"
      /\ book[o].state \in BrokerTerminal => entry.state = book[o].state
      /\ entry.sent > 0 /\ entry.sent <= claims[o]
  BY <1>1, <1>2, <1>4 DEF BookEntry, BrokerTerminal
<1> QED BY <1>1, <1>3, <1>4, <1>5, <1>6, BookMoves

\* The process has no claim to use any more.
LEMMA TransmitMoves ==
    ASSUME SubmissionInv, Grown, NEW p \in Processes, SubmitTransmit(p)
    PROVE  CallsKept /\ SendersAlone' /\ HeardKept /\ UNCHANGED <<due, inbox, recon>>
<1> DEFINE o == call[p].order
<1>1. /\ ~At(p, "idle") /\ At(p, "send") /\ o \in Orders /\ AtBroker(o)
      /\ UNCHANGED <<due, inbox, recon, ledgerVars>>
      /\ call' = [call EXCEPT ![p] = Step(p, "wait")]
      /\ heard' = [heard EXCEPT ![p][o] = NoStatus]
  BY DEF SubmitTransmit, At, Step, SubmissionInv, CallInv, CallFits, BeforeClaim
<1>2. CallsKept
  <2>1. "wait" \in CallSteps \ {"idle", "apply"}
    BY DEF CallSteps
  <2>2. claims'[o] > 0
    BY <1>1, StillClaimed
  <2> QED BY <1>1, <2>1, <2>2, StepFits
<1>3. HeardKept
  BY <1>1 DEF HeardKept, SubmissionInv, HeardInv
<1>4. /\ \A q \in Processes : q # p => call'[q] = call[q]
      /\ call'[p].step = "wait"
  BY <1>1 DEF SubmissionInv, CallInv, CallFits, Step
<1>5. \A x \in Orders : x # o => book'[x] = book[x]
  BY DEF SubmitTransmit, SubmissionInv, BookInv
<1>6. ASSUME NEW q \in Processes, call'[q].step = "send"
      PROVE  /\ claims'[call'[q].order] > 0
             /\ book'[call'[q].order].sent = 0
             /\ \A r \in Processes :
                   call'[r].step = "send" /\ call'[r].order = call'[q].order => q = r
  <2>1. q # p /\ call'[q] = call[q] /\ At(q, "send") /\ call[q].order \in Orders
    BY <1>4, <1>6 DEF SubmissionInv, CallInv, CallFits, At
  <2>2. call[q].order # o
    BY <1>1, <2>1 DEF SubmissionInv, SendersAlone
  <2>3. claims'[call[q].order] > 0 /\ book'[call[q].order].sent = 0
    BY <1>1, <1>5, <2>1, <2>2 DEF SubmissionInv, SendersAlone, ledgerVars
  <2> QED BY <1>4, <2>1, <2>3 DEF SubmissionInv, SendersAlone, At
<1> QED BY <1>1, <1>2, <1>3, <1>6 DEF SendersAlone, At

\* The adapter hears a status of one order.
LEMMA Hears ==
    ASSUME SubmissionInv, NEW p \in Processes, NEW o \in Orders, NEW st, Past(o, st)',
           heard' = [heard EXCEPT ![p][o] = st]
    PROVE  HeardKept
<1>1. DOMAIN heard = Processes /\ \A q \in Processes : DOMAIN heard[q] = Orders
  BY DEF SubmissionInv, HeardInv
<1>2. DOMAIN heard' = Processes /\ \A q \in Processes : DOMAIN heard'[q] = Orders
  BY <1>1
<1>3. \A q \in Processes, x \in Orders :
         heard'[q][x] = IF q = p /\ x = o THEN st ELSE heard[q][x]
  BY <1>1
<1> QED BY <1>2, <1>3 DEF HeardKept

\* The record of the adapter takes over what the callback says.
LEMMA DeliverMoves ==
    ASSUME SubmissionInv, Grown, NEW p \in Processes, Deliver(p)
    PROVE  InboxKept /\ HeardKept /\ UNCHANGED <<call, due, recon, book>>
<1>1. PICK message : message = Head(inbox[p])
  OBVIOUS
<1>2. PICK o : o = message.order
  OBVIOUS
<1>3. message \in Messages /\ Told(message) /\ o \in Orders
  BY <1>1, <1>2, HeadIsTold DEF Deliver
<1>4. /\ inbox[p] # <<>> /\ inbox' = [inbox EXCEPT ![p] = Tail(@)]
      /\ heard' = HeardAfter(p, message)
      /\ UNCHANGED <<call, due, recon, book>>
  BY <1>1 DEF Deliver
<1>5. \A x \in Orders : \A st : Past(x, st) => Past(x, st)'
  BY PastStays DEF SubmissionInv, Grown
<1>6. InboxKept
  <2>1. inbox \in [Processes -> Seq(Messages)]
    BY DEF SubmissionInv, InboxInv
  <2>2. PICK queue \in Seq(Messages) : queue = inbox[p]
    BY <2>1
  <2>3. /\ Tail(queue) \in Seq(Messages)
        /\ \A i \in 1..Len(Tail(queue)) : i + 1 \in 1..Len(queue) /\ Tail(queue)[i] = queue[i + 1]
    BY <1>4, <2>2
  <2>4. inbox' \in [Processes -> Seq(Messages)]
    BY <1>4, <2>1, <2>2, <2>3
  <2>5. ASSUME NEW q \in Processes, NEW i \in 1..Len(inbox'[q])
        PROVE  \E j \in 1..Len(inbox[q]) : inbox'[q][i] = inbox[q][j]
    <3>1. CASE q = p
      <4>1. inbox'[q] = Tail(queue)
        BY <1>4, <2>1, <2>2, <3>1
      <4>2. i + 1 \in 1..Len(queue) /\ inbox'[q][i] = queue[i + 1]
        BY <2>3, <2>5, <4>1
      <4> QED BY <2>2, <3>1, <4>2
    <3>2. CASE q # p
      BY <1>4, <2>1, <2>5, <3>2
    <3> QED BY <3>1, <3>2
  <2> QED BY <2>4, <2>5 DEF InboxKept
<1>7. ASSUME message.kind = "status"
      PROVE  HeardKept
  <2>1. heard' = [heard EXCEPT ![p][o] = message.status]
    BY <1>2, <1>4, <1>7 DEF HeardAfter
  <2>2. Past(o, message.status)
    BY <1>2, <1>3, <1>7 DEF Told
  <2>3. PICK st : st = message.status
    OBVIOUS
  <2>4. Past(o, st)'
    BY <1>3, <1>5, <2>2, <2>3
  <2>5. heard' = [heard EXCEPT ![p][o] = st]
    BY <2>1, <2>3
  <2> QED BY <1>3, <2>4, <2>5, Hears
<1>8. ASSUME message.kind = "error", message.code = 202, heard[p][o] # NoStatus
      PROVE  HeardKept
  <2>1. PICK old : old = heard[p][o]
    OBVIOUS
  <2>2. PICK st : st = [old EXCEPT !.status = "Cancelled"]
    OBVIOUS
  <2>3. heard' = [heard EXCEPT ![p][o] = st]
    BY <1>2, <1>4, <1>8, <2>1, <2>2 DEF HeardAfter
  <2>4. Past(o, old)
    BY <1>3, <1>8, <2>1 DEF SubmissionInv, HeardInv
  <2>5. book[o].state = "cancelled"
    BY <1>2, <1>3, <1>8 DEF Told
  <2>6. PICK word \in BrokerWord, n \in 0..Size(o) :
           old = StatusOf(word, InitialTerms[o], Size(o), n)
    BY <2>4 DEF Past, StatusesOf
  <2>7. /\ st = StatusOf("Cancelled", InitialTerms[o], Size(o), n)
        /\ st.status = "Cancelled" /\ st.filled = old.filled
    BY <2>2, <2>6 DEF StatusOf
  <2>8. Past(o, st)
    <3>1. "Cancelled" \in BrokerWord
      BY DEF BrokerWord
    <3>2. st \in StatusesOf(o)
      BY <2>6, <2>7, <3>1 DEF StatusesOf
    <3> QED BY <2>4, <2>5, <2>7, <3>2 DEF Past
  <2>9. Past(o, st)'
    BY <1>3, <1>5, <2>8
  <2> QED BY <1>3, <2>3, <2>9, Hears
<1>9. heard' = heard => HeardKept
  BY Untouched
<1>10. \/ message.kind = "status"
       \/ message.kind = "error" /\ message.code = 202 /\ heard[p][o] # NoStatus
       \/ heard' = heard
  BY <1>2, <1>4 DEF HeardAfter
<1> QED BY <1>4, <1>6, <1>7, <1>8, <1>9, <1>10

\* The snapshot of a process is replaced or gone.
LEMMA Snapshots ==
    ASSUME SubmissionInv, NEW p \in Processes, NEW s, s = NoSnapshot \/ SnapshotFits(s)',
           recon' = [recon EXCEPT ![p] = s]
    PROVE  SnapshotsKept
<1>1. DOMAIN recon = Processes
  BY DEF SubmissionInv, SnapshotInv
<1>2. DOMAIN recon' = Processes /\ \A q \in Processes : recon'[q] = IF q = p THEN s ELSE recon[q]
  BY <1>1
<1> QED BY <1>2 DEF SnapshotsKept

\* The steps of a reconciliation.
LEMMA ReconcileMoves ==
    ASSUME SubmissionInv, Grown, NEW p \in Processes, ReconcileReadOrders(p) \/ ReconcileSteps(p)
    PROVE  SnapshotsKept /\ UNCHANGED <<call, due, inbox, heard, book>>
<1> DEFINE Goal == SnapshotsKept /\ UNCHANGED <<call, due, inbox, heard, book>>
<1>1. /\ book \in [Orders -> BookEntry]
      /\ \A o \in Orders : book[o].filled \in Nat /\ book[o].filled <= Size(o)
  BY DEF SubmissionInv, BookInv, BookEntry
<1>2. CASE ReconcileReadFails(p) \/ ReconcileFinish(p)
  <2>1. recon' = [recon EXCEPT ![p] = NoSnapshot] /\ UNCHANGED <<call, due, inbox, heard, book>>
    BY <1>2 DEF ReconcileReadFails, ReconcileFinish, brokerVars
  <2>2. PICK s : s = NoSnapshot
    OBVIOUS
  <2> QED BY <2>1, <2>2, Snapshots
<1>3. ASSUME NEW o \in Orders, ReconcileExecution(p, o)
      PROVE  Goal
  <2>1. UNCHANGED <<call, due, inbox, heard, recon, book>>
    BY <1>3 DEF ReconcileExecution, processVars, brokerVars
  <2> QED BY <2>1, Untouched
<1>4. CASE ReconcileReadOrders(p)
  <2>1. UNCHANGED <<call, due, inbox, heard, book>>
    BY <1>4 DEF ReconcileReadOrders, brokerVars
  <2>2. PICK status : status = [o \in Orders |-> IF book[o].state = "none" THEN NoStatus
                                                 ELSE Report(o, book[o])]
    OBVIOUS
  <2>3. PICK left : left = {o \in Orders : book[o].state # "none"}
    OBVIOUS
  <2>4. PICK s : s = [status |-> status, fills |-> NoSnapshot, left |-> left, ok |-> TRUE]
    OBVIOUS
  <2>5. recon' = [recon EXCEPT ![p] = s]
    BY <1>4, <2>2, <2>3, <2>4 DEF ReconcileReadOrders
  <2>6. ASSUME NEW o \in left
        PROVE  o \in Orders /\ Past(o, status[o])
    <3>1. o \in Orders /\ book[o].state # "none" /\ status[o] = Report(o, book[o])
      BY <2>2, <2>3
    <3>2. book[o] \in BookEntry /\ book[o].filled <= Size(o)
      BY <1>1, <3>1
    <3>3. /\ status[o] \in StatusesOf(o)
          /\ status[o].filled = book[o].filled
          /\ status[o].status = "Filled" => book[o].state = "filled"
          /\ status[o].status = "Cancelled" => book[o].state = "cancelled"
          /\ status[o].status = "Inactive" => book[o].state = "rejected"
      BY <3>1, <3>2, ReportFields
    <3> QED BY <1>1, <3>1, <3>3 DEF Past
  <2>7. \A o \in left : Past(o, status[o])'
    <3>1. \A o \in Orders : \A st : Past(o, st) => Past(o, st)'
      BY PastStays DEF SubmissionInv, Grown
    <3> QED BY <2>6, <3>1
  <2>8. /\ DOMAIN s = {"status", "fills", "left", "ok"}
        /\ s.left = left /\ s.status = status /\ s.fills = NoSnapshot
    BY <2>4
  <2>9. SnapshotFits(s)'
    BY <2>6, <2>7, <2>8 DEF SnapshotFits
  <2> QED BY <2>1, <2>5, <2>9, Snapshots
<1>5. CASE ReconcileReadExecutions(p)
  <2>1. PICK old : old = recon[p] /\ SnapshotFits(old)
    BY <1>5 DEF ReconcileReadExecutions, SubmissionInv, SnapshotInv
  <2>2. PICK fills : fills = [o \in Orders |-> book[o].filled]
    OBVIOUS
  <2>3. PICK s : s = [old EXCEPT !.fills = fills]
    OBVIOUS
  <2>4. /\ UNCHANGED <<call, due, inbox, heard, book>>
        /\ recon' = [recon EXCEPT ![p] = s]
    BY <1>5, <2>1, <2>2, <2>3 DEF ReconcileReadExecutions, brokerVars
  <2>5. /\ DOMAIN s = DOMAIN old
        /\ s.left = old.left /\ s.status = old.status /\ s.fills = fills
    BY <2>1, <2>3 DEF SnapshotFits
  <2>6. SnapshotFits(old)'
    BY <2>1, SnapshotStays
  <2>7. \A o \in Orders : fills[o] \in Nat /\ fills[o] <= book'[o].filled
    BY <1>1, <2>2, <2>4
  <2>8. SnapshotFits(s)'
    BY <2>5, <2>6, <2>7 DEF SnapshotFits
  <2> QED BY <2>4, <2>8, Snapshots
<1>6. ASSUME NEW o \in Orders, ReconcileOrder(p, o)
      PROVE  Goal
  <2>1. PICK old : old = recon[p] /\ SnapshotFits(old)
    BY <1>6 DEF ReconcileOrder, HasSnapshot, SubmissionInv, SnapshotInv
  <2>2. PICK ok : recon' = [recon EXCEPT ![p].left = old.left \ {o}, ![p].ok = ok]
    BY <1>6, <2>1 DEF ReconcileOrder
  <2>3. PICK s : s = [old EXCEPT !.left = old.left \ {o}, !.ok = ok]
    OBVIOUS
  <2>4. /\ UNCHANGED <<call, due, inbox, heard, book>>
        /\ recon' = [recon EXCEPT ![p] = s]
    <3>1. DOMAIN recon = Processes
      BY DEF SubmissionInv, SnapshotInv
    <3>2. recon'[p] = s /\ \A q \in Processes : q # p => recon'[q] = recon[q]
      BY <2>1, <2>2, <2>3, <3>1
    <3>3. recon' = [q \in Processes |-> recon'[q]]
      BY <2>2, <3>1
    <3> QED BY <1>6, <3>1, <3>2, <3>3 DEF ReconcileOrder, brokerVars
  <2>5. /\ DOMAIN s = DOMAIN old
        /\ s.left = old.left \ {o} /\ s.status = old.status /\ s.fills = old.fills
    BY <2>1, <2>3 DEF SnapshotFits
  <2>6. SnapshotFits(old)'
    BY <2>1, SnapshotStays
  <2>7. SnapshotFits(s)'
    BY <2>5, <2>6 DEF SnapshotFits
  <2> QED BY <2>4, <2>7, Snapshots
<1> QED BY <1>2, <1>3, <1>4, <1>5, <1>6 DEF ReconcileSteps

\* A crash empties the memory of one process.
LEMMA CrashMoves ==
    ASSUME SubmissionInv, Grown, NEW p \in Processes, Crash(p)
    PROVE  CallsKept /\ NoSender /\ ScansKept /\ InboxKept /\ HeardKept /\ SnapshotsKept
<1>1. UNCHANGED book
  BY DEF Crash
<1>2. CallsKept /\ NoSender
  BY <1>1, IdleFits DEF Crash
<1>3. ScansKept
  BY DEF Crash, ScansKept, SubmissionInv, ScanInv
<1>4. InboxKept
  <2>1. inbox \in [Processes -> Seq(Messages)] /\ inbox' = [inbox EXCEPT ![p] = <<>>]
    BY DEF Crash, SubmissionInv, InboxInv
  <2>2. <<>> \in Seq(Messages) /\ Len(<<>>) = 0
    OBVIOUS
  <2>3. inbox' \in [Processes -> Seq(Messages)]
    BY <2>1, <2>2
  <2>4. ASSUME NEW q \in Processes, NEW i \in 1..Len(inbox'[q])
        PROVE  \E j \in 1..Len(inbox[q]) : inbox'[q][i] = inbox[q][j]
    <3>1. q # p
      BY <2>1, <2>2, <2>4
    <3> QED BY <2>1, <2>4, <3>1
  <2> QED BY <2>3, <2>4 DEF InboxKept
<1>5. HeardKept
  <2>1. DOMAIN heard = Processes /\ \A q \in Processes : DOMAIN heard[q] = Orders
    BY DEF SubmissionInv, HeardInv
  <2>2. heard' = [heard EXCEPT ![p] = [o \in Orders |-> NoStatus]]
    BY DEF Crash
  <2> QED BY <2>1, <2>2 DEF HeardKept
<1>6. SnapshotsKept
  BY Snapshots DEF Crash
<1> QED BY <1>2, <1>3, <1>4, <1>5, <1>6

-----------------------------------------------------------------------------
(* The invariant.                                                          *)

\* Which steps change the broker's record, and how.
LEMMA StepBook ==
    ASSUME SubmissionInv, [SubmissionNext]_vars
    PROVE  UNCHANGED book \/ (UNCHANGED ledgerVars /\ BookInv' /\ BookGrows)
<1>1. CASE BrokerNext
  BY <1>1, BrokerStep
<1>2. ASSUME NEW p \in Processes, SubmitTransmit(p)
      PROVE  UNCHANGED ledgerVars /\ BookInv' /\ BookGrows
  BY <1>2, TransmitBook DEF SubmitTransmit
<1>3. ASSUME NEW p \in Processes, SubmitFails(p) \/ CancelSend(p)
      PROVE  UNCHANGED book \/ (UNCHANGED ledgerVars /\ BookInv' /\ BookGrows)
  <2>1. /\ UNCHANGED ledgerVars /\ call[p].order \in Orders
        /\ UNCHANGED book \/ book' = [book EXCEPT ![call[p].order] = CancelAsked(call[p].order)]
    BY <1>3 DEF SubmitFails, CancelSend, At, SubmissionInv, CallInv, CallFits
  <2> QED BY <2>1, CancelAskedMoves DEF ledgerVars
<1>4. ASSUME NEW p \in Processes,
             \/ \E o \in Orders : SubmitPersist(p, o) \/ OperatorCancel(p, o) \/ ExpireRead(p, o)
             \/ SubmitGate(p) \/ SubmitRejectedByRisk(p) \/ SubmitAuthorized(p) \/ SubmitGivesUp(p)
             \/ SubmitClaim(p) \/ SubmitRefused(p) \/ SubmitAcknowledged(p)
             \/ MarkUnknown(p) \/ ApplyAnswer(p)
      PROVE  UNCHANGED book
  BY <1>4 DEF SubmitPersist, OperatorCancel, ExpireRead, SubmitGate, SubmitRejectedByRisk,
              SubmitAuthorized, SubmitGivesUp, SubmitClaim, SubmitRefused, SubmitAcknowledged,
              MarkUnknown, ApplyAnswer, brokerVars
<1>5. ASSUME NEW p \in Processes,
             \/ CancelGate(p) \/ CancelClaim(p) \/ CancelAcknowledged(p) \/ CancelFails(p)
             \/ ExpireAfterCancel(p) \/ ExpireIntent(p) \/ ExpireByCancel(p)
      PROVE  UNCHANGED book
  BY <1>5 DEF CancelGate, CancelClaim, CancelAcknowledged, CancelFails, ExpireAfterCancel,
              ExpireIntent, ExpireByCancel, brokerVars
<1>6. ASSUME NEW p \in Processes,
             \/ Deliver(p) \/ ReconcileReadOrders(p) \/ ReconcileSteps(p)
             \/ Start(p) \/ SupervisorDemotes(p) \/ Crash(p)
      PROVE  UNCHANGED book
  BY <1>6 DEF Deliver, ReconcileReadOrders, ReconcileSteps, ReconcileOrder, ReconcileExecution,
              ReconcileReadExecutions, ReconcileReadFails, ReconcileFinish, Start,
              SupervisorDemotes, Crash, brokerVars
<1>7. CASE LeaseExpires \/ UNCHANGED vars
  BY <1>7 DEF LeaseExpires, vars, brokerVars
<1> QED BY <1>1, <1>2, <1>3, <1>4, <1>5, <1>6, <1>7
        DEF SubmissionNext, SubmitSteps, CancelSteps

\* Whatever is read, forgotten, delivered late or asked for twice.
LEMMA StepSubmissionInv ==
    ASSUME SubmissionInv, [SubmissionNext]_vars
    PROVE  SubmissionInv' /\ [Next]_ledgerVars
<1>1. Grown /\ [Next]_ledgerVars
  BY StepUse, StepBook, LedgerKept DEF Grown
<1>2. ASSUME CallsKept, NoSender, ScansKept, InboxKept, HeardKept, SnapshotsKept
      PROVE  SubmissionInv'
  BY <1>1, <1>2, SendersStay, PartsStay
<1>3. ASSUME BrokerNext
      PROVE  SubmissionInv'
  BY <1>2, <1>3, BrokerStep, Untouched DEF NoSender
<1>4. ASSUME LeaseExpires \/ UNCHANGED vars
      PROVE  SubmissionInv'
  <2>1. UNCHANGED <<call, due, inbox, heard, recon, book>>
    BY <1>4 DEF LeaseExpires, vars, processVars, brokerVars
  <2> QED BY <1>2, <2>1, Untouched
<1>5. ASSUME NEW p \in Processes, Start(p) \/ SupervisorDemotes(p)
      PROVE  SubmissionInv'
  <2>1. UNCHANGED <<call, due, inbox, heard, recon, book>>
    BY <1>5 DEF Start, SupervisorDemotes, brokerVars
  <2> QED BY <1>2, <2>1, Untouched
<1>6. ASSUME NEW p \in Processes, Crash(p)
      PROVE  SubmissionInv'
  BY <1>1, <1>2, <1>6, CrashMoves
<1>7. ASSUME NEW p \in Processes, Deliver(p)
      PROVE  SubmissionInv'
  BY <1>1, <1>2, <1>7, DeliverMoves, Untouched
<1>8. ASSUME NEW p \in Processes, ReconcileReadOrders(p) \/ ReconcileSteps(p)
      PROVE  SubmissionInv'
  BY <1>1, <1>2, <1>8, ReconcileMoves, Untouched
<1>9. ASSUME NEW p \in Processes,
             \/ \E o \in Orders : SubmitPersist(p, o) \/ OperatorCancel(p, o)
             \/ ExpireByCancel(p)
      PROVE  SubmissionInv'
  BY <1>1, <1>2, <1>9, CallBegins, Untouched
<1>10. ASSUME NEW p \in Processes, ExpireIntent(p) \/ \E o \in Orders : ExpireRead(p, o)
       PROVE  SubmissionInv'
  BY <1>1, <1>2, <1>10, ScanMoves, Untouched
<1>11. ASSUME NEW p \in Processes, SubmitClaim(p)
       PROVE  SubmissionInv'
  BY <1>1, <1>11, ClaimMoves, Untouched, PartsStay
<1>12. ASSUME NEW p \in Processes, SubmitTransmit(p)
       PROVE  SubmissionInv'
  BY <1>1, <1>12, TransmitMoves, Untouched, PartsStay
<1>13. ASSUME NEW p \in Processes,
              \/ SubmitGate(p) \/ SubmitRejectedByRisk(p) \/ SubmitAuthorized(p)
              \/ SubmitGivesUp(p) \/ SubmitRefused(p) \/ SubmitAcknowledged(p)
              \/ SubmitFails(p) \/ MarkUnknown(p) \/ ApplyAnswer(p)
              \/ CancelSteps(p)
       PROVE  SubmissionInv'
  <2>1. CallGoes(p) /\ UNCHANGED <<due, inbox, heard, recon>>
    BY <1>13, SubmitMoves, CancelMoves
  <2>2. \A o \in Orders : book'[o].sent = book[o].sent
    <3>1. CASE SubmitFails(p) \/ CancelSend(p)
      <4>1. /\ UNCHANGED ledgerVars /\ call[p].order \in Orders
            /\ \/ UNCHANGED book
               \/ book' = [book EXCEPT ![call[p].order] = CancelAsked(call[p].order)]
        BY <3>1 DEF SubmitFails, CancelSend, At, SubmissionInv, CallInv, CallFits
      <4> QED BY <4>1, CancelAskedMoves DEF ledgerVars
    <3>2. CASE ~(SubmitFails(p) \/ CancelSend(p))
      <4>1. UNCHANGED book
        BY <1>13, <3>2 DEF SubmitGate, SubmitRejectedByRisk, SubmitAuthorized, SubmitGivesUp,
              SubmitRefused, SubmitAcknowledged, MarkUnknown, ApplyAnswer, CancelSteps,
              CancelGate, CancelClaim, CancelAcknowledged, CancelFails, ExpireAfterCancel,
              brokerVars
      <4> QED BY <4>1
    <3> QED BY <3>1, <3>2
  <2>3. CallsKept /\ NoSender
    BY <1>1, <2>1, <2>2, CallGoesOn
  <2> QED BY <1>2, <2>1, <2>3, Untouched
<1>14. SubmissionInv'
  BY <1>3, <1>4, <1>5, <1>6, <1>7, <1>8, <1>9, <1>10, <1>11, <1>12, <1>13
     DEF SubmissionNext, SubmitSteps
<1> QED BY <1>1, <1>14

\* Nothing has happened yet.
LEMMA InitSubmissionInv ==
    ASSUME SubmissionInit
    PROVE  SubmissionInv
<1>1. IInv
  BY InitIInv DEF SubmissionInit
<1>2. \A o \in Orders : /\ rows[o].state = "ABSENT" /\ ~rows[o].brokerId /\ rows[o].filled = 0
                        /\ rows[o].terms = InitialTerms[o] /\ rows[o].pending = NoTerms
                        /\ claims[o] = 0 /\ executed[o] = 0
                        /\ book[o] = NotPlaced
  BY DEF SubmissionInit, Init
<1>3. \A o \in Orders, n \in Roots : executions[o][n] = NoExecution
  BY DEF SubmissionInit, Init
<1>4. NotPlaced \in BookEntry /\ NotPlaced.sent = 0 /\ NotPlaced.filled = 0
      /\ NotPlaced.state = "none"
  BY DEF NotPlaced, BookEntry
<1>5. BookInv
  <2>1. \A o \in Orders : Size(o) \in Nat \ {0}
    BY SizeType
  <2> QED BY <1>2, <1>4, <2>1 DEF SubmissionInit, BookInv
<1>6. \A o \in Orders : StoreIsTrue(o)
  <2>1. \A o \in Orders, n \in Roots : Seen(o, n) = {} /\ executions[o][n].live = 0
    BY <1>3 DEF Seen, NoExecution
  <2>2. \A o \in Orders : Stored(o) = {}
    BY <2>1 DEF Stored
  <2> QED BY <1>2, <2>1, <2>2, FS_EmptySet DEF StoreIsTrue
<1>7. RowsAreTrue /\ IdentitiesAreTrue
  BY <1>2, <1>4, <1>6 DEF RowsAreTrue, RowIsTrue, IdentitiesAreTrue
<1>8. CallInv /\ SendersAlone
  <2>1. /\ IdleCall.step = "idle"
        /\ DOMAIN IdleCall = {"step", "order", "seen", "answer", "ttl", "revision"}
    BY DEF IdleCall
  <2> QED BY <2>1 DEF SubmissionInit, CallInv, CallFits, SendersAlone, At, CallSteps, BeforeClaim
<1>9. ScanInv /\ HeardInv /\ SnapshotInv
  BY DEF SubmissionInit, ScanInv, HeardInv, SnapshotInv
<1>10. InboxInv
  BY DEF SubmissionInit, InboxInv
<1> QED BY <1>1, <1>5, <1>7, <1>8, <1>9, <1>10 DEF SubmissionInv

\* The inductive invariant of the processes, the ledger and the broker holds always.
THEOREM SubmissionInvariance == SubmissionSpec => []SubmissionInv
<1> QED BY InitSubmissionInv, StepSubmissionInv, PTL DEF SubmissionSpec

\* The processes use the ledger as OrderLedger says: what is proved of the ledger for any
\* callers holds of these.
THEOREM SubmissionUsesLedger == SubmissionSpec => Spec
<1>1. SubmissionInit => Init
  BY DEF SubmissionInit
<1> QED BY <1>1, SubmissionInvariance, StepSubmissionInv, PTL DEF SubmissionSpec, Spec

\* placeOrder is called at most once for an order, after the claim is durable: by the
\* inductive invariant, no process is about to call it for an order that was transmitted.
THEOREM TransmittedAtMostOnce == SubmissionSpec => []AtMostOneTransmission
<1>1. SubmissionInv => AtMostOneTransmission
  BY DEF SubmissionInv, BookInv, IInv, ClaimedOnce, AtMostOneTransmission
<1> QED BY <1>1, SubmissionInvariance, PTL

\* The ledger reports FILLED, CANCELLED and REJECTED only when the broker says so, and an
\* order that risk has rejected never reached the broker.
THEOREM OutcomesAreNeverGuessed == SubmissionSpec => []OutcomesAreTrue
<1>1. ASSUME SubmissionInv, NEW o \in Orders, rows[o].state = "RISK_REJECTED"
      PROVE  book[o].sent = 0
  <2>1. claims[o] = 0
    BY <1>1 DEF SubmissionInv, IInv, ClaimedOnce
  <2>2. book[o].sent \in Nat /\ book[o].sent <= claims[o]
    BY <1>1 DEF SubmissionInv, BookInv, BookEntry
  <2> QED BY <2>1, <2>2
<1>2. SubmissionInv => OutcomesAreTrue
  BY <1>1 DEF SubmissionInv, RowsAreTrue, RowIsTrue, OutcomesAreTrue
<1> QED BY <1>2, SubmissionInvariance, PTL

\* The ledger never counts more fills than the broker has made: the executions it has stored
\* are different ones of the broker, and every status that it applies was true at some time.
THEOREM FillsAreNeverOverstated == SubmissionSpec => []FillsNeverOverstated
<1>1. ASSUME SubmissionInv, NEW o \in Orders
      PROVE  rows[o].filled <= book[o].filled /\ executed[o] <= book[o].filled
  <2>1. book[o].filled \in Nat
    BY <1>1 DEF SubmissionInv, BookInv, BookEntry
  <2>2. /\ rows[o].filled \in 0..book[o].filled
        /\ Stored(o) \subseteq 1..book[o].filled
        /\ executed[o] = Cardinality(Stored(o))
    BY <1>1 DEF SubmissionInv, RowsAreTrue, RowIsTrue, StoreIsTrue
  <2>3. IsFiniteSet(1..book[o].filled) /\ Cardinality(1..book[o].filled) = book[o].filled
    BY <2>1, IntervalSize
  <2>4. Cardinality(Stored(o)) <= book[o].filled
    BY <2>2, <2>3, FS_Subset
  <2> QED BY <2>1, <2>2, <2>4
<1>2. SubmissionInv => FillsNeverOverstated
  BY <1>1 DEF FillsNeverOverstated
<1> QED BY <1>2, SubmissionInvariance, PTL
=============================================================================
