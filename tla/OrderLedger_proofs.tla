------------------------- MODULE OrderLedger_proofs -------------------------
(***************************************************************************)
(* Proofs about the order ledger, for every set of orders, groups, terms   *)
(* and executions.                                                         *)
(***************************************************************************)
EXTENDS OrderLedger, TLAPS

-----------------------------------------------------------------------------
(* What the operators on one row return.                                   *)

\* The state read from a broker status is a life-cycle state that only a transmitted
\* order can have.
LEMMA BrokerStateIsKnown ==
    ASSUME NEW st
    PROVE  LifecycleFromBrokerStatus(st) \in
             WORKING_STATES \cup {"FILLED", "CANCELLED", "REJECTED"}
BY DEF LifecycleFromBrokerStatus, WORKING_STATES

\* A new state and the next revision keep the type of the row and its other fields.
LEMMA RevisedRow ==
    ASSUME NEW row \in Row, NEW s \in RowState
    PROVE  /\ Revised(row, s) \in Row
           /\ Revised(row, s).state = s
           /\ Revised(row, s).revision = row.revision + 1
           /\ Revised(row, s).terms = row.terms
           /\ Revised(row, s).pending = row.pending
<1>1. row.revision + 1 \in Nat
  BY DEF Row
<1>2. Revised(row, s) \in Row
  BY <1>1 DEF Revised, Row
<1>3. Revised(row, s).state = s /\ Revised(row, s).revision = row.revision + 1
  BY DEF Revised, Row
<1>4. Revised(row, s).terms = row.terms /\ Revised(row, s).pending = row.pending
  BY DEF Revised, Row
<1> QED BY <1>2, <1>3, <1>4

\* Settling the pending replacement of a row keeps its type and leaves its state alone.
LEMMA SettledRow ==
    ASSUME NEW row \in Row, NEW st, NEW settle \in BOOLEAN
    PROVE  /\ PendingSettled(row, st, settle) \in Row
           /\ PendingSettled(row, st, settle).state = row.state
           /\ PendingSettled(row, st, settle).revision = row.revision
           /\ PendingSettled(row, st, settle).terms # row.terms =>
                /\ PendingSettled(row, st, settle).terms = row.pending
                /\ PendingSettled(row, st, settle).pending = NoTerms
<1>1. ASSUME row.pending # NoTerms
      PROVE  AtLeastZero(TermQuantity[row.pending] - row.filled) \in Nat
  <2>1. row.pending \in Terms /\ row.filled \in Int
    BY <1>1 DEF Row
  <2>2. TermQuantity[row.pending] \in Nat
    BY <2>1, TermsAssumption
  <2> QED BY <2>1, <2>2 DEF AtLeastZero
<1>2. Plain("terms mismatch") \in Remark /\ Plain("prior terms confirmed") \in Remark
  BY DEF Plain, Remark
<1> QED BY <1>1, <1>2, TermsAssumption DEF PendingSettled, Promoted, Row

\* Applying a status keeps the type of the row; a terminal state stays, and a state that
\* was not terminal becomes the target, UNKNOWN or stays.
LEMMA RowFromStatusTyped ==
    ASSUME NEW row \in Row, NEW target \in OrderLifecycleState,
           NEW st \in BrokerOrderStatus, NEW settle \in BOOLEAN
    PROVE  /\ RowFromStatus(row, target, st, settle) \in Row
           /\ RowFromStatus(row, target, st, settle).state \in {row.state, target, "UNKNOWN"}
           /\ row.state \in TERMINAL_ORDER_STATES =>
                RowFromStatus(row, target, st, settle).state = row.state
           /\ RowFromStatus(row, target, st, settle).revision = row.revision
           /\ RowFromStatus(row, target, st, settle).terms # row.terms =>
                /\ RowFromStatus(row, target, st, settle).terms = row.pending
                /\ RowFromStatus(row, target, st, settle).pending = NoTerms
<1> DEFINE settled == PendingSettled(row, st, settle)
           mismatch == TermsMismatch(row, st, settle)
           applied == StateApplied(settled, target, mismatch)
<1>1. /\ settled \in Row
      /\ settled.state = row.state
      /\ settled.revision = row.revision
      /\ settled.terms # row.terms => settled.terms = row.pending /\ settled.pending = NoTerms
  BY SettledRow
<1>2. settled.state \in TERMINAL_ORDER_STATES =>
        <<"terminal conflict", settled.state, target>> \in Remark
  BY DEF Remark, OrderLifecycleState
<1>3. /\ applied \in Row
      /\ applied.state \in {row.state, target, "UNKNOWN"}
      /\ row.state \in TERMINAL_ORDER_STATES => applied.state = row.state
      /\ applied.revision = row.revision
      /\ applied.terms = settled.terms
      /\ applied.pending = settled.pending
  <2> HIDE DEF settled, mismatch
  <2>1. "UNKNOWN" \in RowState /\ target \in RowState
    BY DEF RowState, OrderLifecycleState, WORKING_STATES
  <2>2. CASE mismatch
    BY <1>1, <2>1, <2>2 DEF StateApplied, Row
  <2>3. CASE ~mismatch
    BY <1>1, <1>2, <2>1, <2>3 DEF StateApplied, Row, KeepsState
  <2> QED BY <2>2, <2>3
<1>4. st.filled \in Int /\ st.remaining \in Nat
  BY DEF BrokerOrderStatus
<1>5. RowFromStatus(row, target, st, settle) = BrokerFieldsApplied(applied, target, st)
  BY DEF RowFromStatus
<1> HIDE DEF applied, settled, mismatch
<1> QED BY <1>1, <1>3, <1>4, <1>5 DEF BrokerFieldsApplied, Row

\* An execution keeps the type of the row, changes its state to FILLED or PARTIAL_FILL
\* only, and the latter only if the state was not terminal.
LEMMA RowFromExecutionTyped ==
    ASSUME NEW row \in Row, NEW total \in Int, NEW corrects \in BOOLEAN
    PROVE  /\ RowFromExecution(row, total, corrects) \in Row
           /\ RowFromExecution(row, total, corrects).state
                \in {row.state, "FILLED", "PARTIAL_FILL"}
           /\ row.state \in TERMINAL_ORDER_STATES =>
                RowFromExecution(row, total, corrects).state \in {row.state, "FILLED"}
           /\ RowFromExecution(row, total, corrects).revision = row.revision + 1
           /\ RowFromExecution(row, total, corrects).terms = row.terms
<1> DEFINE q == TermQuantity[row.terms]
           counted == corrects \/ total >= row.filled
           filled == IF counted THEN Lesser(q, total) ELSE row.filled
           remaining == IF counted THEN AtLeastZero(q - filled) ELSE row.remaining
           state == IF remaining = 0 /\ filled > 0 THEN "FILLED"
                    ELSE IF filled > 0 /\ row.state \notin TERMINAL_ORDER_STATES
                    THEN "PARTIAL_FILL"
                    ELSE row.state
<1>1. row.filled \in Int /\ row.remaining \in Nat /\ row.revision \in Nat /\ row.terms \in Terms
  BY DEF Row
<1>2. q \in Nat
  BY <1>1, TermsAssumption
<1>3. filled \in Int
  BY <1>1, <1>2 DEF Lesser
<1>4. remaining \in Nat
  BY <1>1, <1>2, <1>3 DEF AtLeastZero
<1>5. state \in RowState
  BY DEF RowState, OrderLifecycleState, WORKING_STATES, TERMINAL_ORDER_STATES, Row
<1>6. RowFromExecution(row, total, corrects) =
        [Revised(row, state) EXCEPT !.filled = filled, !.remaining = remaining]
  BY DEF RowFromExecution
<1>7. state \in {row.state, "FILLED", "PARTIAL_FILL"}
  OBVIOUS
<1>8. row.state \in TERMINAL_ORDER_STATES => state \in {row.state, "FILLED"}
  OBVIOUS
<1> HIDE DEF q, counted, filled, remaining, state
<1>9. /\ Revised(row, state) \in Row
      /\ Revised(row, state).state = state
      /\ Revised(row, state).revision = row.revision + 1
      /\ Revised(row, state).terms = row.terms
  BY <1>5, RevisedRow
<1>10. /\ RowFromExecution(row, total, corrects) \in Row
       /\ RowFromExecution(row, total, corrects).state = state
       /\ RowFromExecution(row, total, corrects).revision = row.revision + 1
       /\ RowFromExecution(row, total, corrects).terms = row.terms
  <2> DEFINE revised == Revised(row, state)
  <2>1. RowFromExecution(row, total, corrects) =
          [revised EXCEPT !.filled = filled, !.remaining = remaining]
    BY <1>6
  <2>2. /\ revised \in Row
        /\ revised.state = state
        /\ revised.revision = row.revision + 1
        /\ revised.terms = row.terms
    BY <1>9
  <2> HIDE DEF revised
  <2> QED BY <1>3, <1>4, <2>1, <2>2 DEF Row
<1> QED BY <1>7, <1>8, <1>10
-----------------------------------------------------------------------------
(* The inductive invariant, and the three shapes a step of the ledger can  *)
(* have.                                                                   *)

\* The type of the rows and what their states say about the claims: neither is inductive
\* alone, because a status is applied only to a claimed order; and a row starts at its first
\* revision because it had none.
IInv ==
    /\ TypeOK
    /\ ClaimedOnce
    /\ \A o \in Orders : rows[o].state = "ABSENT" => rows[o].revision = 0

\* What one operation may make of one row.
LegalChange(before, after) ==
    /\ after \in Row
    /\ after = before \/ after.revision = before.revision + 1
    /\ after.terms # before.terms =>
         after.terms = before.pending /\ after.pending = NoTerms
    /\ \/ before.state = "ABSENT" /\ after.state = "INTENT_PERSISTED"
       \/ /\ before.state \in PRE_SUBMISSION_STATES
          /\ after.state \in PRE_SUBMISSION_STATES \cup {"RISK_REJECTED", "EXPIRED"}
       \/ /\ before.state \in WORKING_STATES
          /\ after.state \in WORKING_STATES \cup (TERMINAL_ORDER_STATES \ {"RISK_REJECTED"})
       \/ /\ before.state \in TERMINAL_ORDER_STATES
          /\ \/ after.state = before.state
             \/ before.state = "CANCELLED" /\ after.state = "EXPIRED"
             \/ before.state # "RISK_REJECTED" /\ after.state = "FILLED"

\* A step that changes one row and nothing else: it does not fill a terminal row.
RowStep(o, after) ==
    /\ ChangeRow(o, after)
    /\ LegalChange(rows[o], after)
    /\ rows[o].state \in TERMINAL_ORDER_STATES /\ after.state = "FILLED" =>
         rows[o].state = "FILLED"

\* A step that stores an execution and counts it in the row.
ExecutionStep(o, after) ==
    /\ rows' = [rows EXCEPT ![o] = after]
    /\ LegalChange(rows[o], after)
    /\ claims[o] > 0
    /\ executions' \in [Orders -> [Roots -> ExecutionEntry]]
    /\ executions'[o] # executions[o]
    /\ executed' \in [Orders -> Int]
    /\ UNCHANGED claims

\* A step that stores an execution once more and leaves the row alone.
RepeatStep ==
    /\ executions' \in [Orders -> [Roots -> ExecutionEntry]]
    /\ executed' \in [Orders -> Int]
    /\ UNCHANGED <<rows, claims>>

\* A step that grants the transmission of a batch of orders.
ClaimStep(batch) ==
    /\ \A o \in batch : rows[o].state = "AUTHORIZED"
    /\ rows' = [o \in Orders |-> IF o \in batch THEN Revised(rows[o], "SUBMITTING")
                                                 ELSE rows[o]]
    /\ claims' = [o \in Orders |-> IF o \in batch THEN claims[o] + 1 ELSE claims[o]]
    /\ UNCHANGED <<executions, executed>>

\* The initial state satisfies the invariant.
LEMMA InitIInv == Init => IInv
<1> SUFFICES ASSUME Init PROVE IInv
  OBVIOUS
<1>1. Plain("none") \in Remark
  BY DEF Plain, Remark
<1>2. \A o \in Orders : InitialTerms[o] \in Terms
  BY LedgerAssumption
<1>3. TypeOK
  BY <1>1, <1>2 DEF Init, TypeOK, Row, RowState, ExecutionEntry, NoExecution
<1>4. ClaimedOnce
  BY DEF Init, ClaimedOnce, WORKING_STATES
<1>5. \A o \in Orders : rows[o].revision = 0
  BY DEF Init
<1> QED BY <1>3, <1>4, <1>5 DEF IInv

\* A broker status is applied to a claimed order only: its row is working or terminal.
LEMMA ClaimedRow ==
    ASSUME IInv, NEW o \in Orders, AtBroker(o)
    PROVE  rows[o].state \in WORKING_STATES \cup (TERMINAL_ORDER_STATES \ {"RISK_REJECTED"})
BY DEF IInv, TypeOK, ClaimedOnce, AtBroker, Row, RowState, OrderLifecycleState

\* Applying a status to a claimed order is a legal change of its row.
LEMMA StatusStep ==
    ASSUME IInv, NEW o \in Orders, NEW st \in BrokerOrderStatus, NEW settle \in BOOLEAN,
           NEW target \in WORKING_STATES \cup {"FILLED", "CANCELLED", "REJECTED", "VALIDATED"},
           ApplyReconciledStatus(o, target, st, settle)
    PROVE  \E after : RowStep(o, after)
<1> DEFINE written == RowFromStatus(rows[o], target, st, settle)
           after == RevisedIfChanged(rows[o], written)
<1>1. rows[o] \in Row /\ rows[o].revision \in Nat
  BY DEF IInv, TypeOK, Row
<1>2. target \in OrderLifecycleState
  BY DEF OrderLifecycleState, TERMINAL_ORDER_STATES
<1>3. rows[o].state \in WORKING_STATES \cup (TERMINAL_ORDER_STATES \ {"RISK_REJECTED"})
  BY ClaimedRow DEF ApplyReconciledStatus
<1>4. /\ written \in Row
      /\ written.state \in {rows[o].state, target, "UNKNOWN"}
      /\ rows[o].state \in TERMINAL_ORDER_STATES => written.state = rows[o].state
      /\ written.revision = rows[o].revision
      /\ written.terms # rows[o].terms =>
           written.terms = rows[o].pending /\ written.pending = NoTerms
  BY <1>1, <1>2, RowFromStatusTyped
<1> HIDE DEF written
<1>5. /\ after \in Row
      /\ after.state = written.state
      /\ after.terms = written.terms
      /\ after.pending = written.pending
      /\ after = rows[o] \/ after.revision = rows[o].revision + 1
  BY <1>1, <1>4 DEF RevisedIfChanged, Row
<1>6. ChangeRow(o, after)
  BY DEF ApplyReconciledStatus, written
<1> HIDE DEF after
<1>7. LegalChange(rows[o], after)
  BY <1>3, <1>4, <1>5 DEF LegalChange, WORKING_STATES, TERMINAL_ORDER_STATES
<1>8. rows[o].state \in TERMINAL_ORDER_STATES => after.state = rows[o].state
  BY <1>4, <1>5
<1> QED BY <1>6, <1>7, <1>8 DEF RowStep
\* Storing an execution of a claimed order is a legal change of its row.
LEMMA ExecutionRow ==
    ASSUME IInv, NEW o \in Orders, NEW root \in Roots, NEW version \in Versions,
           NEW quantity \in Nat \ {0}, UpsertExecution(o, root, version, quantity)
    PROVE  \E after : ExecutionStep(o, after)
<1> DEFINE total == ExecutedAfter(o, root, quantity)
           corrects == Seen(o, root) # {}
           after == RowFromExecution(rows[o], total, corrects)
<1>1. rows[o] \in Row
  BY DEF IInv, TypeOK
<1>2. executions[o][root].live \in Nat /\ executed[o] \in Int
  BY DEF IInv, TypeOK, ExecutionEntry
<1>3. total \in Int
  BY <1>2 DEF ExecutedAfter
<1>4. rows[o].state \in WORKING_STATES \cup (TERMINAL_ORDER_STATES \ {"RISK_REJECTED"})
  BY ClaimedRow DEF UpsertExecution
<1>5. /\ after \in Row
      /\ after.state \in {rows[o].state, "FILLED", "PARTIAL_FILL"}
      /\ rows[o].state \in TERMINAL_ORDER_STATES => after.state \in {rows[o].state, "FILLED"}
      /\ after.revision = rows[o].revision + 1
      /\ after.terms = rows[o].terms
  BY <1>1, <1>3, RowFromExecutionTyped
<1>6. /\ rows' = [rows EXCEPT ![o] = after]
      /\ executed' = [executed EXCEPT ![o] = total]
      /\ claims[o] > 0
      /\ UNCHANGED claims
  BY DEF UpsertExecution, AtBroker
<1>7. executed' \in [Orders -> Int]
  BY <1>3, <1>6 DEF IInv, TypeOK
<1>8. /\ executions' \in [Orders -> [Roots -> ExecutionEntry]]
      /\ executions'[o] # executions[o]
  <2> DEFINE before == executions[o][root]
             entry == [quantity |-> [before.quantity EXCEPT ![version] = quantity],
                       current |-> {version}, live |-> quantity]
  <2>1. executions' = [executions EXCEPT ![o] = [executions[o] EXCEPT ![root] = entry]]
    BY DEF UpsertExecution
  <2>2. executions[o] \in [Roots -> ExecutionEntry] /\ before \in ExecutionEntry
    BY DEF IInv, TypeOK
  <2>3. entry \in ExecutionEntry
    BY <2>2 DEF ExecutionEntry
  <2>4. entry # before
    <3>1. before.quantity[version] = 0
      BY <2>2 DEF UpsertExecution, Seen, ExecutionEntry
    <3>2. entry.quantity[version] = quantity
      BY <2>2 DEF ExecutionEntry
    <3> QED BY <3>1, <3>2
  <2> HIDE DEF entry
  <2> QED BY <2>1, <2>2, <2>3, <2>4 DEF IInv, TypeOK
<1> HIDE DEF after, total, corrects
<1>9. LegalChange(rows[o], after)
  BY <1>4, <1>5 DEF LegalChange, WORKING_STATES, TERMINAL_ORDER_STATES
<1> QED BY <1>6, <1>7, <1>8, <1>9 DEF ExecutionStep

\* Storing an execution once more keeps the types and the row.
LEMMA RepeatedExecution ==
    ASSUME IInv, NEW o \in Orders, NEW root \in Roots, NEW version \in Versions,
           RepeatExecution(o, root, version)
    PROVE  RepeatStep
<1> DEFINE before == executions[o][root]
           entry == [quantity |-> before.quantity,
                     current |-> before.current \cup {version},
                     live |-> before.live + before.quantity[version]]
<1>1. before \in ExecutionEntry /\ executions[o] \in [Roots -> ExecutionEntry]
  BY DEF IInv, TypeOK
<1>2. entry \in ExecutionEntry /\ before.quantity[version] \in Nat
  <2>1. /\ before.quantity \in [Versions -> Nat]
        /\ before.current \in SUBSET Versions
        /\ before.live \in Nat
    BY <1>1 DEF ExecutionEntry
  <2>2. before.quantity[version] \in Nat
    BY <2>1
  <2>3. before.live + before.quantity[version] \in Nat
    BY <2>1, <2>2
  <2>4. before.current \cup {version} \in SUBSET Versions
    BY <2>1
  <2> QED BY <2>1, <2>2, <2>3, <2>4 DEF ExecutionEntry
<1>3. executions' = [executions EXCEPT ![o] = [executions[o] EXCEPT ![root] = entry]]
  BY <1>1 DEF RepeatExecution, IInv, TypeOK, ExecutionEntry
<1>4. executed' = [executed EXCEPT ![o] = @ + before.quantity[version]]
  BY DEF RepeatExecution
<1> HIDE DEF entry
<1>5. executions' \in [Orders -> [Roots -> ExecutionEntry]]
  BY <1>1, <1>2, <1>3 DEF IInv, TypeOK
<1>6. executed' \in [Orders -> Int]
  BY <1>2, <1>4 DEF IInv, TypeOK
<1> QED BY <1>5, <1>6 DEF RepeatStep, RepeatExecution

\* A transition asked for by a caller is a legal change of the row.
LEMMA TransitionStep ==
    ASSUME IInv, NEW o \in Orders, NEW target \in CallerTargets(o), Transition(o, target)
    PROVE  \E after : RowStep(o, after)
<1> DEFINE plain == Revised(rows[o], target)
           after == IF target = "AUTHORIZED" THEN plain
                    ELSE [plain EXCEPT !.remark = Plain("reason")]
<1>1. rows[o] \in Row /\ rows[o].state # "ABSENT"
  BY DEF IInv, TypeOK, Transition, Exists
<1>2. target \in {"RISK_REJECTED", "AUTHORIZED", "EXPIRED", "UNKNOWN", "CANCELLED", "REJECTED"}
  BY DEF CallerTargets
<1>3. Plain("reason") \in Remark /\ target \in RowState
  BY <1>2 DEF Plain, Remark, RowState, OrderLifecycleState, PRE_SUBMISSION_STATES,
              WORKING_STATES, TERMINAL_ORDER_STATES
<1>4. /\ plain \in Row
      /\ plain.state = target
      /\ plain.revision = rows[o].revision + 1
      /\ plain.terms = rows[o].terms
  BY <1>1, <1>3, RevisedRow
<1>5. ChangeRow(o, after)
  BY DEF Transition
<1>6. /\ after \in Row
      /\ after.state = target
      /\ after.revision = rows[o].revision + 1
      /\ after.terms = rows[o].terms
  <2> HIDE DEF plain
  <2> QED BY <1>3, <1>4 DEF Row
<1>7. MayTransition(rows[o].state, target)
  BY DEF Transition
<1>8. rows[o].state \in PRE_SUBMISSION_STATES => target \notin {"UNKNOWN", "CANCELLED", "REJECTED"}
  BY <1>2 DEF CallerTargets, AtBroker, IInv, ClaimedOnce
<1> HIDE DEF after, plain
<1>9. \/ /\ rows[o].state \in PRE_SUBMISSION_STATES
         /\ target \in PRE_SUBMISSION_STATES \cup {"RISK_REJECTED", "EXPIRED"}
      \/ /\ rows[o].state \in WORKING_STATES
         /\ target \in WORKING_STATES \cup (TERMINAL_ORDER_STATES \ {"RISK_REJECTED"})
      \/ rows[o].state \in TERMINAL_ORDER_STATES /\ target = rows[o].state
  <2>1. CASE rows[o].state \in PRE_SUBMISSION_STATES
    BY <1>2, <1>8, <2>1 DEF PRE_SUBMISSION_STATES
  <2>2. CASE rows[o].state \in WORKING_STATES
    BY <1>2, <1>7, <2>2 DEF MayTransition, ALLOWED_TRANSITIONS, WORKING_STATES,
                            TERMINAL_ORDER_STATES
  <2>3. CASE rows[o].state \in TERMINAL_ORDER_STATES
    BY <1>7, <2>3 DEF MayTransition, ALLOWED_TRANSITIONS, TERMINAL_ORDER_STATES
  <2> QED BY <1>1, <2>1, <2>2, <2>3 DEF Row, RowState, OrderLifecycleState
<1>10. LegalChange(rows[o], after)
  BY <1>6, <1>9 DEF LegalChange
<1>11. rows[o].state \in TERMINAL_ORDER_STATES => after.state = rows[o].state
  BY <1>6, <1>9 DEF WORKING_STATES, TERMINAL_ORDER_STATES, PRE_SUBMISSION_STATES
<1> QED BY <1>5, <1>10, <1>11 DEF RowStep

\* The other operations of the execution layer on one row are legal changes.
LEMMA OperationStep ==
    ASSUME IInv, NEW o \in Orders,
           \/ CreateIntent(o)
           \/ \E terms \in Terms : ClaimReplacement(o, terms)
           \/ ClaimCancellation(o)
           \/ MarkExpiredAfterCancel(o)
    PROVE  \E after : RowStep(o, after)
<1>1. rows[o] \in Row
  BY DEF IInv, TypeOK
<1>2. {"INTENT_PERSISTED", "REPLACE_PENDING", "CANCEL_PENDING", "EXPIRED"} \subseteq RowState
  BY DEF RowState, OrderLifecycleState, PRE_SUBMISSION_STATES, WORKING_STATES,
         TERMINAL_ORDER_STATES
<1>3. CASE CreateIntent(o)
  <2> DEFINE after == [rows[o] EXCEPT !.state = "INTENT_PERSISTED",
                                      !.remaining = TermQuantity[rows[o].terms],
                                      !.revision = 1]
  <2>1. TermQuantity[rows[o].terms] \in Nat
    BY <1>1, TermsAssumption DEF Row
  <2>2. /\ after \in Row
        /\ after.state = "INTENT_PERSISTED"
        /\ after.terms = rows[o].terms
        /\ after.revision = 1
    BY <1>1, <1>2, <2>1 DEF Row
  <2>3. rows[o].state = "ABSENT" /\ ChangeRow(o, after)
    BY <1>3 DEF CreateIntent, Exists
  <2>4. rows[o].revision = 0
    BY <2>3 DEF IInv
  <2> HIDE DEF after
  <2>5. LegalChange(rows[o], after)
    BY <2>2, <2>3, <2>4 DEF LegalChange
  <2> QED BY <2>2, <2>3, <2>5 DEF RowStep
<1>4. ASSUME NEW terms \in Terms, ClaimReplacement(o, terms)
      PROVE  \E after : RowStep(o, after)
  <2> DEFINE plain == Revised(rows[o], "REPLACE_PENDING")
             after == [plain EXCEPT !.pending = terms]
  <2>1. /\ plain \in Row
        /\ plain.state = "REPLACE_PENDING"
        /\ plain.revision = rows[o].revision + 1
        /\ plain.terms = rows[o].terms
    BY <1>1, <1>2, RevisedRow
  <2>2. rows[o].state \in WORKING_STATES /\ ChangeRow(o, after)
    BY <1>4 DEF ClaimReplacement, MayReplace, WORKING_STATES
  <2> HIDE DEF plain
  <2>3. /\ after \in Row
        /\ after.state = "REPLACE_PENDING"
        /\ after.revision = rows[o].revision + 1
        /\ after.terms = rows[o].terms
    BY <2>1 DEF Row
  <2> HIDE DEF after
  <2>4. LegalChange(rows[o], after)
    BY <2>2, <2>3 DEF LegalChange, WORKING_STATES
  <2> QED BY <2>2, <2>3, <2>4 DEF RowStep
<1>5. CASE ClaimCancellation(o)
  <2> DEFINE after == Revised(rows[o], "CANCEL_PENDING")
  <2>1. /\ after \in Row
        /\ after.state = "CANCEL_PENDING"
        /\ after.revision = rows[o].revision + 1
        /\ after.terms = rows[o].terms
    BY <1>1, <1>2, RevisedRow
  <2>2. rows[o].state \in WORKING_STATES /\ ChangeRow(o, after)
    BY <1>5 DEF ClaimCancellation, WORKING_STATES
  <2> HIDE DEF after
  <2>3. LegalChange(rows[o], after)
    BY <2>1, <2>2 DEF LegalChange, WORKING_STATES
  <2> QED BY <2>1, <2>2, <2>3 DEF RowStep
<1>6. CASE MarkExpiredAfterCancel(o)
  <2> DEFINE plain == Revised(rows[o], "EXPIRED")
             after == [plain EXCEPT !.remark = Plain("ttl elapsed")]
  <2>1. /\ plain \in Row
        /\ plain.state = "EXPIRED"
        /\ plain.revision = rows[o].revision + 1
        /\ plain.terms = rows[o].terms
    BY <1>1, <1>2, RevisedRow
  <2>2. Plain("ttl elapsed") \in Remark
    BY DEF Plain, Remark
  <2>3. rows[o].state = "CANCELLED" /\ ChangeRow(o, after)
    BY <1>6 DEF MarkExpiredAfterCancel
  <2> HIDE DEF plain
  <2>4. /\ after \in Row
        /\ after.state = "EXPIRED"
        /\ after.revision = rows[o].revision + 1
        /\ after.terms = rows[o].terms
    BY <2>1, <2>2 DEF Row
  <2> HIDE DEF after
  <2>5. LegalChange(rows[o], after)
    BY <2>3, <2>4 DEF LegalChange, TERMINAL_ORDER_STATES
  <2> QED BY <2>3, <2>4, <2>5 DEF RowStep
<1> QED BY <1>3, <1>4, <1>5, <1>6

\* Every step of the ledger changes one row, stores one execution or claims one batch.
LEMMA StepShape ==
    ASSUME IInv, Next
    PROVE  \/ \E o \in Orders : \E after : RowStep(o, after) \/ ExecutionStep(o, after)
           \/ \E batch \in Batches : ClaimStep(batch)
           \/ RepeatStep
<1>1. ASSUME NEW word \in BrokerWord, NEW terms \in Terms \cup {NoTerms},
             NEW total \in Quantities, NEW filled \in 0..total
      PROVE  StatusOf(word, terms, total, filled) \in BrokerOrderStatus
  <2>1. total \in Nat
    BY TermsAssumption DEF Quantities
  <2> QED BY <2>1 DEF StatusOf, BrokerOrderStatus
<1>2. ASSUME NEW o \in Orders, ReconcileStatus(o)
      PROVE  \E after : RowStep(o, after)
  <2>1. PICK word \in BrokerWord, terms \in Terms \cup {NoTerms}, total \in Quantities :
          \E filled \in 0..total, settle \in BOOLEAN :
            ApplyReconciledStatus(o,
              LifecycleFromBrokerStatus(StatusOf(word, terms, total, filled)),
              StatusOf(word, terms, total, filled), settle)
    BY <1>2 DEF ReconcileStatus
  <2>2. PICK filled \in 0..total, settle \in BOOLEAN :
          ApplyReconciledStatus(o,
            LifecycleFromBrokerStatus(StatusOf(word, terms, total, filled)),
            StatusOf(word, terms, total, filled), settle)
    BY <2>1
  <2> QED BY <1>1, <2>2, BrokerStateIsKnown, StatusStep
<1>3. ASSUME NEW o \in Orders, ValidatePreview(o)
      PROVE  \E after : RowStep(o, after)
  <2>1. PICK word \in BrokerWord, terms \in Terms \cup {NoTerms}, total \in Quantities :
          ApplyReconciledStatus(o, "VALIDATED", StatusOf(word, terms, total, 0), FALSE)
    BY <1>3 DEF ValidatePreview
  <2>2. 0 \in 0..total
    BY TermsAssumption DEF Quantities
  <2> QED BY <1>1, <2>1, <2>2, StatusStep
<1>4. ASSUME NEW o \in Orders, RecordExecution(o)
      PROVE  \E after : ExecutionStep(o, after)
  <2>1. PICK root \in Roots, version \in Versions, total \in Quantities :
          \E quantity \in 1..total : UpsertExecution(o, root, version, quantity)
    BY <1>4 DEF RecordExecution
  <2>2. PICK quantity \in 1..total : UpsertExecution(o, root, version, quantity)
    BY <2>1
  <2>3. quantity \in Nat \ {0}
    BY TermsAssumption DEF Quantities
  <2> QED BY <2>2, <2>3, ExecutionRow
<1>5. ASSUME NEW o \in Orders, ClaimSubmission(o)
      PROVE  \E batch \in Batches : ClaimStep(batch)
  <2>1. {o} \in Batches
    BY <1>5 DEF Batches, ClaimSubmission
  <2>2. rows \in [Orders -> Row] /\ claims \in [Orders -> Nat]
    BY DEF IInv, TypeOK
  <2>3. ClaimStep({o})
    BY <1>5, <2>2 DEF ClaimSubmission, ClaimStep
  <2> QED BY <2>1, <2>3
<1>6. ASSUME NEW g \in Groups, ClaimSubmissionGroup(g)
      PROVE  \E batch \in Batches : ClaimStep(batch)
  <2>1. g \in Batches
    BY <1>6 DEF Batches, ClaimSubmissionGroup
  <2>2. ClaimStep(g)
    BY <1>6 DEF ClaimSubmissionGroup, ClaimStep
  <2> QED BY <2>1, <2>2
<1> QED BY <1>2, <1>3, <1>4, <1>5, <1>6, TransitionStep, OperationStep, RepeatedExecution
        DEF Next
-----------------------------------------------------------------------------
(* The invariant is inductive.                                             *)

\* A legal change of one row preserves the invariant, whatever else stays.
LEMMA LegalChangeIInv ==
    ASSUME IInv, NEW o \in Orders, NEW after, LegalChange(rows[o], after),
           rows' = [rows EXCEPT ![o] = after], UNCHANGED claims,
           executions' \in [Orders -> [Roots -> ExecutionEntry]],
           executed' \in [Orders -> Int]
    PROVE  IInv'
<1>1. after \in Row
  BY DEF LegalChange
<1>2. TypeOK'
  BY <1>1 DEF IInv, TypeOK
<1>3. \A x \in Orders : rows'[x] = IF x = o THEN after ELSE rows[x]
  BY DEF IInv, TypeOK
<1>4. /\ after.state # "ABSENT"  \/ after.state = rows[o].state
      /\ after.state \in PRE_SUBMISSION_STATES \cup {"ABSENT", "RISK_REJECTED"} => claims[o] = 0
      /\ after.state \in WORKING_STATES => claims[o] = 1
  BY DEF LegalChange, IInv, ClaimedOnce, PRE_SUBMISSION_STATES, WORKING_STATES,
         TERMINAL_ORDER_STATES
<1>5. ClaimedOnce'
  <2> SUFFICES ASSUME NEW x \in Orders
               PROVE  /\ claims[x] <= 1
                      /\ rows'[x].state \in PRE_SUBMISSION_STATES \cup {"ABSENT", "RISK_REJECTED"}
                           => claims[x] = 0
                      /\ rows'[x].state \in WORKING_STATES => claims[x] = 1
    BY DEF ClaimedOnce
  <2> QED BY <1>3, <1>4 DEF IInv, ClaimedOnce
<1>6. after.state # "ABSENT"
  BY DEF LegalChange, PRE_SUBMISSION_STATES, WORKING_STATES, TERMINAL_ORDER_STATES
<1>7. \A x \in Orders : rows'[x].state = "ABSENT" => rows'[x].revision = 0
  BY <1>3, <1>6 DEF IInv
<1> QED BY <1>2, <1>5, <1>7 DEF IInv

\* Claiming a batch of authorized orders preserves the invariant.
LEMMA ClaimIInv ==
    ASSUME IInv, NEW batch, ClaimStep(batch)
    PROVE  IInv'
<1>1. \A x \in Orders : rows[x] \in Row
  BY DEF IInv, TypeOK
<1>2. "SUBMITTING" \in RowState
  BY DEF RowState, OrderLifecycleState, WORKING_STATES
<1>3. \A x \in Orders : /\ Revised(rows[x], "SUBMITTING") \in Row
                        /\ Revised(rows[x], "SUBMITTING").state = "SUBMITTING"
  BY <1>1, <1>2, RevisedRow
<1>4. TypeOK'
  BY <1>3 DEF ClaimStep, IInv, TypeOK
<1>5. \A x \in Orders :
        IF x \in batch
        THEN rows[x].state = "AUTHORIZED" /\ rows'[x].state = "SUBMITTING"
             /\ claims'[x] = claims[x] + 1
        ELSE rows'[x] = rows[x] /\ claims'[x] = claims[x]
  BY <1>3 DEF ClaimStep
<1>6. ClaimedOnce'
  <2> SUFFICES ASSUME NEW x \in Orders
               PROVE  /\ claims'[x] <= 1
                      /\ rows'[x].state \in PRE_SUBMISSION_STATES \cup {"ABSENT", "RISK_REJECTED"}
                           => claims'[x] = 0
                      /\ rows'[x].state \in WORKING_STATES => claims'[x] = 1
    BY DEF ClaimedOnce
  <2>1. CASE x \in batch
    <3>1. claims[x] = 0
      BY <1>5, <2>1 DEF IInv, ClaimedOnce, PRE_SUBMISSION_STATES
    <3> QED BY <1>5, <2>1, <3>1 DEF PRE_SUBMISSION_STATES
  <2>2. CASE x \notin batch
    BY <1>5, <2>2 DEF IInv, ClaimedOnce
  <2> QED BY <2>1, <2>2
<1>7. \A x \in Orders : rows'[x].state = "ABSENT" => rows'[x].revision = 0
  BY <1>5 DEF IInv
<1> QED BY <1>4, <1>6, <1>7 DEF IInv

\* Every step preserves the invariant.
LEMMA StepIInv ==
    ASSUME IInv, [Next]_ledgerVars
    PROVE  IInv'
<1>1. ASSUME NEW o \in Orders, NEW after, RowStep(o, after)
      PROVE  IInv'
  <2>1. /\ executions' \in [Orders -> [Roots -> ExecutionEntry]]
        /\ executed' \in [Orders -> Int]
    BY <1>1 DEF RowStep, ChangeRow, IInv, TypeOK
  <2> QED BY <1>1, <2>1, LegalChangeIInv DEF RowStep, ChangeRow
<1>2. ASSUME NEW o \in Orders, NEW after, ExecutionStep(o, after)
      PROVE  IInv'
  BY <1>2, LegalChangeIInv DEF ExecutionStep
<1>3. CASE UNCHANGED ledgerVars
  BY <1>3 DEF ledgerVars, IInv, TypeOK, ClaimedOnce
<1>4. CASE RepeatStep
  BY <1>4 DEF RepeatStep, IInv, TypeOK, ClaimedOnce
<1>5. CASE Next
  BY <1>1, <1>2, <1>4, <1>5, StepShape, ClaimIInv
<1> QED BY <1>3, <1>5

\* The strengthened invariant holds in every reachable state.
LEMMA Invariance == Spec => []IInv
<1> QED BY InitIInv, StepIInv, PTL DEF Spec

\* The rows, executions and claims have their types in every reachable state.
THEOREM TypeCorrectness == Spec => []TypeOK
<1>1. IInv => TypeOK
  BY DEF IInv
<1> QED BY <1>1, Invariance, PTL

\* Transmission of an order is granted at most once, in every reachable state.
THEOREM ClaimAtMostOnce == Spec => []ClaimedOnce
<1>1. IInv => ClaimedOnce
  BY DEF IInv
<1> QED BY <1>1, Invariance, PTL
-----------------------------------------------------------------------------
(* The action properties.                                                  *)

\* What any step may make of the row of an order.
LEMMA StepsAreLegal ==
    ASSUME IInv, [Next]_ledgerVars, NEW o \in Orders
    PROVE  /\ rows'[o] = rows[o] \/ rows'[o].revision = rows[o].revision + 1
           /\ rows'[o].terms # rows[o].terms =>
                rows'[o].terms = rows[o].pending /\ rows'[o].pending = NoTerms
           /\ rows[o].state \in TERMINAL_ORDER_STATES =>
                \/ rows'[o].state = rows[o].state
                \/ rows'[o].state = "FILLED" /\ executions'[o] # executions[o]
                \/ rows[o].state = "CANCELLED" /\ rows'[o].state = "EXPIRED"
<1> DEFINE Goal ==
      /\ rows'[o] = rows[o] \/ rows'[o].revision = rows[o].revision + 1
      /\ rows'[o].terms # rows[o].terms =>
           rows'[o].terms = rows[o].pending /\ rows'[o].pending = NoTerms
      /\ rows[o].state \in TERMINAL_ORDER_STATES =>
           \/ rows'[o].state = rows[o].state
           \/ rows'[o].state = "FILLED" /\ executions'[o] # executions[o]
           \/ rows[o].state = "CANCELLED" /\ rows'[o].state = "EXPIRED"
<1>1. rows \in [Orders -> Row]
  BY DEF IInv, TypeOK
<1>2. ASSUME rows'[o] = rows[o]
      PROVE  Goal
  BY <1>2
<1>3. ASSUME NEW x \in Orders, NEW after, RowStep(x, after)
      PROVE  Goal
  <2>1. rows' = [rows EXCEPT ![x] = after]
    BY <1>3 DEF RowStep, ChangeRow
  <2>2. CASE x # o
    BY <1>1, <1>2, <2>1, <2>2
  <2>3. CASE x = o
    <3>1. rows'[o] = after
      BY <1>1, <2>1, <2>3
    <3> QED BY <1>3, <2>3, <3>1 DEF RowStep, LegalChange, PRE_SUBMISSION_STATES,
                                   WORKING_STATES, TERMINAL_ORDER_STATES
  <2> QED BY <2>2, <2>3
<1>4. ASSUME NEW x \in Orders, NEW after, ExecutionStep(x, after)
      PROVE  Goal
  <2>1. rows' = [rows EXCEPT ![x] = after]
    BY <1>4 DEF ExecutionStep
  <2>2. CASE x # o
    BY <1>1, <1>2, <2>1, <2>2
  <2>3. CASE x = o
    <3>1. rows'[o] = after
      BY <1>1, <2>1, <2>3
    <3> QED BY <1>4, <2>3, <3>1 DEF ExecutionStep, LegalChange, PRE_SUBMISSION_STATES,
                                   WORKING_STATES, TERMINAL_ORDER_STATES
  <2> QED BY <2>2, <2>3
<1>5. ASSUME NEW batch, ClaimStep(batch)
      PROVE  Goal
  <2>1. CASE o \notin batch
    BY <1>2, <1>5, <2>1 DEF ClaimStep
  <2>2. CASE o \in batch
    <3>1. rows[o].state = "AUTHORIZED" /\ rows'[o] = Revised(rows[o], "SUBMITTING")
      BY <1>5, <2>2 DEF ClaimStep
    <3>2. rows'[o].revision = rows[o].revision + 1 /\ rows'[o].terms = rows[o].terms
      <4>1. rows[o] \in Row /\ "SUBMITTING" \in RowState
        BY <1>1 DEF RowState, OrderLifecycleState, WORKING_STATES
      <4> QED BY <3>1, <4>1, RevisedRow
    <3> QED BY <3>1, <3>2 DEF TERMINAL_ORDER_STATES
  <2> QED BY <2>1, <2>2
<1>6. ASSUME UNCHANGED ledgerVars
      PROVE  Goal
  BY <1>2, <1>6 DEF ledgerVars
<1> HIDE DEF Goal
<1>7. ASSUME Next
      PROVE  Goal
  <2>1. \/ \E x \in Orders : \E after : RowStep(x, after) \/ ExecutionStep(x, after)
        \/ \E batch \in Batches : ClaimStep(batch)
        \/ RepeatStep
    BY <1>7, StepShape
  <2>2. ASSUME RepeatStep
        PROVE  Goal
    BY <1>2, <2>2 DEF RepeatStep
  <2> QED BY <2>1, <2>2, <1>3, <1>4, <1>5
<1>8. Goal
  BY <1>6, <1>7
<1> QED BY <1>8 DEF Goal

\* A terminal row is never reopened.
THEOREM TerminalRowsStay == Spec => TerminalNeverReopens
<1>1. ASSUME IInv, [Next]_ledgerVars
      PROVE  [\A o \in Orders :
                rows[o].state \in TERMINAL_ORDER_STATES =>
                   \/ rows'[o].state = rows[o].state
                   \/ rows'[o].state = "FILLED" /\ executions'[o] # executions[o]
                   \/ rows[o].state = "CANCELLED" /\ rows'[o].state = "EXPIRED"]_ledgerVars
  BY <1>1, StepsAreLegal
<1> QED BY <1>1, Invariance, PTL DEF Spec, TerminalNeverReopens

\* A revision number stands for one content of the row.
THEOREM RevisionsIdentify == Spec => RevisionIdentifiesContent
<1>1. ASSUME IInv, [Next]_ledgerVars
      PROVE  [\A o \in Orders :
                /\ rows'[o].revision >= rows[o].revision
                /\ rows'[o].revision = rows[o].revision => rows'[o] = rows[o]]_ledgerVars
  <2> SUFFICES ASSUME NEW o \in Orders
               PROVE  /\ rows'[o].revision >= rows[o].revision
                      /\ rows'[o].revision = rows[o].revision => rows'[o] = rows[o]
    OBVIOUS
  <2>1. rows[o].revision \in Nat
    BY <1>1 DEF IInv, TypeOK, Row
  <2> QED BY <1>1, <2>1, StepsAreLegal
<1> QED BY <1>1, Invariance, PTL DEF Spec, RevisionIdentifiesContent

\* The confirmed terms change only to those of the replacement that was claimed.
THEOREM TermsByReplacement == Spec => TermsChangeByReplacement
<1>1. ASSUME IInv, [Next]_ledgerVars
      PROVE  [\A o \in Orders :
                rows'[o].terms # rows[o].terms =>
                   /\ rows'[o].terms = rows[o].pending
                   /\ rows'[o].pending = NoTerms]_ledgerVars
  BY <1>1, StepsAreLegal
<1> QED BY <1>1, Invariance, PTL DEF Spec, TermsChangeByReplacement

-----------------------------------------------------------------------------
(* Linked orders.                                                          *)

\* Groups are disjoint and a linked order is not claimed alone, so a claim covers all
\* the members of a group or none.
LEMMA BatchesCoverGroups ==
    ASSUME NEW batch \in Batches, NEW g \in Groups, NEW a \in g, NEW b \in g, a \in batch
    PROVE  b \in batch
<1>1. CASE batch \in Groups
  BY <1>1, LedgerAssumption
<1>2. ASSUME NEW o \in Orders, ~Linked(o), batch = {o}
      PROVE  FALSE
  BY <1>2 DEF Linked
<1> QED BY <1>1, <1>2 DEF Batches

\* The members of a group are claimed together or not at all.
THEOREM GroupsClaimedTogether == Spec => []GroupClaimedTogether
<1>1. Init => GroupClaimedTogether
  BY LedgerAssumption DEF Init, GroupClaimedTogether
<1>2. ASSUME IInv, GroupClaimedTogether, [Next]_ledgerVars
      PROVE  GroupClaimedTogether'
  <2>1. ASSUME UNCHANGED claims
        PROVE  GroupClaimedTogether'
    BY <1>2, <2>1 DEF GroupClaimedTogether
  <2>2. ASSUME NEW batch \in Batches, ClaimStep(batch)
        PROVE  GroupClaimedTogether'
    <3> SUFFICES ASSUME NEW g \in Groups, NEW a \in g, NEW b \in g
                 PROVE  claims'[a] = claims'[b]
      BY DEF GroupClaimedTogether
    <3>1. a \in batch <=> b \in batch
      BY BatchesCoverGroups
    <3>2. a \in Orders /\ b \in Orders
      BY LedgerAssumption
    <3>3. claims[a] = claims[b]
      BY <1>2 DEF GroupClaimedTogether
    <3> QED BY <2>2, <3>1, <3>2, <3>3 DEF ClaimStep
  <2>3. CASE Next
    BY <1>2, <2>1, <2>2, <2>3, StepShape DEF RowStep, ChangeRow, ExecutionStep,
       RepeatStep
  <2> QED BY <1>2, <2>1, <2>3 DEF ledgerVars
<1> QED BY <1>1, <1>2, Invariance, PTL DEF Spec
-----------------------------------------------------------------------------
(* The ledger implements the permission protocol.                          *)

PhaseFn == [o \in Orders |-> PhaseOf(o)]

\* Changing one row moves that order along the protocol, or not at all.
LEMMA LegalChangePermission ==
    ASSUME IInv, NEW o \in Orders, NEW after, LegalChange(rows[o], after),
           rows' = [rows EXCEPT ![o] = after], UNCHANGED claims
    PROVE  [Permission!Next]_<<PhaseFn, claims>>
<1>1. rows \in [Orders -> Row]
  BY DEF IInv, TypeOK
<1>2. \A x \in Orders : x # o => rows'[x] = rows[x]
  BY <1>1
<1>3. rows'[o] = after
  BY <1>1
<1>4. \A x \in Orders : x # o => PhaseOf(x)' = PhaseOf(x)
  BY <1>2 DEF PhaseOf, Exists
<1>5. PhaseFn' = [PhaseFn EXCEPT ![o] = PhaseOf(o)']
  BY <1>4 DEF PhaseFn
<1>6. PhaseFn[o] = PhaseOf(o)
  BY DEF PhaseFn
<1>7. claims[o] \in Nat /\ claims[o] <= 1
  BY DEF IInv, TypeOK, ClaimedOnce
<1>8. CASE rows[o].state = "ABSENT" /\ after.state = "INTENT_PERSISTED"
  <2>1. PhaseOf(o) = "none" /\ PhaseOf(o)' = "intent"
    BY <1>3, <1>8 DEF PhaseOf, Exists, PRE_SUBMISSION_STATES
  <2> QED BY <1>5, <1>6, <2>1
          DEF PhaseFn, Permission!Next, Permission!Register, Permission!Move
<1>9. CASE /\ rows[o].state \in PRE_SUBMISSION_STATES
           /\ after.state \in PRE_SUBMISSION_STATES \cup {"RISK_REJECTED", "EXPIRED"}
  <2>1. PhaseOf(o) = "intent"
    BY <1>9 DEF PhaseOf, Exists, PRE_SUBMISSION_STATES
  <2>2. claims'[o] = 0
    BY <1>9 DEF IInv, ClaimedOnce
  <2>3. PhaseOf(o)' \in {"intent", "refused"}
    BY <1>3, <1>9, <2>2 DEF PhaseOf, Exists, PRE_SUBMISSION_STATES, WORKING_STATES,
                            TERMINAL_ORDER_STATES
  <2> QED BY <1>5, <1>6, <2>1, <2>3
          DEF PhaseFn, Permission!Next, Permission!Refuse, Permission!Move
<1>10. CASE /\ rows[o].state \in WORKING_STATES
            /\ after.state \in WORKING_STATES \cup (TERMINAL_ORDER_STATES \ {"RISK_REJECTED"})
  <2>1. PhaseOf(o) = "open"
    BY <1>10 DEF PhaseOf, Exists, PRE_SUBMISSION_STATES, WORKING_STATES
  <2>2. claims'[o] = 1
    BY <1>10 DEF IInv, ClaimedOnce
  <2>3. PhaseOf(o)' \in {"open", "closed"}
    BY <1>3, <1>10, <2>2 DEF PhaseOf, Exists, PRE_SUBMISSION_STATES, WORKING_STATES,
                             TERMINAL_ORDER_STATES
  <2> QED BY <1>5, <1>6, <2>1, <2>3
          DEF PhaseFn, Permission!Next, Permission!Close, Permission!Move
<1>11. CASE rows[o].state \in TERMINAL_ORDER_STATES /\ after.state \in TERMINAL_ORDER_STATES
  <2>1. PhaseOf(o)' = PhaseOf(o)
    BY <1>3, <1>11 DEF PhaseOf, Exists, PRE_SUBMISSION_STATES, WORKING_STATES, TERMINAL_ORDER_STATES
  <2> QED BY <1>5, <1>6, <2>1 DEF PhaseFn
<1> QED BY <1>8, <1>9, <1>10, <1>11 DEF LegalChange, TERMINAL_ORDER_STATES

\* A claim is the grant of a permission.
LEMMA ClaimPermission ==
    ASSUME IInv, NEW batch \in Batches, ClaimStep(batch)
    PROVE  Permission!Permit(batch)
<1>1. rows \in [Orders -> Row]
  BY DEF IInv, TypeOK
<1>2. \A x \in batch : x \in Orders
  BY LedgerAssumption DEF Batches
<1>3. "SUBMITTING" \in RowState
  BY DEF RowState, OrderLifecycleState, WORKING_STATES
<1>4. \A x \in batch : rows[x].state = "AUTHORIZED" /\ rows'[x].state = "SUBMITTING"
  BY <1>1, <1>2, <1>3, RevisedRow DEF ClaimStep
<1>5. \A x \in Orders : x \notin batch => rows'[x] = rows[x] /\ claims'[x] = claims[x]
  BY DEF ClaimStep
<1>6. \A x \in batch : PhaseOf(x) = "intent" /\ PhaseOf(x)' = "open"
  BY <1>4 DEF PhaseOf, Exists, PRE_SUBMISSION_STATES, WORKING_STATES
<1>7. \A x \in Orders : x \notin batch => PhaseOf(x)' = PhaseOf(x)
  BY <1>5 DEF PhaseOf, Exists
<1>8. \A x \in batch : [o \in Orders |-> PhaseOf(o)][x] = "intent"
  BY <1>2, <1>6
<1>9. [o \in Orders |-> PhaseOf(o)]' =
        [o \in Orders |-> IF o \in batch THEN "open" ELSE [x \in Orders |-> PhaseOf(x)][o]]
  BY <1>6, <1>7
<1> QED BY <1>8, <1>9 DEF Permission!Permit, ClaimStep

\* The ledger implements the permission protocol: transmission of an order is permitted at
\* most once, to linked orders together, and never again once refused or closed.
THEOREM LedgerImplementsPermission == Spec => ImplementsPermission
<1>1. Init => Permission!Init
  BY DEF Init, Permission!Init, PhaseOf, Exists
<1>2. ASSUME IInv, [Next]_ledgerVars
      PROVE  [Permission!Next]_<<PhaseFn, claims>>
  <2>1. ASSUME NEW o \in Orders, NEW after, RowStep(o, after) \/ ExecutionStep(o, after)
        PROVE  [Permission!Next]_<<PhaseFn, claims>>
    BY <1>2, <2>1, LegalChangePermission DEF RowStep, ChangeRow, ExecutionStep
  <2>2. ASSUME NEW batch \in Batches, ClaimStep(batch)
        PROVE  Permission!Next
    BY <1>2, <2>2, ClaimPermission DEF Permission!Next
  <2>3. CASE UNCHANGED ledgerVars
    BY <2>3 DEF ledgerVars, PhaseFn, PhaseOf, Exists
  <2>4. CASE Next
    <3>1. \/ \E o \in Orders : \E after : RowStep(o, after) \/ ExecutionStep(o, after)
          \/ \E batch \in Batches : ClaimStep(batch)
          \/ RepeatStep
      BY <1>2, <2>4, StepShape
    <3>2. ASSUME RepeatStep
          PROVE  UNCHANGED <<PhaseFn, claims>>
      BY <3>2 DEF RepeatStep, PhaseFn, PhaseOf, Exists
    <3> QED BY <2>1, <2>2, <3>1, <3>2
  <2> QED BY <1>2, <2>3, <2>4
<1>3. ASSUME IInv, [Next]_ledgerVars
      PROVE  [Permission!Next]_(Permission!vars)
  BY <1>2, <1>3 DEF PhaseFn, Permission!vars
<1> QED BY <1>1, <1>3, Invariance, PTL DEF Spec, ImplementsPermission, Permission!Spec
=============================================================================
