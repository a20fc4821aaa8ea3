------------------------- MODULE LinkedOrders_proofs -------------------------
(***************************************************************************)
(* Proofs about brackets, OCA groups and replacements, for every number of *)
(* groups and orders, however often the process dies and the broker        *)
(* refuses: that they use the ledger as OrderLedger says, that an entry    *)
(* works only with its exits at the broker, and that no row is closed      *)
(* while its order works.                                                  *)
(***************************************************************************)
EXTENDS LinkedOrders, OrderLedger_proofs, FiniteSetTheorems, SequenceTheorems

-----------------------------------------------------------------------------
(* Types.                                                                  *)

GroupSteps == {"persist", "decide", "reject", "authorize", "claim", "place"}
ReplaceSteps == {"reclaim", "modify"}
ClaimedSteps == {"place", "modify", "await", "withdraw", "unknown", "apply"}
CallSteps == {"idle"} \cup GroupSteps \cup ReplaceSteps \cup ClaimedSteps

EndWords == {"Submitted", "Filled", "Cancelled"}
Statuses ==
    [status : EndWords, terms : Terms \cup {NoTerms}, filled : Nat, remaining : Nat]
Calls ==
    [step : CallSteps, legs : Seq(Orders), at : Nat \ {0}, fresh : SUBSET Orders,
     stale : BOOLEAN, terms : Terms \cup {NoTerms}, revision : Nat, answers : Seq(Statuses)]
Records ==
    [acknowledged : BOOLEAN, terms : Terms \cup {NoTerms},
     word : EndWords \cup {"PendingSubmit"}, filled : Nat, remaining : Nat]
Requests ==
    [kind : {"place"}, order : Orders, terms : Terms, transmit : BOOLEAN]
    \cup [kind : {"cancel"}, order : Orders, terms : {NoTerms}, transmit : {FALSE}]
Reports ==
    [kind : {"open", "status"}, order : Orders, terms : Terms, word : EndWords,
     filled : Nat, remaining : Nat]
    \cup [kind : {"error"}, order : Orders, terms : {NoTerms}, word : {"Inactive"},
          filled : {0}, remaining : {0}]
BookEntries ==
    [state : {"none", "refused"}, terms : {NoTerms}]
    \cup [state : {"held", "working", "filled", "cancelled"}, terms : Terms]

LinkedTypes ==
    /\ up \in BOOLEAN
    /\ call \in Calls
    /\ record \in [Orders -> Records]
    /\ recovering \in SUBSET Orders
    /\ requests \in Seq(Requests)
    /\ reports \in Seq(Reports)
    /\ book \in [Orders -> BookEntries]

-----------------------------------------------------------------------------
(* Who is at the broker.                                                   *)

\* The orders of the bracket of an order, if it has one.
Fellows(o) == UNION {Legs(b) : b \in {b \in Brackets : o \in Legs(b)}}

\* All of them have reached the broker.
Covered(o) == \A x \in Fellows(o) : book[x].state # "none"

\* An order has reached the broker, or will with one of the first n requests.
Places(m, o) == m.kind = "place" /\ m.order = o
Ordered(o, n) == book[o].state # "none" \/ \E i \in 1..n : Places(requests[i], o)
Underway(o) == Ordered(o, Len(requests))

\* Requests that may make an order work or end.
Releases(m) == m.kind = "cancel" \/ m.transmit

Known == {"working", "filled", "cancelled"}
Ended == {"filled", "cancelled", "refused"}

\* What a status of an order says is true of it, and stays true.
Heard(o, st) ==
    /\ st.filled + st.remaining \in Quantities
    /\ st.status = "Cancelled" => book[o].state = "cancelled"
    /\ Covered(o)

\* The broker refuses exits only when they do not work.
Refused(o) == o \notin Entries => book[o].state \in Ended

StatusOfReport(m) ==
    [status |-> m.word, terms |-> m.terms, filled |-> m.filled, remaining |-> m.remaining]

Tells(m) ==
    IF m.kind = "error" THEN Refused(m.order) ELSE Heard(m.order, StatusOfReport(m))

-----------------------------------------------------------------------------
(* The invariants.                                                         *)

\* An order of a bracket works, or has ended, only with all of them at the broker; nothing
\* that could bring that about overtakes the placements of the others.
BracketInv ==
    /\ \A o \in Orders : book[o].state \in Known => Covered(o)
    /\ \A j \in 1..Len(requests) : Releases(requests[j]) =>
          \A x \in Fellows(requests[j].order) : Ordered(x, j)

\* Only claimed orders of groups go to the broker, and an exit goes there once.
PlacementInv ==
    /\ \A o \in Orders : AtBroker(o) => Linked(o)
    /\ \A o \in Orders : book[o].state # "none" => AtBroker(o)
    /\ \A j \in 1..Len(requests) : AtBroker(requests[j].order)
    /\ \A i \in 1..Len(requests) : requests[i].kind = "place" /\ requests[i].order \notin Entries =>
          /\ book[requests[i].order].state = "none"
          /\ \A j \in 1..Len(requests) : Places(requests[j], requests[i].order) => j = i

\* What the adapter has recorded and what is on its way to it is true of the broker.
RecordIsTrue(o, r) ==
    r.acknowledged => r.word \in EndWords /\ Heard(o, StatusOfRecord(r))

HearsayInv ==
    /\ \A o \in Orders : RecordIsTrue(o, record[o])
    /\ \A k \in 1..Len(reports) : Tells(reports[k])

\* A call has one group or one order to replace.
CallFits(c) ==
    /\ c.step \in GroupSteps => c.terms = NoTerms
    /\ c.step \in ReplaceSteps => c.terms # NoTerms
    /\ c.step # "idle" => c.at <= Len(c.legs)
    /\ c.step = "claim" => c.at = 1
    /\ c.step \in GroupSteps \cup ReplaceSteps => c.answers = <<>>
    /\ c.step # "idle" /\ c.terms = NoTerms => c.legs \in Batch
    /\ c.step # "idle" /\ c.terms # NoTerms =>
          /\ Len(c.legs) = 1
          /\ rows[c.legs[1]].brokerId /\ Replaceable(c.legs[1])
    /\ c.step \in ClaimedSteps => \A i \in 1..Len(c.legs) : AtBroker(c.legs[i])
    /\ c.step = "place" =>
          /\ \A i \in 1..(c.at - 1) : Underway(c.legs[i])
          /\ \A i \in c.at..Len(c.legs) : ~Underway(c.legs[i])
    /\ c.step \in {"await", "withdraw"} =>
          \A i \in 1..Len(c.legs) : \A x \in Fellows(c.legs[i]) : Underway(x)
    /\ c.step = "await" => Len(c.answers) = c.at - 1
    /\ c.step = "apply" => Len(c.answers) = Len(c.legs)
    /\ c.step \in {"await", "apply"} =>
          \A i \in 1..Len(c.answers) : Heard(c.legs[i], c.answers[i])

CallInv == CallFits(call)

\* What a row says of its order is true.
RowIsTrue(o, row) ==
    /\ row.brokerId => Covered(o)
    /\ row.state = "EXPIRED" => ~AtBroker(o)
    /\ row.state = "CANCELLED" => book[o].state = "cancelled"
    /\ row.state = "REJECTED" => Refused(o)

RowsAreTrue == \A o \in Orders : RowIsTrue(o, rows[o])

LinkedInv ==
    /\ IInv /\ LinkedTypes
    /\ BracketInv /\ PlacementInv /\ HearsayInv /\ CallInv /\ RowsAreTrue

\* A step that keeps the invariant and uses the ledger as OrderLedger says.
Kept == LinkedInv' /\ [Next]_ledgerVars

-----------------------------------------------------------------------------
(* Groups.                                                                 *)

\* A group is a sequence of distinct orders, and its orders are linked.
LEMMA BatchShape ==
    ASSUME NEW g \in Batch
    PROVE  /\ g \in Seq(Orders)
           /\ Len(g) \in Nat \ {0}
           /\ DOMAIN g = 1..Len(g)
           /\ Legs(g) = {g[i] : i \in 1..Len(g)}
           /\ Legs(g) \in Groups
           /\ Legs(g) \subseteq Orders
           /\ \A i, j \in 1..Len(g) : g[i] = g[j] => i = j
<1>1. g \in Seq(Orders) /\ g # <<>>
  BY LinkedAssumption
<1>2. Len(g) \in Nat \ {0} /\ DOMAIN g = 1..Len(g)
  BY <1>1, EmptySeq, LenProperties
<1>3. \A i \in 1..Len(g) : g[i] \in Orders
  BY <1>1, ElementOfSeq
<1>4. Legs(g) = {g[i] : i \in 1..Len(g)} /\ Legs(g) \in Groups
  BY <1>2, LinkedAssumption DEF Legs
<1>5. \A i, j \in 1..Len(g) : g[i] = g[j] => i = j
  BY <1>2, LinkedAssumption
<1> QED BY <1>1, <1>2, <1>3, <1>4, <1>5

\* The group of an order is one.
LEMMA OneGroup ==
    ASSUME NEW g \in Batch, NEW h \in Batch, NEW o, o \in Legs(g), o \in Legs(h)
    PROVE  g = h
BY LinkedAssumption

\* The fellows of the leg of a bracket are the legs of that bracket; the member of an OCA
\* group has none.
LEMMA FellowsOfLeg ==
    ASSUME NEW g \in Batch, NEW o \in Legs(g)
    PROVE  Fellows(o) = IF g \in Brackets THEN Legs(g) ELSE {}
<1>1. \A b \in Brackets : o \in Legs(b) => b = g
  BY OneGroup DEF Batch
<1> QED BY <1>1 DEF Fellows

\* Fellows are orders.
LEMMA FellowsAreOrders ==
    ASSUME NEW o
    PROVE  Fellows(o) \in SUBSET Orders
BY BatchShape DEF Fellows, Batch

\* The siblings of an order have the same fellows as the order.
LEMMA SiblingsShare ==
    ASSUME NEW o, NEW x \in Siblings(o)
    PROVE  x \in Orders /\ Fellows(x) = Fellows(o)
<1>1. PICK g \in Batch : o \in Legs(g) /\ x \in Legs(g)
  BY DEF Siblings
<1> QED BY <1>1, FellowsOfLeg, BatchShape

\* The entry of a bracket is one of its own fellows.
LEMMA EntryIsFellow ==
    ASSUME NEW o \in Entries
    PROVE  o \in Fellows(o)
<1>1. PICK b \in Brackets : o = b[1]
  BY LinkedAssumption
<1>2. o \in Legs(b)
  BY <1>1, BatchShape DEF Batch
<1> QED BY <1>1, <1>2 DEF Fellows

-----------------------------------------------------------------------------
(* What is true of the broker stays true.                                  *)

\* What the broker has received it keeps, and what it has ended stays ended.
BookGrows ==
    /\ book' \in [Orders -> BookEntries]
    /\ \A o \in Orders :
          /\ book[o].state # "none" => book'[o].state # "none"
          /\ book[o].state = "cancelled" => book'[o].state = "cancelled"
          /\ book[o].state \in Ended => book'[o].state \in Ended

\* An order that is at the broker with its bracket stays there.
LEMMA CoveredStays ==
    ASSUME BookGrows, NEW o, Covered(o)
    PROVE  Covered(o)'
BY FellowsAreOrders DEF BookGrows, Covered

\* A status of an order stays true.
LEMMA HeardStays ==
    ASSUME BookGrows, NEW o \in Orders, NEW st, Heard(o, st)
    PROVE  Heard(o, st)'
BY CoveredStays DEF BookGrows, Heard

\* So does a refusal.
LEMMA RefusedStays ==
    ASSUME BookGrows, NEW o \in Orders, Refused(o)
    PROVE  Refused(o)'
BY DEF BookGrows, Refused

\* And so does whatever is on its way to the adapter.
LEMMA TellsStays ==
    ASSUME BookGrows, NEW m \in Reports, Tells(m)
    PROVE  Tells(m)'
<1>1. m.order \in Orders
  BY DEF Reports
<1>2. PICK o \in Orders : o = m.order
  BY <1>1
<1>3. PICK st : st = StatusOfReport(m)
  OBVIOUS
<1>4. CASE m.kind = "error"
  BY <1>2, <1>4, RefusedStays DEF Tells
<1>5. CASE m.kind # "error"
  BY <1>2, <1>3, <1>5, HeardStays DEF Tells
<1> QED BY <1>4, <1>5

\* Nothing changes for a broker whose book does not change.
LEMMA BookStands ==
    ASSUME book \in [Orders -> BookEntries], UNCHANGED book
    PROVE  BookGrows
BY DEF BookGrows

-----------------------------------------------------------------------------
(* The operations of the ledger.                                           *)

\* A step of the ledger that claims nothing: its rows are true, and keep their identities.
LedgerKept ==
    /\ [Next]_ledgerVars
    /\ UNCHANGED <<claims, book>>
    /\ \A x \in Orders : rows[x].brokerId => rows'[x].brokerId
    /\ RowsAreTrue'

\* Where the ledger does not change.
LEMMA LedgerStands ==
    ASSUME LinkedInv, UNCHANGED <<ledgerVars, book>>
    PROVE  LedgerKept
<1>1. RowsAreTrue'
  BY DEF LinkedInv, RowsAreTrue, RowIsTrue, Covered, Refused, AtBroker, ledgerVars
<1> QED BY <1>1 DEF LedgerKept, ledgerVars

\* Where one row changes.
LEMMA RowKept ==
    ASSUME LinkedInv, NEW o \in Orders, NEW after, ChangeRow(o, after), Next, UNCHANGED book,
           rows[o].brokerId => after.brokerId, RowIsTrue(o, after)
    PROVE  LedgerKept
<1>1. /\ rows' = [rows EXCEPT ![o] = after]
      /\ UNCHANGED <<executions, executed, claims>>
      /\ DOMAIN rows = Orders
  BY DEF ChangeRow, LinkedInv, IInv, TypeOK
<1>2. \A x \in Orders : rows'[x] = IF x = o THEN after ELSE rows[x]
  BY <1>1
<1>3. \A x \in Orders : RowIsTrue(x, IF x = o THEN after ELSE rows[x])
  BY DEF LinkedInv, RowsAreTrue
<1>4. ASSUME NEW x \in Orders, NEW row, RowIsTrue(x, row)
      PROVE  RowIsTrue(x, row)'
  BY <1>1, <1>4 DEF RowIsTrue, Covered, Refused, AtBroker
<1>5. RowsAreTrue'
  <2> SUFFICES ASSUME NEW x \in Orders
               PROVE  RowIsTrue(x, rows[x])'
    BY DEF RowsAreTrue
  <2>1. PICK row : row = rows'[x]
    OBVIOUS
  <2>2. RowIsTrue(x, row)'
    BY <1>2, <1>3, <1>4, <2>1
  <2> QED BY <2>1, <2>2 DEF RowIsTrue
<1> QED BY <1>1, <1>2, <1>5 DEF LedgerKept

\* A new intent knows nothing of the broker.
LEMMA CreateKept ==
    ASSUME LinkedInv, NEW o \in Orders, CreateIntent(o), UNCHANGED book
    PROVE  LedgerKept
<1> DEFINE after == [rows[o] EXCEPT !.state = "INTENT_PERSISTED",
                                    !.remaining = TermQuantity[rows[o].terms],
                                    !.revision = 1]
<1>1. rows[o] \in Row /\ RowIsTrue(o, rows[o])
  BY DEF LinkedInv, IInv, TypeOK, RowsAreTrue
<1>2. after.state = "INTENT_PERSISTED" /\ after.brokerId = rows[o].brokerId
  BY <1>1 DEF Row
<1>3. ChangeRow(o, after) /\ Next
  BY DEF CreateIntent, Next
<1> HIDE DEF after
<1>4. RowIsTrue(o, after)
  BY <1>1, <1>2 DEF RowIsTrue
<1> QED BY <1>2, <1>3, <1>4, RowKept

\* Where the service asks for a new state: a row expires before it is claimed, and is
\* rejected where the broker has refused the order.
LEMMA TransitionKept ==
    ASSUME LinkedInv, NEW o \in Orders, NEW target \in CallerTargets(o), Transition(o, target),
           UNCHANGED book,
           target # "CANCELLED",
           target = "EXPIRED" => rows[o].state \in PRE_SUBMISSION_STATES,
           target = "REJECTED" => Refused(o)
    PROVE  LedgerKept
<1> DEFINE plain == Revised(rows[o], target)
           after == IF target = "AUTHORIZED" THEN plain
                    ELSE [plain EXCEPT !.remark = Plain("reason")]
<1>1. rows[o] \in Row /\ RowIsTrue(o, rows[o]) /\ ClaimedOnce /\ claims[o] \in Nat
  BY DEF LinkedInv, IInv, TypeOK, RowsAreTrue
<1>2. after.state = target /\ after.brokerId = rows[o].brokerId
  BY <1>1 DEF Row, Revised
<1>3. ChangeRow(o, after) /\ Next
  BY DEF Transition, Next
<1> HIDE DEF after
<1>4. target = "EXPIRED" => ~AtBroker(o)
  BY <1>1 DEF ClaimedOnce, AtBroker
<1>5. RowIsTrue(o, after)
  BY <1>1, <1>2, <1>4 DEF RowIsTrue
<1> QED BY <1>2, <1>3, <1>5, RowKept

\* The claim of a replacement.
LEMMA ReplacementKept ==
    ASSUME LinkedInv, NEW o \in Orders, NEW terms \in Terms, ClaimReplacement(o, terms),
           UNCHANGED book
    PROVE  LedgerKept
<1> DEFINE after == [Revised(rows[o], "REPLACE_PENDING") EXCEPT !.pending = terms]
<1>1. rows[o] \in Row /\ RowIsTrue(o, rows[o])
  BY DEF LinkedInv, IInv, TypeOK, RowsAreTrue
<1>2. after.state = "REPLACE_PENDING" /\ after.brokerId = rows[o].brokerId
  BY <1>1 DEF Row, Revised
<1>3. ChangeRow(o, after) /\ Next
  BY DEF ClaimReplacement, Next
<1> HIDE DEF after
<1>4. RowIsTrue(o, after)
  BY <1>1, <1>2 DEF RowIsTrue
<1> QED BY <1>2, <1>3, <1>4, RowKept

\* A status whose parts add up to the quantity of some terms is one that OrderLedger knows.
LEMMA StatusIsKnown ==
    ASSUME NEW st \in Statuses, st.filled + st.remaining \in Quantities
    PROVE  /\ st \in BrokerOrderStatus
           /\ \E total \in Quantities : \E filled \in 0..total :
                 st = StatusOf(st.status, st.terms, total, filled)
<1>1. /\ st.filled \in Nat /\ st.remaining \in Nat
      /\ st.status \in EndWords /\ st.terms \in Terms \cup {NoTerms}
  BY DEF Statuses
<1>2. PICK total \in Quantities : total = st.filled + st.remaining
  OBVIOUS
<1>3. total \in Nat /\ st.filled \in 0..total /\ st.remaining = total - st.filled
  BY <1>1, <1>2
<1>4. st = StatusOf(st.status, st.terms, total, st.filled)
  BY <1>3 DEF StatusOf, Statuses
<1>5. st.status \in BrokerWord
  BY <1>1 DEF EndWords, BrokerWord
<1>6. st \in BrokerOrderStatus
  BY <1>1, <1>5 DEF BrokerOrderStatus, Statuses
<1> QED BY <1>3, <1>4, <1>6

\* A status that is true of the order leaves a row that is true.
LEMMA StatusKept ==
    ASSUME LinkedInv, NEW o \in Orders, NEW st \in Statuses, NEW settle \in BOOLEAN,
           Heard(o, st), ApplyStatus(o, st, settle), UNCHANGED book
    PROVE  LedgerKept
<1> DEFINE target == LifecycleFromBrokerStatus(st)
           written == RowFromStatus(rows[o], target, st, settle)
           after == RevisedIfChanged(rows[o], written)
<1>1. /\ rows[o] \in Row /\ RowIsTrue(o, rows[o])
      /\ st.filled + st.remaining \in Quantities
      /\ Covered(o)
  BY DEF LinkedInv, IInv, TypeOK, RowsAreTrue, Heard
<1>2. ApplyReconciledStatus(o, target, st, settle)
  BY DEF ApplyStatus
<1>3. st \in BrokerOrderStatus /\ st.status \in BrokerWord /\ st.status \in EndWords
  BY <1>1, StatusIsKnown DEF BrokerOrderStatus, Statuses
<1>4. Next
  <2>1. PICK total \in Quantities, filled \in Nat :
           filled \in 0..total /\ st = StatusOf(st.status, st.terms, total, filled)
    BY <1>1, StatusIsKnown, TermsAssumption DEF Quantities
  <2>2. st.terms \in Terms \cup {NoTerms}
    BY DEF Statuses
  <2>3. ReconcileStatus(o)
    BY <1>2, <1>3, <2>1, <2>2 DEF ReconcileStatus
  <2> QED BY <2>3 DEF Next
<1>5. ChangeRow(o, after)
  BY <1>2 DEF ApplyReconciledStatus
<1>6. /\ target \in WORKING_STATES \cup {"FILLED", "CANCELLED"}
      /\ target = "CANCELLED" => book[o].state = "cancelled"
  <2>1. st.status \in {"Submitted", "Filled", "Cancelled"}
    BY <1>3 DEF EndWords
  <2> QED BY <2>1 DEF LifecycleFromBrokerStatus, Heard, WORKING_STATES
<1>7. /\ written \in Row
      /\ written.state \in {rows[o].state, target, "UNKNOWN"}
  <2>1. target \in OrderLifecycleState
    BY <1>6 DEF OrderLifecycleState, WORKING_STATES, TERMINAL_ORDER_STATES
  <2> HIDE DEF target
  <2> QED BY <1>1, <1>3, <2>1, RowFromStatusTyped
<1>8. after.state = written.state
  <2> HIDE DEF written
  <2> QED BY <1>7 DEF RevisedIfChanged, Row
<1>9. written.brokerId /\ after.brokerId
  <2>1. written.brokerId
    <3> DEFINE applied == StateApplied(PendingSettled(rows[o], st, settle), target,
                                       TermsMismatch(rows[o], st, settle))
    <3>1. PendingSettled(rows[o], st, settle) \in Row
      BY <1>1, SettledRow
    <3>2. DOMAIN applied = DOMAIN rows[o]
      <4> HIDE DEF target
      <4> QED BY <1>1, <3>1 DEF StateApplied, Row
    <3>3. written = BrokerFieldsApplied(applied, target, st)
      BY DEF RowFromStatus
    <3> HIDE DEF applied, target, written
    <3> QED BY <1>1, <3>2, <3>3 DEF BrokerFieldsApplied, Row
  <2> HIDE DEF written
  <2> QED BY <1>7, <2>1 DEF RevisedIfChanged, Row
<1>10. RowIsTrue(o, after)
  <2>1. after.state \in {rows[o].state, target, "UNKNOWN"}
    BY <1>7, <1>8
  <2> HIDE DEF after, target
  <2> QED BY <1>1, <1>6, <2>1 DEF RowIsTrue, WORKING_STATES
<1> HIDE DEF after
<1> QED BY <1>4, <1>5, <1>9, <1>10, RowKept

-----------------------------------------------------------------------------
(* The parts of the invariant, where they are not disturbed.               *)

\* Nothing is taken back: no claim, no identity, no receipt; and no order is sent.
Onward ==
    /\ BookGrows
    /\ \A o \in Orders : AtBroker(o) => AtBroker(o)'
    /\ \A o \in Orders : rows[o].brokerId => rows'[o].brokerId
    /\ \A o \in Orders : Underway(o)' <=> Underway(o)

\* The orders of a call are orders.
LEMMA CallTypes ==
    ASSUME NEW c \in Calls
    PROVE  /\ c.step \in CallSteps /\ c.at \in Nat \ {0}
           /\ c.legs \in Seq(Orders) /\ Len(c.legs) \in Nat
           /\ c.answers \in Seq(Statuses) /\ Len(c.answers) \in Nat
           /\ c.terms \in Terms \cup {NoTerms}
           /\ \A i \in 1..Len(c.legs) : c.legs[i] \in Orders
           /\ \A i \in 1..Len(c.answers) : c.answers[i] \in Statuses
<1>1. c.legs \in Seq(Orders) /\ c.answers \in Seq(Statuses)
  BY DEF Calls
<1>2. Len(c.legs) \in Nat /\ Len(c.answers) \in Nat
  BY <1>1, LenProperties
<1>3. \A i \in 1..Len(c.legs) : c.legs[i] \in Orders
  BY <1>1, ElementOfSeq
<1>4. \A i \in 1..Len(c.answers) : c.answers[i] \in Statuses
  BY <1>1, ElementOfSeq
<1>5. c.step \in CallSteps /\ c.at \in Nat \ {0} /\ c.terms \in Terms \cup {NoTerms}
  BY DEF Calls
<1> QED BY <1>1, <1>2, <1>3, <1>4, <1>5

\* What a call has read and done stays so.
LEMMA CallFitsStays ==
    ASSUME Onward, NEW c \in Calls, CallFits(c)
    PROVE  CallFits(c)'
<1>1. \A i \in 1..Len(c.legs) : c.legs[i] \in Orders
  BY CallTypes
<1>2. Len(c.legs) \in Nat /\ Len(c.answers) \in Nat /\ c.at \in Nat \ {0}
  BY CallTypes
<1>3. /\ c.step \in GroupSteps => c.terms = NoTerms
      /\ c.step \in ReplaceSteps => c.terms # NoTerms
      /\ c.step # "idle" => c.at <= Len(c.legs)
      /\ c.step = "claim" => c.at = 1
      /\ c.step \in GroupSteps \cup ReplaceSteps => c.answers = <<>>
      /\ c.step # "idle" /\ c.terms = NoTerms => c.legs \in Batch
      /\ c.step = "await" => Len(c.answers) = c.at - 1
      /\ c.step = "apply" => Len(c.answers) = Len(c.legs)
  BY DEF CallFits
<1>4. ASSUME c.step # "idle", c.terms # NoTerms
      PROVE  Len(c.legs) = 1 /\ rows'[c.legs[1]].brokerId /\ Replaceable(c.legs[1])
  <2>1. Len(c.legs) = 1 /\ rows[c.legs[1]].brokerId /\ Replaceable(c.legs[1])
    BY <1>4 DEF CallFits
  <2>2. c.legs[1] \in Orders
    BY <1>1, <2>1
  <2> QED BY <2>1, <2>2 DEF Onward
<1>5. ASSUME c.step \in ClaimedSteps, NEW i \in 1..Len(c.legs)
      PROVE  AtBroker(c.legs[i])'
  <2>1. AtBroker(c.legs[i])
    BY <1>5 DEF CallFits
  <2>2. PICK x \in Orders : x = c.legs[i]
    BY <1>1
  <2> QED BY <2>1, <2>2 DEF Onward
<1>6. ASSUME NEW i \in 1..Len(c.legs)
      PROVE  Underway(c.legs[i])' <=> Underway(c.legs[i])
  <2>1. PICK x \in Orders : x = c.legs[i]
    BY <1>1
  <2> QED BY <2>1 DEF Onward
<1>7. ASSUME c.step = "place"
      PROVE  /\ \A i \in 1..(c.at - 1) : Underway(c.legs[i])'
             /\ \A i \in c.at..Len(c.legs) : ~Underway(c.legs[i])'
  <2>1. /\ \A i \in 1..(c.at - 1) : Underway(c.legs[i])
        /\ \A i \in c.at..Len(c.legs) : ~Underway(c.legs[i])
    BY <1>7 DEF CallFits
  <2>2. c.at <= Len(c.legs)
    BY <1>3, <1>7
  <2> QED BY <1>2, <1>6, <2>1, <2>2
<1>8. ASSUME c.step \in {"await", "withdraw"}, NEW i \in 1..Len(c.legs),
             NEW x \in Fellows(c.legs[i])
      PROVE  Underway(x)'
  <2>1. Underway(x)
    BY <1>8 DEF CallFits
  <2>2. x \in Orders
    BY FellowsAreOrders
  <2> QED BY <2>1, <2>2 DEF Onward
<1>9. ASSUME c.step \in {"await", "apply"}, NEW i \in 1..Len(c.answers)
      PROVE  Heard(c.legs[i], c.answers[i])'
  <2>1. Heard(c.legs[i], c.answers[i])
    BY <1>9 DEF CallFits
  <2>2. i \in 1..Len(c.legs)
    BY <1>2, <1>3, <1>9
  <2>3. PICK x \in Orders : x = c.legs[i]
    BY <1>1, <2>2
  <2>4. PICK st : st = c.answers[i]
    OBVIOUS
  <2>5. BookGrows
    BY DEF Onward
  <2>6. Heard(x, st)'
    BY <2>1, <2>3, <2>4, <2>5, HeardStays
  <2> QED BY <2>3, <2>4, <2>6
<1> QED BY <1>3, <1>4, <1>5, <1>7, <1>8, <1>9 DEF CallFits

\* A step of the process that sends nothing and claims no group.
LEMMA QuietKeeps ==
    ASSUME LinkedInv, LedgerKept, UNCHANGED requests,
           NEW c \in Calls, call' = c, CallFits(c),
           up' \in BOOLEAN, recovering' \in SUBSET Orders, record' \in [Orders -> Records],
           reports' \in Seq(Reports), HearsayInv'
    PROVE  Kept
<1>1. UNCHANGED <<claims, book, requests>> /\ RowsAreTrue'
  BY DEF LedgerKept
<1>2. IInv'
  BY StepIInv DEF LinkedInv, LedgerKept
<1>3. LinkedTypes'
  BY <1>1 DEF LinkedInv, LinkedTypes
<1>4. BracketInv'
  BY <1>1 DEF LinkedInv, BracketInv, Covered, Ordered
<1>5. PlacementInv'
  BY <1>1 DEF LinkedInv, PlacementInv, AtBroker
<1>6. BookGrows
  BY <1>1, BookStands DEF LinkedInv, LinkedTypes
<1>7. \A o \in Orders : AtBroker(o)' <=> AtBroker(o)
  BY <1>1 DEF AtBroker
<1>8. \A o \in Orders : Underway(o)' <=> Underway(o)
  BY <1>1 DEF Underway, Ordered
<1>9. Onward
  BY <1>6, <1>7, <1>8 DEF Onward, LedgerKept
<1>10. CallInv'
  <2>1. CallFits(c)'
    BY <1>9, CallFitsStays
  <2> QED BY <2>1 DEF CallInv, CallFits
<1> QED BY <1>1, <1>2, <1>3, <1>4, <1>5, <1>10 DEF LinkedInv, LedgerKept, Kept

\* The records and the reports stay true where they and the book do not change.
LEMMA HearsayStands ==
    ASSUME LinkedInv, UNCHANGED <<record, reports, book>>
    PROVE  HearsayInv'
BY DEF LinkedInv, HearsayInv, RecordIsTrue, Tells, Heard, Refused, Covered

\* A step of the call that touches nothing but the ledger.
LEMMA OnlyCallKeeps ==
    ASSUME LinkedInv, LedgerKept, OnlyCall, NEW c \in Calls, call' = c, CallFits(c)
    PROVE  Kept
<1>1. UNCHANGED <<up, record, recovering, requests, reports, book>>
  BY DEF OnlyCall, wireVars
<1>2. /\ up' \in BOOLEAN /\ recovering' \in SUBSET Orders /\ record' \in [Orders -> Records]
      /\ reports' \in Seq(Reports)
  BY <1>1 DEF LinkedInv, LinkedTypes
<1>3. HearsayInv'
  BY <1>1, HearsayStands
<1> QED BY <1>1, <1>2, <1>3, QuietKeeps

\* No call fits everywhere.
LEMMA IdleFits == IdleCall \in Calls /\ CallFits(IdleCall)
<1>1. <<>> \in Seq(Orders) /\ <<>> \in Seq(Statuses)
  BY EmptySeq
<1>2. IdleCall \in Calls
  BY <1>1 DEF IdleCall, Calls, CallSteps
<1>3. IdleCall.step = "idle"
  BY DEF IdleCall
<1>4. CallFits(IdleCall)
  BY <1>3 DEF CallFits, GroupSteps, ReplaceSteps, ClaimedSteps
<1> QED BY <1>2, <1>4

-----------------------------------------------------------------------------
(* The steps of a call that send nothing.                                  *)

\* A call that has not come to an end has an order.
LEMMA CurrentOrder ==
    ASSUME LinkedInv, call.step # "idle"
    PROVE  /\ call \in Calls /\ CallFits(call)
           /\ call.at \in 1..Len(call.legs)
           /\ Current \in Orders
           /\ Current \in Legs(call.legs)
<1>1. call \in Calls /\ CallFits(call)
  BY DEF LinkedInv, LinkedTypes, CallInv
<1>2. call.at <= Len(call.legs) /\ call.at \in Nat \ {0} /\ Len(call.legs) \in Nat
  BY <1>1, CallTypes DEF CallFits
<1>3. call.at \in 1..Len(call.legs)
  BY <1>2
<1>4. Current \in Orders
  BY <1>1, <1>3, CallTypes DEF Current
<1>5. DOMAIN call.legs = 1..Len(call.legs)
  BY <1>1, CallTypes, LenProperties
<1> QED BY <1>1, <1>3, <1>4, <1>5 DEF Current, Legs

\* The call of a group has the group.
LEMMA GroupCall ==
    ASSUME LinkedInv, call.step \in GroupSteps
    PROVE  /\ call.step # "idle" /\ call.terms = NoTerms /\ call.legs \in Batch
           /\ call.answers = <<>>
<1>1. call.step # "idle"
  BY DEF GroupSteps
<1> QED BY <1>1 DEF LinkedInv, CallInv, CallFits

\* A call at another step or order.
Moved(c, step, n) == [c EXCEPT !.step = step, !.at = n]

\* It is a call, with the same orders, terms and answers.
LEMMA CallMoved ==
    ASSUME NEW c \in Calls, NEW step \in CallSteps, NEW n \in Nat \ {0}
    PROVE  /\ Moved(c, step, n) \in Calls
           /\ Moved(c, step, n).step = step
           /\ Moved(c, step, n).at = n
           /\ Moved(c, step, n).legs = c.legs
           /\ Moved(c, step, n).terms = c.terms
           /\ Moved(c, step, n).answers = c.answers
<1>1. Moved(c, step, n) \in Calls
  BY DEF Calls, Moved
<1>2. /\ Moved(c, step, n).step = step
      /\ Moved(c, step, n).at = n
      /\ Moved(c, step, n).legs = c.legs
      /\ Moved(c, step, n).terms = c.terms
      /\ Moved(c, step, n).answers = c.answers
  BY DEF Calls, Moved
<1> QED BY <1>1, <1>2

\* Where the call may turn to.
LEMMA TurnOf ==
    ASSUME NEW b \in Calls, NEW next \in CallSteps, call \in Calls,
           call.at \in 1..Len(call.legs), b.at = call.at, b.legs = call.legs, Turn(b, next)
    PROVE  \E c \in Calls :
              /\ call' = c
              /\ \/ /\ c.step = b.step /\ c.at = b.at + 1 /\ b.at < Len(b.legs)
                    /\ c.legs = b.legs /\ c.terms = b.terms /\ c.answers = b.answers
                 \/ c = IdleCall
                 \/ /\ c.step = next /\ c.at = 1 /\ b.at = Len(b.legs) /\ Len(b.legs) >= 1
                    /\ c.legs = b.legs /\ c.terms = b.terms /\ c.answers = b.answers
<1>1. b.at \in Nat \ {0} /\ b.step \in CallSteps /\ Len(b.legs) \in Nat
  BY CallTypes
<1>2. CASE b.at < Len(b.legs)
  <2>1. PICK n \in Nat \ {0}, step \in CallSteps : n = b.at + 1 /\ step = b.step
    BY <1>1
  <2>2. PICK c : c = Moved(b, step, n)
    OBVIOUS
  <2>5. /\ c \in Calls /\ c.step = step /\ c.at = n
        /\ c.legs = b.legs /\ c.terms = b.terms /\ c.answers = b.answers
    <3>1. /\ Moved(b, step, n) \in Calls
          /\ Moved(b, step, n).step = step
          /\ Moved(b, step, n).at = n
          /\ Moved(b, step, n).legs = b.legs
          /\ Moved(b, step, n).terms = b.terms
          /\ Moved(b, step, n).answers = b.answers
      BY CallMoved, Zenon
    <3> QED BY <2>2, <3>1
  <2>3. Moved(b, step, n) = [b EXCEPT !.at = @ + 1]
    BY <2>1 DEF Calls, Moved
  <2>4. call' = c
    BY <1>2, <2>2, <2>3 DEF Turn
  <2> QED BY <1>2, <2>1, <2>4, <2>5
<1>3. CASE b.at >= Len(b.legs) /\ next = "idle"
  <2>1. call' = IdleCall
    BY <1>1, <1>3 DEF Turn
  <2> QED BY <2>1, IdleFits
<1>4. CASE b.at >= Len(b.legs) /\ next # "idle"
  <2>1. PICK c \in Calls : /\ c = Moved(b, next, 1)
                           /\ c.step = next /\ c.at = 1
                           /\ c.legs = b.legs /\ c.terms = b.terms /\ c.answers = b.answers
    <3>1. 1 \in Nat \ {0}
      OBVIOUS
    <3> QED BY <3>1, CallMoved
  <2>2. call' = c
    BY <1>1, <1>4, <2>1 DEF Turn, Moved
  <2>3. b.at = Len(b.legs) /\ Len(b.legs) >= 1
    BY <1>1, <1>4
  <2> QED BY <2>1, <2>2, <2>3
<1> QED BY <1>1, <1>2, <1>3, <1>4

\* A call of a group that has sent nothing.
LEMMA GroupFits ==
    ASSUME NEW c \in Calls, c.step \in GroupSteps \ {"place"}, c.terms = NoTerms,
           c.legs \in Batch, c.at <= Len(c.legs), c.step = "claim" => c.at = 1,
           c.answers = <<>>
    PROVE  CallFits(c)
<1>1. c.step \in {"persist", "decide", "reject", "authorize", "claim"}
  BY DEF GroupSteps
<1> QED BY <1>1 DEF CallFits, GroupSteps, ReplaceSteps, ClaimedSteps

\* The call of a group turns to its next order or to its next check.
LEMMA GroupTurns ==
    ASSUME LinkedInv, call.step \in GroupSteps \ {"place", "claim"}, NEW b \in Calls,
           b.step = call.step, b.at = call.at, b.legs = call.legs, b.terms = call.terms,
           b.answers = call.answers,
           NEW next \in (GroupSteps \ {"place"}) \cup {"idle"}, Turn(b, next)
    PROVE  \E c \in Calls : call' = c /\ CallFits(c)
<1>1. /\ call.step # "idle" /\ call.terms = NoTerms /\ call.legs \in Batch
      /\ call.answers = <<>>
  BY GroupCall
<1>2. call \in Calls /\ call.at \in 1..Len(call.legs)
  BY <1>1, CurrentOrder
<1>3. PICK c \in Calls :
         /\ call' = c
         /\ \/ /\ c.step = b.step /\ c.at = b.at + 1 /\ b.at < Len(b.legs)
               /\ c.legs = b.legs /\ c.terms = b.terms /\ c.answers = b.answers
            \/ c = IdleCall
            \/ /\ c.step = next /\ c.at = 1 /\ Len(b.legs) >= 1
               /\ c.legs = b.legs /\ c.terms = b.terms /\ c.answers = b.answers
  <2>1. next \in CallSteps
    BY DEF CallSteps
  <2> QED BY <1>2, <2>1, TurnOf
<1>4. CASE c.step = b.step /\ c.at = b.at + 1 /\ b.at < Len(b.legs)
           /\ c.legs = b.legs /\ c.terms = b.terms /\ c.answers = b.answers
  <2>1. c.at <= Len(c.legs)
    BY <1>2, <1>4, CallTypes
  <2> QED BY <1>1, <1>3, <1>4, <2>1, GroupFits
<1>5. CASE c = IdleCall
  BY <1>3, <1>5, IdleFits
<1>6. CASE /\ c.step = next /\ c.at = 1 /\ Len(b.legs) >= 1
           /\ c.legs = b.legs /\ c.terms = b.terms /\ c.answers = b.answers
  <2>1. CASE next = "idle"
    BY <1>3, <1>6, <2>1 DEF CallFits, GroupSteps, ReplaceSteps, ClaimedSteps
  <2>2. CASE next # "idle"
    BY <1>1, <1>3, <1>6, <2>2, GroupFits
  <2> QED BY <2>1, <2>2
<1> QED BY <1>3, <1>4, <1>5, <1>6

\* The service asks for a group.
LEMMA SubmitGroupKeeps ==
    ASSUME LinkedInv, NEW g \in Batch, SubmitGroup(g)
    PROVE  Kept
<1>1. LedgerKept /\ OnlyCall
  BY LedgerStands DEF SubmitGroup, OnlyCall, ledgerVars
<1>2. g \in Seq(Orders) /\ Len(g) >= 1
  BY BatchShape
<1> DEFINE c == [IdleCall EXCEPT !.step = "persist", !.legs = g]
<1>3. c \in Calls
  BY <1>2, IdleFits DEF Calls, CallSteps, GroupSteps
<1>4. /\ c.step = "persist" /\ c.terms = NoTerms /\ c.legs = g /\ c.at = 1
      /\ c.answers = <<>>
  BY DEF IdleCall
<1>5. call' = c
  BY DEF SubmitGroup
<1> HIDE DEF c
<1>6. CallFits(c)
  BY <1>2, <1>3, <1>4, GroupFits DEF GroupSteps
<1> QED BY <1>1, <1>3, <1>5, <1>6, OnlyCallKeeps

\* The leg of a group is persisted.
LEMMA PersistKeeps ==
    ASSUME LinkedInv, PersistLeg
    PROVE  Kept
<1>1. call.step = "persist" /\ call.step # "idle" /\ call.step \in GroupSteps \ {"place", "claim"}
  BY DEF PersistLeg, At, GroupSteps
<1>2. Current \in Orders /\ call \in Calls
  BY <1>1, CurrentOrder
<1>3. OnlyCall /\ UNCHANGED book
  BY DEF PersistLeg, OnlyCall
<1>4. LedgerKept
  BY <1>2, <1>3, CreateKept, LedgerStands DEF PersistLeg
<1> DEFINE state == IF Exists(Current) THEN rows[Current].state ELSE "INTENT_PERSISTED"
           fresh == IF state = "INTENT_PERSISTED" THEN call.fresh \cup {Current} ELSE call.fresh
           stale == call.stale \/ state \notin PRE_SUBMISSION_STATES
           b == [call EXCEPT !.fresh = fresh, !.stale = stale]
<1>5. fresh \in SUBSET Orders /\ stale \in BOOLEAN
  BY <1>2 DEF Calls
<1>6. b \in Calls
  <2> HIDE DEF fresh, stale
  <2> QED BY <1>2, <1>5 DEF Calls
<1>7. /\ b.step = call.step /\ b.at = call.at /\ b.legs = call.legs
      /\ b.terms = call.terms /\ b.answers = call.answers
  BY <1>2 DEF Calls
<1>8. Turn(b, "decide")
  BY DEF PersistLeg, Turn
<1> HIDE DEF b
<1>9. PICK c \in Calls : call' = c /\ CallFits(c)
  BY <1>1, <1>6, <1>7, <1>8, GroupTurns DEF GroupSteps
<1> QED BY <1>3, <1>4, <1>9, OnlyCallKeeps

\* The call ends.
LEMMA FinishKeeps ==
    ASSUME LinkedInv, LedgerKept, OnlyCall, Finish
    PROVE  Kept
BY IdleFits, OnlyCallKeeps DEF Finish

\* A group is judged.
LEMMA DecideKeeps ==
    ASSUME LinkedInv, DecideGroup
    PROVE  Kept
<1>1. LedgerKept /\ OnlyCall
  BY LedgerStands DEF DecideGroup, OnlyCall, ledgerVars
<1>2. ASSUME NEW next \in {"authorize", "reject"}, call' = [call EXCEPT !.step = next, !.at = 1]
      PROVE  Kept
  <2>1. call.step = "decide" /\ call.step \in GroupSteps
    BY DEF DecideGroup, At, GroupSteps
  <2>2. /\ call.step # "idle" /\ call.terms = NoTerms /\ call.legs \in Batch
        /\ call.answers = <<>>
    BY <2>1, GroupCall
  <2>3. call \in Calls /\ next \in CallSteps /\ next \in GroupSteps \ {"place"} /\ next # "claim"
    BY <2>2, CurrentOrder DEF CallSteps, GroupSteps
  <2>4. PICK c \in Calls : /\ c = Moved(call, next, 1)
                           /\ c.step = next /\ c.at = 1
                           /\ c.legs = call.legs /\ c.terms = call.terms
                           /\ c.answers = call.answers
    <3>1. 1 \in Nat \ {0}
      OBVIOUS
    <3> QED BY <2>3, <3>1, CallMoved
  <2>5. 1 <= Len(call.legs)
    BY <2>2, BatchShape
  <2>6. CallFits(c)
    BY <2>2, <2>3, <2>4, <2>5, GroupFits
  <2>7. call' = c
    BY <1>2, <2>4 DEF Moved
  <2> QED BY <1>1, <2>6, <2>7, OnlyCallKeeps
<1> QED BY <1>1, <1>2, FinishKeeps DEF DecideGroup

\* A leg is rejected with its group.
LEMMA RejectKeeps ==
    ASSUME LinkedInv, RejectLeg
    PROVE  Kept
<1>1. call.step = "reject" /\ call.step # "idle" /\ call.step \in GroupSteps \ {"place", "claim"}
  BY DEF RejectLeg, At, GroupSteps
<1>2. Current \in Orders /\ call \in Calls
  BY <1>1, CurrentOrder
<1>3. OnlyCall /\ UNCHANGED book
  BY DEF RejectLeg, OnlyCall
<1>4. CASE Transition(Current, "RISK_REJECTED") /\ Turn(call, "idle")
  <2>1. PICK o \in Orders : o = Current
    BY <1>2
  <2>2. "RISK_REJECTED" \in CallerTargets(o)
    BY DEF CallerTargets
  <2>3. LedgerKept
    BY <1>3, <1>4, <2>1, <2>2, TransitionKept
  <2>4. PICK c \in Calls : call' = c /\ CallFits(c)
    BY <1>1, <1>2, <1>4, GroupTurns
  <2> QED BY <1>3, <2>3, <2>4, OnlyCallKeeps
<1>5. CASE Finish /\ UNCHANGED ledgerVars
  BY <1>3, <1>5, FinishKeeps, LedgerStands
<1> QED BY <1>4, <1>5 DEF RejectLeg

\* A leg is authorized, or was before.
LEMMA AuthorizeKeeps ==
    ASSUME LinkedInv, AuthorizeLeg
    PROVE  Kept
<1>1. /\ call.step = "authorize" /\ call.step # "idle"
      /\ call.step \in GroupSteps \ {"place", "claim"}
      /\ "claim" \in GroupSteps \ {"place"}
  BY DEF AuthorizeLeg, At, GroupSteps
<1>2. Current \in Orders /\ call \in Calls
  BY <1>1, CurrentOrder
<1>3. OnlyCall /\ UNCHANGED book
  BY DEF AuthorizeLeg, OnlyCall
<1>4. ASSUME LedgerKept, Turn(call, "claim")
      PROVE  Kept
  <2>1. PICK c \in Calls : call' = c /\ CallFits(c)
    BY <1>1, <1>2, <1>4, GroupTurns
  <2> QED BY <1>3, <1>4, <2>1, OnlyCallKeeps
<1>5. CASE Transition(Current, "AUTHORIZED") /\ Turn(call, "claim")
  <2>1. PICK o \in Orders : o = Current
    BY <1>2
  <2>2. "AUTHORIZED" \in CallerTargets(o)
    BY DEF CallerTargets
  <2>3. LedgerKept
    BY <1>3, <1>5, <2>1, <2>2, TransitionKept
  <2> QED BY <1>4, <1>5, <2>3
<1>6. CASE Turn(call, "claim") /\ UNCHANGED ledgerVars
  BY <1>3, <1>4, <1>6, LedgerStands
<1>7. CASE Finish /\ UNCHANGED ledgerVars
  BY <1>3, <1>7, FinishKeeps, LedgerStands
<1> QED BY <1>5, <1>6, <1>7 DEF AuthorizeLeg

-----------------------------------------------------------------------------
(* The claim of a group.                                                   *)

\* Orders that are claimed only now were not sent before.
LEMMA UnclaimedIsAshore ==
    ASSUME LinkedInv, NEW o \in Orders, ~AtBroker(o)
    PROVE  ~Underway(o)
<1>1. book[o].state = "none"
  BY DEF LinkedInv, PlacementInv
<1>2. ASSUME NEW i \in 1..Len(requests)
      PROVE  ~Places(requests[i], o)
  BY DEF LinkedInv, PlacementInv, Places
<1> QED BY <1>1, <1>2 DEF Underway, Ordered

\* All the legs are claimed, and none of them has been sent.
LEMMA ClaimGroupKeeps ==
    ASSUME LinkedInv, ClaimGroup
    PROVE  Kept
<1>1. call.step = "claim" /\ call.step \in GroupSteps
  BY DEF ClaimGroup, At, GroupSteps
<1>2. /\ call.step # "idle" /\ call.terms = NoTerms /\ call.legs \in Batch
      /\ call.answers = <<>>
  BY <1>1, GroupCall
<1>3. call \in Calls /\ call.at = 1 /\ 1 <= Len(call.legs)
  BY <1>1, <1>2, CurrentOrder, BatchShape DEF CallFits
<1>4. PICK g : g = Legs(call.legs)
  OBVIOUS
<1>5. g \in Groups /\ g \in SUBSET Orders
  BY <1>2, <1>4, BatchShape
<1>6. ASSUME ClaimSubmissionGroup(g), call' = [call EXCEPT !.step = "place"]
      PROVE  Kept
  <2>1. /\ UNCHANGED <<up, record, recovering, requests, reports, book>>
    BY DEF ClaimGroup, OnlyCall, wireVars
  <2>2. /\ \A o \in g : rows[o].state = "AUTHORIZED"
        /\ rows' = [o \in Orders |-> IF o \in g THEN Revised(rows[o], "SUBMITTING")
                                                ELSE rows[o]]
        /\ claims' = [o \in Orders |-> IF o \in g THEN claims[o] + 1 ELSE claims[o]]
    BY <1>6 DEF ClaimSubmissionGroup
  <2>3. IInv' /\ Next
    <3>1. Next
      BY <1>5, <1>6 DEF Next
    <3> QED BY <3>1, StepIInv DEF LinkedInv
  <2>4. rows \in [Orders -> Row] /\ claims \in [Orders -> Nat] /\ ClaimedOnce
    BY DEF LinkedInv, IInv, TypeOK
  <2>5. ASSUME NEW o \in g
        PROVE  ~AtBroker(o) /\ claims'[o] > 0 /\ rows'[o].state = "SUBMITTING"
               /\ rows'[o].brokerId = rows[o].brokerId
    <3>1. claims[o] = 0 /\ rows[o] \in Row /\ o \in Orders
      BY <1>5, <2>2, <2>4 DEF ClaimedOnce, PRE_SUBMISSION_STATES
    <3>2. claims'[o] = 1 /\ rows'[o] = Revised(rows[o], "SUBMITTING")
      BY <2>2, <3>1
    <3> QED BY <3>1, <3>2 DEF AtBroker, Revised, Row
  <2>6. ASSUME NEW o \in Orders, o \notin g
        PROVE  rows'[o] = rows[o] /\ claims'[o] = claims[o]
    BY <2>2, <2>6
  <2>7. \A o \in Orders : AtBroker(o) => AtBroker(o)'
    BY <2>5, <2>6 DEF AtBroker
  <2>8. BracketInv'
    BY <2>1 DEF LinkedInv, BracketInv, Covered, Ordered
  <2>9. PlacementInv'
    <3>1. \A o \in Orders : AtBroker(o)' => Linked(o)
      BY <1>5, <2>6 DEF LinkedInv, PlacementInv, AtBroker, Linked
    <3>2. \A j \in 1..Len(requests) : requests[j].order \in Orders
      <4>1. \A j \in 1..Len(requests) : requests[j] \in Requests
        BY ElementOfSeq DEF LinkedInv, LinkedTypes
      <4> QED BY <4>1 DEF Requests
    <3>3. /\ \A o \in Orders : book[o].state # "none" => claims'[o] > 0
          /\ \A j \in 1..Len(requests) : claims'[requests[j].order] > 0
      BY <2>7, <3>2 DEF LinkedInv, PlacementInv, AtBroker
    <3>4. \A i \in 1..Len(requests) :
             requests[i].kind = "place" /\ requests[i].order \notin Entries =>
                /\ book[requests[i].order].state = "none"
                /\ \A j \in 1..Len(requests) : Places(requests[j], requests[i].order) => j = i
      BY DEF LinkedInv, PlacementInv
    <3> QED BY <2>1, <3>1, <3>3, <3>4 DEF PlacementInv, AtBroker
  <2>10. HearsayInv'
    BY <2>1, HearsayStands
  <2>11. RowsAreTrue'
    <3>1. ASSUME NEW o \in Orders
          PROVE  RowIsTrue(o, rows[o])'
      BY <2>1, <2>5, <2>6 DEF LinkedInv, RowsAreTrue, RowIsTrue, Covered, Refused, AtBroker
    <3> QED BY <3>1 DEF RowsAreTrue
  <2>12. PICK c \in Calls : c = [call EXCEPT !.step = "place"]
    BY <1>3 DEF Calls, CallSteps, GroupSteps
  <2>13. /\ c.step = "place" /\ c.terms = NoTerms /\ c.legs = call.legs /\ c.at = 1
         /\ c.answers = <<>>
    BY <1>2, <1>3, <2>12 DEF Calls
  <2>14. ASSUME NEW i \in 1..Len(c.legs)
         PROVE  AtBroker(c.legs[i])' /\ ~Underway(c.legs[i])'
    <3>1. PICK o \in g : o = c.legs[i]
      BY <1>2, <1>4, <2>13, BatchShape
    <3>2. o \in Orders /\ ~Underway(o) /\ claims'[o] > 0
      BY <1>5, <2>5, UnclaimedIsAshore
    <3> QED BY <2>1, <3>1, <3>2 DEF AtBroker, Underway, Ordered
  <2>15. CallFits(c)'
    BY <1>2, <1>3, <2>13, <2>14 DEF CallFits, GroupSteps, ReplaceSteps, ClaimedSteps
  <2>16. CallInv'
    <3>1. call' = c
      BY <1>6, <2>12
    <3> QED BY <2>15, <3>1 DEF CallInv, CallFits
  <2>17. LinkedTypes'
    <3>1. call' \in Calls
      BY <1>6, <2>12
    <3> QED BY <2>1, <3>1 DEF LinkedInv, LinkedTypes
  <2> QED BY <2>3, <2>8, <2>9, <2>10, <2>11, <2>16, <2>17 DEF LinkedInv, Kept
<1>7. ASSUME Finish, UNCHANGED ledgerVars
      PROVE  Kept
  <2>1. OnlyCall /\ UNCHANGED book
    BY DEF ClaimGroup, OnlyCall
  <2> QED BY <1>7, <2>1, FinishKeeps, LedgerStands
<1> QED BY <1>4, <1>6, <1>7 DEF ClaimGroup

-----------------------------------------------------------------------------
(* The steps of a call that send a request.                                *)

\* The queue with one more request.
LEMMA QueueWithOneMore ==
    ASSUME LinkedInv, NEW m \in Requests, requests' = Append(requests, m)
    PROVE  /\ requests' \in Seq(Requests)
           /\ Len(requests) \in Nat
           /\ Len(requests') = Len(requests) + 1
           /\ \A i \in 1..Len(requests) : requests'[i] = requests[i]
           /\ requests'[Len(requests) + 1] = m
           /\ \A i \in 1..Len(requests) : requests[i] \in Requests
BY AppendProperties, LenProperties, ElementOfSeq DEF LinkedInv, LinkedTypes

\* It brings one order under way, if it places one.
LEMMA SentUnderway ==
    ASSUME LinkedInv, NEW m \in Requests, requests' = Append(requests, m), UNCHANGED book,
           NEW x
    PROVE  Underway(x)' <=> Underway(x) \/ Places(m, x)
<1>1. /\ Len(requests) \in Nat /\ Len(requests') = Len(requests) + 1
      /\ \A i \in 1..Len(requests) : requests'[i] = requests[i]
      /\ requests'[Len(requests) + 1] = m
  BY QueueWithOneMore
<1>2. ASSUME NEW i \in 1..Len(requests), Places(requests[i], x)
      PROVE  Underway(x)'
  <2>1. i \in 1..Len(requests') /\ requests'[i] = requests[i]
    BY <1>1
  <2> QED BY <1>2, <2>1 DEF Underway, Ordered
<1>3. ASSUME Places(m, x)
      PROVE  Underway(x)'
  <2>1. PICK i \in 1..Len(requests') : requests'[i] = m
    BY <1>1
  <2> QED BY <1>3, <2>1 DEF Underway, Ordered
<1>4. ASSUME NEW i \in 1..Len(requests'), Places(requests'[i], x)
      PROVE  Underway(x) \/ Places(m, x)
  <2>1. CASE i \in 1..Len(requests)
    BY <1>1, <1>4, <2>1 DEF Underway, Ordered
  <2>2. CASE i = Len(requests) + 1
    BY <1>1, <1>4, <2>2
  <2> QED BY <1>1, <2>1, <2>2
<1> QED BY <1>2, <1>3, <1>4 DEF Underway, Ordered

\* A request that the invariant allows.
LEMMA SendKeeps ==
    ASSUME LinkedInv, NEW m \in Requests, requests' = Append(requests, m),
           UNCHANGED <<ledgerVars, up, recovering, reports, book>>,
           AtBroker(m.order),
           Releases(m) => \A x \in Fellows(m.order) : Underway(x) \/ Places(m, x),
           m.kind = "place" /\ m.order \notin Entries => ~Underway(m.order),
           record' \in [Orders -> Records], HearsayInv', call' \in Calls, CallInv'
    PROVE  Kept
<1>1. /\ requests' \in Seq(Requests)
      /\ Len(requests) \in Nat /\ Len(requests') = Len(requests) + 1
      /\ \A i \in 1..Len(requests) : requests'[i] = requests[i]
      /\ requests'[Len(requests) + 1] = m
      /\ \A i \in 1..Len(requests) : requests[i] \in Requests
  BY QueueWithOneMore
<1>2. UNCHANGED <<rows, executions, executed, claims>>
  BY DEF ledgerVars
<1>3. IInv' /\ RowsAreTrue'
  <2>1. IInv'
    BY StepIInv DEF LinkedInv
  <2> QED BY <1>2, <2>1 DEF LinkedInv, RowsAreTrue, RowIsTrue, Covered, Refused, AtBroker
<1>4. LinkedTypes'
  BY <1>1 DEF LinkedInv, LinkedTypes
<1>5. ASSUME NEW x, NEW j \in 1..Len(requests), Ordered(x, j)
      PROVE  Ordered(x, j)'
  <2>1. \A i \in 1..j : requests'[i] = requests[i]
    BY <1>1
  <2> QED BY <1>5, <2>1 DEF Ordered
<1>6. BracketInv'
  <2>1. \A o \in Orders : book'[o].state \in Known => Covered(o)'
    BY DEF LinkedInv, BracketInv, Covered
  <2>2. ASSUME NEW j \in 1..Len(requests'), Releases(requests'[j]),
               NEW x \in Fellows(requests'[j].order)
        PROVE  Ordered(x, j)'
    <3>1. CASE j \in 1..Len(requests)
      <4>1. requests'[j] = requests[j]
        BY <1>1, <3>1
      <4>2. Ordered(x, j)
        BY <2>2, <3>1, <4>1 DEF LinkedInv, BracketInv
      <4> QED BY <1>5, <3>1, <4>2
    <3>2. CASE j = Len(requests')
      <4>1. requests'[j] = m
        BY <1>1, <3>2
      <4>2. Underway(x) \/ Places(m, x)
        BY <2>2, <4>1
      <4>3. Underway(x)'
        BY <4>2, SentUnderway
      <4> QED BY <3>2, <4>3 DEF Underway
    <3> QED BY <1>1, <3>1, <3>2
  <2> QED BY <2>1, <2>2 DEF BracketInv
<1>7. PlacementInv'
  <2>1. \A o \in Orders : AtBroker(o)' => Linked(o)
    BY <1>2 DEF LinkedInv, PlacementInv, AtBroker
  <2>2. \A o \in Orders : book'[o].state # "none" => AtBroker(o)'
    BY <1>2 DEF LinkedInv, PlacementInv, AtBroker
  <2>3. ASSUME NEW j \in 1..Len(requests')
        PROVE  claims[requests'[j].order] > 0
    <3>1. CASE j \in 1..Len(requests)
      BY <1>1, <3>1 DEF LinkedInv, PlacementInv, AtBroker
    <3>2. CASE j = Len(requests) + 1
      BY <1>1, <3>2 DEF AtBroker
    <3> QED BY <1>1, <3>1, <3>2
  <2>4. ASSUME NEW i \in 1..Len(requests'), requests'[i].kind = "place",
               requests'[i].order \notin Entries
        PROVE  /\ book[requests'[i].order].state = "none"
               /\ \A j \in 1..Len(requests') : Places(requests'[j], requests'[i].order) => j = i
    <3>1. CASE i \in 1..Len(requests)
      <4>1. requests'[i] = requests[i]
        BY <1>1, <3>1
      <4>2. /\ book[requests[i].order].state = "none"
            /\ \A j \in 1..Len(requests) : Places(requests[j], requests[i].order) => j = i
        BY <2>4, <3>1, <4>1 DEF LinkedInv, PlacementInv
      <4>3. ~Places(m, requests[i].order)
        <5> SUFFICES ASSUME Places(m, requests[i].order)
                     PROVE  FALSE
          OBVIOUS
        <5>1. m.kind = "place" /\ m.order = requests[i].order
          BY DEF Places
        <5>2. ~Underway(m.order)
          BY <2>4, <4>1, <5>1
        <5>3. Places(requests[i], m.order)
          BY <2>4, <4>1, <5>1 DEF Places
        <5> QED BY <3>1, <5>2, <5>3 DEF Underway, Ordered
      <4>4. ASSUME NEW j \in 1..Len(requests'), Places(requests'[j], requests[i].order)
            PROVE  j = i
        <5>1. j # Len(requests) + 1
          BY <1>1, <4>3, <4>4
        <5>2. j \in 1..Len(requests)
          BY <1>1, <5>1
        <5> QED BY <1>1, <4>2, <4>4, <5>2
      <4> QED BY <4>1, <4>2, <4>4
    <3>2. CASE i = Len(requests) + 1
      <4>1. requests'[i] = m
        BY <1>1, <3>2
      <4>2. ~Underway(m.order)
        BY <2>4, <4>1
      <4>3. ASSUME NEW j \in 1..Len(requests'), Places(requests'[j], m.order)
            PROVE  j = i
        <5>1. CASE j \in 1..Len(requests)
          BY <1>1, <4>2, <4>3, <5>1 DEF Underway, Ordered
        <5> QED BY <1>1, <3>2, <5>1
      <4> QED BY <4>1, <4>2, <4>3 DEF Underway, Ordered
    <3> QED BY <1>1, <3>1, <3>2
  <2> QED BY <1>2, <2>1, <2>2, <2>3, <2>4 DEF PlacementInv, AtBroker
<1> QED BY <1>3, <1>4, <1>6, <1>7 DEF LinkedInv, Kept

-----------------------------------------------------------------------------
(* Placing, modifying and withdrawing.                                     *)

\* A new record and its request have their types, and the record says nothing yet.
LEMMA FreshRecord ==
    ASSUME NEW terms \in Terms
    PROVE  Registered(terms) \in Records /\ ~Registered(terms).acknowledged
<1>1. TermQuantity[terms] \in Nat
  BY TermsAssumption
<1> QED BY <1>1 DEF Registered, NoRecord, Records

\* The requests of the adapter.
LEMMA RequestTypes ==
    ASSUME NEW o \in Orders
    PROVE  /\ \A terms \in Terms, transmit \in BOOLEAN :
                 /\ Placement(o, terms, transmit) \in Requests
                 /\ Placement(o, terms, transmit).kind = "place"
                 /\ Placement(o, terms, transmit).order = o
                 /\ Placement(o, terms, transmit).transmit = transmit
           /\ Withdrawal(o) \in Requests
           /\ Withdrawal(o).kind = "cancel"
           /\ Withdrawal(o).order = o
BY DEF Placement, Withdrawal, Requests

\* The records stay true where some of them are new.
LEMMA HearsayRenewed ==
    ASSUME LinkedInv, UNCHANGED <<reports, book>>,
           \A o \in Orders : record'[o] = record[o] \/ ~record'[o].acknowledged
    PROVE  HearsayInv'
<1>1. ASSUME NEW o \in Orders
      PROVE  RecordIsTrue(o, record[o])'
  BY <1>1 DEF LinkedInv, HearsayInv, RecordIsTrue, Heard, Covered
<1>2. \A k \in 1..Len(reports') : Tells(reports[k])'
  BY DEF LinkedInv, HearsayInv, Tells, Heard, Refused, Covered
<1> QED BY <1>1, <1>2 DEF HearsayInv

\* The legs of a group are placed one after the other.  The last leg of a bracket is the
\* first that may release anything, and by then the others are under way.
LEMMA PlaceKeeps ==
    ASSUME LinkedInv, PlaceLeg
    PROVE  Kept
<1>1. call.step = "place" /\ call.step \in GroupSteps
  BY DEF PlaceLeg, At, GroupSteps
<1>2. /\ call.step # "idle" /\ call.terms = NoTerms /\ call.legs \in Batch
      /\ call.answers = <<>>
  BY <1>1, GroupCall
<1>3. call \in Calls /\ CallFits(call) /\ call.at \in 1..Len(call.legs) /\ Current \in Orders
  BY <1>2, CurrentOrder
<1>4. PICK b \in Calls : b = call
  BY <1>3
<1>5. /\ b.legs \in Batch /\ b.at \in 1..Len(b.legs) /\ Len(b.legs) \in Nat
      /\ b.terms = NoTerms /\ b.answers = <<>> /\ b.step = "place"
  BY <1>1, <1>2, <1>3, <1>4, CallTypes
<1>6. PICK o \in Orders : o = b.legs[b.at]
  BY <1>3, <1>4 DEF Current
<1>7. /\ \A i \in 1..(b.at - 1) : Underway(b.legs[i])
      /\ \A i \in b.at..Len(b.legs) : ~Underway(b.legs[i])
      /\ \A i \in 1..Len(b.legs) : AtBroker(b.legs[i])
  BY <1>3, <1>4, <1>5 DEF CallFits, ClaimedSteps
<1>8. /\ \A i, j \in 1..Len(b.legs) : b.legs[i] = b.legs[j] => i = j
      /\ Legs(b.legs) = {b.legs[i] : i \in 1..Len(b.legs)}
      /\ o \in Legs(b.legs)
  BY <1>5, <1>6, BatchShape
<1>9. PICK transmit \in BOOLEAN : transmit = Transmits(b.legs, b.at)
  BY DEF Transmits
<1>10. InitialTerms[o] \in Terms
  BY LedgerAssumption
<1>11. PICK m \in Requests : /\ m = Placement(o, InitialTerms[o], transmit)
                             /\ m.kind = "place" /\ m.order = o /\ m.transmit = transmit
  BY <1>10, RequestTypes
<1>12. /\ requests' = Append(requests, m)
       /\ UNCHANGED <<ledgerVars, up, recovering, reports, book>>
  BY <1>4, <1>6, <1>9, <1>11 DEF PlaceLeg, Current
<1>13. AtBroker(o) /\ ~Underway(o)
  <2>1. b.at \in b.at..Len(b.legs)
    BY <1>5
  <2> QED BY <1>5, <1>6, <1>7, <2>1
<1>14. ASSUME Releases(m), NEW x \in Fellows(o)
       PROVE  Underway(x) \/ Places(m, x)
  <2>1. b.legs \in Brackets /\ x \in Legs(b.legs)
    BY <1>5, <1>8, <1>14, FellowsOfLeg
  <2>2. b.legs \notin OcaGroups
    BY <2>1, LinkedAssumption
  <2>3. b.at = Len(b.legs)
    BY <1>9, <1>11, <1>14, <2>2 DEF Releases, Transmits
  <2>4. PICK i \in 1..Len(b.legs) : x = b.legs[i]
    BY <1>8, <2>1
  <2>5. CASE i = b.at
    BY <1>6, <1>11, <2>4, <2>5 DEF Places
  <2>6. CASE i # b.at
    <3>1. i \in 1..(b.at - 1)
      BY <1>5, <2>3, <2>6
    <3> QED BY <1>7, <2>4, <3>1
  <2> QED BY <2>5, <2>6
<1>15. /\ record' \in [Orders -> Records]
       /\ \A x \in Orders : record'[x] = record[x] \/ ~record'[x].acknowledged
  <2>1. record \in [Orders -> Records]
    BY DEF LinkedInv, LinkedTypes
  <2>2. \A x \in Orders : /\ Registered(InitialTerms[x]) \in Records
                          /\ ~Registered(InitialTerms[x]).acknowledged
    BY FreshRecord, LedgerAssumption
  <2>3. \/ record' = record
        \/ record' = [x \in Orders |-> IF x \in Legs(call.legs) THEN Registered(InitialTerms[x])
                                                                 ELSE record[x]]
    BY DEF PlaceLeg
  <2> QED BY <2>1, <2>2, <2>3
<1>16. HearsayInv'
  BY <1>12, <1>15, HearsayRenewed
<1>17. PICK c \in Calls :
          /\ call' = c
          /\ \/ /\ c.step = "place" /\ c.at = b.at + 1 /\ b.at < Len(b.legs)
                /\ c.legs = b.legs /\ c.terms = NoTerms /\ c.answers = <<>>
             \/ c = IdleCall
             \/ /\ c.step = "await" /\ c.at = 1 /\ b.at = Len(b.legs)
                /\ c.legs = b.legs /\ c.terms = NoTerms /\ c.answers = <<>>
  <2>1. Turn(b, "await") /\ "await" \in CallSteps
    BY <1>4 DEF PlaceLeg, CallSteps, ClaimedSteps
  <2> QED BY <1>3, <1>4, <1>5, <2>1, TurnOf
<1>18. ASSUME NEW i \in 1..Len(b.legs)
       PROVE  /\ Underway(b.legs[i])' <=> i <= b.at
              /\ AtBroker(b.legs[i])'
  <2>1. PICK x \in Orders : x = b.legs[i]
    BY <1>5, BatchShape
  <2>2. Underway(x)' <=> Underway(x) \/ Places(m, x)
    BY <1>12, SentUnderway
  <2>3. Places(m, x) <=> i = b.at
    BY <1>5, <1>6, <1>8, <1>11, <2>1 DEF Places
  <2>4. IF i \in 1..(b.at - 1) THEN Underway(x) ELSE ~Underway(x)
    <3>1. i \in 1..(b.at - 1) \/ i \in b.at..Len(b.legs)
      BY <1>5
    <3>2. ~(i \in 1..(b.at - 1) /\ i \in b.at..Len(b.legs))
      BY <1>5
    <3> QED BY <1>7, <2>1, <3>1, <3>2
  <2>5. Underway(x)' <=> i <= b.at
    BY <1>5, <2>2, <2>3, <2>4
  <2>6. AtBroker(x)'
    BY <1>7, <1>12, <2>1 DEF AtBroker, ledgerVars
  <2> QED BY <2>1, <2>5, <2>6
<1>19. CallFits(c)'
  <2>1. CASE c = IdleCall
    BY <2>1 DEF IdleCall, CallFits, GroupSteps, ReplaceSteps, ClaimedSteps
  <2>2. CASE /\ c.step = "place" /\ c.at = b.at + 1 /\ b.at < Len(b.legs)
             /\ c.legs = b.legs /\ c.terms = NoTerms /\ c.answers = <<>>
    <3>1. /\ \A i \in 1..(c.at - 1) : Underway(c.legs[i])'
          /\ \A i \in c.at..Len(c.legs) : ~Underway(c.legs[i])'
          /\ \A i \in 1..Len(c.legs) : AtBroker(c.legs[i])'
      BY <1>5, <1>18, <2>2
    <3>2. c.at <= Len(c.legs)
      BY <1>5, <2>2
    <3> QED BY <1>5, <2>2, <3>1, <3>2 DEF CallFits, GroupSteps, ReplaceSteps, ClaimedSteps
  <2>3. CASE /\ c.step = "await" /\ c.at = 1 /\ b.at = Len(b.legs)
             /\ c.legs = b.legs /\ c.terms = NoTerms /\ c.answers = <<>>
    <3>1. \A i \in 1..Len(c.legs) : Underway(c.legs[i])' /\ AtBroker(c.legs[i])'
      BY <1>5, <1>18, <2>3
    <3>2. ASSUME NEW i \in 1..Len(c.legs), NEW x \in Fellows(c.legs[i])
          PROVE  Underway(x)'
      <4>1. c.legs[i] \in Legs(b.legs)
        BY <1>8, <2>3
      <4>2. x \in Legs(b.legs)
        BY <1>5, <3>2, <4>1, FellowsOfLeg
      <4>3. PICK j \in 1..Len(b.legs) : x = b.legs[j]
        BY <1>8, <4>2
      <4> QED BY <2>3, <3>1, <4>3
    <3>3. c.at <= Len(c.legs) /\ Len(c.answers) = c.at - 1 /\ Len(c.answers) = 0
      BY <1>5, <2>3, EmptySeq
    <3> QED BY <1>5, <2>3, <3>1, <3>2, <3>3 DEF CallFits, GroupSteps, ReplaceSteps, ClaimedSteps
  <2> QED BY <1>17, <2>1, <2>2, <2>3
<1>20. CallInv' /\ call' \in Calls
  BY <1>17, <1>19 DEF CallInv, CallFits
<1> QED BY <1>11, <1>12, <1>13, <1>14, <1>15, <1>16, <1>20, SendKeeps

\* Where a call goes on after the claim.
LEMMA ClaimedFits ==
    ASSUME NEW b \in Calls, CallFits(b), b.step \in ClaimedSteps,
           NEW c \in Calls, c.step \in {"await", "withdraw", "unknown", "apply"},
           c.legs = b.legs, c.terms = b.terms, c.at <= Len(c.legs),
           c.step \in {"await", "withdraw"} =>
              \A i \in 1..Len(c.legs) : \A x \in Fellows(c.legs[i]) : Underway(x),
           c.step = "await" => Len(c.answers) = c.at - 1,
           c.step = "apply" => Len(c.answers) = Len(c.legs),
           c.step \in {"await", "apply"} =>
              \A i \in 1..Len(c.answers) : Heard(c.legs[i], c.answers[i])
    PROVE  CallFits(c)
<1>1. b.step # "idle" /\ c.step \notin GroupSteps \cup ReplaceSteps
  BY DEF GroupSteps, ReplaceSteps, ClaimedSteps
<1>2. /\ b.terms = NoTerms => b.legs \in Batch
      /\ b.terms # NoTerms =>
            Len(b.legs) = 1 /\ rows[b.legs[1]].brokerId /\ Replaceable(b.legs[1])
      /\ \A i \in 1..Len(b.legs) : AtBroker(b.legs[i])
  BY <1>1 DEF CallFits
<1> QED BY <1>1, <1>2 DEF CallFits

\* A placement that raises: nothing was sent.
LEMMA RaiseKeeps ==
    ASSUME LinkedInv, PlacementRaises \/ ModifyRaises
    PROVE  Kept
<1>1. call.step \in ClaimedSteps /\ call.step # "idle"
  BY DEF PlacementRaises, ModifyRaises, At, ClaimedSteps
<1>2. call \in Calls /\ CallFits(call) /\ call.at <= Len(call.legs)
  BY <1>1, CurrentOrder DEF CallFits
<1>3. OnlyCall /\ LedgerKept
  BY LedgerStands DEF PlacementRaises, ModifyRaises, OnlyCall
<1>4. PICK c \in Calls : c = [call EXCEPT !.step = "unknown"]
  BY <1>2 DEF Calls, CallSteps, ClaimedSteps
<1>5. c.step = "unknown" /\ c.legs = call.legs /\ c.terms = call.terms /\ c.at = call.at
  BY <1>2, <1>4 DEF Calls
<1>6. CallFits(c)
  BY <1>1, <1>2, <1>5, ClaimedFits
<1>7. call' = c
  BY <1>4 DEF PlacementRaises, ModifyRaises
<1> QED BY <1>3, <1>6, <1>7, OnlyCallKeeps

\* The call of a replacement has one order, which is an entry.
LEMMA ReplaceCall ==
    ASSUME LinkedInv, call.step \in ReplaceSteps
    PROVE  /\ call.step # "idle" /\ call.terms \in Terms /\ call.answers = <<>>
           /\ call.at = 1 /\ Len(call.legs) = 1 /\ Current = call.legs[1]
           /\ rows[Current].brokerId /\ Replaceable(Current)
<1>1. call.step # "idle"
  BY DEF ReplaceSteps
<1>2. call \in Calls /\ CallFits(call) /\ call.at \in 1..Len(call.legs)
  BY <1>1, CurrentOrder
<1>3. /\ call.terms # NoTerms /\ call.terms \in Terms \cup {NoTerms} /\ call.answers = <<>>
      /\ Len(call.legs) = 1 /\ rows[call.legs[1]].brokerId /\ Replaceable(call.legs[1])
  BY <1>1, <1>2, CallTypes DEF CallFits
<1>4. call.at = 1
  BY <1>2, <1>3
<1> QED BY <1>1, <1>3, <1>4 DEF Current

\* A replacement is asked for.
LEMMA ReplaceKeeps ==
    ASSUME LinkedInv, NEW o \in Orders, NEW terms \in Terms, Replace(o, terms)
    PROVE  Kept
<1>1. UNCHANGED <<ledgerVars, up, record, recovering, requests, reports, book>>
  BY DEF Replace, wireVars
<1>2. LedgerKept /\ HearsayInv'
  BY <1>1, LedgerStands, HearsayStands
<1>3. PICK s \in Seq(Orders), revision \in Nat : s = <<o>> /\ revision = rows[o].revision
  <2>1. rows[o] \in Row
    BY DEF LinkedInv, IInv, TypeOK
  <2>2. rows[o].revision \in Nat
    BY <2>1 DEF Row
  <2>3. <<o>> \in Seq(Orders)
    OBVIOUS
  <2> QED BY <2>2, <2>3
<1>4. s[1] = o /\ Len(s) = 1 /\ DOMAIN s = {1}
  BY <1>3
<1>5. PICK c \in Calls : c = [IdleCall EXCEPT !.step = "reclaim", !.legs = s, !.terms = terms,
                                              !.revision = revision]
  BY IdleFits DEF Calls, CallSteps, ReplaceSteps
<1>6. /\ c.step = "reclaim" /\ c.legs = s /\ c.terms = terms /\ c.at = 1 /\ c.answers = <<>>
  BY <1>5 DEF IdleCall
<1>7. terms # NoTerms /\ rows[o].brokerId /\ Replaceable(o)
  BY TermsAssumption DEF Replace
<1>8. CallFits(c)
  BY <1>4, <1>6, <1>7 DEF CallFits, GroupSteps, ReplaceSteps, ClaimedSteps
<1>9. call' = c
  BY <1>3, <1>5 DEF Replace
<1>10. /\ up' \in BOOLEAN /\ recovering' \in SUBSET Orders /\ record' \in [Orders -> Records]
       /\ reports' \in Seq(Reports)
  BY <1>1 DEF LinkedInv, LinkedTypes
<1> QED BY <1>1, <1>2, <1>8, <1>9, <1>10, QuietKeeps

\* It is claimed, or the row has changed.
LEMMA ClaimReplaceKeeps ==
    ASSUME LinkedInv, ClaimReplace
    PROVE  Kept
<1>1. call.step \in ReplaceSteps /\ OnlyCall /\ UNCHANGED book
  BY DEF ClaimReplace, At, ReplaceSteps, OnlyCall
<1>2. /\ call.step # "idle" /\ call.terms \in Terms /\ call.answers = <<>>
      /\ call.at = 1 /\ Len(call.legs) = 1 /\ Current = call.legs[1]
      /\ rows[Current].brokerId /\ Replaceable(Current)
  BY <1>1, ReplaceCall
<1>3. call \in Calls /\ Current \in Orders
  BY <1>2, CurrentOrder
<1>4. PICK o \in Orders, terms \in Terms : o = Current /\ terms = call.terms
  BY <1>2, <1>3
<1>5. ASSUME ClaimReplacement(o, terms), call' = [call EXCEPT !.step = "modify"]
      PROVE  Kept
  <2>1. LedgerKept
    BY <1>1, <1>5, ReplacementKept
  <2>2. PICK c \in Calls : c = [call EXCEPT !.step = "modify"]
    BY <1>3 DEF Calls, CallSteps, ReplaceSteps
  <2>3. /\ c.step = "modify" /\ c.legs = call.legs /\ c.terms = call.terms /\ c.at = 1
        /\ c.answers = <<>>
    BY <1>2, <1>3, <2>2 DEF Calls
  <2>4. AtBroker(o)
    <3>1. rows[o].state \in WORKING_STATES /\ ClaimedOnce
      BY <1>5 DEF ClaimReplacement, MayReplace, WORKING_STATES, LinkedInv, IInv
    <3> QED BY <3>1 DEF ClaimedOnce, AtBroker
  <2>5. \A i \in 1..Len(c.legs) : AtBroker(c.legs[i])
    BY <1>2, <1>4, <2>3, <2>4
  <2>6. c.terms # NoTerms /\ c.at <= Len(c.legs)
    BY <1>2, <2>3, TermsAssumption
  <2>7. CallFits(c)
    BY <1>2, <2>3, <2>5, <2>6 DEF CallFits, GroupSteps, ReplaceSteps, ClaimedSteps
  <2> QED BY <1>1, <1>5, <2>1, <2>2, <2>7, OnlyCallKeeps
<1>6. CASE Finish /\ UNCHANGED ledgerVars
  BY <1>1, <1>6, FinishKeeps, LedgerStands
<1> QED BY <1>4, <1>5, <1>6 DEF ClaimReplace

\* The entry of a bracket is modified: the row has its identity, so that the whole bracket
\* is at the broker already.
LEMMA ModifyKeeps ==
    ASSUME LinkedInv, ModifyOrder
    PROVE  Kept
<1>1. call.step = "modify" /\ call.step \in ReplaceSteps /\ call.step \in ClaimedSteps
  BY DEF ModifyOrder, At, ReplaceSteps, ClaimedSteps
<1>2. /\ call.step # "idle" /\ call.terms \in Terms /\ call.answers = <<>>
      /\ call.at = 1 /\ Len(call.legs) = 1 /\ Current = call.legs[1]
      /\ rows[Current].brokerId /\ Replaceable(Current)
  BY <1>1, ReplaceCall
<1>3. call \in Calls /\ CallFits(call) /\ Current \in Orders
  BY <1>2, CurrentOrder
<1>4. PICK o \in Orders, terms \in Terms : o = Current /\ terms = call.terms
  BY <1>2, <1>3
<1>5. AtBroker(o) /\ Covered(o)
  <2>1. AtBroker(call.legs[1])
    BY <1>1, <1>2, <1>3 DEF CallFits
  <2>2. Covered(o)
    BY <1>2, <1>4 DEF LinkedInv, RowsAreTrue, RowIsTrue
  <2> QED BY <1>2, <1>4, <2>1, <2>2
<1>6. o \in Entries
  BY <1>2, <1>4, <1>5 DEF LinkedInv, PlacementInv, Replaceable
<1>7. \A x \in Fellows(o) : Underway(x)
  BY <1>5 DEF Covered, Underway, Ordered
<1>8. PICK m \in Requests : m = Placement(o, terms, TRUE) /\ m.kind = "place" /\ m.order = o
  <2>1. PICK transmit \in BOOLEAN : transmit = TRUE
    OBVIOUS
  <2>2. PICK m \in Requests : /\ m = Placement(o, terms, transmit)
                              /\ m.kind = "place" /\ m.order = o
    BY RequestTypes
  <2> QED BY <2>1, <2>2
<1>9. /\ requests' = Append(requests, m)
      /\ UNCHANGED <<ledgerVars, up, recovering, reports, book>>
      /\ record' = [record EXCEPT ![o] = Registered(terms)]
      /\ call' = [call EXCEPT !.step = "await"]
  BY <1>4, <1>8 DEF ModifyOrder
<1>10. /\ record' \in [Orders -> Records]
       /\ \A x \in Orders : record'[x] = record[x] \/ ~record'[x].acknowledged
  <2>1. record \in [Orders -> Records]
    BY DEF LinkedInv, LinkedTypes
  <2>2. Registered(terms) \in Records /\ ~Registered(terms).acknowledged
    BY FreshRecord
  <2> QED BY <1>9, <2>1, <2>2
<1>11. HearsayInv'
  BY <1>9, <1>10, HearsayRenewed
<1>12. PICK c \in Calls : c = [call EXCEPT !.step = "await"]
  BY <1>3 DEF Calls, CallSteps, ClaimedSteps
<1>13. /\ c.step = "await" /\ c.legs = call.legs /\ c.terms = call.terms /\ c.at = 1
       /\ c.answers = <<>>
  BY <1>2, <1>3, <1>12 DEF Calls
<1>14. CallFits(c)
  <2>1. /\ c.at <= Len(c.legs) /\ Len(c.answers) = c.at - 1 /\ Len(c.answers) = 0
    BY <1>2, <1>13, EmptySeq
  <2>2. \A i \in 1..Len(c.legs) : \A x \in Fellows(c.legs[i]) : Underway(x)
    BY <1>2, <1>4, <1>7, <1>13
  <2> QED BY <1>1, <1>3, <1>13, <2>1, <2>2, ClaimedFits
<1>15. Onward
  <2>1. BookGrows
    BY <1>9, BookStands DEF LinkedInv, LinkedTypes
  <2>2. ASSUME NEW x \in Orders
        PROVE  Underway(x)' <=> Underway(x)
    <3>1. Places(m, x) => Underway(x)
      BY <1>6, <1>7, <1>8, EntryIsFellow DEF Places
    <3> QED BY <1>9, <3>1, SentUnderway
  <2>3. \A x \in Orders : /\ AtBroker(x) => AtBroker(x)'
                          /\ rows[x].brokerId => rows'[x].brokerId
    BY <1>9 DEF ledgerVars, AtBroker
  <2> QED BY <2>1, <2>2, <2>3 DEF Onward
<1>16. CallInv' /\ call' \in Calls
  <2>1. CallFits(c)'
    BY <1>14, <1>15, CallFitsStays
  <2>2. call' = c
    BY <1>9, <1>12
  <2> QED BY <2>1, <2>2 DEF CallInv, CallFits
<1> QED BY <1>5, <1>6, <1>7, <1>8, <1>9, <1>10, <1>11, <1>16, SendKeeps

\* The legs of a call that did not succeed are withdrawn, one after the other.
LEMMA WithdrawKeeps ==
    ASSUME LinkedInv, WithdrawLeg
    PROVE  Kept
<1>1. call.step = "withdraw" /\ call.step \in ClaimedSteps /\ call.step # "idle"
  BY DEF WithdrawLeg, At, ClaimedSteps
<1>2. call \in Calls /\ CallFits(call) /\ call.at \in 1..Len(call.legs) /\ Current \in Orders
  BY <1>1, CurrentOrder
<1>3. PICK o \in Orders : o = Current
  BY <1>2
<1>4. AtBroker(o) /\ \A x \in Fellows(o) : Underway(x)
  BY <1>1, <1>2, <1>3 DEF CallFits, Current
<1>5. PICK m \in Requests : m = Withdrawal(o) /\ m.kind = "cancel" /\ m.order = o
  BY RequestTypes
<1>6. /\ requests' = Append(requests, m)
      /\ UNCHANGED <<ledgerVars, up, record, recovering, reports, book>>
  BY <1>3, <1>5 DEF WithdrawLeg
<1>7. record' \in [Orders -> Records] /\ HearsayInv'
  BY <1>6, HearsayStands DEF LinkedInv, LinkedTypes
<1>8. Onward
  <2>1. BookGrows
    BY <1>6, BookStands DEF LinkedInv, LinkedTypes
  <2>2. ASSUME NEW x \in Orders
        PROVE  Underway(x)' <=> Underway(x)
    <3>1. ~Places(m, x)
      BY <1>5 DEF Places
    <3> QED BY <1>6, <3>1, SentUnderway
  <2>3. \A x \in Orders : /\ AtBroker(x) => AtBroker(x)'
                          /\ rows[x].brokerId => rows'[x].brokerId
    BY <1>6 DEF ledgerVars, AtBroker
  <2> QED BY <2>1, <2>2, <2>3 DEF Onward
<1>9. PICK c \in Calls :
         /\ call' = c
         /\ \/ /\ c.step = call.step /\ c.at = call.at + 1 /\ call.at < Len(call.legs)
               /\ c.legs = call.legs /\ c.terms = call.terms
            \/ c = IdleCall
            \/ /\ c.step = "unknown" /\ c.at = 1 /\ Len(call.legs) >= 1
               /\ c.legs = call.legs /\ c.terms = call.terms
  <2>1. Turn(call, "unknown") /\ "unknown" \in CallSteps
    BY DEF WithdrawLeg, CallSteps, ClaimedSteps
  <2> QED BY <1>2, <2>1, TurnOf
<1>10. CallFits(c)
  <2>1. CASE c = IdleCall
    BY <2>1, IdleFits
  <2>2. CASE c # IdleCall
    <3>1. /\ c.step \in {"withdraw", "unknown"}
          /\ c.legs = call.legs /\ c.terms = call.terms
      BY <1>1, <1>9, <2>2
    <3>2. c.at <= Len(c.legs)
      BY <1>2, <1>9, <2>2
    <3>3. \A i \in 1..Len(c.legs) : \A x \in Fellows(c.legs[i]) : Underway(x)
      BY <1>1, <1>2, <3>1 DEF CallFits
    <3> QED BY <1>1, <1>2, <3>1, <3>2, <3>3, ClaimedFits
  <2> QED BY <2>1, <2>2
<1>11. CallInv' /\ call' \in Calls
  <2>1. CallFits(c)'
    BY <1>8, <1>10, CallFitsStays
  <2> QED BY <1>9, <2>1 DEF CallInv, CallFits
<1> QED BY <1>4, <1>5, <1>6, <1>7, <1>11, SendKeeps

\* What a report has told of an order is a status, and true.
LEMMA RecordTold ==
    ASSUME LinkedInv, NEW o \in Orders, record[o].acknowledged
    PROVE  StatusOfRecord(record[o]) \in Statuses /\ Heard(o, StatusOfRecord(record[o]))
<1>1. record[o] \in Records /\ RecordIsTrue(o, record[o])
  BY DEF LinkedInv, LinkedTypes, HearsayInv
<1>2. record[o].word \in EndWords /\ Heard(o, StatusOfRecord(record[o]))
  BY <1>1 DEF RecordIsTrue
<1>3. /\ record[o].terms \in Terms \cup {NoTerms}
      /\ record[o].filled \in Nat /\ record[o].remaining \in Nat
  BY <1>1 DEF Records
<1> QED BY <1>2, <1>3 DEF StatusOfRecord, Statuses

\* The call waits for its orders.
LEMMA AwaitKeeps ==
    ASSUME LinkedInv, AwaitLeg
    PROVE  Kept
<1>1. call.step = "await" /\ call.step \in ClaimedSteps /\ call.step # "idle"
  BY DEF AwaitLeg, At, ClaimedSteps
<1>2. call \in Calls /\ CallFits(call) /\ call.at \in 1..Len(call.legs) /\ Current \in Orders
  BY <1>1, CurrentOrder
<1>3. OnlyCall /\ LedgerKept
  BY LedgerStands DEF AwaitLeg, OnlyCall
<1>4. /\ Len(call.legs) \in Nat /\ Len(call.answers) = call.at - 1
      /\ call.answers \in Seq(Statuses)
      /\ \A i \in 1..Len(call.answers) : Heard(call.legs[i], call.answers[i])
      /\ \A i \in 1..Len(call.legs) : \A x \in Fellows(call.legs[i]) : Underway(x)
  BY <1>1, <1>2, CallTypes DEF CallFits
<1>5. PICK o \in Orders : o = Current /\ o = call.legs[call.at]
  BY <1>2 DEF Current
<1>6. ASSUME Acknowledged(o),
             Turn([call EXCEPT !.answers = Append(@, StatusOfRecord(record[o]))], "apply")
      PROVE  Kept
  <2>1. PICK st \in Statuses : st = StatusOfRecord(record[o]) /\ Heard(o, st)
    BY <1>6, RecordTold DEF Acknowledged
  <2>2. PICK answers \in Seq(Statuses) : answers = Append(call.answers, st)
    BY <1>4, AppendProperties
  <2>3. /\ Len(answers) = call.at /\ answers[call.at] = st
        /\ \A i \in 1..(call.at - 1) : answers[i] = call.answers[i]
    BY <1>2, <1>4, <2>2, AppendProperties
  <2>4. PICK b \in Calls : b = [call EXCEPT !.answers = answers]
    BY <1>2 DEF Calls
  <2>5. /\ b.step = call.step /\ b.at = call.at /\ b.legs = call.legs /\ b.terms = call.terms
        /\ b.answers = answers
    BY <1>2, <2>4 DEF Calls
  <2>6. b = [call EXCEPT !.answers = Append(@, StatusOfRecord(record[o]))]
    BY <1>2, <2>1, <2>2, <2>4 DEF Calls
  <2>7. Turn(b, "apply") /\ "apply" \in CallSteps
    BY <1>6, <2>6 DEF CallSteps, ClaimedSteps
  <2>8. PICK c \in Calls :
           /\ call' = c
           /\ \/ /\ c.step = b.step /\ c.at = b.at + 1 /\ b.at < Len(b.legs)
                 /\ c.legs = b.legs /\ c.terms = b.terms /\ c.answers = b.answers
              \/ c = IdleCall
              \/ /\ c.step = "apply" /\ c.at = 1 /\ b.at = Len(b.legs) /\ Len(b.legs) >= 1
                 /\ c.legs = b.legs /\ c.terms = b.terms /\ c.answers = b.answers
    BY <1>2, <2>5, <2>7, TurnOf
  <2>9. ASSUME NEW i \in 1..Len(answers)
        PROVE  Heard(call.legs[i], answers[i])
    <3>1. CASE i = call.at
      BY <1>5, <2>1, <2>3, <3>1
    <3>2. CASE i # call.at
      <4>1. i \in 1..(call.at - 1) /\ i \in 1..Len(call.answers)
        BY <1>2, <1>4, <2>3, <3>2
      <4> QED BY <1>4, <2>3, <4>1
    <3> QED BY <3>1, <3>2
  <2>10. CASE c = IdleCall
    BY <1>3, <2>8, <2>10, IdleFits, OnlyCallKeeps
  <2>11. CASE c # IdleCall
    <3>1. /\ c.legs = call.legs /\ c.terms = call.terms /\ c.answers = answers
          /\ c.step \in {"await", "apply"}
      BY <1>1, <2>5, <2>8, <2>11
    <3>2. /\ c.at <= Len(c.legs)
          /\ c.step = "await" => Len(c.answers) = c.at - 1
          /\ c.step = "apply" => Len(c.answers) = Len(c.legs)
      BY <1>1, <1>2, <1>4, <2>3, <2>5, <2>8, <2>11
    <3>3. \A i \in 1..Len(c.answers) : Heard(c.legs[i], c.answers[i])
      BY <2>9, <3>1
    <3>4. CallFits(c)
      BY <1>1, <1>2, <1>4, <3>1, <3>2, <3>3, ClaimedFits
    <3> QED BY <1>3, <2>8, <3>4, OnlyCallKeeps
  <2> QED BY <2>10, <2>11
<1>7. ASSUME call' = [call EXCEPT !.step = "withdraw", !.at = 1]
      PROVE  Kept
  <2>1. "withdraw" \in CallSteps /\ 1 \in Nat \ {0}
    BY DEF CallSteps, ClaimedSteps
  <2>2. PICK c \in Calls : /\ c = Moved(call, "withdraw", 1)
                           /\ c.step = "withdraw" /\ c.at = 1
                           /\ c.legs = call.legs /\ c.terms = call.terms
    BY <1>2, <2>1, CallMoved
  <2>3. call' = c
    BY <1>7, <2>2 DEF Moved
  <2>4. c.at <= Len(c.legs)
    BY <1>2, <2>2
  <2>5. CallFits(c)
    BY <1>1, <1>2, <1>4, <2>2, <2>4, ClaimedFits
  <2> QED BY <1>3, <2>3, <2>5, OnlyCallKeeps
<1> QED BY <1>5, <1>6, <1>7 DEF AwaitLeg

\* The last two steps go from order to order.
LEMMA AfterwardsFits ==
    ASSUME LinkedInv, call.step \in {"unknown", "apply"}, Turn(call, "idle")
    PROVE  \E c \in Calls : call' = c /\ CallFits(c)
<1>1. call.step \in ClaimedSteps /\ call.step # "idle"
  BY DEF ClaimedSteps
<1>2. call \in Calls /\ CallFits(call) /\ call.at \in 1..Len(call.legs)
  BY <1>1, CurrentOrder
<1>3. PICK c \in Calls :
         /\ call' = c
         /\ \/ /\ c.step = call.step /\ c.at = call.at + 1 /\ call.at < Len(call.legs)
               /\ c.legs = call.legs /\ c.terms = call.terms /\ c.answers = call.answers
            \/ c = IdleCall
            \/ c.step = "idle"
  <2>1. "idle" \in CallSteps
    BY DEF CallSteps
  <2> QED BY <1>2, <2>1, TurnOf
<1>4. CASE c = IdleCall
  BY <1>3, <1>4, IdleFits
<1>5. CASE c.step = "idle"
  BY <1>3, <1>5 DEF CallFits, GroupSteps, ReplaceSteps, ClaimedSteps
<1>6. CASE /\ c.step = call.step /\ c.at = call.at + 1 /\ call.at < Len(call.legs)
           /\ c.legs = call.legs /\ c.terms = call.terms /\ c.answers = call.answers
  <2>1. c.at <= Len(c.legs)
    BY <1>2, <1>6, CallTypes
  <2>2. /\ c.step = "apply" => Len(c.answers) = Len(c.legs)
        /\ c.step = "apply" => \A i \in 1..Len(c.answers) : Heard(c.legs[i], c.answers[i])
    BY <1>2, <1>6 DEF CallFits
  <2>3. CallFits(c)
    BY <1>1, <1>2, <1>6, <2>1, <2>2, ClaimedFits
  <2> QED BY <1>3, <2>3
<1> QED BY <1>3, <1>4, <1>5, <1>6

\* The outcome of an order that was sent is not known.
LEMMA UnknownKeeps ==
    ASSUME LinkedInv, UnknownLeg
    PROVE  Kept
<1>1. call.step = "unknown" /\ call.step \in ClaimedSteps /\ call.step # "idle"
  BY DEF UnknownLeg, At, ClaimedSteps
<1>2. call \in Calls /\ CallFits(call) /\ call.at \in 1..Len(call.legs) /\ Current \in Orders
  BY <1>1, CurrentOrder
<1>3. OnlyCall /\ UNCHANGED book
  BY DEF UnknownLeg, OnlyCall
<1>4. PICK o \in Orders : o = Current
  BY <1>2
<1>5. AtBroker(o)
  BY <1>1, <1>2, <1>4 DEF CallFits, Current
<1>6. LedgerKept
  <2>1. CASE Transition(o, "UNKNOWN")
    <3>1. "UNKNOWN" \in CallerTargets(o)
      BY <1>5 DEF CallerTargets
    <3> QED BY <1>3, <2>1, <3>1, TransitionKept
  <2>2. CASE UNCHANGED ledgerVars
    BY <1>3, <2>2, LedgerStands
  <2> QED BY <1>4, <2>1, <2>2 DEF UnknownLeg
<1>7. PICK c \in Calls : call' = c /\ CallFits(c)
  BY <1>1, AfterwardsFits DEF UnknownLeg
<1> QED BY <1>3, <1>6, <1>7, OnlyCallKeeps

\* The answers are applied to the rows.
LEMMA ApplyKeeps ==
    ASSUME LinkedInv, ApplyLeg
    PROVE  Kept
<1>1. call.step = "apply" /\ call.step \in ClaimedSteps /\ call.step # "idle"
  BY DEF ApplyLeg, At, ClaimedSteps
<1>2. call \in Calls /\ CallFits(call) /\ call.at \in 1..Len(call.legs) /\ Current \in Orders
  BY <1>1, CurrentOrder
<1>3. OnlyCall /\ UNCHANGED book
  BY DEF ApplyLeg, OnlyCall
<1>4. call.at \in 1..Len(call.answers)
  BY <1>1, <1>2 DEF CallFits
<1>5. PICK o \in Orders, st \in Statuses :
         o = Current /\ st = call.answers[call.at] /\ Heard(o, st)
  BY <1>1, <1>2, <1>4, CallTypes DEF CallFits, Current
<1>6. PICK settle \in BOOLEAN : settle = (call.terms # NoTerms)
  OBVIOUS
<1>7. ApplyStatus(o, st, settle)
  BY <1>5, <1>6 DEF ApplyLeg
<1>8. LedgerKept
  BY <1>3, <1>5, <1>7, StatusKept
<1>9. PICK c \in Calls : call' = c /\ CallFits(c)
  BY <1>1, AfterwardsFits DEF ApplyLeg
<1> QED BY <1>3, <1>8, <1>9, OnlyCallKeeps

\* Every step of a call.
LEMMA CallKeeps ==
    ASSUME LinkedInv, CallStep
    PROVE  Kept
<1>1. CASE PersistLeg \/ DecideGroup \/ RejectLeg \/ AuthorizeLeg \/ ClaimGroup
  BY <1>1, PersistKeeps, DecideKeeps, RejectKeeps, AuthorizeKeeps, ClaimGroupKeeps
<1>2. CASE PlaceLeg \/ PlacementRaises \/ ClaimReplace \/ ModifyOrder \/ ModifyRaises
  BY <1>2, PlaceKeeps, RaiseKeeps, ClaimReplaceKeeps, ModifyKeeps
<1>3. CASE AwaitLeg \/ WithdrawLeg \/ UnknownLeg \/ ApplyLeg
  BY <1>3, AwaitKeeps, WithdrawKeeps, UnknownKeeps, ApplyKeeps
<1> QED BY <1>1, <1>2, <1>3 DEF CallStep

-----------------------------------------------------------------------------
(* The callbacks, the TTL scan, the crash, the restart, the reconciliation. *)

\* The report that comes first, and the others.
LEMMA FirstReport ==
    ASSUME LinkedInv, reports # <<>>, reports' = Tail(reports)
    PROVE  /\ Head(reports) \in Reports /\ Tells(Head(reports))
           /\ reports' \in Seq(Reports)
           /\ \A k \in 1..Len(reports') :
                 /\ k + 1 \in 1..Len(reports)
                 /\ reports'[k] = reports[k + 1]
                 /\ reports[k + 1] \in Reports /\ Tells(reports[k + 1])
<1>1. reports \in Seq(Reports) /\ Len(reports) \in Nat /\ Len(reports) >= 1
  BY EmptySeq, LenProperties DEF LinkedInv, LinkedTypes
<1>2. /\ Tail(reports) \in Seq(Reports) /\ Len(Tail(reports)) = Len(reports) - 1
      /\ \A k \in 1..Len(Tail(reports)) : Tail(reports)[k] = reports[k + 1]
  BY <1>1, HeadTailProperties
<1>3. Head(reports) = reports[1] /\ 1 \in 1..Len(reports)
  BY <1>1
<1>4. \A k \in 1..Len(reports) : reports[k] \in Reports /\ Tells(reports[k])
  BY <1>1, ElementOfSeq DEF LinkedInv, HearsayInv
<1>5. \A k \in 1..Len(Tail(reports)) : k + 1 \in 1..Len(reports)
  BY <1>1, <1>2
<1>6. Head(reports) \in Reports /\ Tells(Head(reports))
  BY <1>3, <1>4
<1> QED BY <1>2, <1>4, <1>5, <1>6

\* What the adapter records stays true where one record is new and true.
LEMMA HearsayGrows ==
    ASSUME LinkedInv, UNCHANGED book, NEW o \in Orders, NEW r, RecordIsTrue(o, r),
           record' = record \/ record' = [record EXCEPT ![o] = r],
           reports' = reports \/ (reports # <<>> /\ reports' = Tail(reports))
    PROVE  HearsayInv'
<1>1. record \in [Orders -> Records]
  BY DEF LinkedInv, LinkedTypes
<1>2. ASSUME NEW x \in Orders
      PROVE  RecordIsTrue(x, record[x])'
  <2>1. PICK s : s = record'[x] /\ RecordIsTrue(x, s)
    BY <1>1 DEF LinkedInv, HearsayInv
  <2>2. RecordIsTrue(x, s)'
    BY <2>1 DEF RecordIsTrue, Heard, Covered
  <2> QED BY <2>1, <2>2 DEF RecordIsTrue
<1>3. ASSUME NEW k \in 1..Len(reports')
      PROVE  Tells(reports[k])'
  <2>1. PICK m : m = reports'[k] /\ Tells(m)
    <3>1. CASE reports' = reports
      BY <3>1 DEF LinkedInv, HearsayInv
    <3>2. CASE reports # <<>> /\ reports' = Tail(reports)
      BY <3>2, FirstReport
    <3> QED BY <3>1, <3>2
  <2>2. Tells(m)'
    BY <2>1 DEF Tells, Heard, Refused, Covered
  <2> QED BY <2>1, <2>2 DEF Tells
<1> QED BY <1>2, <1>3 DEF HearsayInv

\* Where the call waits while something else goes on.
LEMMA AsideKeeps ==
    ASSUME LinkedInv, LedgerKept, UNCHANGED <<requests, call>>,
           up' \in BOOLEAN, recovering' \in SUBSET Orders, record' \in [Orders -> Records],
           reports' \in Seq(Reports), HearsayInv'
    PROVE  Kept
<1>1. PICK c \in Calls : call' = c /\ CallFits(c)
  BY DEF LinkedInv, LinkedTypes, CallInv
<1> QED BY <1>1, QuietKeeps

\* What a report makes of the record of its order is true.
LEMMA ReportRecorded ==
    ASSUME LinkedInv, NEW m \in Reports, m.kind # "error", Heard(m.order, StatusOfReport(m)),
           NEW r, r = RecordAfter(m)
    PROVE  /\ m.order \in Orders
           /\ r \in Records /\ RecordIsTrue(m.order, r)
           /\ StatusOfRecord(r) \in Statuses /\ Heard(m.order, StatusOfRecord(r))
<1>1. /\ m.order \in Orders /\ m.terms \in Terms /\ m.word \in EndWords
      /\ m.filled \in Nat /\ m.remaining \in Nat
  BY DEF Reports
<1>2. record[m.order].terms \in Terms \cup {NoTerms}
  BY <1>1 DEF LinkedInv, LinkedTypes, Records
<1>3. /\ r.word = m.word /\ r.filled = m.filled /\ r.remaining = m.remaining
      /\ r.terms \in Terms \cup {NoTerms}
  BY <1>1, <1>2 DEF RecordAfter
<1>4. r \in Records
  BY <1>1, <1>2 DEF RecordAfter, Records
<1>5. StatusOfRecord(r) \in Statuses
  BY <1>1, <1>3 DEF StatusOfRecord, Statuses
<1>6. /\ StatusOfRecord(r).filled = m.filled /\ StatusOfRecord(r).remaining = m.remaining
      /\ StatusOfRecord(r).status = m.word
  BY <1>3 DEF StatusOfRecord
<1>7. Heard(m.order, StatusOfRecord(r))
  BY <1>6 DEF Heard, StatusOfReport
<1> QED BY <1>1, <1>3, <1>4, <1>5, <1>7 DEF RecordIsTrue

\* A callback brings a status.
LEMMA DeliverStatusKeeps ==
    ASSUME LinkedInv, DeliverStatus
    PROVE  Kept
<1>1. /\ reports # <<>> /\ reports' = Tail(reports) /\ Head(reports).kind # "error"
      /\ UNCHANGED <<up, call, recovering, requests, book>>
  BY DEF DeliverStatus
<1>2. PICK m \in Reports : m = Head(reports) /\ Tells(m) /\ reports' \in Seq(Reports)
  BY <1>1, FirstReport
<1>3. Heard(m.order, StatusOfReport(m))
  BY <1>1, <1>2 DEF Tells
<1>4. PICK r : r = RecordAfter(m)
  OBVIOUS
<1>5. PICK o \in Orders, st \in Statuses :
         /\ o = m.order /\ st = StatusOfRecord(r)
         /\ r \in Records /\ RecordIsTrue(o, r) /\ Heard(o, st)
  BY <1>1, <1>2, <1>3, <1>4, ReportRecorded
<1>6. /\ record' = [record EXCEPT ![o] = r]
      /\ ApplyStatus(o, st, FALSE) \/ UNCHANGED ledgerVars
  BY <1>2, <1>4, <1>5 DEF DeliverStatus
<1>7. LedgerKept
  <2>1. PICK settle \in BOOLEAN : settle = FALSE
    OBVIOUS
  <2>2. CASE ApplyStatus(o, st, settle)
    BY <1>1, <1>5, <2>2, StatusKept
  <2>3. CASE UNCHANGED ledgerVars
    BY <1>1, <2>3, LedgerStands
  <2> QED BY <1>6, <2>1, <2>2, <2>3
<1>8. HearsayInv'
  BY <1>1, <1>5, <1>6, HearsayGrows
<1>9. /\ record' \in [Orders -> Records]
      /\ up' \in BOOLEAN /\ recovering' \in SUBSET Orders
  BY <1>1, <1>5, <1>6 DEF LinkedInv, LinkedTypes
<1> QED BY <1>1, <1>2, <1>7, <1>8, <1>9, AsideKeeps

\* A callback brings an error.
LEMMA DeliverErrorKeeps ==
    ASSUME LinkedInv, DeliverError
    PROVE  Kept
<1>1. /\ reports # <<>> /\ reports' = Tail(reports) /\ Head(reports).kind = "error"
      /\ UNCHANGED <<up, call, record, recovering, requests, book>>
  BY DEF DeliverError
<1>2. PICK m \in Reports : m = Head(reports) /\ Tells(m) /\ reports' \in Seq(Reports)
  BY <1>1, FirstReport
<1>3. PICK o \in Orders : o = m.order /\ Refused(o)
  BY <1>1, <1>2 DEF Tells, Reports
<1>4. LedgerKept
  <2>1. CASE rows[o].state \in {"SUBMITTING", "UNKNOWN"} /\ Transition(o, "REJECTED")
    <3>1. AtBroker(o)
      <4>1. rows[o].state \in WORKING_STATES /\ ClaimedOnce
        BY <2>1 DEF WORKING_STATES, LinkedInv, IInv
      <4> QED BY <4>1 DEF ClaimedOnce, AtBroker
    <3>2. "REJECTED" \in CallerTargets(o)
      BY <3>1 DEF CallerTargets
    <3> QED BY <1>1, <1>3, <2>1, <3>2, TransitionKept
  <2>2. CASE UNCHANGED ledgerVars
    BY <1>1, <2>2, LedgerStands
  <2> QED BY <1>2, <1>3, <2>1, <2>2 DEF DeliverError
<1>5. HearsayInv'
  <2>1. record[o] \in Records /\ RecordIsTrue(o, record[o])
    BY DEF LinkedInv, LinkedTypes, HearsayInv
  <2> QED BY <1>1, <2>1, HearsayGrows
<1>6. /\ record' \in [Orders -> Records]
      /\ up' \in BOOLEAN /\ recovering' \in SUBSET Orders
  BY <1>1 DEF LinkedInv, LinkedTypes
<1> QED BY <1>1, <1>2, <1>4, <1>5, <1>6, AsideKeeps

\* A leg expires before it was claimed.
LEMMA ExpireKeeps ==
    ASSUME LinkedInv, NEW o \in Orders, ExpireLeg(o)
    PROVE  Kept
<1>1. UNCHANGED <<up, call, record, recovering, requests, reports, book>>
  BY DEF ExpireLeg, processVars, wireVars
<1>2. "EXPIRED" \in CallerTargets(o)
  BY DEF CallerTargets
<1>3. LedgerKept
  BY <1>1, <1>2, TransitionKept DEF ExpireLeg
<1>4. HearsayInv'
  BY <1>1, HearsayStands
<1>5. /\ up' \in BOOLEAN /\ recovering' \in SUBSET Orders /\ record' \in [Orders -> Records]
      /\ reports' \in Seq(Reports)
  BY <1>1 DEF LinkedInv, LinkedTypes
<1> QED BY <1>1, <1>3, <1>4, <1>5, AsideKeeps

\* The process starts again.
LEMMA RestartKeeps ==
    ASSUME LinkedInv, Restart
    PROVE  Kept
<1>1. UNCHANGED <<ledgerVars, call, record, requests, reports, book>>
  BY DEF Restart, wireVars
<1>2. LedgerKept /\ HearsayInv'
  BY <1>1, LedgerStands, HearsayStands
<1>3. /\ up' \in BOOLEAN /\ recovering' \in SUBSET Orders /\ record' \in [Orders -> Records]
      /\ reports' \in Seq(Reports)
  BY <1>1 DEF LinkedInv, LinkedTypes, Restart
<1> QED BY <1>1, <1>2, <1>3, AsideKeeps

\* A report of an order that the broker knows.
LEMMA ReportFits ==
    ASSUME NEW kind \in {"open", "status"}, NEW o \in Orders, NEW entry \in BookEntries,
           entry.state \in Known
    PROVE  /\ Report(kind, o, entry) \in Reports
           /\ Report(kind, o, entry).kind = kind
           /\ Report(kind, o, entry).order = o
           /\ LET st == StatusOfReport(Report(kind, o, entry))
              IN  /\ st.filled + st.remaining \in Quantities
                  /\ st.status = "Cancelled" => entry.state = "cancelled"
<1>1. entry.terms \in Terms /\ entry.state \in {"working", "filled", "cancelled"}
  BY DEF BookEntries, Known
<1>2. TermQuantity[entry.terms] \in Nat /\ TermQuantity[entry.terms] \in Quantities
  BY <1>1, TermsAssumption DEF Quantities
<1>3. WordOf(entry.state) \in EndWords
  BY <1>1 DEF WordOf, EndWords
<1>4. WordOf(entry.state) = "Cancelled" => entry.state = "cancelled"
  BY <1>1 DEF WordOf
<1>5. Report(kind, o, entry) \in Reports
  BY <1>1, <1>2, <1>3 DEF Report, Reports
<1> QED BY <1>2, <1>4, <1>5 DEF Report, StatusOfReport

\* The reconciliation reads an order from the broker's own record of it.
LEMMA ReconcileKeeps ==
    ASSUME LinkedInv, ReconcileOrder
    PROVE  Kept
<1>1. /\ recovering # {} /\ recovering \in SUBSET Orders
      /\ UNCHANGED <<up, call, requests, reports, book>>
  BY DEF ReconcileOrder, wireVars, LinkedInv, LinkedTypes
<1>2. PICK o \in Orders : o = CHOOSE x \in recovering : TRUE
  BY <1>1
<1>3. /\ recovering' = recovering \ {o}
      /\ IF book[o].state \in {"working", "filled", "cancelled"}
         THEN \E after \in {RecordAfter(Report("open", o, book[o]))} :
                /\ ApplyStatus(o, StatusOfRecord(after), TRUE)
                /\ record' = [record EXCEPT ![o] = after]
         ELSE UNCHANGED <<ledgerVars, record>>
  BY <1>2 DEF ReconcileOrder
<1>4. /\ up' \in BOOLEAN /\ recovering' \in SUBSET Orders /\ reports' \in Seq(Reports)
      /\ record \in [Orders -> Records]
  BY <1>1, <1>3 DEF LinkedInv, LinkedTypes
<1>5. ASSUME book[o].state \in {"working", "filled", "cancelled"}
      PROVE  Kept
  <2>1. PICK entry \in BookEntries : entry = book[o] /\ entry.state \in Known
    BY <1>5 DEF LinkedInv, LinkedTypes, Known
  <2>2. PICK m : m = Report("open", o, entry)
    OBVIOUS
  <2>3. PICK kind \in {"open", "status"} : kind = "open"
    OBVIOUS
  <2>4. /\ m \in Reports /\ m.kind = "open" /\ m.order = o
        /\ StatusOfReport(m).filled + StatusOfReport(m).remaining \in Quantities
        /\ StatusOfReport(m).status = "Cancelled" => entry.state = "cancelled"
    BY <2>1, <2>2, <2>3, ReportFits
  <2>5. Covered(o)
    BY <2>1 DEF LinkedInv, BracketInv
  <2>6. Heard(m.order, StatusOfReport(m))
    BY <2>1, <2>4, <2>5 DEF Heard
  <2>7. PICK r : r = RecordAfter(m)
    OBVIOUS
  <2>8. PICK st \in Statuses : /\ st = StatusOfRecord(r)
                               /\ r \in Records /\ RecordIsTrue(o, r) /\ Heard(o, st)
    BY <2>4, <2>6, <2>7, ReportRecorded
  <2>9. ApplyStatus(o, st, TRUE) /\ record' = [record EXCEPT ![o] = r]
    BY <1>3, <1>5, <2>1, <2>2, <2>7, <2>8
  <2>10. LedgerKept
    <3>1. PICK settle \in BOOLEAN : settle = TRUE
      OBVIOUS
    <3> QED BY <1>1, <2>8, <2>9, <3>1, StatusKept
  <2>11. HearsayInv'
    BY <1>1, <2>8, <2>9, HearsayGrows
  <2>12. record' \in [Orders -> Records]
    BY <1>4, <2>8, <2>9
  <2> QED BY <1>1, <1>4, <2>10, <2>11, <2>12, AsideKeeps
<1>6. ASSUME book[o].state \notin {"working", "filled", "cancelled"}
      PROVE  Kept
  <2>1. UNCHANGED <<ledgerVars, record>>
    BY <1>3, <1>6
  <2>2. LedgerKept /\ HearsayInv'
    BY <1>1, <2>1, LedgerStands, HearsayStands
  <2> QED BY <1>1, <1>4, <2>1, <2>2, AsideKeeps
<1> QED BY <1>5, <1>6

-----------------------------------------------------------------------------
(* The crash, and the steps of the broker.                                 *)

\* A crash forgets what the process knew and loses the end of the queue.
LEMMA CrashKeeps ==
    ASSUME LinkedInv, Crash
    PROVE  Kept
<1>1. /\ UNCHANGED <<ledgerVars, book>>
      /\ up' = FALSE /\ call' = IdleCall /\ record' = [o \in Orders |-> NoRecord]
      /\ recovering' = {} /\ reports' = <<>>
  BY DEF Crash
<1>2. PICK n \in 0..Len(requests) : requests' = SubSeq(requests, 1, n)
  BY DEF Crash
<1>3. requests \in Seq(Requests) /\ Len(requests) \in Nat
  BY LenProperties DEF LinkedInv, LinkedTypes
<1>4. /\ requests' \in Seq(Requests) /\ Len(requests') = n
      /\ \A i \in 1..n : requests'[i] = requests[i] /\ i \in 1..Len(requests)
  <2>1. \A i \in 1..n : requests[i] \in Requests /\ i \in 1..Len(requests)
    BY <1>3, ElementOfSeq
  <2>2. n \in Int /\ 1 \in Int
    BY <1>3
  <2>3. /\ SubSeq(requests, 1, n) \in Seq(Requests)
        /\ Len(SubSeq(requests, 1, n)) = IF 1 <= n THEN n - 1 + 1 ELSE 0
        /\ \A i \in 1..n - 1 + 1 : SubSeq(requests, 1, n)[i] = requests[1 + i - 1]
    BY <2>1, <2>2, SubSeqProperties
  <2> QED BY <1>2, <1>3, <2>1, <2>3
<1>5. UNCHANGED <<rows, executions, executed, claims>>
  BY <1>1 DEF ledgerVars
<1>6. IInv'
  BY <1>1, StepIInv DEF LinkedInv
<1>7. RowsAreTrue'
  BY <1>1, <1>5 DEF LinkedInv, RowsAreTrue, RowIsTrue, Covered, Refused, AtBroker
<1>8. LinkedTypes'
  <2>1. NoRecord \in Records
    BY DEF NoRecord, Records
  <2>2. <<>> \in Seq(Reports)
    BY EmptySeq
  <2> QED BY <1>1, <1>4, <2>1, <2>2, IdleFits DEF LinkedInv, LinkedTypes
<1>9. BracketInv'
  <2>1. \A o \in Orders : book'[o].state \in Known => Covered(o)'
    BY <1>1 DEF LinkedInv, BracketInv, Covered
  <2>2. ASSUME NEW j \in 1..n, Releases(requests'[j]), NEW x \in Fellows(requests'[j].order)
        PROVE  Ordered(x, j)'
    <3>1. Ordered(x, j)
      BY <1>4, <2>2 DEF LinkedInv, BracketInv
    <3>2. \A i \in 1..j : requests'[i] = requests[i]
      BY <1>4
    <3> QED BY <1>1, <3>1, <3>2 DEF Ordered
  <2> QED BY <1>4, <2>1, <2>2 DEF BracketInv
<1>10. PlacementInv'
  <2>1. /\ \A o \in Orders : AtBroker(o)' => Linked(o)
        /\ \A o \in Orders : book'[o].state # "none" => AtBroker(o)'
    BY <1>1, <1>5 DEF LinkedInv, PlacementInv, AtBroker
  <2>2. \A j \in 1..n : claims[requests'[j].order] > 0
    BY <1>4 DEF LinkedInv, PlacementInv, AtBroker
  <2>3. ASSUME NEW i \in 1..n, requests'[i].kind = "place", requests'[i].order \notin Entries
        PROVE  /\ book[requests'[i].order].state = "none"
               /\ \A j \in 1..n : Places(requests'[j], requests'[i].order) => j = i
    BY <1>4, <2>3 DEF LinkedInv, PlacementInv
  <2> QED BY <1>1, <1>4, <1>5, <2>1, <2>2, <2>3 DEF PlacementInv, AtBroker
<1>11. HearsayInv'
  <2>1. \A o \in Orders : ~record'[o].acknowledged
    BY <1>1 DEF NoRecord
  <2>2. Len(reports') = 0
    BY <1>1, EmptySeq
  <2> QED BY <2>1, <2>2 DEF HearsayInv, RecordIsTrue
<1>12. CallInv'
  <2>1. call'.step = "idle"
    BY <1>1 DEF IdleCall
  <2> QED BY <2>1 DEF CallInv, CallFits, GroupSteps, ReplaceSteps, ClaimedSteps
<1> QED BY <1>1, <1>6, <1>7, <1>8, <1>9, <1>10, <1>11, <1>12 DEF LinkedInv, Kept

\* The request that comes first, and the others.
LEMMA FirstRequest ==
    ASSUME LinkedInv, requests # <<>>
    PROVE  /\ Len(requests) \in Nat /\ 1 \in 1..Len(requests)
           /\ Head(requests) = requests[1] /\ Head(requests) \in Requests
           /\ Tail(requests) \in Seq(Requests)
           /\ Len(Tail(requests)) = Len(requests) - 1
           /\ \A i \in 1..Len(Tail(requests)) :
                 i + 1 \in 2..Len(requests) /\ Tail(requests)[i] = requests[i + 1]
<1>1. requests \in Seq(Requests) /\ Len(requests) \in Nat /\ Len(requests) >= 1
  BY EmptySeq, LenProperties DEF LinkedInv, LinkedTypes
<1>2. /\ Head(requests) \in Requests /\ Tail(requests) \in Seq(Requests)
      /\ Len(Tail(requests)) = Len(requests) - 1
      /\ \A i \in 1..Len(Tail(requests)) : Tail(requests)[i] = requests[i + 1]
  BY <1>1, HeadTailProperties
<1>3. Head(requests) = requests[1] /\ 1 \in 1..Len(requests)
  BY <1>1
<1>4. \A i \in 1..Len(Tail(requests)) : i + 1 \in 2..Len(requests)
  BY <1>1, <1>2
<1> QED BY <1>1, <1>2, <1>3, <1>4

\* What a step of the broker makes of the queue: it leaves it, or takes a request, which is
\* how an order reaches it.
Receives ==
    \/ /\ requests' = requests
       /\ \A o \in Orders : book'[o].state = "none" <=> book[o].state = "none"
    \/ /\ requests # <<>> /\ requests' = Tail(requests)
       /\ \A o \in Orders :
             book'[o].state = "none" <=> book[o].state = "none" /\ ~Places(Head(requests), o)

\* The requests that are left are as far from being carried out as they were.
LEMMA ReceivesQueue ==
    ASSUME LinkedInv, Receives
    PROVE  /\ requests' \in Seq(Requests)
           /\ \A o \in Orders : book[o].state # "none" => book'[o].state # "none"
           /\ \A o \in Orders : Underway(o)' <=> Underway(o)
           /\ \A j \in 1..Len(requests') : \E k \in 1..Len(requests) :
                 /\ requests'[j] = requests[k]
                 /\ \A x \in Orders : Ordered(x, k) => Ordered(x, j)'
           /\ \A o \in Orders : book'[o].state # "none" => AtBroker(o)
<1>1. CASE /\ requests' = requests
           /\ \A o \in Orders : book'[o].state = "none" <=> book[o].state = "none"
  <2>1. requests' \in Seq(Requests)
    BY <1>1 DEF LinkedInv, LinkedTypes
  <2>2. \A o \in Orders : Underway(o)' <=> Underway(o)
    BY <1>1 DEF Underway, Ordered
  <2>3. \A j \in 1..Len(requests) : \A x \in Orders : Ordered(x, j) => Ordered(x, j)'
    BY <1>1 DEF Ordered
  <2>4. \A o \in Orders : book'[o].state # "none" => AtBroker(o)
    BY <1>1 DEF LinkedInv, PlacementInv
  <2>5. \A j \in 1..Len(requests') : \E k \in 1..Len(requests) :
           /\ requests'[j] = requests[k]
           /\ \A x \in Orders : Ordered(x, k) => Ordered(x, j)'
    BY <1>1, <2>3
  <2> QED BY <1>1, <2>1, <2>2, <2>4, <2>5
<1>2. CASE /\ requests # <<>> /\ requests' = Tail(requests)
           /\ \A o \in Orders :
                 book'[o].state = "none" <=> book[o].state = "none" /\ ~Places(Head(requests), o)
  <2>1. /\ Len(requests) \in Nat /\ 1 \in 1..Len(requests)
        /\ Head(requests) = requests[1]
        /\ requests' \in Seq(Requests) /\ Len(requests') = Len(requests) - 1
        /\ \A i \in 1..Len(requests') :
              i + 1 \in 2..Len(requests) /\ requests'[i] = requests[i + 1]
    BY <1>2, FirstRequest
  <2>2. ASSUME NEW j \in 1..Len(requests'), NEW k \in 1..Len(requests), k = j + 1,
               NEW x \in Orders, Ordered(x, k)
        PROVE  Ordered(x, j)'
    <3>1. CASE book[x].state # "none"
      BY <1>2, <3>1 DEF Ordered
    <3>2. ASSUME NEW i \in 1..k, Places(requests[i], x)
          PROVE  Ordered(x, j)'
      <4>1. CASE i = 1
        BY <1>2, <2>1, <3>2, <4>1 DEF Ordered
      <4>2. CASE i # 1
        <5>1. PICK h \in 1..j : i = h + 1
          BY <2>1, <2>2, <4>2
        <5>2. h \in 1..Len(requests') /\ requests'[h] = requests[i]
          BY <2>1, <5>1
        <5> QED BY <3>2, <5>1, <5>2 DEF Ordered
      <4> QED BY <4>1, <4>2
    <3> QED BY <2>2, <3>1, <3>2 DEF Ordered
  <2>3. ASSUME NEW o \in Orders, Underway(o)
        PROVE  Underway(o)'
    <3>1. CASE book[o].state # "none"
      BY <1>2, <3>1 DEF Underway, Ordered
    <3>2. ASSUME NEW i \in 1..Len(requests), Places(requests[i], o)
          PROVE  Underway(o)'
      <4>1. CASE i = 1
        BY <1>2, <2>1, <3>2, <4>1 DEF Underway, Ordered
      <4>2. CASE i # 1
        <5>1. PICK h \in 1..Len(requests') : i = h + 1
          BY <2>1, <4>2
        <5>2. requests'[h] = requests[i]
          BY <2>1, <5>1
        <5> QED BY <3>2, <5>2 DEF Underway, Ordered
      <4> QED BY <4>1, <4>2
    <3> QED BY <2>3, <3>1, <3>2 DEF Underway, Ordered
  <2>4. ASSUME NEW o \in Orders, Underway(o)'
        PROVE  Underway(o)
    <3>1. CASE book'[o].state # "none"
      BY <1>2, <2>1, <3>1 DEF Underway, Ordered
    <3>2. ASSUME NEW i \in 1..Len(requests'), Places(requests'[i], o)
          PROVE  Underway(o)
      <4>1. PICK h \in 1..Len(requests) : h = i + 1 /\ requests'[i] = requests[h]
        BY <2>1
      <4> QED BY <3>2, <4>1 DEF Underway, Ordered
    <3> QED BY <2>4, <3>1, <3>2 DEF Underway, Ordered
  <2>5. \A j \in 1..Len(requests') : \E k \in 1..Len(requests) :
           /\ requests'[j] = requests[k]
           /\ \A x \in Orders : Ordered(x, k) => Ordered(x, j)'
    <3> SUFFICES ASSUME NEW j \in 1..Len(requests')
                 PROVE  \E k \in 1..Len(requests) :
                           /\ requests'[j] = requests[k]
                           /\ \A x \in Orders : Ordered(x, k) => Ordered(x, j)'
      OBVIOUS
    <3>1. PICK k \in 1..Len(requests) : k = j + 1 /\ requests'[j] = requests[k]
      BY <2>1
    <3> QED BY <2>2, <3>1
  <2>6. ASSUME NEW o \in Orders, book'[o].state # "none"
        PROVE  AtBroker(o)
    BY <1>2, <2>1, <2>6 DEF LinkedInv, PlacementInv, Places
  <2>7. \A o \in Orders : book[o].state # "none" => book'[o].state # "none"
    BY <1>2
  <2>8. \A o \in Orders : Underway(o)' <=> Underway(o)
    BY <2>3, <2>4
  <2> QED BY <2>1, <2>5, <2>6, <2>7, <2>8
<1> QED BY <1>1, <1>2 DEF Receives

\* An exit that is still to be placed is not at the broker.
LEMMA ReceivesPlacements ==
    ASSUME LinkedInv, Receives, NEW i \in 1..Len(requests'), requests'[i].kind = "place",
           requests'[i].order \notin Entries
    PROVE  /\ book'[requests'[i].order].state = "none"
           /\ \A j \in 1..Len(requests') : Places(requests'[j], requests'[i].order) => j = i
<1>1. CASE /\ requests' = requests
           /\ \A o \in Orders : book'[o].state = "none" <=> book[o].state = "none"
  <2>1. requests[i] \in Requests
    BY <1>1, ElementOfSeq DEF LinkedInv, LinkedTypes
  <2>2. requests[i].order \in Orders
    BY <2>1 DEF Requests
  <2> QED BY <1>1, <2>2 DEF LinkedInv, PlacementInv
<1>2. CASE /\ requests # <<>> /\ requests' = Tail(requests)
           /\ \A o \in Orders :
                 book'[o].state = "none" <=> book[o].state = "none" /\ ~Places(Head(requests), o)
  <2>1. /\ Len(requests) \in Nat /\ 1 \in 1..Len(requests)
        /\ Head(requests) = requests[1]
        /\ \A j \in 1..Len(requests') :
              j + 1 \in 2..Len(requests) /\ requests'[j] = requests[j + 1]
    BY <1>2, FirstRequest
  <2>2. PICK k \in 1..Len(requests) : k = i + 1 /\ k # 1 /\ requests'[i] = requests[k]
    BY <2>1
  <2>3. requests[k] \in Requests
    BY ElementOfSeq DEF LinkedInv, LinkedTypes
  <2>4. PICK o \in Orders : o = requests[k].order
    BY <2>3 DEF Requests
  <2>5. /\ book[o].state = "none"
        /\ \A j \in 1..Len(requests) : Places(requests[j], o) => j = k
    BY <2>2, <2>4 DEF LinkedInv, PlacementInv
  <2>6. book'[o].state = "none"
    BY <1>2, <2>1, <2>2, <2>5
  <2>7. ASSUME NEW j \in 1..Len(requests'), Places(requests'[j], o)
        PROVE  j = i
    <3>1. PICK h \in 1..Len(requests) : h = j + 1 /\ requests'[j] = requests[h]
      BY <2>1
    <3>2. h = k
      BY <2>5, <2>7, <3>1
    <3>3. i \in Nat /\ j \in Nat
      BY <2>1
    <3> QED BY <2>2, <3>1, <3>2, <3>3
  <2> QED BY <2>2, <2>4, <2>6, <2>7
<1> QED BY <1>1, <1>2 DEF Receives

\* What the broker says of an order it knows, and of one it refuses.
Truthful(m, b) ==
    \/ \E kind \in {"open", "status"}, x \in Orders :
          b[x].state \in Known /\ m = Report(kind, x, b[x])
    \/ \E x \in Orders : m = Refusal(x) /\ (x \notin Entries => b[x].state \in Ended)

\* A step of the broker.
LEMMA BrokerKeeps ==
    ASSUME LinkedInv, BrokerAside, Receives,
           NEW b \in [Orders -> BookEntries], book' = b,
           \A x \in Orders : book[x].state \in Ended => b[x].state = book[x].state,
           \A x \in Orders : b[x].state \in Known /\ book[x].state \notin Known =>
              \A y \in Fellows(x) : b[y].state # "none",
           NEW messages \in Seq(Reports),
           \A k \in 1..Len(messages) : Truthful(messages[k], b),
           Sent(messages) \/ UNCHANGED reports
    PROVE  Kept
<1>1. /\ requests' \in Seq(Requests)
      /\ \A o \in Orders : book[o].state # "none" => b[o].state # "none"
      /\ \A o \in Orders : Underway(o)' <=> Underway(o)
      /\ \A j \in 1..Len(requests') : \E k \in 1..Len(requests) :
            /\ requests'[j] = requests[k]
            /\ \A x \in Orders : Ordered(x, k) => Ordered(x, j)'
      /\ \A o \in Orders : b[o].state # "none" => AtBroker(o)
  BY ReceivesQueue
<1>2. UNCHANGED <<ledgerVars, up, call, record, recovering, rows, claims>>
  BY DEF BrokerAside, processVars, ledgerVars
<1>3. BookGrows
  BY <1>1 DEF BookGrows, Ended
<1>4. ASSUME NEW x \in Orders, b[x].state \in Known
      PROVE  Covered(x)'
  <2>1. CASE book[x].state \in Known
    <3>1. Covered(x)
      BY <2>1 DEF LinkedInv, BracketInv
    <3> QED BY <1>3, <3>1, CoveredStays
  <2>2. CASE book[x].state \notin Known
    BY <1>4, <2>2 DEF Covered
  <2> QED BY <2>1, <2>2
<1>5. IInv'
  BY <1>2, StepIInv DEF LinkedInv
<1>6. reports' \in Seq(Reports) /\ \A k \in 1..Len(reports') : Tells(reports[k])'
  <2>1. reports \in Seq(Reports)
    BY DEF LinkedInv, LinkedTypes
  <2>2. ASSUME NEW k \in 1..Len(reports)
        PROVE  reports[k] \in Reports /\ Tells(reports[k])
    BY <2>1, ElementOfSeq DEF LinkedInv, HearsayInv
  <2>3. ASSUME NEW m \in Reports, Truthful(m, b)
        PROVE  Tells(m)'
    <3>1. ASSUME NEW kind \in {"open", "status"}, NEW x \in Orders, b[x].state \in Known,
                 m = Report(kind, x, b[x])
          PROVE  Tells(m)'
      <4>1. PICK entry \in BookEntries : entry = b[x]
        OBVIOUS
      <4>2. /\ m.kind # "error" /\ m.order = x
            /\ StatusOfReport(m).filled + StatusOfReport(m).remaining \in Quantities
            /\ StatusOfReport(m).status = "Cancelled" => entry.state = "cancelled"
        BY <3>1, <4>1, ReportFits
      <4>3. Heard(x, StatusOfReport(m))'
        BY <1>4, <3>1, <4>1, <4>2 DEF Heard
      <4> QED BY <4>2, <4>3 DEF Tells
    <3>2. ASSUME NEW x \in Orders, m = Refusal(x), x \notin Entries => b[x].state \in Ended
          PROVE  Tells(m)'
      BY <3>2 DEF Refusal, Tells, Refused
    <3> QED BY <2>3, <3>1, <3>2 DEF Truthful
  <2>4. ASSUME NEW k \in 1..Len(reports)
        PROVE  \E m \in Reports : m = reports[k] /\ Tells(m)'
    <3>1. PICK m \in Reports : m = reports[k] /\ Tells(m)
      BY <2>2
    <3> QED BY <1>3, <3>1, TellsStays
  <2>5. CASE reports' = reports
    BY <2>1, <2>4, <2>5 DEF Tells
  <2>6. CASE reports' = reports \o messages
    <3>1. /\ reports \o messages \in Seq(Reports)
          /\ Len(reports) \in Nat /\ Len(messages) \in Nat
          /\ Len(reports \o messages) = Len(reports) + Len(messages)
          /\ \A k \in 1..Len(reports) + Len(messages) :
                (reports \o messages)[k] = IF k <= Len(reports) THEN reports[k]
                                           ELSE messages[k - Len(reports)]
      BY <2>1, ConcatProperties, LenProperties
    <3>2. ASSUME NEW k \in 1..Len(reports')
          PROVE  \E m \in Reports : m = reports'[k] /\ Tells(m)'
      <4>1. CASE k <= Len(reports)
        <5>1. k \in 1..Len(reports) /\ reports'[k] = reports[k]
          BY <2>6, <3>1, <4>1
        <5> QED BY <2>4, <5>1
      <4>2. CASE k > Len(reports)
        <5>1. Len(reports') = Len(reports) + Len(messages)
          BY <2>6, <3>1
        <5>2. PICK h \in 1..Len(messages) : h = k - Len(reports)
          BY <3>1, <4>2, <5>1
        <5>3. k \in 1..Len(reports) + Len(messages) /\ ~(k <= Len(reports))
          BY <3>1, <4>2, <5>1
        <5>4. reports'[k] = messages[h]
          BY <2>6, <3>1, <5>2, <5>3
        <5>5. messages[h] \in Reports
          BY ElementOfSeq
        <5>6. PICK m \in Reports : m = messages[h]
          BY <5>5
        <5> QED BY <2>3, <5>4, <5>6
      <4> QED BY <3>1, <4>1, <4>2
    <3>3. ASSUME NEW k \in 1..Len(reports')
          PROVE  Tells(reports[k])'
      <4>1. PICK m \in Reports : m = reports'[k] /\ Tells(m)'
        BY <3>2
      <4> QED BY <4>1 DEF Tells
    <3> QED BY <2>6, <3>1, <3>3
  <2> QED BY <2>5, <2>6 DEF Sent
<1>7. HearsayInv'
  <2>1. ASSUME NEW o \in Orders
        PROVE  RecordIsTrue(o, record[o])'
    <3>1. PICK r : r = record[o] /\ RecordIsTrue(o, r)
      BY DEF LinkedInv, HearsayInv
    <3>2. ASSUME r.acknowledged
          PROVE  r.word \in EndWords /\ Heard(o, StatusOfRecord(r))'
      <4>1. PICK st : st = StatusOfRecord(r)
        OBVIOUS
      <4>2. r.word \in EndWords /\ Heard(o, st)
        BY <3>1, <3>2, <4>1 DEF RecordIsTrue
      <4>3. Heard(o, st)'
        BY <1>3, <4>2, HeardStays
      <4> QED BY <4>1, <4>2, <4>3
    <3> QED BY <1>2, <3>1, <3>2 DEF RecordIsTrue
  <2> QED BY <1>6, <2>1 DEF HearsayInv
<1>8. RowsAreTrue'
  <2> SUFFICES ASSUME NEW o \in Orders
               PROVE  RowIsTrue(o, rows[o])'
    BY DEF RowsAreTrue
  <2>1. PICK row : row = rows[o] /\ RowIsTrue(o, row)
    BY DEF LinkedInv, RowsAreTrue
  <2>2. /\ Covered(o) => Covered(o)'
        /\ Refused(o) => Refused(o)'
    BY <1>3, CoveredStays, RefusedStays
  <2>3. rows' = rows /\ claims' = claims
    BY <1>2
  <2>4. book[o].state = "cancelled" => book'[o].state = "cancelled"
    BY <1>3 DEF BookGrows
  <2>5. RowIsTrue(o, row)'
    BY <2>1, <2>2, <2>3, <2>4 DEF RowIsTrue, AtBroker
  <2> QED BY <2>1, <2>3, <2>5 DEF RowIsTrue
<1>9. LinkedTypes'
  BY <1>1, <1>2, <1>6 DEF LinkedInv, LinkedTypes
<1>10. BracketInv'
  <2>1. \A o \in Orders : book'[o].state \in Known => Covered(o)'
    BY <1>4
  <2>2. ASSUME NEW j \in 1..Len(requests'), Releases(requests'[j]),
               NEW x \in Fellows(requests'[j].order)
        PROVE  Ordered(x, j)'
    <3>1. PICK k \in 1..Len(requests) :
             /\ requests'[j] = requests[k]
             /\ \A y \in Orders : Ordered(y, k) => Ordered(y, j)'
      BY <1>1
    <3>2. Ordered(x, k) /\ x \in Orders
      BY <2>2, <3>1, FellowsAreOrders DEF LinkedInv, BracketInv
    <3> QED BY <3>1, <3>2
  <2> QED BY <2>1, <2>2 DEF BracketInv
<1>11. PlacementInv'
  <2>1. \A o \in Orders : AtBroker(o)' => Linked(o)
    BY <1>2 DEF LinkedInv, PlacementInv, AtBroker
  <2>2. \A o \in Orders : book'[o].state # "none" => AtBroker(o)'
    BY <1>1, <1>2 DEF AtBroker
  <2>3. \A j \in 1..Len(requests') : claims'[requests'[j].order] > 0
    BY <1>1, <1>2 DEF LinkedInv, PlacementInv, AtBroker
  <2>4. ASSUME NEW i \in 1..Len(requests'), requests'[i].kind = "place",
               requests'[i].order \notin Entries
        PROVE  /\ book'[requests'[i].order].state = "none"
               /\ \A j \in 1..Len(requests') : Places(requests'[j], requests'[i].order) => j = i
    BY <2>4, ReceivesPlacements
  <2> QED BY <2>1, <2>2, <2>3, <2>4 DEF PlacementInv, AtBroker
<1>12. CallInv'
  <2>1. PICK c \in Calls : c = call /\ CallFits(c)
    BY DEF LinkedInv, LinkedTypes, CallInv
  <2>2. Onward
    BY <1>1, <1>2, <1>3 DEF Onward, AtBroker
  <2>3. CallFits(c)'
    BY <2>1, <2>2, CallFitsStays
  <2> QED BY <1>2, <2>1, <2>3 DEF CallInv, CallFits
<1> QED BY <1>2, <1>5, <1>7, <1>8, <1>9, <1>10, <1>11, <1>12 DEF LinkedInv, Kept

\* The reports about some orders are what the broker says of them.
LEMMA ReportedFits ==
    ASSUME NEW kind \in {"open", "status"}, NEW orders \in SUBSET Orders,
           NEW b \in [Orders -> BookEntries], \A x \in orders : b[x].state \in Known
    PROVE  /\ Reported(kind, orders, b) \in Seq(Reports)
           /\ \A k \in 1..Len(Reported(kind, orders, b)) :
                 Truthful(Reported(kind, orders, b)[k], b)
<1>1. IsFiniteSet(orders)
  BY FS_Subset, LinkedAssumption
<1>2. PICK n \in Nat : n = Cardinality(orders)
  BY <1>1, FS_CardinalityType
<1>3. \E s \in [1..n -> orders] : Legs(s) = orders
  <2>1. PICK s \in Bijection(1..n, orders) : TRUE
    BY <1>1, <1>2, FS_CardinalityType DEF ExistsBijection
  <2>2. s \in [1..n -> orders] /\ \A x \in orders : \E i \in 1..n : s[i] = x
    BY <2>1 DEF Bijection, Surjection
  <2> QED BY <2>2 DEF Legs
<1>4. PICK s : s = CHOOSE t \in [1..n -> orders] : Legs(t) = orders
  OBVIOUS
<1>5. s \in [1..n -> orders]
  BY <1>3, <1>4
<1>6. PICK messages : messages = [i \in 1..n |-> Report(kind, s[i], b[s[i]])]
  OBVIOUS
<1>7. Reported(kind, orders, b) = messages
  BY <1>2, <1>4, <1>6 DEF Reported
<1>8. ASSUME NEW k \in 1..n
      PROVE  messages[k] \in Reports /\ Truthful(messages[k], b)
  <2>1. PICK x \in orders : x = s[k]
    BY <1>5
  <2>2. PICK entry \in BookEntries : entry = b[x]
    OBVIOUS
  <2>3. messages[k] = Report(kind, x, entry)
    BY <1>6, <2>1, <2>2
  <2>4. x \in Orders /\ entry.state \in Known
    BY <2>2
  <2>5. messages[k] \in Reports
    BY <2>3, <2>4, ReportFits
  <2> QED BY <2>2, <2>3, <2>4, <2>5 DEF Truthful
<1>9. messages \in [1..n -> Reports]
  BY <1>6, <1>8
<1>10. messages \in Seq(Reports) /\ Len(messages) = n
  BY <1>9, LenProperties
<1> QED BY <1>7, <1>8, <1>10

\* Where one order changes its terms or its state.
LEMMA EntryKept ==
    ASSUME LinkedInv, NEW o \in Orders, NEW entry \in BookEntries
    PROVE  /\ [book EXCEPT ![o] = entry] \in [Orders -> BookEntries]
           /\ \A x \in Orders : [book EXCEPT ![o] = entry][x] = IF x = o THEN entry ELSE book[x]
<1>1. book \in [Orders -> BookEntries]
  BY DEF LinkedInv, LinkedTypes
<1> QED BY <1>1

\* A placement that transmits makes its siblings work, all of which are at the broker.
LEMMA AcceptPlacementKeeps ==
    ASSUME LinkedInv, AcceptPlacement
    PROVE  Kept
<1>1. PICK m \in Requests : m = Head(requests)
  BY FirstRequest DEF AcceptPlacement, Request
<1>2. /\ requests # <<>> /\ requests' = Tail(requests) /\ BrokerAside
      /\ m.kind = "place" /\ book[m.order].state = "none"
  BY <1>1 DEF AcceptPlacement, Request, Take
<1>3. PICK o \in Orders : o = m.order
  BY DEF Requests
<1>4. PICK terms \in Terms : terms = m.terms
  BY <1>2 DEF Requests
<1>5. m.transmit \in BOOLEAN
  BY DEF Requests
<1>6. PICK freed : freed = IF m.transmit
                           THEN {x \in Siblings(o) : book[x].state = "held"} \cup {o} ELSE {}
  OBVIOUS
<1>7. PICK held : held = [state |-> "held", terms |-> terms]
  OBVIOUS
<1>8. PICK b : b = book'
  OBVIOUS
<1>9. /\ b = [x \in Orders |-> IF x \in freed
                               THEN [[book EXCEPT ![o] = held][x] EXCEPT !.state = "working"]
                               ELSE [book EXCEPT ![o] = held][x]]
      /\ Sent(Reported("open", freed, b))
  BY <1>1, <1>3, <1>4, <1>6, <1>7, <1>8 DEF AcceptPlacement
<1>10. held \in BookEntries /\ held.state = "held"
  BY <1>7 DEF BookEntries
<1>11. \A x \in Orders : [book EXCEPT ![o] = held][x] = IF x = o THEN held ELSE book[x]
  BY <1>10, EntryKept
<1>12. book \in [Orders -> BookEntries]
  BY DEF LinkedInv, LinkedTypes
<1>13. freed \in SUBSET Orders /\ \A x \in freed : x = o \/ book[x].state = "held"
  BY <1>6, SiblingsShare
<1>14. ASSUME NEW x \in Orders
       PROVE  /\ b[x] \in BookEntries
              /\ x = o => b[x].state \in {"held", "working"}
              /\ x = o /\ x \notin freed => b[x].state = "held"
              /\ x \in freed => b[x].state = "working"
              /\ x # o /\ x \notin freed => b[x] = book[x]
  <2>1. PICK old \in BookEntries : old = IF x = o THEN held ELSE book[x]
    BY <1>10, <1>12
  <2>2. b[x] = IF x \in freed THEN [old EXCEPT !.state = "working"] ELSE old
    BY <1>9, <1>11, <2>1
  <2>3. CASE x \in freed
    <3>1. old.state = "held" /\ old.terms \in Terms
      BY <1>10, <1>13, <2>1, <2>3 DEF BookEntries
    <3>2. b[x] = [state |-> "working", terms |-> old.terms]
      BY <2>2, <2>3 DEF BookEntries
    <3> QED BY <2>3, <3>1, <3>2 DEF BookEntries
  <2>4. CASE x \notin freed
    BY <1>10, <2>1, <2>2, <2>4
  <2> QED BY <2>3, <2>4
<1>15. b \in [Orders -> BookEntries]
  BY <1>9, <1>14
<1>16. \A x \in Orders : b[x].state = "none" <=> book[x].state = "none" /\ x # o
  BY <1>13, <1>14
<1>17. Receives
  BY <1>1, <1>2, <1>3, <1>8, <1>16 DEF Receives, Places
<1>18. \A x \in Orders : book[x].state \in Ended => b[x].state = book[x].state
  BY <1>2, <1>3, <1>13, <1>14 DEF Ended
<1>19. ASSUME NEW x \in Orders, b[x].state \in Known, book[x].state \notin Known,
              NEW y \in Fellows(x)
       PROVE  b[y].state # "none"
  <2>1. x \in freed
    BY <1>2, <1>3, <1>6, <1>14, <1>19 DEF Known
  <2>2. m.transmit /\ Fellows(x) = Fellows(o)
    BY <1>6, <2>1, SiblingsShare
  <2>3. Ordered(y, 1) /\ y \in Orders
    BY <1>1, <1>2, <1>3, <1>19, <2>2, FirstRequest, FellowsAreOrders
       DEF LinkedInv, BracketInv, Releases
  <2>4. book[y].state # "none" \/ y = o
    BY <1>1, <1>2, <1>3, <2>3, FirstRequest DEF Ordered, Places
  <2> QED BY <1>16, <2>3, <2>4
<1>20. PICK messages : messages = Reported("open", freed, b)
  OBVIOUS
<1>21. /\ messages \in Seq(Reports)
       /\ \A k \in 1..Len(messages) : Truthful(messages[k], b)
  <2>1. \A x \in freed : b[x].state \in Known
    BY <1>13, <1>14 DEF Known
  <2> QED BY <1>13, <1>15, <1>20, <2>1, ReportedFits
<1> QED BY <1>2, <1>8, <1>9, <1>15, <1>17, <1>18, <1>19, <1>20, <1>21, BrokerKeeps

\* One report of what the broker says of an order it knows.
LEMMA OneReport ==
    ASSUME NEW kind \in {"open", "status"}, NEW o \in Orders,
           NEW b \in [Orders -> BookEntries], b[o].state \in Known
    PROVE  /\ <<Report(kind, o, b[o])>> \in Seq(Reports)
           /\ \A k \in 1..Len(<<Report(kind, o, b[o])>>) :
                 Truthful(<<Report(kind, o, b[o])>>[k], b)
<1>1. PICK entry \in BookEntries : entry = b[o]
  OBVIOUS
<1>2. PICK m : m = Report(kind, o, b[o])
  OBVIOUS
<1>3. m \in Reports
  BY <1>1, <1>2, ReportFits
<1>4. <<m>> \in Seq(Reports) /\ Len(<<m>>) = 1 /\ <<m>>[1] = m
  BY <1>3
<1>5. Truthful(m, b)
  BY <1>2 DEF Truthful
<1>6. \A k \in 1..Len(<<m>>) : Truthful(<<m>>[k], b)
  BY <1>4, <1>5
<1> QED BY <1>2, <1>4, <1>6

\* A modification changes the terms of an order that works.
LEMMA AcceptModificationKeeps ==
    ASSUME LinkedInv, AcceptModification
    PROVE  Kept
<1>1. PICK m \in Requests : m = Head(requests)
  BY FirstRequest DEF AcceptModification, Request
<1>2. /\ requests # <<>> /\ requests' = Tail(requests) /\ BrokerAside
      /\ m.kind = "place" /\ book[m.order].state = "working"
  BY <1>1 DEF AcceptModification, Request, Take
<1>3. PICK o \in Orders : o = m.order
  BY DEF Requests
<1>4. PICK terms \in Terms : terms = m.terms
  BY <1>2 DEF Requests
<1>5. PICK old \in BookEntries : old = book[o] /\ old.state = "working"
  BY <1>2, <1>3 DEF LinkedInv, LinkedTypes
<1>6. PICK entry : entry = [old EXCEPT !.terms = terms]
  OBVIOUS
<1>7. entry \in BookEntries /\ entry.state = "working"
  <2>1. entry = [state |-> "working", terms |-> terms]
    BY <1>5, <1>6 DEF BookEntries
  <2> QED BY <2>1 DEF BookEntries
<1>8. PICK b : b = [book EXCEPT ![o] = entry]
  OBVIOUS
<1>9. /\ b \in [Orders -> BookEntries]
      /\ \A x \in Orders : b[x] = IF x = o THEN entry ELSE book[x]
  BY <1>7, <1>8, EntryKept
<1>10. book' = b /\ Sent(<<Report("open", o, b[o])>>)
  BY <1>1, <1>3, <1>4, <1>5, <1>6, <1>8 DEF AcceptModification
<1>11. Receives
  BY <1>1, <1>2, <1>3, <1>5, <1>7, <1>9, <1>10 DEF Receives, Places
<1>12. /\ \A x \in Orders : b[x].state = book[x].state
  BY <1>5, <1>7, <1>9
<1>13. PICK messages : messages = <<Report("open", o, b[o])>>
  OBVIOUS
<1>14. /\ messages \in Seq(Reports)
       /\ \A k \in 1..Len(messages) : Truthful(messages[k], b)
  BY <1>7, <1>9, <1>13, OneReport DEF Known
<1> QED BY <1>2, <1>9, <1>10, <1>11, <1>12, <1>13, <1>14, BrokerKeeps

\* A refusal is told of an order that never reached the broker, of an entry, whose
\* modification it may be, or of an order that has ended.
LEMMA RefusePlacementKeeps ==
    ASSUME LinkedInv, RefusePlacement
    PROVE  Kept
<1>1. PICK m \in Requests : m = Head(requests)
  BY FirstRequest DEF RefusePlacement, Request
<1>2. /\ requests # <<>> /\ requests' = Tail(requests) /\ BrokerAside
      /\ m.kind = "place"
      /\ book[m.order].state \in {"none", "working", "filled", "cancelled", "refused"}
  BY <1>1 DEF RefusePlacement, Request, Take
<1>3. PICK o \in Orders : o = m.order
  BY DEF Requests
<1>4. PICK old \in BookEntries : old = book[o]
  BY DEF LinkedInv, LinkedTypes
<1>5. PICK entry : entry = [old EXCEPT !.state = IF @ = "none" THEN "refused" ELSE @]
  OBVIOUS
<1>6. /\ entry \in BookEntries
      /\ entry.state = IF old.state = "none" THEN "refused" ELSE old.state
  <2>1. CASE old.state = "none"
    <3>1. entry = [state |-> "refused", terms |-> NoTerms]
      BY <1>5, <2>1 DEF BookEntries
    <3> QED BY <2>1, <3>1 DEF BookEntries
  <2>2. CASE old.state # "none"
    <3>1. entry = old
      BY <1>5, <2>2 DEF BookEntries
    <3> QED BY <2>2, <3>1
  <2> QED BY <2>1, <2>2
<1>7. PICK b : b = [book EXCEPT ![o] = entry]
  OBVIOUS
<1>8. /\ b \in [Orders -> BookEntries]
      /\ \A x \in Orders : b[x] = IF x = o THEN entry ELSE book[x]
  BY <1>6, <1>7, EntryKept
<1>9. book' = b /\ Sent(<<Refusal(o)>>)
  BY <1>1, <1>3, <1>4, <1>5, <1>7 DEF RefusePlacement
<1>10. Receives
  BY <1>1, <1>2, <1>3, <1>4, <1>6, <1>8, <1>9 DEF Receives, Places
<1>11. /\ \A x \in Orders : book[x].state \in Ended => b[x].state = book[x].state
       /\ \A x \in Orders : b[x].state \in Known => b[x].state = book[x].state
  BY <1>4, <1>6, <1>8 DEF Ended, Known
<1>12. o \notin Entries => b[o].state \in Ended
  <2>1. o \notin Entries => book[o].state = "none"
    BY <1>1, <1>2, <1>3, FirstRequest DEF LinkedInv, PlacementInv
  <2> QED BY <1>4, <1>6, <1>8, <2>1 DEF Ended
<1>13. PICK messages : messages = <<Refusal(o)>>
  OBVIOUS
<1>14. /\ messages \in Seq(Reports)
       /\ \A k \in 1..Len(messages) : Truthful(messages[k], b)
  <2>1. Refusal(o) \in Reports
    BY DEF Refusal, Reports
  <2>2. /\ messages \in Seq(Reports) /\ Len(messages) = 1 /\ messages[1] = Refusal(o)
    BY <1>13, <2>1
  <2> QED BY <1>12, <2>2 DEF Truthful
<1> QED BY <1>2, <1>8, <1>9, <1>10, <1>11, <1>13, <1>14, BrokerKeeps

\* An open order has its terms whatever becomes of it.
LEMMA OpenEntry ==
    ASSUME NEW entry \in BookEntries, entry.state \in Open, NEW state \in Known
    PROVE  /\ [entry EXCEPT !.state = state] \in BookEntries
           /\ [entry EXCEPT !.state = state].state = state
<1>1. entry.terms \in Terms
  BY DEF BookEntries, Open
<1>2. [entry EXCEPT !.state = state] = [state |-> state, terms |-> entry.terms]
  BY DEF BookEntries, Open
<1> QED BY <1>1, <1>2 DEF BookEntries, Known

\* A cancellation reaches the broker after all orders of the bracket.
LEMMA TakeCancelKeeps ==
    ASSUME LinkedInv, TakeCancel
    PROVE  Kept
<1>1. PICK m \in Requests : m = Head(requests)
  BY FirstRequest DEF TakeCancel, Request
<1>2. /\ requests # <<>> /\ requests' = Tail(requests) /\ BrokerAside /\ m.kind = "cancel"
  BY <1>1 DEF TakeCancel, Request, Take
<1>3. PICK o \in Orders : o = m.order
  BY DEF Requests
<1>4. \A x : ~Places(m, x)
  BY <1>2 DEF Places
<1>5. book \in [Orders -> BookEntries]
  BY DEF LinkedInv, LinkedTypes
<1>6. CASE book[o].state \notin Open
  <2>1. book' = book /\ reports' = reports
    BY <1>1, <1>3, <1>6 DEF TakeCancel
  <2>2. Receives
    BY <1>1, <1>2, <1>4, <2>1 DEF Receives
  <2>3. PICK messages : messages = <<>>
    OBVIOUS
  <2>4. messages \in Seq(Reports) /\ Len(messages) = 0
    BY <2>3, EmptySeq
  <2>5. \A k \in 1..Len(messages) : Truthful(messages[k], book)
    BY <2>4
  <2> QED BY <1>2, <1>5, <2>1, <2>2, <2>4, <2>5, BrokerKeeps
<1>7. CASE book[o].state \in Open
  <2>1. PICK gone : gone = {x \in {o} \cup (IF o \in Entries THEN Siblings(o) ELSE {}) :
                              book[x].state \in Open}
    OBVIOUS
  <2>2. /\ gone \in SUBSET Orders
        /\ \A x \in gone : book[x].state \in Open /\ Fellows(x) = Fellows(o)
    BY <2>1, SiblingsShare
  <2>3. PICK b : b = book'
    OBVIOUS
  <2>4. /\ b = [x \in Orders |-> IF x \in gone THEN [book[x] EXCEPT !.state = "cancelled"]
                                 ELSE book[x]]
        /\ Sent(Reported("status", gone, b))
    BY <1>1, <1>3, <1>7, <2>1, <2>3 DEF TakeCancel, Moves
  <2>5. ASSUME NEW x \in Orders
        PROVE  /\ b[x] \in BookEntries
               /\ x \in gone => b[x].state = "cancelled"
               /\ x \notin gone => b[x] = book[x]
    <3>1. PICK old \in BookEntries : old = book[x]
      BY <1>5
    <3>2. CASE x \in gone
      <4>1. b[x] = [old EXCEPT !.state = "cancelled"] /\ old.state \in Open
        BY <2>2, <2>4, <3>1, <3>2
      <4>2. "cancelled" \in Known
        BY DEF Known
      <4> QED BY <3>2, <4>1, <4>2, OpenEntry
    <3>3. CASE x \notin gone
      BY <2>4, <3>1, <3>3
    <3> QED BY <3>2, <3>3
  <2>6. b \in [Orders -> BookEntries]
    BY <2>4, <2>5
  <2>7. \A x \in Orders : b[x].state = "none" <=> book[x].state = "none"
    BY <2>2, <2>5 DEF Open
  <2>8. Receives
    BY <1>1, <1>2, <1>4, <2>3, <2>7 DEF Receives
  <2>9. \A x \in Orders : book[x].state \in Ended => b[x].state = book[x].state
    BY <2>2, <2>5 DEF Ended, Open
  <2>10. ASSUME NEW x \in Orders, b[x].state \in Known, book[x].state \notin Known,
                NEW y \in Fellows(x)
         PROVE  b[y].state # "none"
    <3>1. x \in gone /\ y \in Fellows(o)
      BY <2>2, <2>5, <2>10
    <3>2. Ordered(y, 1) /\ y \in Orders
      BY <1>1, <1>2, <1>3, <3>1, FirstRequest, FellowsAreOrders
         DEF LinkedInv, BracketInv, Releases
    <3>3. book[y].state # "none"
      BY <1>1, <1>4, <3>2, FirstRequest DEF Ordered
    <3> QED BY <2>7, <3>2, <3>3
  <2>11. PICK messages : messages = Reported("status", gone, b)
    OBVIOUS
  <2>12. /\ messages \in Seq(Reports)
         /\ \A k \in 1..Len(messages) : Truthful(messages[k], b)
    <3>1. \A x \in gone : b[x].state \in Known
      BY <2>2, <2>5 DEF Known
    <3> QED BY <2>2, <2>6, <2>11, <3>1, ReportedFits
  <2> QED BY <1>2, <2>3, <2>4, <2>6, <2>8, <2>9, <2>10, <2>11, <2>12, BrokerKeeps
<1> QED BY <1>6, <1>7

\* An execution ends its order and cancels others, the bracket of which works already.
LEMMA FillKeeps ==
    ASSUME LinkedInv, NEW o \in Orders, Fill(o)
    PROVE  Kept
<1>1. book \in [Orders -> BookEntries]
  BY DEF LinkedInv, LinkedTypes
<1>2. PICK gone : gone = IF o \in Entries THEN {}
                         ELSE {x \in Siblings(o) : book[x].state \in Open}
  OBVIOUS
<1>3. /\ gone \in SUBSET Orders /\ o \notin gone
      /\ \A x \in gone : book[x].state \in Open /\ Fellows(x) = Fellows(o)
  <2>1. \A x \in gone : x \in Siblings(o) /\ book[x].state \in Open
    BY <1>2
  <2>2. o \notin Siblings(o)
    BY DEF Siblings
  <2> QED BY <2>1, <2>2, SiblingsShare
<1>4. PICK b : b = book'
  OBVIOUS
<1>5. /\ b = [x \in Orders |-> IF x = o THEN [book[x] EXCEPT !.state = "filled"]
                               ELSE IF x \in gone THEN [book[x] EXCEPT !.state = "cancelled"]
                               ELSE book[x]]
      /\ Sent(<<Report("status", o, b[o])>> \o Reported("status", gone, b))
      /\ book[o].state = "working"
      /\ BrokerAside /\ requests' = requests
  BY <1>2, <1>4 DEF Fill
<1>6. {"filled", "cancelled"} \subseteq Known /\ "working" \in Open
  BY DEF Known, Open
<1>7. ASSUME NEW x \in Orders
      PROVE  /\ b[x] \in BookEntries
             /\ x = o => b[x].state = "filled"
             /\ x \in gone => b[x].state = "cancelled"
             /\ x # o /\ x \notin gone => b[x] = book[x]
  <2>1. PICK old \in BookEntries : old = book[x]
    BY <1>1
  <2>2. CASE x = o
    <3>1. b[x] = [old EXCEPT !.state = "filled"] /\ old.state \in Open
      BY <1>5, <1>6, <2>1, <2>2
    <3> QED BY <1>3, <1>6, <2>2, <3>1, OpenEntry
  <2>3. CASE x \in gone
    <3>1. b[x] = [old EXCEPT !.state = "cancelled"] /\ old.state \in Open /\ x # o
      BY <1>3, <1>5, <2>1, <2>3
    <3> QED BY <1>6, <2>3, <3>1, OpenEntry
  <2>4. CASE x # o /\ x \notin gone
    BY <1>5, <2>1, <2>4
  <2> QED BY <2>2, <2>3, <2>4
<1>8. b \in [Orders -> BookEntries]
  BY <1>5, <1>7
<1>9. \A x \in Orders : b[x].state = "none" <=> book[x].state = "none"
  BY <1>3, <1>5, <1>7 DEF Open
<1>10. Receives
  BY <1>4, <1>5, <1>9 DEF Receives
<1>11. \A x \in Orders : book[x].state \in Ended => b[x].state = book[x].state
  BY <1>3, <1>5, <1>7 DEF Ended, Open
<1>12. ASSUME NEW x \in Orders, b[x].state \in Known, book[x].state \notin Known,
              NEW y \in Fellows(x)
       PROVE  b[y].state # "none"
  <2>1. x # o
    BY <1>5, <1>12 DEF Known
  <2>2. x \in gone
    BY <1>7, <1>12, <2>1
  <2>3. y \in Fellows(o) /\ y \in Orders
    BY <1>3, <1>12, <2>2, FellowsAreOrders
  <2>4. Covered(o)
    BY <1>5 DEF LinkedInv, BracketInv, Known
  <2> QED BY <1>9, <2>3, <2>4 DEF Covered
<1>13. PICK first : first = <<Report("status", o, b[o])>>
  OBVIOUS
<1>14. PICK others : others = Reported("status", gone, b)
  OBVIOUS
<1>15. /\ first \in Seq(Reports)
       /\ \A k \in 1..Len(first) : Truthful(first[k], b)
  BY <1>6, <1>7, <1>8, <1>13, OneReport
<1>16. /\ others \in Seq(Reports)
       /\ \A k \in 1..Len(others) : Truthful(others[k], b)
  <2>1. \A x \in gone : b[x].state \in Known
    BY <1>3, <1>6, <1>7
  <2> QED BY <1>3, <1>8, <1>14, <2>1, ReportedFits
<1>17. PICK messages : messages = first \o others
  OBVIOUS
<1>18. /\ messages \in Seq(Reports)
       /\ Len(first) \in Nat /\ Len(others) \in Nat
       /\ Len(messages) = Len(first) + Len(others)
       /\ \A k \in 1..Len(first) + Len(others) :
             messages[k] = IF k <= Len(first) THEN first[k] ELSE others[k - Len(first)]
  BY <1>15, <1>16, <1>17, ConcatProperties, LenProperties
<1>19. ASSUME NEW k \in 1..Len(messages)
       PROVE  Truthful(messages[k], b)
  <2>1. k \in 1..Len(first) + Len(others)
    BY <1>18
  <2>2. CASE k <= Len(first)
    <3>1. k \in 1..Len(first) /\ messages[k] = first[k]
      BY <1>18, <2>1, <2>2
    <3> QED BY <1>15, <3>1
  <2>3. CASE ~(k <= Len(first))
    <3>1. PICK h \in 1..Len(others) : h = k - Len(first)
      BY <1>18, <2>1, <2>3
    <3>2. messages[k] = others[h]
      BY <1>18, <2>1, <2>3, <3>1
    <3> QED BY <1>16, <3>2
  <2> QED BY <2>2, <2>3
<1>20. Sent(messages)
  BY <1>5, <1>13, <1>14, <1>17
<1> QED BY <1>4, <1>5, <1>8, <1>10, <1>11, <1>12, <1>18, <1>19, <1>20, BrokerKeeps

\* A status is repeated as it is.
LEMMA RepeatStatusKeeps ==
    ASSUME LinkedInv, NEW o \in Orders, RepeatStatus(o)
    PROVE  Kept
<1>1. book \in [Orders -> BookEntries]
  BY DEF LinkedInv, LinkedTypes
<1>2. /\ book[o].state = "working" /\ BrokerAside /\ requests' = requests /\ book' = book
      /\ Sent(<<Report("status", o, book[o])>>)
  BY DEF RepeatStatus
<1>3. Receives
  BY <1>2 DEF Receives
<1>4. PICK messages : messages = <<Report("status", o, book[o])>>
  OBVIOUS
<1>5. /\ messages \in Seq(Reports)
      /\ \A k \in 1..Len(messages) : Truthful(messages[k], book)
  BY <1>1, <1>2, <1>4, OneReport DEF Known
<1> QED BY <1>1, <1>2, <1>3, <1>4, <1>5, BrokerKeeps

-----------------------------------------------------------------------------
(* The results.                                                            *)

\* Every step keeps the invariant and uses the ledger as OrderLedger says.
LEMMA StepLinkedInv ==
    ASSUME LinkedInv, [LinkedNext]_linkedVars
    PROVE  Kept
<1>1. CASE UNCHANGED linkedVars
  <2>1. UNCHANGED <<ledgerVars, up, call, record, recovering, requests, reports, book>>
    BY <1>1 DEF linkedVars, processVars, wireVars
  <2>2. LedgerKept /\ HearsayInv'
    BY <2>1, LedgerStands, HearsayStands
  <2> QED BY <2>1, <2>2, AsideKeeps DEF LinkedInv, LinkedTypes
<1>2. CASE CallStep \/ ProcessStep
  BY <1>2, CallKeeps, DeliverStatusKeeps, DeliverErrorKeeps, RestartKeeps, ReconcileKeeps
     DEF ProcessStep
<1>3. CASE BrokerTakes
  BY <1>3, AcceptPlacementKeeps, AcceptModificationKeeps, RefusePlacementKeeps, TakeCancelKeeps
     DEF BrokerTakes
<1>4. CASE Crash \/ \E group \in Batch : SubmitGroup(group)
  BY <1>4, CrashKeeps, SubmitGroupKeeps
<1>5. ASSUME NEW o \in Orders,
             \/ \E terms \in Terms : Replace(o, terms)
             \/ Fill(o) \/ RepeatStatus(o) \/ ExpireLeg(o)
      PROVE  Kept
  BY <1>5, ReplaceKeeps, FillKeeps, RepeatStatusKeeps, ExpireKeeps
<1> QED BY <1>1, <1>2, <1>3, <1>4, <1>5 DEF LinkedNext

\* At first nothing has been sent.
LEMMA InitLinkedInv ==
    ASSUME LinkedInit
    PROVE  LinkedInv
<1>1. IInv
  BY InitIInv DEF LinkedInit
<1>2. /\ up = TRUE /\ call = IdleCall /\ record = [o \in Orders |-> NoRecord]
      /\ recovering = {} /\ requests = <<>> /\ reports = <<>>
      /\ book = [o \in Orders |-> NotPlaced]
      /\ \A o \in Orders : rows[o].state = "ABSENT" /\ ~rows[o].brokerId /\ claims[o] = 0
  BY DEF LinkedInit, Init
<1>3. Len(requests) = 0 /\ Len(reports) = 0
  BY <1>2, EmptySeq
<1>4. LinkedTypes
  <2>1. requests \in Seq(Requests) /\ reports \in Seq(Reports)
    BY <1>2, EmptySeq
  <2>2. NoRecord \in Records /\ NotPlaced \in BookEntries
    BY DEF NoRecord, Records, NotPlaced, BookEntries
  <2> QED BY <1>2, <2>1, <2>2, IdleFits DEF LinkedTypes
<1>5. \A o \in Orders : ~AtBroker(o) /\ book[o].state = "none"
  BY <1>2 DEF AtBroker, NotPlaced
<1>6. BracketInv
  BY <1>3, <1>5 DEF BracketInv, Known
<1>7. PlacementInv
  BY <1>3, <1>5 DEF PlacementInv
<1>8. HearsayInv
  BY <1>2, <1>3 DEF HearsayInv, RecordIsTrue, NoRecord
<1>9. CallInv
  BY <1>2, IdleFits DEF CallInv
<1>10. RowsAreTrue
  BY <1>2 DEF RowsAreTrue, RowIsTrue
<1> QED BY <1>1, <1>4, <1>6, <1>7, <1>8, <1>9, <1>10 DEF LinkedInv

\* What is on its way, what the adapter has recorded, what the call holds and what the rows
\* say is always true of the broker, however groups, replacements and crashes interleave.
THEOREM LinkedInvariance == LinkedSpec => []LinkedInv
<1>1. LinkedInit => LinkedInv
  BY InitLinkedInv
<1>2. LinkedInv /\ [LinkedNext]_linkedVars => LinkedInv'
  BY StepLinkedInv DEF Kept
<1> QED BY <1>1, <1>2, PTL DEF LinkedSpec

\* Groups and replacements change rows only by the operations of the ledger.
THEOREM LinkedUsesLedger == LinkedSpec => Spec
<1>1. LinkedInit => Init
  BY DEF LinkedInit
<1>2. LinkedInv /\ [LinkedNext]_linkedVars => [Next]_ledgerVars
  BY StepLinkedInv DEF Kept
<1> QED BY <1>1, <1>2, LinkedInvariance, PTL DEF LinkedSpec, Spec

\* README.md:371: the entry of a bracket works, or was executed, only with its exits at the
\* broker, whichever placement a crash cuts off and whatever the broker refuses.
THEOREM EntriesWorkWithTheirExits == LinkedSpec => []EntriesAreProtected
<1>1. ASSUME LinkedInv
      PROVE  EntriesAreProtected
  <2> SUFFICES ASSUME NEW bracket \in Brackets,
                      book[bracket[1]].state \in {"working", "filled"},
                      NEW o \in Legs(bracket)
               PROVE  book[o].state # "none"
    BY DEF EntriesAreProtected
  <2>1. bracket \in Batch /\ bracket[1] \in Legs(bracket) /\ bracket[1] \in Orders
    BY BatchShape DEF Batch
  <2>2. Fellows(bracket[1]) = Legs(bracket)
    BY <2>1, FellowsOfLeg
  <2>3. Covered(bracket[1])
    BY <1>1, <2>1 DEF LinkedInv, BracketInv, Known
  <2> QED BY <2>2, <2>3 DEF Covered
<1> QED BY <1>1, LinkedInvariance, PTL

\* A row that says its order expired, was cancelled or was rejected is never one of an order
\* that the broker may still execute.
THEOREM ClosedRowsAreTrue == LinkedSpec => []ClosedLegsAreDead
<1>1. ASSUME LinkedInv
      PROVE  ClosedLegsAreDead
  <2> SUFFICES ASSUME NEW o \in Orders, book[o].state \in Open
               PROVE  /\ rows[o].state \notin {"RISK_REJECTED", "EXPIRED", "CANCELLED"}
                      /\ rows[o].state = "REJECTED" => o \in Entries
    BY DEF ClosedLegsAreDead
  <2>1. AtBroker(o)
    BY <1>1 DEF LinkedInv, PlacementInv, Open
  <2>2. rows[o].state # "RISK_REJECTED"
    BY <1>1, <2>1 DEF LinkedInv, IInv, ClaimedOnce, AtBroker
  <2>3. RowIsTrue(o, rows[o])
    BY <1>1 DEF LinkedInv, RowsAreTrue
  <2> QED BY <2>1, <2>2, <2>3 DEF RowIsTrue, Refused, Ended, Open
<1> QED BY <1>1, LinkedInvariance, PTL
=============================================================================
