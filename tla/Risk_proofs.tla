----------------------------- MODULE Risk_proofs -----------------------------
(***************************************************************************)
(* Proofs about risk: the governance of policies, and the gates that apply *)
(* them to an order.                                                       *)
(*                                                                         *)
(* Governance (RiskPolicies), for every set of scopes, persons and         *)
(* concurrent requests and any number of versions: a scope has one ACTIVE  *)
(* version, two persons stand behind it, and the transactions implement    *)
(* PolicyInForce.                                                          *)
(*                                                                         *)
(* Gates (PreTradeRisk), for every set of orders and policies, every limit *)
(* and every number of faults: a live entry is judged by a policy that was *)
(* put in force and keeps to its limits, and no second has more orders and *)
(* cancels than allowed, but for one that was held up, nor more            *)
(* withdrawals.                                                            *)
(***************************************************************************)
EXTENDS RiskPolicies, PreTradeRisk, FiniteSetTheorems, SequenceTheorems, TLAPS

-----------------------------------------------------------------------------
(* Governance of policies.                                                 *)

\* Whoever has approved a version did not propose it.
ApproversAreOthers ==
    \A s \in Scopes : \A v \in DOMAIN policies[s] :
        policies[s][v].approvedBy # policies[s][v].proposedBy

\* The row that an activation or a rollback holds has been approved.
HeldRowsAreApproved ==
    \A r \in Requests : request[r].step \in {"scanning", "retiring", "activating"} =>
        /\ request[r].version \in DOMAIN policies[request[r].scope]
        /\ policies[request[r].scope][request[r].version].approvedBy # NoActor

PoliciesInv ==
    /\ PoliciesTypeOK
    /\ OneActivePolicy
    /\ ActivePolicyHasTwoPersons
    /\ ApproversAreOthers
    /\ HeldRowsAreApproved

\* The rows of a scope as the type invariant has them.
LEMMA RowsOfScope ==
    ASSUME PoliciesInv, NEW s \in Scopes
    PROVE  /\ policies[s] \in Seq(Row)
           /\ Len(policies[s]) \in Nat
           /\ DOMAIN policies[s] = 1 .. Len(policies[s])
           /\ DOMAIN policies[s] \subseteq Versions
           /\ \A v \in DOMAIN policies[s] : policies[s][v] \in Row
<1>1. policies[s] \in Seq(Row) /\ Len(policies[s]) <= MaxVersions
  BY DEF PoliciesInv, PoliciesTypeOK
<1> QED BY <1>1, PoliciesAssumption DEF Versions

\* What an operation may make of the rows of a scope: the rows that were there stay, those
\* that were approved stay approved, and nobody approves what he proposed.
GrownRows(s, rows) ==
    /\ rows \in Seq(Row)
    /\ Len(rows) <= MaxVersions
    /\ DOMAIN policies[s] \subseteq DOMAIN rows
    /\ \A v \in DOMAIN rows : rows[v].approvedBy # rows[v].proposedBy
    /\ \A v \in DOMAIN policies[s] :
          policies[s][v].approvedBy # NoActor => rows[v].approvedBy # NoActor

\* Three kinds of write: a draft or an approval leaves the ACTIVE versions alone, an
\* activation makes an approved version the only ACTIVE one.
LEMMA InsertedRows ==
    ASSUME PoliciesInv, NEW r \in Requests, InsertDraft(r)
    PROVE  \E s \in Scopes, rows \in Seq(Row) :
              /\ policies' = [policies EXCEPT ![s] = rows]
              /\ GrownRows(s, rows)
              /\ ActiveIn(rows) = Active(s)
              /\ SeenByTwo(rows) = SeenByTwo(policies[s])
<1> DEFINE s == request[r].scope
           draft == [status |-> "DRAFT", proposedBy |-> request[r].actor, approvedBy |-> NoActor]
           rows == IF request[r].version = Len(policies[s]) + 1 THEN Append(policies[s], draft)
                                                                ELSE policies[s]
<1>1. request[r] \in Proposal
  <2>1. request[r] \in {NoRequest} \union Proposal \union Activation
    BY DEF PoliciesInv, PoliciesTypeOK
  <2>2. request[r].step = "proposing"
    BY DEF InsertDraft
  <2> QED BY <2>1, <2>2 DEF NoRequest, Activation
<1>2. s \in Scopes /\ draft \in Row /\ request[r].version \in Versions
  BY <1>1 DEF Proposal, Row, Status
<1>3. /\ policies[s] \in Seq(Row)
      /\ Len(policies[s]) \in Nat
      /\ Len(policies[s]) <= MaxVersions
      /\ DOMAIN policies[s] = 1 .. Len(policies[s])
      /\ DOMAIN policies = Scopes
  BY <1>2, RowsOfScope DEF PoliciesInv, PoliciesTypeOK
<1>4. policies' = [policies EXCEPT ![s] = rows]
  BY <1>2, <1>3 DEF InsertDraft
<1>5. CASE request[r].version = Len(policies[s]) + 1
  <2>1. /\ rows \in Seq(Row)
        /\ Len(rows) = Len(policies[s]) + 1
        /\ DOMAIN rows = 1 .. Len(policies[s]) + 1
        /\ \A v \in DOMAIN policies[s] : rows[v] = policies[s][v]
        /\ rows[Len(policies[s]) + 1] = draft
    BY <1>2, <1>3, <1>5
  <2>2. Len(rows) <= MaxVersions
    BY <1>2, <1>5, <2>1, PoliciesAssumption DEF Versions
  <2>3. /\ draft.approvedBy # draft.proposedBy
        /\ draft.approvedBy = NoActor
        /\ draft.status # "ACTIVE"
    BY <1>1, PoliciesAssumption DEF Proposal
  <2>4. GrownRows(s, rows)
    <3>1. \A v \in DOMAIN policies[s] : policies[s][v].approvedBy # policies[s][v].proposedBy
      BY <1>2 DEF PoliciesInv, ApproversAreOthers
    <3> HIDE DEF s, draft, rows
    <3>2. DOMAIN policies[s] \subseteq DOMAIN rows
      BY <1>3, <2>1
    <3>3. \A v \in DOMAIN rows : v \in DOMAIN policies[s] \/ rows[v] = draft
      BY <1>3, <2>1
    <3>4. \A v \in DOMAIN rows : rows[v].approvedBy # rows[v].proposedBy
      BY <2>1, <2>3, <3>1, <3>3
    <3>5. \A v \in DOMAIN policies[s] : rows[v].approvedBy = policies[s][v].approvedBy
      BY <2>1
    <3> QED BY <2>1, <2>2, <3>2, <3>4, <3>5 DEF GrownRows
  <2>5. ActiveIn(rows) = Active(s) /\ SeenByTwo(rows) = SeenByTwo(policies[s])
    <3> HIDE DEF s, draft, rows
    <3>1. \A v \in DOMAIN rows : v \in DOMAIN policies[s] \/ rows[v] = draft
      BY <1>3, <2>1
    <3>2. DOMAIN policies[s] \subseteq DOMAIN rows
      BY <1>3, <2>1
    <3>3. ActiveIn(rows) = ActiveIn(policies[s])
      BY <2>1, <2>3, <3>1, <3>2 DEF ActiveIn
    <3>4. SeenByTwo(rows) = SeenByTwo(policies[s])
      BY <2>1, <2>3, <3>1, <3>2 DEF SeenByTwo
    <3> QED BY <3>3, <3>4 DEF Active
  <2> QED BY <1>2, <1>4, <2>1, <2>4, <2>5
<1>6. CASE request[r].version # Len(policies[s]) + 1
  <2>1. rows = policies[s]
    BY <1>6
  <2>2. GrownRows(s, rows)
    <3>1. \A v \in DOMAIN policies[s] : policies[s][v].approvedBy # policies[s][v].proposedBy
      BY <1>2 DEF PoliciesInv, ApproversAreOthers
    <3> HIDE DEF s, rows
    <3> QED BY <1>3, <2>1, <3>1 DEF GrownRows
  <2>3. ActiveIn(rows) = Active(s)
    BY <2>1 DEF Active
  <2> QED BY <1>2, <1>3, <1>4, <2>1, <2>2, <2>3
<1> QED BY <1>5, <1>6

\* An approval adds the version to those that two persons have seen, and nothing else.
LEMMA ApprovedRows ==
    ASSUME PoliciesInv, NEW s \in Scopes, NEW v \in Versions, NEW a \in Actors, Approve(s, v, a)
    PROVE  \E rows \in Seq(Row) :
              /\ policies' = [policies EXCEPT ![s] = rows]
              /\ GrownRows(s, rows)
              /\ ActiveIn(rows) = Active(s)
              /\ SeenByTwo(rows) = SeenByTwo(policies[s]) \union {v}
<1> DEFINE signed == [policies[s][v] EXCEPT !.status = "APPROVED", !.approvedBy = a]
           rows == [policies[s] EXCEPT ![v] = signed]
<1>1. /\ policies[s] \in Seq(Row)
      /\ Len(policies[s]) \in Nat
      /\ Len(policies[s]) <= MaxVersions
      /\ DOMAIN policies[s] = 1 .. Len(policies[s])
      /\ DOMAIN policies = Scopes
  BY RowsOfScope DEF PoliciesInv, PoliciesTypeOK
<1>2. v \in DOMAIN policies[s] /\ policies[s][v] \in Row
  BY RowsOfScope DEF Approve
<1>3. /\ signed \in Row
      /\ signed.status = "APPROVED"
      /\ signed.approvedBy = a
      /\ signed.proposedBy = policies[s][v].proposedBy
  BY <1>2 DEF Row, Status
<1>4. /\ rows \in Seq(Row)
      /\ Len(rows) = Len(policies[s])
      /\ DOMAIN rows = DOMAIN policies[s]
      /\ rows[v] = signed
      /\ \A w \in DOMAIN policies[s] : w # v => rows[w] = policies[s][w]
  BY <1>1, <1>2, <1>3
<1>5. policies' = [policies EXCEPT ![s] = rows]
  BY <1>1, <1>2 DEF Approve
<1>6. /\ policies[s][v].status = "DRAFT"
      /\ policies[s][v].proposedBy # a
  BY DEF Approve
<1>7. ActiveIn(rows) = Active(s)
  BY <1>1, <1>3, <1>4, <1>6 DEF ActiveIn, Active
<1>8. GrownRows(s, rows)
  BY <1>1, <1>3, <1>4, <1>6, PoliciesAssumption DEF GrownRows, PoliciesInv, ApproversAreOthers
<1>9. SeenByTwo(rows) = SeenByTwo(policies[s]) \union {v}
  <2>1. a \notin {NoActor, policies[s][v].proposedBy}
    BY <1>6, PoliciesAssumption
  <2> QED BY <1>2, <1>3, <1>4, <2>1 DEF SeenByTwo
<1> QED BY <1>4, <1>5, <1>7, <1>8, <1>9

\* The commit of an activation or a rollback retires what was ACTIVE with it.
LEMMA CommittedRows ==
    ASSUME PoliciesInv, NEW r \in Requests, CommitActivation(r), IndexAdmits(r)
    PROVE  \E s \in Scopes, rows \in Seq(Row), v \in Versions :
              /\ policies' = [policies EXCEPT ![s] = rows]
              /\ GrownRows(s, rows)
              /\ v \in DOMAIN policies[s]
              /\ policies[s][v].approvedBy # NoActor
              /\ ActiveIn(rows) = {v}
              /\ SeenByTwo(rows) = SeenByTwo(policies[s])
<1> DEFINE s == request[r].scope
           v == request[r].version
           rows == Activated(policies[s], v, request[r].retires)
<1>1. request[r] \in Activation
  BY DEF PoliciesInv, PoliciesTypeOK, CommitActivation, NoRequest, Proposal, Activation
<1>2. s \in Scopes /\ v \in Versions /\ request[r].retires \subseteq Versions
  BY <1>1 DEF Activation
<1>3. /\ policies[s] \in Seq(Row)
      /\ Len(policies[s]) \in Nat
      /\ Len(policies[s]) <= MaxVersions
      /\ DOMAIN policies[s] = 1 .. Len(policies[s])
      /\ DOMAIN policies = Scopes
      /\ \A w \in DOMAIN policies[s] : policies[s][w] \in Row
  BY <1>2, RowsOfScope DEF PoliciesInv, PoliciesTypeOK
<1>4. v \in DOMAIN policies[s] /\ policies[s][v].approvedBy # NoActor
  BY DEF PoliciesInv, HeldRowsAreApproved, CommitActivation
<1>5. policies' = [policies EXCEPT ![s] = rows]
  BY <1>2, <1>3 DEF CommitActivation
<1>6. DOMAIN rows = DOMAIN policies[s]
  BY DEF Activated
<1>7. ASSUME NEW w \in DOMAIN policies[s]
      PROVE  /\ rows[w] \in Row
             /\ rows[w].approvedBy = policies[s][w].approvedBy
             /\ rows[w].proposedBy = policies[s][w].proposedBy
             /\ rows[w].status = IF w = v THEN "ACTIVE"
                                 ELSE IF w \in request[r].retires THEN "RETIRED"
                                 ELSE policies[s][w].status
  BY <1>3, <1>7 DEF Activated, Row, Status
<1>8. rows \in Seq(Row) /\ Len(rows) = Len(policies[s])
  <2>1. rows \in [1 .. Len(policies[s]) -> Row]
    BY <1>3, <1>6, <1>7 DEF Activated
  <2> QED BY <1>3, <2>1
<1>9. GrownRows(s, rows)
  <2>1. \A w \in DOMAIN policies[s] : policies[s][w].approvedBy # policies[s][w].proposedBy
    BY <1>2 DEF PoliciesInv, ApproversAreOthers
  <2>2. \A w \in DOMAIN policies[s] : /\ rows[w].approvedBy = policies[s][w].approvedBy
                                     /\ rows[w].proposedBy = policies[s][w].proposedBy
    BY <1>7
  <2> HIDE DEF s, v, rows
  <2> QED BY <1>3, <1>6, <1>8, <2>1, <2>2 DEF GrownRows
<1>10. ActiveIn(rows) = {v}
  <2>1. \A w \in DOMAIN policies[s] : policies[s][w].status = "ACTIVE" =>
                                      w \in request[r].retires \union {v}
    BY DEF IndexAdmits, Active, ActiveIn
  <2>2. \A w \in DOMAIN rows : rows[w].status = "ACTIVE" <=> w = v
    BY <1>6, <1>7, <2>1
  <2> HIDE DEF s, v, rows
  <2> QED BY <1>4, <1>6, <2>2 DEF ActiveIn
<1>11. SeenByTwo(rows) = SeenByTwo(policies[s])
  <2>1. \A w \in DOMAIN policies[s] : /\ rows[w].approvedBy = policies[s][w].approvedBy
                                     /\ rows[w].proposedBy = policies[s][w].proposedBy
    BY <1>7
  <2> HIDE DEF s, v, rows
  <2> QED BY <1>6, <2>1 DEF SeenByTwo
<1> QED BY <1>2, <1>4, <1>5, <1>8, <1>9, <1>10, <1>11

\* The types of the requests survive each step, and a step that gives a request a row to
\* hold gives it an approved one.
LEMMA RequestsTyped ==
    ASSUME PoliciesInv, PoliciesNext
    PROVE  /\ request' \in [Requests -> {NoRequest} \union Proposal \union Activation]
           /\ \A r \in Requests : request'[r].step \in {"scanning", "retiring", "activating"} =>
                /\ request'[r].version \in DOMAIN policies[request'[r].scope]
                /\ policies[request'[r].scope][request'[r].version].approvedBy # NoActor
<1> DEFINE HoldsRow(q) == q.step \in {"scanning", "retiring", "activating"} =>
                         /\ q.version \in DOMAIN policies[q.scope]
                         /\ policies[q.scope][q.version].approvedBy # NoActor
           Typed(q) == q \in {NoRequest} \union Proposal \union Activation
<1>1. /\ request \in [Requests -> {NoRequest} \union Proposal \union Activation]
      /\ \A r \in Requests : HoldsRow(request[r])
  BY DEF PoliciesInv, PoliciesTypeOK, HeldRowsAreApproved
<1>2. SUFFICES \/ UNCHANGED request
               \/ \E r \in Requests : \E q :
                      request' = [request EXCEPT ![r] = q] /\ Typed(q) /\ HoldsRow(q)
  BY <1>1
<1>3. ASSUME NEW r \in Requests, NEW s \in Scopes, NEW a \in Actors, ReadLatest(r, s, a)
      PROVE  \E q : request' = [request EXCEPT ![r] = q] /\ Typed(q) /\ HoldsRow(q)
  <2> DEFINE q == [step |-> "proposing", scope |-> s, actor |-> a,
                   version |-> Len(policies[s]) + 1]
  <2>1. Len(policies[s]) \in Nat /\ Len(policies[s]) + 1 \in Versions
    BY <1>3, RowsOfScope, PoliciesAssumption DEF ReadLatest, Versions
  <2>2. Typed(q) /\ HoldsRow(q)
    BY <2>1 DEF Proposal
  <2> QED BY <1>3, <2>2 DEF ReadLatest
<1>4. ASSUME NEW r \in Requests, NEW s \in Scopes, NEW v \in Versions,
             Activate(r, s, v) \/ Rollback(r, s, v)
      PROVE  \E q : request' = [request EXCEPT ![r] = q] /\ Typed(q) /\ HoldsRow(q)
  <2> DEFINE q == [step |-> "scanning", scope |-> s, version |-> v, retires |-> {}]
  <2>1. Typed(q) /\ HoldsRow(q)
    BY <1>4 DEF Activation, Activate, Rollback, LocksOwnRow
  <2> QED BY <1>4, <2>1 DEF Activate, Rollback, LocksOwnRow
<1>5. ASSUME NEW r \in Requests, FindActive(r) \/ LockActive(r)
      PROVE  \E q : request' = [request EXCEPT ![r] = q] /\ Typed(q) /\ HoldsRow(q)
  <2>1. request[r] \in Activation
    BY <1>1, <1>5 DEF FindActive, LockActive, NoRequest, Proposal, Activation
  <2>2. Active(request[r].scope) \subseteq Versions
    BY <2>1, RowsOfScope DEF Active, ActiveIn, Activation
  <2>3. PICK step \in {"retiring", "activating"}, found \in SUBSET Versions :
            request' = [request EXCEPT ![r] = [request[r] EXCEPT !.step = step,
                                                                 !.retires = found]]
    <3>1. CASE FindActive(r)
      BY <1>1, <2>1, <2>2, <3>1 DEF FindActive, Activation
    <3>2. CASE LockActive(r)
      BY <1>1, <2>1, <2>2, <3>2 DEF LockActive, Activation
    <3> QED BY <1>5, <3>1, <3>2
  <2> DEFINE q == [request[r] EXCEPT !.step = step, !.retires = found]
  <2>4. /\ q \in Activation
        /\ q.version = request[r].version
        /\ q.scope = request[r].scope
        /\ request[r].step \in {"scanning", "retiring", "activating"}
    BY <2>1 DEF Activation
  <2>5. Typed(q) /\ HoldsRow(q)
    BY <1>1, <2>4
  <2> QED BY <2>3, <2>5
<1>6. ASSUME NEW r \in Requests, InsertDraft(r) \/ CommitActivation(r) \/ Abort(r)
      PROVE  \E q : request' = [request EXCEPT ![r] = q] /\ Typed(q) /\ HoldsRow(q)
  BY <1>6 DEF InsertDraft, CommitActivation, Abort, Ends, NoRequest
<1>7. ASSUME NEW s \in Scopes, NEW v \in Versions, NEW a \in Actors, Approve(s, v, a)
      PROVE  UNCHANGED request
  BY <1>7 DEF Approve
<1> HIDE DEF HoldsRow, Typed
<1> QED BY <1>3, <1>4, <1>5, <1>6, <1>7 DEF PoliciesNext, Continue

-----------------------------------------------------------------------------
(* The invariant.                                                          *)

\* Tables without rows and no transaction satisfy the invariant.
LEMMA InitiallyInv == PoliciesInit => PoliciesInv
<1> SUFFICES ASSUME PoliciesInit PROVE PoliciesInv
  OBVIOUS
<1>1. \A s \in Scopes : policies[s] = <<>> /\ Len(policies[s]) = 0 /\ DOMAIN policies[s] = {}
  <2>1. Len(<<>>) = 0 /\ DOMAIN <<>> = {}
    OBVIOUS
  <2> QED BY <2>1 DEF PoliciesInit
<1>2. \A r \in Requests : request[r].step = "none"
  BY DEF PoliciesInit, NoRequest
<1>3. PoliciesTypeOK
  BY <1>1, PoliciesAssumption DEF PoliciesInit, PoliciesTypeOK
<1>4. /\ OneActivePolicy
      /\ ActivePolicyHasTwoPersons
      /\ ApproversAreOthers
      /\ HeldRowsAreApproved
  BY <1>1, <1>2 DEF OneActivePolicy, ActivePolicyHasTwoPersons, ApproversAreOthers,
                    HeldRowsAreApproved, Active, ActiveIn
<1> QED BY <1>3, <1>4 DEF PoliciesInv

\* A commit that the unique index refuses changes nothing.
LEMMA RefusedCommit ==
    ASSUME PoliciesInv, NEW r \in Requests, CommitActivation(r), ~IndexAdmits(r)
    PROVE  UNCHANGED policies
<1>1. policies \in [Scopes -> Seq(Row)]
  BY DEF PoliciesInv, PoliciesTypeOK
<1>2. policies' = [policies EXCEPT ![request[r].scope] = policies[request[r].scope]]
  BY DEF CommitActivation
<1> QED BY <1>1, <1>2

\* The actions that write rows.
LEMMA RowsWrittenBy ==
    ASSUME PoliciesNext
    PROVE  \/ UNCHANGED policies
           \/ \E r \in Requests : InsertDraft(r) \/ CommitActivation(r)
           \/ \E s \in Scopes, v \in Versions, a \in Actors : Approve(s, v, a)
BY DEF PoliciesNext, Continue, ReadLatest, Activate, Rollback, LocksOwnRow, FindActive,
       LockActive, Abort

\* What a step makes of the rows: nothing, or grown rows of one scope with the same ACTIVE
\* versions, or with one approved version ACTIVE and no other.
LEMMA StepOnRows ==
    ASSUME PoliciesInv, PoliciesNext
    PROVE  \/ UNCHANGED policies
           \/ \E s \in Scopes, rows \in Seq(Row) :
                 /\ policies' = [policies EXCEPT ![s] = rows]
                 /\ GrownRows(s, rows)
                 /\ \/ ActiveIn(rows) = Active(s)
                    \/ \E v \in Versions : /\ v \in DOMAIN policies[s]
                                           /\ policies[s][v].approvedBy # NoActor
                                           /\ ActiveIn(rows) = {v}
<1>1. ASSUME NEW r \in Requests, CommitActivation(r), ~IndexAdmits(r)
      PROVE  UNCHANGED policies
  BY <1>1, RefusedCommit
<1>2. \/ UNCHANGED policies
      \/ \E r \in Requests : InsertDraft(r) \/ CommitActivation(r)
      \/ \E s \in Scopes, v \in Versions, a \in Actors : Approve(s, v, a)
  BY RowsWrittenBy
<1>3. CASE \E r \in Requests : InsertDraft(r)
  BY <1>3, InsertedRows
<1>4. CASE \E r \in Requests : CommitActivation(r)
  <2>1. PICK r \in Requests : CommitActivation(r)
    BY <1>4
  <2>2. CASE IndexAdmits(r)
    BY <2>1, <2>2, CommittedRows
  <2> QED BY <1>1, <2>1, <2>2
<1>5. CASE \E s \in Scopes, v \in Versions, a \in Actors : Approve(s, v, a)
  BY <1>5, ApprovedRows
<1> QED BY <1>2, <1>3, <1>4, <1>5

\* Every step of a transaction keeps the invariant.
LEMMA StepKeepsInv ==
    ASSUME PoliciesInv, [PoliciesNext]_policyVars
    PROVE  PoliciesInv'
<1>1. CASE UNCHANGED policyVars
  BY <1>1 DEF policyVars, PoliciesInv, PoliciesTypeOK, OneActivePolicy, Active,
              ActivePolicyHasTwoPersons, ApproversAreOthers, HeldRowsAreApproved
<1>2. CASE PoliciesNext
  <2>1. /\ policies \in [Scopes -> Seq(Row)]
        /\ \A s \in Scopes : Len(policies[s]) <= MaxVersions
        /\ request \in [Requests -> {NoRequest} \union Proposal \union Activation]
    BY DEF PoliciesInv, PoliciesTypeOK
  <2>2. /\ request' \in [Requests -> {NoRequest} \union Proposal \union Activation]
        /\ \A r \in Requests : request'[r].step \in {"scanning", "retiring", "activating"} =>
             /\ request'[r].scope \in Scopes
             /\ request'[r].version \in DOMAIN policies[request'[r].scope]
             /\ policies[request'[r].scope][request'[r].version].approvedBy # NoActor
    <3>1. \A q \in {NoRequest} \union Proposal \union Activation :
             q.step \in {"scanning", "retiring", "activating"} => q.scope \in Scopes
      BY DEF NoRequest, Proposal, Activation
    <3> QED BY <1>2, <3>1, RequestsTyped
  <2>3. CASE UNCHANGED policies
    <3>1. PoliciesTypeOK' /\ HeldRowsAreApproved'
      BY <2>1, <2>2, <2>3 DEF PoliciesTypeOK, HeldRowsAreApproved
    <3>2. /\ OneActivePolicy'
          /\ ActivePolicyHasTwoPersons'
          /\ ApproversAreOthers'
      BY <2>3 DEF PoliciesInv, OneActivePolicy, Active, ActivePolicyHasTwoPersons,
                  ApproversAreOthers
    <3> QED BY <3>1, <3>2 DEF PoliciesInv
  <2>4. ASSUME NEW s \in Scopes, NEW rows \in Seq(Row),
               policies' = [policies EXCEPT ![s] = rows],
               GrownRows(s, rows),
               \/ ActiveIn(rows) = Active(s)
               \/ \E v \in Versions : /\ v \in DOMAIN policies[s]
                                      /\ policies[s][v].approvedBy # NoActor
                                      /\ ActiveIn(rows) = {v}
        PROVE  PoliciesInv'
    <3>1. /\ policies'[s] = rows
          /\ \A t \in Scopes : t # s => policies'[t] = policies[t]
      BY <2>1, <2>4
    <3>2. PoliciesTypeOK'
      BY <2>1, <2>2, <2>4, <3>1 DEF PoliciesTypeOK, GrownRows
    <3>3. ApproversAreOthers'
      BY <2>4, <3>1 DEF PoliciesInv, ApproversAreOthers, GrownRows
    <3>4. HeldRowsAreApproved'
      <4> SUFFICES ASSUME NEW r \in Requests,
                          request'[r].step \in {"scanning", "retiring", "activating"}
                   PROVE  /\ request'[r].version \in DOMAIN policies'[request'[r].scope]
                          /\ policies'[request'[r].scope][request'[r].version].approvedBy
                               # NoActor
        BY DEF HeldRowsAreApproved
      <4>1. CASE request'[r].scope = s
        BY <2>2, <2>4, <3>1, <4>1 DEF GrownRows
      <4>2. CASE request'[r].scope # s
        BY <2>2, <3>1, <4>2
      <4> QED BY <4>1, <4>2
    <3>5. /\ \A t \in Scopes : t # s => Active(t)' = Active(t)
          /\ Active(s)' = ActiveIn(rows)
      BY <3>1 DEF Active, ActiveIn
    <3>6. OneActivePolicy'
      BY <2>4, <3>5 DEF PoliciesInv, OneActivePolicy
    <3>7. \A v \in Active(s)' : v \in DOMAIN rows /\ rows[v].approvedBy # NoActor
      BY <2>4, <3>5 DEF PoliciesInv, ActivePolicyHasTwoPersons, Active, SeenByTwo, GrownRows
    <3>8. ActivePolicyHasTwoPersons'
      BY <2>4, <3>1, <3>5, <3>7 DEF PoliciesInv, ActivePolicyHasTwoPersons, SeenByTwo, GrownRows
    <3> QED BY <3>2, <3>3, <3>4, <3>6, <3>8 DEF PoliciesInv
  <2> QED BY <1>2, <2>3, <2>4, StepOnRows
<1> QED BY <1>1, <1>2

\* The invariant holds in every state: the theorems below are parts of it.
THEOREM PoliciesInvariance == PoliciesSpec => []PoliciesInv
BY InitiallyInv, StepKeepsInv, PTL DEF PoliciesSpec

\* The rows keep to the table, and every transaction is in a step of its operation.
THEOREM PoliciesTypeCorrect == PoliciesSpec => []PoliciesTypeOK
BY PoliciesInvariance, PTL DEF PoliciesInv

\* However many activations and rollbacks run at once, a scope has one ACTIVE version.
THEOREM OnePolicyIsActive == PoliciesSpec => []OneActivePolicy
BY PoliciesInvariance, PTL DEF PoliciesInv

\* No version is ever in force that its proposer alone has seen.
THEOREM TwoPersonsBehindPolicy == PoliciesSpec => []ActivePolicyHasTwoPersons
BY PoliciesInvariance, PTL DEF PoliciesInv

-----------------------------------------------------------------------------
(* The refinement.                                                         *)

\* The version in force is the ACTIVE one, when there is one.
LEMMA InForceIsActive ==
    ASSUME PoliciesInv, NEW s \in Scopes
    PROVE  \/ Active(s) = {} /\ ActiveVersion[s] = NoVersion
           \/ Active(s) = {ActiveVersion[s]}
<1>1. CASE Active(s) = {}
  BY <1>1 DEF ActiveVersion, VersionAmong
<1>2. CASE Active(s) # {}
  <2>1. ActiveVersion[s] \in Active(s)
    BY <1>2 DEF ActiveVersion, VersionAmong
  <2> QED BY <2>1 DEF PoliciesInv, OneActivePolicy
<1> QED BY <1>1, <1>2

\* A step that changes the rows of one scope changes the abstract state at that scope only.
LEMMA OneScopeChanges ==
    ASSUME PoliciesInv, NEW s \in Scopes, NEW rows,
           policies' = [policies EXCEPT ![s] = rows]
    PROVE  /\ ApprovedByAnother' = [ApprovedByAnother EXCEPT ![s] = SeenByTwo(rows)]
           /\ ActiveVersion' = [ActiveVersion EXCEPT ![s] = VersionAmong(ActiveIn(rows))]
<1>1. \A t \in Scopes : policies'[t] = IF t = s THEN rows ELSE policies[t]
  BY DEF PoliciesInv, PoliciesTypeOK
<1>2. ApprovedByAnother' = [ApprovedByAnother EXCEPT ![s] = SeenByTwo(rows)]
  <2>1. ApprovedByAnother' = [t \in Scopes |-> SeenByTwo(policies'[t])]
    BY DEF ApprovedByAnother
  <2>2. ApprovedByAnother = [t \in Scopes |-> SeenByTwo(policies[t])]
    BY DEF ApprovedByAnother
  <2> QED BY <1>1, <2>1, <2>2
<1>3. ActiveVersion' = [t \in Scopes |-> VersionAmong(ActiveIn(policies'[t]))]
  BY DEF ActiveVersion, Active
<1>4. ActiveVersion = [t \in Scopes |-> VersionAmong(ActiveIn(policies[t]))]
  BY DEF ActiveVersion, Active
<1>5. ActiveVersion' = [ActiveVersion EXCEPT ![s] = VersionAmong(ActiveIn(rows))]
  BY <1>1, <1>3, <1>4
<1> QED BY <1>2, <1>5

\* Every step of a transaction is a step of PolicyInForce or leaves its state alone.
LEMMA StepImplements ==
    ASSUME PoliciesInv, PoliciesNext
    PROVE  [InForce!Next]_<<ApprovedByAnother, ActiveVersion>>
<1>1. CASE UNCHANGED policies
  BY <1>1 DEF ApprovedByAnother, ActiveVersion, Active
<1>2. ASSUME NEW r \in Requests, InsertDraft(r)
      PROVE  UNCHANGED <<ApprovedByAnother, ActiveVersion>>
  <2>1. PICK s \in Scopes, rows \in Seq(Row) :
            /\ policies' = [policies EXCEPT ![s] = rows]
            /\ ActiveIn(rows) = Active(s)
            /\ SeenByTwo(rows) = SeenByTwo(policies[s])
    BY <1>2, InsertedRows
  <2>2. /\ ApprovedByAnother' = [ApprovedByAnother EXCEPT ![s] = SeenByTwo(rows)]
        /\ ActiveVersion' = [ActiveVersion EXCEPT ![s] = VersionAmong(ActiveIn(rows))]
    BY <2>1, OneScopeChanges
  <2> QED BY <2>1, <2>2 DEF ApprovedByAnother, ActiveVersion
<1>3. ASSUME NEW s \in Scopes, NEW v \in Versions, NEW a \in Actors, Approve(s, v, a)
      PROVE  InForce!Approve(s, v)
  <2>1. PICK rows \in Seq(Row) :
            /\ policies' = [policies EXCEPT ![s] = rows]
            /\ ActiveIn(rows) = Active(s)
            /\ SeenByTwo(rows) = SeenByTwo(policies[s]) \union {v}
    BY <1>3, ApprovedRows
  <2>2. /\ ApprovedByAnother' = [ApprovedByAnother EXCEPT ![s] = SeenByTwo(rows)]
        /\ ActiveVersion' = [ActiveVersion EXCEPT ![s] = VersionAmong(ActiveIn(rows))]
    BY <2>1, OneScopeChanges
  <2>3. ApprovedByAnother[s] = SeenByTwo(policies[s])
    BY DEF ApprovedByAnother
  <2>4. ActiveVersion' = ActiveVersion
    BY <2>1, <2>2 DEF ActiveVersion
  <2> QED BY <2>1, <2>2, <2>3, <2>4 DEF InForce!Approve
<1>4. ASSUME NEW r \in Requests, CommitActivation(r), IndexAdmits(r)
      PROVE  \E s \in Scopes, v \in Versions : InForce!PutInForce(s, v)
  <2>1. PICK s \in Scopes, rows \in Seq(Row), v \in Versions :
            /\ policies' = [policies EXCEPT ![s] = rows]
            /\ v \in DOMAIN policies[s]
            /\ policies[s][v].approvedBy # NoActor
            /\ ActiveIn(rows) = {v}
            /\ SeenByTwo(rows) = SeenByTwo(policies[s])
    BY <1>4, CommittedRows
  <2>2. /\ ApprovedByAnother' = [ApprovedByAnother EXCEPT ![s] = SeenByTwo(rows)]
        /\ ActiveVersion' = [ActiveVersion EXCEPT ![s] = VersionAmong(ActiveIn(rows))]
    BY <2>1, OneScopeChanges
  <2>3. VersionAmong(ActiveIn(rows)) = v
    BY <2>1 DEF VersionAmong
  <2>4. v \in ApprovedByAnother[s]
    BY <2>1 DEF ApprovedByAnother, SeenByTwo, PoliciesInv, ApproversAreOthers
  <2>5. ApprovedByAnother' = ApprovedByAnother
    BY <2>1, <2>2 DEF ApprovedByAnother
  <2> QED BY <2>2, <2>3, <2>4, <2>5 DEF InForce!PutInForce
<1>5. ASSUME NEW r \in Requests, CommitActivation(r), ~IndexAdmits(r)
      PROVE  UNCHANGED policies
  BY <1>5, RefusedCommit
<1>6. \/ UNCHANGED policies
      \/ \E r \in Requests : InsertDraft(r) \/ CommitActivation(r)
      \/ \E s \in Scopes, v \in Versions, a \in Actors : Approve(s, v, a)
  BY RowsWrittenBy
<1> QED BY <1>1, <1>2, <1>3, <1>4, <1>5, <1>6 DEF InForce!Next

\* The governance implements its promise: one approved version in force, never none after it.
THEOREM GovernanceImplementsInForce == PoliciesSpec => ImplementsInForce
<1>1. PoliciesInit => InForce!Init
  <2> SUFFICES ASSUME PoliciesInit PROVE InForce!Init
    OBVIOUS
  <2>1. \A s \in Scopes : DOMAIN policies[s] = {}
    <3>1. DOMAIN <<>> = {}
      OBVIOUS
    <3> QED BY <3>1 DEF PoliciesInit
  <2> QED BY <2>1 DEF InForce!Init, ApprovedByAnother, ActiveVersion, Active, ActiveIn,
                      SeenByTwo, VersionAmong
<1>2. ASSUME PoliciesInv, [PoliciesNext]_policyVars
      PROVE  [InForce!Next]_(InForce!vars)
  <2>1. CASE UNCHANGED policyVars
    BY <2>1 DEF policyVars, ApprovedByAnother, ActiveVersion, Active, InForce!vars
  <2>2. CASE PoliciesNext
    BY <1>2, <2>2, StepImplements DEF InForce!vars
  <2> QED BY <1>2, <2>1, <2>2
<1> QED BY <1>1, <1>2, PoliciesInvariance, PTL DEF PoliciesSpec, ImplementsInForce, InForce!Spec

-----------------------------------------------------------------------------
(* The gates of an order.                                                  *)
-----------------------------------------------------------------------------
(* Types.                                                                  *)

Rulings == Policies \union {Default}
RowStates == {"none", "INTENT_PERSISTED", "AUTHORIZED", "RISK_REJECTED", "SUBMITTING",
              "UNKNOWN", "WORKING", "FILLED", "CANCELLED"}
BrokerStates == {"absent", "sent", "working", "filled", "cancelled"}
Snapshots == [gross : Int, held : Int, open : Int, count : Int, traded : Int, filled : Nat]
Reading == {"positions", "openOrders", "activity", "localOrders"}
Judging == {"policy", "globalPolicy", "claim"}
Checking == {"envelope", "globalEnvelope", "summary"} \union Reading \union Judging
Unsent == {"place", "orderStatus"}
Unanswered == {"place", "await", "orderStatus", "awaitEnd"}
Sending == {"acquire", "cancel"} \union Unanswered
ChecksOf == [step : Checking, order : Orders, snapshot : Snapshots,
             policy : Rulings \union {NoPolicy}]
SendingsOf == [step : Sending, order : Orders]

RiskTypes ==
    /\ inForce \in [PolicyScopes -> Policies \union {NoPolicy}]
    /\ row \in [Orders -> RowStates]
    /\ judgedBy \in [Orders -> Rulings \union {NoPolicy}]
    /\ broker \in [Orders -> BrokerStates]
    /\ call \in {NoCall} \union ChecksOf \union SendingsOf
    /\ messageTimes \in Seq(0..Window)
    /\ sent \in Seq(0..(Window - 1))
    /\ withdrawn \in Seq(0..(Window - 1))

-----------------------------------------------------------------------------
(* The invariants.                                                         *)

\* The order of the call, as long as it is checked, and whether the call checks an entry.
Checked == call.step \in Checking
ChecksEntry == Checked /\ call.order \in Entries

\* A policy that an entry was let in by is still in force when it is judged, or another is.
GovernedInv ==
    /\ ChecksEntry /\ call.step \notin {"envelope", "globalEnvelope"} =>
          \E s \in PolicyScopes : inForce[s] # NoPolicy
    /\ ChecksEntry /\ call.step = "globalPolicy" => inForce["global"] # NoPolicy
    /\ ChecksEntry /\ call.step = "claim" => call.policy \in Policies
    /\ EntriesAreGoverned

\* An order at IBKR is alive in the ledger, and one that was not submitted is not at IBKR.
AliveInv ==
    /\ \A o \in Orders : broker[o] \in {"sent", "working"} => o \in Nonterminal
    /\ \A o \in Orders : o \notin Submitted => broker[o] = "absent"
    /\ Checked => call.order \notin Submitted
    /\ call.step \in {"acquire", "place"} =>
          row[call.order] = "SUBMITTING" /\ broker[call.order] = "absent"

\* Every order that may still fill.
Alive == {o \in Orders : broker[o] \in {"sent", "working"}} \union
         {o \in Nonterminal : broker[o] = "absent"}

\* What was read is still true, but for the fills since.
SnapshotInv ==
    /\ call.step \in Reading =>
          Magnitude(Position) <= call.snapshot.gross + call.snapshot.filled
    /\ call.step \in {"localOrders"} \union Judging =>
          call.snapshot.count = Cardinality(Submitted)
    /\ call.step \in Judging =>
          Exposure <= call.snapshot.gross + call.snapshot.open + call.snapshot.filled
    /\ ChecksEntry /\ call.step = "claim" => ~EntryRejected(call.policy, call.snapshot)

OldestFirst(times) == \A i, j \in 1..Len(times) : i <= j => times[i] >= times[j]

\* The slot behind that of each message, counted from the newest, is still in the window and
\* younger than the message: slots are given one at a time, and a message leaves before the
\* next slot is given.  "held" is 1 while the call has a slot for a message that has not left.
Shift(slots, times, held) == Len(slots) + 1 - Len(times) - held
Covered(slots, times, held) ==
    /\ Shift(slots, times, held) >= 0
    /\ \A i \in 1..Len(times) :
          i + Shift(slots, times, held) <= Len(slots) =>
             slots[i + Shift(slots, times, held)] <= times[i]

SlotsHeld(steps) == IF call.step \in steps THEN 1 ELSE 0

PacingInv ==
    /\ Len(messageTimes) <= MaxMessages
    /\ OldestFirst(messageTimes) /\ OldestFirst(sent) /\ OldestFirst(withdrawn)
    /\ Covered(messageTimes, sent, SlotsHeld(Unsent))
    /\ Covered(messageTimes, withdrawn, SlotsHeld(Unanswered))

RiskInv == RiskTypes /\ GovernedInv /\ AliveInv /\ SnapshotInv /\ PacingInv

-----------------------------------------------------------------------------
(* Calls.                                                                  *)

\* A policy and its limits.
LEMMA RulingTypes ==
    ASSUME NEW p \in Rulings
    PROVE  /\ p.gross \in Nat /\ p.symbol \in Nat /\ p.count \in Nat /\ p.traded \in Nat
           /\ p # NoPolicy
BY RiskAssumption DEF Rulings

\* The step of a call says what is known of it.
LEMMA CallKinds ==
    ASSUME RiskTypes
    PROVE  /\ Checked => call \in ChecksOf
           /\ call.step \in Sending => call \in SendingsOf
           /\ call.step \notin Checking \union Sending => call = NoCall
           /\ call = NoCall => call.step = "none"
BY DEF RiskTypes, Checked, NoCall, ChecksOf, SendingsOf, Checking, Reading, Judging, Sending,
       Unanswered

\* A check goes on with its next step.
LEMMA GoesOn ==
    ASSUME NEW c \in ChecksOf, NEW step \in Checking
    PROVE  LET d == [c EXCEPT !.step = step]
           IN /\ d \in ChecksOf /\ d.step = step /\ d.order = c.order
              /\ d.snapshot = c.snapshot /\ d.policy = c.policy
BY DEF ChecksOf

-----------------------------------------------------------------------------
(* Numbers.                                                                *)

\* The larger and the smaller of two numbers.
LEMMA OfTwo ==
    ASSUME NEW a \in Int, NEW b \in Int
    PROVE  /\ Max({a, b}) \in Int /\ Max({a, b}) >= a /\ Max({a, b}) >= b
           /\ Min({a, b}) = IF a <= b THEN a ELSE b
<1>1. \E x \in {a, b} : \A y \in {a, b} : x >= y
  OBVIOUS
<1>2. \A x \in {a, b} : (\A y \in {a, b} : x <= y) => x = IF a <= b THEN a ELSE b
  OBVIOUS
<1>3. (IF a <= b THEN a ELSE b) \in {a, b}
      /\ \A y \in {a, b} : (IF a <= b THEN a ELSE b) <= y
  OBVIOUS
<1>4. Max({a, b}) \in {a, b} /\ \A y \in {a, b} : Max({a, b}) >= y
  BY <1>1 DEF Max
<1>5. Min({a, b}) = IF a <= b THEN a ELSE b
  BY <1>2, <1>3 DEF Min
<1> QED BY <1>4, <1>5

\* Orders are counted.
LEMMA OrdersCounted ==
    ASSUME NEW S, S \subseteq Orders
    PROVE  IsFiniteSet(S) /\ Cardinality(S) \in Nat
<1>1. IsFiniteSet(Orders)
  BY RiskAssumption DEF Orders
<1>2. IsFiniteSet(S)
  BY <1>1, FS_Subset
<1> QED BY <1>2, FS_CardinalityType

\* The position and its size.
LEMMA PositionTypes == Position \in Int /\ Magnitude(Position) \in Nat
<1>1. FilledAtBroker(Entries) \in Nat /\ FilledAtBroker(Exits) \in Nat
  <2>1. /\ {o \in Entries : broker[o] = "filled"} \subseteq Orders
        /\ {o \in Exits : broker[o] = "filled"} \subseteq Orders
    BY DEF Orders
  <2> QED BY <2>1, OrdersCounted DEF FilledAtBroker
<1>2. Held \in Nat
  BY RiskAssumption
<1>3. Position \in Int
  BY <1>1, <1>2 DEF Position
<1> QED BY <1>3 DEF Magnitude

-----------------------------------------------------------------------------
(* The window.                                                             *)

\* popleft drops a beginning of the window.
LEMMA ExpiredIsBeginning ==
    ASSUME NEW times \in Seq(Int)
    PROVE  /\ Cardinality(Expired(times)) \in 0..Len(times)
           /\ Expired(times) = 1..Cardinality(Expired(times))
<1> DEFINE E == Expired(times)
           n == Cardinality(E)
<1>1. Len(times) \in Nat /\ E \subseteq 1..Len(times)
  BY DEF Expired
<1>2. IsFiniteSet(1..Len(times)) /\ Cardinality(1..Len(times)) = Len(times)
  <2>1. \A k \in Nat : IsFiniteSet(1..k) /\ Cardinality(1..k) = k
    BY FS_Interval
  <2> QED BY <1>1, <2>1
<1>3. IsFiniteSet(E) /\ n <= Len(times)
  BY <1>1, <1>2, FS_Subset
<1>4. n \in Nat
  BY <1>3, FS_CardinalityType
<1>5. ASSUME NEW i \in E
      PROVE  i \in 1..n
  <2>1. i \in Nat /\ i >= 1 /\ 1..i \subseteq E
    BY <1>1 DEF Expired
  <2>2. Cardinality(1..i) = i
    BY <2>1, FS_Interval
  <2>3. i <= n
    BY <1>3, <2>1, <2>2, FS_Subset
  <2> QED BY <1>4, <2>1, <2>3
<1>6. IsFiniteSet(1..n) /\ Cardinality(1..n) = n
  BY <1>4, FS_Interval
<1>7. E = 1..n
  BY <1>5, <1>6, FS_Subset
<1> QED BY <1>1, <1>3, <1>4, <1>7

\* A sequence whose elements all belong to a smaller set.
LEMMA SeqNarrowed ==
    ASSUME NEW S, NEW T, NEW s \in Seq(S), \A i \in 1..Len(s) : s[i] \in T
    PROVE  s \in Seq(T)
<1>1. Len(s) \in Nat /\ s \in [1..Len(s) -> S]
  BY LenProperties
<1>2. s \in [1..Len(s) -> T]
  BY <1>1
<1> QED BY <1>1, <1>2, SeqDef

\* A function on 1..n is a sequence of n elements.
LEMMA SeqOfFunction ==
    ASSUME NEW S, NEW n \in Nat, NEW f \in [1..n -> S]
    PROVE  f \in Seq(S) /\ Len(f) = n
<1>1. f \in Seq(S)
  BY SeqDef
<1> QED BY <1>1, LenProperties

\* What popleft leaves.
LEMMA YoungTimes ==
    ASSUME NEW S \in SUBSET Int, NEW times \in Seq(S), NEW e, e = Cardinality(Expired(times))
    PROVE  /\ e \in 0..Len(times) /\ Young(times) \in Seq(S)
           /\ Len(Young(times)) = Len(times) - e
           /\ \A i \in 1..(Len(times) - e) : Young(times)[i] = times[e + i]
<1>1. times \in Seq(Int) /\ Len(times) \in Nat
  <2>1. times \in Seq(Int)
    BY SeqMonotonic
  <2> QED BY <2>1, LenProperties
<1>2. e \in 0..Len(times)
  BY <1>1, ExpiredIsBeginning
<1>3. Young(times) = SubSeq(times, e + 1, Len(times))
  BY DEF Young
<1>4. \A i \in (e + 1)..Len(times) : times[i] \in S
  BY <1>1, <1>2
<1>5. /\ Young(times) \in Seq(S) /\ Len(Young(times)) = Len(times) - e
      /\ \A i \in 1..(Len(times) - e) : Young(times)[i] = times[(e + 1) + i - 1]
  BY <1>1, <1>2, <1>3, <1>4
<1>6. \A i \in 1..(Len(times) - e) : (e + 1) + i - 1 = e + i
  BY <1>1, <1>2
<1> QED BY <1>2, <1>5, <1>6

\* The slots and the messages of a second.
WindowTypes(slots, times) ==
    /\ slots \in Seq(0..Window) /\ times \in Seq(0..(Window - 1))
    /\ Len(slots) \in Nat /\ Len(times) \in Nat /\ Window \in Nat \ {0}
    /\ \A i \in 1..Len(slots) : slots[i] \in 0..Window
    /\ \A i \in 1..Len(times) : times[i] \in 0..(Window - 1)

LEMMA WindowsTyped ==
    ASSUME RiskTypes
    PROVE  WindowTypes(messageTimes, sent) /\ WindowTypes(messageTimes, withdrawn)
<1>1. /\ messageTimes \in Seq(0..Window)
      /\ sent \in Seq(0..(Window - 1)) /\ withdrawn \in Seq(0..(Window - 1))
  BY DEF RiskTypes
<1>2. /\ Len(messageTimes) \in Nat /\ Len(sent) \in Nat /\ Len(withdrawn) \in Nat
      /\ \A i \in 1..Len(messageTimes) : messageTimes[i] \in 0..Window
      /\ \A i \in 1..Len(sent) : sent[i] \in 0..(Window - 1)
      /\ \A i \in 1..Len(withdrawn) : withdrawn[i] \in 0..(Window - 1)
  BY <1>1, LenProperties, ElementOfSeq
<1> QED BY <1>1, <1>2, RiskAssumption DEF WindowTypes

\* A message that does not leave after all gives its slot up.
LEMMA SlotGivenUp ==
    ASSUME NEW slots, NEW times, WindowTypes(slots, times), OldestFirst(slots),
           Covered(slots, times, 1)
    PROVE  Covered(slots, times, 0)
<1> DEFINE k == Shift(slots, times, 1)
<1>1. k \in Nat /\ Shift(slots, times, 0) = k + 1 /\ Len(slots) \in Nat /\ Len(times) \in Nat
  BY DEF WindowTypes, Covered, Shift
<1> HIDE DEF k
<1>2. ASSUME NEW i \in 1..Len(times), i + (k + 1) <= Len(slots)
      PROVE  slots[i + (k + 1)] <= times[i]
  <2>1. i + k \in 1..Len(slots) /\ i + (k + 1) \in 1..Len(slots) /\ i + k <= i + (k + 1)
    BY <1>1, <1>2
  <2>2. slots[i + k] <= times[i]
    BY <2>1 DEF Covered, k
  <2>3. slots[i + k] >= slots[i + (k + 1)]
    BY <2>1 DEF OldestFirst
  <2>4. slots[i + k] \in Int /\ slots[i + (k + 1)] \in Int /\ times[i] \in Int
    <3>1. slots[i + k] \in 0..Window /\ slots[i + (k + 1)] \in 0..Window
      BY <2>1 DEF WindowTypes
    <3>2. times[i] \in 0..(Window - 1)
      BY DEF WindowTypes
    <3> QED BY <3>1, <3>2
  <2> QED BY <2>2, <2>3, <2>4
<1> QED BY <1>1, <1>2 DEF Covered

\* A message is younger than those before it.
LEMMA NewestLast ==
    ASSUME NEW S \in SUBSET Nat, 0 \in S, NEW times \in Seq(S), OldestFirst(times)
    PROVE  /\ Append(times, 0) \in Seq(S) /\ Len(Append(times, 0)) = Len(times) + 1
           /\ \A i \in 1..Len(times) : Append(times, 0)[i] = times[i]
           /\ Append(times, 0)[Len(times) + 1] = 0
           /\ OldestFirst(Append(times, 0))
<1> DEFINE new == Append(times, 0)
<1>1. /\ new \in Seq(S) /\ Len(new) = Len(times) + 1 /\ Len(times) \in Nat
      /\ \A i \in 1..Len(times) : new[i] = times[i] /\ times[i] \in S
      /\ new[Len(times) + 1] = 0
  BY AppendProperties, LenProperties, ElementOfSeq
<1> HIDE DEF new
<1>2. ASSUME NEW i \in 1..Len(new), NEW j \in 1..Len(new), i <= j
      PROVE  new[i] >= new[j]
  <2>1. CASE j \in 1..Len(times)
    <3>1. i \in 1..Len(times)
      BY <1>1, <1>2, <2>1
    <3> QED BY <1>1, <1>2, <2>1, <3>1 DEF OldestFirst
  <2>2. CASE j = Len(times) + 1
    <3>1. i \in 1..Len(times) \/ i = Len(times) + 1
      BY <1>1
    <3>2. new[i] \in Nat /\ new[j] = 0
      BY <1>1, <2>2, <3>1
    <3> QED BY <3>2
  <2> QED BY <1>1, <2>1, <2>2
<1>3. OldestFirst(new)
  BY <1>2 DEF OldestFirst
<1> QED BY <1>1, <1>3 DEF new

\* A message leaves, and takes the slot that was held for it.
LEMMA SlotUsed ==
    ASSUME NEW slots, NEW times, WindowTypes(slots, times), OldestFirst(times),
           Covered(slots, times, 1)
    PROVE  /\ Append(times, 0) \in Seq(0..(Window - 1)) /\ OldestFirst(Append(times, 0))
           /\ Covered(slots, Append(times, 0), 0)
<1> DEFINE k == Shift(slots, times, 1)
           new == Append(times, 0)
<1>1. /\ new \in Seq(0..(Window - 1)) /\ Len(new) = Len(times) + 1 /\ OldestFirst(new)
      /\ \A i \in 1..Len(times) : new[i] = times[i]
  <2>1. 0 \in 0..(Window - 1) /\ 0..(Window - 1) \subseteq Nat /\ times \in Seq(0..(Window - 1))
    BY DEF WindowTypes
  <2> QED BY <2>1, NewestLast
<1> HIDE DEF new
<1>2. /\ k \in Nat /\ Len(slots) \in Nat /\ Len(times) \in Nat
      /\ k = Len(slots) - Len(times) /\ Shift(slots, new, 0) = k
  BY <1>1 DEF WindowTypes, Covered, Shift
<1>3. ASSUME NEW i \in 1..Len(new), i + k <= Len(slots)
      PROVE  slots[i + k] <= new[i]
  <2>1. i \in 1..Len(times)
    BY <1>1, <1>2, <1>3
  <2> QED BY <1>1, <1>2, <1>3, <2>1 DEF Covered
<1>4. Covered(slots, new, 0)
  BY <1>2, <1>3 DEF Covered
<1> QED BY <1>1, <1>4 DEF new

\* A slot is given: those that popleft drops stand behind no message of the last second.
LEMMA SlotGiven ==
    ASSUME NEW slots, NEW times, WindowTypes(slots, times), OldestFirst(slots),
           Covered(slots, times, 0)
    PROVE  LET new == Append(Young(slots), 0)
           IN  /\ new \in Seq(0..Window) /\ Len(new) = Len(Young(slots)) + 1
               /\ OldestFirst(new) /\ Covered(new, times, 1)
<1> DEFINE k == Shift(slots, times, 0)
           young == Young(slots)
           new == Append(young, 0)
           e == Cardinality(Expired(slots))
<1>1. /\ slots \in Seq(0..Window) /\ Len(slots) \in Nat /\ Len(times) \in Nat
      /\ Window \in Nat \ {0} /\ k \in Nat /\ k = Len(slots) + 1 - Len(times)
      /\ \A i \in 1..Len(slots) : slots[i] \in 0..Window
      /\ \A i \in 1..Len(times) : times[i] \in 0..(Window - 1)
  BY DEF WindowTypes, Covered, Shift
<1>2. e \in 0..Len(slots) /\ Expired(slots) = 1..e
  <2>1. slots \in Seq(Int)
    BY <1>1, SeqMonotonic
  <2> QED BY <2>1, ExpiredIsBeginning
<1>3. /\ young \in Seq(0..Window) /\ Len(young) = Len(slots) - e
      /\ \A i \in 1..(Len(slots) - e) : young[i] = slots[e + i]
  <2>1. 0..Window \in SUBSET Int
    OBVIOUS
  <2> QED BY <1>1, <2>1, YoungTimes
<1> HIDE DEF young, e
<1>4. OldestFirst(young)
  <2>1. ASSUME NEW i \in 1..Len(young), NEW j \in 1..Len(young), i <= j
        PROVE  young[i] >= young[j]
    <3>1. i \in 1..(Len(slots) - e) /\ j \in 1..(Len(slots) - e)
      BY <1>3
    <3>2. e + i \in 1..Len(slots) /\ e + j \in 1..Len(slots) /\ e + i <= e + j
      BY <1>1, <1>2, <2>1, <3>1
    <3>3. young[i] = slots[e + i] /\ young[j] = slots[e + j]
      BY <1>3, <3>1
    <3> QED BY <3>2, <3>3 DEF OldestFirst
  <2> QED BY <2>1 DEF OldestFirst
<1>5. /\ new \in Seq(0..Window) /\ Len(new) = Len(young) + 1 /\ OldestFirst(new)
      /\ \A i \in 1..Len(young) : new[i] = young[i]
      /\ new[Len(young) + 1] = 0
  <2>1. 0 \in 0..Window /\ 0..Window \subseteq Nat
    BY <1>1
  <2> QED BY <1>3, <1>4, <2>1, NewestLast
<1> HIDE DEF new, k
<1>6. e <= k
  <2>1. SUFFICES ASSUME ~(e <= k) PROVE FALSE
    OBVIOUS
  <2>2. k + 1 \in 1..e /\ k + 1 <= Len(slots) /\ 1 \in 1..Len(times)
    BY <1>1, <1>2, <2>1
  <2>3. k + 1 \in Expired(slots) /\ k + 1 \in 1..(k + 1)
    BY <1>1, <1>2, <2>2
  <2>4. slots[k + 1] >= Window
    BY <2>3 DEF Expired
  <2>5. 1 + k = k + 1
    BY <1>1
  <2>6. slots[k + 1] <= times[1]
    BY <2>2, <2>5 DEF Covered, k
  <2> QED BY <1>1, <2>2, <2>4, <2>6
<1>7. Shift(new, times, 1) = k - e /\ Len(new) = Len(slots) - e + 1
  BY <1>1, <1>2, <1>3, <1>5 DEF Shift
<1>8. ASSUME NEW i \in 1..Len(times), i + (k - e) <= Len(new)
      PROVE  new[i + (k - e)] <= times[i]
  <2>1. CASE i + k <= Len(slots)
    <3>1. /\ i + (k - e) \in 1..(Len(slots) - e) /\ e + (i + (k - e)) = i + k
          /\ i + (k - e) \in 1..Len(young)
      BY <1>1, <1>2, <1>3, <1>6, <2>1
    <3>2. new[i + (k - e)] = slots[i + k]
      BY <1>3, <1>5, <3>1
    <3> QED BY <2>1, <3>2 DEF Covered, k
  <2>2. CASE ~(i + k <= Len(slots))
    <3>1. i + (k - e) = Len(young) + 1
      <4>1. i + (k - e) <= Len(slots) - e + 1 /\ i + k > Len(slots)
        BY <1>1, <1>7, <1>8, <2>2
      <4>2. i + (k - e) = Len(slots) - e + 1
        <5>1. PICK a \in Int, b \in Int, c \in Int, d \in Int :
                 a = Len(slots) /\ b = e /\ c = k /\ d = i
          <6>1. Len(slots) \in Int /\ e \in Int /\ k \in Int /\ i \in Int
            BY <1>1, <1>2, <1>8
          <6> QED BY <6>1
        <5>2. d + (c - b) <= a - b + 1 /\ d + c > a
          BY <4>1, <5>1
        <5>3. d + (c - b) = a - b + 1
          BY <5>2
        <5> QED BY <5>1, <5>3
      <4> QED BY <1>3, <4>2
    <3> QED BY <1>1, <1>5, <3>1
  <2> QED BY <2>1, <2>2
<1>9. Covered(new, times, 1)
  BY <1>1, <1>2, <1>6, <1>7, <1>8 DEF Covered
<1> QED BY <1>5, <1>9 DEF new, young

\* A tick ages the slots.
LEMMA SlotsAge ==
    ASSUME NEW slots \in Seq(0..Window), OldestFirst(slots), NEW later,
           later = [i \in DOMAIN slots |-> Min({slots[i] + 1, Window})]
    PROVE  /\ later \in Seq(0..Window) /\ Len(later) = Len(slots) /\ OldestFirst(later)
           /\ \A i \in 1..Len(slots) : later[i] <= slots[i] + 1
<1>1. Len(slots) \in Nat /\ DOMAIN slots = 1..Len(slots) /\ Window \in Nat \ {0}
  BY LenProperties, RiskAssumption
<1>2. \A i \in 1..Len(slots) : slots[i] \in 0..Window
  BY ElementOfSeq
<1>3. \A i \in 1..Len(slots) :
         later[i] = IF slots[i] + 1 <= Window THEN slots[i] + 1 ELSE Window
  <2>1. \A i \in 1..Len(slots) : slots[i] + 1 \in Int /\ Window \in Int
    BY <1>1, <1>2
  <2> QED BY <1>1, <2>1, OfTwo
<1>4. \A i \in 1..Len(slots) : later[i] \in 0..Window /\ later[i] <= slots[i] + 1
  <2>1. ASSUME NEW i \in 1..Len(slots)
        PROVE  later[i] \in 0..Window /\ later[i] <= slots[i] + 1
    <3>1. /\ slots[i] \in 0..Window
          /\ later[i] = IF slots[i] + 1 <= Window THEN slots[i] + 1 ELSE Window
      BY <1>2, <1>3
    <3> QED BY <1>1, <3>1
  <2> QED BY <2>1
<1>5. later \in Seq(0..Window) /\ Len(later) = Len(slots)
  <2>1. later \in [1..Len(slots) -> 0..Window]
    BY <1>1, <1>4
  <2> QED BY <1>1, <2>1, SeqOfFunction
<1>6. OldestFirst(later)
  <2>1. ASSUME NEW i \in 1..Len(slots), NEW j \in 1..Len(slots), i <= j
        PROVE  later[i] >= later[j]
    <3>1. /\ slots[i] >= slots[j] /\ slots[i] \in 0..Window /\ slots[j] \in 0..Window
      BY <1>2, <2>1 DEF OldestFirst
    <3>2. /\ later[i] = IF slots[i] + 1 <= Window THEN slots[i] + 1 ELSE Window
          /\ later[j] = IF slots[j] + 1 <= Window THEN slots[j] + 1 ELSE Window
      BY <1>3
    <3> QED BY <1>1, <3>1, <3>2
  <2> QED BY <1>5, <2>1 DEF OldestFirst
<1> QED BY <1>4, <1>5, <1>6

\* A tick ages the messages, and drops those whose second is over.
LEMMA MessagesAge ==
    ASSUME NEW slots, NEW times, NEW held \in {0, 1}, NEW later,
           WindowTypes(slots, times), OldestFirst(times), Covered(slots, times, held),
           later \in Seq(0..Window), Len(later) = Len(slots),
           \A i \in 1..Len(slots) : later[i] <= slots[i] + 1
    PROVE  LET left == Young([i \in DOMAIN times |-> times[i] + 1])
           IN  left \in Seq(0..(Window - 1)) /\ OldestFirst(left) /\ Covered(later, left, held)
<1> DEFINE older == [i \in DOMAIN times |-> times[i] + 1]
           left == Young(older)
           e == Cardinality(Expired(older))
           k == Shift(slots, times, held)
<1>1. /\ Len(slots) \in Nat /\ Len(times) \in Nat /\ Window \in Nat \ {0}
      /\ times \in Seq(0..(Window - 1)) /\ DOMAIN times = 1..Len(times)
      /\ \A i \in 1..Len(slots) : slots[i] \in 0..Window
      /\ \A i \in 1..Len(times) : times[i] \in 0..(Window - 1)
      /\ k \in Nat /\ k = Len(slots) + 1 - Len(times) - held
  BY LenProperties DEF WindowTypes, Covered, Shift
<1>2. /\ older \in Seq(Int) /\ Len(older) = Len(times)
      /\ \A i \in 1..Len(times) : older[i] = times[i] + 1 /\ older[i] \in 1..Window
  <2>1. \A i \in 1..Len(times) : times[i] + 1 \in 1..Window
    BY <1>1
  <2>2. older \in [1..Len(times) -> Int]
    BY <1>1, <2>1
  <2>3. older \in Seq(Int) /\ Len(older) = Len(times)
    BY <1>1, <2>2, SeqOfFunction
  <2> QED BY <1>1, <2>1, <2>3
<1> HIDE DEF older, k
<1>3. /\ e \in 0..Len(times) /\ Expired(older) = 1..e
      /\ left \in Seq(Int) /\ Len(left) = Len(times) - e
      /\ \A i \in 1..(Len(times) - e) : left[i] = older[e + i]
  BY <1>2, ExpiredIsBeginning, YoungTimes
<1> HIDE DEF e, left
<1>4. \A i \in 1..(Len(times) - e) :
         e + i \in 1..Len(times) /\ e + i > e /\ left[i] = times[e + i] + 1
  <2>1. \A i \in 1..(Len(times) - e) : e + i \in 1..Len(times) /\ e + i > e
    BY <1>1, <1>3
  <2> QED BY <1>2, <1>3, <2>1
<1>5. OldestFirst(left)
  <2>1. ASSUME NEW i \in 1..Len(left), NEW j \in 1..Len(left), i <= j
        PROVE  left[i] >= left[j]
    <3>1. /\ e + i \in 1..Len(times) /\ left[i] = times[e + i] + 1
          /\ e + j \in 1..Len(times) /\ left[j] = times[e + j] + 1
      BY <1>3, <1>4
    <3>2. e + i <= e + j
      BY <1>3, <2>1
    <3>3. times[e + i] >= times[e + j] /\ times[e + i] \in Int /\ times[e + j] \in Int
      BY <1>1, <3>1, <3>2 DEF OldestFirst
    <3> QED BY <3>1, <3>3
  <2> QED BY <2>1 DEF OldestFirst
<1>6. left \in Seq(0..(Window - 1))
  <2>1. ASSUME NEW i \in 1..Len(left)
        PROVE  left[i] \in 0..(Window - 1)
    <3>1. e + i \in 1..Len(times) /\ e + i > e /\ left[i] = older[e + i]
      BY <1>3, <1>4
    <3>2. e + i \notin Expired(older) /\ e + i \in DOMAIN older
      BY <1>2, <1>3, <3>1, LenProperties
    <3>3. PICK j \in 1..(e + i) : ~(older[j] >= Window)
      BY <3>2 DEF Expired
    <3>4. j \in 1..Len(times) /\ j <= e + i
      BY <1>1, <1>3, <3>1
    <3>5. times[j] >= times[e + i] /\ times[j] \in 0..(Window - 1)
      BY <1>1, <3>1, <3>4 DEF OldestFirst
    <3>6. older[j] = times[j] + 1 /\ older[e + i] = times[e + i] + 1 /\ older[e + i] \in 1..Window
      BY <1>2, <3>1, <3>4
    <3>7. times[e + i] \in 0..(Window - 1)
      BY <1>1, <3>1
    <3>8. times[j] + 1 < Window
      <4>1. times[j] + 1 \in Int /\ ~(times[j] + 1 >= Window)
        BY <1>1, <3>3, <3>5, <3>6
      <4> QED BY <1>1, <4>1
    <3>9. times[e + i] + 1 \in 0..(Window - 1)
      <4>1. times[e + i] \in Int /\ times[j] \in Int /\ times[e + i] >= 0
        BY <1>1, <3>5, <3>7
      <4>2. PICK a \in Int, b \in Int : a = times[e + i] /\ b = times[j]
        BY <4>1
      <4>3. a >= 0 /\ b >= a /\ b + 1 < Window /\ Window \in Int
        BY <1>1, <3>5, <3>8, <4>1, <4>2
      <4>4. a + 1 \in 0..(Window - 1)
        BY <4>3
      <4> QED BY <4>2, <4>4
    <3> QED BY <3>1, <3>6, <3>9
  <2> QED BY <1>3, <2>1, SeqNarrowed
<1>7. Shift(later, left, held) = k + e
  BY <1>1, <1>3 DEF Shift
<1>8. ASSUME NEW i \in 1..Len(left), i + (k + e) <= Len(later)
      PROVE  later[i + (k + e)] <= left[i]
  <2>1. /\ e + i \in 1..Len(times) /\ left[i] = times[e + i] + 1
        /\ (e + i) + k = i + (k + e) /\ i + (k + e) \in 1..Len(slots)
    <3>1. i \in 1..(Len(times) - e) /\ i + (k + e) <= Len(slots)
      BY <1>3, <1>8
    <3>2. (e + i) + k = i + (k + e) /\ i + (k + e) \in 1..Len(slots)
      BY <1>1, <1>3, <3>1
    <3> QED BY <1>4, <3>1, <3>2
  <2>2. slots[i + (k + e)] <= times[e + i]
    BY <2>1 DEF Covered, k
  <2>3. later[i + (k + e)] <= slots[i + (k + e)] + 1
    BY <2>1
  <2>4. /\ slots[i + (k + e)] \in Int /\ times[e + i] \in Int /\ later[i + (k + e)] \in Int
    <3>1. later[i + (k + e)] \in 0..Window
      BY <2>1, ElementOfSeq
    <3>2. slots[i + (k + e)] \in 0..Window /\ times[e + i] \in 0..(Window - 1)
      BY <1>1, <2>1
    <3> QED BY <3>1, <3>2
  <2> QED BY <2>1, <2>2, <2>3, <2>4
<1>9. Covered(later, left, held)
  BY <1>1, <1>3, <1>7, <1>8 DEF Covered
<1> QED BY <1>5, <1>6, <1>9 DEF left, older

\* Time passes.
LEMMA TickPaces ==
    ASSUME RiskTypes, PacingInv, Tick
    PROVE  /\ messageTimes' \in Seq(0..Window) /\ sent' \in Seq(0..(Window - 1))
           /\ withdrawn' \in Seq(0..(Window - 1)) /\ PacingInv'
<1>1. WindowTypes(messageTimes, sent) /\ WindowTypes(messageTimes, withdrawn)
  BY WindowsTyped
<1>2. /\ messageTimes' = [i \in DOMAIN messageTimes |-> Min({messageTimes[i] + 1, Window})]
      /\ sent' = Young([i \in DOMAIN sent |-> sent[i] + 1])
      /\ withdrawn' = Young([i \in DOMAIN withdrawn |-> withdrawn[i] + 1])
      /\ call' = call
  BY DEF Tick
<1>3. /\ messageTimes' \in Seq(0..Window) /\ Len(messageTimes') = Len(messageTimes)
      /\ OldestFirst(messageTimes')
      /\ \A i \in 1..Len(messageTimes) : messageTimes'[i] <= messageTimes[i] + 1
  BY <1>1, <1>2, SlotsAge DEF WindowTypes, PacingInv
<1>4. SlotsHeld(Unsent) \in {0, 1} /\ SlotsHeld(Unanswered) \in {0, 1}
  BY DEF SlotsHeld
<1>5. /\ sent' \in Seq(0..(Window - 1)) /\ OldestFirst(sent')
      /\ Covered(messageTimes', sent', SlotsHeld(Unsent))
  BY <1>1, <1>2, <1>3, <1>4, MessagesAge DEF PacingInv
<1>6. /\ withdrawn' \in Seq(0..(Window - 1)) /\ OldestFirst(withdrawn')
      /\ Covered(messageTimes', withdrawn', SlotsHeld(Unanswered))
  BY <1>1, <1>2, <1>3, <1>4, MessagesAge DEF PacingInv
<1>7. Len(messageTimes') <= MaxMessages
  BY <1>3 DEF PacingInv
<1> QED
  BY <1>2, <1>3, <1>5, <1>6, <1>7 DEF PacingInv, OldestFirst, Covered, Shift, SlotsHeld

\* A slot is given when the window has room for it.
LEMMA AcquirePaces ==
    ASSUME RiskTypes, PacingInv, Acquire, call'.step \in Unsent
    PROVE  messageTimes' \in Seq(0..Window) /\ PacingInv'
<1>1. WindowTypes(messageTimes, sent) /\ WindowTypes(messageTimes, withdrawn)
  BY WindowsTyped
<1>2. /\ messageTimes' = Append(Young(messageTimes), 0) /\ sent' = sent
      /\ withdrawn' = withdrawn /\ Len(Young(messageTimes)) < MaxMessages
  BY DEF Acquire, Evicted
<1>3. call.step \notin Unsent /\ call.step \notin Unanswered /\ Unsent \subseteq Unanswered
  BY DEF Acquire, Unsent, Unanswered
<1>4. SlotsHeld(Unsent) = 0 /\ SlotsHeld(Unanswered) = 0
  BY <1>3 DEF SlotsHeld
<1>5. SlotsHeld(Unsent)' = 1 /\ SlotsHeld(Unanswered)' = 1
  BY <1>3 DEF SlotsHeld
<1>6. /\ messageTimes' \in Seq(0..Window) /\ Len(messageTimes') = Len(Young(messageTimes)) + 1
      /\ OldestFirst(messageTimes') /\ Covered(messageTimes', sent, 1)
  BY <1>1, <1>2, <1>4, SlotGiven DEF PacingInv
<1>7. Covered(messageTimes', withdrawn, 1)
  BY <1>1, <1>2, <1>4, SlotGiven DEF PacingInv
<1>8. Len(messageTimes') <= MaxMessages
  <2>1. Len(messageTimes') \in Nat
    BY <1>6, LenProperties
  <2>2. MaxMessages \in Nat
    BY RiskAssumption
  <2>3. Len(Young(messageTimes)) = Len(messageTimes') - 1
    <3>1. Len(Young(messageTimes)) \in Nat
      <4>1. 0..Window \in SUBSET Int /\ messageTimes \in Seq(0..Window)
        BY <1>1 DEF WindowTypes
      <4>2. Young(messageTimes) \in Seq(0..Window)
        BY <4>1, YoungTimes
      <4> QED BY <4>2, LenProperties
    <3> QED BY <1>6, <3>1
  <2> QED BY <1>2, <2>1, <2>2, <2>3
<1>9. OldestFirst(sent) /\ OldestFirst(withdrawn)
  BY DEF PacingInv
<1> QED
  BY <1>2, <1>5, <1>6, <1>7, <1>8, <1>9 DEF PacingInv, OldestFirst, Covered, Shift

\* The order or the cancel leaves.
LEMMA SendingPaces ==
    ASSUME RiskTypes, PacingInv, call.step \in Unsent, call'.step \in Unanswered \ Unsent,
           sent' = Append(sent, 0), UNCHANGED <<messageTimes, withdrawn>>
    PROVE  sent' \in Seq(0..(Window - 1)) /\ PacingInv'
<1>1. WindowTypes(messageTimes, sent)
  BY WindowsTyped
<1>2. call.step \in Unanswered
  BY DEF Unsent, Unanswered
<1>3. /\ SlotsHeld(Unsent) = 1 /\ SlotsHeld(Unsent)' = 0
      /\ SlotsHeld(Unanswered) = 1 /\ SlotsHeld(Unanswered)' = 1
  BY <1>2 DEF SlotsHeld
<1>4. /\ sent' \in Seq(0..(Window - 1)) /\ OldestFirst(sent')
      /\ Covered(messageTimes, sent', 0)
  BY <1>1, <1>3, SlotUsed DEF PacingInv
<1>5. /\ Covered(messageTimes, withdrawn, 1) /\ OldestFirst(withdrawn)
      /\ OldestFirst(messageTimes) /\ Len(messageTimes) <= MaxMessages
  BY <1>3 DEF PacingInv
<1> QED BY <1>3, <1>4, <1>5 DEF PacingInv, OldestFirst, Covered, Shift

\* An order that gets no answer is withdrawn.
LEMMA WithdrawalPaces ==
    ASSUME RiskTypes, PacingInv, call.step \in Unanswered \ Unsent, call'.step \notin Unanswered,
           withdrawn' = Append(withdrawn, 0), UNCHANGED <<messageTimes, sent>>
    PROVE  withdrawn' \in Seq(0..(Window - 1)) /\ PacingInv'
<1>1. WindowTypes(messageTimes, withdrawn)
  BY WindowsTyped
<1>2. call'.step \notin Unsent
  BY DEF Unsent, Unanswered
<1>3. /\ SlotsHeld(Unsent) = 0 /\ SlotsHeld(Unsent)' = 0
      /\ SlotsHeld(Unanswered) = 1 /\ SlotsHeld(Unanswered)' = 0
  BY <1>2 DEF SlotsHeld
<1>4. /\ withdrawn' \in Seq(0..(Window - 1)) /\ OldestFirst(withdrawn')
      /\ Covered(messageTimes, withdrawn', 0)
  BY <1>1, <1>3, SlotUsed DEF PacingInv
<1>5. /\ Covered(messageTimes, sent, 0) /\ OldestFirst(sent)
      /\ OldestFirst(messageTimes) /\ Len(messageTimes) <= MaxMessages
  BY <1>3 DEF PacingInv
<1> QED BY <1>3, <1>4, <1>5 DEF PacingInv, OldestFirst, Covered, Shift

\* Nothing was sent.
LEMMA EmptyWindows ==
    /\ Len(<<>>) = 0 /\ Len(<<>>) <= MaxMessages
    /\ OldestFirst(<<>>) /\ Covered(<<>>, <<>>, 0)
BY RiskAssumption DEF OldestFirst, Covered, Shift

\* No more messages than slots, but for one.
LEMMA CoveredIsShort ==
    ASSUME NEW slots, NEW times, NEW held \in {0, 1}, Covered(slots, times, held),
           Len(slots) \in Nat, Len(times) \in Nat, Len(slots) <= MaxMessages
    PROVE  Len(times) <= MaxMessages + 1
BY RiskAssumption DEF Covered, Shift

-----------------------------------------------------------------------------
(* Orders and their exposure.                                              *)

\* What is counted while neither the ledger nor IBKR moves.
LEMMA Unmoved ==
    ASSUME UNCHANGED <<row, broker>>
    PROVE  /\ Submitted' = Submitted /\ Nonterminal' = Nonterminal /\ Alive' = Alive
           /\ Position' = Position /\ Magnitude(Position') = Magnitude(Position)
           /\ Exposure' = Exposure
<1>1. Submitted' = Submitted
  BY DEF Submitted
<1>2. Nonterminal' = Nonterminal
  BY <1>1 DEF Nonterminal
<1>3. Position' = Position
  BY DEF Position, FilledAtBroker
<1> QED BY <1>1, <1>2, <1>3 DEF Alive, Exposure

\* The exposure is the position and the orders that may still fill, all of them alive in
\* the ledger.
LEMMA ExposureOf ==
    ASSUME AliveInv
    PROVE  /\ Exposure = Magnitude(Position) + Cardinality(Alive)
           /\ Cardinality(Alive) \in Nat /\ Cardinality(Nonterminal) \in Nat
           /\ Cardinality(Submitted) \in Nat
           /\ Cardinality(Alive) <= Cardinality(Nonterminal)
<1>1. Alive \subseteq Nonterminal /\ Nonterminal \subseteq Orders /\ Submitted \subseteq Orders
  BY DEF AliveInv, Alive, Nonterminal, Submitted
<1>2. /\ Cardinality(Alive) \in Nat /\ Cardinality(Nonterminal) \in Nat
      /\ Cardinality(Submitted) \in Nat /\ IsFiniteSet(Nonterminal)
  BY <1>1, OrdersCounted
<1>3. Cardinality(Alive) <= Cardinality(Nonterminal)
  BY <1>1, <1>2, FS_Subset
<1> QED BY <1>2, <1>3 DEF Exposure, Alive

\* A fill moves the position by one, and the order that was filled fills no more.
LEMMA FillMoves ==
    ASSUME RiskTypes, AliveInv, NEW o \in Orders, broker[o] = "working",
           broker' = [broker EXCEPT ![o] = "filled"], UNCHANGED row
    PROVE  /\ Magnitude(Position') <= Magnitude(Position) + 1
           /\ Exposure' <= Exposure
<1>1. broker \in [Orders -> BrokerStates]
  BY DEF RiskTypes
<1> DEFINE Bought == {x \in Entries : broker[x] = "filled"}
           Sold == {x \in Exits : broker[x] = "filled"}
<1>2. /\ Bought \subseteq Orders /\ Sold \subseteq Orders /\ o \notin Bought /\ o \notin Sold
  BY DEF Orders
<1>3. /\ IsFiniteSet(Bought) /\ IsFiniteSet(Sold)
      /\ Cardinality(Bought) \in Nat /\ Cardinality(Sold) \in Nat
  BY <1>2, OrdersCounted
<1>4. /\ o \in Entries => Bought' = Bought \union {o} /\ Sold' = Sold
      /\ o \in Exits => Sold' = Sold \union {o} /\ Bought' = Bought
      /\ o \in Entries \/ o \in Exits
  BY <1>1, RiskAssumption DEF Orders
<1>5. /\ Position = Held + Cardinality(Bought) - Cardinality(Sold)
      /\ Position' = Held + Cardinality(Bought') - Cardinality(Sold')
  BY DEF Position, FilledAtBroker
<1> HIDE DEF Bought, Sold
<1>6. Position' = Position + 1 \/ Position' = Position - 1
  <2>1. CASE o \in Entries
    <3>1. Cardinality(Bought') = Cardinality(Bought) + 1 /\ Sold' = Sold
      BY <1>2, <1>3, <1>4, <2>1, FS_AddElement
    <3> QED BY <1>3, <1>5, <3>1, RiskAssumption
  <2>2. CASE o \in Exits
    <3>1. Cardinality(Sold') = Cardinality(Sold) + 1 /\ Bought' = Bought
      BY <1>2, <1>3, <1>4, <2>2, FS_AddElement
    <3> QED BY <1>3, <1>5, <3>1, RiskAssumption
  <2> QED BY <1>4, <2>1, <2>2
<1>7. Magnitude(Position') <= Magnitude(Position) + 1
  BY <1>6, PositionTypes DEF Magnitude
<1>8. o \in Alive /\ Alive' = Alive \ {o}
  <2>1. Nonterminal' = Nonterminal
    BY DEF Nonterminal, Submitted
  <2>2. \A x \in Orders : broker'[x] = IF x = o THEN "filled" ELSE broker[x]
    BY <1>1
  <2>3. Nonterminal \subseteq Orders
    BY DEF Nonterminal, Submitted
  <2> QED BY <2>1, <2>2, <2>3 DEF Alive
<1>9. Cardinality(Alive') = Cardinality(Alive) - 1 /\ Cardinality(Alive) \in Nat
  <2>1. Alive \subseteq Orders
    BY DEF Alive, Nonterminal, Submitted
  <2>2. IsFiniteSet(Alive) /\ Cardinality(Alive) \in Nat
    BY <2>1, OrdersCounted
  <2> QED BY <1>8, <2>2, FS_RemoveElement
<1>10. /\ Exposure = Magnitude(Position) + Cardinality(Alive)
       /\ Exposure' = Magnitude(Position') + Cardinality(Alive')
  BY DEF Exposure, Alive
<1>11. Magnitude(Position) \in Nat /\ Magnitude(Position') \in Int
  BY <1>6, PositionTypes DEF Magnitude
<1> QED BY <1>7, <1>9, <1>10, <1>11

-----------------------------------------------------------------------------
(* Steps of the call.                                                      *)

\* The variables that a step of the checks leaves alone.
checkedVars == <<inForce, row, judgedBy, broker, messageTimes, sent, withdrawn>>

\* The steps of a call are of one kind each.
LEMMA StepKinds ==
    ASSUME NEW c
    PROVE  /\ c = NoCall => c.step = "none"
           /\ c \in ChecksOf => c.step \in Checking /\ c.order \in Orders
           /\ c \in SendingsOf => c.step \in Sending /\ c.order \in Orders
           /\ "none" \notin Checking \union Sending /\ Checking \intersect Sending = {}
           /\ Reading \subseteq Checking /\ Judging \subseteq Checking
           /\ "acquire" \in Sending /\ "cancel" \in Sending /\ "place" \in Unsent
           /\ Unsent \subseteq Unanswered /\ Unanswered \subseteq Sending
           /\ "none" \notin Unanswered /\ Checking \intersect Unanswered = {}
           /\ "acquire" \notin Unanswered /\ "cancel" \notin Unanswered
           /\ "claim" \in Judging /\ "globalPolicy" \in Judging /\ "localOrders" \in Reading
           /\ "claim" \notin Reading /\ "globalPolicy" \notin Reading
           /\ "localOrders" \notin Judging /\ Reading \intersect Judging = {}
BY DEF NoCall, ChecksOf, SendingsOf, Checking, Sending, Unanswered, Unsent, Reading, Judging

\* No message leaves: a call that has no slot any more was a call that had one.
LEMMA WindowsStand ==
    ASSUME RiskTypes, PacingInv, UNCHANGED <<messageTimes, sent, withdrawn>>,
           call'.step \in Unsent => call.step \in Unsent,
           call'.step \in Unanswered => call.step \in Unanswered
    PROVE  PacingInv'
<1>1. WindowTypes(messageTimes, sent) /\ WindowTypes(messageTimes, withdrawn)
  BY WindowsTyped
<1>2. /\ OldestFirst(messageTimes) /\ OldestFirst(sent) /\ OldestFirst(withdrawn)
      /\ Covered(messageTimes, sent, SlotsHeld(Unsent))
      /\ Covered(messageTimes, withdrawn, SlotsHeld(Unanswered))
      /\ Len(messageTimes) <= MaxMessages
  BY DEF PacingInv
<1>3. Covered(messageTimes, sent, SlotsHeld(Unsent)')
  BY <1>1, <1>2, SlotGivenUp DEF SlotsHeld
<1>4. Covered(messageTimes, withdrawn, SlotsHeld(Unanswered)')
  BY <1>1, <1>2, SlotGivenUp DEF SlotsHeld
<1> QED BY <1>2, <1>3, <1>4 DEF PacingInv, OldestFirst, Covered, Shift, SlotsHeld

\* A call that ends leaves nothing to be held to.
LEMMA CallEnds ==
    ASSUME RiskInv, call' = NoCall, UNCHANGED checkedVars
    PROVE  RiskInv'
<1>1. call'.step = "none" /\ "none" \notin Checking \union Sending
  BY StepKinds
<1>2. RiskTypes'
  BY DEF RiskInv, RiskTypes, checkedVars
<1>3. /\ call'.step # "claim" /\ call'.step # "acquire" /\ call'.step # "place"
      /\ call'.step \notin Reading \union Judging /\ call'.step # "localOrders"
      /\ ~Checked'
  BY <1>1 DEF Checked, Checking, Reading, Judging
<1>4. GovernedInv'
  BY <1>3 DEF RiskInv, GovernedInv, ChecksEntry, EntriesAreGoverned, checkedVars
<1>5. AliveInv'
  <2>1. Submitted' = Submitted /\ Nonterminal' = Nonterminal
    BY Unmoved DEF checkedVars
  <2> QED BY <1>3, <2>1 DEF RiskInv, AliveInv, checkedVars
<1>6. SnapshotInv'
  BY <1>3 DEF SnapshotInv, ChecksEntry
<1>7. PacingInv'
  BY <1>1, StepKinds, WindowsStand DEF RiskInv, checkedVars
<1> QED BY <1>2, <1>4, <1>5, <1>6, <1>7 DEF RiskInv

\* A check goes on: what its next step is held to.
LEMMA CheckGoesOn ==
    ASSUME RiskInv, Checked, call' \in ChecksOf, call'.order = call.order,
           UNCHANGED checkedVars, call'.step # "claim",
           call.order \in Entries /\ call'.step \notin {"envelope", "globalEnvelope"} =>
              \E s \in PolicyScopes : inForce[s] # NoPolicy,
           call.order \in Entries /\ call'.step = "globalPolicy" =>
              inForce["global"] # NoPolicy,
           call'.step \in Reading =>
              Magnitude(Position) <= call'.snapshot.gross + call'.snapshot.filled,
           call'.step \in {"localOrders"} \union Judging =>
              call'.snapshot.count = Cardinality(Submitted),
           call'.step \in Judging =>
              Exposure <= call'.snapshot.gross + call'.snapshot.open + call'.snapshot.filled
    PROVE  RiskInv'
<1>1. RiskTypes'
  BY DEF RiskInv, RiskTypes, checkedVars
<1>2. GovernedInv'
  BY DEF RiskInv, GovernedInv, ChecksEntry, EntriesAreGoverned, checkedVars
<1>3. /\ Submitted' = Submitted /\ Nonterminal' = Nonterminal
      /\ Magnitude(Position') = Magnitude(Position) /\ Exposure' = Exposure
  BY Unmoved DEF checkedVars
<1>4. call'.step \in Checking
  BY StepKinds
<1>5. AliveInv'
  BY <1>3, <1>4, StepKinds DEF RiskInv, AliveInv, checkedVars
<1>6. SnapshotInv'
  BY <1>3 DEF SnapshotInv, ChecksEntry
<1>7. PacingInv'
  BY <1>4, StepKinds, WindowsStand DEF RiskInv, checkedVars
<1> QED BY <1>1, <1>2, <1>5, <1>6, <1>7 DEF RiskInv

\* The gate of the database policy, and the policy asked for globally.
LEMMA GatesKeep ==
    ASSUME RiskInv, RequireGovernedRiskPolicy \/ AsksGlobally("policy", "globalPolicy")
    PROVE  RiskInv'
<1>1. ASSUME NEW first, NEW second, first \in Checking, second \in Checking,
             AsksGlobally(first, second),
             \/ first = "envelope" /\ second = "globalEnvelope"
             \/ first = "policy" /\ second = "globalPolicy"
      PROVE  RiskInv'
  <2>1. /\ call.step = first /\ inForce["account"] = NoPolicy
        /\ call' = [call EXCEPT !.step = second] /\ UNCHANGED checkedVars
    BY <1>1 DEF AsksGlobally, Goes, OnlyCall, traffic, checkedVars
  <2>2. Checked /\ call \in ChecksOf
    BY <1>1, <2>1, CallKinds DEF Checked, RiskInv
  <2>3. /\ call' \in ChecksOf /\ call'.step = second /\ call'.order = call.order
        /\ call'.snapshot = call.snapshot
    BY <1>1, <2>1, <2>2, GoesOn
  <2>4. second # "claim" /\ second \notin Reading
    BY <1>1 DEF Reading
  <2>5. second \in {"localOrders"} \union Judging =>
           call.step \in Judging /\ second = "globalPolicy"
    BY <1>1, <2>1 DEF Judging
  <2>6. call.order \in Entries /\ second \notin {"envelope", "globalEnvelope"} =>
           inForce["global"] # NoPolicy /\ "global" \in PolicyScopes
    BY <1>1, <2>1, <2>2 DEF RiskInv, GovernedInv, ChecksEntry, PolicyScopes
  <2>7. second \in {"localOrders"} \union Judging =>
           /\ call.snapshot.count = Cardinality(Submitted)
           /\ Exposure <= call.snapshot.gross + call.snapshot.open + call.snapshot.filled
    BY <2>5 DEF RiskInv, SnapshotInv
  <2> HIDE DEF RiskInv
  <2> QED BY <1>1, <2>1, <2>2, <2>3, <2>4, <2>6, <2>7, CheckGoesOn DEF Judging
<1>2. ASSUME NEW p \in Resolved("envelope", "globalEnvelope"), Refuse
      PROVE  RiskInv'
  BY <1>2, CallEnds DEF Refuse, OnlyCall, traffic, checkedVars
<1>3. ASSUME NEW p \in Resolved("envelope", "globalEnvelope"), InsideEnvelope(p),
             Goes("summary")
      PROVE  RiskInv'
  <2>1. /\ call.step \in {"envelope", "globalEnvelope"}
        /\ \E s \in PolicyScopes : inForce[s] # NoPolicy
    BY <1>3 DEF Resolved, InsideEnvelope, PolicyScopes
  <2>2. Checked /\ call \in ChecksOf
    BY <2>1, CallKinds DEF Checked, RiskInv, Checking
  <2>3. call' = [call EXCEPT !.step = "summary"] /\ UNCHANGED checkedVars
    BY <1>3 DEF Goes, OnlyCall, traffic, checkedVars
  <2>4. "summary" \in Checking
    BY DEF Checking
  <2>5. call' \in ChecksOf /\ call'.step = "summary" /\ call'.order = call.order
    BY <2>2, <2>3, <2>4, GoesOn
  <2>6. "summary" \notin Reading \union Judging
    BY DEF Reading, Judging
  <2> QED BY <2>1, <2>2, <2>3, <2>5, <2>6, CheckGoesOn
<1>4. {"envelope", "globalEnvelope", "policy", "globalPolicy"} \subseteq Checking
  BY DEF Checking, Judging
<1>5. CASE AsksGlobally("policy", "globalPolicy")
  BY <1>1, <1>4, <1>5
<1>6. CASE RequireGovernedRiskPolicy
  <2>1. CASE AsksGlobally("envelope", "globalEnvelope")
    BY <1>1, <1>4, <2>1
  <2>2. CASE ~AsksGlobally("envelope", "globalEnvelope")
    BY <1>2, <1>3, <1>6, <2>2 DEF RequireGovernedRiskPolicy
  <2> QED BY <2>1, <2>2
<1> QED BY <1>5, <1>6

\* The account snapshot is read piece by piece.
LEMMA ReadsKeep ==
    ASSUME RiskInv, ReadSnapshot \/ ReadActivity \/ ReadLocalOrders
    PROVE  RiskInv'
<1>1. /\ {"summary"} \union Reading \union Judging \subseteq Checking
      /\ "summary" \notin Reading \union Judging /\ Reading \intersect Judging = {}
      /\ Reading = {"positions", "openOrders", "activity", "localOrders"}
      /\ "policy" \in Judging
      /\ "positions" \in Checking /\ "openOrders" \in Checking /\ "activity" \in Checking
      /\ "localOrders" \in Checking /\ "policy" \in Checking
  BY DEF Checking, Reading, Judging
<1>2. call.step \in {"summary"} \union Reading
  BY <1>1 DEF ReadSnapshot, ReadActivity, ReadLocalOrders, Reads
<1>3. Checked /\ call \in ChecksOf
  BY <1>1, <1>2, CallKinds DEF Checked, RiskInv
<1>4. call.order \in Entries => \E s \in PolicyScopes : inForce[s] # NoPolicy
  BY <1>1, <1>2, <1>3 DEF RiskInv, GovernedInv, ChecksEntry, Reading
<1>5. UNCHANGED checkedVars
  BY DEF ReadSnapshot, ReadActivity, ReadLocalOrders, Reads, OnlyCall, traffic, checkedVars
<1>6. /\ call.snapshot \in Snapshots /\ call.snapshot.gross \in Int
      /\ call.snapshot.open \in Int /\ call.snapshot.filled \in Nat
  BY <1>3 DEF ChecksOf, Snapshots
<1>7. Position \in Int /\ Magnitude(Position) \in Nat
  BY PositionTypes
<1>8. /\ Exposure = Magnitude(Position) + Cardinality(Alive)
      /\ Cardinality(Alive) \in Nat /\ Cardinality(Nonterminal) \in Nat
      /\ Cardinality(Submitted) \in Nat
      /\ Cardinality(Alive) <= Cardinality(Nonterminal)
  BY ExposureOf DEF RiskInv
<1>9. call.step \in Reading =>
         Magnitude(Position) <= call.snapshot.gross + call.snapshot.filled
  BY DEF RiskInv, SnapshotInv
<1>10. CASE Reads("summary", "gross", Magnitude(Position), "positions")
  <2>1. call' = [call EXCEPT !.step = "positions", !.snapshot["gross"] = Magnitude(Position)]
    BY <1>10 DEF Reads, OnlyCall
  <2>2. /\ call' \in ChecksOf /\ call'.step = "positions" /\ call'.order = call.order
        /\ call'.snapshot = [call.snapshot EXCEPT !["gross"] = Magnitude(Position)]
    <3>1. [call.snapshot EXCEPT !["gross"] = Magnitude(Position)] \in Snapshots
      BY <1>6, <1>7 DEF Snapshots
    <3> QED BY <1>1, <1>3, <2>1, <3>1 DEF ChecksOf
  <2>3. /\ call'.snapshot.gross = Magnitude(Position)
        /\ call'.snapshot.filled = call.snapshot.filled
    BY <1>6, <2>2 DEF Snapshots
  <2>4. Magnitude(Position) <= call'.snapshot.gross + call'.snapshot.filled
    BY <1>6, <1>7, <2>3
  <2> QED BY <1>1, <1>3, <1>4, <1>5, <2>2, <2>4, CheckGoesOn
<1>11. CASE Reads("positions", "held", Position, "openOrders")
  <2>1. call' = [call EXCEPT !.step = "openOrders", !.snapshot["held"] = Position]
        /\ call.step = "positions"
    BY <1>11 DEF Reads, OnlyCall
  <2>2. /\ call' \in ChecksOf /\ call'.step = "openOrders" /\ call'.order = call.order
        /\ call'.snapshot = [call.snapshot EXCEPT !["held"] = Position]
    <3>1. [call.snapshot EXCEPT !["held"] = Position] \in Snapshots
      BY <1>6, <1>7 DEF Snapshots
    <3> QED BY <1>1, <1>3, <2>1, <3>1 DEF ChecksOf
  <2>3. /\ call'.snapshot.gross = call.snapshot.gross
        /\ call'.snapshot.filled = call.snapshot.filled
    BY <1>6, <2>2 DEF Snapshots
  <2> QED BY <1>1, <1>3, <1>4, <1>5, <1>9, <2>1, <2>2, <2>3, CheckGoesOn
<1>12. CASE Reads("openOrders", "open", WorkingAtBroker, "activity")
  <2>1. call' = [call EXCEPT !.step = "activity", !.snapshot["open"] = WorkingAtBroker]
        /\ call.step = "openOrders"
    BY <1>12 DEF Reads, OnlyCall
  <2>2. WorkingAtBroker \in Int
    BY OrdersCounted DEF WorkingAtBroker
  <2>3. /\ call' \in ChecksOf /\ call'.step = "activity" /\ call'.order = call.order
        /\ call'.snapshot = [call.snapshot EXCEPT !["open"] = WorkingAtBroker]
    <3>1. [call.snapshot EXCEPT !["open"] = WorkingAtBroker] \in Snapshots
      BY <1>6, <2>2 DEF Snapshots
    <3> QED BY <1>1, <1>3, <2>1, <3>1 DEF ChecksOf
  <2>4. /\ call'.snapshot.gross = call.snapshot.gross
        /\ call'.snapshot.filled = call.snapshot.filled
    BY <1>6, <2>3 DEF Snapshots
  <2> QED BY <1>1, <1>3, <1>4, <1>5, <1>9, <2>1, <2>3, <2>4, CheckGoesOn
<1>13. CASE ReadActivity
  <2> DEFINE traded == Cardinality({o \in Orders : row[o] = "FILLED"})
  <2>1. call' = [call EXCEPT !.step = "localOrders", !.snapshot.count = Cardinality(Submitted),
                             !.snapshot.traded = traded]
        /\ call.step = "activity"
    BY <1>13 DEF ReadActivity, OnlyCall
  <2>2. traded \in Int
    BY OrdersCounted
  <2> HIDE DEF traded
  <2> DEFINE counted == [call.snapshot EXCEPT !.count = Cardinality(Submitted)]
  <2>3. /\ call' \in ChecksOf /\ call'.step = "localOrders" /\ call'.order = call.order
        /\ call'.snapshot.count = Cardinality(Submitted)
        /\ call'.snapshot.gross = call.snapshot.gross
        /\ call'.snapshot.filled = call.snapshot.filled
    <3>1. [call.snapshot EXCEPT !.count = Cardinality(Submitted), !.traded = traded]
          \in Snapshots
      <4>1. counted \in Snapshots
        BY <1>6, <1>8 DEF Snapshots
      <4>2. [counted EXCEPT !.traded = traded] \in Snapshots
        <5> HIDE DEF counted
        <5> QED BY <2>2, <4>1 DEF Snapshots
      <4> QED BY <4>2
    <3> QED BY <1>1, <1>3, <1>6, <2>1, <3>1 DEF ChecksOf, Snapshots
  <2> QED BY <1>1, <1>3, <1>4, <1>5, <1>9, <2>1, <2>3, CheckGoesOn
<1>14. CASE ReadLocalOrders
  <2>1. call' = [call EXCEPT !.step = "policy",
                             !.snapshot.open = Max({@, OpenOrderRiskNotional})]
        /\ call.step = "localOrders"
    BY <1>14 DEF ReadLocalOrders, OnlyCall
  <2>2. PICK larger : larger = Max({call.snapshot.open, OpenOrderRiskNotional})
    OBVIOUS
  <2>3. larger \in Int /\ larger >= Cardinality(Nonterminal)
    <3>1. PICK open \in Int : open = call.snapshot.open
      BY <1>6
    <3>2. PICK alive \in Int : alive = Cardinality(Nonterminal)
      BY <1>8
    <3>3. larger = Max({open, alive})
      BY <2>2, <3>1, <3>2 DEF OpenOrderRiskNotional
    <3>4. Max({open, alive}) \in Int /\ Max({open, alive}) >= alive
      BY OfTwo
    <3> QED BY <3>2, <3>3, <3>4
  <2>4. call' = [call EXCEPT !.step = "policy", !.snapshot["open"] = larger]
    BY <2>1, <2>2
  <2>5. /\ call' \in ChecksOf /\ call'.step = "policy" /\ call'.order = call.order
        /\ call'.snapshot = [call.snapshot EXCEPT !["open"] = larger]
    <3>1. [call.snapshot EXCEPT !["open"] = larger] \in Snapshots
      BY <1>6, <2>3 DEF Snapshots
    <3> QED BY <1>1, <1>3, <2>4, <3>1 DEF ChecksOf
  <2>6. /\ call'.snapshot.gross = call.snapshot.gross
        /\ call'.snapshot.filled = call.snapshot.filled
        /\ call'.snapshot.open = larger /\ call'.snapshot.count = call.snapshot.count
    BY <1>6, <2>5 DEF Snapshots
  <2>7. call.snapshot.count = Cardinality(Submitted)
    BY <2>1 DEF RiskInv, SnapshotInv
  <2>8. Magnitude(Position) <= call.snapshot.gross + call.snapshot.filled
    BY <1>1, <1>9, <2>1
  <2>9. Exposure <= call'.snapshot.gross + call'.snapshot.open + call'.snapshot.filled
    BY <1>6, <1>7, <1>8, <2>3, <2>6, <2>8
  <2>10. "policy" # "claim" /\ "policy" # "globalPolicy" /\ "policy" \notin Reading
    BY DEF Reading
  <2> QED BY <1>3, <1>4, <1>5, <2>5, <2>6, <2>7, <2>9, <2>10, CheckGoesOn
<1> QED BY <1>10, <1>11, <1>12, <1>13, <1>14 DEF ReadSnapshot

\* The snapshot cannot be had.
LEMMA FailureKeeps ==
    ASSUME RiskInv, SnapshotFails
    PROVE  RiskInv'
BY CallEnds DEF SnapshotFails, traffic, checkedVars

\* The row of an order that was not submitted changes, and the order still is not.
LEMMA UnsubmittedRow ==
    ASSUME RiskTypes, NEW o \in Orders, NEW state \in RowStates, o \notin Submitted,
           state \in {"INTENT_PERSISTED", "AUTHORIZED", "RISK_REJECTED"},
           row' = [row EXCEPT ![o] = state], UNCHANGED broker
    PROVE  /\ Submitted' = Submitted /\ Nonterminal' = Nonterminal
           /\ Magnitude(Position') = Magnitude(Position) /\ Exposure' = Exposure
           /\ row' \in [Orders -> RowStates]
<1>1. row \in [Orders -> RowStates] /\ row' \in [Orders -> RowStates]
  BY DEF RiskTypes
<1>2. \A x \in Orders : row'[x] = IF x = o THEN state ELSE row[x]
  BY <1>1
<1>3. Submitted' = Submitted
  BY <1>2 DEF Submitted
<1>4. Nonterminal' = Nonterminal
  BY <1>2, <1>3 DEF Nonterminal, Submitted
<1>5. Position' = Position
  BY DEF Position, FilledAtBroker
<1> QED BY <1>1, <1>3, <1>4, <1>5 DEF Exposure

\* A call begins with an order that was not submitted, or ends at once: the session is not
\* ready.
LEMMA SubmitKeeps ==
    ASSUME RiskInv, NEW o \in Orders, Submit(o)
    PROVE  RiskInv'
<1>1. /\ RiskTypes /\ AliveInv /\ PacingInv /\ o \notin Submitted
      /\ row \in [Orders -> RowStates]
  BY DEF RiskInv, RiskTypes, Submit, Submitted
<1>2. PICK state : state = IF row[o] = "none" THEN "INTENT_PERSISTED" ELSE row[o]
  OBVIOUS
<1>3. /\ state \in {"INTENT_PERSISTED", "AUTHORIZED", "RISK_REJECTED"} /\ state \in RowStates
      /\ row' = [row EXCEPT ![o] = state]
  BY <1>1, <1>2 DEF Submit, RowStates
<1>4. PICK step : step = IF o \in Entries THEN "envelope" ELSE "summary"
  OBVIOUS
<1>5. \/ call' = [step |-> step, order |-> o, snapshot |-> NoSnapshot, policy |-> NoPolicy]
      \/ call' = NoCall
  BY <1>4 DEF Submit
<1>6. step \in Checking /\ step \notin Reading \union Judging /\ step \notin {"acquire", "place"}
  BY <1>4 DEF Checking, Reading, Judging
<1>7. \/ call'.step = step /\ call'.order = o /\ call' \in ChecksOf
      \/ call' = NoCall /\ call'.step = "none"
  <2>1. NoSnapshot \in Snapshots
    BY DEF NoSnapshot, Snapshots
  <2> QED BY <1>5, <1>6, <2>1 DEF ChecksOf, NoCall
<1>8. /\ call'.step \notin Reading \union Judging /\ call'.step \notin {"acquire", "place"}
      /\ call'.step # "localOrders" /\ call'.step \notin Unanswered
      /\ Checked' => call'.order = o
      /\ ChecksEntry' => call'.step \in {"envelope", "globalEnvelope"}
  BY <1>4, <1>6, <1>7, StepKinds DEF Checked, ChecksEntry
<1>9. /\ Submitted' = Submitted /\ Nonterminal' = Nonterminal
      /\ row' \in [Orders -> RowStates] /\ UNCHANGED <<broker, judgedBy, inForce>>
      /\ UNCHANGED <<messageTimes, sent, withdrawn>>
  BY <1>1, <1>3, UnsubmittedRow DEF Submit, traffic
<1>10. RiskTypes'
  BY <1>1, <1>7, <1>9 DEF RiskTypes
<1>11. GovernedInv'
  BY <1>8, <1>9 DEF GovernedInv, EntriesAreGoverned, RiskInv
<1>12. AliveInv'
  BY <1>1, <1>8, <1>9 DEF AliveInv
<1>13. SnapshotInv'
  BY <1>8, StepKinds DEF SnapshotInv
<1>14. PacingInv'
  BY <1>1, <1>8, <1>9, StepKinds, WindowsStand
<1> QED BY <1>10, <1>11, <1>12, <1>13, <1>14 DEF RiskInv

\* The verdict: whoever goes on keeps to the policy that was asked for.
LEMMA VerdictKeeps ==
    ASSUME RiskInv, NEW p \in Resolved("policy", "globalPolicy"), NEW approved, NEW ruling,
           ruling = IF p = NoPolicy THEN Default ELSE p,
           approved \in {FALSE} \union {~Rejected(ruling)},
           Verdict(ruling, approved)
    PROVE  RiskInv'
<1>1. call.step \in {"policy", "globalPolicy"} /\ call.step \in Judging
  BY DEF Resolved, Judging
<1>2. /\ Checked /\ call \in ChecksOf /\ call.order \in Orders
      /\ RiskTypes /\ AliveInv /\ row \in [Orders -> RowStates]
  BY <1>1, CallKinds, StepKinds DEF RiskInv, RiskTypes, Checked
<1>3. call.order \notin Submitted
  BY <1>2 DEF AliveInv
<1>4. PICK state : state = IF approved THEN "AUTHORIZED" ELSE "RISK_REJECTED"
  OBVIOUS
<1>5. /\ row' = [row EXCEPT ![call.order] = state] /\ state \in RowStates
      /\ state \in {"INTENT_PERSISTED", "AUTHORIZED", "RISK_REJECTED"}
  BY <1>4 DEF Verdict, RowStates
<1>6. /\ Submitted' = Submitted /\ Nonterminal' = Nonterminal
      /\ Magnitude(Position') = Magnitude(Position) /\ Exposure' = Exposure
      /\ row' \in [Orders -> RowStates] /\ UNCHANGED <<broker, judgedBy, inForce>>
      /\ UNCHANGED <<messageTimes, sent, withdrawn>>
  BY <1>2, <1>3, <1>5, UnsubmittedRow DEF Verdict, traffic
<1>7. PacingInv'
  <2>1. call'.step \in {"claim", "none"}
    BY <1>2 DEF Verdict, NoCall, ChecksOf
  <2> QED BY <1>2, <1>6, <2>1, StepKinds, WindowsStand DEF RiskInv
<1>8. CASE ~approved
  <2>1. call' = NoCall
    BY <1>8 DEF Verdict
  <2>2. /\ call'.step # "claim" /\ call'.step # "acquire" /\ call'.step # "place"
        /\ call'.step \notin Reading \union Judging /\ call'.step # "localOrders"
        /\ ~Checked'
    BY <2>1, StepKinds DEF Checked
  <2>3. RiskTypes'
    BY <1>2, <1>6, <2>1 DEF RiskTypes
  <2>4. GovernedInv'
    BY <1>6, <2>2 DEF RiskInv, GovernedInv, ChecksEntry, EntriesAreGoverned
  <2>5. AliveInv'
    BY <1>2, <1>6, <2>2 DEF AliveInv
  <2>6. SnapshotInv'
    BY <2>2 DEF SnapshotInv, ChecksEntry
  <2> QED BY <1>7, <2>3, <2>4, <2>5, <2>6 DEF RiskInv
<1>9. CASE approved
  <2>1. ruling \in Rulings
    BY <1>2 DEF Resolved, Rulings, RiskTypes, PolicyScopes
  <2>2. call' = [call EXCEPT !.step = "claim", !.policy = ruling]
    BY <1>9 DEF Verdict
  <2>3. /\ call' \in ChecksOf /\ call'.step = "claim" /\ call'.order = call.order
        /\ call'.snapshot = call.snapshot /\ call'.policy = ruling
    BY <1>2, <2>1, <2>2 DEF ChecksOf, Checking, Judging
  <2>4. /\ call'.step \in Checking /\ call'.step \notin Reading /\ call'.step # "localOrders"
        /\ call'.step # "globalPolicy" /\ call'.step \notin {"acquire", "place"}
        /\ Checked'
    BY <2>3 DEF Checked, Checking, Reading, Judging
  <2>5. RiskTypes'
    BY <1>2, <1>6, <2>3 DEF RiskTypes
  <2>6. call.order \in Entries => p # NoPolicy /\ ruling \in Policies
    <3>1. ASSUME call.order \in Entries
          PROVE  p # NoPolicy
      <4>1. CASE call.step = "policy"
        BY <4>1 DEF Resolved
      <4>2. CASE call.step = "globalPolicy"
        <5>1. inForce["global"] # NoPolicy
          BY <1>2, <3>1, <4>2 DEF RiskInv, GovernedInv, ChecksEntry
        <5> QED BY <4>2, <5>1 DEF Resolved
      <4> QED BY <1>1, <4>1, <4>2
    <3>2. p \in Policies \union {NoPolicy}
      BY <1>2 DEF Resolved, RiskTypes, PolicyScopes
    <3> QED BY <3>1, <3>2
  <2>7. call.order \in Entries => \E s \in PolicyScopes : inForce[s] # NoPolicy
    BY <1>1, <1>2 DEF RiskInv, GovernedInv, ChecksEntry
  <2>8. GovernedInv'
    BY <1>6, <2>3, <2>4, <2>6, <2>7 DEF RiskInv, GovernedInv, ChecksEntry, EntriesAreGoverned
  <2>9. AliveInv'
    BY <1>2, <1>3, <1>6, <2>3, <2>4 DEF AliveInv
  <2>10. call.order \in Entries => ~EntryRejected(ruling, call.snapshot)
    BY <1>9 DEF Rejected
  <2>11. SnapshotInv'
    <3>1. /\ call.snapshot.count = Cardinality(Submitted)
          /\ Exposure <= call.snapshot.gross + call.snapshot.open + call.snapshot.filled
      BY <1>1 DEF RiskInv, SnapshotInv
    <3> HIDE DEF Exposure, EntryRejected
    <3>2. EntryRejected(call'.policy, call'.snapshot) = EntryRejected(ruling, call.snapshot)
      BY <2>3
    <3> QED BY <1>6, <2>3, <2>4, <2>10, <3>1, <3>2 DEF SnapshotInv, ChecksEntry
  <2> QED BY <1>7, <2>5, <2>8, <2>9, <2>11 DEF RiskInv
<1> QED BY <1>8, <1>9

\* authorize() as a whole.
LEMMA AuthorizeKeeps ==
    ASSUME RiskInv, Authorize
    PROVE  RiskInv'
<1>1. CASE AsksGlobally("policy", "globalPolicy")
  BY <1>1, GatesKeep
<1>2. CASE ~AsksGlobally("policy", "globalPolicy")
  <2>1. PICK p \in Resolved("policy", "globalPolicy") :
           \E approved \in {FALSE} \union {~Rejected(IF p = NoPolicy THEN Default ELSE p)} :
               Verdict(IF p = NoPolicy THEN Default ELSE p, approved)
    BY <1>2 DEF Authorize
  <2>2. PICK ruling : ruling = IF p = NoPolicy THEN Default ELSE p
    OBVIOUS
  <2>3. \E approved \in {FALSE} \union {~Rejected(ruling)} : Verdict(ruling, approved)
    BY <2>1, <2>2
  <2>4. PICK approved \in {FALSE} \union {~Rejected(ruling)} : Verdict(ruling, approved)
    BY <2>3
  <2> QED BY <2>2, <2>4, VerdictKeeps
<1> QED BY <1>1, <1>2

\* Once it has claimed its order a call is held to nothing that was read.
LEMMA SendingKeeps ==
    ASSUME RiskTypes', call' \in {NoCall} \union SendingsOf, EntriesAreGoverned',
           AliveInv', PacingInv'
    PROVE  RiskInv'
<1>1. /\ call'.step \notin Checking /\ ~Checked' /\ ~ChecksEntry'
      /\ call'.step \notin {"localOrders"} \union Reading \union Judging
  <2>1. call'.step \in Sending \union {"none"}
    BY StepKinds
  <2> QED BY <2>1, StepKinds DEF Checked, ChecksEntry
<1>2. GovernedInv'
  BY <1>1 DEF GovernedInv
<1>3. SnapshotInv'
  BY <1>1 DEF SnapshotInv
<1> QED BY <1>2, <1>3 DEF RiskInv

\* The claim.
LEMMA ClaimKeeps ==
    ASSUME RiskInv, Claim
    PROVE  RiskInv'
<1>1. call.step = "claim" /\ "claim" \in Checking
  BY DEF Claim, Checking, Judging
<1>2. /\ Checked /\ call \in ChecksOf /\ call.order \in Orders /\ RiskTypes /\ AliveInv
      /\ row \in [Orders -> RowStates] /\ broker \in [Orders -> BrokerStates]
      /\ judgedBy \in [Orders -> Rulings \union {NoPolicy}]
      /\ call.policy \in Rulings \union {NoPolicy}
  BY <1>1, CallKinds DEF RiskInv, RiskTypes, Checked, ChecksOf
<1>3. PICK o \in Orders : o = call.order
  BY <1>2
<1>4. PICK p \in Rulings \union {NoPolicy} : p = call.policy
  BY <1>2
<1>5. /\ row' = [row EXCEPT ![o] = "SUBMITTING"] /\ judgedBy' = [judgedBy EXCEPT ![o] = p]
      /\ call' = [step |-> "acquire", order |-> o]
      /\ UNCHANGED <<inForce, broker, messageTimes, sent, withdrawn>>
  BY <1>3, <1>4 DEF Claim, traffic
<1>6. call' \in SendingsOf /\ call'.step = "acquire" /\ call'.order = o
  BY <1>5 DEF SendingsOf, Sending
<1>7. "SUBMITTING" \in RowStates
  BY DEF RowStates
<1>8. RiskTypes'
  BY <1>2, <1>5, <1>6, <1>7 DEF RiskTypes
<1>9. EntriesAreGoverned'
  <2>1. o \in Entries => p # Default
    BY <1>1, <1>2, <1>3, <1>4, RiskAssumption DEF RiskInv, GovernedInv, ChecksEntry
  <2> QED BY <1>2, <1>5, <2>1 DEF RiskInv, GovernedInv, EntriesAreGoverned, Orders
<1>10. AliveInv'
  <2>1. o \notin Submitted /\ broker[o] = "absent"
    BY <1>2, <1>3 DEF AliveInv
  <2>2. \A x \in Orders : row'[x] = IF x = o THEN "SUBMITTING" ELSE row[x]
    BY <1>2, <1>5
  <2>3. ~Checked'
    BY <1>6, StepKinds DEF Checked
  <2>4. \A x \in Orders : /\ x \in Nonterminal' <=> x = o \/ x \in Nonterminal
                          /\ x \in Submitted' <=> x = o \/ x \in Submitted
    BY <2>2 DEF Nonterminal, Submitted
  <2> QED BY <1>2, <1>5, <1>6, <2>1, <2>2, <2>3, <2>4 DEF AliveInv
<1>11. PacingInv'
  BY <1>2, <1>5, <1>6, StepKinds, WindowsStand DEF RiskInv
<1> QED BY <1>6, <1>8, <1>9, <1>10, <1>11, SendingKeeps

\* A slot is given.
LEMMA AcquireKeeps ==
    ASSUME RiskInv, Acquire
    PROVE  RiskInv'
<1>1. /\ call.step \in {"acquire", "cancel"} /\ RiskTypes /\ AliveInv /\ PacingInv
      /\ UNCHANGED <<inForce, row, judgedBy, broker, sent, withdrawn>>
  BY DEF Acquire, RiskInv
<1>2. call \in SendingsOf
  BY <1>1, CallKinds, StepKinds
<1>3. /\ call' \in SendingsOf /\ call'.order = call.order /\ call'.step \in Unsent
      /\ call'.step = "place" => call.step = "acquire"
  BY <1>2 DEF Acquire, SendingsOf, Sending, Unanswered, Unsent
<1>4. messageTimes' \in Seq(0..Window) /\ PacingInv'
  BY <1>1, <1>3, AcquirePaces
<1>5. RiskTypes'
  BY <1>1, <1>3, <1>4 DEF RiskTypes
<1>6. EntriesAreGoverned'
  BY <1>1 DEF RiskInv, GovernedInv, EntriesAreGoverned
<1>7. AliveInv'
  <2>1. Submitted' = Submitted /\ Nonterminal' = Nonterminal
    BY <1>1, Unmoved
  <2>2. ~Checked' /\ call'.step # "acquire"
    BY <1>3, StepKinds DEF Checked
  <2> QED BY <1>1, <1>3, <2>1, <2>2 DEF AliveInv
<1> QED BY <1>3, <1>4, <1>5, <1>6, <1>7, SendingKeeps

\* The order goes to IBKR.
LEMMA PlaceKeeps ==
    ASSUME RiskInv, Place
    PROVE  RiskInv'
<1>1. /\ call.step = "place" /\ RiskTypes /\ AliveInv /\ PacingInv /\ "place" \in Unsent
      /\ broker \in [Orders -> BrokerStates]
      /\ UNCHANGED <<inForce, row, judgedBy, messageTimes, withdrawn>>
  BY DEF Place, RiskInv, RiskTypes, Unsent
<1>2. call \in SendingsOf /\ call.order \in Orders
  BY <1>1, CallKinds, StepKinds
<1>3. PICK o \in Orders : o = call.order
  BY <1>2
<1>4. /\ row[o] = "SUBMITTING" /\ o \in Nonterminal
      /\ broker' = [broker EXCEPT ![o] = "sent"]
  BY <1>1, <1>3 DEF AliveInv, Place, Nonterminal, Submitted
<1>5. call' \in SendingsOf /\ call'.step = "await" /\ call'.step \in Unanswered \ Unsent
  BY <1>2 DEF Place, SendingsOf, Sending, Unanswered, Unsent
<1>6. sent' \in Seq(0..(Window - 1)) /\ PacingInv'
  BY <1>1, <1>5, SendingPaces DEF Place
<1>7. RiskTypes'
  BY <1>1, <1>4, <1>5, <1>6 DEF RiskTypes, BrokerStates
<1>8. EntriesAreGoverned'
  BY <1>1 DEF RiskInv, GovernedInv, EntriesAreGoverned
<1>9. AliveInv'
  <2>1. Submitted' = Submitted /\ Nonterminal' = Nonterminal
    BY <1>1 DEF Submitted, Nonterminal
  <2>2. ~Checked'
    BY <1>5, StepKinds DEF Checked
  <2>3. o \in Submitted
    BY <1>4 DEF Nonterminal
  <2> QED BY <1>1, <1>4, <1>5, <2>1, <2>2, <2>3 DEF AliveInv
<1> QED BY <1>5, <1>6, <1>7, <1>8, <1>9, SendingKeeps

\* The cancel goes to IBKR.
LEMMA SendCancelKeeps ==
    ASSUME RiskInv, SendCancel
    PROVE  RiskInv'
<1>1. /\ call.step = "orderStatus" /\ RiskTypes /\ AliveInv /\ PacingInv
      /\ "orderStatus" \in Unsent
      /\ UNCHANGED <<inForce, row, judgedBy, broker, messageTimes, withdrawn>>
  BY DEF SendCancel, RiskInv, Unsent
<1>2. call \in SendingsOf
  BY <1>1, CallKinds, StepKinds
<1>3. call' \in SendingsOf /\ call'.step = "awaitEnd" /\ call'.step \in Unanswered \ Unsent
  BY <1>2 DEF SendCancel, SendingsOf, Sending, Unanswered, Unsent
<1>4. sent' \in Seq(0..(Window - 1)) /\ PacingInv'
  BY <1>1, <1>3, SendingPaces DEF SendCancel
<1>5. RiskTypes'
  BY <1>1, <1>3, <1>4 DEF RiskTypes
<1>6. EntriesAreGoverned'
  BY <1>1 DEF RiskInv, GovernedInv, EntriesAreGoverned
<1>7. AliveInv'
  <2>1. Submitted' = Submitted /\ Nonterminal' = Nonterminal
    BY <1>1, Unmoved
  <2>2. ~Checked' /\ call'.step \notin {"acquire", "place"}
    BY <1>3, StepKinds DEF Checked
  <2> QED BY <1>1, <2>1, <2>2 DEF AliveInv
<1> QED BY <1>3, <1>4, <1>5, <1>6, <1>7, SendingKeeps

\* The call ends with what it has heard, or with nothing.
LEMMA AnswersKeep ==
    ASSUME RiskInv, Acknowledged \/ NotSent \/ OutcomeUnknown
    PROVE  RiskInv'
<1>1. /\ call.step \in Unanswered /\ call' = NoCall
      /\ RiskTypes /\ AliveInv /\ PacingInv
      /\ broker \in [Orders -> BrokerStates] /\ row \in [Orders -> RowStates]
      /\ UNCHANGED <<inForce, broker, judgedBy, messageTimes, sent>>
  BY DEF Acknowledged, NotSent, OutcomeUnknown, UnknownUnlessTerminal, traffic, RiskInv,
         RiskTypes, Unanswered
<1>2. call.order \in Orders /\ call'.step = "none"
  BY <1>1, CallKinds, StepKinds
<1>3. PICK o \in Orders : o = call.order
  BY <1>2
<1>4. PICK state :
         /\ row' = [row EXCEPT ![o] = state]
         /\ \/ /\ broker[o] = "working" /\ state = "WORKING"
            \/ /\ broker[o] = "filled" /\ state = "FILLED"
            \/ /\ broker[o] = "cancelled" /\ state = "CANCELLED"
            \/ /\ state = IF row[o] \in {"SUBMITTING", "WORKING"} THEN "UNKNOWN" ELSE row[o]
  <2>1. CASE Acknowledged
    <3>1. /\ row' = [row EXCEPT ![o] = StateAtBroker[broker[o]]]
          /\ broker[o] \in {"working", "filled", "cancelled"}
      BY <1>3, <2>1 DEF Acknowledged, StateAtBroker
    <3>2. /\ StateAtBroker["working"] = "WORKING" /\ StateAtBroker["filled"] = "FILLED"
          /\ StateAtBroker["cancelled"] = "CANCELLED"
      BY DEF StateAtBroker
    <3> QED BY <3>1, <3>2
  <2>2. CASE NotSent \/ OutcomeUnknown
    <3>1. row' = [row EXCEPT ![o] = IF row[o] \in {"SUBMITTING", "WORKING"} THEN "UNKNOWN"
                                                                           ELSE row[o]]
      BY <1>3, <2>2 DEF NotSent, OutcomeUnknown, UnknownUnlessTerminal
    <3> QED BY <3>1
  <2> QED BY <2>1, <2>2
<1>5. state \in RowStates
  BY <1>1, <1>4 DEF RowStates
<1>6. withdrawn' \in Seq(0..(Window - 1)) /\ PacingInv'
  <2>1. "none" \notin Unanswered /\ Unsent \subseteq Unanswered
    BY StepKinds
  <2>2. CASE withdrawn' = withdrawn
    BY <1>1, <1>2, <2>1, <2>2, WindowsStand DEF RiskTypes
  <2>3. CASE withdrawn' # withdrawn
    <3>1. call.step = "await" /\ withdrawn' = Append(withdrawn, 0)
      BY <2>3 DEF Acknowledged, NotSent, OutcomeUnknown, traffic
    <3>2. call.step \in Unanswered \ Unsent
      BY <3>1 DEF Unanswered, Unsent
    <3>3. call'.step \notin Unanswered /\ UNCHANGED <<messageTimes, sent>>
      BY <1>1, <1>2, <2>1
    <3> QED BY <1>1, <3>1, <3>2, <3>3, WithdrawalPaces
  <2> QED BY <2>2, <2>3
<1>7. RiskTypes'
  BY <1>1, <1>4, <1>5, <1>6 DEF RiskTypes
<1>8. EntriesAreGoverned'
  BY <1>1 DEF RiskInv, GovernedInv, EntriesAreGoverned
<1>9. AliveInv'
  <2>1. ~Checked' /\ call'.step \notin {"acquire", "place"}
    BY <1>2, StepKinds DEF Checked
  <2>2. \A x \in Orders : row'[x] = IF x = o THEN state ELSE row[x]
    BY <1>1, <1>4
  <2>3. ASSUME NEW x \in Orders
        PROVE  /\ broker[x] \in {"sent", "working"} => x \in Nonterminal'
               /\ x \notin Submitted' => broker[x] = "absent"
    <3>1. /\ broker[x] \in {"sent", "working"} => x \in Nonterminal
          /\ x \notin Submitted => broker[x] = "absent"
      BY <1>1 DEF AliveInv
    <3> QED BY <1>4, <2>2, <3>1 DEF Nonterminal, Submitted
  <2> QED BY <1>1, <2>1, <2>3 DEF AliveInv
<1> QED BY <1>1, <1>6, <1>7, <1>8, <1>9, SendingKeeps

\* A cancel begins.
LEMMA CancelKeeps ==
    ASSUME RiskInv, NEW o \in Orders, Cancel(o)
    PROVE  RiskInv'
<1>1. /\ call' = [step |-> "cancel", order |-> o] /\ UNCHANGED checkedVars
      /\ RiskTypes /\ AliveInv
  BY DEF Cancel, OnlyCall, traffic, checkedVars, RiskInv
<1>2. call' \in SendingsOf /\ call'.step = "cancel"
  BY <1>1 DEF SendingsOf, Sending
<1>3. RiskTypes'
  BY <1>1, <1>2 DEF RiskTypes, checkedVars
<1>4. EntriesAreGoverned'
  BY <1>1 DEF RiskInv, GovernedInv, EntriesAreGoverned, checkedVars
<1>5. AliveInv'
  <2>1. Submitted' = Submitted /\ Nonterminal' = Nonterminal
    BY <1>1, Unmoved DEF checkedVars
  <2>2. ~Checked'
    BY <1>2, StepKinds DEF Checked
  <2> QED BY <1>1, <1>2, <2>1, <2>2 DEF AliveInv, checkedVars
<1>6. PacingInv'
  BY <1>1, <1>2, StepKinds, WindowsStand DEF RiskInv, checkedVars
<1> QED BY <1>2, <1>3, <1>4, <1>5, <1>6, SendingKeeps

-----------------------------------------------------------------------------
(* Steps of others.                                                        *)

\* A policy is put in force; a scope that has one is never without one again.
LEMMA PolicyKeeps ==
    ASSUME RiskInv, NEW s \in PolicyScopes, NEW p \in Policies, PolicyChanges(s, p)
    PROVE  RiskInv'
<1>1. /\ inForce \in [PolicyScopes -> Policies \union {NoPolicy}]
      /\ inForce' = [inForce EXCEPT ![s] = p] /\ p # NoPolicy
      /\ UNCHANGED <<row, judgedBy, broker, call, messageTimes, sent, withdrawn>>
  BY RiskAssumption DEF RiskInv, RiskTypes, PolicyChanges, Governance!PutInForce,
                             traffic
<1>2. RiskTypes'
  BY <1>1 DEF RiskInv, RiskTypes
<1>3. \A t \in PolicyScopes : inForce[t] # NoPolicy => inForce'[t] # NoPolicy
  BY <1>1
<1>4. GovernedInv'
  <2>1. Checked' = Checked /\ ChecksEntry' = ChecksEntry
    BY <1>1 DEF Checked, ChecksEntry
  <2>2. "global" \in PolicyScopes
    BY DEF PolicyScopes
  <2> QED BY <1>1, <1>3, <2>1, <2>2 DEF RiskInv, GovernedInv, EntriesAreGoverned
<1>5. /\ Submitted' = Submitted /\ Nonterminal' = Nonterminal
      /\ Magnitude(Position') = Magnitude(Position) /\ Exposure' = Exposure
  BY <1>1, Unmoved
<1>6. AliveInv'
  BY <1>1, <1>5 DEF RiskInv, AliveInv, Checked
<1>7. SnapshotInv'
  BY <1>1, <1>5 DEF RiskInv, SnapshotInv, ChecksEntry, Checked
<1>8. PacingInv'
  BY <1>1, WindowsStand DEF RiskInv
<1> QED BY <1>2, <1>4, <1>6, <1>7, <1>8 DEF RiskInv

\* Nothing of what the invariant speaks of moves but the windows.
LEMMA ClockKeeps ==
    ASSUME RiskInv, UNCHANGED <<inForce, row, judgedBy, broker, call>>, PacingInv',
           messageTimes' \in Seq(0..Window), sent' \in Seq(0..(Window - 1)),
           withdrawn' \in Seq(0..(Window - 1))
    PROVE  RiskInv'
<1>1. RiskTypes'
  BY DEF RiskInv, RiskTypes
<1>2. /\ Submitted' = Submitted /\ Nonterminal' = Nonterminal
      /\ Magnitude(Position') = Magnitude(Position) /\ Exposure' = Exposure
  BY Unmoved
<1>3. GovernedInv'
  BY DEF RiskInv, GovernedInv, EntriesAreGoverned, ChecksEntry, Checked
<1>4. AliveInv'
  BY <1>2 DEF RiskInv, AliveInv, Checked
<1>5. SnapshotInv'
  BY <1>2 DEF RiskInv, SnapshotInv, ChecksEntry, Checked
<1> QED BY <1>1, <1>3, <1>4, <1>5 DEF RiskInv

\* A restart.
LEMMA RestartKeeps ==
    ASSUME RiskInv, Restart
    PROVE  RiskInv'
<1>1. /\ RiskTypes /\ AliveInv /\ row \in [Orders -> RowStates]
      /\ row' = [o \in Orders |-> IF row[o] = "SUBMITTING" THEN "UNKNOWN" ELSE row[o]]
      /\ call' = NoCall /\ messageTimes' = <<>> /\ sent' = <<>> /\ withdrawn' = <<>>
      /\ UNCHANGED <<inForce, judgedBy, broker>>
  BY DEF Restart, RiskInv, RiskTypes
<1>2. row' \in [Orders -> RowStates]
  BY <1>1 DEF RowStates
<1>3. <<>> \in Seq(0..Window) /\ <<>> \in Seq(0..(Window - 1))
  OBVIOUS
<1>4. RiskTypes'
  BY <1>1, <1>2, <1>3 DEF RiskTypes
<1>5. EntriesAreGoverned'
  BY <1>1 DEF RiskInv, GovernedInv, EntriesAreGoverned
<1>6. AliveInv'
  <2>1. ~Checked' /\ call'.step \notin {"acquire", "place"}
    BY <1>1, StepKinds DEF Checked
  <2>2. ASSUME NEW x \in Orders
        PROVE  /\ x \in Nonterminal => x \in Nonterminal'
               /\ x \in Submitted => x \in Submitted'
    BY <1>1 DEF Nonterminal, Submitted
  <2> QED BY <1>1, <2>1, <2>2 DEF AliveInv
<1>7. PacingInv'
  <2>1. SlotsHeld(Unsent)' = 0 /\ SlotsHeld(Unanswered)' = 0
    BY <1>1, StepKinds DEF SlotsHeld
  <2> QED BY <1>1, <2>1, EmptyWindows DEF PacingInv, OldestFirst, Covered, Shift
<1> QED BY <1>1, <1>4, <1>5, <1>6, <1>7, SendingKeeps

\* What a move of an order at IBKR preserves as long as the call stays what it is.
LEMMA BrokerKeeps ==
    ASSUME RiskInv, NEW o \in Orders, NEW to \in BrokerStates, to # "absent",
           broker[o] \in {"sent", "working"}, broker' = [broker EXCEPT ![o] = to],
           UNCHANGED <<inForce, row, judgedBy, messageTimes, sent, withdrawn>>,
           call' \in {NoCall} \union ChecksOf \union SendingsOf,
           call'.step = call.step,
           call.step \in Checking \union Sending =>
              call'.order = call.order,
           call.step \in Checking => call'.policy = call.policy
    PROVE  RiskTypes' /\ GovernedInv' /\ AliveInv' /\ PacingInv' /\ Submitted' = Submitted
<1>1. broker \in [Orders -> BrokerStates] /\ RiskTypes
  BY DEF RiskInv, RiskTypes
<1>2. RiskTypes'
  BY <1>1 DEF RiskTypes
<1>3. GovernedInv'
  <2>1. Checked' = Checked /\ ChecksEntry' = ChecksEntry
    BY DEF Checked, ChecksEntry
  <2>2. "claim" \in Checking
    BY DEF Checking, Judging
  <2> QED BY <2>1, <2>2 DEF RiskInv, GovernedInv, EntriesAreGoverned
<1>4. Submitted' = Submitted /\ Nonterminal' = Nonterminal /\ Checked' = Checked
  BY DEF Submitted, Nonterminal, Checked
<1>5. o \in Nonterminal /\ o \in Submitted
  BY DEF RiskInv, AliveInv, Nonterminal
<1>6. \A x \in Orders : broker'[x] = IF x = o THEN to ELSE broker[x]
  BY <1>1
<1>7. AliveInv'
  <2>1. \A x \in Orders : broker'[x] \in {"sent", "working"} => x \in Nonterminal'
    BY <1>4, <1>5, <1>6 DEF RiskInv, AliveInv
  <2>2. \A x \in Orders : x \notin Submitted' => broker'[x] = "absent"
    BY <1>4, <1>5, <1>6 DEF RiskInv, AliveInv
  <2>3. Checked' => call'.order \notin Submitted'
    BY <1>4 DEF RiskInv, AliveInv, Checked
  <2>4. call'.step \in {"acquire", "place"} =>
           row'[call'.order] = "SUBMITTING" /\ broker'[call'.order] = "absent"
    <3>1. ASSUME call'.step \in {"acquire", "place"}
          PROVE  row'[call'.order] = "SUBMITTING" /\ broker'[call'.order] = "absent"
      <4>1. call.step \in Sending /\ call'.order = call.order
        BY <3>1, StepKinds
      <4>2. call.order \in Orders
        BY <1>1, <4>1, CallKinds, StepKinds
      <4>3. row[call.order] = "SUBMITTING" /\ broker[call.order] = "absent"
        BY <3>1 DEF RiskInv, AliveInv
      <4> QED BY <1>6, <4>1, <4>2, <4>3
    <3> QED BY <3>1
  <2> QED BY <2>1, <2>2, <2>3, <2>4 DEF AliveInv
<1>8. PacingInv'
  BY WindowsStand DEF RiskInv
<1> QED BY <1>2, <1>3, <1>4, <1>7, <1>8

\* IBKR takes an order up, or ends it.
LEMMA MovesKeep ==
    ASSUME RiskInv, NEW o \in Orders, BrokerAccepts(o) \/ BrokerEnds(o)
    PROVE  RiskInv'
<1>1. PICK to \in {"working", "cancelled"} :
         /\ broker[o] \in {"sent", "working"} /\ broker' = [broker EXCEPT ![o] = to]
         /\ UNCHANGED <<inForce, row, judgedBy, messageTimes, sent, withdrawn, call>>
  BY DEF BrokerAccepts, BrokerEnds, BrokerMoves, traffic
<1>2. /\ to \in BrokerStates /\ to # "absent"
      /\ broker \in [Orders -> BrokerStates] /\ call \in {NoCall} \union ChecksOf \union SendingsOf
  BY DEF RiskInv, RiskTypes, BrokerStates
<1>3. RiskTypes' /\ GovernedInv' /\ AliveInv' /\ PacingInv' /\ Submitted' = Submitted
  BY <1>1, <1>2, BrokerKeeps
<1>4. Position' = Position
  BY <1>1, <1>2 DEF Position, FilledAtBroker, Orders
<1>5. Alive' \subseteq Alive /\ Alive \subseteq Orders
  <2>1. Nonterminal' = Nonterminal
    BY <1>1 DEF Nonterminal, Submitted
  <2>2. \A x \in Orders : broker'[x] = IF x = o THEN to ELSE broker[x]
    BY <1>1, <1>2
  <2>3. Nonterminal \subseteq Orders
    BY DEF Nonterminal, Submitted
  <2> QED BY <1>1, <2>1, <2>2, <2>3 DEF Alive
<1>6. /\ Cardinality(Alive') <= Cardinality(Alive) /\ Cardinality(Alive) \in Nat
      /\ Cardinality(Alive') \in Nat
  BY <1>5, OrdersCounted, FS_Subset
<1>7. Exposure' <= Exposure
  <2>1. /\ Exposure = Magnitude(Position) + Cardinality(Alive)
        /\ Exposure' = Magnitude(Position) + Cardinality(Alive')
    BY <1>4 DEF Exposure, Alive
  <2> QED BY <1>6, <2>1, PositionTypes
<1>8. SnapshotInv'
  <2>1. Exposure \in Int /\ Exposure' \in Int
    <3>1. /\ Exposure = Magnitude(Position) + Cardinality(Alive)
          /\ Exposure' = Magnitude(Position) + Cardinality(Alive')
      BY <1>4 DEF Exposure, Alive
    <3> QED BY <1>6, <3>1, PositionTypes
  <2>2. call.step \in Judging =>
           Exposure' <= call.snapshot.gross + call.snapshot.open + call.snapshot.filled
    <3>1. ASSUME call.step \in Judging
          PROVE  Exposure' <= call.snapshot.gross + call.snapshot.open + call.snapshot.filled
      <4>1. call \in ChecksOf
        BY <3>1, CallKinds, StepKinds DEF RiskInv, Checked
      <4>2. /\ call.snapshot.gross \in Int /\ call.snapshot.open \in Int
            /\ call.snapshot.filled \in Nat
        BY <4>1 DEF ChecksOf, Snapshots
      <4>3. Exposure <= call.snapshot.gross + call.snapshot.open + call.snapshot.filled
        BY <3>1 DEF RiskInv, SnapshotInv
      <4> HIDE DEF Exposure
      <4> QED BY <1>7, <2>1, <4>2, <4>3
    <3> QED BY <3>1
  <2> QED BY <1>1, <1>3, <1>4, <2>2 DEF RiskInv, SnapshotInv, ChecksEntry, Checked
<1> QED BY <1>3, <1>8 DEF RiskInv

\* IBKR fills an order, maybe while the snapshot is read.
LEMMA FillsKeep ==
    ASSUME RiskInv, NEW o \in Orders, BrokerFills(o)
    PROVE  RiskInv'
<1>1. /\ broker[o] = "working" /\ broker' = [broker EXCEPT ![o] = "filled"]
      /\ UNCHANGED <<inForce, row, judgedBy, messageTimes, sent, withdrawn>>
      /\ call' = IF call.step \in Reading THEN [call EXCEPT !.snapshot.filled = @ + 1] ELSE call
  BY DEF BrokerFills, BrokerMoves, Reading, traffic
<1>2. /\ RiskTypes /\ AliveInv /\ "filled" \in BrokerStates
      /\ call \in {NoCall} \union ChecksOf \union SendingsOf
  BY DEF RiskInv, RiskTypes, BrokerStates
<1>3. /\ Magnitude(Position') <= Magnitude(Position) + 1
      /\ Exposure' <= Exposure
  BY <1>1, <1>2, FillMoves
<1>4. /\ Magnitude(Position) \in Nat /\ Exposure \in Int
      /\ Magnitude(Position') \in Int /\ Exposure' \in Int
  <2>1. broker \in [Orders -> BrokerStates] /\ broker' \in [Orders -> BrokerStates]
    BY <1>1, <1>2 DEF RiskTypes
  <2>2. Position \in Int /\ Magnitude(Position) \in Nat
    BY PositionTypes
  <2>3. Position' \in Int
    <3>1. /\ {x \in Entries : broker'[x] = "filled"} \subseteq Orders
          /\ {x \in Exits : broker'[x] = "filled"} \subseteq Orders
      BY DEF Orders
    <3>2. FilledAtBroker(Entries)' \in Nat /\ FilledAtBroker(Exits)' \in Nat
      BY <3>1, OrdersCounted DEF FilledAtBroker
    <3>3. Held \in Nat
      BY RiskAssumption
    <3> QED BY <3>2, <3>3 DEF Position
  <2>4. Magnitude(Position') \in Int
    BY <2>3 DEF Magnitude
  <2>5. Alive \subseteq Orders /\ Alive' \subseteq Orders
    BY DEF Alive, Nonterminal, Submitted
  <2>6. Cardinality(Alive) \in Nat /\ Cardinality(Alive') \in Nat
    BY <2>5, OrdersCounted
  <2>7. /\ Exposure = Magnitude(Position) + Cardinality(Alive)
        /\ Exposure' = Magnitude(Position') + Cardinality(Alive')
    BY DEF Exposure, Alive
  <2> QED BY <2>2, <2>4, <2>6, <2>7
<1>5. CASE call.step \in Reading
  <2>1. call \in ChecksOf /\ call.step \in Checking
    BY <1>2, <1>5, CallKinds, StepKinds DEF Checked
  <2>2. call' = [call EXCEPT !.snapshot.filled = @ + 1]
    BY <1>1, <1>5
  <2>3. [call.snapshot EXCEPT !.filled = @ + 1] \in Snapshots /\ call.snapshot \in Snapshots
    BY <2>1 DEF ChecksOf, Snapshots
  <2>4. /\ call' \in ChecksOf /\ call'.step = call.step /\ call'.order = call.order
        /\ call'.policy = call.policy
        /\ call'.snapshot = [call.snapshot EXCEPT !.filled = @ + 1]
    BY <2>1, <2>2, <2>3 DEF ChecksOf
  <2>5. /\ call'.snapshot.filled = call.snapshot.filled + 1
        /\ call'.snapshot.gross = call.snapshot.gross
        /\ call'.snapshot.count = call.snapshot.count
    BY <2>3, <2>4 DEF Snapshots
  <2>6. RiskTypes' /\ GovernedInv' /\ AliveInv' /\ PacingInv' /\ Submitted' = Submitted
    BY <1>1, <1>2, <2>4, BrokerKeeps
  <2>7. Magnitude(Position') <= call'.snapshot.gross + call'.snapshot.filled
    <3>1. Magnitude(Position) <= call.snapshot.gross + call.snapshot.filled
      BY <1>5 DEF RiskInv, SnapshotInv
    <3>2. call.snapshot.gross \in Int /\ call.snapshot.filled \in Nat
      BY <2>3 DEF Snapshots
    <3> QED BY <1>3, <1>4, <2>5, <3>1, <3>2
  <2>8. call'.step \notin Judging /\ ~(call'.step = "claim")
    BY <1>5, <2>4, StepKinds
  <2>9. call'.step = "localOrders" => call'.snapshot.count = Cardinality(Submitted')
    BY <2>4, <2>5, <2>6 DEF RiskInv, SnapshotInv
  <2>10. SnapshotInv'
    BY <2>7, <2>8, <2>9 DEF SnapshotInv
  <2> QED BY <2>6, <2>10 DEF RiskInv
<1>6. CASE call.step \notin Reading
  <2>1. call' = call
    BY <1>1, <1>6
  <2>2. RiskTypes' /\ GovernedInv' /\ AliveInv' /\ PacingInv' /\ Submitted' = Submitted
    BY <1>1, <1>2, <2>1, BrokerKeeps
  <2>3. call.step \in Judging =>
           Exposure' <= call.snapshot.gross + call.snapshot.open + call.snapshot.filled
    <3>1. ASSUME call.step \in Judging
          PROVE  Exposure' <= call.snapshot.gross + call.snapshot.open + call.snapshot.filled
      <4>1. call \in ChecksOf
        BY <1>2, <3>1, CallKinds, StepKinds DEF Checked
      <4>2. /\ call.snapshot.gross \in Int /\ call.snapshot.open \in Int
            /\ call.snapshot.filled \in Nat
        BY <4>1 DEF ChecksOf, Snapshots
      <4>3. Exposure <= call.snapshot.gross + call.snapshot.open + call.snapshot.filled
        BY <3>1 DEF RiskInv, SnapshotInv
      <4> HIDE DEF Exposure
      <4> QED BY <1>3, <1>4, <4>2, <4>3
    <3> QED BY <3>1
  <2>4. SnapshotInv'
    BY <1>6, <2>1, <2>2, <2>3 DEF RiskInv, SnapshotInv, ChecksEntry, Checked
  <2> QED BY <2>2, <2>4 DEF RiskInv
<1> QED BY <1>5, <1>6

\* The ledger learns what became of an order.
LEMMA EventsKeep ==
    ASSUME RiskInv, NEW o \in Orders, ApplyEvent(o)
    PROVE  RiskInv'
<1>1. /\ RiskTypes /\ AliveInv /\ row \in [Orders -> RowStates] /\ o \in Nonterminal
      /\ broker[o] \in {"working", "filled", "cancelled"}
      /\ UNCHANGED <<inForce, judgedBy, broker, call, messageTimes, sent, withdrawn>>
  BY DEF ApplyEvent, StateAtBroker, RiskInv, RiskTypes, traffic
<1>2. PICK state \in {"WORKING", "FILLED", "CANCELLED"} :
         /\ row' = [row EXCEPT ![o] = state]
         /\ broker[o] = "working" => state = "WORKING"
  <2>1. /\ StateAtBroker["working"] = "WORKING" /\ StateAtBroker["filled"] = "FILLED"
        /\ StateAtBroker["cancelled"] = "CANCELLED"
    BY DEF StateAtBroker
  <2>2. row' = [row EXCEPT ![o] = StateAtBroker[broker[o]]]
    BY DEF ApplyEvent
  <2>3. /\ StateAtBroker[broker[o]] \in {"WORKING", "FILLED", "CANCELLED"}
        /\ broker[o] = "working" => StateAtBroker[broker[o]] = "WORKING"
    BY <1>1, <2>1
  <2> QED BY <2>2, <2>3
<1>3. \A x \in Orders : row'[x] = IF x = o THEN state ELSE row[x]
  BY <1>1, <1>2
<1>4. RiskTypes'
  <2>1. state \in RowStates
    BY DEF RowStates
  <2> QED BY <1>1, <1>2, <2>1 DEF RiskTypes
<1>5. GovernedInv'
  BY <1>1 DEF RiskInv, GovernedInv, ChecksEntry, Checked, EntriesAreGoverned
<1>6. o \in Submitted /\ o \in Orders
  BY <1>1 DEF Nonterminal
<1>7. Submitted' = Submitted
  BY <1>3, <1>6 DEF Submitted
<1>8. \A x \in Orders : x # o => (x \in Nonterminal' <=> x \in Nonterminal)
  BY <1>3, <1>7 DEF Nonterminal
<1>9. AliveInv'
  <2>1. broker[o] \in {"sent", "working"} => o \in Nonterminal'
    BY <1>1, <1>2, <1>3, <1>6, <1>7 DEF Nonterminal
  <2>2. \A x \in Orders : broker'[x] \in {"sent", "working"} => x \in Nonterminal'
    BY <1>1, <1>8, <2>1 DEF AliveInv
  <2>3. \A x \in Orders : x \notin Submitted' => broker'[x] = "absent"
    BY <1>1, <1>7 DEF AliveInv
  <2>4. Checked' => call'.order \notin Submitted'
    BY <1>1, <1>7 DEF AliveInv, Checked
  <2>5. call'.step \in {"acquire", "place"} =>
           row'[call'.order] = "SUBMITTING" /\ broker'[call'.order] = "absent"
    <3>1. ASSUME call.step \in {"acquire", "place"}
          PROVE  row'[call.order] = "SUBMITTING" /\ broker[call.order] = "absent"
      <4>1. call.order \in Orders
        BY <1>1, <3>1, CallKinds, StepKinds
      <4>2. row[call.order] = "SUBMITTING" /\ broker[call.order] = "absent"
        BY <1>1, <3>1 DEF AliveInv
      <4> QED BY <1>1, <1>3, <4>1, <4>2
    <3> QED BY <1>1, <3>1
  <2> QED BY <2>2, <2>3, <2>4, <2>5 DEF AliveInv
<1>10. Position' = Position /\ Exposure' = Exposure
  <2>1. Position' = Position
    BY <1>1 DEF Position, FilledAtBroker
  <2>2. Alive' = Alive
    <3>1. Nonterminal \subseteq Orders /\ Nonterminal' \subseteq Orders
      BY DEF Nonterminal, Submitted
    <3>2. {x \in Nonterminal' : broker'[x] = "absent"} = {x \in Nonterminal : broker[x] = "absent"}
      BY <1>1, <1>8, <3>1
    <3> QED BY <1>1, <3>2 DEF Alive
  <2> QED BY <2>1, <2>2 DEF Exposure, Alive
<1>11. SnapshotInv'
  BY <1>1, <1>7, <1>10 DEF RiskInv, SnapshotInv, ChecksEntry, Checked
<1>12. PacingInv'
  BY <1>1, WindowsStand DEF RiskInv
<1> QED BY <1>4, <1>5, <1>9, <1>11, <1>12 DEF RiskInv

-----------------------------------------------------------------------------
(* The theorems.                                                           *)

\* At the start nothing was submitted and no call runs.
LEMMA RiskBegins ==
    ASSUME RiskInit
    PROVE  RiskInv
<1>1. call = NoCall /\ call.step = "none"
  BY StepKinds DEF RiskInit
<1>2. /\ call.step \notin Checking /\ ~Checked /\ ~ChecksEntry
      /\ call.step \notin {"localOrders", "acquire", "place", "claim"} \union Reading \union Judging
  BY <1>1, StepKinds DEF Checked, ChecksEntry
<1>3. <<>> \in Seq(0..Window) /\ <<>> \in Seq(0..(Window - 1))
  OBVIOUS
<1>4. RiskTypes
  BY <1>1, <1>3 DEF RiskInit, RiskTypes, RowStates, BrokerStates
<1>5. GovernedInv
  BY <1>2, RiskAssumption DEF RiskInit, GovernedInv, EntriesAreGoverned, Orders
<1>6. AliveInv
  BY <1>2 DEF RiskInit, AliveInv
<1>7. SnapshotInv
  BY <1>2 DEF SnapshotInv
<1>8. PacingInv
  <2>1. SlotsHeld(Unsent) = 0 /\ SlotsHeld(Unanswered) = 0
    BY <1>1, StepKinds DEF SlotsHeld
  <2>2. messageTimes = <<>> /\ sent = <<>> /\ withdrawn = <<>>
    BY DEF RiskInit
  <2> QED BY <2>1, <2>2, EmptyWindows DEF PacingInv
<1> QED BY <1>4, <1>5, <1>6, <1>7, <1>8 DEF RiskInv

\* Every step keeps the invariant.
LEMMA RiskStep ==
    ASSUME RiskInv, [RiskNext]_riskVars
    PROVE  RiskInv'
<1>1. CASE \E s \in PolicyScopes, p \in Policies : PolicyChanges(s, p)
  BY <1>1, PolicyKeeps
<1>2. CASE Recover
  BY <1>2, ClockKeeps, WindowsStand DEF Recover, RiskInv, RiskTypes, traffic
<1>3. CASE Restart
  BY <1>3, RestartKeeps
<1>4. CASE Tick
  <2>1. /\ messageTimes' \in Seq(0..Window) /\ sent' \in Seq(0..(Window - 1))
         /\ withdrawn' \in Seq(0..(Window - 1)) /\ PacingInv'
    BY <1>4, TickPaces DEF RiskInv
  <2>2. UNCHANGED <<inForce, row, judgedBy, broker, call>>
    BY <1>4 DEF Tick
  <2> QED BY <2>1, <2>2, ClockKeeps
<1>5. CASE \E o \in Orders : BrokerAccepts(o) \/ BrokerEnds(o)
  BY <1>5, MovesKeep
<1>6. CASE \E o \in Orders : BrokerFills(o)
  BY <1>6, FillsKeep
<1>7. CASE \E o \in Orders : ApplyEvent(o)
  BY <1>7, EventsKeep
<1>8. CASE \E o \in Orders : Submit(o)
  BY <1>8, SubmitKeeps
<1>9. CASE \E o \in Orders : Cancel(o)
  BY <1>9, CancelKeeps
<1>10. CASE Checks
  BY <1>10, GatesKeep, ReadsKeep, FailureKeeps, AuthorizeKeeps DEF Checks
<1>11. CASE Transmission
  <2>1. CASE RefusedForEfficiency
    <3>1. call' = NoCall /\ UNCHANGED checkedVars
      BY <2>1 DEF RefusedForEfficiency, Refuse, OnlyCall, traffic, checkedVars
    <3> QED BY <3>1, CallEnds
  <2> QED BY <1>11, <2>1, ClaimKeeps, AcquireKeeps, PlaceKeeps, SendCancelKeeps, AnswersKeep
       DEF Transmission
<1>12. CASE UNCHANGED riskVars
  BY <1>12, ClockKeeps, WindowsStand DEF riskVars, RiskInv, RiskTypes, traffic
<1> QED
  BY <1>1, <1>2, <1>3, <1>4, <1>5, <1>6, <1>7, <1>8, <1>9, <1>10, <1>11, <1>12, Zenon
     DEF RiskNext

\* Only the claim of the order that the call checks makes it SUBMITTING.
LEMMA OnlyClaimClaims ==
    ASSUME RiskInv, [RiskNext]_riskVars, NEW o \in Orders, Claims(o)
    PROVE  Claim /\ call.order = o /\ Checked /\ call \in ChecksOf
<1>1. row \in [Orders -> RowStates] /\ row[o] # "SUBMITTING" /\ row'[o] = "SUBMITTING"
  BY DEF RiskInv, RiskTypes, Claims, Submitted
<1>2. ~UNCHANGED row
  BY <1>1
<1>3. \/ Restart \/ \E x \in Orders : ApplyEvent(x) \/ Submit(x)
      \/ \E p \in Resolved("policy", "globalPolicy") :
            \E approved \in {FALSE} \union {~Rejected(IF p = NoPolicy THEN Default ELSE p)} :
               Verdict(IF p = NoPolicy THEN Default ELSE p, approved)
      \/ Claim \/ Acknowledged \/ NotSent \/ OutcomeUnknown
  <2>1. \A s \in PolicyScopes, p \in Policies : ~PolicyChanges(s, p)
    BY <1>2 DEF PolicyChanges
  <2>2. ~Recover /\ ~Tick
    BY <1>2 DEF Recover, Tick
  <2>3. \A x \in Orders : ~BrokerAccepts(x) /\ ~BrokerEnds(x) /\ ~BrokerFills(x) /\ ~Cancel(x)
    BY <1>2 DEF BrokerAccepts, BrokerEnds, BrokerFills, BrokerMoves, Cancel, OnlyCall
  <2>4. ~RequireGovernedRiskPolicy /\ ~AsksGlobally("policy", "globalPolicy")
    BY <1>2 DEF RequireGovernedRiskPolicy, AsksGlobally, Goes, Refuse, OnlyCall
  <2>5. ~ReadSnapshot /\ ~ReadActivity /\ ~ReadLocalOrders /\ ~SnapshotFails
    BY <1>2 DEF ReadSnapshot, Reads, ReadActivity, ReadLocalOrders, SnapshotFails, OnlyCall
  <2>6. ~RefusedForEfficiency /\ ~Acquire /\ ~Place /\ ~SendCancel
    BY <1>2 DEF RefusedForEfficiency, Refuse, OnlyCall, Acquire, Place, SendCancel
  <2>7. ~UNCHANGED riskVars
    BY <1>2 DEF riskVars
  <2> QED
    BY <2>1, <2>2, <2>3, <2>4, <2>5, <2>6, <2>7, Zenon
       DEF RiskNext, Checks, Transmission, Authorize
<1>4. ~Restart
  BY <1>1 DEF Restart
<1>5. StateAtBroker \in [{"working", "filled", "cancelled"} -> {"WORKING", "FILLED", "CANCELLED"}]
  BY DEF StateAtBroker
<1>6. \A x \in Orders : ~ApplyEvent(x)
  BY <1>1, <1>5 DEF ApplyEvent
<1>7. \A x \in Orders : ~Submit(x)
  BY <1>1 DEF Submit
<1>8. \A p, approved : ~Verdict(p, approved)
  BY <1>1 DEF Verdict
<1>9. ~Acknowledged
  BY <1>1, <1>5 DEF Acknowledged
<1>10. ~NotSent /\ ~OutcomeUnknown
  BY <1>1 DEF NotSent, OutcomeUnknown, UnknownUnlessTerminal
<1>11. Claim
  BY <1>3, <1>4, <1>6, <1>7, <1>8, <1>9, <1>10, Zenon
<1>12. call.order = o
  BY <1>1, <1>11 DEF Claim
<1>13. Checked /\ call \in ChecksOf
  BY <1>11, CallKinds DEF Claim, Checked, Checking, Judging, RiskInv
<1> QED BY <1>11, <1>12, <1>13

\* What the claim of an entry is held to.
LEMMA ClaimOfEntry ==
    ASSUME RiskInv, NEW o \in Entries, Claim, call.order = o, Checked, call \in ChecksOf
    PROVE  /\ Cardinality(Submitted) + 1 <= call.policy.count
           /\ Exposure + 1 <= call.policy.gross + call.snapshot.filled
<1>1. call.step = "claim" /\ "claim" \in Judging /\ ChecksEntry
  BY DEF Claim, Judging, ChecksEntry
<1>2. call.policy \in Policies /\ ~EntryRejected(call.policy, call.snapshot)
  BY <1>1 DEF RiskInv, GovernedInv, SnapshotInv
<1>3. call.policy.gross \in Nat /\ call.policy.count \in Nat
  BY <1>2, RulingTypes DEF Rulings
<1>4. /\ call.snapshot.gross \in Int /\ call.snapshot.open \in Int
      /\ call.snapshot.filled \in Nat /\ call.snapshot.count \in Int
  BY DEF ChecksOf, Snapshots
<1>5. /\ ~(call.snapshot.count + 1 > call.policy.count)
      /\ ~(call.snapshot.gross + call.snapshot.open + 1 > call.policy.gross)
  BY <1>2 DEF EntryRejected
<1>6. /\ call.snapshot.count = Cardinality(Submitted)
      /\ Exposure <= call.snapshot.gross + call.snapshot.open + call.snapshot.filled
  BY <1>1 DEF RiskInv, SnapshotInv
<1>7. Exposure \in Int
  <2>1. AliveInv
    BY DEF RiskInv
  <2> QED BY <2>1, ExposureOf, PositionTypes
<1> HIDE DEF Exposure
<1> QED BY <1>3, <1>4, <1>5, <1>6, <1>7

\* Types and what the gates rely on hold in every state.
THEOREM RiskInvariance == RiskSpec => []RiskInv
<1>1. RiskInit => RiskInv
  BY RiskBegins
<1>2. RiskInv /\ [RiskNext]_riskVars => RiskInv'
  BY RiskStep
<1> QED BY <1>1, <1>2, PTL DEF RiskSpec

\* A live entry is judged by a policy that was put in force, never by the environment,
\* although the policy is asked for twice and may change in between: a scope that has a
\* policy is never without one again.
THEOREM EntriesAreJudgedByPolicies == RiskSpec => []EntriesAreGoverned
<1>1. RiskInv => EntriesAreGoverned
  BY DEF RiskInv, GovernedInv
<1> QED BY <1>1, RiskInvariance, PTL

\* In no second does the process send more orders and cancels than the limit and one that was
\* held up between its slot and its sending, nor more withdrawals, which never ask for a slot:
\* behind each message but the newest stands the slot of another that is still in the window.
THEOREM NoSecondHasTooMany == RiskSpec => []MessagesArePaced
<1>1. ASSUME RiskInv PROVE MessagesArePaced
  <2>1. /\ Len(messageTimes) \in Nat /\ Len(sent) \in Nat /\ Len(withdrawn) \in Nat
    BY <1>1, WindowsTyped DEF RiskInv, WindowTypes
  <2>2. SlotsHeld(Unsent) \in {0, 1} /\ SlotsHeld(Unanswered) \in {0, 1}
    BY DEF SlotsHeld
  <2> QED BY <1>1, <2>1, <2>2, CoveredIsShort DEF RiskInv, PacingInv, MessagesArePaced
<1> QED BY <1>1, RiskInvariance, PTL

\* No entry is claimed beyond the number of orders a day: what was submitted when the
\* activity was read is all that is submitted at the claim.
THEOREM CountIsKept == RiskSpec => OrderCountIsLimited
<1>1. RiskInv /\ [RiskNext]_riskVars =>
         [\A o \in Entries : Claims(o) =>
              Cardinality(Submitted) + 1 <= call.policy.count]_riskVars
  <2> SUFFICES ASSUME RiskInv, [RiskNext]_riskVars, NEW o \in Entries, Claims(o)
               PROVE  Cardinality(Submitted) + 1 <= call.policy.count
    OBVIOUS
  <2>1. o \in Orders
    BY DEF Orders
  <2> QED BY <2>1, OnlyClaimClaims, ClaimOfEntry
<1> QED BY <1>1, RiskInvariance, PTL DEF RiskSpec, OrderCountIsLimited

\* An entry is claimed only if the position, all orders that may still fill and the entry
\* keep to the gross limit, but for what filled while the snapshot was read.
THEOREM ExposureIsKept == RiskSpec => ExposureIsLimited
<1>1. RiskInv /\ [RiskNext]_riskVars =>
         [\A o \in Entries : Claims(o) =>
              Exposure + 1 <= call.policy.gross + call.snapshot.filled]_riskVars
  <2> SUFFICES ASSUME RiskInv, [RiskNext]_riskVars, NEW o \in Entries, Claims(o)
               PROVE  Exposure + 1 <= call.policy.gross + call.snapshot.filled
    OBVIOUS
  <2>1. o \in Orders
    BY DEF Orders
  <2> QED BY <2>1, OnlyClaimClaims, ClaimOfEntry
<1> QED BY <1>1, RiskInvariance, PTL DEF RiskSpec, ExposureIsLimited
=============================================================================
