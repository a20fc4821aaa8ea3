---------------------------- MODULE RiskPolicies ----------------------------
(***************************************************************************)
(* RiskLimitControlSDK: the versions of a risk policy are proposed,        *)
(* approved by a second person, activated and rolled back, each in one     *)
(* transaction of the database.                                            *)
(*                                                                         *)
(* The transactions run at READ COMMITTED.  An activation locks its own    *)
(* row, then runs the query of _retire_active, which returns the rows that *)
(* are ACTIVE when it starts, waits for their locks and looks at them      *)
(* again; a row that becomes ACTIVE in the meantime is not among them.     *)
(* Only the partial unique index over (scope) of ACTIVE rows stands        *)
(* between two activations of one scope.                                   *)
(***************************************************************************)
EXTENDS Naturals, Sequences

CONSTANTS
    Scopes,        \* "global" and the scopes of accounts
    Actors,        \* the persons behind the requests
    Requests,      \* requests that risk_svc serves at the same time
    MaxVersions,   \* bound on the versions of a scope
    NoActor        \* approved_by IS NULL

ASSUME PoliciesAssumption ==
    /\ MaxVersions \in Nat
    /\ NoActor \notin Actors

VARIABLES
    policies,      \* scope -> its committed rows, by version
    request        \* the transaction of each request

policyVars == <<policies, request>>

NoVersion == 0
Versions == 1 .. MaxVersions
Status == {"DRAFT", "APPROVED", "ACTIVE", "RETIRED"}
Row == [status : Status, proposedBy : Actors, approvedBy : Actors \union {NoActor}]
NoRequest == [step |-> "none"]
Proposal == [step : {"proposing"}, scope : Scopes, version : Versions, actor : Actors]
Activation == [step : {"scanning", "retiring", "activating"}, scope : Scopes,
               version : Versions, retires : SUBSET Versions]

PoliciesInit ==
    /\ policies = [s \in Scopes |-> <<>>]
    /\ request = [r \in Requests |-> NoRequest]

ActiveIn(rows) == {v \in DOMAIN rows : rows[v].status = "ACTIVE"}
Active(s) == ActiveIn(policies[s])

Locks(r, s, v) ==
    /\ request[r].step \in {"scanning", "retiring", "activating"}
    /\ request[r].scope = s
    /\ \/ request[r].version = v
       \/ request[r].step = "activating" /\ v \in request[r].retires

Unlocked(s, v) == \A r \in Requests : ~Locks(r, s, v)

Ends(r) == request' = [request EXCEPT ![r] = NoRequest]

\* propose reads max(version) and only then inserts: another proposal may get in between.
ReadLatest(r, s, a) ==
    /\ request[r] = NoRequest
    /\ Len(policies[s]) < MaxVersions
    /\ request' = [request EXCEPT ![r] = [step |-> "proposing", scope |-> s, actor |-> a,
                                          version |-> Len(policies[s]) + 1]]
    /\ UNCHANGED policies

\* UNIQUE (scope, version) refuses the slower of two proposals.
InsertDraft(r) ==
    /\ request[r].step = "proposing"
    /\ LET s == request[r].scope
           draft == [status |-> "DRAFT", proposedBy |-> request[r].actor, approvedBy |-> NoActor]
       IN  policies' = [policies EXCEPT ![s] =
               IF request[r].version = Len(@) + 1 THEN Append(@, draft) ELSE @]
    /\ Ends(r)

\* One transaction over one locked row.
Approve(s, v, a) ==
    /\ v \in DOMAIN policies[s]
    /\ Unlocked(s, v)
    /\ policies[s][v].status = "DRAFT"
    /\ policies[s][v].proposedBy # a
    /\ policies' = [policies EXCEPT ![s][v].status = "APPROVED", ![s][v].approvedBy = a]
    /\ UNCHANGED request

LocksOwnRow(r, s, v) ==
    /\ request[r] = NoRequest
    /\ v \in DOMAIN policies[s]
    /\ Unlocked(s, v)
    /\ request' = [request EXCEPT ![r] = [step |-> "scanning", scope |-> s, version |-> v,
                                          retires |-> {}]]
    /\ UNCHANGED policies

Activate(r, s, v) ==
    /\ LocksOwnRow(r, s, v)
    /\ policies[s][v].status = "APPROVED"
    /\ policies[s][v].approvedBy # NoActor

\* Faulty variant of Rollback: it does not ask for an approval.
RollbackUnapproved(r, s, v) == LocksOwnRow(r, s, v)

Rollback(r, s, v) ==
    /\ LocksOwnRow(r, s, v)
    /\ policies[s][v].approvedBy # NoActor

\* The query of _retire_active starts: the rows it will lock are those ACTIVE now.
FindActive(r) ==
    /\ request[r].step = "scanning"
    /\ request' = [request EXCEPT ![r].step = "retiring",
                                  ![r].retires = Active(request[r].scope) \ {request[r].version}]
    /\ UNCHANGED policies

\* Faulty variant of LockActive: the retirement is committed, not flushed.
LockActiveCommits(r) ==
    /\ request[r].step = "retiring"
    /\ \A v \in request[r].retires : Unlocked(request[r].scope, v)
    /\ request' = [request EXCEPT ![r].step = "activating", ![r].retires = {}]
    /\ policies' = [policies EXCEPT ![request[r].scope] =
           [v \in DOMAIN @ |-> IF v \in request[r].retires
                               THEN [@[v] EXCEPT !.status = "RETIRED"] ELSE @[v]]]

\* It has their locks and keeps the rows that are still ACTIVE.
LockActive(r) ==
    /\ request[r].step = "retiring"
    /\ \A v \in request[r].retires : Unlocked(request[r].scope, v)
    /\ request' = [request EXCEPT ![r].step = "activating",
                                  ![r].retires = @ \intersect Active(request[r].scope)]
    /\ UNCHANGED policies

\* Faulty variant of IndexAdmits: there is no unique index.
IndexAbsent(r) == TRUE

\* The last flush: the index admits the row, or the transaction is rolled back.
IndexAdmits(r) == Active(request[r].scope) \subseteq request[r].retires \union {request[r].version}

Activated(rows, version, retires) ==
    [v \in DOMAIN rows |->
        [rows[v] EXCEPT !.status = IF v = version THEN "ACTIVE"
                                   ELSE IF v \in retires THEN "RETIRED" ELSE @]]

\* Faulty variant of CommitActivation: a refused transaction is not rolled back.
CommitActivationStays(r) ==
    /\ request[r].step = "activating"
    /\ policies' = [policies EXCEPT ![request[r].scope] =
           IF IndexAdmits(r) THEN Activated(@, request[r].version, request[r].retires) ELSE @]
    /\ request' = IF IndexAdmits(r) THEN [request EXCEPT ![r] = NoRequest] ELSE request

CommitActivation(r) ==
    /\ request[r].step = "activating"
    /\ policies' = [policies EXCEPT ![request[r].scope] =
           IF IndexAdmits(r) THEN Activated(@, request[r].version, request[r].retires) ELSE @]
    /\ Ends(r)

\* The process or its connection is lost: the transaction is rolled back.
Abort(r) ==
    /\ request[r] # NoRequest
    /\ Ends(r)
    /\ UNCHANGED policies

Continue(r) == InsertDraft(r) \/ FindActive(r) \/ LockActive(r) \/ CommitActivation(r)

PoliciesNext ==
    \/ \E r \in Requests, s \in Scopes, a \in Actors : ReadLatest(r, s, a)
    \/ \E s \in Scopes, v \in Versions, a \in Actors : Approve(s, v, a)
    \/ \E r \in Requests, s \in Scopes, v \in Versions : Activate(r, s, v) \/ Rollback(r, s, v)
    \/ \E r \in Requests : Continue(r) \/ Abort(r)

PoliciesSpec == PoliciesInit /\ [][PoliciesNext]_policyVars

\* The database runs every transaction that need not wait, and hands a lock to one that has
\* waited for it before a later request gets it.
FairPoliciesSpec ==
    PoliciesSpec /\ \A r \in Requests : WF_policyVars(Continue(r)) /\ SF_policyVars(LockActive(r))

-----------------------------------------------------------------------------
\* The rows are rows of the table, and a transaction is in a step of its operation.
PoliciesTypeOK ==
    /\ policies \in [Scopes -> Seq(Row)]
    /\ \A s \in Scopes : Len(policies[s]) <= MaxVersions
    /\ request \in [Requests -> {NoRequest} \union Proposal \union Activation]

\* One ACTIVE version per scope, however activations and rollbacks interleave
\* (docs/strategy_execution_boundary.zh-CN.md:64): resolve() would return either of two.
OneActivePolicy ==
    \A s \in Scopes : \A v, w \in Active(s) : v = w

SeenByTwo(rows) ==
    {v \in DOMAIN rows : rows[v].approvedBy \notin {NoActor, rows[v].proposedBy}}

\* Nobody's proposal comes into force without a second person, not by a rollback either.
ActivePolicyHasTwoPersons ==
    \A s \in Scopes : Active(s) \subseteq SeenByTwo(policies[s])

ApprovedByAnother == [s \in Scopes |-> SeenByTwo(policies[s])]

VersionAmong(versions) ==
    IF versions = {} THEN NoVersion ELSE CHOOSE v \in versions : TRUE

ActiveVersion == [s \in Scopes |-> VersionAmong(Active(s))]

InForce == INSTANCE PolicyInForce
               WITH None <- NoVersion, approved <- ApprovedByAnother, inForce <- ActiveVersion

\* The rows and transactions implement what PolicyInForce promises: in particular there is no
\* moment without a policy between the retirement of one version and the activation of the next.
ImplementsInForce == InForce!Spec

\* No two transactions wait for each other's rows: every request is answered.
RequestsAreAnswered == \A r \in Requests : []<>(request[r] = NoRequest)
=============================================================================
