-------------------------- MODULE OrderSubmission --------------------------
(***************************************************************************)
(* Submission, cancellation, TTL expiry and reconciliation of orders by    *)
(* the execution processes that share one ledger, and the broker they talk *)
(* to.  Every change of a row is an action of OrderLedger; this module     *)
(* adds who asks for it, with which stale information, and what happens    *)
(* when a process crashes, a lease expires or a message is lost.           *)
(*                                                                         *)
(* Threads of one process: the call that holds _submit_lock (`call'), a    *)
(* TTL scan (`due'), a reconciliation (`recon') and the reader of broker   *)
(* callbacks (`inbox').  A thread gives way wherever the code ends a       *)
(* transaction or waits for the broker.                                    *)
(***************************************************************************)
EXTENDS OrderLedger, Sequences

CONSTANTS
    Processes,      \* execution service processes
    NoProcess, NoOrder, NoStatus, NoSnapshot,
    MaxRequests,    \* bound on cancellations by operators and audits together
    MaxScans,       \* bound on rows read by TTL scans
    MaxCrashes,     \* bound on crashes
    MaxExpiries     \* bound on lease expiries

ASSUME SubmissionAssumption ==
    /\ NoProcess \notin Processes
    /\ NoOrder \notin Orders
    /\ {MaxRequests, MaxScans, MaxCrashes, MaxExpiries} \subseteq Nat
    /\ 1 \in Versions                  \* the broker corrects no execution here
    /\ \A o \in Orders : 1..TermQuantity[InitialTerms[o]] \subseteq Roots

VARIABLES
    lease,      \* execution_leases: the process whose lease has not expired
    session,    \* session state of each process
    call,       \* the submit or cancel call of each process
    due,        \* the row a TTL scan has read and not yet acted on
    recon,      \* the broker snapshot of a reconciliation, and what is left of it
    book,       \* the broker's own record of each order
    inbox,      \* callbacks sent to a process and not yet delivered
    heard,      \* the adapter's record of each order: the last status delivered
    used        \* how much of each bound is used up

processVars == <<lease, session, call, due, recon, heard>>
brokerVars == <<book, inbox>>
vars == <<ledgerVars, processVars, brokerVars, used>>

IdleCall == [step |-> "idle", order |-> NoOrder, seen |-> "ABSENT", answer |-> NoStatus,
             ttl |-> FALSE, revision |-> 0]

NotPlaced == [sent |-> 0, state |-> "none", filled |-> 0, cancelAsked |-> FALSE,
              owner |-> NoProcess]

SubmissionInit ==
    /\ Init
    /\ lease = NoProcess
    /\ session = [p \in Processes |-> "down"]
    /\ call = [p \in Processes |-> IdleCall]
    /\ due = [p \in Processes |-> NoOrder]
    /\ recon = [p \in Processes |-> NoSnapshot]
    /\ book = [o \in Orders |-> NotPlaced]
    /\ inbox = [p \in Processes |-> <<>>]
    /\ heard = [p \in Processes |-> [o \in Orders |-> NoStatus]]
    /\ used = [requests |-> 0, scans |-> 0, crashes |-> 0, expiries |-> 0]

\* Bounds.
Spend(what, max) ==
    /\ used[what] < max
    /\ used' = [used EXCEPT ![what] = @ + 1]

At(p, step) == call[p].step = step

\* The process reaches a step of its call; nothing but the call changes in the process.
Goes(p, next) ==
    /\ call' = [call EXCEPT ![p] = next]
    /\ UNCHANGED <<lease, session, due, recon, heard, used>>

Step(p, step) == [call[p] EXCEPT !.step = step]

Up(p) == session[p] # "down"

-----------------------------------------------------------------------------
(* The broker.                                                             *)

BrokerTerminal == {"filled", "cancelled", "rejected"}

WordOf(state) ==
    CASE state = "pending"   -> "PendingSubmit"
      [] state = "working"   -> "Submitted"
      [] state = "filled"    -> "Filled"
      [] state = "cancelled" -> "Cancelled"
      [] state = "rejected"  -> "Inactive"

Report(o, entry) ==
    StatusOf(WordOf(entry.state), InitialTerms[o], TermQuantity[InitialTerms[o]], entry.filled)

StatusMessage(o, entry) == [kind |-> "status", order |-> o, status |-> Report(o, entry)]
ExecutionMessage(o, n) == [kind |-> "execution", order |-> o, root |-> n]
ErrorMessage(o, code) == [kind |-> "error", order |-> o, code |-> code]

\* The broker changes an order and tells the process that sent it, if it is connected.
BrokerChanges(o, entry, messages) ==
    /\ book' = [book EXCEPT ![o] = entry]
    /\ inbox' = [p \in Processes |->
                   IF p = entry.owner /\ Up(p) THEN inbox[p] \o messages ELSE inbox[p]]
    /\ UNCHANGED <<ledgerVars, processVars, used>>

BrokerAccept(o) ==
    /\ book[o].state = "pending"
    /\ LET entry == [book[o] EXCEPT !.state = "working"]
       IN BrokerChanges(o, entry, <<StatusMessage(o, entry)>>)

BrokerReject(o) ==
    /\ book[o].state = "pending"
    /\ LET entry == [book[o] EXCEPT !.state = "rejected"]
       IN BrokerChanges(o, entry, <<ErrorMessage(o, 201), StatusMessage(o, entry)>>)

\* One unit is executed; the execution and the new status arrive in either order.
BrokerFill(o) ==
    /\ book[o].state = "working"
    /\ LET n == book[o].filled + 1
           entry == [book[o] EXCEPT
                       !.filled = n,
                       !.state = IF n = TermQuantity[InitialTerms[o]] THEN "filled" ELSE @]
           pair == <<ExecutionMessage(o, n), StatusMessage(o, entry)>>
       IN \/ BrokerChanges(o, entry, pair)
          \/ BrokerChanges(o, entry, <<pair[2], pair[1]>>)

BrokerCancel(o) ==
    /\ book[o].state \in {"pending", "working"}
    /\ book[o].cancelAsked
    /\ LET entry == [book[o] EXCEPT !.state = "cancelled"]
       IN BrokerChanges(o, entry, <<StatusMessage(o, entry), ErrorMessage(o, 202)>>)

\* placeOrder reaches the broker, from the process that calls it.
Placed(o, p) == [book[o] EXCEPT !.sent = @ + 1,
                                !.state = IF @ = "none" THEN "pending" ELSE @,
                                !.owner = p]

CancelAsked(o) == [book[o] EXCEPT !.cancelAsked = TRUE]

-----------------------------------------------------------------------------
(* submit().                                                               *)

\* create_or_get_intent, and the state the call goes on with.  A replay of an order that
\* is past authorization returns the row.
SubmitPersist(p, o) ==
    /\ Up(p)
    /\ At(p, "idle")
    /\ \/ /\ CreateIntent(o)
          /\ Goes(p, [IdleCall EXCEPT !.step = "gate", !.order = o,
                                      !.seen = "INTENT_PERSISTED"])
       \/ /\ rows[o].state \in PRE_SUBMISSION_STATES
          /\ UNCHANGED ledgerVars
          /\ Goes(p, [IdleCall EXCEPT !.step = "gate", !.order = o, !.seen = rows[o].state])
    /\ UNCHANGED brokerVars

\* READY, then _require_lease (which renews the lease), or the call raises.
SubmitGate(p) ==
    /\ At(p, "gate")
    /\ IF session[p] = "ready" /\ lease = p
       THEN Goes(p, Step(p, "risk"))
       ELSE Goes(p, IdleCall)
    /\ UNCHANGED <<ledgerVars, brokerVars>>

\* transition, which raises when the row has moved on and the target is not allowed.
TransitionOrRaise(o, target) ==
    IF MayTransition(rows[o].state, target) THEN Transition(o, target)
    ELSE UNCHANGED ledgerVars

SubmitRejectedByRisk(p) ==
    /\ At(p, "risk")
    /\ TransitionOrRaise(call[p].order, "RISK_REJECTED")
    /\ Goes(p, IdleCall)
    /\ UNCHANGED brokerVars

\* The row is moved to AUTHORIZED only if it was INTENT_PERSISTED when the call read it.
SubmitAuthorized(p) ==
    /\ At(p, "risk")
    /\ IF call[p].seen = "INTENT_PERSISTED"
       THEN /\ TransitionOrRaise(call[p].order, "AUTHORIZED")
            /\ Goes(p, IF MayTransition(rows[call[p].order].state, "AUTHORIZED")
                       THEN Step(p, "claim") ELSE IdleCall)
       ELSE /\ UNCHANGED ledgerVars
            /\ Goes(p, Step(p, "claim"))
    /\ UNCHANGED brokerVars

\* The authorization expired, the arming ended or pacing refused a new order: it raises.
SubmitGivesUp(p) ==
    /\ At(p, "claim")
    /\ Goes(p, IdleCall)
    /\ UNCHANGED <<ledgerVars, brokerVars>>

\* Faulty variant: a claim that was lost to another process is not noticed.
SubmitClaimIgnored(p) ==
    /\ At(p, "claim")
    /\ IF rows[call[p].order].state = "AUTHORIZED"
       THEN ClaimSubmission(call[p].order)
       ELSE UNCHANGED ledgerVars
    /\ Goes(p, Step(p, "send"))
    /\ UNCHANGED brokerVars

SubmitClaim(p) ==
    /\ At(p, "claim")
    /\ IF rows[call[p].order].state = "AUTHORIZED"
       THEN ClaimSubmission(call[p].order) /\ Goes(p, Step(p, "send"))
       ELSE UNCHANGED ledgerVars /\ Goes(p, IdleCall)
    /\ UNCHANGED brokerVars

\* The adapter forgets what it heard of the order and calls placeOrder, which reaches the
\* broker or is lost with the connection.
SubmitTransmit(p) ==
    LET o == call[p].order IN
    /\ At(p, "send")
    /\ session[p] = "ready"
    /\ \/ book' = [book EXCEPT ![o] = Placed(o, p)]
       \/ book' = [book EXCEPT ![o].sent = @ + 1]
    /\ heard' = [heard EXCEPT ![p][o] = NoStatus]
    /\ call' = [call EXCEPT ![p].step = "wait"]
    /\ UNCHANGED <<ledgerVars, lease, session, due, recon, inbox, used>>

\* _assert_order_safe raises: the session is no longer READY, or no longer armed.
SubmitRefused(p) ==
    /\ At(p, "send")
    /\ Goes(p, Step(p, "unknown"))
    /\ UNCHANGED <<ledgerVars, brokerVars>>

\* _wait_for_order: the first acknowledgement is copied.
SubmitAcknowledged(p) ==
    LET o == call[p].order IN
    /\ At(p, "wait")
    /\ heard[p][o] # NoStatus
    /\ Goes(p, [call[p] EXCEPT !.step = "apply", !.answer = heard[p][o]])
    /\ UNCHANGED <<ledgerVars, brokerVars>>

\* The wait times out or the broker reports an error; the adapter asks for cancellation.
SubmitFails(p) ==
    LET o == call[p].order IN
    /\ At(p, "wait")
    /\ Goes(p, Step(p, "unknown"))
    /\ book' = [book EXCEPT ![o] = CancelAsked(o)]
    /\ UNCHANGED <<ledgerVars, inbox>>

\* Faulty variant: an outcome that is not known is recorded as a rejection.
MarkRejected(p) ==
    LET o == call[p].order IN
    /\ At(p, "unknown")
    /\ IF rows[o].state \in TERMINAL_ORDER_STATES THEN UNCHANGED ledgerVars
       ELSE TransitionOrRaise(o, "REJECTED")
    /\ Goes(p, IdleCall)
    /\ UNCHANGED brokerVars

\* _mark_unknown_unless_terminal; the TTL scan does the same when its cancellation raised.
MarkUnknown(p) ==
    LET o == call[p].order IN
    /\ At(p, "unknown")
    /\ IF rows[o].state \in TERMINAL_ORDER_STATES THEN UNCHANGED ledgerVars
       ELSE TransitionOrRaise(o, "UNKNOWN")
    /\ Goes(p, IdleCall)
    /\ UNCHANGED brokerVars

\* The copied status is applied, however old it is by now.
ApplyAnswer(p) ==
    LET o == call[p].order
        st == call[p].answer
        cancelled == call[p].ttl /\ rows'[o].state = "CANCELLED"
    IN /\ At(p, "apply")
       /\ ApplyReconciledStatus(o, LifecycleFromBrokerStatus(st), st, FALSE)
       /\ Goes(p, IF cancelled THEN Step(p, "expire") ELSE IdleCall)
       /\ UNCHANGED brokerVars

-----------------------------------------------------------------------------
(* cancel(), by an operator or for the TTL.                                *)

\* An operator cancels at the revision it has just read.
OperatorCancel(p, o) ==
    /\ Up(p)
    /\ At(p, "idle")
    /\ rows[o].brokerId
    /\ rows[o].state \notin TERMINAL_ORDER_STATES
    /\ Spend("requests", MaxRequests)
    /\ call' = [call EXCEPT ![p] = [IdleCall EXCEPT !.step = "cancel gate", !.order = o,
                                                    !.revision = rows[o].revision]]
    /\ UNCHANGED <<ledgerVars, brokerVars, lease, session, due, recon, heard>>

\* A cancellation that raises: the operator gets the error, the TTL scan marks UNKNOWN.
CancelRaised(p) == IF call[p].ttl THEN Step(p, "unknown") ELSE IdleCall

CancelGate(p) ==
    /\ At(p, "cancel gate")
    /\ Goes(p, IF lease = p THEN Step(p, "cancel claim") ELSE CancelRaised(p))
    /\ UNCHANGED <<ledgerVars, brokerVars>>

\* claim_cancellation at the revision of the command.  A claim that fails returns the row
\* if it is already being cancelled, unknown or terminal, and raises otherwise.
CancelClaim(p) ==
    LET o == call[p].order
    IN /\ At(p, "cancel claim")
       /\ \/ /\ rows[o].revision = call[p].revision
             /\ ClaimCancellation(o)
             /\ Goes(p, Step(p, "cancel send"))
          \/ /\ \/ rows[o].revision # call[p].revision
                \/ rows[o].state \in {"CANCEL_PENDING"} \cup TERMINAL_ORDER_STATES
             /\ UNCHANGED ledgerVars
             /\ Goes(p, IF rows[o].state = "CANCELLED" /\ call[p].ttl THEN Step(p, "expire")
                        ELSE IF rows[o].state \in {"CANCEL_PENDING", "UNKNOWN"}
                                                  \cup TERMINAL_ORDER_STATES
                        THEN IdleCall
                        ELSE CancelRaised(p))
       /\ UNCHANGED brokerVars

\* cancel_order verifies with the broker that this client owns the order, then asks for the
\* cancellation unless the adapter already knows the order to be terminal.
CancelSend(p) ==
    LET o == call[p].order
        known == heard[p][o] # NoStatus /\ heard[p][o].status \in {"Cancelled", "Filled", "Inactive"}
    IN /\ At(p, "cancel send")
       /\ IF book[o].state = "none" \/ book[o].owner # p
          THEN Goes(p, Step(p, "unknown")) /\ UNCHANGED book
          ELSE IF known
          THEN Goes(p, [call[p] EXCEPT !.step = "apply", !.answer = heard[p][o]])
               /\ UNCHANGED book
          ELSE Goes(p, Step(p, "cancel wait")) /\ book' = [book EXCEPT ![o] = CancelAsked(o)]
       /\ UNCHANGED <<ledgerVars, inbox>>

CancelAcknowledged(p) ==
    LET st == heard[p][call[p].order] IN
    /\ At(p, "cancel wait")
    /\ st # NoStatus
    /\ st.status \in {"Cancelled", "Filled", "Inactive"}
    /\ Goes(p, [call[p] EXCEPT !.step = "apply", !.answer = st])
    /\ UNCHANGED <<ledgerVars, brokerVars>>

CancelFails(p) ==
    /\ At(p, "cancel wait")
    /\ Goes(p, Step(p, "unknown"))
    /\ UNCHANGED <<ledgerVars, brokerVars>>

-----------------------------------------------------------------------------
(* expire_due_orders: a scan reads the rows that are due, then acts.       *)

ExpireRead(p, o) ==
    /\ Up(p)
    /\ due[p] = NoOrder
    /\ Exists(o) /\ rows[o].state \notin TERMINAL_ORDER_STATES
    /\ due' = [due EXCEPT ![p] = [order |-> o, brokerId |-> rows[o].brokerId,
                                 revision |-> rows[o].revision]]
    /\ Spend("scans", MaxScans)
    /\ UNCHANGED <<ledgerVars, brokerVars, lease, session, call, recon, heard>>

\* No broker identity had been recorded when the row was read.
ExpireIntent(p) ==
    /\ due[p] # NoOrder
    /\ ~due[p].brokerId
    /\ TransitionOrRaise(due[p].order, "EXPIRED")
    /\ due' = [due EXCEPT ![p] = NoOrder]
    /\ UNCHANGED <<brokerVars, lease, session, call, recon, heard, used>>

\* A cancellation at the revision the scan has read, once _submit_lock is free.
ExpireByCancel(p) ==
    /\ due[p] # NoOrder
    /\ due[p].brokerId
    /\ At(p, "idle")
    /\ call' = [call EXCEPT ![p] = [IdleCall EXCEPT !.step = "cancel gate",
                                                   !.order = due[p].order,
                                                   !.ttl = TRUE,
                                                   !.revision = due[p].revision]]
    /\ due' = [due EXCEPT ![p] = NoOrder]
    /\ UNCHANGED <<ledgerVars, brokerVars, lease, session, recon, heard, used>>

\* The cancellation was reported: the row becomes EXPIRED, or if it is not CANCELLED any
\* more the call raises and the scan tries to mark it UNKNOWN.
ExpireAfterCancel(p) ==
    LET o == call[p].order IN
    /\ At(p, "expire")
    /\ IF rows[o].state = "CANCELLED"
       THEN MarkExpiredAfterCancel(o)
       ELSE TransitionOrRaise(o, "UNKNOWN")
    /\ Goes(p, IdleCall)
    /\ UNCHANGED brokerVars

-----------------------------------------------------------------------------
(* Callbacks: the reader updates the adapter's record, then the ledger.    *)

\* Faulty variant: the confirmation of a cancellation is taken for a rejection.
ApplyRejectionOfCancel(o, code) ==
    IF rows[o].state \in TERMINAL_ORDER_STATES \cup {"PARTIAL_FILL", "CANCEL_PENDING"}
    THEN UNCHANGED ledgerVars
    ELSE TransitionOrRaise(o, "REJECTED")

\* _apply_rejection_event.
ApplyRejection(o, code) ==
    IF rows[o].state \in TERMINAL_ORDER_STATES THEN UNCHANGED ledgerVars
    ELSE IF code = 202 THEN TransitionOrRaise(o, "CANCELLED")
    ELSE IF rows[o].state \in {"SUBMITTING", "UNKNOWN"} THEN TransitionOrRaise(o, "REJECTED")
    ELSE UNCHANGED ledgerVars

\* An execution already stored does not touch the order again.
ApplyExecution(o, n) ==
    IF 1 \in Seen(o, n) THEN UNCHANGED ledgerVars
    ELSE UpsertExecution(o, n, 1, 1)

\* Code 202 rewrites the status of the adapter's record, if there is one.
HeardAfter(p, message) ==
    LET o == message.order IN
    CASE message.kind = "status" -> [heard EXCEPT ![p][o] = message.status]
      [] message.kind = "error" /\ message.code = 202 /\ heard[p][o] # NoStatus ->
           [heard EXCEPT ![p][o].status = "Cancelled"]
      [] OTHER -> heard

Deliver(p) ==
    LET message == Head(inbox[p])
        o == message.order
    IN /\ Up(p)
       /\ inbox[p] # <<>>
       /\ inbox' = [inbox EXCEPT ![p] = Tail(@)]
       /\ heard' = HeardAfter(p, message)
       /\ \/ /\ message.kind = "status"
             /\ ApplyReconciledStatus(o, LifecycleFromBrokerStatus(message.status),
                                      message.status, FALSE)
          \/ message.kind = "execution" /\ ApplyExecution(o, message.root)
          \/ message.kind = "error" /\ ApplyRejection(o, message.code)
       /\ UNCHANGED <<lease, session, call, due, recon, book, used>>

-----------------------------------------------------------------------------
(* BrokerReconciler.run.                                                   *)

\* start(), recover() and the periodic audit hold the lease.  Open and completed orders are
\* read first.  Only an audit reconciles a READY session.
ReconcileReadOrders(p) ==
    /\ session[p] \in {"starting", "ready", "degraded"}
    /\ lease = p
    /\ recon[p] = NoSnapshot
    /\ session' = [session EXCEPT ![p] = "starting"]
    /\ recon' = [recon EXCEPT ![p] =
                   [status |-> [o \in Orders |-> IF book[o].state = "none" THEN NoStatus
                                                 ELSE Report(o, book[o])],
                    fills  |-> NoSnapshot,
                    left   |-> {o \in Orders : book[o].state # "none"},
                    ok     |-> TRUE]]
    /\ IF session[p] = "ready" THEN Spend("requests", MaxRequests) ELSE UNCHANGED used
    /\ UNCHANGED <<ledgerVars, brokerVars, lease, call, due, heard>>

\* Then the executions, which may be ahead of the orders.
ReconcileReadExecutions(p) ==
    /\ recon[p] # NoSnapshot
    /\ recon[p].fills = NoSnapshot
    /\ recon' = [recon EXCEPT ![p].fills = [o \in Orders |-> book[o].filled]]
    /\ UNCHANGED <<ledgerVars, brokerVars, lease, session, call, due, heard, used>>

\* BROKER_SNAPSHOT_FAILED: a request times out.
ReconcileReadFails(p) ==
    /\ recon[p] # NoSnapshot
    /\ recon[p].fills = NoSnapshot
    /\ session' = [session EXCEPT ![p] = "degraded"]
    /\ recon' = [recon EXCEPT ![p] = NoSnapshot]
    /\ UNCHANGED <<ledgerVars, brokerVars, lease, call, due, heard, used>>

HasSnapshot(p) == recon[p] # NoSnapshot /\ recon[p].fills # NoSnapshot

\* One matched order: a conflict with a terminal row is an issue; the status is applied.
ReconcileOrder(p, o) ==
    LET st == recon[p].status[o]
        target == LifecycleFromBrokerStatus(st)
        conflict == rows[o].state \in TERMINAL_ORDER_STATES /\ rows[o].state # target
    IN /\ HasSnapshot(p)
       /\ o \in recon[p].left
       /\ ApplyReconciledStatus(o, target, st, TRUE)
       /\ recon' = [recon EXCEPT ![p].left = @ \ {o}, ![p].ok = @ /\ ~conflict]
       /\ UNCHANGED <<brokerVars, lease, session, call, due, heard, used>>

Unstored(p, o) == {n \in 1..recon[p].fills[o] : 1 \notin Seen(o, n)}

Matched(p) == {o \in Orders : recon[p].status[o] # NoStatus}

\* The executions of the snapshot follow the orders.
ReconcileExecution(p, o) ==
    /\ HasSnapshot(p)
    /\ recon[p].left = {}
    /\ \E n \in Unstored(p, o) : UpsertExecution(o, n, 1, 1)
    /\ UNCHANGED <<processVars, brokerVars, used>>

\* LOCAL_ORDER_MISSING_AT_BROKER: a working row that no snapshot contains.
MissingAtBroker(p) == {o \in Orders \ Matched(p) : rows[o].state \in WORKING_STATES}

ReconcileFinish(p) ==
    /\ HasSnapshot(p)
    /\ recon[p].left = {}
    /\ \A o \in Orders : Unstored(p, o) = {}
    /\ session' = [session EXCEPT ![p] =
                     IF recon[p].ok /\ MissingAtBroker(p) = {} THEN "ready" ELSE "degraded"]
    /\ recon' = [recon EXCEPT ![p] = NoSnapshot]
    /\ UNCHANGED <<ledgerVars, brokerVars, lease, call, due, heard, used>>

-----------------------------------------------------------------------------
(* Processes and the lease.                                                *)

\* Faulty variant: a restarted process is READY before it has reconciled.
StartUnreconciled(p) ==
    /\ lease = NoProcess
    /\ lease' = p
    /\ session' = [session EXCEPT ![p] = "ready"]
    /\ UNCHANGED <<ledgerVars, brokerVars, call, due, recon, heard, used>>

\* start(): the lease is free.  A process that lost its lease is started again by request.
Start(p) ==
    /\ lease = NoProcess
    /\ lease' = p
    /\ session' = [session EXCEPT ![p] = IF @ = "down" THEN "starting" ELSE @]
    /\ UNCHANGED <<ledgerVars, brokerVars, call, due, recon, heard, used>>

\* The supervisor's renewal fails: it disarms and marks the session DEGRADED.
SupervisorDemotes(p) ==
    /\ session[p] = "ready"
    /\ lease # p
    /\ session' = [session EXCEPT ![p] = "degraded"]
    /\ UNCHANGED <<ledgerVars, brokerVars, lease, call, due, recon, heard, used>>

\* The holder did not renew in time: it is down, or stalled, or cut off from the database.
LeaseExpires ==
    /\ lease # NoProcess
    /\ Spend("expiries", MaxExpiries)
    /\ lease' = NoProcess
    /\ UNCHANGED <<ledgerVars, brokerVars, session, call, due, recon, heard>>

\* The process dies: its threads, its undelivered callbacks and its records are lost.
Crash(p) ==
    /\ Up(p)
    /\ Spend("crashes", MaxCrashes)
    /\ session' = [session EXCEPT ![p] = "down"]
    /\ call' = [call EXCEPT ![p] = IdleCall]
    /\ due' = [due EXCEPT ![p] = NoOrder]
    /\ recon' = [recon EXCEPT ![p] = NoSnapshot]
    /\ heard' = [heard EXCEPT ![p] = [o \in Orders |-> NoStatus]]
    /\ inbox' = [inbox EXCEPT ![p] = <<>>]
    /\ UNCHANGED <<ledgerVars, lease, book>>

-----------------------------------------------------------------------------
SubmitSteps(p) ==
    \/ SubmitGate(p) \/ SubmitRejectedByRisk(p) \/ SubmitAuthorized(p) \/ SubmitGivesUp(p)
    \/ SubmitClaim(p) \/ SubmitTransmit(p) \/ SubmitRefused(p) \/ SubmitAcknowledged(p)
    \/ SubmitFails(p) \/ MarkUnknown(p) \/ ApplyAnswer(p)

CancelSteps(p) ==
    \/ CancelGate(p) \/ CancelClaim(p) \/ CancelSend(p) \/ CancelAcknowledged(p)
    \/ CancelFails(p) \/ ExpireAfterCancel(p)

ReconcileSteps(p) ==
    \/ \E o \in Orders : ReconcileOrder(p, o) \/ ReconcileExecution(p, o)
    \/ ReconcileReadExecutions(p) \/ ReconcileReadFails(p) \/ ReconcileFinish(p)

BrokerNext ==
    \E o \in Orders : BrokerAccept(o) \/ BrokerReject(o) \/ BrokerFill(o) \/ BrokerCancel(o)

SubmissionNext ==
    \/ BrokerNext
    \/ LeaseExpires
    \/ \E p \in Processes :
        \/ \E o \in Orders : SubmitPersist(p, o) \/ OperatorCancel(p, o) \/ ExpireRead(p, o)
        \/ SubmitSteps(p) \/ CancelSteps(p)
        \/ ExpireIntent(p) \/ ExpireByCancel(p)
        \/ Deliver(p)
        \/ ReconcileReadOrders(p) \/ ReconcileSteps(p)
        \/ Start(p) \/ SupervisorDemotes(p) \/ Crash(p)

SubmissionSpec == SubmissionInit /\ [][SubmissionNext]_vars

\* The reader thread drains the callbacks, a call ends (every wait of it has a timeout), and
\* the supervisor reconciles a session that is not READY until IBKR answers.  Nothing is
\* assumed of the broker, of operators, of TTL scans, or of a process that is down.
Fairness ==
    \A p \in Processes :
        /\ WF_vars(Deliver(p))
        /\ WF_vars(SubmitSteps(p) \/ CancelSteps(p))
        /\ WF_vars(ReconcileReadOrders(p) \/ ReconcileSteps(p))
        /\ SF_vars(ReconcileReadExecutions(p))

FairSubmissionSpec == SubmissionSpec /\ Fairness

-----------------------------------------------------------------------------
(* Properties.                                                             *)

\* placeOrder is called at most once for an order, by any process, whatever is replayed,
\* retried, crashed or expired; and never before the claim is durable in the ledger.
AtMostOneTransmission ==
    \A o \in Orders : book[o].sent <= claims[o] /\ claims[o] <= 1

\* The final states the ledger reports are the broker's: FILLED, CANCELLED and REJECTED are
\* never guesses of a process that lost track of an order.
OutcomesAreTrue ==
    \A o \in Orders :
        /\ rows[o].state = "FILLED" => book[o].state = "filled"
        /\ rows[o].state = "CANCELLED" => book[o].state = "cancelled"
        /\ rows[o].state = "REJECTED" => book[o].state = "rejected"
        /\ rows[o].state = "RISK_REJECTED" => book[o].sent = 0

\* The ledger never counts more fills than the broker made, although the same fill reaches it
\* as an execution, in statuses and in reconciliation snapshots of any age.
FillsNeverOverstated ==
    \A o \in Orders : rows[o].filled <= book[o].filled /\ executed[o] <= book[o].filled

\* A process that stays up and keeps the lease.
Survives(p) == <>[](Up(p) /\ lease = p)

LearnsOf(closed(_)) ==
    \A p \in Processes :
        Survives(p) =>
            \A o \in Orders : closed(book[o]) ~> (rows[o].state \in TERMINAL_ORDER_STATES)

\* When the broker is done with an order, the ledger learns it: through a callback, or after
\* a crash that lost the callbacks, through reconciliation.  The exception is stated next.
OutcomeIsLearned ==
    LearnsOf(LAMBDA entry : entry.state \in BrokerTerminal
                            /\ ~(entry.state = "cancelled" /\ entry.filled > 0))

\* A cancellation after a partial fill is learned like any other outcome: the boundary
\* document says that what is not known is "decided by reconciling open orders, executions
\* and positions".
PartialCancelIsLearned ==
    LearnsOf(LAMBDA entry : entry.state = "cancelled")
=============================================================================
