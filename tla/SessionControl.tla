--------------------------- MODULE SessionControl ---------------------------
(***************************************************************************)
(* What decides whether one running execution process may send an order:   *)
(* the state of its IBKR session, the safety controller (kill reason, live *)
(* arm, liquidation arm), and the kill switch in the database that every   *)
(* process sees.  These are changed, without a common lock, by operator    *)
(* requests, the supervisor, the reader of broker callbacks, submissions   *)
(* and emergency flattening.  Each of them is an actor here; an actor      *)
(* gives way wherever the code releases a lock, commits, or waits for      *)
(* IBKR.  LIVE mode, one account, the lease held throughout.               *)
(***************************************************************************)
EXTENDS Naturals

CONSTANTS
    Orders,      \* orders that open risk, each submitted at most once
    FlatOrder,   \* the reduce-only order of an emergency flatten
    NoOrder,
    NoReason,
    Earlier,     \* connection events that earlier runs of the account left in the database
    Limit        \* bound on how often each kind of event happens

Reasons == {"operator", "integrity", "audit", "external"}

ConnectionEvents == {"LOST", "RESTORED", "DISCONNECTED"}

Events == {"kills", "clears", "losses", "arms", "requests", "audits", "failures"}

ASSUME SessionAssumption ==
    /\ NoReason \notin Reasons
    /\ NoOrder \notin Orders \cup {FlatOrder}
    /\ FlatOrder \notin Orders
    /\ Earlier \subseteq ConnectionEvents
    /\ Limit \in [Events -> Nat]

VARIABLES
    session,      \* IBKRAdapter._session_state
    socket,       \* the client is connected
    safety,       \* TradingSafetyController: kill reason, live arm, liquidation arm
    control,      \* trading_controls: the persistent kill reason of the account
    journal,      \* connection events that broker_order_events already holds
    working,      \* own orders that are open at IBKR
    asked,        \* own orders whose cancellation was sent to IBKR
    sent,         \* orders given to placeOrder
    at,           \* the step each actor has reached
    why,          \* the kill reason each actor is handling
    sending,      \* the order of the submission in progress
    lock,         \* the actor that holds _submit_lock
    reconciling,  \* the actor that holds the lock of the reconciliation
    during,       \* history: what happened since that reconciliation began
    armAge,       \* history: what happened since the process was armed
    used          \* how much of each bound is used up

adapterVars == <<session, socket>>
orderVars == <<working, asked, sent>>
actorVars == <<at, why, sending, lock>>
historyVars == <<during, armAge>>
vars == <<adapterVars, safety, control, journal, orderVars, actorVars, reconciling,
          historyVars, used>>

SessionState == {"DISCONNECTED", "RECOVERING", "RECONCILING", "READY", "DEGRADED", "KILLED"}

Actors == {"killer", "clearer", "armer", "operator", "supervisor", "reader", "submit", "flatten"}

Submitters == {"submit", "flatten"}

\* A process whose start() has just succeeded.
Init ==
    /\ session = "READY"
    /\ socket = TRUE
    /\ safety = [killed |-> NoReason, armed |-> FALSE, liquidation |-> FALSE]
    /\ control = NoReason
    /\ journal = Earlier
    /\ working = {} /\ asked = {} /\ sent = {}
    /\ at = [a \in Actors |-> "idle"]
    /\ why = [a \in Actors |-> NoReason]
    /\ sending = NoOrder
    /\ lock = "nobody"
    /\ reconciling = "nobody"
    /\ during = {} /\ armAge = {}
    /\ used = [e \in Events |-> 0]

\* Bounds.
Spend(event) ==
    /\ used[event] < Limit[event]
    /\ used' = [used EXCEPT ![event] = @ + 1]

At(a, step) == at[a] = step

\* The actor goes on to a step, with the reason, the order and the lock it has.
Goes(a, step) == at' = [at EXCEPT ![a] = step] /\ UNCHANGED <<why, sending, lock>>

GoesWith(a, step, reason) ==
    /\ at' = [at EXCEPT ![a] = step]
    /\ why' = [why EXCEPT ![a] = reason]
    /\ UNCHANGED <<sending, lock>>

\* A submission returns or raises: _submit_lock is released, and flatten_account goes on
\* with its `finally'.
Leaves(a) ==
    /\ at' = [at EXCEPT ![a] = IF a = "flatten" THEN "disarm liquidation" ELSE "idle"]
    /\ sending' = NoOrder
    /\ lock' = "nobody"
    /\ UNCHANGED why

\* An audit ends by leaving the lock; check_once goes on with its own ending.
Auditing == lock = "supervisor"

SupervisorEnds(step) ==
    /\ at' = [at EXCEPT !["supervisor"] = step]
    /\ lock' = IF Auditing THEN "nobody" ELSE lock
    /\ UNCHANGED <<why, sending>>

\* What the history remembers: an event since the snapshot, or since the arming.
Happened(event) ==
    /\ during' = during \cup {event}
    /\ armAge' = armAge \cup {event}

-----------------------------------------------------------------------------
(* TradingSafetyController: each operation is atomic under its lock.       *)

SafetyKill(reason) ==
    /\ safety' = [killed |-> reason, armed |-> FALSE, liquidation |-> FALSE]
    /\ armAge' = armAge \cup {"kill"}

SafetyDisarm == safety' = [safety EXCEPT !.armed = FALSE]

\* assert_can_transmit.
CanTransmit(reduceOnly) ==
    LET override == reduceOnly /\ safety.liquidation IN
    override \/ (safety.killed = NoReason /\ safety.armed)

-----------------------------------------------------------------------------
(* Kill, by an operator or by an audit that was blocked.                   *)

KillBegin ==
    /\ At("killer", "idle")
    /\ Spend("kills")
    /\ SafetyKill("operator")
    /\ GoesWith("killer", "persist", "operator")
    /\ UNCHANGED <<adapterVars, control, journal, orderVars, reconciling, during>>

\* set_kill_switch; its failure is remembered and raised at the end.
KillPersist(a) ==
    /\ At(a, "persist")
    /\ control' \in {why[a], control}
    /\ Goes(a, "mark")
    /\ UNCHANGED <<adapterVars, safety, journal, orderVars, reconciling, historyVars, used>>

\* mark_killed, for kill() and for sync_persistent_control alike.
KillMark(a) ==
    /\ At(a, "mark")
    /\ session' = "KILLED"
    /\ Goes(a, "cancel all")
    /\ UNCHANGED <<socket, safety, control, journal, orderVars, reconciling, historyVars, used>>

\* Where an actor goes on after the cancellations: only a reduce-only submission does not
\* raise, a check of the supervisor ends with a heartbeat, an audit fails.
AfterCancel(a, raised) ==
    CASE a = "submit"     -> Leaves(a)
      [] a = "flatten"    -> IF raised THEN Leaves(a) ELSE Goes(a, "check")
      [] a = "killer"     -> Goes(a, "idle")
      [] a = "supervisor" -> SupervisorEnds(IF Auditing THEN "failed" ELSE "heartbeat")

\* _assert_execution_boundary: ExecutionSDK has configured a token.
PassesBoundary(token) == token = "execution token"

\* cancel_all_orders itself is called with the token; it calls the adapter's cancel_order for
\* each own open order without one, so that the first of them raises.
CancelAllOrders(a) ==
    LET accepted == PassesBoundary("no token") IN
    /\ At(a, "cancel all")
    /\ socket
    /\ asked' = IF accepted THEN asked \cup working ELSE asked
    /\ AfterCancel(a, working # {} /\ ~accepted)
    /\ UNCHANGED <<adapterVars, safety, control, journal, working, sent, reconciling, historyVars, used>>

\* connect() leaves the session RECOVERING.
Connects ==
    /\ ~socket
    /\ socket' = TRUE
    /\ session' = "RECOVERING"

\* Every request connects a client without a socket first.
CancelAllConnects(a) ==
    /\ At(a, "cancel all")
    /\ Connects
    /\ UNCHANGED <<safety, control, journal, orderVars, actorVars, reconciling, historyVars, used>>

\* Another process, such as the end-of-day reconciliation, sets the kill switch.
ExternalKill ==
    /\ control = NoReason
    /\ Spend("kills")
    /\ control' = "external"
    /\ UNCHANGED <<adapterVars, safety, journal, orderVars, actorVars, reconciling, historyVars>>

-----------------------------------------------------------------------------
(* clear_kill.                                                             *)

ClearBegin ==
    /\ At("clearer", "idle")
    /\ Spend("clears")
    /\ safety' = [safety EXCEPT !.killed = NoReason]
    /\ Goes("clearer", "persist clear")
    /\ UNCHANGED <<adapterVars, control, journal, orderVars, reconciling, historyVars>>

ClearPersist ==
    /\ At("clearer", "persist clear")
    /\ control' = NoReason
    /\ Goes("clearer", "degrade")
    /\ UNCHANGED <<adapterVars, safety, journal, orderVars, reconciling, historyVars, used>>

ClearDegrade ==
    /\ At("clearer", "degrade")
    /\ session' = "DEGRADED"
    /\ Happened("clear")
    /\ Goes("clearer", "idle")
    /\ UNCHANGED <<socket, safety, control, journal, orderVars, reconciling, used>>

-----------------------------------------------------------------------------
(* arm-live: readiness is checked first, then the controller is armed.     *)

ArmRequest ==
    /\ At("armer", "idle")
    /\ session = "READY"
    /\ control = NoReason
    /\ Spend("arms")
    /\ Goes("armer", "arm")
    /\ UNCHANGED <<adapterVars, safety, control, journal, orderVars, reconciling, historyVars>>

\* Faulty variant: the controller trusts the readiness that was checked before.
ArmTrusting ==
    /\ At("armer", "arm")
    /\ safety' = [safety EXCEPT !.armed = TRUE]
    /\ armAge' = {}
    /\ Goes("armer", "idle")
    /\ UNCHANGED <<adapterVars, control, journal, orderVars, reconciling, during, used>>

Arm ==
    /\ At("armer", "arm")
    /\ IF safety.killed = NoReason
       THEN safety' = [safety EXCEPT !.armed = TRUE] /\ armAge' = {}
       ELSE UNCHANGED <<safety, armAge>>
    /\ Goes("armer", "idle")
    /\ UNCHANGED <<adapterVars, control, journal, orderVars, reconciling, during, used>>

\* The live arm, or the liquidation arm, reaches its time limit.
ArmExpires ==
    /\ \/ safety.armed /\ safety' = [safety EXCEPT !.armed = FALSE]
       \/ safety.liquidation /\ safety' = [safety EXCEPT !.liquidation = FALSE]
    /\ UNCHANGED <<adapterVars, control, journal, orderVars, actorVars, reconciling, historyVars, used>>

-----------------------------------------------------------------------------
(* The reader thread: connection events and integrity kills.               *)

StateAfter(event) ==
    CASE event = "LOST" -> "DEGRADED"
      [] event = "RESTORED" -> "RECOVERING"
      [] event = "DISCONNECTED" -> "DISCONNECTED"

\* _handle_client_event sets the session state, whatever it was.
ConnectionEvent(event) ==
    /\ At("reader", "idle")
    /\ socket
    /\ IF event = "RESTORED" THEN session = "DEGRADED" /\ UNCHANGED used ELSE Spend("losses")
    /\ session' = StateAfter(event)
    /\ socket' = (event # "DISCONNECTED")
    /\ IF event = "RESTORED" THEN UNCHANGED historyVars ELSE Happened("loss")
    /\ Goes("reader", event)
    /\ UNCHANGED <<safety, control, journal, orderVars, reconciling>>

\* on_broker_event: an event equal to one in the journal is dropped as a duplicate.
ConnectionDispatch(event) ==
    /\ At("reader", event)
    /\ IF event \in journal THEN UNCHANGED <<safety, journal>>
       ELSE SafetyDisarm /\ journal' = journal \cup {event}
    /\ Goes("reader", "idle")
    /\ UNCHANGED <<adapterVars, control, orderVars, reconciling, historyVars, used>>

\* _activate_integrity_kill: an unknown order or execution; or an event that failed to persist.
IntegrityKill ==
    /\ At("reader", "idle")
    /\ Spend("kills")
    /\ SafetyKill("integrity")
    /\ GoesWith("reader", "degrade session", "integrity")
    /\ UNCHANGED <<adapterVars, control, journal, orderVars, reconciling, during>>

IntegrityDegrade ==
    /\ At("reader", "degrade session")
    /\ session' = "DEGRADED"
    /\ Goes("reader", "persist integrity")
    /\ UNCHANGED <<socket, safety, control, journal, orderVars, reconciling, historyVars, used>>

IntegrityPersist ==
    /\ At("reader", "persist integrity")
    /\ control' \in {why["reader"], control}
    /\ Goes("reader", "idle")
    /\ UNCHANGED <<adapterVars, safety, journal, orderVars, reconciling, historyVars, used>>

-----------------------------------------------------------------------------
(* Reconciliation, under its own lock.                                     *)

\* mark_reconciling; a killed session is reconciled like any other.
ReconcileBegin(a) ==
    /\ At(a, "reconcile")
    /\ reconciling = "nobody"
    /\ reconciling' = a
    /\ session' = "RECONCILING"
    /\ during' = {}
    /\ Goes(a, "reconciling")
    /\ UNCHANGED <<socket, safety, control, journal, orderVars, sending, armAge, used>>

\* The snapshot of the broker's orders, executions and positions is complete.
ReconcileRead(a) ==
    /\ At(a, "reconciling")
    /\ socket
    /\ Goes(a, "judging")
    /\ UNCHANGED <<adapterVars, safety, control, journal, orderVars, reconciling, historyVars, used>>

ReconcileConnects(a) ==
    /\ At(a, "reconciling")
    /\ Connects
    /\ UNCHANGED <<safety, control, journal, orderVars, actorVars, reconciling, historyVars, used>>

\* Where a caller goes on: recover(), an audit and the flatten need an accepted report.
AfterReconcile(a, ok) ==
    CASE a = "flatten"    -> Goes(a, IF ok THEN "arm liquidation" ELSE "idle")
      [] a = "supervisor" -> SupervisorEnds(IF ok THEN "idle" ELSE "failed")
      [] a = "operator"   -> Goes(a, "idle")

\* mark_reconciled sets READY whatever happened meanwhile, if the socket is open; without
\* a socket it raises.
ReconcileAccepted(a) ==
    /\ At(a, "judging")
    /\ reconciling' = "nobody"
    /\ session' = IF socket THEN "READY" ELSE session
    /\ AfterReconcile(a, socket)
    /\ UNCHANGED <<socket, safety, control, journal, orderVars, historyVars, used>>

\* A snapshot that fails or a blocking difference: an audit kills.
ReconcileBlocked(a) ==
    /\ at[a] \in {"reconciling", "judging"}
    /\ Spend("failures")
    /\ reconciling' = "nobody"
    /\ session' = "DEGRADED"
    /\ IF a = "supervisor" /\ Auditing
       THEN SafetyKill("audit") /\ GoesWith(a, "persist", "audit")
       ELSE UNCHANGED <<safety, armAge>> /\ AfterReconcile(a, FALSE)
    /\ UNCHANGED <<socket, control, journal, orderVars, during>>

\* POST /v1/session/reconcile: recover() disarms, then reconciles.
OperatorRecover ==
    /\ At("operator", "idle")
    /\ Spend("requests")
    /\ SafetyDisarm
    /\ Goes("operator", "reconcile")
    /\ UNCHANGED <<adapterVars, control, journal, orderVars, reconciling, historyVars>>

-----------------------------------------------------------------------------
(* sync_persistent_control, by the supervisor and by submissions.          *)

\* The actor reads the kill switch and goes on with it, or with its next step.
ReadsControl(a, next) ==
    IF control = NoReason THEN at' = [at EXCEPT ![a] = next] /\ UNCHANGED why
    ELSE /\ at' = [at EXCEPT ![a] = "sync"]
         /\ why' = [why EXCEPT ![a] = control]

\* What was read is applied; orders are cancelled on the first observation only.
SyncKill(a) ==
    /\ At(a, "sync")
    /\ SafetyKill(why[a])
    /\ Goes(a, IF safety.killed # why[a] \/ session # "KILLED" THEN "mark" ELSE "known")
    /\ UNCHANGED <<adapterVars, control, journal, orderVars, reconciling, during, used>>

SyncKnown(a) ==
    /\ At(a, "known")
    /\ session' = "KILLED"
    /\ AfterCancel(a, FALSE)
    /\ UNCHANGED <<socket, safety, control, journal, orderVars, reconciling, historyVars, used>>

-----------------------------------------------------------------------------
(* SessionSupervisorSDK.check_once, again and again.                       *)

\* Faulty variant: a check looks at the session before it reads the kill switch.
SuperviseSyncUnlessKilled ==
    /\ At("supervisor", "idle")
    /\ IF session = "KILLED" THEN UNCHANGED <<at, why>> ELSE ReadsControl("supervisor", "look")
    /\ UNCHANGED <<adapterVars, safety, control, journal, orderVars, sending, lock, reconciling,
                   historyVars, used>>

SuperviseSync ==
    /\ At("supervisor", "idle")
    /\ ReadsControl("supervisor", "look")
    /\ UNCHANGED <<adapterVars, safety, control, journal, orderVars, sending, lock, reconciling,
                   historyVars, used>>

\* Faulty variant: a degraded session is left to the operator.
SuperviseRecoverUnlessDegraded ==
    /\ At("supervisor", "look")
    /\ session \in {"RECOVERING", "RECONCILING", "DEGRADED"}
    /\ IF session = "DEGRADED"
       THEN Goes("supervisor", "idle") /\ UNCHANGED safety
       ELSE Goes("supervisor", "reconcile") /\ SafetyDisarm
    /\ UNCHANGED <<adapterVars, control, journal, orderVars, reconciling, historyVars, used>>

\* Disarm, then recover().
SuperviseRecover ==
    /\ At("supervisor", "look")
    /\ session \in {"RECOVERING", "RECONCILING", "DEGRADED"}
    /\ SafetyDisarm
    /\ Goes("supervisor", "reconcile")
    /\ UNCHANGED <<adapterVars, control, journal, orderVars, reconciling, historyVars, used>>

\* A session that is down is connected first; the attempt may fail.
SuperviseConnect ==
    /\ At("supervisor", "look")
    /\ session = "DISCONNECTED"
    /\ SafetyDisarm
    /\ \/ Connects /\ Goes("supervisor", "reconcile") /\ UNCHANGED used
       \/ Spend("failures") /\ Goes("supervisor", "failed") /\ UNCHANGED adapterVars
    /\ UNCHANGED <<control, journal, orderVars, reconciling, historyVars>>

\* The periodic audit of a READY session takes _submit_lock and reads the kill switch again.
SuperviseAudit ==
    /\ At("supervisor", "look")
    /\ session = "READY"
    /\ lock = "nobody"
    /\ Spend("audits")
    /\ lock' = "supervisor"
    /\ ReadsControl("supervisor", "reconcile")
    /\ UNCHANGED <<adapterVars, safety, control, journal, orderVars, sending, reconciling,
                   historyVars>>

\* The heartbeat of a READY or KILLED session connects it when the socket is gone.
SuperviseHeartbeat ==
    /\ \/ At("supervisor", "heartbeat")
       \/ At("supervisor", "look") /\ session \in {"READY", "KILLED"}
    /\ Connects \/ (socket /\ UNCHANGED adapterVars)
    /\ Goes("supervisor", "idle")
    /\ UNCHANGED <<safety, control, journal, orderVars, reconciling, historyVars, used>>

\* A check that raised: disarm, and unless the session is KILLED mark it DEGRADED.
SuperviseFailed ==
    /\ At("supervisor", "failed")
    /\ SafetyDisarm
    /\ Goes("supervisor", IF session = "KILLED" THEN "idle" ELSE "demote")
    /\ UNCHANGED <<adapterVars, control, journal, orderVars, reconciling, historyVars, used>>

SuperviseDemote ==
    /\ At("supervisor", "demote")
    /\ session' = "DEGRADED"
    /\ Goes("supervisor", "idle")
    /\ UNCHANGED <<socket, safety, control, journal, orderVars, reconciling, historyVars, used>>

-----------------------------------------------------------------------------
(* submit(), for an order that opens risk and for the flatten.             *)

SubmitGate(o) ==
    /\ At("submit", "idle")
    /\ lock = "nobody"
    /\ o \notin sent
    /\ session = "READY"
    /\ lock' = "submit"
    /\ sending' = o
    /\ ReadsControl("submit", "check")
    /\ UNCHANGED <<adapterVars, safety, control, journal, orderVars, reconciling, historyVars, used>>

FlattenSubmit ==
    /\ At("flatten", "submit")
    /\ lock = "nobody"
    /\ IF session \in {"READY", "KILLED"}
       THEN lock' = "flatten" /\ sending' = FlatOrder /\ ReadsControl("flatten", "check")
       ELSE Leaves("flatten")
    /\ UNCHANGED <<adapterVars, safety, control, journal, orderVars, reconciling, historyVars, used>>

\* Faulty variant: a refused submission keeps the lock.
SubmitCheckHolding(a) ==
    /\ At(a, "check")
    /\ Goes(a, IF CanTransmit(a = "flatten") THEN "place" ELSE "idle")
    /\ UNCHANGED <<adapterVars, safety, control, journal, orderVars, reconciling, historyVars, used>>

\* assert_can_transmit in submit(), around quotes, account snapshot and risk.
SubmitCheck(a) ==
    /\ At(a, "check")
    /\ IF CanTransmit(a = "flatten") THEN Goes(a, "place") ELSE Leaves(a)
    /\ UNCHANGED <<adapterVars, safety, control, journal, orderVars, reconciling, historyVars, used>>

\* _assert_order_safe lets the order through.
Routed(a) ==
    /\ CanTransmit(a = "flatten")
    /\ session = "READY" \/ (session = "KILLED" /\ a = "flatten")

SubmitPlace(a) ==
    /\ At(a, "place")
    /\ IF Routed(a)
       THEN working' = working \cup {sending} /\ sent' = sent \cup {sending}
       ELSE UNCHANGED <<working, sent>>
    /\ Leaves(a)
    /\ UNCHANGED <<adapterVars, safety, control, journal, asked, reconciling, historyVars, used>>

\* The broker fills or cancels an order.
OrderEnds(o) ==
    /\ o \in working
    /\ working' = working \ {o}
    /\ UNCHANGED <<adapterVars, safety, control, journal, asked, sent, actorVars, reconciling,
                   historyVars, used>>

-----------------------------------------------------------------------------
(* flatten_account.                                                        *)

FlattenBegin ==
    /\ At("flatten", "idle")
    /\ Spend("requests")
    /\ Goes("flatten", IF session = "READY" THEN "arm liquidation" ELSE "reconcile")
    /\ UNCHANGED <<adapterVars, safety, control, journal, orderVars, reconciling, historyVars>>

FlattenArm ==
    /\ At("flatten", "arm liquidation")
    /\ safety' = [safety EXCEPT !.liquidation = TRUE]
    /\ Goes("flatten", "submit")
    /\ UNCHANGED <<adapterVars, control, journal, orderVars, reconciling, historyVars, used>>

FlattenEnd ==
    /\ At("flatten", "disarm liquidation")
    /\ safety' = [safety EXCEPT !.liquidation = FALSE]
    /\ Goes("flatten", "idle")
    /\ UNCHANGED <<adapterVars, control, journal, orderVars, reconciling, historyVars, used>>

-----------------------------------------------------------------------------
Reconcilers == {"operator", "supervisor", "flatten"}

ReconcileSteps(a) ==
    \/ ReconcileBegin(a) \/ ReconcileRead(a) \/ ReconcileConnects(a)
    \/ ReconcileAccepted(a) \/ ReconcileBlocked(a)

KillSteps(a) == KillMark(a) \/ CancelAllOrders(a) \/ CancelAllConnects(a)

SyncSteps(a) == SyncKill(a) \/ SyncKnown(a) \/ KillSteps(a)

KillerSteps == KillPersist("killer") \/ KillSteps("killer")

ClearerSteps == ClearPersist \/ ClearDegrade

ReaderSteps ==
    \/ \E event \in ConnectionEvents : ConnectionDispatch(event)
    \/ IntegrityDegrade \/ IntegrityPersist

SupervisorSteps ==
    \/ SuperviseSync \/ SuperviseRecover \/ SuperviseConnect \/ SuperviseAudit
    \/ SuperviseHeartbeat \/ SuperviseFailed \/ SuperviseDemote
    \/ SyncSteps("supervisor") \/ ReconcileSteps("supervisor") \/ KillPersist("supervisor")

SubmitSteps(a) == SyncSteps(a) \/ SubmitCheck(a) \/ SubmitPlace(a)

FlattenSteps ==
    ReconcileSteps("flatten") \/ FlattenArm \/ FlattenSubmit \/ SubmitSteps("flatten") \/ FlattenEnd

Requests ==
    \/ KillBegin \/ ExternalKill \/ ClearBegin \/ ArmRequest \/ OperatorRecover \/ FlattenBegin
    \/ \E o \in Orders : SubmitGate(o)

Next ==
    \/ Requests
    \/ KillerSteps \/ ClearerSteps \/ Arm \/ ArmExpires
    \/ IntegrityKill \/ \E event \in ConnectionEvents : ConnectionEvent(event)
    \/ ReaderSteps
    \/ ReconcileSteps("operator") \/ SupervisorSteps \/ SubmitSteps("submit") \/ FlattenSteps
    \/ \E o \in Orders \cup {FlatOrder} : OrderEnds(o)

Spec == Init /\ [][Next]_vars

\* Threads and request handlers that have begun go on: every wait of theirs has a timeout.
Fairness ==
    /\ WF_vars(KillerSteps)
    /\ WF_vars(ClearerSteps)
    /\ WF_vars(ReaderSteps)
    /\ WF_vars(ReconcileSteps("operator"))
    /\ WF_vars(SupervisorSteps)
    /\ WF_vars(SubmitSteps("submit"))
    /\ WF_vars(FlattenSteps)

FairSpec == Spec /\ Fairness

-----------------------------------------------------------------------------
(* Properties.                                                             *)

\* The shared state has its types, and the locks are held by those who say so.
TypeOK ==
    /\ session \in SessionState
    /\ safety.killed \in Reasons \cup {NoReason}
    /\ control \in Reasons \cup {NoReason}
    /\ working \subseteq sent
    /\ sent \subseteq Orders \cup {FlatOrder}
    /\ \A a \in Submitters : lock = a <=> at[a] \in {"sync", "mark", "known", "cancel all",
                                                     "check", "place"}
    /\ \A a \in Reconcilers : reconciling = a <=> at[a] \in {"reconciling", "judging"}

\* An arming never outlives a kill, and none is given under one, although readiness is
\* checked before and outside the controller.
ArmedSinceLastKill == safety.armed => safety.killed = NoReason /\ "kill" \notin armAge

\* A kill switch that stays set in the database stops this process for good, however the
\* session state is overwritten and whatever local kills and clears interleave with it.
KillReachesProcess ==
    <>[](control # NoReason) => <>[](safety.killed # NoReason)

\* After connection losses and failed reconciliations the session becomes READY again,
\* without an operator, unless it is killed.
SessionRecovers ==
    <>[](control = NoReason /\ safety.killed = NoReason /\ session # "KILLED")
        => []<>(session = "READY")

\* The runbook: "after a kill only the reduce-only emergency flatten confirmed by
\* LIQUIDATE:<account> is allowed": a flatten is not refused because of the kill.
FlattenPassesKill ==
    [][At("flatten", "check") /\ at'["flatten"] = "disarm liquidation"
         => safety.killed = NoReason]_vars

\* The runbook: "an ordinary kill persists its reason and cancels the orders this client owns".
KillCancelsOwnedOrders ==
    <>[](control # NoReason) =>
        \A o \in Orders : (o \in working) ~> (o \notin working \/ o \in asked)

\* The runbook: clearing the kill switch "does not restore READY; reconciliation must be run
\* again", and after a disconnection likewise: what makes a session READY has begun after both.
ReadyIsReconciled ==
    [][session # "READY" /\ session' = "READY" => during = {}]_vars

\* The boundary document: after a disconnection the account must be armed again.
LossEndsArming ==
    [][\A o \in Orders : o \in sent' \ sent => "loss" \notin armAge]_vars
=============================================================================
