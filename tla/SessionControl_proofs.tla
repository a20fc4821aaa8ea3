----------------------- MODULE SessionControl_proofs -----------------------
(***************************************************************************)
(* Proofs about the session control, for every set of orders, journal and  *)
(* bound: that an arming never outlives a kill, and that the actors keep   *)
(* to the locks.                                                           *)
(***************************************************************************)
EXTENDS SessionControl, TLAPS

Cancellers == {"killer", "supervisor", "submit", "flatten"}

Synchronizers == {"supervisor", "submit", "flatten"}

\* The steps of Next, one disjunct per action.
LEMMA NextCases ==
    ASSUME Next
    PROVE  \/ KillBegin \/ ExternalKill \/ ClearBegin \/ ClearPersist \/ ClearDegrade
           \/ \E a \in {"killer", "supervisor"} : KillPersist(a)
           \/ \E a \in Cancellers : KillMark(a) \/ CancelAllOrders(a) \/ CancelAllConnects(a)
           \/ \E a \in Synchronizers : SyncKill(a) \/ SyncKnown(a)
           \/ ArmRequest \/ Arm \/ ArmExpires
           \/ \E event \in ConnectionEvents : ConnectionEvent(event) \/ ConnectionDispatch(event)
           \/ IntegrityKill \/ IntegrityDegrade \/ IntegrityPersist
           \/ \E a \in Reconcilers :
                \/ ReconcileBegin(a) \/ ReconcileRead(a) \/ ReconcileConnects(a)
                \/ ReconcileAccepted(a) \/ ReconcileBlocked(a)
           \/ OperatorRecover
           \/ SuperviseSync \/ SuperviseRecover \/ SuperviseConnect \/ SuperviseAudit
           \/ SuperviseHeartbeat \/ SuperviseFailed \/ SuperviseDemote
           \/ \E o \in Orders : SubmitGate(o)
           \/ FlattenSubmit
           \/ \E a \in Submitters : SubmitCheck(a) \/ SubmitPlace(a)
           \/ \E o \in Orders \cup {FlatOrder} : OrderEnds(o)
           \/ FlattenBegin \/ FlattenArm \/ FlattenEnd
BY DEF Next, Requests, KillerSteps, ClearerSteps, ReaderSteps, SupervisorSteps, SubmitSteps,
       FlattenSteps, ReconcileSteps, SyncSteps, KillSteps, Cancellers, Synchronizers, Reconcilers,
       Submitters

-----------------------------------------------------------------------------
(* The safety controller.                                                  *)

\* The controller and the kill reasons in flight have their types, and an arming is younger
\* than the last kill.
SafetyInv ==
    /\ safety \in [killed : Reasons \cup {NoReason}, armed : BOOLEAN, liquidation : BOOLEAN]
    /\ control \in Reasons \cup {NoReason}
    /\ DOMAIN why = Actors
    /\ \A a \in Actors : why[a] \in Reasons \cup {NoReason}
    /\ ArmedSinceLastKill

\* Killing with any reason disarms.
LEMMA KillingDisarms ==
    ASSUME SafetyInv, NEW reason \in Reasons \cup {NoReason}, SafetyKill(reason),
           control' = control, why' = why
    PROVE  SafetyInv'
BY DEF SafetyInv, SafetyKill, ArmedSinceLastKill

\* Taking up a reason, read from the database or set by the actor itself.
LEMMA ReasonTaken ==
    ASSUME SafetyInv, NEW a \in Actors, NEW reason \in Reasons \cup {NoReason},
           why' = [why EXCEPT ![a] = reason]
    PROVE  DOMAIN why' = Actors /\ \A b \in Actors : why'[b] \in Reasons \cup {NoReason}
BY DEF SafetyInv

\* A step that leaves the controller alone keeps the invariant if it keeps the arming's age.
LEMMA ControllerAlone ==
    ASSUME SafetyInv, UNCHANGED <<safety, control, why>>, armAge' \in {armAge, armAge \cup {"loss"},
                                                                     armAge \cup {"clear"}}
    PROVE  SafetyInv'
BY DEF SafetyInv, ArmedSinceLastKill

\* A process that has just started is neither killed nor armed.
THEOREM SafetyInitially == Init => SafetyInv
BY SessionAssumption DEF Init, SafetyInv, ArmedSinceLastKill, Reasons

\* Kills, wherever they come from.
LEMMA KillsKeepSafety ==
    ASSUME SafetyInv,
           \/ KillBegin \/ IntegrityKill
           \/ \E a \in Synchronizers : SyncKill(a)
           \/ \E a \in Reconcilers : ReconcileBlocked(a)
    PROVE  SafetyInv'
<1>1. "operator" \in Reasons /\ "integrity" \in Reasons /\ "audit" \in Reasons
  BY DEF Reasons
<1>2. /\ "killer" \in Actors /\ "reader" \in Actors /\ "supervisor" \in Actors
      /\ Synchronizers \subseteq Actors
  BY DEF Actors, Synchronizers
<1>3. CASE KillBegin
  <2>1. why' = [why EXCEPT !["killer"] = "operator"]
    BY <1>3 DEF KillBegin, GoesWith
  <2>2. SafetyKill("operator") /\ control' = control
    BY <1>3 DEF KillBegin
  <2> QED BY <2>1, <2>2, <1>1, <1>2, ReasonTaken DEF SafetyInv, SafetyKill, ArmedSinceLastKill
<1>4. CASE IntegrityKill
  <2>1. why' = [why EXCEPT !["reader"] = "integrity"]
    BY <1>4 DEF IntegrityKill, GoesWith
  <2>2. SafetyKill("integrity") /\ control' = control
    BY <1>4 DEF IntegrityKill
  <2> QED BY <2>1, <2>2, <1>1, <1>2, ReasonTaken DEF SafetyInv, SafetyKill, ArmedSinceLastKill
<1>5. CASE \E a \in Synchronizers : SyncKill(a)
  <2>1. PICK a \in Synchronizers : SyncKill(a)
    BY <1>5
  <2>2. why[a] \in Reasons \cup {NoReason}
    BY <1>2 DEF SafetyInv
  <2>3. SafetyKill(why[a]) /\ control' = control /\ why' = why
    BY <2>1 DEF SyncKill, Goes
  <2> QED BY <2>2, <2>3, KillingDisarms
<1>6. CASE \E a \in Reconcilers : ReconcileBlocked(a)
  <2>1. PICK a \in Reconcilers : ReconcileBlocked(a)
    BY <1>6
  <2>2. CASE a = "supervisor" /\ Auditing
    <3>1. why' = [why EXCEPT !["supervisor"] = "audit"]
      BY <2>1, <2>2 DEF ReconcileBlocked, GoesWith
    <3>2. SafetyKill("audit") /\ control' = control
      BY <2>1, <2>2 DEF ReconcileBlocked
    <3> QED BY <3>1, <3>2, <1>1, <1>2, ReasonTaken DEF SafetyInv, SafetyKill, ArmedSinceLastKill
  <2>3. CASE ~(a = "supervisor" /\ Auditing)
    <3>1. UNCHANGED <<safety, armAge, control>>
      BY <2>1, <2>3 DEF ReconcileBlocked
    <3>2. why' = why
      BY <2>1, <2>3 DEF ReconcileBlocked, AfterReconcile, Goes, SupervisorEnds, Reconcilers
    <3> QED BY <3>1, <3>2, ControllerAlone
  <2> QED BY <2>2, <2>3
<1> QED BY <1>3, <1>4, <1>5, <1>6

\* Arming checks the kill reason itself; disarming, clearing and expiry only take away.
LEMMA ArmingKeepsSafety ==
    ASSUME SafetyInv,
           \/ ClearBegin \/ Arm \/ ArmExpires \/ OperatorRecover \/ FlattenArm \/ FlattenEnd
           \/ SuperviseRecover \/ SuperviseConnect \/ SuperviseFailed
           \/ \E event \in ConnectionEvents : ConnectionDispatch(event)
    PROVE  SafetyInv'
<1>1. CASE ClearBegin
  BY <1>1 DEF SafetyInv, ArmedSinceLastKill, ClearBegin, Goes, historyVars
<1>2. CASE Arm
  BY <1>2 DEF SafetyInv, ArmedSinceLastKill, Arm, Goes
<1>3. CASE ArmExpires
  BY <1>3 DEF SafetyInv, ArmedSinceLastKill, ArmExpires, actorVars, historyVars
<1>4. CASE FlattenArm \/ FlattenEnd
  BY <1>4 DEF SafetyInv, ArmedSinceLastKill, FlattenArm, FlattenEnd, Goes, historyVars
<1>5. CASE OperatorRecover \/ SuperviseRecover \/ SuperviseConnect \/ SuperviseFailed
  <2>1. SafetyDisarm /\ UNCHANGED <<control, why, armAge>>
    BY <1>5 DEF OperatorRecover, SuperviseRecover, SuperviseConnect, SuperviseFailed, Goes,
                historyVars
  <2> QED BY <2>1 DEF SafetyInv, ArmedSinceLastKill, SafetyDisarm
<1>6. CASE \E event \in ConnectionEvents : ConnectionDispatch(event)
  <2>1. (SafetyDisarm \/ safety' = safety) /\ UNCHANGED <<control, why, armAge>>
    BY <1>6 DEF ConnectionDispatch, Goes, historyVars
  <2> QED BY <2>1 DEF SafetyInv, ArmedSinceLastKill, SafetyDisarm
<1> QED BY <1>1, <1>2, <1>3, <1>4, <1>5, <1>6

\* The persistent kill switch only takes reasons.
LEMMA PersistingKeepsSafety ==
    ASSUME SafetyInv,
           \/ ExternalKill \/ ClearPersist \/ IntegrityPersist
           \/ \E a \in {"killer", "supervisor"} : KillPersist(a)
    PROVE  SafetyInv'
<1>1. UNCHANGED <<safety, why, armAge>>
  BY DEF ExternalKill, ClearPersist, IntegrityPersist, KillPersist, Goes, actorVars, historyVars
<1>2. control' \in Reasons \cup {NoReason}
  <2>1. "external" \in Reasons
    BY DEF Reasons
  <2>2. "reader" \in Actors /\ {"killer", "supervisor"} \subseteq Actors
    BY DEF Actors
  <2> QED BY <2>1, <2>2 DEF SafetyInv, ExternalKill, ClearPersist, IntegrityPersist, KillPersist
<1> QED BY <1>1, <1>2 DEF SafetyInv, ArmedSinceLastKill

\* Reading the kill switch takes up what is in it.
LEMMA ReadingKeepsSafety ==
    ASSUME SafetyInv,
           \/ SuperviseSync \/ SuperviseAudit \/ FlattenSubmit
           \/ \E o \in Orders : SubmitGate(o)
    PROVE  SafetyInv'
<1>1. UNCHANGED <<safety, control, armAge>>
  BY DEF SuperviseSync, SuperviseAudit, FlattenSubmit, SubmitGate, historyVars
<1>2. \E a \in Actors : why' = why \/ why' = [why EXCEPT ![a] = control]
  BY DEF SuperviseSync, SuperviseAudit, FlattenSubmit, SubmitGate, ReadsControl, Leaves, Actors
<1>3. control \in Reasons \cup {NoReason}
  BY DEF SafetyInv
<1>4. DOMAIN why' = Actors /\ \A b \in Actors : why'[b] \in Reasons \cup {NoReason}
  BY <1>2, <1>3, ReasonTaken DEF SafetyInv
<1> QED BY <1>1, <1>4 DEF SafetyInv, ArmedSinceLastKill

\* The other steps leave the controller alone.
LEMMA OthersKeepSafety ==
    ASSUME SafetyInv,
           \/ ClearDegrade \/ ArmRequest \/ IntegrityDegrade \/ FlattenBegin
           \/ \E a \in Cancellers : KillMark(a) \/ CancelAllOrders(a) \/ CancelAllConnects(a)
           \/ \E a \in Synchronizers : SyncKnown(a)
           \/ \E event \in ConnectionEvents : ConnectionEvent(event)
           \/ \E a \in Reconcilers :
                \/ ReconcileBegin(a) \/ ReconcileRead(a) \/ ReconcileConnects(a)
                \/ ReconcileAccepted(a)
           \/ SuperviseHeartbeat \/ SuperviseDemote
           \/ \E a \in Submitters : SubmitCheck(a) \/ SubmitPlace(a)
           \/ \E o \in Orders \cup {FlatOrder} : OrderEnds(o)
           \/ UNCHANGED vars
    PROVE  SafetyInv'
<1>1. UNCHANGED <<safety, control>>
  BY DEF ClearDegrade, ArmRequest, IntegrityDegrade, FlattenBegin, KillMark, CancelAllOrders,
         CancelAllConnects, SyncKnown, ConnectionEvent, ReconcileBegin, ReconcileRead,
         ReconcileConnects, ReconcileAccepted, SuperviseHeartbeat, SuperviseDemote, SubmitCheck,
         SubmitPlace, OrderEnds, vars
<1>2. why' = why
  BY DEF ClearDegrade, ArmRequest, IntegrityDegrade, FlattenBegin, KillMark, CancelAllOrders,
         CancelAllConnects, SyncKnown, ConnectionEvent, ReconcileBegin, ReconcileRead,
         ReconcileConnects, ReconcileAccepted, SuperviseHeartbeat, SuperviseDemote, SubmitCheck,
         SubmitPlace, OrderEnds, vars, actorVars, Goes, Leaves, AfterCancel, AfterReconcile,
         SupervisorEnds, Cancellers, Synchronizers, Reconcilers
<1>3. armAge' \in {armAge, armAge \cup {"loss"}, armAge \cup {"clear"}}
  BY DEF ClearDegrade, ArmRequest, IntegrityDegrade, FlattenBegin, KillMark, CancelAllOrders,
         CancelAllConnects, SyncKnown, ConnectionEvent, ReconcileBegin, ReconcileRead,
         ReconcileConnects, ReconcileAccepted, SuperviseHeartbeat, SuperviseDemote, SubmitCheck,
         SubmitPlace, OrderEnds, vars, historyVars, Happened
<1> QED BY <1>1, <1>2, <1>3, ControllerAlone

\* No kill, clear, reconnection, audit or flatten, in any interleaving with the two steps of
\* arm-live, leaves the process armed across a kill.
THEOREM ArmingEndsWithKill == Spec => []ArmedSinceLastKill
<1>1. SafetyInv /\ [Next]_vars => SafetyInv'
  BY NextCases, KillsKeepSafety, ArmingKeepsSafety, PersistingKeepsSafety, ReadingKeepsSafety,
     OthersKeepSafety
<1>2. SafetyInv => ArmedSinceLastKill
  BY DEF SafetyInv
<1> QED BY SafetyInitially, <1>1, <1>2, PTL DEF Spec

-----------------------------------------------------------------------------
(* The locks.                                                              *)

Submitting == {"sync", "mark", "known", "cancel all", "check", "place"}

Reconciling == {"reconciling", "judging"}

\* Each lock is held exactly by the actor whose step says so.
LockInv ==
    /\ DOMAIN at = Actors
    /\ \A a \in Submitters : lock = a <=> at[a] \in Submitting
    /\ \A a \in Reconcilers : reconciling = a <=> at[a] \in Reconciling

\* An actor moves, and the locks follow its new step.
LEMMA ActorMoves ==
    ASSUME LockInv, NEW a \in Actors, NEW step,
           at' = [at EXCEPT ![a] = step],
           a \in Submitters => (lock' = a <=> step \in Submitting),
           a \in Reconcilers => (reconciling' = a <=> step \in Reconciling),
           \A b \in Submitters \ {a} : lock' = b <=> lock = b,
           \A b \in Reconcilers \ {a} : reconciling' = b <=> reconciling = b
    PROVE  LockInv'
<1>1. DOMAIN at' = Actors /\ at'[a] = step
  BY DEF LockInv
<1>2. \A b \in Actors \ {a} : at'[b] = at[b]
  BY DEF LockInv
<1>3. Submitters \subseteq Actors /\ Reconcilers \subseteq Actors
  BY DEF Submitters, Reconcilers, Actors
<1> QED BY <1>1, <1>2, <1>3 DEF LockInv

\* An actor goes on to a step on the same side of both locks.
LEMMA ActorGoesOn ==
    ASSUME LockInv, NEW a \in Actors, NEW step,
           at' = [at EXCEPT ![a] = step], lock' = lock, reconciling' = reconciling,
           a \in Submitters => (at[a] \in Submitting <=> step \in Submitting),
           a \in Reconcilers => (at[a] \in Reconciling <=> step \in Reconciling)
    PROVE  LockInv'
BY ActorMoves DEF LockInv

\* A process that has just started holds no lock.
THEOREM LocksInitially == Init => LockInv
BY DEF Init, LockInv, Submitting, Reconciling, Submitters, Reconcilers, Actors

\* Actors that take part in neither lock.
LEMMA OutsidersKeepLocks ==
    ASSUME LockInv,
           \/ KillBegin \/ ClearBegin \/ ClearPersist \/ ClearDegrade
           \/ ArmRequest \/ Arm
           \/ \E event \in ConnectionEvents : ConnectionEvent(event) \/ ConnectionDispatch(event)
           \/ IntegrityKill \/ IntegrityDegrade \/ IntegrityPersist
           \/ KillPersist("killer") \/ KillMark("killer") \/ CancelAllOrders("killer")
    PROVE  LockInv'
<1>1. UNCHANGED <<lock, reconciling>>
  BY DEF KillBegin, ClearBegin, ClearPersist, ClearDegrade, ArmRequest, Arm, ConnectionEvent,
         ConnectionDispatch, IntegrityKill, IntegrityDegrade, IntegrityPersist, KillPersist,
         KillMark, CancelAllOrders, AfterCancel, Goes, GoesWith
<1>2. \E a \in {"killer", "clearer", "armer", "reader"} : \E step : at' = [at EXCEPT ![a] = step]
  BY DEF KillBegin, ClearBegin, ClearPersist, ClearDegrade, ArmRequest, Arm, ConnectionEvent,
         ConnectionDispatch, IntegrityKill, IntegrityDegrade, IntegrityPersist, KillPersist,
         KillMark, CancelAllOrders, AfterCancel, Goes, GoesWith
<1>3. PICK a \in {"killer", "clearer", "armer", "reader"} : \E step : at' = [at EXCEPT ![a] = step]
  BY <1>2
<1>4. a \in Actors /\ a \notin Submitters /\ a \notin Reconcilers
  BY DEF Actors, Submitters, Reconcilers
<1> QED BY <1>1, <1>3, <1>4, ActorGoesOn

\* Steps that move no actor.
LEMMA StillKeepsLocks ==
    ASSUME LockInv,
           \/ ExternalKill \/ ArmExpires \/ UNCHANGED vars
           \/ \E a \in Cancellers : CancelAllConnects(a)
           \/ \E a \in Reconcilers : ReconcileConnects(a)
           \/ \E o \in Orders \cup {FlatOrder} : OrderEnds(o)
    PROVE  LockInv'
<1>1. UNCHANGED <<at, lock, reconciling>>
  BY DEF ExternalKill, ArmExpires, vars, actorVars, CancelAllConnects, ReconcileConnects, OrderEnds
<1> QED BY <1>1 DEF LockInv

\* The supervisor between its reads, and what operators and flattens do outside the locks.
LEMMA ReconcilersMove ==
    ASSUME LockInv,
           \/ SuperviseSync \/ SuperviseRecover \/ SuperviseConnect \/ SuperviseHeartbeat
           \/ SuperviseFailed \/ SuperviseDemote \/ KillPersist("supervisor")
           \/ KillMark("supervisor") \/ SyncKill("supervisor")
           \/ OperatorRecover \/ FlattenBegin \/ FlattenArm \/ FlattenEnd
           \/ \E a \in Reconcilers : ReconcileRead(a)
    PROVE  LockInv'
<1>1. UNCHANGED <<lock, reconciling>>
  BY DEF SuperviseSync, SuperviseRecover, SuperviseConnect, SuperviseHeartbeat, SuperviseFailed,
         SuperviseDemote, KillPersist, KillMark, SyncKill, OperatorRecover, FlattenBegin,
         FlattenArm, FlattenEnd, ReconcileRead, Goes
<1>2. \E a \in Reconcilers : \E step :
        /\ at' = [at EXCEPT ![a] = step]
        /\ a \in Submitters => (at[a] \in Submitting <=> step \in Submitting)
        /\ at[a] \in Reconciling <=> step \in Reconciling
  <2>1. "supervisor" \in Reconcilers /\ "supervisor" \notin Submitters
    BY DEF Reconcilers, Submitters
  <2>2. CASE \/ SuperviseSync \/ SuperviseRecover \/ SuperviseConnect \/ SuperviseHeartbeat
             \/ SuperviseFailed \/ SuperviseDemote
    <3>1. PICK step \in {"look", "sync", "reconcile", "failed", "demote", "idle"} :
            at' = [at EXCEPT !["supervisor"] = step]
      BY <2>2 DEF SuperviseSync, SuperviseRecover, SuperviseConnect, SuperviseHeartbeat,
                  SuperviseFailed, SuperviseDemote, ReadsControl, Goes
    <3>2. at["supervisor"] \in {"idle", "look", "heartbeat", "failed", "demote"}
      BY <2>2 DEF SuperviseSync, SuperviseRecover, SuperviseConnect, SuperviseHeartbeat,
                  SuperviseFailed, SuperviseDemote, At
    <3>3. step \notin Reconciling /\ at["supervisor"] \notin Reconciling
      BY <3>2 DEF Reconciling
    <3> QED BY <2>1, <3>1, <3>3
  <2>3. CASE KillPersist("supervisor") \/ KillMark("supervisor") \/ SyncKill("supervisor")
    <3>1. PICK step \in {"mark", "cancel all", "known"} :
            at' = [at EXCEPT !["supervisor"] = step]
      BY <2>3 DEF KillPersist, KillMark, SyncKill, Goes
    <3>2. at["supervisor"] \in {"persist", "mark", "sync"}
      BY <2>3 DEF KillPersist, KillMark, SyncKill, At
    <3>3. step \notin Reconciling /\ at["supervisor"] \notin Reconciling
      BY <3>2 DEF Reconciling
    <3> QED BY <2>1, <3>1, <3>3
  <2>4. CASE OperatorRecover
    <3>1. at["operator"] = "idle" /\ at' = [at EXCEPT !["operator"] = "reconcile"]
      BY <2>4 DEF OperatorRecover, Goes, At
    <3>2. "operator" \in Reconcilers /\ "operator" \notin Submitters
      BY DEF Reconcilers, Submitters
    <3>3. "idle" \notin Reconciling /\ "reconcile" \notin Reconciling
      BY DEF Reconciling
    <3> QED BY <3>1, <3>2, <3>3
  <2>5. CASE FlattenBegin \/ FlattenArm \/ FlattenEnd
    <3>1. PICK step \in {"arm liquidation", "reconcile", "submit", "idle"} :
            at' = [at EXCEPT !["flatten"] = step]
      BY <2>5 DEF FlattenBegin, FlattenArm, FlattenEnd, Goes
    <3>2. at["flatten"] \in {"idle", "arm liquidation", "disarm liquidation"}
      BY <2>5 DEF FlattenBegin, FlattenArm, FlattenEnd, At
    <3>3. step \notin Submitting /\ step \notin Reconciling
      BY DEF Submitting, Reconciling
    <3>4. at["flatten"] \notin Submitting /\ at["flatten"] \notin Reconciling
      BY <3>2 DEF Submitting, Reconciling
    <3>5. "flatten" \in Reconcilers
      BY DEF Reconcilers
    <3> QED BY <3>1, <3>3, <3>4, <3>5
  <2>6. CASE \E a \in Reconcilers : ReconcileRead(a)
    BY <2>6 DEF ReconcileRead, Goes, At, Submitting, Reconciling
  <2> QED BY <2>2, <2>3, <2>4, <2>5, <2>6
<1>3. PICK a \in Reconcilers : \E step :
        /\ at' = [at EXCEPT ![a] = step]
        /\ a \in Submitters => (at[a] \in Submitting <=> step \in Submitting)
        /\ at[a] \in Reconciling <=> step \in Reconciling
  BY <1>2
<1>4. a \in Actors
  BY DEF Reconcilers, Actors
<1> QED BY <1>1, <1>3, <1>4, ActorGoesOn

\* A step of the supervisor that ends an audit, or begins one.
LEMMA SupervisorKeepsLocks ==
    ASSUME LockInv, SuperviseAudit \/ SyncKnown("supervisor") \/ CancelAllOrders("supervisor")
    PROVE  LockInv'
<1>1. reconciling' = reconciling /\ \A a \in Submitters : lock' = a <=> lock = a
  BY DEF SuperviseAudit, SyncKnown, CancelAllOrders, AfterCancel, SupervisorEnds, Auditing,
         Submitters
<1>2. \E step : at' = [at EXCEPT !["supervisor"] = step] /\ step \notin Reconciling
  BY DEF SuperviseAudit, ReadsControl, SyncKnown, CancelAllOrders, AfterCancel, SupervisorEnds,
         Reconciling
<1>3. PICK step : at' = [at EXCEPT !["supervisor"] = step] /\ step \notin Reconciling
  BY <1>2
<1>4. at["supervisor"] \notin Reconciling
  BY DEF SuperviseAudit, SyncKnown, CancelAllOrders, At, Reconciling
<1>5. "supervisor" \in Actors /\ "supervisor" \in Reconcilers /\ "supervisor" \notin Submitters
  BY DEF Actors, Reconcilers, Submitters
<1>6. reconciling # "supervisor"
  BY <1>4, <1>5 DEF LockInv
<1> QED BY <1>1, <1>3, <1>5, <1>6, ActorMoves

\* A reconciliation takes its lock and gives it back.
LEMMA ReconciliationKeepsLocks ==
    ASSUME LockInv, NEW a \in Reconcilers,
           ReconcileBegin(a) \/ ReconcileAccepted(a) \/ ReconcileBlocked(a)
    PROVE  LockInv'
<1>1. a \in Actors /\ a # "nobody" /\ (a \in Submitters <=> a = "flatten")
  BY DEF Actors, Reconcilers, Submitters
<1>2. at[a] \notin Submitting
  BY DEF ReconcileBegin, ReconcileAccepted, ReconcileBlocked, At, Submitting
<1>3. a \in Submitters => lock # a
  BY <1>2 DEF LockInv
<1>4. \A b \in Submitters : lock' = b <=> lock = b
  BY DEF ReconcileBegin, ReconcileAccepted, ReconcileBlocked, AfterReconcile, Goes, GoesWith,
         SupervisorEnds, Auditing, Submitters, Reconcilers
<1>5. CASE ReconcileBegin(a)
  <2>1. at' = [at EXCEPT ![a] = "reconciling"] /\ reconciling' = a /\ reconciling = "nobody"
    BY <1>5 DEF ReconcileBegin, Goes
  <2>2. "reconciling" \in Reconciling /\ "reconciling" \notin Submitting
    BY DEF Reconciling, Submitting
  <2>3. \A b \in Reconcilers \ {a} : reconciling' = b <=> reconciling = b
    BY <2>1 DEF Reconcilers
  <2> QED BY <1>1, <1>3, <1>4, <2>1, <2>2, <2>3, ActorMoves
<1>6. CASE ReconcileAccepted(a) \/ ReconcileBlocked(a)
  <2>1. \E step \in {"arm liquidation", "idle", "failed", "persist"} :
          at' = [at EXCEPT ![a] = step]
    BY <1>6 DEF ReconcileAccepted, ReconcileBlocked, AfterReconcile, Goes, GoesWith,
                SupervisorEnds, Reconcilers
  <2>2. PICK step \in {"arm liquidation", "idle", "failed", "persist"} :
          at' = [at EXCEPT ![a] = step]
    BY <2>1
  <2>3. step \notin Reconciling /\ step \notin Submitting
    BY DEF Reconciling, Submitting
  <2>4. reconciling' = "nobody" /\ at[a] \in Reconciling
    BY <1>6 DEF ReconcileAccepted, ReconcileBlocked, At, Reconciling
  <2>5. reconciling = a
    BY <2>4 DEF LockInv
  <2>6. \A b \in Reconcilers \ {a} : reconciling' = b <=> reconciling = b
    BY <2>4, <2>5 DEF Reconcilers
  <2> QED BY <1>1, <1>3, <1>4, <2>2, <2>3, <2>4, <2>6, ActorMoves
<1> QED BY <1>5, <1>6

\* A submission that has the lock goes on with it, or leaves and gives it back.
LEMMA SubmissionKeepsLocks ==
    ASSUME LockInv, NEW a \in Submitters,
           \/ KillMark(a) \/ CancelAllOrders(a) \/ SyncKill(a) \/ SyncKnown(a)
           \/ SubmitCheck(a) \/ SubmitPlace(a)
    PROVE  LockInv'
<1>1. a \in Actors /\ a \notin {"nobody", "killer", "supervisor"}
  BY DEF Actors, Submitters
<1>2. at[a] \in Submitting /\ at[a] \notin Reconciling
  BY DEF KillMark, CancelAllOrders, SyncKill, SyncKnown, SubmitCheck, SubmitPlace, At,
         Submitting, Reconciling
<1>3. lock = a /\ (a \in Reconcilers => reconciling # a) /\ reconciling' = reconciling
  BY <1>2 DEF LockInv, KillMark, CancelAllOrders, SyncKill, SyncKnown, SubmitCheck, SubmitPlace
<1>4. \/ \E step \in Submitting \ Reconciling : Goes(a, step)
      \/ Leaves(a)
  BY <1>1 DEF KillMark, CancelAllOrders, SyncKill, SyncKnown, SubmitCheck, SubmitPlace,
              AfterCancel, Submitting, Reconciling, Submitters
<1>5. CASE \E step \in Submitting \ Reconciling : Goes(a, step)
  BY <1>1, <1>2, <1>3, <1>5, ActorGoesOn DEF Goes
<1>6. CASE Leaves(a)
  <2>1. \E step \in {"disarm liquidation", "idle"} : at' = [at EXCEPT ![a] = step]
    BY <1>6 DEF Leaves
  <2>2. PICK step \in {"disarm liquidation", "idle"} : at' = [at EXCEPT ![a] = step]
    BY <2>1
  <2>3. step \notin Submitting /\ step \notin Reconciling
    BY DEF Submitting, Reconciling
  <2>4. lock' = "nobody"
    BY <1>6 DEF Leaves
  <2>5. \A b \in Submitters \ {a} : lock' = b <=> lock = b
    BY <1>3, <2>4 DEF Submitters
  <2> QED BY <1>1, <1>3, <2>2, <2>3, <2>4, <2>5, ActorMoves
<1> QED BY <1>4, <1>5, <1>6

\* A submission enters by taking the lock.
LEMMA EntryKeepsLocks ==
    ASSUME LockInv, FlattenSubmit \/ \E o \in Orders : SubmitGate(o)
    PROVE  LockInv'
<1>1. PICK a \in Submitters :
        /\ lock = "nobody" /\ at[a] \notin Submitting /\ at[a] \notin Reconciling
        /\ reconciling' = reconciling
        /\ \/ lock' = a /\ \E step \in {"sync", "check"} : at' = [at EXCEPT ![a] = step]
           \/ lock' = "nobody" /\ at' = [at EXCEPT ![a] = "disarm liquidation"]
  <2>1. CASE FlattenSubmit
    BY <2>1 DEF FlattenSubmit, ReadsControl, Leaves, At, Submitters, Submitting, Reconciling
  <2>2. CASE \E o \in Orders : SubmitGate(o)
    BY <2>2 DEF SubmitGate, ReadsControl, At, Submitters, Submitting, Reconciling
  <2> QED BY <2>1, <2>2
<1>2. a \in Actors /\ a # "nobody"
  BY DEF Actors, Submitters
<1>3. a \in Reconcilers => reconciling # a
  BY <1>1 DEF LockInv
<1>4. {"sync", "check"} \subseteq Submitting \ Reconciling
  BY DEF Submitting, Reconciling
<1>5. "disarm liquidation" \notin Submitting \cup Reconciling
  BY DEF Submitting, Reconciling
<1>6. \A b \in Submitters \ {a} : lock' = b <=> lock = b
  BY <1>1 DEF Submitters
<1>7. CASE lock' = a /\ \E step \in {"sync", "check"} : at' = [at EXCEPT ![a] = step]
  <2>1. PICK step \in {"sync", "check"} : at' = [at EXCEPT ![a] = step]
    BY <1>7
  <2>2. step \in Submitting /\ step \notin Reconciling
    BY <1>4
  <2> QED BY <1>1, <1>2, <1>3, <1>6, <1>7, <2>1, <2>2, ActorMoves
<1>8. CASE lock' = "nobody" /\ at' = [at EXCEPT ![a] = "disarm liquidation"]
  BY <1>1, <1>2, <1>3, <1>5, <1>6, <1>8, ActorMoves
<1> QED BY <1>1, <1>7, <1>8

\* Every step keeps to the locks.
LEMMA LocksKept == LockInv /\ [Next]_vars => LockInv'
<1> SUFFICES ASSUME LockInv, Next \/ UNCHANGED vars PROVE LockInv'
  OBVIOUS
<1>1. CASE UNCHANGED vars
  BY <1>1, StillKeepsLocks
<1>2. CASE Next
  <2>1. Cancellers = {"killer", "supervisor"} \cup Submitters
        /\ Synchronizers = {"supervisor"} \cup Submitters
    BY DEF Cancellers, Synchronizers, Submitters
  <2> QED BY <1>2, <2>1, NextCases, StillKeepsLocks, OutsidersKeepLocks, ReconcilersMove,
             SupervisorKeepsLocks, ReconciliationKeepsLocks, SubmissionKeepsLocks, EntryKeepsLocks
<1> QED BY <1>1, <1>2

-----------------------------------------------------------------------------
(* The types.                                                              *)

\* What is open was sent, and what a submission sends is an order.
OrderInv ==
    /\ working \subseteq sent
    /\ sent \subseteq Orders \cup {FlatOrder}
    /\ lock \in Submitters => sending \in Orders \cup {FlatOrder}

SessionInv == SafetyInv /\ LockInv /\ OrderInv /\ session \in SessionState

\* Every step keeps the orders in order.
LEMMA OrdersKept ==
    ASSUME LockInv, OrderInv, Next \/ UNCHANGED vars
    PROVE  OrderInv'
<1>1. CASE UNCHANGED vars
  BY <1>1 DEF OrderInv, vars, orderVars, actorVars
<1>2. CASE \E a \in Submitters : SubmitPlace(a)
  <2>1. PICK a \in Submitters : SubmitPlace(a)
    BY <1>2
  <2>2. lock = a
    BY <2>1 DEF LockInv, SubmitPlace, At, Submitting
  <2>3. lock' = "nobody"
    BY <2>1 DEF SubmitPlace, Leaves
  <2> QED BY <2>1, <2>2, <2>3 DEF OrderInv, SubmitPlace, Submitters
<1>3. CASE \E o \in Orders \cup {FlatOrder} : OrderEnds(o)
  BY <1>3 DEF OrderInv, OrderEnds, actorVars
<1>4. CASE FlattenSubmit \/ \E o \in Orders : SubmitGate(o)
  BY <1>4 DEF OrderInv, FlattenSubmit, SubmitGate, Leaves, ReadsControl, orderVars, Submitters
<1>5. CASE SuperviseAudit
  BY <1>5 DEF OrderInv, SuperviseAudit, orderVars, Submitters
<1>6. CASE \/ KillBegin \/ ExternalKill \/ ClearBegin \/ ClearPersist \/ ClearDegrade
           \/ ArmRequest \/ Arm \/ ArmExpires
           \/ \E event \in ConnectionEvents : ConnectionEvent(event) \/ ConnectionDispatch(event)
           \/ IntegrityKill \/ IntegrityDegrade \/ IntegrityPersist
  BY <1>6 DEF OrderInv, orderVars, actorVars, KillBegin, ExternalKill, ClearBegin, ClearPersist,
              ClearDegrade, ArmRequest, Arm, ArmExpires, ConnectionEvent, ConnectionDispatch,
              IntegrityKill, IntegrityDegrade, IntegrityPersist, Goes, GoesWith
<1>7. CASE \/ OperatorRecover \/ SuperviseSync \/ SuperviseRecover \/ SuperviseConnect
           \/ SuperviseHeartbeat \/ SuperviseFailed \/ SuperviseDemote
           \/ FlattenBegin \/ FlattenArm \/ FlattenEnd
  BY <1>7 DEF OrderInv, orderVars, actorVars, OperatorRecover, SuperviseSync, SuperviseRecover,
              SuperviseConnect, SuperviseHeartbeat, SuperviseFailed, SuperviseDemote,
              FlattenBegin, FlattenArm, FlattenEnd, Goes
<1>8. CASE \E a \in Cancellers : KillMark(a) \/ CancelAllOrders(a) \/ CancelAllConnects(a)
  BY <1>8 DEF OrderInv, orderVars, actorVars, KillMark, CancelAllOrders, CancelAllConnects,
              AfterCancel, Leaves, Goes, SupervisorEnds, Submitters, Cancellers
<1>9. CASE \/ \E a \in Synchronizers : SyncKill(a) \/ SyncKnown(a)
           \/ \E a \in {"killer", "supervisor"} : KillPersist(a)
           \/ \E a \in Submitters : SubmitCheck(a)
  BY <1>9 DEF OrderInv, orderVars, actorVars, SyncKill, SyncKnown, KillPersist, SubmitCheck,
              AfterCancel, Leaves, Goes, SupervisorEnds, Submitters, Synchronizers
<1>10. CASE \E a \in Reconcilers :
              \/ ReconcileBegin(a) \/ ReconcileRead(a) \/ ReconcileConnects(a)
              \/ ReconcileAccepted(a) \/ ReconcileBlocked(a)
  BY <1>10 DEF OrderInv, orderVars, actorVars, ReconcileBegin, ReconcileRead, ReconcileConnects,
               ReconcileAccepted, ReconcileBlocked, AfterReconcile, Goes, GoesWith,
               SupervisorEnds, Submitters, Reconcilers
<1> QED BY <1>1, <1>2, <1>3, <1>4, <1>5, <1>6, <1>7, <1>8, <1>9, <1>10, NextCases

\* The session state takes the adapter's values only.
LEMMA SessionKept ==
    ASSUME session \in SessionState, Next \/ UNCHANGED vars
    PROVE  session' \in SessionState
<1>1. \/ session' = session
      \/ session' \in {"KILLED", "DEGRADED", "READY", "RECONCILING", "RECOVERING"}
      \/ \E event \in ConnectionEvents : session' = StateAfter(event)
  BY NextCases DEF adapterVars, vars, KillBegin, ExternalKill, ClearBegin, ClearPersist,
     ClearDegrade, ArmRequest, Arm, ArmExpires, ConnectionEvent, ConnectionDispatch,
     IntegrityKill, IntegrityDegrade, IntegrityPersist, OperatorRecover, SuperviseSync,
     SuperviseRecover, SuperviseConnect, SuperviseAudit, SuperviseHeartbeat, SuperviseFailed,
     SuperviseDemote, FlattenBegin, FlattenArm, FlattenEnd, FlattenSubmit, SubmitGate, KillMark,
     CancelAllOrders, CancelAllConnects, Connects, SyncKill, SyncKnown, KillPersist, SubmitCheck,
     SubmitPlace, OrderEnds, ReconcileBegin, ReconcileRead, ReconcileConnects, ReconcileAccepted,
     ReconcileBlocked
<1> QED BY <1>1 DEF StateAfter, ConnectionEvents, SessionState

\* The session, the controller, the kill switch and the orders keep their types, and both
\* locks are held exactly by the actor whose step says so, for every set of orders, every
\* journal and every bound.
THEOREM TypeCorrectness == Spec => []TypeOK
<1>1. Init => SessionInv
  BY SafetyInitially, LocksInitially
  DEF Init, SessionInv, OrderInv, SessionState, Submitters
<1>2. SessionInv /\ [Next]_vars => SessionInv'
  <2>1. SafetyInv /\ [Next]_vars => SafetyInv'
    BY NextCases, KillsKeepSafety, ArmingKeepsSafety, PersistingKeepsSafety, ReadingKeepsSafety,
       OthersKeepSafety
  <2> QED BY <2>1, LocksKept, OrdersKept, SessionKept DEF SessionInv
<1>3. SessionInv => TypeOK
  BY DEF SessionInv, SafetyInv, LockInv, OrderInv, TypeOK, Submitting, Reconciling
<1> QED BY <1>1, <1>2, <1>3, PTL DEF Spec
=============================================================================
