---------------------------- MODULE PreTradeRisk ----------------------------
(***************************************************************************)
(* The way of one order through the pre-trade checks: submit() of          *)
(* ExecutionSDK with LiveRiskGateway.authorize, the account snapshot it    *)
(* judges by, and OrderPacingSDK.                                          *)
(*                                                                         *)
(* submit() and cancel() hold _submit_lock, so one call runs at a time;    *)
(* but the snapshot is read piece by piece while IBKR accepts, fills and   *)
(* ends orders, events reach the ledger and risk_svc puts other policies   *)
(* in force.  An order is one unit at a price of one; entries buy and      *)
(* exits are reduce-only sales, all of one instrument of one account in    *)
(* LIVE mode.  What the other checks read (quote, collar, halt, PnL,       *)
(* funds, shortability) may refuse any order.                              *)
(*                                                                         *)
(* Time is the age of a message in pacing ticks, Window of them a second.  *)
(***************************************************************************)
EXTENDS Integers, Sequences, FiniteSets, FiniteSetsExt, SequencesExt

CONSTANTS
    Entries,        \* orders that open
    Exits,          \* reduce-only orders
    MarketOrders,   \* those of them without a price
    Policies,       \* database policies: [gross, symbol, count, traded, safe]
    Default,        \* the policy of the environment variables
    NoPolicy,
    Held,           \* the position at the start
    MaxMessages,    \* max_messages_per_second
    Window,         \* ticks of a second
    MaxChanges,     \* bound on policies put in force
    MaxFaults       \* bound on failed snapshots, timeouts and restarts

ASSUME RiskAssumption ==
    /\ Entries \intersect Exits = {}
    /\ MarketOrders \subseteq Entries \union Exits
    /\ Default \notin Policies /\ NoPolicy \notin Policies \union {Default}
    /\ Held \in Nat
    /\ MaxMessages \in Nat \ {0} /\ Window \in Nat \ {0}
    /\ IsFiniteSet(Entries \union Exits)
    /\ Policies \union {Default} \subseteq [gross : Nat, symbol : Nat, count : Nat, traded : Nat,
                                          safe : BOOLEAN]
    /\ MaxChanges \in Nat /\ MaxFaults \in Nat

VARIABLES
    inForce,        \* scope -> policy: what RiskPolicies keeps in the database
    row,            \* the state of each order in the ledger
    judgedBy,       \* the policy that authorized a claimed order
    broker,         \* where each order is at IBKR
    session,        \* READY or DEGRADED
    call,           \* the call that holds _submit_lock and what it has read
    messageTimes,   \* _message_times, as ages: when slots were given, not when messages left
    sent,           \* ages of the orders and cancels this process sent in the last second
    withdrawn,      \* and of the withdrawals of orders it got no answer for
    changes, faults \* counted for the bounds

traffic == <<messageTimes, sent, withdrawn>>
riskVars == <<inForce, row, judgedBy, broker, session, call, traffic, changes, faults>>

Orders == Entries \union Exits
PolicyScopes == {"account", "global"}
Governance ==
    INSTANCE PolicyInForce WITH Scopes <- PolicyScopes, Versions <- Policies, None <- NoPolicy,
                                approved <- [s \in PolicyScopes |-> Policies]

Submitted == {o \in Orders : row[o] \in {"SUBMITTING", "UNKNOWN", "WORKING", "FILLED", "CANCELLED"}}
Nonterminal == {o \in Submitted : row[o] \in {"SUBMITTING", "UNKNOWN", "WORKING"}}

NoCall == [step |-> "none"]
NoSnapshot == [gross |-> 0, held |-> 0, open |-> 0, count |-> 0, traded |-> 0, filled |-> 0]

FilledAtBroker(orders) == Cardinality({o \in orders : broker[o] = "filled"})
Position == Held + FilledAtBroker(Entries) - FilledAtBroker(Exits)
Magnitude(n) == IF n < 0 THEN -n ELSE n

RiskInit ==
    /\ inForce \in [PolicyScopes -> Policies \union {NoPolicy}]
    /\ row = [o \in Orders |-> "none"]
    /\ judgedBy = [o \in Orders |-> NoPolicy]
    /\ broker = [o \in Orders |-> "absent"]
    /\ session = "READY"
    /\ call = NoCall
    /\ messageTimes = <<>>
    /\ sent = <<>>
    /\ withdrawn = <<>>
    /\ changes = 0
    /\ faults = 0

-----------------------------------------------------------------------------
(* Governance, the session, the clock.                                     *)

PolicyChanges(s, p) ==
    /\ changes < MaxChanges
    /\ inForce[s] # p
    /\ Governance!PutInForce(s, p)
    /\ changes' = changes + 1
    /\ UNCHANGED <<row, judgedBy, broker, session, call, traffic, faults>>

\* Reconciliation and arming make the session READY again.
Recover ==
    /\ session = "DEGRADED"
    /\ session' = "READY"
    /\ UNCHANGED <<inForce, row, judgedBy, broker, call, traffic, changes, faults>>

\* The process starts anew: calls and windows are gone, a SUBMITTING row is of unknown outcome.
Restart ==
    /\ faults < MaxFaults
    /\ row' = [o \in Orders |-> IF row[o] = "SUBMITTING" THEN "UNKNOWN" ELSE row[o]]
    /\ session' = "DEGRADED"
    /\ call' = NoCall
    /\ messageTimes' = <<>>
    /\ sent' = <<>>
    /\ withdrawn' = <<>>
    /\ faults' = faults + 1
    /\ UNCHANGED <<inForce, judgedBy, broker, changes>>

\* The messages before the first whose second is not over yet, and those from it on.
Expired(times) == {i \in DOMAIN times : \A j \in 1..i : times[j] >= Window}
Young(times) == SubSeq(times, Cardinality(Expired(times)) + 1, Len(times))

Tick ==
    /\ messageTimes # <<>>
    /\ \E i \in DOMAIN messageTimes : messageTimes[i] < Window
    /\ messageTimes' = [i \in DOMAIN messageTimes |-> Min({messageTimes[i] + 1, Window})]
    /\ sent' = Young([i \in DOMAIN sent |-> sent[i] + 1])
    /\ withdrawn' = Young([i \in DOMAIN withdrawn |-> withdrawn[i] + 1])
    /\ UNCHANGED <<inForce, row, judgedBy, broker, session, call, changes, faults>>

-----------------------------------------------------------------------------
(* IBKR, and the events that reach the ledger.                             *)

BrokerMoves(o, from, to) ==
    /\ broker[o] = from
    /\ broker' = [broker EXCEPT ![o] = to]
    /\ UNCHANGED <<inForce, row, judgedBy, session, traffic, changes, faults>>

BrokerAccepts(o) == BrokerMoves(o, "sent", "working") /\ UNCHANGED call

BrokerEnds(o) == (\E from \in {"sent", "working"} : BrokerMoves(o, from, "cancelled"))
                 /\ UNCHANGED call

\* "filled" of the call counts what is filled while the snapshot is read.
BrokerFills(o) ==
    /\ BrokerMoves(o, "working", "filled")
    /\ call' = IF call.step \in {"positions", "openOrders", "activity", "localOrders"}
               THEN [call EXCEPT !.snapshot.filled = @ + 1] ELSE call

StateAtBroker == [working |-> "WORKING", filled |-> "FILLED", cancelled |-> "CANCELLED"]

ApplyEvent(o) ==
    /\ broker[o] \in DOMAIN StateAtBroker
    /\ o \in Nonterminal
    /\ row[o] # StateAtBroker[broker[o]]
    /\ row' = [row EXCEPT ![o] = StateAtBroker[broker[o]]]
    /\ UNCHANGED <<inForce, judgedBy, broker, session, call, traffic, changes, faults>>

-----------------------------------------------------------------------------
(* submit(): the gates and the snapshot.                                   *)

OnlyCall(next) ==
    /\ call' = next
    /\ UNCHANGED <<inForce, row, judgedBy, broker, session, traffic, changes, faults>>

Goes(step) == OnlyCall([call EXCEPT !.step = step])

Refuse == OnlyCall(NoCall)

\* The intent is persisted first, so that it is there when the gates refuse the call.
Submit(o) ==
    /\ call = NoCall
    /\ row[o] \in {"none", "INTENT_PERSISTED", "AUTHORIZED"}
    /\ row' = [row EXCEPT ![o] = IF @ = "none" THEN "INTENT_PERSISTED" ELSE @]
    /\ call' = IF session = "READY"
               THEN [step |-> IF o \in Entries THEN "envelope" ELSE "summary", order |-> o,
                     snapshot |-> NoSnapshot, policy |-> NoPolicy]
               ELSE NoCall
    /\ UNCHANGED <<inForce, judgedBy, broker, session, traffic, changes, faults>>

\* resolve() asks for the policy of the account and, when there is none, in a second
\* transaction for the global one.
AsksGlobally(first, second) ==
    /\ call.step = first
    /\ inForce["account"] = NoPolicy
    /\ Goes(second)

Resolved(first, second) ==
    IF call.step = first THEN {inForce["account"]} \ {NoPolicy}
    ELSE IF call.step = second THEN {inForce["global"]}
    ELSE {}

\* Faulty variant of InsideEnvelope: an entry needs no database policy.
InsideEnvelopeOrNone(p) == p = NoPolicy \/ p.safe

InsideEnvelope(p) == p # NoPolicy /\ p.safe

RequireGovernedRiskPolicy ==
    \/ AsksGlobally("envelope", "globalEnvelope")
    \/ \E p \in Resolved("envelope", "globalEnvelope") :
           IF InsideEnvelope(p) THEN Goes("summary") ELSE Refuse

\* The parts of the account snapshot, in the order in which they are asked for.
Reads(step, field, value, next) ==
    /\ call.step = step
    /\ OnlyCall([call EXCEPT !.step = next, !.snapshot[field] = value])

WorkingAtBroker == Cardinality({o \in Orders : broker[o] = "working"})

\* Faulty variant of OpenOrderRiskNotional: an order of unknown outcome is left out.
OpenOrderRiskNotionalKnown == Cardinality({o \in Nonterminal : row[o] # "UNKNOWN"})

OpenOrderRiskNotional == Cardinality(Nonterminal)

ReadSnapshot ==
    \/ Reads("summary", "gross", Magnitude(Position), "positions")
    \/ Reads("positions", "held", Position, "openOrders")
    \/ Reads("openOrders", "open", WorkingAtBroker, "activity")

\* daily_activity: orders by their submission, traded notional by the executions.
ReadActivity ==
    /\ call.step = "activity"
    /\ OnlyCall([call EXCEPT !.step = "localOrders",
                             !.snapshot.count = Cardinality(Submitted),
                             !.snapshot.traded = Cardinality({o \in Orders : row[o] = "FILLED"})])

Unpriced == MarketOrders \intersect Nonterminal

ReadLocalOrders ==
    /\ call.step = "localOrders"
    /\ Unpriced = {}
    /\ OnlyCall([call EXCEPT !.step = "policy",
                             !.snapshot.open = Max({@, OpenOrderRiskNotional})])

\* A request of the snapshot fails, or a working order has no price to reckon with: the
\* session is degraded and disarmed.
SnapshotFails ==
    /\ \/ call.step = "localOrders" /\ Unpriced # {} /\ UNCHANGED faults
       \/ /\ call.step \in {"summary", "positions", "openOrders"}
          /\ faults < MaxFaults
          /\ faults' = faults + 1
    /\ session' = "DEGRADED"
    /\ call' = NoCall
    /\ UNCHANGED <<inForce, row, judgedBy, broker, traffic, changes>>

-----------------------------------------------------------------------------
(* authorize(): the verdict.                                               *)

\* Faulty variant of EntryRejected: the order itself is not counted among the day's.
EntryRejectedAfter(p, snapshot) ==
    \/ snapshot.count > p.count
    \/ snapshot.traded + 1 > p.traded
    \/ Magnitude(snapshot.held + 1) > p.symbol
    \/ snapshot.gross + snapshot.open + 1 > p.gross

EntryRejected(p, snapshot) ==
    \/ snapshot.count + 1 > p.count
    \/ snapshot.traded + 1 > p.traded
    \/ Magnitude(snapshot.held + 1) > p.symbol
    \/ snapshot.gross + snapshot.open + 1 > p.gross

\* An exit is a sale of one unit: the position must be long, and at least as large.
ExitRejected(snapshot) == snapshot.held < 1

Verdict(p, approved) ==
    /\ row' = [row EXCEPT ![call.order] = IF approved THEN "AUTHORIZED" ELSE "RISK_REJECTED"]
    /\ call' = IF approved THEN [call EXCEPT !.step = "claim", !.policy = p] ELSE NoCall
    /\ UNCHANGED <<inForce, judgedBy, broker, session, traffic, changes, faults>>

Rejected(p) == IF call.order \in Entries THEN EntryRejected(p, call.snapshot)
                                         ELSE ExitRejected(call.snapshot)

Authorize ==
    \/ AsksGlobally("policy", "globalPolicy")
    \/ \E p \in Resolved("policy", "globalPolicy") :
           \E approved \in {FALSE} \union {~Rejected(IF p = NoPolicy THEN Default ELSE p)} :
               Verdict(IF p = NoPolicy THEN Default ELSE p, approved)

-----------------------------------------------------------------------------
(* The claim, the pacing and the transmission.                             *)

\* check_new_orders_allowed may refuse an entry for the order efficiency ratio; the claim is
\* the last gate.
Claim ==
    /\ call.step = "claim"
    /\ row' = [row EXCEPT ![call.order] = "SUBMITTING"]
    /\ judgedBy' = [judgedBy EXCEPT ![call.order] = call.policy]
    /\ call' = [step |-> "acquire", order |-> call.order]
    /\ UNCHANGED <<inForce, broker, session, traffic, changes, faults>>

RefusedForEfficiency ==
    /\ call.step = "claim"
    /\ call.order \in Entries
    /\ Refuse

\* Faulty variant of Evicted: a message leaves the window a tick before its second is over.
EvictedEarly == SelectSeq(messageTimes, LAMBDA age : age + 1 < Window)

Evicted == Young(messageTimes)

\* acquire() gives a slot for one message; the message itself leaves later.
Acquire ==
    /\ call.step \in {"acquire", "cancel"}
    /\ Len(Evicted) < MaxMessages
    /\ messageTimes' = Append(Evicted, 0)
    /\ call' = [call EXCEPT !.step = IF @ = "acquire" THEN "place" ELSE "orderStatus"]
    /\ UNCHANGED <<inForce, row, judgedBy, broker, session, sent, withdrawn, changes, faults>>

Place ==
    /\ call.step = "place"
    /\ broker' = [broker EXCEPT ![call.order] = "sent"]
    /\ sent' = Append(sent, 0)
    /\ call' = [call EXCEPT !.step = "await"]
    /\ UNCHANGED <<inForce, row, judgedBy, session, messageTimes, withdrawn, changes, faults>>

\* The answer to an order, or the end of one to cancel, which may be known before it is sent.
Acknowledged ==
    /\ \/ call.step = "await" /\ broker[call.order] \in DOMAIN StateAtBroker
       \/ /\ call.step \in {"orderStatus", "awaitEnd"}
          /\ broker[call.order] \in {"filled", "cancelled"}
    /\ row' = [row EXCEPT ![call.order] = StateAtBroker[broker[call.order]]]
    /\ call' = NoCall
    /\ UNCHANGED <<inForce, judgedBy, broker, session, traffic, changes, faults>>

UnknownUnlessTerminal ==
    /\ row' = [row EXCEPT ![call.order] = IF @ \in {"SUBMITTING", "WORKING"} THEN "UNKNOWN" ELSE @]
    /\ call' = NoCall
    /\ UNCHANGED <<inForce, judgedBy, broker, session, messageTimes, sent, changes>>

\* The adapter raises before it sends, though the slot is taken: there is no order id, or the
\* order to cancel cannot be asked for.
NotSent ==
    /\ call.step \in {"place", "orderStatus"}
    /\ faults < MaxFaults
    /\ faults' = faults + 1
    /\ UnknownUnlessTerminal
    /\ UNCHANGED withdrawn

\* No answer comes, or IBKR refuses the order: submit_order cancels it without asking for a
\* slot.  A cancel that gets no answer is left at that.
OutcomeUnknown ==
    /\ \/ call.step \in {"await", "awaitEnd"} /\ faults < MaxFaults /\ faults' = faults + 1
       \/ call.step = "await" /\ broker[call.order] = "cancelled" /\ UNCHANGED faults
    /\ withdrawn' = IF call.step = "await" THEN Append(withdrawn, 0) ELSE withdrawn
    /\ UnknownUnlessTerminal

\* cancel(): a message of its own, sent when order_status has found the order; IBKR ends the
\* order when it will.  A row in CANCEL_PENDING counts as WORKING here.
Cancel(o) ==
    /\ call = NoCall
    /\ row[o] \in {"WORKING", "UNKNOWN"}
    /\ broker[o] # "absent"
    /\ OnlyCall([step |-> "cancel", order |-> o])

SendCancel ==
    /\ call.step = "orderStatus"
    /\ sent' = Append(sent, 0)
    /\ call' = [call EXCEPT !.step = "awaitEnd"]
    /\ UNCHANGED <<inForce, row, judgedBy, broker, session, messageTimes, withdrawn, changes,
                   faults>>

-----------------------------------------------------------------------------
Checks == RequireGovernedRiskPolicy \/ ReadSnapshot \/ ReadActivity \/ ReadLocalOrders
          \/ SnapshotFails \/ Authorize

Transmission == Claim \/ RefusedForEfficiency \/ Acquire \/ Place \/ SendCancel
                \/ Acknowledged \/ NotSent \/ OutcomeUnknown

RiskNext ==
    \/ \E s \in PolicyScopes, p \in Policies : PolicyChanges(s, p)
    \/ Recover \/ Restart \/ Tick
    \/ \E o \in Orders : BrokerAccepts(o) \/ BrokerEnds(o) \/ BrokerFills(o) \/ ApplyEvent(o)
    \/ \E o \in Orders : Submit(o) \/ Cancel(o)
    \/ Checks \/ Transmission

RiskSpec == RiskInit /\ [][RiskNext]_riskVars

-----------------------------------------------------------------------------
Claims(o) == o \notin Submitted /\ row'[o] = "SUBMITTING"

\* What the account would hold at worst: the position, and every order that may still fill.
Exposure ==
    Magnitude(Position)
    + Cardinality({o \in Orders : broker[o] \in {"sent", "working"}} \union
                  {o \in Nonterminal : broker[o] = "absent"})

\* An entry is claimed only if the position, all orders that may still fill - those of unknown
\* outcome too - and the entry keep to the gross limit, but for what filled while the snapshot
\* was read (docs/strategy_execution_boundary.zh-CN.md:88).
ExposureIsLimited ==
    [][\A o \in Entries : Claims(o) =>
          Exposure + 1 <= call.policy.gross + call.snapshot.filled]_riskVars

\* No entry exceeds the number of orders a day, whatever was refused, retried or lost before.
OrderCountIsLimited ==
    [][\A o \in Entries : Claims(o) =>
          Cardinality(Submitted) + 1 <= call.policy.count]_riskVars

\* A live entry is judged by a policy that two persons put in force, never by the environment:
\* the policy is asked for twice, and may have changed in between.
EntriesAreGoverned ==
    \A o \in Entries : judgedBy[o] # Default

\* A slot is given before the round trips behind which its message leaves, so messages bunch:
\* yet in no second does the process send more orders and cancels than the limit and one that
\* was held up, and no more withdrawals, which never ask for a slot.  (Nor do the cancellations
\* of a kill; but the adapter lets none of them out, see SessionControl.)
MessagesArePaced ==
    /\ Len(sent) <= MaxMessages + 1
    /\ Len(withdrawn) <= MaxMessages + 1

-----------------------------------------------------------------------------
(* What the documents say, and the code does not do.                       *)

\* "The hard envelope cannot be relaxed" (docs/strategy_execution_boundary.zh-CN.md:67-68): no
\* entry is judged by a policy outside it.
EnvelopeIsHard ==
    \A o \in Entries : judgedBy[o] \in Policies => judgedBy[o].safe

\* Exits are strictly reduce-only (docs/strategy_execution_boundary.zh-CN.md:79-80): together
\* they never turn the position round.
ExitsOnlyReduce == Position >= 0

\* Every local order that may be alive is reckoned with (the docstring of
\* open_order_risk_notional, src/platform_core/sdk/ledger.py:777).
OpenOrdersAreReckoned == call.step = "localOrders" => Unpriced = {}
=============================================================================
