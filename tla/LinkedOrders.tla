---------------------------- MODULE LinkedOrders ----------------------------
(***************************************************************************)
(* Brackets, OCA groups and replacements: what the execution service, the  *)
(* IBKR adapter and the broker do with orders that are sent as a group or  *)
(* modified afterwards.  Every change of a row is an action of OrderLedger.*)
(*                                                                         *)
(* One process; _submit_lock admits one call at a time (`call').  The      *)
(* adapter keeps a record of every order it has placed (`record'), which   *)
(* its reader thread overwrites and its callers wait for.  A callback      *)
(* applies its event to the ledger before the reader takes the next one.   *)
(* Requests and reports cross the socket in order; a crash loses the       *)
(* reports and the requests that had not left yet.                         *)
(***************************************************************************)
EXTENDS OrderLedger, Sequences

CONSTANTS
    Brackets,        \* brackets: <<entry, take profit, stop loss>>
    OcaGroups,       \* OCA groups: their orders, in the order they are sent
    MaxReplacements, \* bound on replacements claimed
    MaxFaults        \* bound on the refusals and repeated statuses of the broker, the legs
                     \* that a TTL scan expires, and the crashes, together

Batch == Brackets \cup OcaGroups
Legs(group) == {group[i] : i \in DOMAIN group}

ASSUME LinkedAssumption ==
    /\ IsFiniteSet(Orders)
    /\ Batch \subseteq Seq(Orders) \ {<<>>}
    /\ \A group \in Batch : \A i, j \in DOMAIN group : group[i] = group[j] => i = j
    /\ Brackets \cap OcaGroups = {}
    /\ \A g, h \in Batch : g # h => Legs(g) \cap Legs(h) = {}
    /\ Groups = {Legs(group) : group \in Batch}
    /\ Entries = {bracket[1] : bracket \in Brackets}
    /\ {MaxReplacements, MaxFaults} \subseteq Nat

VARIABLES
    up,         \* whether the process runs and is connected
    call,       \* the call that holds _submit_lock
    record,     \* _orders: the adapter's record of each order
    refused,    \* _request_errors: orders with an error that was not read yet
    recovering, \* orders the startup reconciliation has still to apply
    journal,    \* broker_order_events: the order events the ledger has taken
    requests,   \* requests on their way to the broker
    reports,    \* reports on their way to the adapter
    book,       \* the broker's own record of each order
    used        \* how much of each bound is used up

processVars == <<up, call, record, refused, recovering>>
wireVars == <<requests, reports>>
linkedVars == <<ledgerVars, journal, processVars, wireVars, book, used>>

\* legs, at: the orders of the call and the one it has come to; fresh: those read as
\* INTENT_PERSISTED; stale: whether one was read in a later state; terms: of a replacement.
IdleCall == [step |-> "idle", legs |-> <<>>, at |-> 1, fresh |-> {}, stale |-> FALSE,
             terms |-> NoTerms, revision |-> 0, answers |-> <<>>]

NoRecord == [acknowledged |-> FALSE, terms |-> NoTerms, word |-> "PendingSubmit",
             filled |-> 0, remaining |-> 0]

NotPlaced == [state |-> "none", terms |-> NoTerms]

LinkedInit ==
    /\ Init
    /\ up = TRUE
    /\ call = IdleCall
    /\ record = [o \in Orders |-> NoRecord]
    /\ refused = {}
    /\ recovering = {}
    /\ journal = {}
    /\ requests = <<>>
    /\ reports = <<>>
    /\ book = [o \in Orders |-> NotPlaced]
    /\ used = [replacements |-> 0, refusals |-> 0, repeats |-> 0, expiries |-> 0, crashes |-> 0]

Fault(what) ==
    /\ used.refusals + used.repeats + used.expiries + used.crashes < MaxFaults
    /\ used' = [used EXCEPT ![what] = @ + 1]

\* A step of the call: what changes in the process, if anything does, is said by the step.
At(step) == up /\ call.step = step
Current == call.legs[call.at]
Finish == call' = IdleCall

\* The call turns to its next order, or with the last one to the next step.
Turn(changed, next) ==
    call' = IF call.at < Len(call.legs) THEN [changed EXCEPT !.at = @ + 1]
            ELSE IF next = "idle" THEN IdleCall
            ELSE [changed EXCEPT !.step = next, !.at = 1]

OnlyCall == UNCHANGED <<up, record, refused, recovering, journal, wireVars, book, used>>

-----------------------------------------------------------------------------
(* submit_bracket and submit_oca.                                          *)

\* A replay of legs that all exist, one of them in a later state, answers with the rows,
\* changes nothing and is left out.
SubmitGroup(group) ==
    /\ At("idle")
    /\ \/ \E o \in Legs(group) : ~Exists(o)
       \/ \A o \in Legs(group) : rows[o].state \in PRE_SUBMISSION_STATES
    /\ call' = [IdleCall EXCEPT !.step = "persist", !.legs = group]
    /\ OnlyCall /\ UNCHANGED ledgerVars

\* create_or_get_intent, one transaction per leg.
PersistLeg ==
    LET o == Current
        state == IF Exists(o) THEN rows[o].state ELSE "INTENT_PERSISTED"
    IN /\ At("persist")
       /\ \/ CreateIntent(o)
          \/ Exists(o) /\ UNCHANGED ledgerVars
       /\ Turn([call EXCEPT !.fresh = IF state = "INTENT_PERSISTED" THEN @ \cup {o} ELSE @,
                            !.stale = @ \/ state \notin PRE_SUBMISSION_STATES],
               "decide")
       /\ OnlyCall

\* A leg read in a later state answers the call with the rows; a check that fails raises;
\* risk approves or rejects the legs.
DecideGroup ==
    /\ At("decide")
    /\ \/ Finish
       \/ /\ ~call.stale
          /\ recovering = {}
          /\ \E next \in {"authorize", "reject"} : call' = [call EXCEPT !.step = next, !.at = 1]
    /\ OnlyCall /\ UNCHANGED ledgerVars

\* _reject_group: one refusal closes every leg.  A leg that has expired raises.
RejectLeg ==
    /\ At("reject")
    /\ \/ Transition(Current, "RISK_REJECTED") /\ Turn(call, "idle")
       \/ ~MayTransition(rows[Current].state, "RISK_REJECTED") /\ Finish /\ UNCHANGED ledgerVars
    /\ OnlyCall

\* The authorization of a leg; validate_authorization and the efficiency check may raise.
AuthorizeLeg ==
    /\ At("authorize")
    /\ \/ Current \in call.fresh /\ Transition(Current, "AUTHORIZED") /\ Turn(call, "claim")
       \/ Current \notin call.fresh /\ Turn(call, "claim") /\ UNCHANGED ledgerVars
       \/ Finish /\ UNCHANGED ledgerVars
    /\ OnlyCall

ClaimGroup ==
    /\ At("claim")
    /\ \/ ClaimSubmissionGroup(Legs(call.legs)) /\ call' = [call EXCEPT !.step = "place"]
       \/ /\ \E o \in Legs(call.legs) : rows[o].state # "AUTHORIZED"
          /\ Finish /\ UNCHANGED ledgerVars
    /\ OnlyCall

\* Faulty variant: every leg is transmitted as soon as it is placed.
TransmitsEach(group, at) == TRUE

\* place_bracket holds the legs before the last one back; place_oca sends every member.
Transmits(group, at) == group \in OcaGroups \/ at = Len(group)

Placement(o, terms, transmit) ==
    [kind |-> "place", order |-> o, terms |-> terms, transmit |-> transmit]
Withdrawal(o) == [kind |-> "cancel", order |-> o, terms |-> NoTerms, transmit |-> FALSE]

\* _raw_order_record with no state: PendingSubmit, not acknowledged.
Registered(terms) == [NoRecord EXCEPT !.terms = terms, !.remaining = TermQuantity[terms]]

\* submit_order_batch registers every leg, then calls placeOrder leg by leg.
PlaceLeg ==
    LET legs == Legs(call.legs) IN
    /\ At("place")
    /\ record' = IF call.at = 1
                 THEN [o \in Orders |-> IF o \in legs THEN Registered(InitialTerms[o])
                                                      ELSE record[o]]
                 ELSE record
    /\ refused' = IF call.at = 1 THEN refused \ legs ELSE refused
    /\ requests' = Append(requests, Placement(Current, InitialTerms[Current],
                                              Transmits(call.legs, call.at)))
    /\ Turn(call, "await")
    /\ UNCHANGED <<ledgerVars, up, recovering, journal, reports, book, used>>

\* Pacing, the safety switch, the session or the order ids raise before anything is sent.
PlacementRaises ==
    /\ At("place") /\ call.at = 1
    /\ call' = [call EXCEPT !.step = "unknown"]
    /\ OnlyCall /\ UNCHANGED ledgerVars

-----------------------------------------------------------------------------
(* replace.                                                                *)

\* A request whose expected revision is not the row's, or whose terms are pending, changes
\* nothing and is left out, and so is one for the terms the order has.
Replace(o, terms) ==
    /\ At("idle") /\ recovering = {}
    /\ Exists(o) /\ rows[o].brokerId
    /\ Replaceable(o)
    /\ terms \notin {rows[o].terms, rows[o].pending}
    /\ used.replacements < MaxReplacements
    /\ used' = [used EXCEPT !.replacements = @ + 1]
    /\ call' = [IdleCall EXCEPT !.step = "reclaim", !.legs = <<o>>, !.terms = terms,
                                !.revision = rows[o].revision]
    /\ UNCHANGED <<ledgerVars, up, record, refused, recovering, journal, wireVars, book>>

\* The row may have changed while quote and account were read: the claim compares revisions.
ClaimReplace ==
    /\ At("reclaim")
    /\ \/ /\ rows[Current].revision = call.revision
          /\ ClaimReplacement(Current, call.terms)
          /\ call' = [call EXCEPT !.step = "modify"]
       \/ Finish /\ UNCHANGED ledgerVars
    /\ OnlyCall

\* replace_order: placeOrder with the same id.  The record already shows the new terms.
ModifyOrder ==
    /\ At("modify")
    /\ record' = [record EXCEPT ![Current] = Registered(call.terms)]
    /\ refused' = refused \ {Current}
    /\ requests' = Append(requests, Placement(Current, call.terms, TRUE))
    /\ call' = [call EXCEPT !.step = "await"]
    /\ UNCHANGED <<ledgerVars, up, recovering, journal, reports, book, used>>

ModifyRaises ==
    /\ At("modify")
    /\ call' = [call EXCEPT !.step = "unknown"]
    /\ OnlyCall /\ UNCHANGED ledgerVars

-----------------------------------------------------------------------------
(* Answers: _wait_for_order, and what follows it.                          *)

Expected(o) == IF call.terms = NoTerms THEN InitialTerms[o] ELSE call.terms
Acknowledged(o) == record[o].acknowledged /\ record[o].terms = Expected(o)

StatusOfRecord(r) ==
    [status |-> r.word, terms |-> r.terms, filled |-> r.filled, remaining |-> r.remaining]

ApplyStatus(o, status, settle) ==
    \E st \in {status} : ApplyReconciledStatus(o, LifecycleFromBrokerStatus(st), st, settle)

\* The orders are waited for one after the other; an error or a timeout ends the wait.
AwaitLeg ==
    /\ At("await")
    /\ \/ /\ Current \notin refused /\ Acknowledged(Current)
          /\ Turn([call EXCEPT !.answers = Append(@, StatusOfRecord(record[Current]))], "apply")
       \/ /\ Current \in refused \/ ~Acknowledged(Current)
          /\ call' = [call EXCEPT !.step = "withdraw", !.at = 1]
    /\ OnlyCall /\ UNCHANGED ledgerVars

\* Faulty variant: the other legs are left at the broker.
WithdrawFirstLeg ==
    /\ At("withdraw")
    /\ requests' = Append(requests, Withdrawal(Current))
    /\ call' = [call EXCEPT !.step = "unknown", !.at = 1]
    /\ UNCHANGED <<ledgerVars, up, record, refused, recovering, journal, reports, book, used>>

\* Every order of the call is cancelled, acknowledged or not.
WithdrawLeg ==
    /\ At("withdraw")
    /\ requests' = Append(requests, Withdrawal(Current))
    /\ Turn(call, "unknown")
    /\ UNCHANGED <<ledgerVars, up, record, refused, recovering, journal, reports, book, used>>

\* Faulty variant: an order whose placement raised is taken to be cancelled.
CancelledLeg ==
    /\ At("unknown")
    /\ \/ Transition(Current, "CANCELLED")
       \/ ~MayTransition(rows[Current].state, "CANCELLED") /\ UNCHANGED ledgerVars
    /\ Turn(call, "idle")
    /\ OnlyCall

\* _mark_unknown_unless_terminal, leg by leg.
UnknownLeg ==
    LET state == rows[Current].state IN
    /\ At("unknown")
    /\ \/ state \notin TERMINAL_ORDER_STATES /\ Transition(Current, "UNKNOWN")
       \/ /\ state \in TERMINAL_ORDER_STATES \/ ~MayTransition(state, "UNKNOWN")
          /\ UNCHANGED ledgerVars
    /\ Turn(call, "idle")
    /\ OnlyCall

\* _apply_batch_statuses, and the last step of replace, which settles the replacement.
ApplyLeg ==
    /\ At("apply")
    /\ ApplyStatus(Current, call.answers[call.at], call.terms # NoTerms)
    /\ Turn(call, "idle")
    /\ OnlyCall

CallStep ==
    \/ PersistLeg \/ DecideGroup \/ RejectLeg \/ AuthorizeLeg \/ ClaimGroup
    \/ PlaceLeg \/ PlacementRaises \/ ClaimReplace \/ ModifyOrder \/ ModifyRaises
    \/ AwaitLeg \/ WithdrawLeg \/ UnknownLeg \/ ApplyLeg

-----------------------------------------------------------------------------
(* The broker.                                                             *)

Open == {"held", "working"}
Siblings(o) == (UNION {Legs(group) : group \in {g \in Batch : o \in Legs(g)}}) \ {o}

WordOf(state) ==
    CASE state = "working"   -> "Submitted"
      [] state = "filled"    -> "Filled"
      [] state = "cancelled" -> "Cancelled"

\* openOrder carries the terms, orderStatus does not, an error neither terms nor status.
Report(kind, o, entry) ==
    LET q == TermQuantity[entry.terms] IN
    [kind |-> kind, order |-> o, terms |-> entry.terms, word |-> WordOf(entry.state),
     filled |-> IF entry.state = "filled" THEN q ELSE 0,
     remaining |-> IF entry.state = "filled" THEN 0 ELSE q]
Refusal(o) == [kind |-> "error", order |-> o, terms |-> NoTerms, word |-> "Inactive",
               filled |-> 0, remaining |-> 0]

Sent(messages) == reports' = IF up THEN reports \o messages ELSE reports

\* The reports about some orders, in any one order.
Reported(kind, orders, newBook) ==
    LET some == CHOOSE s \in [1..Cardinality(orders) -> orders] : Legs(s) = orders
    IN [i \in 1..Cardinality(orders) |-> Report(kind, some[i], newBook[some[i]])]

\* The broker moves orders to a state and reports them.
Moves(orders, state, kind) ==
    /\ book' = [o \in Orders |-> IF o \in orders THEN [book[o] EXCEPT !.state = state]
                                                 ELSE book[o]]
    /\ Sent(Reported(kind, orders, book'))

Request(kind) == requests # <<>> /\ Head(requests).kind = kind
Take == requests' = Tail(requests)

BrokerAside == UNCHANGED <<ledgerVars, journal, processVars>>

\* A new order is held, or accepted together with the legs that wait for it.
AcceptPlacement ==
    LET m == Head(requests)
        placed == [book EXCEPT ![m.order] = [state |-> "held", terms |-> m.terms]]
        freed == IF m.transmit
                 THEN {o \in Siblings(m.order) : book[o].state = "held"} \cup {m.order}
                 ELSE {}
    IN /\ Request("place")
       /\ book[m.order].state = "none"
       /\ book' = [o \in Orders |-> IF o \in freed THEN [placed[o] EXCEPT !.state = "working"]
                                                   ELSE placed[o]]
       /\ Sent(Reported("open", freed, book'))
       /\ Take /\ BrokerAside /\ UNCHANGED used

AcceptModification ==
    LET m == Head(requests) IN
    /\ Request("place")
    /\ book[m.order].state = "working"
    /\ book' = [book EXCEPT ![m.order].terms = m.terms]
    /\ Sent(<<Report("open", m.order, book'[m.order])>>)
    /\ Take /\ BrokerAside /\ UNCHANGED used

\* The broker refuses an order, or a modification and leaves the order as it is.
RefusePlacement ==
    LET m == Head(requests) IN
    /\ Request("place")
    /\ \/ book[m.order].state \in {"none", "working"} /\ Fault("refusals")
       \/ book[m.order].state \in {"filled", "cancelled", "refused"} /\ UNCHANGED used
    /\ book' = [book EXCEPT ![m.order].state = IF @ = "none" THEN "refused" ELSE @]
    /\ Sent(<<Refusal(m.order)>>)
    /\ Take /\ BrokerAside

\* Cancelling the parent of a bracket cancels its legs with it.
TakeCancel ==
    LET o == Head(requests).order
        gone == {x \in {o} \cup (IF o \in Entries THEN Siblings(o) ELSE {}) :
                   book[x].state \in Open}
    IN /\ Request("cancel")
       /\ IF book[o].state \in Open THEN Moves(gone, "cancelled", "status")
                                    ELSE UNCHANGED <<book, reports>>
       /\ Take /\ BrokerAside /\ UNCHANGED used

\* An exit is executed once its entry was; the orders it makes superfluous are cancelled.
Fill(o) ==
    LET entries == Siblings(o) \cap Entries
        gone == IF o \in Entries THEN {} ELSE {x \in Siblings(o) : book[x].state \in Open}
    IN /\ book[o].state = "working"
       /\ \A e \in entries : book[e].state = "filled"
       /\ book' = [x \in Orders |-> IF x = o THEN [book[x] EXCEPT !.state = "filled"]
                                    ELSE IF x \in gone THEN [book[x] EXCEPT !.state = "cancelled"]
                                    ELSE book[x]]
       /\ Sent(<<Report("status", o, book'[o])>> \o Reported("status", gone, book'))
       /\ BrokerAside /\ UNCHANGED <<requests, used>>

RepeatStatus(o) ==
    /\ book[o].state = "working"
    /\ Fault("repeats")
    /\ Sent(<<Report("status", o, book[o])>>)
    /\ BrokerAside /\ UNCHANGED <<requests, book>>

BrokerTakes == AcceptPlacement \/ AcceptModification \/ RefusePlacement \/ TakeCancel

-----------------------------------------------------------------------------
(* Callbacks, expiry, crash, restart and reconciliation.                   *)

\* openOrder replaces the record; orderStatus updates its status and leaves its terms.
RecordAfter(m) ==
    [acknowledged |-> TRUE, word |-> m.word, filled |-> m.filled, remaining |-> m.remaining,
     terms |-> IF m.kind = "open" THEN m.terms ELSE record[m.order].terms]

\* The row an event names: by the order reference in the record, or by the broker's order id.
Named(o, after) == rows[o].brokerId \/ after.terms # NoTerms

EventOf(kind, o, after) == [kind |-> kind, order |-> o, payload |-> StatusOfRecord(after)]

\* The adapter records the report; its event is applied to the row it names, unless it equals
\* an earlier one.
DeliverStatus ==
    /\ up /\ reports # <<>> /\ Head(reports).kind # "error"
    /\ reports' = Tail(reports)
    /\ \E o \in {Head(reports).order}, after \in {RecordAfter(Head(reports))} :
        /\ record' = [record EXCEPT ![o] = after]
        /\ journal' = journal \cup {EventOf(Head(reports).kind, o, after)}
        /\ IF journal' # journal /\ Named(o, after)
           THEN ApplyStatus(o, StatusOfRecord(after), FALSE)
           ELSE UNCHANGED ledgerVars
    /\ UNCHANGED <<up, call, refused, recovering, requests, book, used>>

\* An error 201 rejects an order that is SUBMITTING or UNKNOWN, then wakes its caller.
DeliverError ==
    LET o == Head(reports).order IN
    /\ up /\ reports # <<>> /\ Head(reports).kind = "error"
    /\ \/ rows[o].state \in {"SUBMITTING", "UNKNOWN"} /\ Transition(o, "REJECTED")
       \/ rows[o].state \notin {"SUBMITTING", "UNKNOWN"} /\ UNCHANGED ledgerVars
    /\ refused' = refused \cup {o}
    /\ reports' = Tail(reports)
    /\ UNCHANGED <<up, call, record, recovering, journal, requests, book, used>>

\* A TTL scan does not wait for _submit_lock.
ExpireLeg(o) ==
    /\ up
    /\ rows[o].state \in PRE_SUBMISSION_STATES
    /\ Fault("expiries")
    /\ Transition(o, "EXPIRED")
    /\ UNCHANGED <<journal, processVars, wireVars, book>>

Crash ==
    /\ up
    /\ Fault("crashes")
    /\ up' = FALSE
    /\ call' = IdleCall
    /\ record' = [o \in Orders |-> NoRecord]
    /\ refused' = {}
    /\ recovering' = {}
    /\ reports' = <<>>
    /\ \E n \in 0..Len(requests) : requests' = SubSeq(requests, 1, n)
    /\ UNCHANGED <<ledgerVars, journal, book>>

\* Faulty variant: the session becomes READY without a reconciliation.
RestartUnreconciled ==
    /\ ~up
    /\ up' = TRUE
    /\ UNCHANGED <<ledgerVars, journal, call, record, refused, recovering, wireVars, book, used>>

Restart ==
    /\ ~up
    /\ up' = TRUE
    /\ recovering' = {o \in Orders : Exists(o)}
    /\ UNCHANGED <<ledgerVars, journal, call, record, refused, wireVars, book, used>>

\* The reconciliation before READY, order by order: a status settles a replacement.  Orders
\* that the broker holds back, has refused or never received are in none of its answers.
ReconcileOrder ==
    /\ up /\ recovering # {}
    /\ \E o \in {CHOOSE x \in recovering : TRUE} :
        /\ recovering' = recovering \ {o}
        /\ IF book[o].state \in {"working", "filled", "cancelled"}
           THEN \E after \in {RecordAfter(Report("open", o, book[o]))} :
                  /\ ApplyStatus(o, StatusOfRecord(after), TRUE)
                  /\ record' = [record EXCEPT ![o] = after]
                  /\ journal' = journal \cup {EventOf("open", o, after)}
           ELSE UNCHANGED <<ledgerVars, journal, record>>
    /\ UNCHANGED <<up, call, refused, wireVars, book, used>>

ProcessStep == DeliverStatus \/ DeliverError \/ Restart \/ ReconcileOrder

LinkedNext ==
    \/ CallStep
    \/ ProcessStep
    \/ BrokerTakes
    \/ Crash
    \/ \E group \in Batch : SubmitGroup(group)
    \/ \E o \in Orders :
        \/ \E terms \in Terms : Replace(o, terms)
        \/ Fill(o)
        \/ RepeatStatus(o)
        \/ ExpireLeg(o)

LinkedSpec == LinkedInit /\ [][LinkedNext]_linkedVars

\* The call, the reader thread and a restart go on, and the broker answers what it receives.
FairLinkedSpec ==
    /\ LinkedSpec
    /\ WF_linkedVars(CallStep)
    /\ WF_linkedVars(DeliverStatus \/ DeliverError)
    /\ WF_linkedVars(Restart)
    /\ WF_linkedVars(ReconcileOrder)
    /\ WF_linkedVars(BrokerTakes)

-----------------------------------------------------------------------------
(* Properties.                                                             *)

\* README.md:371: the last, protective leg releases a bracket.  Its entry works, or was
\* executed, only after its exits reached the broker, whichever placement a crash cuts off.
EntriesAreProtected ==
    \A bracket \in Brackets :
        book[bracket[1]].state \in {"working", "filled"}
            => \A o \in Legs(bracket) : book[o].state # "none"

\* A row that says its order is over says so of an order that no longer works: neither a
\* placement of unknown outcome nor a leg that expires or is rejected with its group is
\* written off while the broker may execute it.
ClosedLegsAreDead ==
    \A o \in Orders :
        book[o].state \in Open =>
            /\ rows[o].state \notin {"RISK_REJECTED", "EXPIRED", "CANCELLED"}
            /\ rows[o].state = "REJECTED" => o \in Entries

\* One leg acknowledged, another refused or not answered: the call withdraws all of them, and
\* unless the process dies first none keeps working.
FailedGroupsAreWithdrawn ==
    \A group \in Batch :
        (call.step = "withdraw" /\ call.legs = group /\ used.crashes = 0)
            ~> (used.crashes > 0 \/ \A o \in Legs(group) : book[o].state \notin Open)

\* An order that the broker has executed or cancelled ends in its row, whatever was lost,
\* refused or timed out on the way: time and again the ledger knows every end.
OutcomesAreLearned ==
    []<>(\A o \in Orders : book[o].state \in {"filled", "cancelled"}
                              => rows[o].state \in TERMINAL_ORDER_STATES)

\* docs/live_trading_runbook.zh-CN.md:100: a linked order cannot be replaced around its group.
\* The exits of a bracket that works close the quantity its entry opens.
LinkedTermsAgree ==
    \A bracket \in Brackets : \A o \in Legs(bracket) :
        {book[o].state, book[bracket[1]].state} \subseteq {"working"}
            => TermQuantity[book[o].terms] = TermQuantity[book[bracket[1]].terms]
=============================================================================
