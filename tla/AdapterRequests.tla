--------------------------- MODULE AdapterRequests ---------------------------
(***************************************************************************)
(* The IBKR client (_IBApiClient) and its numbers: callers that send a     *)
(* request or an order under a number and wait, and the reader thread that *)
(* hands them what IBKR answers.                                           *)
(*                                                                         *)
(* A keyed request (contract details, historical bars, option parameters,  *)
(* executions) takes the next request id and registers a table of rows     *)
(* under it.  An order takes the next order id and waits for its           *)
(* acknowledgement.  All messages of a connection arrive in the order IBKR *)
(* sends them, and a caller that has timed out does not stop the answer    *)
(* that is under way.  Requests without a number are in AdapterQueries.    *)
(*                                                                         *)
(* Request ids and order ids are two counters that nothing keeps apart,    *)
(* but an error names only a number: _request_errors is one table for      *)
(* both.  Every connection has a client, and so counters and tables, of    *)
(* its own.                                                                *)
(***************************************************************************)
EXTENDS Naturals, Sequences, FiniteSets, SequencesExt

CONSTANTS
    Callers,        \* threads of exec_svc
    FirstRequest,   \* the first request id of a client, _next_req_id + 1
    FirstOrder,     \* the first nextValidId
    RowCount,       \* rows of every answer
    MaxCalls,       \* bound on the calls
    MaxTimeouts,    \* bound on the timeouts
    MaxErrors,      \* bound on the errors IBKR answers
    MaxNotices,     \* bound on repeated nextValidId messages and foreign orders
    MaxConnects     \* bound on the reconnections

ASSUME RequestsAssumption ==
    /\ RowCount \in Nat \ {0} /\ FirstOrder \in Nat \ {0}
    /\ {FirstRequest, MaxCalls, MaxTimeouts, MaxErrors, MaxNotices, MaxConnects} \subseteq Nat

VARIABLES
    caller,         \* what each thread waits for
    connected,      \* _connected_event: the connection has its nextValidId
    nextRequestId,  \* _next_req_id + 1
    nextOrderId,    \* _next_order_id, None as 0
    table,          \* registered request id -> its rows and whether its event is set
    orders,         \* _orders and _order_events: own order id -> whether it is acknowledged
    requestErrors,  \* _request_errors: id -> the calls that IBKR refused
    pending,        \* calls that IBKR has not received
    accepted,       \* the orders that IBKR has taken up: their ids and calls
    wire,           \* messages on their way to the reader thread
    answered,       \* the last call that ended with an answer, and its rows
    counts          \* calls, timeouts, errors, notices and connections so far

requestVars == <<caller, connected, nextRequestId, nextOrderId, table, orders, requestErrors,
                 pending, accepted, wire, answered, counts>>

Idle == [step |-> "idle", id |-> 0, call |-> 0]
NoAnswer == [kind |-> "none", call |-> 0, rows |-> <<>>, error |-> 0, shared |-> FALSE]
NoOrderId == 0

RequestsInit ==
    /\ caller = [c \in Callers |-> Idle]
    /\ connected = TRUE
    /\ nextRequestId = FirstRequest
    /\ nextOrderId = FirstOrder
    /\ table = <<>>
    /\ orders = <<>>
    /\ requestErrors = <<>>
    /\ pending = {}
    /\ accepted = {}
    /\ wire = <<>>
    /\ answered = NoAnswer
    /\ counts = [calls |-> 0, timeouts |-> 0, errors |-> 0, notices |-> 0, connects |-> 0]

\* A partial function with one more argument, and without one.
With(f, id, value) == [i \in DOMAIN f \cup {id} |-> IF i = id THEN value ELSE f[i]]
Without(f, id) == [i \in DOMAIN f \ {id} |-> f[i]]

NewCall == counts.calls + 1

Calls(c, kind, id) ==
    /\ connected
    /\ caller[c].step = "idle"
    /\ counts.calls < MaxCalls
    /\ caller' = [caller EXCEPT ![c] = [step |-> kind, id |-> id, call |-> NewCall]]
    /\ pending' = pending \cup {[kind |-> kind, id |-> id, call |-> NewCall]}
    /\ counts' = [counts EXCEPT !.calls = @ + 1]

\* The number has been given to a request and to an order of this connection.
SharedNumber(id) == id \in FirstRequest..(nextRequestId - 1) /\ id \in DOMAIN orders

\* A caller's thread goes on, with an answer or with an exception.
Answer(c, rows, error) ==
    [kind |-> caller[c].step, call |-> caller[c].call, rows |-> rows, error |-> error,
     shared |-> SharedNumber(caller[c].id)]

Ends(c, answer) ==
    /\ caller' = [caller EXCEPT ![c] = Idle]
    /\ answered' = answer

TimesOut(c) ==
    /\ counts.timeouts < MaxTimeouts
    /\ counts' = [counts EXCEPT !.timeouts = @ + 1]
    /\ Ends(c, NoAnswer)

-----------------------------------------------------------------------------
(* Keyed requests.                                                         *)

\* Faulty variant: the id of a request that has ended is taken again.
LowestFreeId ==
    CHOOSE i \in FirstRequest..nextRequestId :
       /\ i \notin DOMAIN table
       /\ \A k \in FirstRequest..(i - 1) : k \in DOMAIN table

\* _next_id
NextId == nextRequestId

Request(c) ==
    /\ Calls(c, "keyed", NextId)
    /\ nextRequestId' = nextRequestId + 1
    /\ table' = With(table, NextId, [rows |-> <<>>, done |-> FALSE])
    /\ requestErrors' = With(requestErrors, NextId, <<>>)
    /\ UNCHANGED <<connected, nextOrderId, orders, accepted, wire, answered>>

ErrorsOf(id) == IF id \in DOMAIN requestErrors THEN requestErrors[id] ELSE <<>>

\* finally: the request is unregistered.
Unregisters(id) ==
    /\ table' = Without(table, id)
    /\ requestErrors' = Without(requestErrors, id)
    /\ UNCHANGED <<connected, nextRequestId, nextOrderId, orders, pending, accepted, wire>>

\* _raise_request_error comes before the rows.
RequestReturns(c) ==
    LET id == caller[c].id
    IN /\ caller[c].step = "keyed"
       /\ table[id].done
       /\ Ends(c, IF ErrorsOf(id) # <<>> THEN Answer(c, <<>>, Last(ErrorsOf(id)))
                                         ELSE Answer(c, table[id].rows, 0))
       /\ Unregisters(id)
       /\ UNCHANGED counts

RequestTimesOut(c) ==
    /\ caller[c].step = "keyed"
    /\ TimesOut(c)
    /\ Unregisters(caller[c].id)

-----------------------------------------------------------------------------
(* Orders.                                                                 *)

\* _allocate_order_id and submit_order
SubmitOrder(c) ==
    /\ Calls(c, "order", nextOrderId)
    /\ nextOrderId' = nextOrderId + 1
    /\ orders' = With(orders, nextOrderId, FALSE)
    /\ requestErrors' = With(requestErrors, nextOrderId, <<>>)
    /\ UNCHANGED <<connected, nextRequestId, table, accepted, wire, answered>>

OnlyCallerEnds ==
    UNCHANGED <<connected, nextRequestId, nextOrderId, table, orders, requestErrors, pending,
                accepted, wire>>

\* _wait_for_order looks for an error first.  An order that ends in an error is cancelled; what
\* IBKR says of that is one more status.
OrderReturns(c) ==
    LET id == caller[c].id
    IN /\ caller[c].step = "order"
       /\ ErrorsOf(id) # <<>> \/ orders[id]
       /\ Ends(c, Answer(c, <<>>, IF ErrorsOf(id) # <<>> THEN Last(ErrorsOf(id)) ELSE 0))
       /\ OnlyCallerEnds
       /\ UNCHANGED counts

OrderTimesOut(c) ==
    /\ caller[c].step = "order"
    /\ TimesOut(c)
    /\ OnlyCallerEnds

-----------------------------------------------------------------------------
(* IBKR.                                                                   *)

BrokerSends(messages) ==
    /\ wire' = wire \o messages
    /\ UNCHANGED <<caller, connected, nextRequestId, nextOrderId, table, orders, requestErrors,
                   answered>>

Message(type, p) == [type |-> type, kind |-> p.kind, id |-> p.id, call |-> p.call]
Status(id) == [type |-> "status", kind |-> "order", id |-> id, call |-> 0]
ValidId(id) == [type |-> "valid", kind |-> "order", id |-> id, call |-> 0]

OrdersAmong(calls) == {[id |-> p.id, call |-> p.call] : p \in {q \in calls : q.kind = "order"}}

\* Rows and their end, or the acknowledgement of an order.
BrokerAnswers(p) ==
    /\ p \in pending
    /\ pending' = pending \ {p}
    /\ accepted' = accepted \cup OrdersAmong({p})
    /\ BrokerSends(IF p.kind = "order"
                   THEN <<Message("status", p)>>
                   ELSE [i \in 1..RowCount |-> Message("row", p)] \o <<Message("end", p)>>)
    /\ UNCHANGED counts

BrokerRefuses(p) ==
    /\ p \in pending
    /\ counts.errors < MaxErrors
    /\ pending' = pending \ {p}
    /\ BrokerSends(<<Message("error", p)>>)
    /\ counts' = [counts EXCEPT !.errors = @ + 1]
    /\ UNCHANGED accepted

\* An id beyond those of the orders it has taken up is what IBKR calls the next valid one.
IsNextValidId(id, taken) ==
    /\ id \in {FirstOrder} \cup {o.id + 1 : o \in taken}
    /\ \A o \in taken : o.id < id

\* IBKR repeats nextValidId (reqIds of any user of the connection).
BrokerNotifies(id) ==
    /\ counts.notices < MaxNotices
    /\ IsNextValidId(id, accepted)
    /\ BrokerSends(<<ValidId(id)>>)
    /\ counts' = [counts EXCEPT !.notices = @ + 1]
    /\ UNCHANGED <<pending, accepted>>

\* The status of an order of another client.
BrokerReports(id) ==
    /\ counts.notices < MaxNotices
    /\ BrokerSends(<<Status(id)>>)
    /\ counts' = [counts EXCEPT !.notices = @ + 1]
    /\ UNCHANGED <<pending, accepted>>

\* connect(): the connection was lost, and with it what was under way in both directions - an
\* order may just have reached IBKR.  A new client starts with its own counters and tables;
\* whoever waits at the old one can only time out.
Connect ==
    /\ counts.connects < MaxConnects
    /\ counts' = [counts EXCEPT !.connects = @ + 1]
    /\ \E arrived \in SUBSET {p \in pending : p.kind = "order"} :
          accepted' = accepted \cup OrdersAmong(arrived)
    /\ \E id \in {FirstOrder} \cup {o.id + 1 : o \in accepted'} :
          IsNextValidId(id, accepted') /\ wire' = <<ValidId(id)>>
    /\ connected' = FALSE
    /\ nextRequestId' = FirstRequest
    /\ nextOrderId' = NoOrderId
    /\ table' = <<>>
    /\ orders' = <<>>
    /\ requestErrors' = <<>>
    /\ pending' = {}
    /\ caller' = [c \in Callers |-> Idle]
    /\ answered' = NoAnswer

-----------------------------------------------------------------------------
(* The reader thread.                                                      *)

Arrives(type, m) ==
    /\ wire # <<>>
    /\ m = Head(wire)
    /\ m.type = type
    /\ wire' = Tail(wire)
    /\ UNCHANGED <<caller, nextRequestId, pending, accepted, answered, counts>>

\* A row of a request that has ended finds no table.
RowArrives(m) ==
    /\ Arrives("row", m)
    /\ table' = IF m.id \in DOMAIN table
                THEN [table EXCEPT ![m.id].rows = Append(@, m.call)] ELSE table
    /\ UNCHANGED <<connected, nextOrderId, orders, requestErrors>>

EndArrives(m) ==
    /\ Arrives("end", m)
    /\ table' = IF m.id \in DOMAIN table THEN [table EXCEPT ![m.id].done = TRUE] ELSE table
    /\ UNCHANGED <<connected, nextOrderId, orders, requestErrors>>

\* _complete_on_error: the id is looked up among the requests and the orders alike.
ErrorArrives(m) ==
    /\ Arrives("error", m)
    /\ requestErrors' = IF m.id \in DOMAIN table \cup DOMAIN orders
                        THEN With(requestErrors, m.id, Append(ErrorsOf(m.id), m.call))
                        ELSE requestErrors
    /\ table' = IF m.id \in DOMAIN table THEN [table EXCEPT ![m.id].done = TRUE] ELSE table
    /\ UNCHANGED <<connected, nextOrderId, orders>>

\* Faulty variant: nextValidId is taken as it comes.
NextValidIdTrusting(m) ==
    /\ Arrives("valid", m)
    /\ nextOrderId' = m.id
    /\ connected' = TRUE
    /\ UNCHANGED <<table, orders, requestErrors>>

\* wait_connected lets connect() go on, and with it the callers.
NextValidId(m) ==
    /\ Arrives("valid", m)
    /\ nextOrderId' = IF nextOrderId = NoOrderId \/ m.id > nextOrderId THEN m.id ELSE nextOrderId
    /\ connected' = TRUE
    /\ UNCHANGED <<table, orders, requestErrors>>

\* orderStatus and openOrder: _observe_order_id, then the record.
OrderStatus(m) ==
    /\ Arrives("status", m)
    /\ nextOrderId' = IF nextOrderId = NoOrderId \/ m.id >= nextOrderId THEN m.id + 1
                                                                        ELSE nextOrderId
    /\ orders' = IF m.id \in DOMAIN orders THEN [orders EXCEPT ![m.id] = TRUE] ELSE orders
    /\ UNCHANGED <<connected, table, requestErrors>>

-----------------------------------------------------------------------------
CallerNext(c) ==
    \/ Request(c) \/ RequestReturns(c) \/ RequestTimesOut(c)
    \/ SubmitOrder(c) \/ OrderReturns(c) \/ OrderTimesOut(c)

BrokerNext ==
    \/ \E p \in pending : BrokerAnswers(p) \/ BrokerRefuses(p)
    \/ \E id \in {FirstOrder} \cup {o.id + 1 : o \in accepted} : BrokerNotifies(id)
    \/ BrokerReports(FirstOrder + MaxCalls)

ReaderNext ==
    \E m \in {wire[i] : i \in 1..Len(wire)} :
       RowArrives(m) \/ EndArrives(m) \/ ErrorArrives(m) \/ NextValidId(m) \/ OrderStatus(m)

RequestsNext == (\E c \in Callers : CallerNext(c)) \/ BrokerNext \/ Connect \/ ReaderNext

RequestsSpec == RequestsInit /\ [][RequestsNext]_requestVars

-----------------------------------------------------------------------------
(* Properties.                                                             *)

\* A request that ends without an error has all rows of its own answer and none of another,
\* although answers to requests that timed out arrive after them - unless an order has taken
\* the number of the request.
AnswersAreOwn ==
    answered.kind = "keyed" /\ answered.error = 0 /\ ~answered.shared =>
       answered.rows = [i \in 1..RowCount |-> answered.call]

\* A call fails because IBKR refused that call, whichever errors come late - unless its number
\* is that of a request and of an order.
ErrorsReachTheirRequest ==
    answered.error # 0 /\ ~answered.shared => answered.error = answered.call

\* Both: no call ends with rows or with an error of another, nor without some of its own.
CallsGetTheirAnswers == AnswersAreOwn /\ ErrorsReachTheirRequest

\* No two orders that IBKR has taken up carry one id, although every connection starts its
\* counter anew, orders may be lost with a connection, and IBKR repeats ids that it has not
\* seen used yet.
OrderIdsAreFresh ==
    \A o1, o2 \in accepted : o1 # o2 => o1.id # o2.id

-----------------------------------------------------------------------------
(* What a test says, and the code does not do.                             *)

\* "request errors are raised for the matching request id" (tests/test_ibkr_adapter.py:102): a
\* call fails because IBKR refused that call.
ErrorsAreForTheCall == answered.error # 0 => answered.error = answered.call
=============================================================================
