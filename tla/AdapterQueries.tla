--------------------------- MODULE AdapterQueries ---------------------------
(***************************************************************************)
(* The requests of the IBKR client that carry no number: the open orders,  *)
(* the completed orders and the positions.  All queries of one kind share  *)
(* one table and one event, and a lock admits one of them at a time; what  *)
(* fills the table is whatever the reader thread receives, answers to      *)
(* queries that timed out and unrequested messages included.               *)
(*                                                                         *)
(* Reconciliation reads all three kinds one after another, the account     *)
(* snapshot before an order the positions and the open orders, in threads  *)
(* of their own.  Orders open and end and positions change meanwhile.      *)
(*                                                                         *)
(* One connection: a new one has a client with tables of its own.          *)
(***************************************************************************)
EXTENDS Naturals, Sequences, FiniteSets, Functions

CONSTANTS
    Readers,        \* threads that reconcile or take account snapshots
    Orders,         \* orders of the account, of any client
    Instruments,    \* instruments of which the account has a position
    MaxReadings,    \* bound on reconciliations and snapshots
    MaxQueryTimeouts, \* bound on the timeouts
    MaxChanges      \* bound on the changes at IBKR

ASSUME QueriesAssumption ==
    /\ IsFiniteSet(Orders) /\ IsFiniteSet(Instruments)
    /\ {MaxReadings, MaxQueryTimeouts, MaxChanges} \subseteq Nat

VARIABLES
    reader,         \* what each thread still has to read, and what it has found
    rows,           \* _open_orders, _completed_orders and _positions
    done,           \* their events
    asked,          \* requests and cancellations of each kind on their way to IBKR
    inbox,          \* messages on their way to the reader thread
    order,          \* IBKR's view of each order
    position,       \* how often the position in each instrument has changed
    subscribed,     \* reqPositions is a subscription until cancelPositions
    used            \* readings, timeouts and changes so far

queryVars == <<reader, rows, done, asked, inbox, order, position, subscribed, used>>

Kinds == {"open", "completed", "positions"}

\* Faulty variant: the completed orders are read before the open ones.
ReconciliationSwapped == <<"completed", "open", "positions">>

\* run() of the reconciliation; order_status stops after its first two queries.
Reconciliation == <<"open", "completed", "positions">>

AccountSnapshot == <<"positions", "open">>

NothingAnswered == [kind |-> "none", due |-> {}, rows |-> {}]
NotReading == [plan |-> <<>>, asking |-> FALSE, clean |-> FALSE, due |-> {},
               answer |-> NothingAnswered, known |-> {}, found |-> {}, read |-> {}]

QueriesInit ==
    /\ reader = [r \in Readers |-> NotReading]
    /\ rows = [k \in Kinds |-> {}]
    /\ done = [k \in Kinds |-> FALSE]
    /\ asked = [k \in Kinds |-> <<>>]
    /\ inbox = <<>>
    /\ order \in [Orders -> {"none", "open", "completed"}]
    /\ position = [i \in Instruments |-> 0]
    /\ subscribed = FALSE
    /\ used = [readings |-> 0, timeouts |-> 0, changes |-> 0]

-----------------------------------------------------------------------------
(* What IBKR answers, and when an answer is complete.                      *)

Fact(item, version) == [item |-> item, version |-> version]

\* The state of an order is not compared, its presence is.
Facts(k) ==
    IF k = "positions" THEN {Fact(i, position[i]) : i \in Instruments}
                       ELSE {Fact(o, 0) : o \in {x \in Orders : order[x] = k}}

\* An order that is no longer open need not be among the open ones.
StillDue(k, fact) == k = "open" => order[fact.item] = "open"

IsKnown(fact, facts) == \E f \in facts : f.item = fact.item /\ f.version >= fact.version

Complete(k, due, facts) == \A f \in due : StillDue(k, f) => IsKnown(f, facts)

-----------------------------------------------------------------------------
(* The threads.                                                            *)

StartsReading(r, plan) ==
    /\ reader[r].plan = <<>>
    /\ used.readings < MaxReadings
    /\ used' = [used EXCEPT !.readings = @ + 1]
    /\ reader' = [reader EXCEPT ![r] = [NotReading EXCEPT
                    !.plan = plan,
                    !.clean = TRUE,
                    !.known = {o \in Orders : order[o] # "none"}]]
    /\ UNCHANGED <<rows, done, asked, inbox, order, position, subscribed>>

Asks(r, k) == reader[r].asking /\ Head(reader[r].plan) = k

\* The lock of the kind; _collecting_* is set while it is held.
Held(k) == \E r \in Readers : Asks(r, k)

\* An earlier query of the kind timed out, and its answer is still to come.
AnswerOutstanding(k) ==
    \/ \E i \in 1..Len(asked[k]) : asked[k][i] = "request"
    \/ \E i \in 1..Len(inbox) : inbox[i].type = "end" /\ inbox[i].kind = k

Asking(r, k) ==
    /\ reader[r].plan # <<>>
    /\ ~reader[r].asking
    /\ k = Head(reader[r].plan)
    /\ ~Held(k)
    /\ reader' = [reader EXCEPT ![r].asking = TRUE,
                                ![r].clean = @ /\ ~AnswerOutstanding(k),
                                ![r].due = Facts(k)]
    /\ rows' = [rows EXCEPT ![k] = {}]
    /\ asked' = [asked EXCEPT ![k] = Append(@, "request")]
    /\ UNCHANGED <<inbox, order, position, subscribed, used>>

\* Faulty variant: the event of the last answer is left set.
QueryUncleared(r, k) ==
    /\ Asking(r, k)
    /\ UNCHANGED done

\* request_open_orders, request_completed_orders and request_positions
Query(r, k) ==
    /\ Asking(r, k)
    /\ done' = [done EXCEPT ![k] = FALSE]

\* finally: the positions are cancelled.
Releases(k) ==
    /\ asked' = IF k = "positions" THEN [asked EXCEPT ![k] = Append(@, "cancel")] ELSE asked
    /\ UNCHANGED <<rows, done, inbox, order, position, subscribed>>

QueryReturns(r, k) ==
    /\ Asks(r, k)
    /\ done[k]
    /\ reader' = [reader EXCEPT
         ![r].plan = Tail(@),
         ![r].asking = FALSE,
         ![r].answer = [kind |-> k, due |-> reader[r].due, rows |-> rows[k]],
         ![r].found = IF k = "positions" THEN @ ELSE @ \cup {f.item : f \in rows[k]},
         ![r].read = @ \cup {k}]
    /\ Releases(k)
    /\ UNCHANGED used

\* The exception ends the whole reading.
QueryTimesOut(r, k) ==
    /\ Asks(r, k)
    /\ used.timeouts < MaxQueryTimeouts
    /\ used' = [used EXCEPT !.timeouts = @ + 1]
    /\ reader' = [reader EXCEPT ![r] = NotReading]
    /\ Releases(k)

-----------------------------------------------------------------------------
(* IBKR.                                                                   *)

Row(k, fact) == [type |-> "row", kind |-> k, fact |-> fact]
End(k) == [type |-> "end", kind |-> k]

\* Rows in any order, and their end.
Batch(k) ==
    LET n == Cardinality(Facts(k))
    IN {[i \in 1..n |-> Row(k, s[i])] \o <<End(k)>> :
           s \in {f \in [1..n -> Facts(k)] : Range(f) = Facts(k)}}

BrokerAnswersQuery(k) ==
    /\ asked[k] # <<>> /\ Head(asked[k]) = "request"
    /\ asked' = [asked EXCEPT ![k] = Tail(@)]
    /\ \E batch \in Batch(k) : inbox' = inbox \o batch
    /\ subscribed' = (subscribed \/ k = "positions")
    /\ UNCHANGED <<reader, rows, done, order, position, used>>

BrokerCancels(k) ==
    /\ asked[k] # <<>> /\ Head(asked[k]) = "cancel"
    /\ asked' = [asked EXCEPT ![k] = Tail(@)]
    /\ subscribed' = FALSE
    /\ UNCHANGED <<reader, rows, done, inbox, order, position, used>>

Changes ==
    /\ used.changes < MaxChanges
    /\ used' = [used EXCEPT !.changes = @ + 1]
    /\ UNCHANGED <<reader, rows, done, asked, subscribed>>

\* An order is acknowledged: openOrder comes without a request.
OrderOpens(o) ==
    /\ order[o] = "none"
    /\ Changes
    /\ order' = [order EXCEPT ![o] = "open"]
    /\ inbox' = Append(inbox, Row("open", Fact(o, 0)))
    /\ UNCHANGED position

\* Filled, cancelled or expired: an orderStatus, which none of the tables takes.
OrderEnds(o) ==
    /\ order[o] = "open"
    /\ Changes
    /\ order' = [order EXCEPT ![o] = "completed"]
    /\ UNCHANGED <<inbox, position>>

PositionChanges(i) ==
    /\ Changes
    /\ position' = [position EXCEPT ![i] = @ + 1]
    /\ inbox' = IF subscribed THEN Append(inbox, Row("positions", Fact(i, position[i] + 1)))
                              ELSE inbox
    /\ UNCHANGED order

-----------------------------------------------------------------------------
(* The reader thread.                                                      *)

MessageArrives(m, type, k) ==
    /\ inbox # <<>>
    /\ m = Head(inbox)
    /\ m.type = type /\ m.kind = k
    /\ inbox' = Tail(inbox)
    /\ UNCHANGED <<reader, asked, order, position, subscribed, used>>

\* openOrder, completedOrder and position: an open order is taken only for a query.
QueryRowArrives(m, k) ==
    /\ MessageArrives(m, "row", k)
    /\ rows' = IF k # "open" \/ Held(k) THEN [rows EXCEPT ![k] = @ \cup {m.fact}] ELSE rows
    /\ UNCHANGED done

\* openOrderEnd, completedOrdersEnd and positionEnd: only that of the positions is always taken.
QueryEndArrives(m, k) ==
    /\ MessageArrives(m, "end", k)
    /\ done' = IF k = "positions" \/ Held(k) THEN [done EXCEPT ![k] = TRUE] ELSE done
    /\ UNCHANGED rows

-----------------------------------------------------------------------------
QueriesNext ==
    \/ \E r \in Readers :
          \/ \E plan \in {Reconciliation, AccountSnapshot} : StartsReading(r, plan)
          \/ \E k \in Kinds : Query(r, k) \/ QueryReturns(r, k) \/ QueryTimesOut(r, k)
    \/ \E k \in Kinds : BrokerAnswersQuery(k) \/ BrokerCancels(k)
    \/ \E o \in Orders : OrderOpens(o) \/ OrderEnds(o)
    \/ \E i \in Instruments : PositionChanges(i)
    \/ \E m \in {inbox[i] : i \in 1..Len(inbox)}, k \in Kinds :
          QueryRowArrives(m, k) \/ QueryEndArrives(m, k)

QueriesSpec == QueriesInit /\ [][QueriesNext]_queryVars

-----------------------------------------------------------------------------
(* Properties.  They are about readings none of whose queries was asked    *)
(* while the answer to one that timed out was still to come.               *)

\* An answer has every order that was open, or completed, when it was asked for - unless it is
\* open no longer - and every position as it was then or later, whoever else asks, and whatever
\* comes unrequested or was left in the table.
AnswersAreComplete ==
    \A r \in Readers :
       reader[r].clean => Complete(reader[r].answer.kind, reader[r].answer.due,
                                   reader[r].answer.rows)

\* A reconciliation finds every order that IBKR had when it began among the open or the completed
\* ones, although orders end between the two queries.
OrdersAreNotMissed ==
    \A r \in Readers :
       reader[r].clean /\ {"open", "completed"} \subseteq reader[r].read =>
          reader[r].known \subseteq reader[r].found

-----------------------------------------------------------------------------
(* What the runbook says, and the code does not keep.                      *)

\* "After a timeout the full snapshot decides whether a replacement took effect"
\* (docs/live_trading_runbook.zh-CN.md:96): a snapshot of the open orders is full.
OpenOrderSnapshotsAreFull ==
    \A r \in Readers :
       reader[r].answer.kind = "open" =>
          Complete("open", reader[r].answer.due, reader[r].answer.rows)
=============================================================================
