---------------------------- MODULE Adapter_proofs ----------------------------
(***************************************************************************)
(* Proofs about AdapterRequests and AdapterQueries, for every number of    *)
(* threads, calls, timeouts, messages, orders, changes and reconnections.  *)
(*                                                                         *)
(* Of AdapterRequests: IBKR never takes up two orders with one id, an      *)
(* answer is the caller's own and complete, and an error reaches the call  *)
(* that IBKR refused - the last two unless a number is given to a request  *)
(* and to an order.  Of AdapterQueries: what a query reads is complete,    *)
(* and a reconciliation misses no order, unless a query was asked while    *)
(* the answer to one that timed out was still to come.                     *)
(***************************************************************************)
EXTENDS AdapterRequests, AdapterQueries, SequenceTheorems, FiniteSetTheorems, TLAPS

-----------------------------------------------------------------------------
(* Types.                                                                  *)

CallKinds == {"keyed", "order"}
MessageTypes == {"row", "end", "status", "error", "valid"}
Messages == [type : MessageTypes, kind : CallKinds, id : Nat, call : Nat]
Callings == [step : CallKinds \cup {"idle"}, id : Nat, call : Nat]
Underways == [kind : CallKinds, id : Nat, call : Nat \ {0}]
Accepted == [id : Nat, call : Nat]
Tables == [rows : Seq(Nat), done : BOOLEAN]
Counts == [calls : Nat, timeouts : Nat, errors : Nat, notices : Nat, connects : Nat]

RequestTypes ==
    /\ caller \in [Callers -> Callings]
    /\ connected \in BOOLEAN
    /\ nextRequestId \in Nat /\ nextOrderId \in Nat
    /\ \A id \in DOMAIN table : table[id] \in Tables
    /\ \A id \in DOMAIN requestErrors : requestErrors[id] \in Seq(Nat)
    /\ pending \subseteq Underways
    /\ accepted \subseteq Accepted
    /\ wire \in Seq(Messages)
    /\ counts \in Counts

-----------------------------------------------------------------------------
(* Ids.                                                                    *)

WireAt == 1..Len(wire)

\* A number that this connection has given to a call of the kind.
Given(kind, id) ==
    \/ kind = "keyed" /\ id \in FirstRequest..(nextRequestId - 1)
    \/ kind = "order" /\ id \in DOMAIN orders

\* What IBKR says of its own accord.
IsNotice(m) == m.type \in {"valid", "status"} /\ m.kind = "order"

\* Whatever is under way carries a number that was given to a call of its kind.
GivenInv ==
    /\ FirstRequest <= nextRequestId
    /\ \A c \in Callers : caller[c].step # "idle" => Given(caller[c].step, caller[c].id)
    /\ \A p \in pending : Given(p.kind, p.id)
    /\ \A i \in WireAt : IsNotice(wire[i]) \/ Given(wire[i].kind, wire[i].id)
    /\ \A c, d \in Callers :
          caller[c].step = "keyed" /\ caller[d].step = "keyed" /\ caller[c].id = caller[d].id
          => c = d

\* The counter is beyond all ids that IBKR has taken up or may still take up; a connection
\* without its nextValidId has no orders, and the first message brings one that is.
OrdersInv ==
    /\ connected => /\ \A id \in DOMAIN orders : id \in Nat /\ id < nextOrderId
                    /\ \A o \in accepted : o.id < nextOrderId
    /\ ~connected => /\ DOMAIN orders = {} /\ nextOrderId = NoOrderId
                     /\ wire # <<>> /\ wire[1].type = "valid"
                     /\ \A o \in accepted : o.id < wire[1].id
    /\ \A p \in pending : p.kind = "order" => \A o \in accepted : o.id # p.id
    /\ \A p, q \in pending : p.kind = "order" /\ q.kind = "order" /\ p.id = q.id => p = q
    /\ OrderIdsAreFresh

\* What IBKR says of a refused call, on its way or kept for the caller, is about that call.
OwnErrors(c) ==
    /\ caller[c].call # 0
    /\ \A i \in DOMAIN ErrorsOf(caller[c].id) : ErrorsOf(caller[c].id)[i] = caller[c].call
    /\ \A p \in pending : p.id = caller[c].id => p.call = caller[c].call
    /\ \A i \in WireAt :
          wire[i].type = "error" /\ wire[i].id = caller[c].id => wire[i].call = caller[c].call

Alone(c) == caller[c].step # "idle" /\ ~SharedNumber(caller[c].id)

ErrorsInv == \A c \in Callers : Alone(c) => OwnErrors(c)

-----------------------------------------------------------------------------
(* The answer of a call, from the request to the last message.             *)

\* A transfer t is a call under its kind and id, with what the caller's table has of it.
InPending(t) == {p \in pending : p.kind = t.kind /\ p.id = t.id}
OnWire(t) == {i \in WireAt : wire[i].kind = t.kind /\ wire[i].id = t.id}
Has(t, n) == Len(t.rows) = n /\ \A i \in 1..n : t.rows[i] = t.call

Asked(t) ==
    /\ InPending(t) = {[kind |-> t.kind, id |-> t.id, call |-> t.call]}
    /\ OnWire(t) = {}
    /\ Has(t, 0) /\ ~t.done /\ t.errors = <<>>

\* n rows and their end are still on the way, one behind the other.
Coming(t) ==
    /\ InPending(t) = {}
    /\ ~t.done /\ t.errors = <<>>
    /\ \E first \in WireAt, n \in 0..RowCount :
          /\ first + n \in WireAt
          /\ OnWire(t) = first..(first + n)
          /\ \A i \in first..(first + n - 1) : wire[i].type = "row" /\ wire[i].call = t.call
          /\ wire[first + n].type = "end"
          /\ Has(t, RowCount - n)

Received(t) ==
    /\ InPending(t) = {} /\ OnWire(t) = {}
    /\ Has(t, RowCount) /\ t.done /\ t.errors = <<>>

Refused(t) ==
    /\ InPending(t) = {}
    /\ ~t.done /\ t.errors = <<>>
    /\ \E i \in WireAt : OnWire(t) = {i} /\ wire[i].type = "error"

Failed(t) == InPending(t) = {} /\ OnWire(t) = {} /\ t.errors # <<>>

Transfer(t) == Asked(t) \/ Coming(t) \/ Received(t) \/ Refused(t) \/ Failed(t)

KeyedTransfer(c) ==
    [kind |-> "keyed", id |-> caller[c].id, call |-> caller[c].call,
     rows |-> table[caller[c].id].rows, done |-> table[caller[c].id].done,
     errors |-> ErrorsOf(caller[c].id)]

KeyedInv ==
    \A c \in Callers : caller[c].step = "keyed" =>
        /\ caller[c].id \in DOMAIN table
        /\ Alone(c) => Transfer(KeyedTransfer(c))

-----------------------------------------------------------------------------
(* Messages.                                                               *)

\* A message about a call under way.
LEMMA MessageIsTyped ==
    ASSUME NEW p \in Underways, NEW type \in MessageTypes
    PROVE  Message(type, p) \in Messages
<1>1. p.kind \in CallKinds /\ p.id \in Nat /\ p.call \in Nat
  BY DEF Underways
<1> QED BY <1>1 DEF Message, Messages

\* What IBKR answers to a call: its acknowledgement, or the rows and their end.
LEMMA AnswerMessages ==
    ASSUME NEW p \in Underways
    PROVE  LET batch == [i \in 1..RowCount |-> Message("row", p)] \o <<Message("end", p)>>
           IN /\ batch \in Seq(Messages)
              /\ Len(batch) = RowCount + 1
              /\ \A i \in 1..RowCount : batch[i] = Message("row", p)
              /\ batch[RowCount + 1] = Message("end", p)
<1> DEFINE row == Message("row", p)
           end == Message("end", p)
           head == [i \in 1..RowCount |-> row]
<1>1. row \in Messages /\ end \in Messages
  BY MessageIsTyped DEF MessageTypes
<1>2. RowCount \in Nat
  BY RequestsAssumption
<1> HIDE DEF row, end
<1>3. head \in Seq(Messages) /\ Len(head) = RowCount /\ \A i \in 1..RowCount : head[i] = row
  BY <1>1, <1>2
<1>4. <<end>> \in Seq(Messages) /\ Len(<<end>>) = 1 /\ <<end>>[1] = end
  BY <1>1
<1> HIDE DEF head
<1>5. /\ head \o <<end>> \in Seq(Messages)
      /\ Len(head \o <<end>>) = RowCount + 1
      /\ \A i \in 1..RowCount : (head \o <<end>>)[i] = row
      /\ (head \o <<end>>)[RowCount + 1] = end
  BY <1>2, <1>3, <1>4
<1> QED BY <1>5 DEF row, end, head

\* Messages are appended to the wire and taken from its head.
LEMMA Appended ==
    ASSUME wire \in Seq(Messages), NEW messages \in Seq(Messages), wire' = wire \o messages
    PROVE  /\ wire' \in Seq(Messages)
           /\ Len(wire') = Len(wire) + Len(messages)
           /\ \A i \in 1..Len(wire) : wire'[i] = wire[i]
           /\ \A i \in 1..Len(messages) : wire'[Len(wire) + i] = messages[i]
OBVIOUS

\* What is left on the wire after its head is taken.
LEMMA Taken ==
    ASSUME wire \in Seq(Messages), wire # <<>>, wire' = Tail(wire)
    PROVE  /\ wire' \in Seq(Messages)
           /\ Len(wire) >= 1
           /\ Len(wire') = Len(wire) - 1
           /\ \A i \in 1..Len(wire') : wire'[i] = wire[i + 1]
           /\ Head(wire) = wire[1]
           /\ Head(wire) \in Messages
OBVIOUS

-----------------------------------------------------------------------------
(* The steps, by what they do to ids and messages.                         *)

\* A call begins under the next number of its kind.
Begins(c, kind, id) ==
    /\ connected /\ caller[c].step = "idle"
    /\ caller' = [caller EXCEPT ![c] = [step |-> kind, id |-> id, call |-> NewCall]]
    /\ pending' = pending \cup {[kind |-> kind, id |-> id, call |-> NewCall]}
    /\ requestErrors' = With(requestErrors, id, <<>>)
    /\ \/ /\ kind = "keyed" /\ id = nextRequestId /\ nextRequestId' = nextRequestId + 1
          /\ table' = With(table, id, [rows |-> <<>>, done |-> FALSE])
          /\ UNCHANGED <<nextOrderId, orders>>
       \/ /\ kind = "order" /\ id = nextOrderId /\ nextOrderId' = nextOrderId + 1
          /\ orders' = With(orders, id, FALSE)
          /\ UNCHANGED <<nextRequestId, table>>
    /\ UNCHANGED <<connected, accepted, wire, answered>>

\* A call ends; the table of a request goes with it.
Leaves(c) ==
    /\ caller[c].step # "idle"
    /\ caller' = [caller EXCEPT ![c] = Idle]
    /\ \/ caller[c].step = "order" /\ UNCHANGED <<table, requestErrors>>
       \/ /\ caller[c].step = "keyed"
          /\ table' = Without(table, caller[c].id)
          /\ requestErrors' = Without(requestErrors, caller[c].id)
    /\ UNCHANGED <<connected, nextRequestId, nextOrderId, orders, pending, accepted, wire>>

\* IBKR sends: about a call under way, or on its own.
IsAbout(m, p) == m.kind = p.kind /\ m.id = p.id /\ m.call = p.call
Sends(messages) ==
    /\ messages \in Seq(Messages)
    /\ wire' = wire \o messages
    /\ \A i \in 1..Len(messages) :
          \/ messages[i].type \in {"valid", "status"} /\ messages[i].kind = "order"
          \/ \E p \in pending : IsAbout(messages[i], p)
    /\ pending' \subseteq pending
    /\ UNCHANGED <<caller, connected, nextRequestId, nextOrderId, table, orders, requestErrors,
                   answered>>

\* The reader thread takes a message.
Reads(m) ==
    /\ wire # <<>> /\ m = Head(wire) /\ wire' = Tail(wire)
    /\ DOMAIN orders' = DOMAIN orders
    /\ nextOrderId <= nextOrderId'
    /\ m.type = "valid" => m.id <= nextOrderId' /\ connected'
    /\ m.type # "valid" => connected' = connected
    /\ UNCHANGED <<caller, nextRequestId, pending, accepted, answered>>

\* A call begins in two ways.
LEMMA CallBegins ==
    ASSUME RequestTypes, NEW c \in Callers, Request(c) \/ SubmitOrder(c)
    PROVE  \E kind \in CallKinds, id \in Nat : Begins(c, kind, id)
<1>1. nextRequestId \in Nat /\ nextOrderId \in Nat
  BY DEF RequestTypes
<1>2. CASE Request(c)
  <2>1. Begins(c, "keyed", nextRequestId)
    BY <1>2 DEF Request, Calls, NextId, Begins
  <2> QED BY <1>1, <2>1 DEF CallKinds
<1>3. CASE SubmitOrder(c)
  <2>1. Begins(c, "order", nextOrderId)
    BY <1>3 DEF SubmitOrder, Calls, Begins
  <2> QED BY <1>1, <2>1 DEF CallKinds
<1> QED BY <1>2, <1>3

\* And ends in four.
LEMMA CallEnds ==
    ASSUME NEW c \in Callers,
           \/ RequestReturns(c) \/ RequestTimesOut(c) \/ OrderReturns(c) \/ OrderTimesOut(c)
    PROVE  Leaves(c)
BY DEF RequestReturns, RequestTimesOut, OrderReturns, OrderTimesOut, Ends, TimesOut, Unregisters,
       OnlyCallerEnds, Leaves

\* The messages of IBKR.
LEMMA BrokerSendsOne ==
    ASSUME NEW m \in Messages
    PROVE  <<m>> \in Seq(Messages) /\ Len(<<m>>) = 1 /\ <<m>>[1] = m
OBVIOUS

LEMMA BrokerSteps ==
    ASSUME RequestTypes, BrokerNext
    PROVE  \E messages : Sends(messages)
<1>1. ASSUME NEW p \in pending, BrokerAnswers(p) \/ BrokerRefuses(p)
      PROVE  \E messages : Sends(messages)
  <2>1. p \in Underways
    BY DEF RequestTypes
  <2>2. /\ pending' \subseteq pending
        /\ UNCHANGED <<caller, connected, nextRequestId, nextOrderId, table, orders,
                       requestErrors, answered>>
    BY <1>1 DEF BrokerAnswers, BrokerRefuses, BrokerSends
  <2>3. ASSUME NEW type \in MessageTypes, wire' = wire \o <<Message(type, p)>>
        PROVE  \E messages : Sends(messages)
    <3>1. PICK m : m = Message(type, p)
      OBVIOUS
    <3>2. m \in Messages /\ IsAbout(m, p)
      BY <2>1, <3>1, MessageIsTyped DEF Message, IsAbout
    <3>3. wire' = wire \o <<m>>
      BY <2>3, <3>1
    <3>4. \A i \in 1..Len(<<m>>) : <<m>>[i] = m
      BY <3>2, BrokerSendsOne
    <3>5. Sends(<<m>>)
      BY <2>2, <3>2, <3>3, <3>4, BrokerSendsOne DEF Sends
    <3> QED BY <3>5
  <2>4. CASE BrokerRefuses(p)
    BY <2>3, <2>4 DEF BrokerRefuses, BrokerSends, MessageTypes
  <2>5. CASE BrokerAnswers(p) /\ p.kind = "order"
    BY <2>3, <2>5 DEF BrokerAnswers, BrokerSends, MessageTypes
  <2>6. CASE BrokerAnswers(p) /\ p.kind # "order"
    <3>1. PICK batch : batch = [i \in 1..RowCount |-> Message("row", p)] \o <<Message("end", p)>>
      OBVIOUS
    <3>2. /\ batch \in Seq(Messages) /\ Len(batch) = RowCount + 1
          /\ \A i \in 1..RowCount : batch[i] = Message("row", p)
          /\ batch[RowCount + 1] = Message("end", p)
      BY <2>1, <3>1, AnswerMessages
    <3>3. \A i \in 1..Len(batch) : i \in 1..RowCount \/ i = RowCount + 1
      BY <3>2, RequestsAssumption
    <3>4. \A type : IsAbout(Message(type, p), p)
      BY DEF Message, IsAbout
    <3>5. \A i \in 1..Len(batch) : IsAbout(batch[i], p)
      BY <3>2, <3>3, <3>4
    <3>6. wire' = wire \o batch
      BY <2>6, <3>1 DEF BrokerAnswers, BrokerSends
    <3>7. Sends(batch)
      BY <2>2, <3>2, <3>5, <3>6 DEF Sends
    <3> QED BY <3>7
  <2> QED BY <1>1, <2>4, <2>5, <2>6
<1>2. ASSUME NEW id \in Nat, BrokerNotifies(id) \/ BrokerReports(id)
      PROVE  \E messages : Sends(messages)
  <2>1. PICK m : /\ m \in {ValidId(id), Status(id)}
                 /\ wire' = wire \o <<m>>
    BY <1>2 DEF BrokerNotifies, BrokerReports, BrokerSends
  <2>2. m \in Messages /\ m.type \in {"valid", "status"} /\ m.kind = "order"
    BY <2>1 DEF ValidId, Status, Messages, MessageTypes, CallKinds
  <2>3. \A i \in 1..Len(<<m>>) : <<m>>[i] = m
    BY <2>2, BrokerSendsOne
  <2>4. /\ pending' \subseteq pending
        /\ UNCHANGED <<caller, connected, nextRequestId, nextOrderId, table, orders,
                       requestErrors, answered>>
    BY <1>2 DEF BrokerNotifies, BrokerReports, BrokerSends
  <2>5. Sends(<<m>>)
    BY <2>1, <2>2, <2>3, <2>4, BrokerSendsOne DEF Sends
  <2> QED BY <2>5
<1>3. {FirstOrder} \cup {o.id + 1 : o \in accepted} \subseteq Nat /\ FirstOrder + MaxCalls \in Nat
  BY RequestsAssumption DEF RequestTypes, Accepted
<1> QED BY <1>1, <1>2, <1>3 DEF BrokerNext

\* The steps of the reader thread.
LEMMA ReaderSteps ==
    ASSUME RequestTypes, ReaderNext
    PROVE  \E m : /\ Reads(m)
                  /\ \/ RowArrives(m) \/ EndArrives(m) \/ ErrorArrives(m) \/ NextValidId(m)
                     \/ OrderStatus(m)
<1>1. PICK m : RowArrives(m) \/ EndArrives(m) \/ ErrorArrives(m) \/ NextValidId(m)
               \/ OrderStatus(m)
  BY DEF ReaderNext
<1>2. /\ wire # <<>> /\ m = Head(wire) /\ wire' = Tail(wire)
      /\ UNCHANGED <<caller, nextRequestId, pending, accepted, answered>>
  BY <1>1 DEF RowArrives, EndArrives, ErrorArrives, NextValidId, OrderStatus, Arrives
<1>3. nextOrderId \in Nat /\ m.id \in Nat
  <2>1. m \in Messages
    BY <1>2, Taken DEF RequestTypes
  <2> QED BY <2>1 DEF RequestTypes, Messages
<1>4. CASE RowArrives(m) \/ EndArrives(m) \/ ErrorArrives(m)
  <2>1. m.type # "valid" /\ UNCHANGED <<connected, nextOrderId, orders>>
    BY <1>4 DEF RowArrives, EndArrives, ErrorArrives, Arrives
  <2> QED BY <1>1, <1>2, <1>3, <2>1 DEF Reads
<1>5. CASE NextValidId(m)
  <2>1. /\ connected' /\ orders' = orders
        /\ nextOrderId <= nextOrderId' /\ m.id <= nextOrderId' /\ m.type = "valid"
    BY <1>3, <1>5 DEF NextValidId, Arrives, NoOrderId
  <2> QED BY <1>1, <1>2, <2>1 DEF Reads
<1>6. CASE OrderStatus(m)
  <2>1. /\ connected' = connected /\ DOMAIN orders' = DOMAIN orders
        /\ nextOrderId <= nextOrderId' /\ m.type # "valid"
    BY <1>3, <1>6 DEF OrderStatus, Arrives, NoOrderId
  <2> QED BY <1>1, <1>2, <2>1 DEF Reads
<1> QED BY <1>1, <1>4, <1>5, <1>6

\* Each step is one of these.
LEMMA StepKinds ==
    ASSUME RequestTypes, RequestsNext
    PROVE  \/ \E c \in Callers, kind \in CallKinds, id \in Nat : Begins(c, kind, id)
           \/ \E c \in Callers : Leaves(c)
           \/ BrokerNext /\ \E messages : Sends(messages)
           \/ Connect
           \/ \E m : /\ Reads(m)
                     /\ \/ RowArrives(m) \/ EndArrives(m) \/ ErrorArrives(m) \/ NextValidId(m)
                        \/ OrderStatus(m)
BY CallBegins, CallEnds, BrokerSteps, ReaderSteps DEF RequestsNext, CallerNext

-----------------------------------------------------------------------------
(* Every step keeps the types.                                             *)

\* Counting one more.
LEMMA CountTypes ==
    ASSUME RequestTypes
    PROVE  /\ [counts EXCEPT !.calls = @ + 1] \in Counts
           /\ [counts EXCEPT !.timeouts = @ + 1] \in Counts
           /\ [counts EXCEPT !.errors = @ + 1] \in Counts
           /\ [counts EXCEPT !.notices = @ + 1] \in Counts
           /\ [counts EXCEPT !.connects = @ + 1] \in Counts
<1>1. counts \in Counts
  BY DEF RequestTypes
<1>2. /\ counts.calls + 1 \in Nat /\ counts.timeouts + 1 \in Nat /\ counts.errors + 1 \in Nat
      /\ counts.notices + 1 \in Nat /\ counts.connects + 1 \in Nat
  BY <1>1 DEF Counts
<1>3. \A n \in Nat : /\ [counts EXCEPT !.calls = n] \in Counts
                     /\ [counts EXCEPT !.timeouts = n] \in Counts
                     /\ [counts EXCEPT !.errors = n] \in Counts
                     /\ [counts EXCEPT !.notices = n] \in Counts
                     /\ [counts EXCEPT !.connects = n] \in Counts
  BY <1>1 DEF Counts
<1> QED BY <1>2, <1>3

LEMMA CountsStayTyped ==
    ASSUME RequestTypes, RequestsNext
    PROVE  counts' \in Counts
<1>1. \/ counts' = counts
      \/ counts' = [counts EXCEPT !.calls = @ + 1]
      \/ counts' = [counts EXCEPT !.timeouts = @ + 1]
      \/ counts' = [counts EXCEPT !.errors = @ + 1]
      \/ counts' = [counts EXCEPT !.notices = @ + 1]
      \/ counts' = [counts EXCEPT !.connects = @ + 1]
  BY Zenon
     DEF RequestsNext, CallerNext, BrokerNext, ReaderNext, Request, RequestReturns,
         RequestTimesOut, SubmitOrder, OrderReturns, OrderTimesOut, Calls, TimesOut, Connect,
         BrokerAnswers, BrokerRefuses, BrokerNotifies, BrokerReports, RowArrives, EndArrives,
         ErrorArrives, NextValidId, OrderStatus, Arrives
<1> QED BY <1>1, CountTypes DEF RequestTypes

\* The errors kept for an id are a sequence, where there are none too.
LEMMA ErrorsType ==
    ASSUME RequestTypes, NEW id
    PROVE  ErrorsOf(id) \in Seq(Nat)
BY DEF RequestTypes, ErrorsOf

\* The id and the call of an accepted order are numbers.
LEMMA OrdersAmongTypes ==
    ASSUME NEW calls, calls \subseteq Underways
    PROVE  OrdersAmong(calls) \subseteq Accepted
BY DEF OrdersAmong, Underways, Accepted

\* accepted only grows by orders under way.
LEMMA AcceptedGrows ==
    ASSUME RequestsNext
    PROVE  \E arrived \in SUBSET pending :
              accepted' = accepted \cup OrdersAmong(arrived)
<1>1. OrdersAmong({}) = {}
  BY DEF OrdersAmong
<1>2. ASSUME NEW p \in pending, BrokerAnswers(p)
      PROVE  accepted' = accepted \cup OrdersAmong({p})
  BY <1>2 DEF BrokerAnswers
<1>3. ASSUME Connect
      PROVE  \E arrived \in SUBSET pending : accepted' = accepted \cup OrdersAmong(arrived)
  BY <1>3 DEF Connect
<1>4. \/ accepted' = accepted
      \/ \E p \in pending : BrokerAnswers(p)
      \/ Connect
  BY Zenon
     DEF RequestsNext, CallerNext, BrokerNext, ReaderNext, Request, RequestReturns,
         RequestTimesOut, SubmitOrder, OrderReturns, OrderTimesOut, Unregisters, OnlyCallerEnds,
         BrokerRefuses, BrokerNotifies, BrokerReports, RowArrives, EndArrives, ErrorArrives,
         NextValidId, OrderStatus, Arrives
<1>5. CASE accepted' = accepted
  <2>1. accepted' = accepted \cup OrdersAmong({}) /\ {} \in SUBSET pending
    BY <1>1, <1>5
  <2> QED BY <2>1
<1>6. ASSUME NEW p \in pending, BrokerAnswers(p)
      PROVE  \E arrived \in SUBSET pending : accepted' = accepted \cup OrdersAmong(arrived)
  <2>1. {p} \in SUBSET pending
    OBVIOUS
  <2> QED BY <1>2, <1>6, <2>1
<1> QED BY <1>3, <1>4, <1>5, <1>6

\* Every step keeps the types.
LEMMA TypesPreserved ==
    ASSUME RequestTypes, RequestsNext
    PROVE  RequestTypes'
<1>1. counts' \in Counts
  BY CountsStayTyped
<1>2. accepted' \subseteq Accepted
  <2>1. PICK arrived \in SUBSET pending : accepted' = accepted \cup OrdersAmong(arrived)
    BY AcceptedGrows
  <2>2. OrdersAmong(arrived) \subseteq Accepted
    BY OrdersAmongTypes DEF RequestTypes
  <2> QED BY <2>1, <2>2 DEF RequestTypes
<1>3. <<>> \in Seq(Nat) /\ NewCall \in Nat \ {0} /\ Idle \in Callings
  BY DEF RequestTypes, Counts, NewCall, Idle, Callings
<1>4. ASSUME NEW c \in Callers, NEW kind \in CallKinds, NEW id \in Nat, Begins(c, kind, id)
      PROVE  RequestTypes'
  <2>1. /\ [step |-> kind, id |-> id, call |-> NewCall] \in Callings
        /\ [kind |-> kind, id |-> id, call |-> NewCall] \in Underways
    BY <1>3 DEF Callings, Underways
  <2>2. caller' \in [Callers -> Callings] /\ pending' \subseteq Underways
    BY <1>4, <2>1 DEF Begins, RequestTypes
  <2>3. \A k \in DOMAIN table' : table'[k] \in Tables
    <3>1. [rows |-> <<>>, done |-> FALSE] \in Tables
      BY <1>3 DEF Tables
    <3>2. table' = table \/ table' = With(table, id, [rows |-> <<>>, done |-> FALSE])
      BY <1>4 DEF Begins
    <3> QED BY <3>1, <3>2 DEF With, RequestTypes
  <2>4. \A k \in DOMAIN requestErrors' : requestErrors'[k] \in Seq(Nat)
    BY <1>3, <1>4 DEF Begins, With, RequestTypes
  <2>5. /\ nextRequestId' \in Nat /\ nextOrderId' \in Nat /\ connected' = connected
        /\ wire' = wire
    <3>1. nextRequestId \in Nat /\ nextOrderId \in Nat
      BY DEF RequestTypes
    <3>2. /\ nextRequestId' \in {nextRequestId, nextRequestId + 1}
          /\ nextOrderId' \in {nextOrderId, nextOrderId + 1}
          /\ connected' = connected /\ wire' = wire
      BY <1>4 DEF Begins
    <3> QED BY <3>1, <3>2
  <2> QED BY <1>1, <1>2, <2>2, <2>3, <2>4, <2>5 DEF RequestTypes
<1>5. ASSUME NEW c \in Callers, Leaves(c)
      PROVE  RequestTypes'
  <2>1. caller' \in [Callers -> Callings]
    BY <1>3, <1>5 DEF Leaves, RequestTypes
  <2>2. \A k \in DOMAIN table' : table'[k] \in Tables
    BY <1>5 DEF Leaves, Without, RequestTypes
  <2>3. \A k \in DOMAIN requestErrors' : requestErrors'[k] \in Seq(Nat)
    BY <1>5 DEF Leaves, Without, RequestTypes
  <2>4. UNCHANGED <<connected, nextRequestId, nextOrderId, pending, wire>>
    BY <1>5 DEF Leaves
  <2> QED BY <1>1, <1>2, <2>1, <2>2, <2>3, <2>4 DEF RequestTypes
<1>6. ASSUME NEW messages, Sends(messages)
      PROVE  RequestTypes'
  <2>1. wire' \in Seq(Messages)
    BY <1>6, Appended DEF Sends, RequestTypes
  <2> QED BY <1>1, <1>2, <1>6, <2>1 DEF Sends, RequestTypes
<1>7. CASE Connect
  <2>1. \E id \in Nat : wire' = <<ValidId(id)>>
    <3>1. {FirstOrder} \cup {o.id + 1 : o \in accepted'} \subseteq Nat
      BY <1>2, RequestsAssumption DEF Accepted
    <3> QED BY <1>7, <3>1 DEF Connect
  <2>2. wire' \in Seq(Messages)
    <3>1. \A id \in Nat : ValidId(id) \in Messages
      BY DEF ValidId, Messages, MessageTypes, CallKinds
    <3> QED BY <2>1, <3>1
  <2>3. caller' \in [Callers -> Callings]
    BY <1>3, <1>7 DEF Connect
  <2>4. /\ connected' \in BOOLEAN /\ nextRequestId' \in Nat /\ nextOrderId' \in Nat
        /\ DOMAIN table' = {} /\ DOMAIN requestErrors' = {} /\ pending' = {}
    <3>1. FirstRequest \in Nat /\ DOMAIN <<>> = {}
      BY RequestsAssumption
    <3>2. /\ connected' = FALSE /\ nextRequestId' = FirstRequest /\ nextOrderId' = 0
          /\ table' = <<>> /\ requestErrors' = <<>> /\ pending' = {}
      BY <1>7 DEF Connect, NoOrderId
    <3> QED BY <3>1, <3>2
  <2> QED BY <1>1, <1>2, <2>2, <2>3, <2>4 DEF RequestTypes
<1>8. ASSUME NEW m, Reads(m),
             RowArrives(m) \/ EndArrives(m) \/ ErrorArrives(m) \/ NextValidId(m) \/ OrderStatus(m)
      PROVE  RequestTypes'
  <2>1. m \in Messages /\ wire' \in Seq(Messages)
        /\ UNCHANGED <<caller, nextRequestId, pending>>
    BY <1>8, Taken DEF Reads, RequestTypes
  <2>2. m.id \in Nat /\ m.call \in Nat
    BY <2>1 DEF Messages
  <2>3. connected' \in BOOLEAN
    BY <1>8 DEF RowArrives, EndArrives, ErrorArrives, NextValidId, OrderStatus, RequestTypes
  <2>4. nextOrderId' \in Nat
    BY <1>8, <2>2
       DEF RowArrives, EndArrives, ErrorArrives, NextValidId, OrderStatus, RequestTypes
  <2>5. \A k \in DOMAIN table' : table'[k] \in Tables
    <3>1. \A t \in Tables : /\ [t EXCEPT !.rows = Append(@, m.call)] \in Tables
                            /\ [t EXCEPT !.done = TRUE] \in Tables
      <4>1. \A batch \in Seq(Nat) : Append(batch, m.call) \in Seq(Nat)
        BY <2>2
      <4> QED BY <4>1 DEF Tables
    <3>2. \/ table' = table
          \/ /\ m.id \in DOMAIN table
             /\ \/ table' = [table EXCEPT ![m.id].rows = Append(@, m.call)]
                \/ table' = [table EXCEPT ![m.id].done = TRUE]
      BY <1>8 DEF RowArrives, EndArrives, ErrorArrives, NextValidId, OrderStatus
    <3>3. \/ table' = table
          \/ \E t \in Tables : m.id \in DOMAIN table /\ table' = [table EXCEPT ![m.id] = t]
      BY <3>1, <3>2 DEF RequestTypes
    <3> QED BY <3>3 DEF RequestTypes
  <2>6. \A k \in DOMAIN requestErrors' : requestErrors'[k] \in Seq(Nat)
    <3>1. Append(ErrorsOf(m.id), m.call) \in Seq(Nat)
      BY <2>2, ErrorsType
    <3>2. CASE ErrorArrives(m)
      <4>1. PICK errors \in Seq(Nat) : errors = Append(ErrorsOf(m.id), m.call)
        BY <3>1
      <4> QED BY <3>2, <4>1 DEF ErrorArrives, With, RequestTypes
    <3>3. CASE ~ErrorArrives(m)
      BY <1>8, <3>3 DEF RowArrives, EndArrives, NextValidId, OrderStatus, RequestTypes
    <3> QED BY <3>2, <3>3
  <2> QED BY <1>1, <1>2, <2>1, <2>3, <2>4, <2>5, <2>6 DEF RequestTypes
<1> QED BY <1>4, <1>5, <1>6, <1>7, <1>8, StepKinds

-----------------------------------------------------------------------------
(* Ids.                                                                    *)

\* The fields that the ids are compared by are numbers.
LEMMA FieldTypes ==
    ASSUME RequestTypes
    PROVE  /\ nextRequestId \in Nat /\ nextOrderId \in Nat /\ connected \in BOOLEAN
           /\ caller \in [Callers -> Callings] /\ wire \in Seq(Messages)
           /\ \A c \in Callers : /\ caller[c].step \in {"idle", "keyed", "order"}
                                 /\ caller[c].id \in Nat /\ caller[c].call \in Nat
           /\ \A p \in pending : /\ p \in Underways /\ p.kind \in CallKinds
                                 /\ p.id \in Nat /\ p.call \in Nat \ {0}
           /\ \A o \in accepted : o \in Accepted /\ o.id \in Nat /\ o.call \in Nat
           /\ \A i \in WireAt : /\ wire[i] \in Messages /\ wire[i].kind \in CallKinds
                                /\ wire[i].id \in Nat /\ wire[i].call \in Nat
           /\ FirstRequest \in Nat /\ FirstOrder \in Nat
<1>1. \A c \in Callers : caller[c] \in Callings
  BY DEF RequestTypes
<1>2. \A i \in WireAt : wire[i] \in Messages
  BY DEF RequestTypes, WireAt
<1> QED BY <1>1, <1>2, RequestsAssumption
        DEF RequestTypes, Callings, CallKinds, Underways, Accepted, Messages

\* Numbers stay given as long as the connection lasts, and none becomes private again.
LEMMA GivenStays ==
    ASSUME RequestTypes, GivenInv, RequestsNext, ~Connect
    PROVE  /\ nextRequestId <= nextRequestId' /\ DOMAIN orders \subseteq DOMAIN orders'
           /\ \A kind, id : Given(kind, id) => Given(kind, id)'
           /\ \A id : SharedNumber(id) => SharedNumber(id)'
<1> DEFINE Grows == /\ nextRequestId' \in {nextRequestId, nextRequestId + 1}
                    /\ DOMAIN orders \subseteq DOMAIN orders'
<1>1. nextRequestId \in Nat /\ FirstRequest \in Nat
  BY FieldTypes
<1>2. Grows
  <2>1. ASSUME NEW c \in Callers, NEW kind \in CallKinds, NEW id \in Nat, Begins(c, kind, id)
        PROVE  Grows
    BY <2>1 DEF Begins, With
  <2>2. ASSUME NEW c \in Callers, Leaves(c)
        PROVE  Grows
    BY <2>2 DEF Leaves
  <2>3. ASSUME NEW messages, Sends(messages)
        PROVE  Grows
    BY <2>3 DEF Sends
  <2>4. ASSUME NEW m, Reads(m)
        PROVE  Grows
    BY <2>4 DEF Reads
  <2> QED BY <2>1, <2>2, <2>3, <2>4, StepKinds
<1>3. nextRequestId <= nextRequestId'
      /\ FirstRequest..(nextRequestId - 1) \subseteq FirstRequest..(nextRequestId' - 1)
  <2>1. nextRequestId' = nextRequestId \/ nextRequestId' = nextRequestId + 1
    BY <1>2
  <2> QED BY <1>1, <2>1
<1> QED BY <1>2, <1>3 DEF Given, SharedNumber

\* The number of a new call is in nobody's hands, unless as a number of the other kind.
LEMMA FreshNumber ==
    ASSUME RequestTypes, GivenInv, OrdersInv, NEW c \in Callers, NEW kind \in CallKinds,
           NEW id \in Nat, Begins(c, kind, id)
    PROVE  /\ ~Given(kind, id)
           /\ Given(kind, id)'
           /\ \A k \in CallKinds : Given(k, id) => SharedNumber(id)'
<1>1. /\ nextRequestId \in Nat /\ FirstRequest \in Nat /\ nextOrderId \in Nat
      /\ FirstRequest <= nextRequestId
  BY FieldTypes DEF GivenInv
<1>2. CASE kind = "keyed"
  <2>1. id = nextRequestId /\ nextRequestId' = nextRequestId + 1 /\ orders' = orders
    BY <1>2 DEF Begins
  <2>2. id \notin FirstRequest..(nextRequestId - 1) /\ id \in FirstRequest..(nextRequestId' - 1)
    BY <1>1, <2>1
  <2> QED BY <1>2, <2>1, <2>2 DEF Given, SharedNumber, CallKinds
<1>3. CASE kind = "order"
  <2>1. id = nextOrderId /\ orders' = With(orders, id, FALSE) /\ nextRequestId' = nextRequestId
        /\ connected
    BY <1>3 DEF Begins
  <2>2. id \notin DOMAIN orders
    BY <1>1, <2>1 DEF OrdersInv
  <2>3. id \in DOMAIN orders'
    BY <2>1 DEF With
  <2> QED BY <1>3, <2>1, <2>2, <2>3 DEF Given, SharedNumber, CallKinds
<1> QED BY <1>2, <1>3 DEF CallKinds

\* What has been on the wire, and what is new on it.
LEMMA WireGrows ==
    ASSUME RequestTypes, NEW messages, Sends(messages)
    PROVE  /\ \A i \in WireAt : i \in WireAt' /\ wire'[i] = wire[i]
           /\ \A i \in WireAt' : i \in WireAt \/ \E j \in 1..Len(messages) : wire'[i] = messages[j]
<1>1. /\ Len(wire) \in Nat /\ Len(messages) \in Nat
      /\ Len(wire') = Len(wire) + Len(messages)
      /\ \A i \in 1..Len(wire) : wire'[i] = wire[i]
      /\ \A i \in 1..Len(messages) : wire'[Len(wire) + i] = messages[i]
  BY Appended DEF RequestTypes, Sends
<1>2. ASSUME NEW i \in WireAt', i \notin WireAt
      PROVE  \E j \in 1..Len(messages) : wire'[i] = messages[j]
  <2>1. i - Len(wire) \in 1..Len(messages) /\ i = Len(wire) + (i - Len(wire))
    BY <1>1, <1>2 DEF WireAt
  <2> QED BY <1>1, <2>1
<1> QED BY <1>1, <1>2 DEF WireAt

LEMMA WireShrinks ==
    ASSUME RequestTypes, NEW m, Reads(m)
    PROVE  /\ 1 \in WireAt /\ m = wire[1]
           /\ \A i \in WireAt' : i + 1 \in WireAt /\ wire'[i] = wire[i + 1]
BY Taken DEF RequestTypes, Reads, WireAt

\* Every step keeps the numbers with what they were given to.
LEMMA GivenPreserved ==
    ASSUME RequestTypes, GivenInv, OrdersInv, RequestsNext
    PROVE  GivenInv'
<1>1. /\ caller \in [Callers -> Callings] /\ nextRequestId \in Nat /\ FirstRequest \in Nat
      /\ \A c \in Callers : caller[c].step \in {"idle", "keyed", "order"}
  BY FieldTypes
<1>2. ~Connect => /\ FirstRequest <= nextRequestId'
                  /\ \A kind, id : Given(kind, id) => Given(kind, id)'
  <2>1. ~Connect => nextRequestId <= nextRequestId' /\ nextRequestId' \in Nat
    BY GivenStays, TypesPreserved DEF RequestTypes
  <2>2. FirstRequest <= nextRequestId
    BY DEF GivenInv
  <2> QED BY <1>1, <2>1, <2>2, GivenStays
<1>3. ASSUME NEW c \in Callers, NEW kind \in CallKinds, NEW id \in Nat, Begins(c, kind, id),
             ~Connect
      PROVE  GivenInv'
  <2>1. /\ \A d \in Callers : d # c => caller'[d] = caller[d]
        /\ caller'[c].step = kind /\ caller'[c].id = id
        /\ \A p \in pending' : p \in pending \/ (p.kind = kind /\ p.id = id)
        /\ wire' = wire
    BY <1>1, <1>3 DEF Begins
  <2>2. ~Given(kind, id) /\ Given(kind, id)'
    BY <1>3, FreshNumber
  <2>3. \A d \in Callers : caller'[d].step # "idle" => Given(caller[d].step, caller[d].id)'
    BY <1>2, <1>3, <2>1, <2>2 DEF GivenInv
  <2>4. \A p \in pending' : Given(p.kind, p.id)'
    BY <1>2, <1>3, <2>1, <2>2 DEF GivenInv
  <2>5. \A i \in WireAt' : IsNotice(wire'[i]) \/ Given(wire[i].kind, wire[i].id)'
    BY <1>2, <1>3, <2>1 DEF GivenInv, WireAt
  <2>6. ASSUME NEW d \in Callers, d # c, caller[d].step = "keyed", kind = "keyed"
        PROVE  caller[d].id # id
    BY <2>2, <2>6 DEF GivenInv
  <2>7. \A d, e \in Callers :
           caller'[d].step = "keyed" /\ caller'[e].step = "keyed" /\ caller'[d].id = caller'[e].id
           => d = e
    BY <2>1, <2>6 DEF GivenInv
  <2> QED BY <1>2, <1>3, <2>3, <2>4, <2>5, <2>7 DEF GivenInv
<1>4. ASSUME NEW c \in Callers, Leaves(c), ~Connect
      PROVE  GivenInv'
  <2>1. /\ \A d \in Callers : d # c => caller'[d] = caller[d]
        /\ caller'[c].step = "idle"
        /\ pending' = pending /\ wire' = wire
    BY <1>1, <1>4 DEF Leaves, Idle
  <2> QED BY <1>2, <1>4, <2>1 DEF GivenInv, WireAt
<1>5. ASSUME NEW messages, Sends(messages), ~Connect
      PROVE  GivenInv'
  <2>1. \A j \in 1..Len(messages) :
           IsNotice(messages[j]) \/ Given(messages[j].kind, messages[j].id)
    BY <1>5 DEF Sends, IsAbout, GivenInv, IsNotice
  <2>2. \A i \in WireAt' : IsNotice(wire'[i]) \/ Given(wire'[i].kind, wire'[i].id)
    BY <1>5, <2>1, WireGrows DEF GivenInv
  <2>3. caller' = caller /\ pending' \subseteq pending
    BY <1>5 DEF Sends
  <2> QED BY <1>2, <1>5, <2>2, <2>3 DEF GivenInv
<1>6. ASSUME NEW m, Reads(m), ~Connect
      PROVE  GivenInv'
  <2>1. \A i \in WireAt' : IsNotice(wire'[i]) \/ Given(wire'[i].kind, wire'[i].id)
    BY <1>6, WireShrinks DEF GivenInv
  <2>2. caller' = caller /\ pending' = pending
    BY <1>6 DEF Reads
  <2> QED BY <1>2, <1>6, <2>1, <2>2 DEF GivenInv
<1>7. CASE Connect
  <2>1. /\ nextRequestId' = FirstRequest /\ pending' = {}
        /\ \A c \in Callers : caller'[c].step = "idle"
        /\ \E id : wire' = <<ValidId(id)>>
    BY <1>7 DEF Connect, Idle
  <2>2. \A i \in WireAt' : IsNotice(wire'[i])
    <3>1. PICK id : wire' = <<ValidId(id)>>
      BY <2>1
    <3>2. \A v : Len(<<v>>) = 1 /\ <<v>>[1] = v
      OBVIOUS
    <3> QED BY <3>1, <3>2 DEF WireAt, ValidId, IsNotice
  <2> QED BY <1>1, <2>1, <2>2 DEF GivenInv
<1> QED BY <1>3, <1>4, <1>5, <1>6, <1>7, StepKinds

\* Orders that are taken up are new to IBKR: their ids are those of orders under way.
LEMMA FreshStays ==
    ASSUME RequestTypes, OrdersInv, NEW arrived, arrived \subseteq pending,
           accepted' = accepted \cup OrdersAmong(arrived), pending' \subseteq pending \ arrived
    PROVE  /\ \A p \in pending' : p.kind = "order" => \A o \in accepted' : o.id # p.id
           /\ \A p, q \in pending' :
                 p.kind = "order" /\ q.kind = "order" /\ p.id = q.id => p = q
           /\ OrderIdsAreFresh'
           /\ \A o \in accepted' :
                 o \in accepted \/ \E p \in arrived : p.kind = "order" /\ o.id = p.id
<1>1. \A o \in OrdersAmong(arrived) :
         \E p \in arrived : p.kind = "order" /\ o = [id |-> p.id, call |-> p.call]
  BY DEF OrdersAmong
<1>2. \A o \in accepted' :
         o \in accepted \/ \E p \in arrived : p.kind = "order" /\ o = [id |-> p.id, call |-> p.call]
  BY <1>1
<1>3. ASSUME NEW p \in pending', p.kind = "order", NEW o \in accepted'
      PROVE  o.id # p.id
  BY <1>2, <1>3 DEF OrdersInv
<1>4. ASSUME NEW o1 \in accepted', NEW o2 \in accepted', o1.id = o2.id
      PROVE  o1 = o2
  BY <1>2, <1>4 DEF OrdersInv, OrderIdsAreFresh
<1> QED BY <1>2, <1>3, <1>4 DEF OrdersInv, OrderIdsAreFresh

\* Every step keeps the order ids apart.
LEMMA OrdersPreserved ==
    ASSUME RequestTypes, GivenInv, OrdersInv, RequestsNext
    PROVE  OrdersInv'
<1>1. /\ nextOrderId \in Nat /\ connected \in BOOLEAN /\ wire \in Seq(Messages)
      /\ \A p \in pending : p \in Underways /\ p.id \in Nat
      /\ \A o \in accepted : o.id \in Nat
      /\ nextOrderId' \in Nat
      /\ \A i \in WireAt : wire[i].id \in Nat
  <2>1. nextOrderId' \in Nat
    BY TypesPreserved DEF RequestTypes
  <2> QED BY <2>1, FieldTypes
<1>2. \A p \in pending : p.kind = "order" => p.id \in DOMAIN orders
  BY DEF GivenInv, Given
<1>3. ASSUME NEW c \in Callers, NEW kind \in CallKinds, NEW id \in Nat, Begins(c, kind, id)
      PROVE  OrdersInv'
  <2>1. PICK p : p = [kind |-> kind, id |-> id, call |-> NewCall]
    OBVIOUS
  <2>2. /\ connected /\ connected' /\ pending' = pending \cup {p} /\ accepted' = accepted
        /\ p.kind = kind /\ p.id = id
    BY <1>3, <2>1 DEF Begins
  <2>3. CASE kind = "keyed"
    BY <1>3, <2>2, <2>3 DEF Begins, OrdersInv, OrderIdsAreFresh
  <2>4. CASE kind = "order"
    <3>1. /\ id = nextOrderId /\ nextOrderId' = nextOrderId + 1
          /\ DOMAIN orders' = DOMAIN orders \cup {id}
      BY <1>3, <2>4 DEF Begins, With
    <3>2. /\ \A k \in DOMAIN orders : k \in Nat /\ k < id
          /\ \A o \in accepted : o.id < id
      BY <2>2, <3>1 DEF OrdersInv
    <3>3. /\ \A k \in DOMAIN orders' : k \in Nat /\ k < nextOrderId'
          /\ \A o \in accepted' : o.id < nextOrderId'
      BY <1>1, <2>2, <3>1, <3>2
    <3>4. /\ \A q \in pending : q.kind = "order" => q.id # id
          /\ \A o \in accepted : o.id # id
      BY <1>1, <1>2, <3>2
    <3>5. /\ \A q \in pending' : q.kind = "order" => \A o \in accepted' : o.id # q.id
          /\ \A q, s \in pending' :
                q.kind = "order" /\ s.kind = "order" /\ q.id = s.id => q = s
      BY <2>2, <3>4 DEF OrdersInv
    <3> QED BY <2>2, <3>3, <3>5 DEF OrdersInv, OrderIdsAreFresh
  <2> QED BY <2>3, <2>4 DEF CallKinds
<1>4. ASSUME NEW c \in Callers, Leaves(c)
      PROVE  OrdersInv'
  BY <1>4 DEF Leaves, OrdersInv, OrderIdsAreFresh
<1>5. ASSUME NEW messages, Sends(messages), BrokerNext
      PROVE  OrdersInv'
  <2>1. \E arrived : /\ arrived \subseteq pending
                     /\ accepted' = accepted \cup OrdersAmong(arrived)
                     /\ pending' \subseteq pending \ arrived
    <3>1. ASSUME NEW p \in pending, BrokerAnswers(p)
          PROVE  accepted' = accepted \cup OrdersAmong({p}) /\ pending' = pending \ {p}
      BY <3>1 DEF BrokerAnswers
    <3>2. ASSUME NEW p \in pending, BrokerRefuses(p)
          PROVE  accepted' = accepted /\ pending' \subseteq pending
      BY <3>2 DEF BrokerRefuses
    <3>3. ASSUME NEW id, BrokerNotifies(id) \/ BrokerReports(id)
          PROVE  accepted' = accepted /\ pending' \subseteq pending
      BY <3>3 DEF BrokerNotifies, BrokerReports
    <3>4. OrdersAmong({}) = {}
      BY DEF OrdersAmong
    <3>5. CASE \E p \in pending : BrokerAnswers(p)
      <4>1. PICK p \in pending : BrokerAnswers(p)
        BY <3>5
      <4>2. {p} \subseteq pending /\ accepted' = accepted \cup OrdersAmong({p})
            /\ pending' \subseteq pending \ {p}
        BY <3>1, <4>1
      <4> QED BY <4>2
    <3>6. CASE accepted' = accepted /\ pending' \subseteq pending
      <4>1. {} \subseteq pending /\ accepted' = accepted \cup OrdersAmong({})
            /\ pending' \subseteq pending \ {}
        BY <3>4, <3>6
      <4> QED BY <4>1
    <3> QED BY <1>5, <3>2, <3>3, <3>5, <3>6 DEF BrokerNext
  <2>2. PICK arrived : /\ arrived \subseteq pending
                       /\ accepted' = accepted \cup OrdersAmong(arrived)
                       /\ pending' \subseteq pending \ arrived
    BY <2>1
  <2>3. /\ \A p \in pending' : p.kind = "order" => \A o \in accepted' : o.id # p.id
        /\ \A p, q \in pending' : p.kind = "order" /\ q.kind = "order" /\ p.id = q.id => p = q
        /\ OrderIdsAreFresh'
        /\ \A o \in accepted' :
              o \in accepted \/ \E p \in arrived : p.kind = "order" /\ o.id = p.id
    BY <2>2, FreshStays
  <2>4. connected' = connected /\ nextOrderId' = nextOrderId /\ orders' = orders
    BY <1>5 DEF Sends
  <2>5. connected => \A o \in accepted' : o.id < nextOrderId
    BY <1>2, <2>2, <2>3 DEF OrdersInv
  <2>6. ~connected => /\ wire' # <<>> /\ wire'[1].type = "valid"
                      /\ \A o \in accepted' : o.id < wire'[1].id
    <3>1. ASSUME ~connected
          PROVE  /\ wire' # <<>> /\ wire'[1].type = "valid"
                 /\ \A o \in accepted' : o.id < wire'[1].id
      <4>1. 1 \in WireAt
        BY <1>1, <3>1 DEF OrdersInv, WireAt
      <4>2. 1 \in WireAt' /\ wire'[1] = wire[1]
        BY <1>5, <4>1, WireGrows
      <4>3. \A o \in accepted' : o \in accepted
        BY <1>2, <2>2, <2>3, <3>1 DEF OrdersInv
      <4>4. wire' # <<>>
        BY <4>2 DEF WireAt
      <4> QED BY <3>1, <4>2, <4>3, <4>4 DEF OrdersInv
    <3> QED BY <3>1
  <2> QED BY <2>3, <2>4, <2>5, <2>6 DEF OrdersInv
<1>6. CASE Connect
  <2>1. PICK arrived \in SUBSET {p \in pending : p.kind = "order"} :
           accepted' = accepted \cup OrdersAmong(arrived)
    BY <1>6 DEF Connect
  <2>2. PICK id : IsNextValidId(id, accepted') /\ wire' = <<ValidId(id)>>
    BY <1>6 DEF Connect
  <2>3. connected' = FALSE /\ nextOrderId' = NoOrderId /\ orders' = <<>> /\ pending' = {}
    BY <1>6 DEF Connect
  <2>4. OrderIdsAreFresh'
    BY <2>1, <2>3, FreshStays
  <2>5. wire' # <<>> /\ wire'[1] = ValidId(id)
    BY <2>2
  <2>6. wire'[1].type = "valid" /\ wire'[1].id = id
    BY <2>5 DEF ValidId
  <2>7. DOMAIN orders' = {}
    BY <2>3
  <2>8. \A o \in accepted' : o.id < id
    BY <2>2 DEF IsNextValidId
  <2> QED BY <2>3, <2>4, <2>5, <2>6, <2>7, <2>8 DEF OrdersInv
<1>7. ASSUME NEW m, Reads(m)
      PROVE  OrdersInv'
  <2>1. /\ DOMAIN orders' = DOMAIN orders /\ nextOrderId <= nextOrderId'
        /\ m.type = "valid" => m.id <= nextOrderId' /\ connected'
        /\ m.type # "valid" => connected' = connected
        /\ pending' = pending /\ accepted' = accepted
        /\ m = wire[1] /\ 1 \in WireAt
    BY <1>7, WireShrinks DEF Reads
  <2>2. CASE connected
    <3>1. connected'
      BY <2>1, <2>2
    <3>2. /\ \A k \in DOMAIN orders : k \in Nat /\ k < nextOrderId
          /\ \A o \in accepted : o.id < nextOrderId
      BY <2>2 DEF OrdersInv
    <3>3. /\ \A k \in DOMAIN orders' : k \in Nat /\ k < nextOrderId'
          /\ \A o \in accepted' : o.id < nextOrderId'
      BY <1>1, <2>1, <3>2
    <3> QED BY <2>1, <3>1, <3>3 DEF OrdersInv, OrderIdsAreFresh
  <2>3. CASE ~connected
    <3>1. m.type = "valid" /\ DOMAIN orders = {} /\ \A o \in accepted : o.id < m.id
      BY <2>1, <2>3 DEF OrdersInv
    <3>2. connected' /\ m.id <= nextOrderId' /\ m.id \in Nat
      BY <1>1, <2>1, <3>1
    <3>3. \A o \in accepted' : o.id < nextOrderId'
      BY <1>1, <2>1, <3>1, <3>2
    <3> QED BY <2>1, <3>1, <3>2, <3>3 DEF OrdersInv, OrderIdsAreFresh
  <2> QED BY <2>2, <2>3
<1> QED BY <1>3, <1>4, <1>5, <1>6, <1>7, StepKinds

-----------------------------------------------------------------------------
(* Errors.                                                                 *)

\* A caller that is not part of the step keeps its call, and its number alone.
LEMMA AloneStays ==
    ASSUME RequestTypes, GivenInv, RequestsNext, ~Connect, NEW d \in Callers, Alone(d)',
           caller'[d] = caller[d]
    PROVE  Alone(d)
<1>1. \A id : SharedNumber(id) => SharedNumber(id)'
  BY GivenStays
<1> QED BY <1>1 DEF Alone, SharedNumber

\* Every step keeps the errors with the calls that IBKR refused.
LEMMA ErrorsPreserved ==
    ASSUME RequestTypes, GivenInv, OrdersInv, ErrorsInv, RequestsNext
    PROVE  ErrorsInv'
<1>1. /\ caller \in [Callers -> Callings]
      /\ \A c \in Callers : caller[c].step \in {"idle", "keyed", "order"}
      /\ \A p \in pending : p.kind \in CallKinds
      /\ \A i \in WireAt : wire[i].kind \in CallKinds
  BY FieldTypes
<1>2. SUFFICES ASSUME NEW d \in Callers, Alone(d)'
               PROVE  OwnErrors(d)'
  BY DEF ErrorsInv
<1>3. caller'[d].step # "idle"
  BY <1>2 DEF Alone
<1>4. ASSUME NEW c \in Callers, NEW kind \in CallKinds, NEW id \in Nat, Begins(c, kind, id),
             ~Connect
      PROVE  OwnErrors(d)'
  <2>1. /\ caller'[c] = [step |-> kind, id |-> id, call |-> NewCall]
        /\ \A e \in Callers : e # c => caller'[e] = caller[e]
        /\ pending' = pending \cup {[kind |-> kind, id |-> id, call |-> NewCall]}
        /\ requestErrors' = With(requestErrors, id, <<>>)
        /\ wire' = wire
    BY <1>1, <1>4 DEF Begins
  <2>2. \A k \in CallKinds : Given(k, id) => SharedNumber(id)'
    BY <1>4, FreshNumber
  <2>3. ASSUME caller'[d].id = id
        PROVE  /\ \A p \in pending : p.id # id
               /\ \A i \in WireAt : wire[i].type = "error" => wire[i].id # id
               /\ \A e \in Callers : caller[e].step # "idle" => caller[e].id # id
    <3>1. ~SharedNumber(id)'
      BY <1>2, <2>3 DEF Alone, SharedNumber
    <3>2. \A k \in CallKinds : ~Given(k, id)
      BY <2>2, <3>1
    <3> QED BY <1>1, <3>2 DEF GivenInv, CallKinds, IsNotice
  <2>4. CASE d = c
    <3>1. NewCall # 0
      BY DEF NewCall, RequestTypes, Counts
    <3>2. ErrorsOf(id)' = <<>>
      BY <2>1 DEF ErrorsOf, With
    <3>3. caller'[d].id = id /\ caller'[d].call = NewCall
      BY <2>1, <2>4
    <3>4. \A i \in DOMAIN ErrorsOf(caller[d].id)' : FALSE
      BY <3>2, <3>3 DEF ErrorsOf
    <3>5. \A p \in pending' : p.id = id => p.call = NewCall
      BY <2>1, <2>3, <3>3
    <3>6. \A i \in WireAt' : wire'[i].type = "error" => wire'[i].id # id
      BY <2>1, <2>3, <3>3 DEF WireAt
    <3> QED BY <3>1, <3>3, <3>4, <3>5, <3>6 DEF OwnErrors
  <2>5. CASE d # c
    <3>1. caller'[d] = caller[d]
      BY <2>1, <2>5
    <3>2. OwnErrors(d) /\ caller[d].id # id
      BY <1>2, <1>3, <1>4, <2>3, <3>1, AloneStays DEF ErrorsInv
    <3>3. ErrorsOf(caller[d].id)' = ErrorsOf(caller[d].id)
      BY <2>1, <3>1, <3>2 DEF ErrorsOf, With
    <3> QED BY <2>1, <3>1, <3>2, <3>3 DEF OwnErrors, WireAt
  <2> QED BY <2>4, <2>5
<1>5. ASSUME NEW c \in Callers, Leaves(c), ~Connect
      PROVE  OwnErrors(d)'
  <2>1. caller'[c].step = "idle" /\ \A e \in Callers : e # c => caller'[e] = caller[e]
    BY <1>1, <1>5 DEF Leaves, Idle
  <2>2. caller'[d] = caller[d] /\ OwnErrors(d)
    BY <1>2, <1>3, <1>5, <2>1, AloneStays DEF ErrorsInv
  <2>3. ErrorsOf(caller[d].id)' = ErrorsOf(caller[d].id) \/ ErrorsOf(caller[d].id)' = <<>>
    BY <1>5, <2>2 DEF Leaves, ErrorsOf, Without
  <2>4. pending' = pending /\ wire' = wire
    BY <1>5 DEF Leaves
  <2>5. \A i \in DOMAIN ErrorsOf(caller[d].id)' : ErrorsOf(caller[d].id)'[i] = caller[d].call
    BY <2>2, <2>3 DEF OwnErrors
  <2> QED BY <2>2, <2>4, <2>5 DEF OwnErrors, WireAt
<1>6. ASSUME NEW messages, Sends(messages), ~Connect
      PROVE  OwnErrors(d)'
  <2>1. caller' = caller /\ requestErrors' = requestErrors /\ pending' \subseteq pending
    BY <1>6 DEF Sends
  <2>2. OwnErrors(d)
    BY <1>2, <1>6, <2>1, AloneStays DEF ErrorsInv
  <2>3. \A j \in 1..Len(messages) :
           messages[j].type = "error" /\ messages[j].id = caller[d].id =>
              messages[j].call = caller[d].call
    BY <1>6, <2>2 DEF Sends, IsAbout, OwnErrors
  <2>4. \A i \in WireAt' :
           wire'[i].type = "error" /\ wire'[i].id = caller[d].id => wire'[i].call = caller[d].call
    BY <1>6, <2>2, <2>3, WireGrows DEF OwnErrors
  <2> QED BY <2>1, <2>2, <2>4 DEF OwnErrors, ErrorsOf
<1>7. ASSUME NEW m, Reads(m), ~Connect,
             RowArrives(m) \/ EndArrives(m) \/ ErrorArrives(m) \/ NextValidId(m) \/ OrderStatus(m)
      PROVE  OwnErrors(d)'
  <2>1. caller' = caller /\ pending' = pending
    BY <1>7 DEF Reads
  <2>2. OwnErrors(d)
    BY <1>2, <1>7, <2>1, AloneStays DEF ErrorsInv
  <2>3. /\ 1 \in WireAt /\ m = wire[1]
        /\ \A i \in WireAt' : i + 1 \in WireAt /\ wire'[i] = wire[i + 1]
    BY <1>7, WireShrinks
  <2>4. \A i \in WireAt' :
           wire'[i].type = "error" /\ wire'[i].id = caller[d].id => wire'[i].call = caller[d].call
    BY <2>2, <2>3 DEF OwnErrors
  <2>5. \A i \in DOMAIN ErrorsOf(caller[d].id)' : ErrorsOf(caller[d].id)'[i] = caller[d].call
    <3>1. PICK id : id = caller[d].id
      OBVIOUS
    <3>2. \A i \in DOMAIN ErrorsOf(id) : ErrorsOf(id)[i] = caller[d].call
      BY <2>2, <3>1 DEF OwnErrors
    <3>3. \/ ErrorsOf(id)' = ErrorsOf(id)
          \/ ErrorsOf(id)' = Append(ErrorsOf(id), m.call) /\ m.id = id /\ m.type = "error"
      <4>1. \/ requestErrors' = requestErrors
            \/ /\ requestErrors' = With(requestErrors, m.id, Append(ErrorsOf(m.id), m.call))
               /\ m.type = "error"
        BY <1>7 DEF RowArrives, EndArrives, ErrorArrives, NextValidId, OrderStatus, Arrives
      <4> QED BY <4>1 DEF ErrorsOf, With
    <3>4. ErrorsOf(id)' = Append(ErrorsOf(id), m.call) /\ m.id = id /\ m.type = "error"
          => \A i \in DOMAIN ErrorsOf(id)' : ErrorsOf(id)'[i] = caller[d].call
      <4>1. PICK errors : errors = ErrorsOf(id) /\ errors \in Seq(Nat)
        BY ErrorsType
      <4>2. m.id = id /\ m.type = "error" => m.call = caller[d].call
        BY <2>2, <2>3, <3>1 DEF OwnErrors
      <4>3. \A i \in DOMAIN Append(errors, m.call) :
               Append(errors, m.call)[i] = IF i \in DOMAIN errors THEN errors[i] ELSE m.call
        BY <4>1
      <4> QED BY <3>2, <4>1, <4>2, <4>3
    <3>5. \A i \in DOMAIN ErrorsOf(id)' : ErrorsOf(id)'[i] = caller[d].call
      BY <3>2, <3>3, <3>4
    <3> QED BY <2>1, <3>1, <3>5 DEF ErrorsOf
  <2> QED BY <2>1, <2>2, <2>4, <2>5 DEF OwnErrors
<1>8. CASE Connect
  BY <1>3, <1>8 DEF Connect, Idle
<1> QED BY <1>4, <1>5, <1>6, <1>7, <1>8, StepKinds

-----------------------------------------------------------------------------
(* Transfers.                                                              *)

\* A message about another call, or one more behind the wire.
About(t, m) == m.kind = t.kind /\ m.id = t.id

\* A transfer that neither IBKR nor the reader thread touches stays what it is.
LEMMA TransferUntouched ==
    ASSUME NEW t, Transfer(t), InPending(t)' = InPending(t), wire' = wire
    PROVE  Transfer(t)'
<1>1. OnWire(t)' = OnWire(t) /\ WireAt' = WireAt
  BY DEF OnWire, WireAt
<1> QED BY <1>1 DEF Transfer, Asked, Coming, Received, Refused, Failed, Has

\* So does one whose neighbours are answered.
LEMMA TransferPassedBy ==
    ASSUME wire \in Seq(Messages), NEW t, Transfer(t), InPending(t)' = InPending(t),
           NEW messages \in Seq(Messages), wire' = wire \o messages,
           \A i \in 1..Len(messages) : ~About(t, messages[i])
    PROVE  Transfer(t)'
<1>1. /\ Len(wire) \in Nat /\ Len(wire') = Len(wire) + Len(messages) /\ Len(messages) \in Nat
      /\ \A i \in 1..Len(wire) : wire'[i] = wire[i]
      /\ \A i \in 1..Len(messages) : wire'[Len(wire) + i] = messages[i]
  BY Appended
<1>2. WireAt \subseteq WireAt' /\ \A i \in WireAt : wire'[i] = wire[i]
  BY <1>1 DEF WireAt
<1>3. ASSUME NEW i \in WireAt', i \notin WireAt
      PROVE  ~About(t, wire'[i])
  <2>1. i - Len(wire) \in 1..Len(messages) /\ i = Len(wire) + (i - Len(wire))
    BY <1>1, <1>3 DEF WireAt
  <2> QED BY <1>1, <2>1
<1>4. OnWire(t)' = OnWire(t)
  BY <1>2, <1>3 DEF OnWire, About
<1>5. CASE Coming(t)
  <2>1. PICK first \in WireAt, n \in 0..RowCount :
           /\ first + n \in WireAt
           /\ OnWire(t) = first..(first + n)
           /\ \A i \in first..(first + n - 1) : wire[i].type = "row" /\ wire[i].call = t.call
           /\ wire[first + n].type = "end"
           /\ Has(t, RowCount - n)
    BY <1>5 DEF Coming
  <2>2. \A i \in first..(first + n - 1) : i \in WireAt
    <3>1. /\ RowCount \in Nat /\ n \in Nat /\ first \in Nat /\ first >= 1
          /\ first + n <= Len(wire)
      BY <1>1, <2>1, RequestsAssumption DEF WireAt
    <3>2. \A i \in first..(first + n - 1) : i \in 1..Len(wire)
      BY <1>1, <3>1
    <3> QED BY <3>2 DEF WireAt
  <2>3. /\ first \in WireAt' /\ first + n \in WireAt'
        /\ OnWire(t)' = first..(first + n)
        /\ \A i \in first..(first + n - 1) : wire'[i].type = "row" /\ wire'[i].call = t.call
        /\ wire'[first + n].type = "end"
        /\ Has(t, RowCount - n)'
    BY <1>2, <1>4, <2>1, <2>2 DEF Has
  <2>4. InPending(t)' = {} /\ ~t.done /\ t.errors = <<>>
    BY <1>5 DEF Coming
  <2>5. Coming(t)'
    BY <2>3, <2>4 DEF Coming
  <2> QED BY <2>5 DEF Transfer
<1>6. CASE Refused(t)
  BY <1>2, <1>4, <1>6 DEF Transfer, Refused
<1>7. CASE Asked(t) \/ Received(t) \/ Failed(t)
  BY <1>4, <1>7 DEF Transfer, Asked, Received, Failed, Has
<1> QED BY <1>5, <1>6, <1>7 DEF Transfer

\* IBKR answers the call: its rows and their end are on the way.
LEMMA TransferAnswered ==
    ASSUME wire \in Seq(Messages), NEW t, Asked(t), NEW p \in Underways, p \in InPending(t),
           p.kind # "order", BrokerAnswers(p)
    PROVE  Transfer(t)'
<1>1. PICK batch : batch = [i \in 1..RowCount |-> Message("row", p)] \o <<Message("end", p)>>
  OBVIOUS
<1>2. /\ batch \in Seq(Messages) /\ Len(batch) = RowCount + 1
      /\ \A i \in 1..RowCount : batch[i] = Message("row", p)
      /\ batch[RowCount + 1] = Message("end", p)
  BY <1>1, AnswerMessages
<1>3. wire' = wire \o batch /\ pending' = pending \ {p}
  BY <1>1 DEF BrokerAnswers, BrokerSends
<1>4. /\ Len(wire) \in Nat /\ Len(wire') = Len(wire) + RowCount + 1 /\ RowCount \in Nat
      /\ \A i \in 1..Len(wire) : wire'[i] = wire[i]
      /\ \A i \in 1..(RowCount + 1) : wire'[Len(wire) + i] = batch[i]
  <2>1. RowCount \in Nat /\ Len(wire) \in Nat
    BY RequestsAssumption
  <2>2. /\ Len(wire') = Len(wire) + Len(batch)
        /\ \A i \in 1..Len(wire) : wire'[i] = wire[i]
        /\ \A i \in 1..Len(batch) : wire'[Len(wire) + i] = batch[i]
    BY <1>2, <1>3, Appended
  <2> QED BY <1>2, <2>1, <2>2
<1>5. p = [kind |-> t.kind, id |-> t.id, call |-> t.call]
  BY DEF Asked
<1>6. InPending(t)' = {}
  BY <1>3, <1>5 DEF Asked, InPending
<1> DEFINE first == Len(wire) + 1
<1>7. \A i \in first..(first + RowCount) :
         /\ i - Len(wire) \in 1..(RowCount + 1) /\ i = Len(wire) + (i - Len(wire))
         /\ i < first + RowCount => i - Len(wire) \in 1..RowCount
  BY <1>4
<1>8. \A i \in first..(first + RowCount - 1) : wire'[i] = Message("row", p)
  <2>1. ASSUME NEW i \in first..(first + RowCount - 1)
        PROVE  wire'[i] = Message("row", p)
    <3>1. i - Len(wire) \in 1..RowCount /\ i = Len(wire) + (i - Len(wire))
      BY <1>4
    <3>2. i - Len(wire) \in 1..(RowCount + 1)
      BY <1>4, <3>1
    <3> QED BY <1>2, <1>4, <3>1, <3>2
  <2> QED BY <2>1
<1>9. wire'[first + RowCount] = Message("end", p)
  <2>1. first + RowCount = Len(wire) + (RowCount + 1) /\ RowCount + 1 \in 1..(RowCount + 1)
    BY <1>4
  <2> QED BY <1>2, <1>4, <2>1
<1>10. OnWire(t)' = first..(first + RowCount)
  <2>1. \A i \in 1..Len(wire) : ~About(t, wire'[i])
    BY <1>4 DEF Asked, OnWire, WireAt, About
  <2>2. \A i \in first..(first + RowCount) : About(t, wire'[i])
    <3>1. \A i \in first..(first + RowCount) :
             i \in first..(first + RowCount - 1) \/ i = first + RowCount
      BY <1>4
    <3>2. About(t, Message("row", p)) /\ About(t, Message("end", p))
      BY <1>5 DEF About, Message
    <3> QED BY <1>8, <1>9, <3>1, <3>2
  <2>3. 1..Len(wire') = (1..Len(wire)) \cup (first..(first + RowCount))
    BY <1>4
  <2>4. OnWire(t)' = {i \in 1..Len(wire') : About(t, wire'[i])}
    BY DEF OnWire, WireAt, About
  <2> HIDE DEF first
  <2> QED BY <2>1, <2>2, <2>3, <2>4
<1>11. Message("row", p).type = "row" /\ Message("row", p).call = t.call
       /\ Message("end", p).type = "end"
  BY <1>5 DEF Message
<1>12. /\ first \in WireAt' /\ RowCount \in 0..RowCount
       /\ first + RowCount \in WireAt' /\ RowCount - RowCount = 0
  BY <1>4 DEF WireAt
<1>13. ~t.done /\ t.errors = <<>> /\ Has(t, RowCount - RowCount)'
  BY <1>12 DEF Asked, Has
<1> HIDE DEF first
<1>14. Coming(t)'
  BY <1>6, <1>8, <1>9, <1>10, <1>11, <1>12, <1>13 DEF Coming
<1> QED BY <1>14 DEF Transfer

\* IBKR refuses the call: one error is on the way.
LEMMA TransferRefused ==
    ASSUME wire \in Seq(Messages), NEW t, Asked(t), NEW p \in Underways, p \in InPending(t),
           BrokerRefuses(p)
    PROVE  Transfer(t)'
<1>1. PICK m : m = Message("error", p)
  OBVIOUS
<1>2. m \in Messages /\ m.type = "error" /\ About(t, m)
  BY <1>1, MessageIsTyped DEF MessageTypes, Message, About, InPending
<1>3. wire' = wire \o <<m>> /\ pending' = pending \ {p}
  BY <1>1 DEF BrokerRefuses, BrokerSends
<1>4. /\ Len(wire) \in Nat /\ Len(wire') = Len(wire) + 1
      /\ \A i \in 1..Len(wire) : wire'[i] = wire[i]
      /\ wire'[Len(wire) + 1] = m
  BY <1>2, <1>3
<1>5. InPending(t)' = {}
  BY <1>3 DEF Asked, InPending
<1>6. OnWire(t)' = {Len(wire) + 1}
  BY <1>2, <1>4 DEF OnWire, WireAt, About, Asked
<1>7. Refused(t)'
  BY <1>2, <1>4, <1>5, <1>6 DEF Refused, WireAt, Asked
<1> QED BY <1>7 DEF Transfer

\* The reader thread takes a message, about the call or about another.  t is the transfer
\* before and u the one after: a row is added, the end or the error is noted.
LEMMA TransferRead ==
    ASSUME wire \in Seq(Messages), NEW t, Transfer(t), InPending(t)' = InPending(t),
           wire # <<>>, wire' = Tail(wire), NEW m, m = Head(wire), t.rows \in Seq(Nat),
           NEW u, u.kind = t.kind, u.id = t.id, u.call = t.call,
           ~About(t, m) => u = t,
           About(t, m) /\ m.type = "row" =>
              u.rows = Append(t.rows, m.call) /\ u.done = t.done /\ u.errors = t.errors,
           About(t, m) /\ m.type = "end" =>
              u.rows = t.rows /\ u.done = TRUE /\ u.errors = t.errors,
           About(t, m) /\ m.type = "error" => u.errors # <<>>
    PROVE  Transfer(u)'
<1>1. /\ Len(wire) \in Nat /\ Len(wire) >= 1 /\ Len(wire') = Len(wire) - 1
      /\ \A i \in 1..Len(wire') : wire'[i] = wire[i + 1]
      /\ m = wire[1]
  BY Taken
<1>2. /\ WireAt = 1..Len(wire) /\ WireAt' = 1..(Len(wire) - 1)
      /\ \A i \in WireAt' : i \in Nat /\ i + 1 \in WireAt /\ wire'[i] = wire[i + 1]
      /\ \A i \in WireAt : i # 1 => i - 1 \in WireAt'
  BY <1>1 DEF WireAt
<1>3. OnWire(u)' = {i \in WireAt' : i + 1 \in OnWire(t)}
  BY <1>2 DEF OnWire
<1>4. InPending(u)' = InPending(t)
  BY DEF InPending
<1>5. About(t, m) <=> 1 \in OnWire(t)
  BY <1>1, <1>2 DEF About, OnWire
<1>6. OnWire(t) = {} => OnWire(u)' = {} /\ u = t
  BY <1>3, <1>5
<1>7. CASE Asked(t) \/ Received(t) \/ Failed(t)
  BY <1>4, <1>6, <1>7 DEF Transfer, Asked, Received, Failed, Has
<1>8. CASE Refused(t)
  <2>1. PICK at \in WireAt : OnWire(t) = {at} /\ wire[at].type = "error"
    BY <1>8 DEF Refused
  <2>2. CASE at = 1
    <3>1. OnWire(u)' = {}
      BY <1>1, <1>2, <1>3, <2>1, <2>2
    <3>2. u.errors # <<>>
      BY <1>1, <1>5, <2>1, <2>2
    <3> QED BY <1>4, <1>8, <3>1, <3>2 DEF Transfer, Refused, Failed
  <2>3. CASE at # 1
    <3>1. /\ at - 1 \in WireAt' /\ OnWire(u)' = {at - 1} /\ wire'[at - 1] = wire[at]
      BY <1>1, <1>2, <1>3, <2>1, <2>3
    <3>2. u = t
      BY <1>5, <2>1, <2>3
    <3> QED BY <1>4, <1>8, <2>1, <3>1, <3>2 DEF Transfer, Refused
  <2> QED BY <2>2, <2>3
<1>9. CASE Coming(t)
  <2>1. PICK first \in WireAt, n \in 0..RowCount :
           /\ first + n \in WireAt
           /\ OnWire(t) = first..(first + n)
           /\ \A i \in first..(first + n - 1) : wire[i].type = "row" /\ wire[i].call = t.call
           /\ wire[first + n].type = "end"
           /\ Has(t, RowCount - n)
    BY <1>9 DEF Coming
  <2>2. first \in Nat /\ n \in Nat /\ RowCount \in Nat /\ first >= 1 /\ first + n <= Len(wire)
    BY <1>1, <1>2, <2>1, RequestsAssumption
  <2>3. InPending(u)' = {} /\ ~t.done /\ t.errors = <<>>
    BY <1>4, <1>9 DEF Coming
  <2>4. CASE first # 1
    <3>1. u = t
      BY <1>5, <2>1, <2>2, <2>4
    <3>2. /\ first - 1 \in WireAt' /\ (first - 1) + n \in WireAt'
          /\ OnWire(u)' = (first - 1)..((first - 1) + n)
      BY <1>1, <1>2, <1>3, <2>1, <2>2, <2>4
    <3>3. /\ \A i \in (first - 1)..((first - 1) + n - 1) :
                wire'[i].type = "row" /\ wire'[i].call = t.call
          /\ wire'[(first - 1) + n].type = "end"
      <4>1. ASSUME NEW i \in (first - 1)..((first - 1) + n - 1)
            PROVE  wire'[i].type = "row" /\ wire'[i].call = t.call
        <5>1. i \in 1..(Len(wire) - 1) /\ i + 1 \in first..(first + n - 1)
          BY <2>2, <2>4
        <5> QED BY <1>2, <2>1, <5>1
      <4>2. (first - 1) + n \in 1..(Len(wire) - 1) /\ (first - 1) + n + 1 = first + n
        BY <2>2, <2>4
      <4> QED BY <1>2, <2>1, <4>1, <4>2
    <3>4. Has(u, RowCount - n)'
      BY <2>1, <3>1 DEF Has
    <3>5. Coming(u)'
      BY <2>3, <3>1, <3>2, <3>3, <3>4 DEF Coming
    <3> QED BY <3>5 DEF Transfer
  <2>5. CASE first = 1 /\ n = 0
    <3>1. About(t, m) /\ m.type = "end"
      BY <1>1, <1>5, <2>1, <2>2, <2>5
    <3>2. OnWire(u)' = {}
      BY <1>1, <1>2, <1>3, <2>1, <2>2, <2>5
    <3>3. Has(u, RowCount)'
      BY <2>1, <2>2, <2>5, <3>1 DEF Has
    <3>4. Received(u)'
      BY <2>3, <3>1, <3>2, <3>3 DEF Received
    <3> QED BY <3>4 DEF Transfer
  <2>6. CASE first = 1 /\ n # 0
    <3>1. About(t, m) /\ m.type = "row" /\ m.call = t.call
      BY <1>1, <1>5, <2>1, <2>2, <2>6
    <3>2. /\ 1 \in WireAt' /\ 1 + (n - 1) \in WireAt' /\ n - 1 \in 0..RowCount
          /\ OnWire(u)' = 1..(1 + (n - 1))
      BY <1>1, <1>2, <1>3, <2>1, <2>2, <2>6
    <3>3. /\ \A i \in 1..(1 + (n - 1) - 1) :
                wire'[i].type = "row" /\ wire'[i].call = u.call
          /\ wire'[1 + (n - 1)].type = "end"
      BY <1>1, <1>2, <2>1, <2>2, <2>6
    <3>4. Has(u, RowCount - (n - 1))'
      <4>1. Len(t.rows) = RowCount - n /\ \A i \in 1..(RowCount - n) : t.rows[i] = t.call
        BY <2>1 DEF Has
      <4>2. u.rows = Append(t.rows, t.call)
        BY <3>1
      <4>3. /\ Len(u.rows) = RowCount - n + 1
            /\ \A i \in 1..(RowCount - n) : u.rows[i] = t.rows[i]
            /\ u.rows[RowCount - n + 1] = t.call
        BY <4>1, <4>2
      <4>4. RowCount - (n - 1) = RowCount - n + 1
        BY <2>2
      <4>5. \A i \in 1..(RowCount - (n - 1)) : i \in 1..(RowCount - n) \/ i = RowCount - n + 1
        BY <2>2
      <4>6. \A i \in 1..(RowCount - (n - 1)) : u.rows[i] = t.call
        BY <4>1, <4>3, <4>5
      <4> QED BY <4>3, <4>4, <4>6 DEF Has
    <3>5. u.done = t.done /\ u.errors = t.errors
      BY <3>1
    <3>6. Coming(u)'
      BY <2>3, <3>2, <3>3, <3>4, <3>5 DEF Coming
    <3> QED BY <3>6 DEF Transfer
  <2> QED BY <2>4, <2>5, <2>6
<1> QED BY <1>7, <1>8, <1>9 DEF Transfer

-----------------------------------------------------------------------------
(* Keyed requests.                                                         *)

\* IBKR sends: the answer of the call, or something else.
LEMMA TransferSent ==
    ASSUME RequestTypes, BrokerNext, NEW t, Transfer(t), t.kind # "order"
    PROVE  Transfer(t)'
<1>1. wire \in Seq(Messages) /\ \A p \in pending : p \in Underways
  BY FieldTypes
<1>2. ASSUME NEW p \in pending, p \in InPending(t), BrokerAnswers(p) \/ BrokerRefuses(p)
      PROVE  Transfer(t)'
  <2>1. Asked(t)
    BY <1>2 DEF Transfer, Coming, Received, Refused, Failed
  <2>2. p.kind # "order"
    BY <1>2 DEF InPending
  <2> QED BY <1>1, <1>2, <2>1, <2>2, TransferAnswered, TransferRefused
<1>3. ASSUME NEW p \in pending, p \notin InPending(t), BrokerAnswers(p) \/ BrokerRefuses(p)
      PROVE  Transfer(t)'
  <2>1. InPending(t)' = InPending(t)
    BY <1>3 DEF BrokerAnswers, BrokerRefuses, InPending
  <2>2. \A type \in MessageTypes : Message(type, p) \in Messages /\ ~About(t, Message(type, p))
    BY <1>1, <1>3, MessageIsTyped DEF Message, About, InPending
  <2>3. ASSUME NEW type \in MessageTypes, wire' = wire \o <<Message(type, p)>>
        PROVE  Transfer(t)'
    <3>1. PICK m : m = Message(type, p)
      OBVIOUS
    <3>2. <<m>> \in Seq(Messages) /\ \A i \in 1..Len(<<m>>) : ~About(t, <<m>>[i])
      BY <2>2, <3>1
    <3>3. wire' = wire \o <<m>>
      BY <2>3, <3>1
    <3> QED BY <1>1, <2>1, <3>2, <3>3, TransferPassedBy
  <2>4. CASE BrokerAnswers(p) /\ p.kind # "order"
    <3>1. PICK batch : batch = [i \in 1..RowCount |-> Message("row", p)] \o <<Message("end", p)>>
      OBVIOUS
    <3>2. /\ batch \in Seq(Messages) /\ Len(batch) = RowCount + 1
          /\ \A i \in 1..RowCount : batch[i] = Message("row", p)
          /\ batch[RowCount + 1] = Message("end", p)
      BY <1>1, <3>1, AnswerMessages
    <3>3. \A i \in 1..Len(batch) : i \in 1..RowCount \/ i = RowCount + 1
      BY <3>2, RequestsAssumption
    <3>4. \A i \in 1..Len(batch) : ~About(t, batch[i])
      BY <2>2, <3>2, <3>3 DEF MessageTypes
    <3>5. wire' = wire \o batch
      BY <2>4, <3>1 DEF BrokerAnswers, BrokerSends
    <3> QED BY <1>1, <2>1, <3>2, <3>4, <3>5, TransferPassedBy
  <2>5. CASE BrokerAnswers(p) /\ p.kind = "order"
    BY <2>3, <2>5 DEF BrokerAnswers, BrokerSends, MessageTypes
  <2>6. CASE BrokerRefuses(p)
    BY <2>3, <2>6 DEF BrokerRefuses, BrokerSends, MessageTypes
  <2> QED BY <1>3, <2>4, <2>5, <2>6
<1>4. ASSUME NEW id \in Nat, BrokerNotifies(id) \/ BrokerReports(id)
      PROVE  Transfer(t)'
  <2>1. PICK m : m \in {ValidId(id), Status(id)} /\ wire' = wire \o <<m>>
    BY <1>4 DEF BrokerNotifies, BrokerReports, BrokerSends
  <2>2. m \in Messages /\ ~About(t, m)
    BY <2>1 DEF ValidId, Status, Messages, MessageTypes, CallKinds, About
  <2>3. <<m>> \in Seq(Messages) /\ \A i \in 1..Len(<<m>>) : ~About(t, <<m>>[i])
    BY <2>2
  <2>4. InPending(t)' = InPending(t)
    BY <1>4 DEF BrokerNotifies, BrokerReports, InPending
  <2> QED BY <1>1, <2>1, <2>3, <2>4, TransferPassedBy
<1>5. CASE \E p \in pending : BrokerAnswers(p) \/ BrokerRefuses(p)
  BY <1>2, <1>3, <1>5
<1>6. {FirstOrder} \cup {o.id + 1 : o \in accepted} \subseteq Nat /\ FirstOrder + MaxCalls \in Nat
  BY RequestsAssumption DEF RequestTypes, Accepted
<1> QED BY <1>4, <1>5, <1>6 DEF BrokerNext

\* The transfer of a keyed request, field by field.
LEMMA KeyedFields ==
    ASSUME NEW d \in Callers, NEW id, id = caller[d].id
    PROVE  KeyedTransfer(d) =
              [kind |-> "keyed", id |-> id, call |-> caller[d].call, rows |-> table[id].rows,
               done |-> table[id].done, errors |-> ErrorsOf(id)]
BY DEF KeyedTransfer

\* A new call leaves the table of a request alone that shares its number with nobody.
LEMMA OthersOutlastCalls ==
    ASSUME RequestTypes, GivenInv, OrdersInv, KeyedInv,
           NEW c \in Callers, NEW kind \in CallKinds, NEW id \in Nat, Begins(c, kind, id),
           NEW d \in Callers, d # c, caller[d].step = "keyed", Alone(d),
           ~SharedNumber(caller[d].id)'
    PROVE  Transfer(KeyedTransfer(d))'
<1>1. /\ caller \in [Callers -> Callings] /\ \A p \in pending : p \in Underways
  BY FieldTypes
<1>2. PICK own : own = caller[d].id
  OBVIOUS
<1>3. /\ caller'[d] = caller[d] /\ wire' = wire
      /\ pending' = pending \cup {[kind |-> kind, id |-> id, call |-> NewCall]}
      /\ requestErrors' = With(requestErrors, id, <<>>)
      /\ table' = table \/ table' = With(table, id, [rows |-> <<>>, done |-> FALSE])
  BY <1>1 DEF Begins
<1>4. own # id
  <2>1. Given("keyed", own) /\ "keyed" \in CallKinds
    BY <1>2 DEF GivenInv, CallKinds
  <2>2. own = id => SharedNumber(id)'
    BY <2>1, FreshNumber
  <2> QED BY <1>2, <1>3, <2>2 DEF SharedNumber
<1>5. PICK t : t = KeyedTransfer(d)
  OBVIOUS
<1>6. own \in DOMAIN table /\ Transfer(t)
  BY <1>2, <1>5 DEF KeyedInv
<1>7. table'[own] = table[own] /\ ErrorsOf(own)' = ErrorsOf(own)
  BY <1>3, <1>4, <1>6 DEF With, ErrorsOf
<1>8. t.kind = "keyed" /\ t.id = own
  BY <1>2, <1>5 DEF KeyedTransfer
<1>9. KeyedTransfer(d)' = t
  BY <1>2, <1>3, <1>5, <1>7 DEF KeyedTransfer
<1>10. InPending(t)' = InPending(t)
  BY <1>3, <1>4, <1>8 DEF InPending
<1> QED BY <1>3, <1>6, <1>9, <1>10, TransferUntouched

\* So does a call that ends.
LEMMA OthersOutlastEnds ==
    ASSUME RequestTypes, GivenInv, KeyedInv, NEW c \in Callers, Leaves(c),
           NEW d \in Callers, d # c, caller[d].step = "keyed"
    PROVE  /\ caller'[d] = caller[d] /\ caller[d].id \in DOMAIN table'
           /\ Alone(d) => Transfer(KeyedTransfer(d))'
<1>1. caller \in [Callers -> Callings]
  BY FieldTypes
<1>2. PICK own, t : own = caller[d].id /\ t = KeyedTransfer(d)
  OBVIOUS
<1>3. caller'[d] = caller[d] /\ UNCHANGED <<pending, wire>>
  BY <1>1 DEF Leaves
<1>4. caller[c].step = "keyed" => caller[c].id # own
  BY <1>2 DEF GivenInv
<1>5. own \in DOMAIN table
  BY <1>2 DEF KeyedInv
<1>6. own \in DOMAIN table' /\ table'[own] = table[own] /\ ErrorsOf(own)' = ErrorsOf(own)
  BY <1>4, <1>5 DEF Leaves, Without, ErrorsOf
<1>7. KeyedTransfer(d)' = t
  BY <1>2, <1>3, <1>6 DEF KeyedTransfer
<1>8. InPending(t)' = InPending(t)
  BY <1>3 DEF InPending
<1>9. ASSUME Alone(d)
      PROVE  Transfer(KeyedTransfer(d))'
  <2>1. Transfer(t)
    BY <1>2, <1>9 DEF KeyedInv
  <2> QED BY <1>3, <1>7, <1>8, <2>1, TransferUntouched
<1> QED BY <1>2, <1>3, <1>6, <1>9

\* A keyed request begins with an empty table under its id and nothing on the wire.
LEMMA RequestIsAsked ==
    ASSUME RequestTypes, GivenInv, OrdersInv, NEW c \in Callers, NEW id \in Nat,
           Begins(c, "keyed", id)
    PROVE  caller'[c].id \in DOMAIN table' /\ Transfer(KeyedTransfer(c))'
<1>1. caller \in [Callers -> Callings] /\ "keyed" \in CallKinds
  BY FieldTypes DEF CallKinds
<1>2. PICK call : call = NewCall
  OBVIOUS
<1>3. /\ caller'[c].id = id /\ caller'[c].call = call
      /\ pending' = pending \cup {[kind |-> "keyed", id |-> id, call |-> call]}
      /\ wire' = wire
      /\ id \in DOMAIN table' /\ table'[id] = [rows |-> <<>>, done |-> FALSE]
      /\ ErrorsOf(id)' = <<>>
  BY <1>1, <1>2 DEF Begins, With, ErrorsOf
<1>4. PICK t : t = [kind |-> "keyed", id |-> id, call |-> call, rows |-> <<>>, done |-> FALSE,
                    errors |-> <<>>]
  OBVIOUS
<1>5. KeyedTransfer(c)' = t
  BY <1>3, <1>4 DEF KeyedTransfer
<1>6. ~Given("keyed", id)
  BY <1>1, FreshNumber
<1>7. \A p \in pending : p.kind = "keyed" => p.id # id
  BY <1>6 DEF GivenInv
<1>8. InPending(t)' = {[kind |-> t.kind, id |-> t.id, call |-> t.call]}
  BY <1>3, <1>4, <1>7 DEF InPending
<1>9. \A i \in WireAt : wire[i].kind = "keyed" => wire[i].id # id
  BY <1>6 DEF GivenInv, IsNotice
<1>10. OnWire(t)' = {}
  BY <1>3, <1>4, <1>9 DEF OnWire, WireAt
<1>11. Has(t, 0)' /\ ~t.done /\ t.errors = <<>>
  BY <1>4 DEF Has
<1>12. Transfer(t)'
  BY <1>8, <1>10, <1>11 DEF Transfer, Asked
<1> QED BY <1>3, <1>5, <1>12

\* What the reader thread takes from the wire reaches the table of the call it is about, and
\* no other table - unless its number is one that two calls share.
LEMMA KeyedRead ==
    ASSUME RequestTypes, GivenInv, KeyedInv, NEW m, Reads(m),
           RowArrives(m) \/ EndArrives(m) \/ ErrorArrives(m) \/ NextValidId(m) \/ OrderStatus(m),
           NEW c \in Callers, caller[c].step = "keyed", Alone(c)
    PROVE  Transfer(KeyedTransfer(c))'
<1>1. /\ wire \in Seq(Messages) /\ caller[c].id \in Nat
      /\ wire # <<>> /\ wire' = Tail(wire) /\ m = Head(wire) /\ UNCHANGED <<caller, pending>>
  BY FieldTypes DEF Reads
<1>2. PICK id, t, u : /\ id = caller[c].id
                      /\ t = KeyedTransfer(c) /\ u = KeyedTransfer(c)'
  OBVIOUS
<1>3. id \in DOMAIN table /\ Transfer(t) /\ table[id] \in Tables
  BY <1>2 DEF KeyedInv, RequestTypes
<1>4. /\ t = [kind |-> "keyed", id |-> id, call |-> caller[c].call, rows |-> table[id].rows,
              done |-> table[id].done, errors |-> ErrorsOf(id)]
      /\ u = [kind |-> "keyed", id |-> id, call |-> caller[c].call, rows |-> table'[id].rows,
              done |-> table'[id].done, errors |-> ErrorsOf(id)']
  BY <1>1, <1>2 DEF KeyedTransfer
<1>5. About(t, m) <=> m.kind = "keyed" /\ m.id = id
  BY <1>4 DEF About
<1>6. m.type \in {"row", "end", "error"} /\ ~About(t, m) => m.id # id
  <2>1. m = wire[1] /\ 1 \in WireAt /\ m \in Messages
    BY <1>1, Taken DEF WireAt
  <2>2. ASSUME m.type \in {"row", "end", "error"}, ~About(t, m), m.id = id
        PROVE  FALSE
    <3>1. m.kind = "order"
      BY <1>5, <2>1, <2>2 DEF Messages, CallKinds
    <3>2. Given("order", id) /\ Given("keyed", id)
      BY <1>2, <2>1, <2>2, <3>1 DEF GivenInv, IsNotice
    <3> QED BY <1>2, <3>2 DEF Given, Alone, SharedNumber
  <2> QED BY <2>2
<1> DEFINE Reached ==
             /\ ~About(t, m) => u = t
             /\ About(t, m) /\ m.type = "row" =>
                   u.rows = Append(t.rows, m.call) /\ u.done = t.done /\ u.errors = t.errors
             /\ About(t, m) /\ m.type = "end" =>
                   u.rows = t.rows /\ u.done = TRUE /\ u.errors = t.errors
             /\ About(t, m) /\ m.type = "error" => u.errors # <<>>
<1>7. ASSUME RowArrives(m)
      PROVE  Reached
  <2>1. ErrorsOf(id)' = ErrorsOf(id) /\ m.type = "row"
    BY <1>7 DEF RowArrives, Arrives, ErrorsOf
  <2>2. CASE ~About(t, m)
    <3>1. table'[id] = table[id]
      BY <1>3, <1>6, <1>7, <2>1, <2>2 DEF RowArrives
    <3> QED BY <1>4, <2>1, <2>2, <3>1
  <2>3. CASE About(t, m)
    <3>1. table'[id] = [table[id] EXCEPT !.rows = Append(@, m.call)]
      BY <1>3, <1>5, <1>7, <2>3 DEF RowArrives
    <3>2. u.rows = Append(t.rows, m.call) /\ u.done = t.done /\ u.errors = t.errors
      BY <1>3, <1>4, <2>1, <3>1 DEF Tables
    <3> QED BY <2>1, <2>3, <3>2
  <2> QED BY <2>2, <2>3
<1>8. ASSUME EndArrives(m)
      PROVE  Reached
  <2>1. ErrorsOf(id)' = ErrorsOf(id) /\ m.type = "end"
    BY <1>8 DEF EndArrives, Arrives, ErrorsOf
  <2>2. CASE ~About(t, m)
    <3>1. table'[id] = table[id]
      BY <1>3, <1>6, <1>8, <2>1, <2>2 DEF EndArrives
    <3> QED BY <1>4, <2>1, <2>2, <3>1
  <2>3. CASE About(t, m)
    <3>1. table'[id] = [table[id] EXCEPT !.done = TRUE]
      BY <1>3, <1>5, <1>8, <2>3 DEF EndArrives
    <3>2. u.rows = t.rows /\ u.done = TRUE /\ u.errors = t.errors
      BY <1>3, <1>4, <2>1, <3>1 DEF Tables
    <3> QED BY <2>1, <2>3, <3>2
  <2> QED BY <2>2, <2>3
<1>9. ASSUME ErrorArrives(m)
      PROVE  Reached
  <2>1. m.type = "error"
    BY <1>9 DEF ErrorArrives, Arrives
  <2>2. CASE ~About(t, m)
    <3>1. table'[id] = table[id] /\ ErrorsOf(id)' = ErrorsOf(id)
      BY <1>3, <1>6, <1>9, <2>1, <2>2 DEF ErrorArrives, With, ErrorsOf
    <3> QED BY <1>4, <2>1, <2>2, <3>1
  <2>3. CASE About(t, m)
    <3>1. PICK errors : errors = Append(ErrorsOf(id), m.call)
      OBVIOUS
    <3>2. ErrorsOf(id)' = errors
      BY <1>3, <1>5, <1>9, <2>3, <3>1 DEF ErrorArrives, With, ErrorsOf
    <3>3. errors # <<>>
      BY <3>1, ErrorsType
    <3> QED BY <1>4, <2>1, <2>3, <3>2, <3>3
  <2> QED BY <2>2, <2>3
<1>10. ASSUME NextValidId(m) \/ OrderStatus(m)
       PROVE  Reached
  <2>1. table' = table /\ ErrorsOf(id)' = ErrorsOf(id) /\ m.type \in {"valid", "status"}
    BY <1>10 DEF NextValidId, OrderStatus, Arrives, ErrorsOf
  <2>2. u = t
    BY <1>4, <2>1
  <2> QED BY <2>1, <2>2
<1>11. Reached
  BY <1>7, <1>8, <1>9, <1>10
<1>12. InPending(t)' = InPending(t)
  BY <1>1 DEF InPending
<1>13. t.rows \in Seq(Nat)
  BY <1>3, <1>4 DEF Tables
<1>14. u.kind = t.kind /\ u.id = t.id /\ u.call = t.call
  BY <1>4
<1>15. Transfer(u)'
  BY <1>1, <1>3, <1>11, <1>12, <1>13, <1>14, TransferRead
<1> QED BY <1>2, <1>15

\* A step keeps every keyed request between its question and its answer.
LEMMA KeyedPreserved ==
    ASSUME RequestTypes, GivenInv, OrdersInv, KeyedInv, RequestsNext
    PROVE  KeyedInv'
<1>1. caller \in [Callers -> Callings]
  BY FieldTypes
<1>2. SUFFICES ASSUME NEW d \in Callers, caller'[d].step = "keyed"
               PROVE  /\ caller'[d].id \in DOMAIN table'
                      /\ Alone(d)' => Transfer(KeyedTransfer(d))'
  BY DEF KeyedInv
<1> DEFINE Goal == /\ caller'[d].id \in DOMAIN table'
                   /\ Alone(d)' => Transfer(KeyedTransfer(d))'
<1>3. ASSUME NEW c \in Callers, NEW kind \in CallKinds, NEW id \in Nat, Begins(c, kind, id),
             ~Connect
      PROVE  Goal
  <2>1. CASE d = c
    <3>1. kind = "keyed"
      BY <1>1, <1>2, <1>3, <2>1 DEF Begins
    <3> QED BY <1>3, <2>1, <3>1, RequestIsAsked
  <2>2. CASE d # c
    <3>1. caller'[d] = caller[d] /\ caller[d].step = "keyed"
      BY <1>1, <1>2, <1>3, <2>2 DEF Begins
    <3>2. caller[d].id \in DOMAIN table /\ DOMAIN table \subseteq DOMAIN table'
      BY <1>3, <3>1 DEF KeyedInv, Begins, With
    <3>3. ASSUME Alone(d)'
          PROVE  Alone(d) /\ ~SharedNumber(caller[d].id)'
      <4>1. ~SharedNumber(caller[d].id)'
        BY <3>3 DEF Alone
      <4> QED BY <1>3, <3>1, <3>3, <4>1, AloneStays
    <3>4. Alone(d)' => Transfer(KeyedTransfer(d))'
      BY <1>3, <2>2, <3>1, <3>3, OthersOutlastCalls
    <3> QED BY <3>1, <3>2, <3>4
  <2> QED BY <2>1, <2>2
<1>4. ASSUME NEW c \in Callers, Leaves(c), ~Connect
      PROVE  Goal
  <2>1. d # c /\ caller'[d] = caller[d] /\ caller[d].step = "keyed"
    BY <1>1, <1>2, <1>4 DEF Leaves, Idle
  <2>2. Alone(d)' => Alone(d)
    BY <1>4, <2>1, AloneStays
  <2> QED BY <1>4, <2>1, <2>2, OthersOutlastEnds
<1>5. ASSUME BrokerNext, NEW messages, Sends(messages), ~Connect
      PROVE  Goal
  <2>1. UNCHANGED <<caller, table, requestErrors>>
    BY <1>5 DEF Sends
  <2>2. PICK t : t = KeyedTransfer(d)
    OBVIOUS
  <2>3. KeyedTransfer(d)' = t /\ t.kind = "keyed"
    BY <2>1, <2>2 DEF KeyedTransfer, ErrorsOf
  <2>4. caller[d].id \in DOMAIN table /\ (Alone(d) => Transfer(t))
    BY <1>2, <2>1, <2>2 DEF KeyedInv
  <2>5. Alone(d)' => Alone(d)
    BY <1>5, <2>1, AloneStays
  <2>6. Alone(d)' => Transfer(t)'
    BY <1>5, <2>3, <2>4, <2>5, TransferSent
  <2> QED BY <2>1, <2>3, <2>4, <2>6
<1>6. ASSUME NEW m, Reads(m), ~Connect,
             RowArrives(m) \/ EndArrives(m) \/ ErrorArrives(m) \/ NextValidId(m) \/ OrderStatus(m)
      PROVE  Goal
  <2>1. caller' = caller
    BY <1>6 DEF Reads
  <2>2. DOMAIN table' = DOMAIN table
    BY <1>6 DEF RowArrives, EndArrives, ErrorArrives, NextValidId, OrderStatus
  <2>3. caller[d].step = "keyed" /\ caller'[d].id \in DOMAIN table'
    BY <1>2, <2>1, <2>2 DEF KeyedInv
  <2>4. Alone(d)' => Alone(d)
    BY <1>6, <2>1, AloneStays
  <2> QED BY <1>6, <2>3, <2>4, KeyedRead
<1>7. CASE Connect
  <2>1. caller'[d].step = "idle"
    BY <1>7 DEF Connect, Idle
  <2> QED BY <1>2, <2>1
<1> QED BY <1>3, <1>4, <1>5, <1>6, <1>7, StepKinds

-----------------------------------------------------------------------------
(* Answers.                                                                *)

\* A request that is complete and was not refused has all rows of its call.
LEMMA DoneIsComplete ==
    ASSUME NEW t, Transfer(t), t.done, t.errors = <<>>, t.rows \in Seq(Nat)
    PROVE  t.rows = [i \in 1..RowCount |-> t.call]
<1>1. Received(t)
  BY DEF Transfer, Asked, Coming, Refused, Failed
<1>2. Len(t.rows) = RowCount /\ \A i \in 1..RowCount : t.rows[i] = t.call
  BY <1>1 DEF Received, Has
<1>3. PICK batch : batch = t.rows /\ batch \in Seq(Nat)
  OBVIOUS
<1>4. batch = [i \in DOMAIN batch |-> batch[i]] /\ DOMAIN batch = 1..Len(batch)
  BY <1>3
<1>5. DOMAIN batch = 1..RowCount /\ \A i \in 1..RowCount : batch[i] = t.call
  BY <1>2, <1>3, <1>4
<1>6. [i \in DOMAIN batch |-> batch[i]] = [i \in 1..RowCount |-> t.call]
  BY <1>5
<1> QED BY <1>3, <1>4, <1>6

\* A step leaves the last answer the caller's own, or brings one that is; so with the error.
LEMMA AnswersPreserved ==
    ASSUME RequestTypes, GivenInv, ErrorsInv, KeyedInv, AnswersAreOwn, ErrorsReachTheirRequest,
           RequestsNext
    PROVE  AnswersAreOwn' /\ ErrorsReachTheirRequest'
<1>1. ASSUME answered' = answered
      PROVE  AnswersAreOwn' /\ ErrorsReachTheirRequest'
  BY <1>1 DEF AnswersAreOwn, ErrorsReachTheirRequest
<1>2. ASSUME answered' = NoAnswer
      PROVE  AnswersAreOwn' /\ ErrorsReachTheirRequest'
  <2>1. answered'.kind = "none" /\ answered'.error = 0
    BY <1>2 DEF NoAnswer
  <2> QED BY <2>1 DEF AnswersAreOwn, ErrorsReachTheirRequest
<1>3. ASSUME NEW c \in Callers, NEW id, id = caller[c].id, Alone(c), ErrorsOf(id) # <<>>
      PROVE  Last(ErrorsOf(id)) = caller[c].call /\ caller[c].call # 0
  <2>1. ErrorsOf(id) \in Seq(Nat)
    BY ErrorsType
  <2>2. Len(ErrorsOf(id)) \in DOMAIN ErrorsOf(id)
    BY <1>3, <2>1
  <2> QED BY <1>3, <2>2 DEF ErrorsInv, OwnErrors, Last
<1>4. ASSUME NEW c \in Callers, RequestReturns(c)
      PROVE  AnswersAreOwn' /\ ErrorsReachTheirRequest'
  <2>1. PICK id : id = caller[c].id
    OBVIOUS
  <2>2. /\ caller[c].step = "keyed" /\ table[id].done
        /\ answered' = IF ErrorsOf(id) # <<>> THEN Answer(c, <<>>, Last(ErrorsOf(id)))
                                              ELSE Answer(c, table[id].rows, 0)
    BY <1>4, <2>1 DEF RequestReturns, Ends
  <2>3. answered'.shared = SharedNumber(id) /\ answered'.call = caller[c].call
    BY <2>1, <2>2 DEF Answer
  <2>4. CASE SharedNumber(id)
    BY <2>3, <2>4 DEF AnswersAreOwn, ErrorsReachTheirRequest
  <2>5. CASE ~SharedNumber(id) /\ ErrorsOf(id) # <<>>
    <3>1. Alone(c)
      BY <2>1, <2>2, <2>5 DEF Alone
    <3>2. answered'.error = Last(ErrorsOf(id))
      BY <2>2, <2>5 DEF Answer
    <3>3. answered'.error = caller[c].call /\ answered'.error # 0
      BY <1>3, <2>1, <2>5, <3>1, <3>2
    <3> QED BY <2>3, <3>3 DEF AnswersAreOwn, ErrorsReachTheirRequest
  <2>6. CASE ~SharedNumber(id) /\ ErrorsOf(id) = <<>>
    <3>1. PICK t : t = KeyedTransfer(c)
      OBVIOUS
    <3>2. id \in DOMAIN table /\ Transfer(t)
      BY <2>1, <2>2, <2>6, <3>1 DEF KeyedInv, Alone
    <3>3. table[id].rows \in Seq(Nat)
      BY <3>2 DEF RequestTypes, Tables
    <3>4. /\ t.done /\ t.errors = <<>> /\ t.rows = table[id].rows /\ t.call = caller[c].call
          /\ t.rows \in Seq(Nat)
      BY <2>1, <2>2, <2>6, <3>1, <3>3 DEF KeyedTransfer
    <3>5. t.rows = [i \in 1..RowCount |-> t.call]
      BY <3>2, <3>4, DoneIsComplete
    <3>6. answered'.rows = t.rows /\ answered'.error = 0
      BY <2>2, <2>6, <3>4 DEF Answer
    <3> QED BY <2>3, <3>4, <3>5, <3>6 DEF AnswersAreOwn, ErrorsReachTheirRequest
  <2> QED BY <2>4, <2>5, <2>6
<1>5. ASSUME NEW c \in Callers, OrderReturns(c)
      PROVE  AnswersAreOwn' /\ ErrorsReachTheirRequest'
  <2>1. PICK id : id = caller[c].id
    OBVIOUS
  <2>2. /\ caller[c].step = "order"
        /\ answered' = Answer(c, <<>>, IF ErrorsOf(id) # <<>> THEN Last(ErrorsOf(id)) ELSE 0)
    BY <1>5, <2>1 DEF OrderReturns, Ends
  <2>3. /\ answered'.kind = "order" /\ answered'.call = caller[c].call
        /\ answered'.shared = SharedNumber(id)
        /\ answered'.error = IF ErrorsOf(id) # <<>> THEN Last(ErrorsOf(id)) ELSE 0
    BY <2>1, <2>2 DEF Answer
  <2>4. ~SharedNumber(id) => Alone(c)
    BY <2>1, <2>2 DEF Alone
  <2> QED BY <1>3, <2>1, <2>3, <2>4 DEF AnswersAreOwn, ErrorsReachTheirRequest
<1>6. \/ answered' = answered \/ answered' = NoAnswer
      \/ \E c \in Callers : RequestReturns(c) \/ OrderReturns(c)
  BY Zenon
     DEF RequestsNext, CallerNext, BrokerNext, ReaderNext, Request, RequestTimesOut, SubmitOrder,
         OrderTimesOut, TimesOut, Ends, BrokerAnswers, BrokerRefuses, BrokerNotifies,
         BrokerReports, BrokerSends, Connect, RowArrives, EndArrives, ErrorArrives, NextValidId,
         OrderStatus, Arrives
<1> QED BY <1>1, <1>2, <1>4, <1>5, <1>6

-----------------------------------------------------------------------------
(* The theorems.                                                           *)

\* What holds of every state of the client.
RequestsInv ==
    /\ RequestTypes /\ GivenInv /\ OrdersInv /\ ErrorsInv /\ KeyedInv
    /\ AnswersAreOwn /\ ErrorsReachTheirRequest

\* The client starts idle, with nothing under way.
LEMMA RequestsStart ==
    ASSUME RequestsInit
    PROVE  RequestsInv
<1>1. FirstRequest \in Nat /\ FirstOrder \in Nat
  BY RequestsAssumption
<1>2. /\ caller = [c \in Callers |-> Idle] /\ connected = TRUE
      /\ nextRequestId = FirstRequest /\ nextOrderId = FirstOrder
      /\ table = <<>> /\ orders = <<>> /\ requestErrors = <<>>
      /\ pending = {} /\ accepted = {} /\ wire = <<>> /\ answered = NoAnswer
      /\ counts = [calls |-> 0, timeouts |-> 0, errors |-> 0, notices |-> 0, connects |-> 0]
  BY DEF RequestsInit
<1>3. \A c \in Callers : caller[c].step = "idle"
  BY <1>2 DEF Idle
<1>4. WireAt = {} /\ wire \in Seq(Messages)
  BY <1>2 DEF WireAt
<1>5. DOMAIN table = {} /\ DOMAIN orders = {} /\ DOMAIN requestErrors = {}
  BY <1>2
<1>6. RequestTypes
  <2>1. Idle \in Callings /\ counts \in Counts
    BY <1>2 DEF Idle, Callings, Counts
  <2> QED BY <1>1, <1>2, <1>4, <1>5, <2>1 DEF RequestTypes
<1>7. GivenInv
  BY <1>1, <1>2, <1>3, <1>4 DEF GivenInv
<1>8. OrdersInv
  BY <1>2, <1>5 DEF OrdersInv, OrderIdsAreFresh
<1>9. ErrorsInv /\ KeyedInv
  BY <1>3 DEF ErrorsInv, KeyedInv, Alone
<1>10. AnswersAreOwn /\ ErrorsReachTheirRequest
  BY <1>2 DEF AnswersAreOwn, ErrorsReachTheirRequest, NoAnswer
<1> QED BY <1>6, <1>7, <1>8, <1>9, <1>10 DEF RequestsInv

\* A stuttering step preserves the invariant.
LEMMA RequestsStutter ==
    ASSUME RequestsInv, UNCHANGED requestVars
    PROVE  RequestsInv'
<1>1. /\ caller' = caller /\ connected' = connected /\ nextRequestId' = nextRequestId
      /\ nextOrderId' = nextOrderId /\ table' = table /\ orders' = orders
      /\ requestErrors' = requestErrors /\ pending' = pending /\ accepted' = accepted
      /\ wire' = wire /\ answered' = answered /\ counts' = counts /\ WireAt' = WireAt
  BY DEF requestVars, WireAt
<1>2. RequestTypes' /\ AnswersAreOwn' /\ ErrorsReachTheirRequest'
  BY <1>1 DEF RequestsInv, RequestTypes, AnswersAreOwn, ErrorsReachTheirRequest
<1>3. GivenInv'
  BY <1>1 DEF RequestsInv, GivenInv, Given
<1>4. OrdersInv'
  BY <1>1 DEF RequestsInv, OrdersInv, OrderIdsAreFresh
<1>5. ErrorsInv'
  BY <1>1 DEF RequestsInv, ErrorsInv, OwnErrors, ErrorsOf, Alone, SharedNumber
<1>6. KeyedInv'
  <2>1. ASSUME NEW c \in Callers, caller[c].step = "keyed", Alone(c)'
        PROVE  Transfer(KeyedTransfer(c))'
    <3>1. PICK t : t = KeyedTransfer(c)
      OBVIOUS
    <3>2. KeyedTransfer(c)' = t
      BY <1>1, <3>1 DEF KeyedTransfer, ErrorsOf
    <3>3. Transfer(t)
      BY <1>1, <2>1, <3>1 DEF RequestsInv, KeyedInv, Alone, SharedNumber
    <3>4. Transfer(t)'
      BY <1>1, <3>3, TransferUntouched DEF InPending
    <3> QED BY <3>2, <3>4
  <2> QED BY <1>1, <2>1 DEF RequestsInv, KeyedInv
<1> QED BY <1>2, <1>3, <1>4, <1>5, <1>6 DEF RequestsInv

\* Every state of the client satisfies RequestsInv, whatever the threads, IBKR and the reader
\* thread do, and however often the connection is made anew.
THEOREM RequestsInvariance == RequestsSpec => []RequestsInv
<1>1. RequestsInv /\ [RequestsNext]_requestVars => RequestsInv'
  <2>1. ASSUME RequestsInv, RequestsNext
        PROVE  RequestsInv'
    <3>1. /\ RequestTypes /\ GivenInv /\ OrdersInv /\ ErrorsInv /\ KeyedInv
          /\ AnswersAreOwn /\ ErrorsReachTheirRequest
      BY <2>1 DEF RequestsInv
    <3>2. RequestTypes' /\ GivenInv' /\ OrdersInv'
      BY <2>1, <3>1, TypesPreserved, GivenPreserved, OrdersPreserved
    <3>3. ErrorsInv' /\ KeyedInv'
      BY <2>1, <3>1, ErrorsPreserved, KeyedPreserved
    <3>4. AnswersAreOwn' /\ ErrorsReachTheirRequest'
      BY <2>1, <3>1, AnswersPreserved
    <3> QED BY <3>2, <3>3, <3>4 DEF RequestsInv
  <2> QED BY <2>1, RequestsStutter
<1> QED BY <1>1, RequestsStart, PTL DEF RequestsSpec

\* OrderIdsAreFresh holds for every number of threads, orders and connections: the counter of
\* a connection starts beyond the orders that IBKR has taken up, and nextValidId and the
\* statuses of orders only ever raise it.
THEOREM OrderIdsAreNeverReused == RequestsSpec => []OrderIdsAreFresh
<1>1. RequestsInv => OrderIdsAreFresh
  BY DEF RequestsInv, OrdersInv
<1> QED BY <1>1, RequestsInvariance, PTL

\* CallsGetTheirAnswers holds for every number of threads, calls, timeouts and rows, wherever
\* the two counters start: what comes under a number that one call has is for that call or for
\* nobody.
THEOREM AnswersAreTheirOwn == RequestsSpec => []CallsGetTheirAnswers
<1>1. RequestsInv => CallsGetTheirAnswers
  BY DEF RequestsInv, CallsGetTheirAnswers
<1> QED BY <1>1, RequestsInvariance, PTL

-----------------------------------------------------------------------------
(* Queries: types.                                                         *)

Items == Orders \cup Instruments
FactsOfAll == [item : Items, version : Nat]
QueryMessages == [type : {"row"}, kind : Kinds, fact : FactsOfAll]
                 \cup [type : {"end"}, kind : Kinds]
Answers == [kind : Kinds \cup {"none"}, due : SUBSET FactsOfAll, rows : SUBSET FactsOfAll]
OrderStates == {"none", "open", "completed"}

\* What is left of a reading, and what has been read.
Plans == {[plan |-> <<>>, read |-> {}],
          [plan |-> <<"open", "completed", "positions">>, read |-> {}],
          [plan |-> <<"completed", "positions">>, read |-> {"open"}],
          [plan |-> <<"positions">>, read |-> {"open", "completed"}],
          [plan |-> <<>>, read |-> {"open", "completed", "positions"}],
          [plan |-> <<"positions", "open">>, read |-> {}],
          [plan |-> <<"open">>, read |-> {"positions"}],
          [plan |-> <<>>, read |-> {"positions", "open"}]}

Readings == [plan : Seq(Kinds), asking : BOOLEAN, clean : BOOLEAN, due : SUBSET FactsOfAll,
             answer : Answers, known : SUBSET Orders, found : SUBSET Items, read : SUBSET Kinds]

InPlan(r) ==
    /\ [plan |-> reader[r].plan, read |-> reader[r].read] \in Plans
    /\ reader[r].asking => reader[r].plan # <<>>

QueryTypes ==
    /\ reader \in [Readers -> Readings] /\ \A r \in Readers : InPlan(r)
    /\ rows \in [Kinds -> SUBSET FactsOfAll]
    /\ done \in [Kinds -> BOOLEAN]
    /\ asked \in [Kinds -> Seq({"request", "cancel"})]
    /\ inbox \in Seq(QueryMessages)
    /\ order \in [Orders -> OrderStates]
    /\ position \in [Instruments -> Nat]

-----------------------------------------------------------------------------
(* Queries: from the request to the last message.                          *)

IsRow(m, k) == m.type = "row" /\ m.kind = k
IsEnd(m, k) == m.type = "end" /\ m.kind = k
InboxAt == 1..Len(inbox)
Requests(k) == {i \in 1..Len(asked[k]) : asked[k][i] = "request"}
EndsOf(k) == {i \in InboxAt : IsEnd(inbox[i], k)}

\* The fact that was true when the query was asked.
Was(k, fact) ==
    \/ k = "open" /\ fact.item \in Orders /\ fact.version = 0 /\ order[fact.item] # "none"
    \/ k = "completed" /\ fact.item \in Orders /\ fact.version = 0
       /\ order[fact.item] = "completed"
    \/ k = "positions" /\ fact.item \in Instruments /\ fact.version \in Nat
       /\ fact.version <= position[fact.item]

\* IBKR has not received the query.
Unanswered(k) ==
    /\ \E i \in Requests(k) : Requests(k) = {i}
    /\ EndsOf(k) = {} /\ ~done[k]

\* What is due has come, or comes before the end.
Answering(k, due) ==
    /\ Requests(k) = {} /\ ~done[k]
    /\ \E e \in InboxAt :
          /\ EndsOf(k) = {e}
          /\ \A f \in due : StillDue(k, f) =>
                \/ IsKnown(f, rows[k])
                \/ \E i \in 1..(e - 1) : IsRow(inbox[i], k) /\ IsKnown(f, {inbox[i].fact})

Answered(k, due) ==
    /\ Requests(k) = {} /\ EndsOf(k) = {} /\ done[k]
    /\ Complete(k, due, rows[k])

Phase(k, due) == Unanswered(k) \/ Answering(k, due) \/ Answered(k, due)

LocksInv == \A k \in Kinds : \A r, s \in Readers : Asks(r, k) /\ Asks(s, k) => r = s

AnsweredDue(r) == \A f \in reader[r].answer.due : Was(reader[r].answer.kind, f)
AnswerComplete(r) == Complete(reader[r].answer.kind, reader[r].answer.due, reader[r].answer.rows)
AskedDue(r, k) == (\A f \in reader[r].due : Was(k, f)) /\ Phase(k, reader[r].due)

\* What was due was true, and is on its way or in the table.
DueInv ==
    \A r \in Readers : reader[r].clean =>
       AnsweredDue(r) /\ \A k \in Kinds : Asks(r, k) => AskedDue(r, k)

\* What a reading knows is found among the open orders, or has been completed by then and is
\* found among the completed ones.
KnownIsFound(r, o) ==
    /\ order[o] # "none"
    /\ Asks(r, "open") => order[o] = "completed" \/ Fact(o, 0) \in reader[r].due
    /\ "open" \in reader[r].read =>
          \/ o \in reader[r].found
          \/ /\ order[o] = "completed" /\ "completed" \notin reader[r].read
             /\ Asks(r, "completed") => Fact(o, 0) \in reader[r].due

KnownInv ==
    \A r \in Readers : reader[r].clean => \A o \in reader[r].known : KnownIsFound(r, o)

QueriesInv == QueryTypes /\ LocksInv /\ DueInv /\ AnswersAreComplete /\ KnownInv

-----------------------------------------------------------------------------
(* Queries: the steps, one kind at a time.                                 *)

\* The types of what a query looks at.
LEMMA QueryFields ==
    ASSUME QueryTypes
    PROVE  /\ inbox \in Seq(QueryMessages) /\ Len(inbox) \in Nat
           /\ \A k \in Kinds : /\ rows[k] \subseteq FactsOfAll /\ done[k] \in BOOLEAN
                               /\ asked[k] \in Seq({"request", "cancel"})
                               /\ Len(asked[k]) \in Nat
           /\ \A o \in Orders : order[o] \in OrderStates
           /\ \A i \in Instruments : position[i] \in Nat
BY DEF QueryTypes

\* What IBKR knows of a kind is finite, and true.
LEMMA FactsAreTrue ==
    ASSUME QueryTypes, NEW k \in Kinds
    PROVE  /\ Facts(k) \subseteq FactsOfAll
           /\ \A f \in Facts(k) : Was(k, f)
           /\ \A f : Was(k, f) /\ StillDue(k, f) => IsKnown(f, Facts(k))
           /\ IsFiniteSet(Facts(k)) /\ Cardinality(Facts(k)) \in Nat
<1>1. IsFiniteSet(Orders) /\ IsFiniteSet(Instruments)
  BY QueriesAssumption
<1>2. /\ order \in [Orders -> OrderStates] /\ position \in [Instruments -> Nat]
  BY DEF QueryTypes
<1>3. CASE k = "positions"
  <2>1. Facts(k) = {Fact(i, position[i]) : i \in Instruments}
    BY <1>3 DEF Facts
  <2>2. /\ Facts(k) \subseteq FactsOfAll /\ \A f \in Facts(k) : Was(k, f)
    BY <1>2, <1>3, <2>1 DEF Fact, FactsOfAll, Items, Was
  <2>3. ASSUME NEW f, Was(k, f)
        PROVE  IsKnown(f, Facts(k))
    <3>1. PICK g : g = Fact(f.item, position[f.item])
      OBVIOUS
    <3>2. g \in Facts(k) /\ g.item = f.item /\ g.version = position[f.item]
      BY <1>3, <2>1, <2>3, <3>1 DEF Was, Fact
    <3>3. g.version >= f.version
      BY <1>2, <1>3, <2>3, <3>2 DEF Was
    <3> QED BY <3>2, <3>3 DEF IsKnown
  <2>4. IsFiniteSet(Facts(k))
    <3>1. PICK g : g = [i \in Instruments |-> Fact(i, position[i])]
      OBVIOUS
    <3>2. g \in Surjection(Instruments, Facts(k))
      BY <2>1, <3>1 DEF Surjection
    <3> QED BY <1>1, <3>2, FS_Surjection
  <2> QED BY <2>2, <2>3, <2>4, FS_CardinalityType
<1>4. CASE k # "positions"
  <2>1. PICK there : there = {x \in Orders : order[x] = k}
    OBVIOUS
  <2>2. Facts(k) = {Fact(o, 0) : o \in there}
    BY <1>4, <2>1 DEF Facts
  <2>3. k \in {"open", "completed"}
    BY <1>4 DEF Kinds
  <2>4. /\ Facts(k) \subseteq FactsOfAll /\ \A f \in Facts(k) : Was(k, f)
    BY <1>2, <2>1, <2>2, <2>3 DEF Fact, FactsOfAll, Items, Was
  <2>5. \A f : Was(k, f) /\ StillDue(k, f) => IsKnown(f, Facts(k))
    <3>1. ASSUME NEW f, Was(k, f), StillDue(k, f)
          PROVE  IsKnown(f, Facts(k))
      <4>1. f.item \in there /\ f.version = 0
        BY <2>1, <2>3, <3>1 DEF Was, StillDue
      <4>2. Fact(f.item, 0) \in Facts(k) /\ Fact(f.item, 0).item = f.item
            /\ Fact(f.item, 0).version = 0
        BY <2>2, <4>1 DEF Fact
      <4> QED BY <4>1, <4>2 DEF IsKnown
    <3> QED BY <3>1
  <2>6. IsFiniteSet(Facts(k))
    <3>1. IsFiniteSet(there)
      BY <1>1, <2>1, FS_Subset
    <3>2. PICK g : g = [o \in there |-> Fact(o, 0)]
      OBVIOUS
    <3>3. g \in Surjection(there, Facts(k))
      BY <2>2, <3>2 DEF Surjection
    <3> QED BY <3>1, <3>3, FS_Surjection
  <2> QED BY <2>4, <2>5, <2>6, FS_CardinalityType
<1> QED BY <1>3, <1>4

\* Orders do not reopen, and what has happened stays so.
LEMMA TimeGoesOn ==
    ASSUME QueryTypes, QueriesNext
    PROVE  /\ \A o \in Orders :
                 /\ order[o] # "none" => order'[o] # "none"
                 /\ order[o] = "completed" => order'[o] = "completed"
                 /\ order[o] # "none" /\ order'[o] = "open" => order[o] = "open"
           /\ \A i \in Instruments : position[i] <= position'[i] /\ position'[i] \in Nat
<1>1. order \in [Orders -> OrderStates] /\ position \in [Instruments -> Nat]
  BY DEF QueryTypes
<1>2. \/ UNCHANGED <<order, position>>
      \/ \E o \in Orders : /\ order[o] = "none" /\ order' = [order EXCEPT ![o] = "open"]
                           /\ position' = position
      \/ \E o \in Orders : /\ order[o] = "open" /\ order' = [order EXCEPT ![o] = "completed"]
                           /\ position' = position
      \/ \E i \in Instruments : /\ position' = [position EXCEPT ![i] = @ + 1]
                                /\ order' = order
  <2>1. ASSUME NEW r \in Readers, NEW plan, StartsReading(r, plan)
        PROVE  UNCHANGED <<order, position>>
    BY <2>1 DEF StartsReading
  <2>2. ASSUME NEW r \in Readers, NEW k \in Kinds,
               Query(r, k) \/ QueryReturns(r, k) \/ QueryTimesOut(r, k)
        PROVE  UNCHANGED <<order, position>>
    BY <2>2 DEF Query, Asking, QueryReturns, QueryTimesOut, Releases
  <2>3. ASSUME NEW k \in Kinds, BrokerAnswersQuery(k) \/ BrokerCancels(k)
        PROVE  UNCHANGED <<order, position>>
    BY <2>3 DEF BrokerAnswersQuery, BrokerCancels
  <2>4. ASSUME NEW m, NEW k \in Kinds, QueryRowArrives(m, k) \/ QueryEndArrives(m, k)
        PROVE  UNCHANGED <<order, position>>
    BY <2>4 DEF QueryRowArrives, QueryEndArrives, MessageArrives
  <2> QED BY <2>1, <2>2, <2>3, <2>4 DEF QueriesNext, OrderOpens, OrderEnds, PositionChanges
<1> QED BY <1>1, <1>2 DEF OrderStates

LEMMA WasStays ==
    ASSUME QueryTypes, QueriesNext, NEW k, NEW f, Was(k, f)
    PROVE  Was(k, f)' /\ (StillDue(k, f)' => StillDue(k, f))
<1>1. \A i \in Instruments : position[i] \in Nat
  BY QueryFields
<1>2. CASE k = "open"
  BY <1>2, TimeGoesOn DEF Was, StillDue
<1>3. CASE k = "completed"
  BY <1>3, TimeGoesOn DEF Was, StillDue
<1>4. CASE k = "positions"
  <2>1. f.item \in Instruments /\ f.version \in Nat /\ f.version <= position[f.item]
    BY <1>4 DEF Was
  <2>2. position[f.item] <= position'[f.item] /\ position'[f.item] \in Nat
    BY <2>1, TimeGoesOn
  <2>3. f.version <= position'[f.item]
    BY <1>1, <2>1, <2>2
  <2> QED BY <1>4, <2>1, <2>3 DEF Was, StillDue
<1> QED BY <1>2, <1>3, <1>4 DEF Was

\* More rows know more.
LEMMA KnownStays ==
    ASSUME NEW f, NEW less, NEW more, less \subseteq more, IsKnown(f, less)
    PROVE  IsKnown(f, more)
BY DEF IsKnown

\* A query that the step does not touch stays where it is.
LEMMA PhaseStays ==
    ASSUME inbox \in Seq(QueryMessages), NEW k, NEW due, Phase(k, due),
           asked'[k] = asked[k], done'[k] = done[k], rows[k] \subseteq rows'[k],
           \A i \in InboxAt : i \in InboxAt' /\ inbox'[i] = inbox[i],
           \A i \in InboxAt' : i \in InboxAt \/ ~IsEnd(inbox'[i], k),
           \A f \in due : StillDue(k, f)' => StillDue(k, f)
    PROVE  Phase(k, due)'
<1>1. Requests(k)' = Requests(k)
  BY DEF Requests
<1>2. EndsOf(k)' = EndsOf(k)
  BY DEF EndsOf
<1>3. CASE Unanswered(k)
  BY <1>1, <1>2, <1>3 DEF Unanswered, Phase
<1>4. CASE Answering(k, due)
  <2>1. PICK e \in InboxAt :
           /\ EndsOf(k) = {e}
           /\ \A f \in due : StillDue(k, f) =>
                 \/ IsKnown(f, rows[k])
                 \/ \E i \in 1..(e - 1) : IsRow(inbox[i], k) /\ IsKnown(f, {inbox[i].fact})
    BY <1>4 DEF Answering
  <2>2. \A i \in 1..(e - 1) : i \in InboxAt
    BY DEF InboxAt
  <2>3. ASSUME NEW f \in due, StillDue(k, f)'
        PROVE  \/ IsKnown(f, rows'[k])
               \/ \E i \in 1..(e - 1) : IsRow(inbox'[i], k) /\ IsKnown(f, {inbox'[i].fact})
    <3>1. StillDue(k, f)
      BY <2>3
    <3>2. CASE IsKnown(f, rows[k])
      BY <3>2, KnownStays
    <3>3. CASE \E i \in 1..(e - 1) : IsRow(inbox[i], k) /\ IsKnown(f, {inbox[i].fact})
      BY <2>2, <3>3
    <3> QED BY <2>1, <3>1, <3>2, <3>3
  <2>4. e \in InboxAt' /\ Requests(k)' = {} /\ ~done'[k] /\ EndsOf(k)' = {e}
    BY <1>1, <1>2, <1>4, <2>1 DEF Answering
  <2>5. Answering(k, due)'
    BY <2>3, <2>4 DEF Answering, IsKnown, IsRow
  <2> QED BY <2>5 DEF Phase
<1>5. CASE Answered(k, due)
  <2>1. \A f \in due : StillDue(k, f)' => IsKnown(f, rows'[k])
    BY <1>5, KnownStays DEF Answered, Complete
  <2>2. Complete(k, due, rows[k])'
    BY <2>1 DEF Complete, IsKnown
  <2> QED BY <1>1, <1>2, <1>5, <2>2 DEF Answered, Phase
<1> QED BY <1>3, <1>4, <1>5 DEF Phase

\* The reader thread takes a message, about the query or about another.
LEMMA PhaseTaken ==
    ASSUME inbox \in Seq(QueryMessages), NEW k, NEW due, Phase(k, due),
           inbox # <<>>, inbox' = Tail(inbox), NEW m, m = Head(inbox),
           asked' = asked, order' = order,
           rows'[k] = IF IsRow(m, k) THEN rows[k] \cup {m.fact} ELSE rows[k],
           done'[k] = IF IsEnd(m, k) THEN TRUE ELSE done[k]
    PROVE  Phase(k, due)'
<1>1. /\ Len(inbox) \in Nat /\ Len(inbox) >= 1 /\ Len(inbox') = Len(inbox) - 1
      /\ \A i \in 1..(Len(inbox) - 1) : inbox'[i] = inbox[i + 1]
      /\ m = inbox[1]
  OBVIOUS
<1>2. /\ InboxAt = 1..Len(inbox) /\ InboxAt' = 1..(Len(inbox) - 1)
  BY <1>1 DEF InboxAt
<1>3. Requests(k)' = Requests(k)
  BY DEF Requests
<1>4. EndsOf(k)' = {i \in InboxAt' : i + 1 \in EndsOf(k)}
  BY <1>1, <1>2 DEF EndsOf
<1>5. IsEnd(m, k) <=> 1 \in EndsOf(k)
  BY <1>1, <1>2 DEF EndsOf
<1>6. rows[k] \subseteq rows'[k]
  OBVIOUS
<1>7. \A f : StillDue(k, f)' = StillDue(k, f)
  BY DEF StillDue
<1>8. CASE Unanswered(k)
  BY <1>3, <1>4, <1>5, <1>8 DEF Unanswered, Phase
<1>9. CASE Answered(k, due)
  <2>1. \A f \in due : StillDue(k, f)' => IsKnown(f, rows'[k])
    BY <1>6, <1>7, <1>9, KnownStays DEF Answered, Complete
  <2>2. Complete(k, due, rows[k])'
    BY <2>1 DEF Complete, IsKnown
  <2> QED BY <1>3, <1>4, <1>5, <1>9, <2>2 DEF Answered, Phase
<1>10. CASE Answering(k, due)
  <2>1. PICK e \in InboxAt :
           /\ EndsOf(k) = {e}
           /\ \A f \in due : StillDue(k, f) =>
                 \/ IsKnown(f, rows[k])
                 \/ \E i \in 1..(e - 1) : IsRow(inbox[i], k) /\ IsKnown(f, {inbox[i].fact})
    BY <1>10 DEF Answering
  <2>2. Requests(k)' = {} /\ ~done[k]
    BY <1>3, <1>10 DEF Answering
  <2>3. CASE e = 1
    <3>1. IsEnd(m, k) /\ ~IsRow(m, k) /\ done'[k]
      BY <1>5, <2>1, <2>3 DEF IsEnd, IsRow
    <3>2. EndsOf(k)' = {}
      BY <1>2, <1>4, <2>1, <2>3
    <3>3. \A f \in due : StillDue(k, f)' => IsKnown(f, rows'[k])
      BY <1>7, <2>1, <2>3, <3>1
    <3>4. Complete(k, due, rows[k])'
      BY <3>3 DEF Complete, IsKnown
    <3> QED BY <2>2, <3>1, <3>2, <3>4 DEF Answered, Phase
  <2>4. CASE e # 1
    <3>1. ~IsEnd(m, k) /\ ~done'[k]
      BY <1>5, <2>1, <2>2, <2>4
    <3>2. e \in Nat /\ e >= 2 /\ e - 1 \in InboxAt' /\ e <= Len(inbox)
      BY <1>1, <1>2, <2>1, <2>4
    <3>3. EndsOf(k)' = {e - 1}
      BY <1>1, <1>2, <1>4, <2>1, <3>2
    <3>4. ASSUME NEW f \in due, StillDue(k, f)'
          PROVE  \/ IsKnown(f, rows'[k])
                 \/ \E i \in 1..((e - 1) - 1) : IsRow(inbox'[i], k) /\ IsKnown(f, {inbox'[i].fact})
      <4>1. CASE IsKnown(f, rows[k])
        BY <1>6, <4>1, KnownStays
      <4>2. ASSUME NEW i \in 1..(e - 1), IsRow(inbox[i], k), IsKnown(f, {inbox[i].fact})
            PROVE  \/ IsKnown(f, rows'[k])
                   \/ \E j \in 1..((e - 1) - 1) :
                         IsRow(inbox'[j], k) /\ IsKnown(f, {inbox'[j].fact})
        <5>1. CASE i = 1
          <6>1. {inbox[i].fact} \subseteq rows'[k]
            BY <1>1, <4>2, <5>1
          <6> QED BY <4>2, <6>1, KnownStays
        <5>2. CASE i # 1
          <6>1. i - 1 \in 1..((e - 1) - 1) /\ i - 1 \in 1..(Len(inbox) - 1) /\ (i - 1) + 1 = i
            BY <1>1, <3>2, <5>2
          <6>2. inbox'[i - 1] = inbox[i]
            BY <1>1, <6>1
          <6> QED BY <4>2, <6>1, <6>2
        <5> QED BY <5>1, <5>2
      <4>3. StillDue(k, f)
        BY <1>7, <3>4
      <4> QED BY <2>1, <4>1, <4>2, <4>3
    <3>5. Answering(k, due)'
      BY <2>2, <3>1, <3>2, <3>3, <3>4 DEF Answering, IsKnown, IsRow
    <3> QED BY <3>5 DEF Phase
  <2> QED BY <2>3, <2>4
<1> QED BY <1>8, <1>9, <1>10 DEF Phase

\* IBKR's answer: a row for each fact, and the end.
LEMMA BatchRows ==
    ASSUME QueryTypes, NEW k \in Kinds, NEW batch \in Batch(k)
    PROVE  \E n \in Nat :
              /\ batch \in Seq(QueryMessages) /\ Len(batch) = n + 1
              /\ IsEnd(batch[n + 1], k)
              /\ \A i \in 1..n : IsRow(batch[i], k) /\ ~IsEnd(batch[i], k)
              /\ \A f \in Facts(k) : \E i \in 1..n : batch[i].fact = f
<1>1. PICK n : n = Cardinality(Facts(k)) /\ n \in Nat
  BY FactsAreTrue
<1>2. PICK s \in [1..n -> Facts(k)] :
         Range(s) = Facts(k) /\ batch = [i \in 1..n |-> Row(k, s[i])] \o <<End(k)>>
  BY <1>1 DEF Batch
<1>3. PICK head : head = [i \in 1..n |-> Row(k, s[i])]
  OBVIOUS
<1>4. \A f \in Facts(k) : Row(k, f) \in QueryMessages
  BY FactsAreTrue DEF Row, QueryMessages
<1>5. End(k) \in QueryMessages
  BY DEF End, QueryMessages
<1>6. head \in Seq(QueryMessages) /\ Len(head) = n /\ \A i \in 1..n : head[i] = Row(k, s[i])
  <2>1. \A i \in 1..n : Row(k, s[i]) \in QueryMessages
    BY <1>2, <1>4
  <2>2. head \in [1..n -> QueryMessages] /\ \A i \in 1..n : head[i] = Row(k, s[i])
    BY <1>3, <2>1
  <2>3. head \in Seq(QueryMessages) /\ Len(head) = n
    BY <1>1, <2>2
  <2> QED BY <2>2, <2>3
<1>7. PICK end : end = End(k)
  OBVIOUS
<1>8. <<end>> \in Seq(QueryMessages) /\ Len(<<end>>) = 1 /\ <<end>>[1] = end
  BY <1>5, <1>7
<1>9. batch = head \o <<end>>
  BY <1>2, <1>3, <1>7
<1>10. /\ batch \in Seq(QueryMessages) /\ Len(batch) = n + 1 /\ batch[n + 1] = end
       /\ \A i \in 1..n : batch[i] = head[i]
  BY <1>1, <1>6, <1>8, <1>9
<1>11. \A i \in 1..n : batch[i] = Row(k, s[i])
  BY <1>6, <1>10
<1>12. ASSUME NEW f \in Facts(k)
       PROVE  \E i \in 1..n : batch[i].fact = f
  <2>1. PICK i \in 1..n : s[i] = f
    BY <1>2 DEF Range
  <2>2. batch[i] = Row(k, f) /\ Row(k, f).fact = f
    BY <1>11, <2>1 DEF Row
  <2>3. batch[i].fact = f
    BY <2>2
  <2> QED BY <2>3
<1>13. IsEnd(end, k) /\ \A f : IsRow(Row(k, f), k) /\ ~IsEnd(Row(k, f), k)
  BY <1>7 DEF IsEnd, IsRow, End, Row
<1> QED BY <1>1, <1>10, <1>11, <1>12, <1>13

\* What is appended to the inbox.
LEMMA InboxGrows ==
    ASSUME inbox \in Seq(QueryMessages), NEW batch \in Seq(QueryMessages),
           inbox' = inbox \o batch
    PROVE  /\ inbox' \in Seq(QueryMessages)
           /\ Len(inbox) \in Nat /\ Len(inbox') = Len(inbox) + Len(batch)
           /\ \A i \in InboxAt : i \in InboxAt' /\ inbox'[i] = inbox[i]
           /\ \A i \in 1..Len(batch) : Len(inbox) + i \in InboxAt'
                                       /\ inbox'[Len(inbox) + i] = batch[i]
           /\ \A i \in InboxAt' : i \in InboxAt \/ i - Len(inbox) \in 1..Len(batch)
           /\ \A i \in InboxAt' : i \in InboxAt \/ inbox'[i] = batch[i - Len(inbox)]
<1>1. /\ inbox' \in Seq(QueryMessages)
      /\ Len(inbox) \in Nat /\ Len(batch) \in Nat
      /\ Len(inbox') = Len(inbox) + Len(batch)
      /\ \A i \in 1..Len(inbox) : inbox'[i] = inbox[i]
      /\ \A i \in 1..Len(batch) : inbox'[Len(inbox) + i] = batch[i]
  OBVIOUS
<1>2. ASSUME NEW i \in InboxAt', i \notin InboxAt
      PROVE  i - Len(inbox) \in 1..Len(batch) /\ inbox'[i] = batch[i - Len(inbox)]
  <2>1. i - Len(inbox) \in 1..Len(batch) /\ i = Len(inbox) + (i - Len(inbox))
    BY <1>1, <1>2 DEF InboxAt
  <2> QED BY <1>1, <2>1
<1> QED BY <1>1, <1>2 DEF InboxAt

\* IBKR answers the query: all that is due comes before the end.
LEMMA PhaseAnswered ==
    ASSUME QueryTypes, NEW k \in Kinds, NEW due, Phase(k, due), \A f \in due : Was(k, f),
           BrokerAnswersQuery(k)
    PROVE  Phase(k, due)'
<1>1. /\ inbox \in Seq(QueryMessages) /\ asked[k] \in Seq({"request", "cancel"})
      /\ asked \in [Kinds -> Seq({"request", "cancel"})]
  BY DEF QueryTypes
<1>2. /\ asked[k] # <<>> /\ Head(asked[k]) = "request" /\ asked'[k] = Tail(asked[k])
      /\ UNCHANGED <<rows, done, order>>
  BY <1>1 DEF BrokerAnswersQuery
<1>3. /\ Len(asked[k]) \in Nat /\ 1 \in 1..Len(asked[k]) /\ asked[k][1] = "request"
      /\ Len(asked'[k]) = Len(asked[k]) - 1
      /\ \A i \in 1..(Len(asked[k]) - 1) : asked'[k][i] = asked[k][i + 1]
  BY <1>1, <1>2
<1>4. 1 \in Requests(k)
  BY <1>3 DEF Requests
<1>5. Unanswered(k) /\ Requests(k) = {1}
  BY <1>4 DEF Phase, Unanswered, Answering, Answered
<1>6. Requests(k)' = {}
  <2>1. ASSUME NEW i \in 1..(Len(asked[k]) - 1), asked'[k][i] = "request"
        PROVE  FALSE
    <3>1. i + 1 \in 1..Len(asked[k]) /\ asked[k][i + 1] = "request" /\ i + 1 # 1
      BY <1>3, <2>1
    <3> QED BY <1>5, <3>1 DEF Requests
  <2> QED BY <1>3, <2>1 DEF Requests
<1>7. PICK batch \in Batch(k) : inbox' = inbox \o batch
  BY DEF BrokerAnswersQuery
<1>8. PICK n \in Nat :
         /\ batch \in Seq(QueryMessages) /\ Len(batch) = n + 1
         /\ IsEnd(batch[n + 1], k)
         /\ \A i \in 1..n : IsRow(batch[i], k) /\ ~IsEnd(batch[i], k)
         /\ \A f \in Facts(k) : \E i \in 1..n : batch[i].fact = f
  BY BatchRows
<1>9. /\ Len(inbox) \in Nat /\ Len(inbox') = Len(inbox) + (n + 1)
      /\ \A i \in InboxAt : i \in InboxAt' /\ inbox'[i] = inbox[i]
      /\ \A i \in 1..(n + 1) : Len(inbox) + i \in InboxAt'
                               /\ inbox'[Len(inbox) + i] = batch[i]
      /\ \A i \in InboxAt' : i \in InboxAt \/ i - Len(inbox) \in 1..(n + 1)
      /\ \A i \in InboxAt' : i \in InboxAt \/ inbox'[i] = batch[i - Len(inbox)]
  BY <1>1, <1>7, <1>8, InboxGrows
<1>10. PICK e : e = Len(inbox) + (n + 1)
  OBVIOUS
<1>11. e \in InboxAt' /\ IsEnd(inbox'[e], k) /\ n + 1 \in 1..(n + 1)
  BY <1>8, <1>9, <1>10
<1>12. ASSUME NEW i \in InboxAt', IsEnd(inbox'[i], k)
       PROVE  i = e
  <2>1. i \notin InboxAt
    BY <1>5, <1>9, <1>12 DEF Unanswered, EndsOf
  <2>2. i - Len(inbox) \in 1..(n + 1) /\ inbox'[i] = batch[i - Len(inbox)]
    BY <1>9, <2>1
  <2>3. i - Len(inbox) \notin 1..n
    BY <1>8, <1>12, <2>2
  <2>4. i \in Int
    BY DEF InboxAt
  <2> QED BY <1>9, <1>10, <2>2, <2>3, <2>4
<1>13. EndsOf(k)' = {e}
  BY <1>11, <1>12 DEF EndsOf
<1>14. ASSUME NEW f \in due, StillDue(k, f)'
       PROVE  \E i \in 1..(e - 1) : IsRow(inbox'[i], k) /\ IsKnown(f, {inbox'[i].fact})
  <2>1. StillDue(k, f)
    BY <1>2, <1>14 DEF StillDue
  <2>2. PICK g \in Facts(k) : g.item = f.item /\ g.version >= f.version
    BY <2>1, FactsAreTrue DEF IsKnown
  <2>3. PICK i \in 1..n : batch[i].fact = g
    BY <1>8
  <2>4. /\ i \in 1..(n + 1) /\ Len(inbox) + i \in 1..(e - 1)
        /\ inbox'[Len(inbox) + i] = batch[i]
    <3>1. PICK len \in Nat : len = Len(inbox)
      BY <1>9
    <3>2. i \in 1..(n + 1) /\ e = len + (n + 1)
      BY <1>10, <3>1
    <3>3. len + i \in 1..(e - 1)
      BY <3>2
    <3> QED BY <1>9, <3>1, <3>2, <3>3
  <2>5. IsRow(batch[i], k) /\ IsKnown(f, {batch[i].fact})
    BY <1>8, <2>2, <2>3 DEF IsKnown
  <2> QED BY <2>4, <2>5
<1>15. ~done'[k]
  BY <1>2, <1>5 DEF Unanswered
<1>16. Answering(k, due)'
  BY <1>6, <1>11, <1>13, <1>14, <1>15 DEF Answering, IsKnown, IsRow
<1> QED BY <1>16 DEF Phase

\* IBKR takes a cancellation: the requests behind it move up.
LEMMA PhaseCancelled ==
    ASSUME QueryTypes, NEW k \in Kinds, NEW due, Phase(k, due), BrokerCancels(k)
    PROVE  Phase(k, due)'
<1>1. /\ asked[k] \in Seq({"request", "cancel"})
      /\ asked \in [Kinds -> Seq({"request", "cancel"})]
  BY DEF QueryTypes
<1>2. /\ asked[k] # <<>> /\ Head(asked[k]) = "cancel" /\ asked'[k] = Tail(asked[k])
      /\ UNCHANGED <<rows, done, inbox, order>>
  BY <1>1 DEF BrokerCancels
<1>3. /\ Len(asked[k]) \in Nat /\ Len(asked[k]) >= 1 /\ asked[k][1] = "cancel"
      /\ Len(asked'[k]) = Len(asked[k]) - 1
      /\ \A i \in 1..(Len(asked[k]) - 1) : asked'[k][i] = asked[k][i + 1]
  BY <1>1, <1>2
<1>4. Requests(k)' = {i \in 1..(Len(asked[k]) - 1) : i + 1 \in Requests(k)}
  BY <1>3 DEF Requests
<1>5. /\ EndsOf(k)' = EndsOf(k) /\ InboxAt' = InboxAt
      /\ \A f : StillDue(k, f)' = StillDue(k, f)
  BY <1>2 DEF EndsOf, InboxAt, StillDue
<1>6. CASE Unanswered(k)
  <2>1. PICK at \in Requests(k) : Requests(k) = {at}
    BY <1>6 DEF Unanswered
  <2>2. at \in 1..Len(asked[k]) /\ at # 1
    BY <1>3, <2>1 DEF Requests
  <2>3. Requests(k)' = {at - 1}
    BY <1>3, <1>4, <2>1, <2>2
  <2> QED BY <1>2, <1>5, <1>6, <2>3 DEF Unanswered, Phase
<1>7. CASE Answering(k, due)
  BY <1>2, <1>4, <1>5, <1>7 DEF Answering, IsKnown, Phase
<1>8. CASE Answered(k, due)
  BY <1>2, <1>4, <1>5, <1>8 DEF Answered, Complete, IsKnown, Phase
<1> QED BY <1>6, <1>7, <1>8 DEF Phase

-----------------------------------------------------------------------------
(* Queries: every step keeps the invariant.                                *)

\* What each step does to the readings.
LEMMA ReadingStarts ==
    ASSUME QueryTypes, NEW r \in Readers, NEW plan, StartsReading(r, plan)
    PROVE  /\ \A s \in Readers : s # r => reader'[s] = reader[s]
           /\ reader'[r] = [plan |-> plan, asking |-> FALSE, clean |-> TRUE, due |-> {},
                            answer |-> NothingAnswered,
                            known |-> {o \in Orders : order[o] # "none"}, found |-> {},
                            read |-> {}]
           /\ UNCHANGED <<rows, done, asked, inbox, order, position>>
BY DEF QueryTypes, StartsReading, NotReading

LEMMA ReadingAsks ==
    ASSUME QueryTypes, NEW r \in Readers, NEW k \in Kinds, Query(r, k)
    PROVE  /\ \A s \in Readers : s # r => reader'[s] = reader[s]
           /\ reader'[r] \in Readings
           /\ reader'[r].plan = reader[r].plan /\ reader'[r].asking = TRUE
           /\ reader'[r].due = Facts(k) /\ reader'[r].answer = reader[r].answer
           /\ reader'[r].known = reader[r].known /\ reader'[r].found = reader[r].found
           /\ reader'[r].read = reader[r].read
           /\ reader'[r].clean => reader[r].clean /\ ~AnswerOutstanding(k)
           /\ reader[r].plan # <<>> /\ Head(reader[r].plan) = k /\ ~Held(k)
           /\ rows' = [rows EXCEPT ![k] = {}] /\ done' = [done EXCEPT ![k] = FALSE]
           /\ asked' = [asked EXCEPT ![k] = Append(@, "request")]
           /\ UNCHANGED <<inbox, order, position>>
<1>1. reader \in [Readers -> Readings] /\ reader[r].clean \in BOOLEAN
  BY DEF QueryTypes, Readings
<1>2. reader' = [reader EXCEPT ![r].asking = TRUE,
                               ![r].clean = @ /\ ~AnswerOutstanding(k),
                               ![r].due = Facts(k)]
  BY DEF Query, Asking
<1>3. PICK clean \in BOOLEAN : clean = (reader[r].clean /\ ~AnswerOutstanding(k))
  BY Zenon
<1>4. reader' = [reader EXCEPT ![r].asking = TRUE, ![r].clean = clean, ![r].due = Facts(k)]
  BY <1>2, <1>3, Zenon
<1>5. PICK due \in SUBSET FactsOfAll : due = Facts(k)
  BY FactsAreTrue
<1>6. reader' = [reader EXCEPT ![r].asking = TRUE, ![r].clean = clean, ![r].due = due]
  BY <1>4, <1>5
<1>7. /\ \A s \in Readers : s # r => reader'[s] = reader[s]
      /\ reader'[r] = [reader[r] EXCEPT !.asking = TRUE, !.clean = clean, !.due = due]
  BY <1>1, <1>6
<1>8. PICK mine \in Readings : mine = reader[r]
  BY <1>1
<1>9. PICK then : then = [mine EXCEPT !.asking = TRUE, !.clean = clean, !.due = due]
  OBVIOUS
<1>10. /\ then \in Readings /\ then.clean = clean /\ then.due = due
       /\ then.plan = mine.plan /\ then.asking = TRUE /\ then.answer = mine.answer
       /\ then.known = mine.known /\ then.found = mine.found /\ then.read = mine.read
  BY <1>3, <1>5, <1>8, <1>9 DEF Readings
<1>11. reader'[r] = then
  BY <1>7, <1>8, <1>9
<1>12. reader'[r].clean => reader[r].clean /\ ~AnswerOutstanding(k)
  BY <1>3, <1>10, <1>11, Zenon
<1> QED BY <1>5, <1>7, <1>8, <1>10, <1>11, <1>12 DEF Query, Asking

LEMMA ReadingReturns ==
    ASSUME QueryTypes, NEW r \in Readers, NEW k \in Kinds, QueryReturns(r, k)
    PROVE  /\ \A s \in Readers : s # r => reader'[s] = reader[s]
           /\ reader'[r] \in Readings
           /\ reader'[r].plan = Tail(reader[r].plan) /\ reader'[r].asking = FALSE
           /\ reader'[r].clean = reader[r].clean
           /\ reader'[r].answer = [kind |-> k, due |-> reader[r].due, rows |-> rows[k]]
           /\ reader'[r].known = reader[r].known
           /\ reader'[r].found = IF k = "positions" THEN reader[r].found
                                 ELSE reader[r].found \cup {f.item : f \in rows[k]}
           /\ reader'[r].read = reader[r].read \cup {k}
           /\ Asks(r, k) /\ done[k]
           /\ \A j \in Kinds : j # k => asked'[j] = asked[j]
           /\ asked' = asked \/ asked' = [asked EXCEPT ![k] = Append(@, "cancel")]
           /\ UNCHANGED <<rows, done, inbox, order, position>>
<1>1. reader \in [Readers -> Readings]
  BY DEF QueryTypes
<1>2. PICK mine \in Readings : mine = reader[r]
  BY <1>1
<1>3. mine.plan # <<>> /\ mine.plan \in Seq(Kinds) /\ rows[k] \subseteq FactsOfAll
  BY <1>2, QueryFields DEF QueryReturns, Asks, QueryTypes, InPlan, Readings
<1>4. PICK plan \in Seq(Kinds), answer \in Answers, found \in SUBSET Items,
           read \in SUBSET Kinds :
         /\ plan = Tail(mine.plan)
         /\ answer = [kind |-> k, due |-> mine.due, rows |-> rows[k]]
         /\ found = IF k = "positions" THEN mine.found
                    ELSE mine.found \cup {f.item : f \in rows[k]}
         /\ read = mine.read \cup {k}
  <2>1. Tail(mine.plan) \in Seq(Kinds)
    BY <1>3
  <2>2. [kind |-> k, due |-> mine.due, rows |-> rows[k]] \in Answers
    BY <1>2, <1>3 DEF Readings, Answers
  <2>3. {f.item : f \in rows[k]} \subseteq Items
    BY <1>3 DEF FactsOfAll
  <2>4. mine.found \subseteq Items /\ mine.read \cup {k} \subseteq Kinds
    BY <1>2 DEF Readings
  <2> QED BY <2>1, <2>2, <2>3, <2>4
<1>5. reader' = [reader EXCEPT ![r].plan = plan, ![r].asking = FALSE, ![r].answer = answer,
                               ![r].found = found, ![r].read = read]
  BY <1>1, <1>2, <1>4 DEF QueryReturns
<1>6. /\ \A s \in Readers : s # r => reader'[s] = reader[s]
      /\ reader'[r] = [mine EXCEPT !.plan = plan, !.asking = FALSE, !.answer = answer,
                                   !.found = found, !.read = read]
  BY <1>1, <1>2, <1>5
<1>7. /\ Asks(r, k) /\ done[k]
      /\ \A j \in Kinds : j # k => asked'[j] = asked[j]
      /\ asked' = asked \/ asked' = [asked EXCEPT ![k] = Append(@, "cancel")]
      /\ UNCHANGED <<rows, done, inbox, order, position>>
  BY DEF QueryTypes, QueryReturns, Releases
<1>8. PICK then : then = [mine EXCEPT !.plan = plan, !.asking = FALSE, !.answer = answer,
                                      !.found = found, !.read = read]
  OBVIOUS
<1>9. /\ then \in Readings /\ then.plan = plan /\ then.asking = FALSE
      /\ then.clean = mine.clean /\ then.answer = answer /\ then.known = mine.known
      /\ then.found = found /\ then.read = read
  BY <1>2, <1>4, <1>8 DEF Readings
<1> QED BY <1>2, <1>4, <1>6, <1>7, <1>8, <1>9

LEMMA ReadingTimesOut ==
    ASSUME QueryTypes, NEW r \in Readers, NEW k \in Kinds, QueryTimesOut(r, k)
    PROVE  /\ \A s \in Readers : s # r => reader'[s] = reader[s]
           /\ reader'[r] = NotReading
           /\ Asks(r, k)
           /\ \A j \in Kinds : j # k => asked'[j] = asked[j]
           /\ asked' = asked \/ asked' = [asked EXCEPT ![k] = Append(@, "cancel")]
           /\ UNCHANGED <<rows, done, inbox, order, position>>
BY DEF QueryTypes, QueryTimesOut, Releases

LEMMA BrokerReceives ==
    ASSUME QueryTypes, NEW k \in Kinds, BrokerAnswersQuery(k) \/ BrokerCancels(k)
    PROVE  /\ \A j \in Kinds : j # k => asked'[j] = asked[j]
           /\ asked' = [asked EXCEPT ![k] = Tail(@)] /\ asked[k] # <<>>
           /\ UNCHANGED <<reader, rows, done, order, position>>
           /\ inbox' = inbox \/ \E batch \in Batch(k) : inbox' = inbox \o batch
BY DEF QueryTypes, BrokerAnswersQuery, BrokerCancels

\* IBKR's own news: at most one row.
LEMMA BrokerNews ==
    ASSUME QueryTypes,
           \/ \E o \in Orders : OrderOpens(o) \/ OrderEnds(o)
           \/ \E i \in Instruments : PositionChanges(i)
    PROVE  /\ UNCHANGED <<reader, rows, done, asked>>
           /\ \/ inbox' = inbox
              \/ \E m \in QueryMessages : m.type = "row" /\ inbox' = Append(inbox, m)
           /\ order' \in [Orders -> OrderStates] /\ position' \in [Instruments -> Nat]
<1>1. order \in [Orders -> OrderStates] /\ position \in [Instruments -> Nat]
  BY DEF QueryTypes
<1>2. UNCHANGED <<reader, rows, done, asked>>
  BY DEF OrderOpens, OrderEnds, PositionChanges, Changes
<1>3. ASSUME NEW o \in Orders, OrderOpens(o)
      PROVE  \E m \in QueryMessages : m.type = "row" /\ inbox' = Append(inbox, m)
  <2>1. PICK m : m = Row("open", Fact(o, 0))
    OBVIOUS
  <2>2. m \in QueryMessages /\ m.type = "row"
    BY <2>1 DEF Row, Fact, QueryMessages, FactsOfAll, Items, Kinds
  <2>3. inbox' = Append(inbox, m)
    BY <1>3, <2>1 DEF OrderOpens
  <2> QED BY <2>2, <2>3
<1>4. ASSUME NEW i \in Instruments, PositionChanges(i)
      PROVE  \/ inbox' = inbox
             \/ \E m \in QueryMessages : m.type = "row" /\ inbox' = Append(inbox, m)
  <2>1. PICK m : m = Row("positions", Fact(i, position[i] + 1))
    OBVIOUS
  <2>2. m \in QueryMessages /\ m.type = "row"
    BY <1>1, <2>1 DEF Row, Fact, QueryMessages, FactsOfAll, Items, Kinds
  <2>3. inbox' = Append(inbox, m) \/ inbox' = inbox
    BY <1>4, <2>1 DEF PositionChanges
  <2> QED BY <2>2, <2>3
<1>5. /\ \A o \in Orders : OrderOpens(o) => order' = [order EXCEPT ![o] = "open"]
                                            /\ position' = position
      /\ \A o \in Orders : OrderEnds(o) => order' = [order EXCEPT ![o] = "completed"]
                                           /\ position' = position /\ inbox' = inbox
      /\ \A i \in Instruments : PositionChanges(i) =>
            order' = order /\ position' = [position EXCEPT ![i] = @ + 1]
  BY DEF OrderOpens, OrderEnds, PositionChanges
<1>6. order' \in [Orders -> OrderStates] /\ position' \in [Instruments -> Nat]
  BY <1>1, <1>5 DEF OrderStates
<1> QED BY <1>2, <1>3, <1>4, <1>5, <1>6

\* The reader thread takes a message of a kind.
LEMMA QueryReads ==
    ASSUME QueryTypes, NEW m, NEW k \in Kinds, QueryRowArrives(m, k) \/ QueryEndArrives(m, k)
    PROVE  /\ inbox # <<>> /\ m = Head(inbox) /\ inbox' = Tail(inbox)
           /\ m \in QueryMessages
           /\ UNCHANGED <<reader, asked, order, position>>
           /\ \A j \in Kinds : Held(j) =>
                 /\ rows'[j] = IF IsRow(m, j) THEN rows[j] \cup {m.fact} ELSE rows[j]
                 /\ done'[j] = IF IsEnd(m, j) THEN TRUE ELSE done[j]
           /\ rows' = rows \/ (m.type = "row" /\ rows' = [rows EXCEPT ![k] = @ \cup {m.fact}])
           /\ done' = done \/ done' = [done EXCEPT ![k] = TRUE]
<1>1. /\ rows \in [Kinds -> SUBSET FactsOfAll] /\ done \in [Kinds -> BOOLEAN]
      /\ inbox \in Seq(QueryMessages)
  BY DEF QueryTypes
<1>2. /\ inbox # <<>> /\ m = Head(inbox) /\ inbox' = Tail(inbox) /\ m.kind = k
      /\ UNCHANGED <<reader, asked, order, position>>
  BY DEF QueryRowArrives, QueryEndArrives, MessageArrives
<1>3. m \in QueryMessages
  BY <1>1, <1>2
<1>4. CASE QueryRowArrives(m, k)
  <2>1. /\ m.type = "row" /\ done' = done
        /\ rows' = IF k # "open" \/ Held(k) THEN [rows EXCEPT ![k] = @ \cup {m.fact}] ELSE rows
    BY <1>4 DEF QueryRowArrives, MessageArrives
  <2>2. ASSUME NEW j \in Kinds, Held(j)
        PROVE  /\ rows'[j] = IF IsRow(m, j) THEN rows[j] \cup {m.fact} ELSE rows[j]
               /\ ~IsEnd(m, j)
    BY <1>1, <1>2, <2>1, <2>2 DEF IsRow, IsEnd
  <2> QED BY <1>2, <1>3, <2>1, <2>2
<1>5. CASE QueryEndArrives(m, k)
  <2>1. /\ m.type = "end" /\ rows' = rows
        /\ done' = IF k = "positions" \/ Held(k) THEN [done EXCEPT ![k] = TRUE] ELSE done
    BY <1>5 DEF QueryEndArrives, MessageArrives
  <2>2. ASSUME NEW j \in Kinds, Held(j)
        PROVE  /\ done'[j] = IF IsEnd(m, j) THEN TRUE ELSE done[j]
               /\ ~IsRow(m, j)
    BY <1>1, <1>2, <2>1, <2>2 DEF IsRow, IsEnd
  <2> QED BY <1>2, <1>3, <2>1, <2>2
<1> QED BY <1>4, <1>5


\* What a step does to one reading.
LEMMA ReaderMoves ==
    ASSUME QueryTypes, QueriesNext
    PROVE  /\ reader' = [r \in Readers |-> reader'[r]]
           /\ \A r \in Readers :
                 \/ reader'[r] = reader[r]
                 \/ reader'[r] = NotReading
                 \/ \E plan \in {Reconciliation, AccountSnapshot} : StartsReading(r, plan)
                 \/ \E k \in Kinds : Query(r, k) \/ QueryReturns(r, k)
<1>1. reader \in [Readers -> Readings]
  BY DEF QueryTypes
<1>2. ASSUME NEW s \in Readers, NEW plan \in {Reconciliation, AccountSnapshot},
             StartsReading(s, plan)
      PROVE  /\ reader' = [r \in Readers |-> reader'[r]]
             /\ \A r \in Readers : r # s => reader'[r] = reader[r]
  BY <1>1, <1>2, ReadingStarts DEF StartsReading
<1>3. ASSUME NEW s \in Readers, NEW k \in Kinds, Query(s, k)
      PROVE  /\ reader' = [r \in Readers |-> reader'[r]]
             /\ \A r \in Readers : r # s => reader'[r] = reader[r]
  <2>1. \A r \in Readers : r # s => reader'[r] = reader[r]
    BY <1>3, ReadingAsks
  <2>2. PICK clean, due : reader' = [reader EXCEPT ![s].asking = TRUE, ![s].clean = clean,
                                                   ![s].due = due]
    BY <1>3, Zenon DEF Query, Asking
  <2>3. reader' = [r \in Readers |-> reader'[r]]
    BY <1>1, <2>2
  <2> QED BY <2>1, <2>3
<1>4. ASSUME NEW s \in Readers, NEW k \in Kinds, QueryReturns(s, k)
      PROVE  /\ reader' = [r \in Readers |-> reader'[r]]
             /\ \A r \in Readers : r # s => reader'[r] = reader[r]
  BY <1>1, <1>4, ReadingReturns DEF QueryReturns
<1>5. ASSUME NEW s \in Readers, NEW k \in Kinds, QueryTimesOut(s, k)
      PROVE  /\ reader' = [r \in Readers |-> reader'[r]]
             /\ \A r \in Readers : reader'[r] = reader[r] \/ reader'[r] = NotReading
  BY <1>1, <1>5, ReadingTimesOut DEF QueryTimesOut
<1>6. ASSUME \/ \E k \in Kinds : BrokerAnswersQuery(k) \/ BrokerCancels(k)
             \/ \E o \in Orders : OrderOpens(o) \/ OrderEnds(o)
             \/ \E i \in Instruments : PositionChanges(i)
             \/ \E m : \E k \in Kinds : QueryRowArrives(m, k) \/ QueryEndArrives(m, k)
      PROVE  reader' = reader
  BY <1>6, BrokerReceives, BrokerNews, QueryReads
<1>7. \/ \E s \in Readers, plan \in {Reconciliation, AccountSnapshot} : StartsReading(s, plan)
      \/ \E s \in Readers, k \in Kinds : Query(s, k)
      \/ \E s \in Readers, k \in Kinds : QueryReturns(s, k)
      \/ \E s \in Readers, k \in Kinds : QueryTimesOut(s, k)
      \/ reader' = reader
  BY <1>6, Zenon DEF QueriesNext
<1>8. CASE reader' = reader
  BY <1>1, <1>8
<1>9. CASE \E s \in Readers, plan \in {Reconciliation, AccountSnapshot} :
              StartsReading(s, plan)
  BY <1>2, <1>9, Zenon
<1>10. CASE \E s \in Readers, k \in Kinds : Query(s, k)
  BY <1>3, <1>10, Zenon
<1>11. CASE \E s \in Readers, k \in Kinds : QueryReturns(s, k)
  BY <1>4, <1>11, Zenon
<1>12. CASE \E s \in Readers, k \in Kinds : QueryTimesOut(s, k)
  BY <1>5, <1>12, Zenon
<1> QED BY <1>7, <1>8, <1>9, <1>10, <1>11, <1>12

\* A thread asks, and later asks no more.
LEMMA AskingBegins ==
    ASSUME QueryTypes, QueriesNext, NEW r \in Readers, NEW k \in Kinds, Asks(r, k)'
    PROVE  \/ Query(r, k)
           \/ Asks(r, k) /\ reader'[r] = reader[r]
<1>1. CASE reader'[r] = reader[r]
  BY <1>1 DEF Asks
<1>2. CASE reader'[r] = NotReading
  BY <1>2 DEF Asks, NotReading
<1>3. ASSUME NEW plan \in {Reconciliation, AccountSnapshot}, StartsReading(r, plan)
      PROVE  FALSE
  <2>1. reader'[r] = [plan |-> plan, asking |-> FALSE, clean |-> TRUE, due |-> {},
                      answer |-> NothingAnswered,
                      known |-> {o \in Orders : order[o] # "none"}, found |-> {},
                      read |-> {}]
    BY <1>3, ReadingStarts
  <2> QED BY <2>1 DEF Asks
<1>4. ASSUME NEW j \in Kinds, Query(r, j)
      PROVE  j = k
  <2>1. reader'[r].plan = reader[r].plan /\ Head(reader[r].plan) = j
    BY <1>4, ReadingAsks
  <2>2. Head(reader'[r].plan) = k
    BY DEF Asks
  <2> QED BY <2>1, <2>2
<1>5. ASSUME NEW j \in Kinds, QueryReturns(r, j)
      PROVE  FALSE
  BY <1>5, ReadingReturns DEF Asks
<1> QED BY <1>1, <1>2, <1>3, <1>4, <1>5, ReaderMoves

\* What is left of a reading is one of its plans, after each answer.
LEMMA PlanGoesOn ==
    ASSUME NEW plan \in Seq(Kinds), NEW read, [plan |-> plan, read |-> read] \in Plans,
           plan # <<>>
    PROVE  /\ [plan |-> Tail(plan), read |-> read \cup {Head(plan)}] \in Plans
           /\ Head(plan) = "open" => "completed" \notin read
           /\ Head(plan) = "completed" => "open" \in read
<1>1. \/ plan = <<"open", "completed", "positions">> /\ read = {}
      \/ plan = <<"completed", "positions">> /\ read = {"open"}
      \/ plan = <<"positions">> /\ read = {"open", "completed"}
      \/ plan = <<"positions", "open">> /\ read = {}
      \/ plan = <<"open">> /\ read = {"positions"}
  BY DEF Plans
<1>2. CASE plan = <<"open", "completed", "positions">> /\ read = {}
  <2>1. Head(plan) = "open" /\ Tail(plan) = <<"completed", "positions">>
    BY <1>2
  <2> QED BY <1>2, <2>1 DEF Plans
<1>3. CASE plan = <<"completed", "positions">> /\ read = {"open"}
  <2>1. Head(plan) = "completed" /\ Tail(plan) = <<"positions">>
    BY <1>3
  <2>2. read \cup {Head(plan)} = {"open", "completed"}
    BY <1>3, <2>1
  <2> QED BY <1>3, <2>1, <2>2 DEF Plans
<1>4. CASE plan = <<"positions">> /\ read = {"open", "completed"}
  <2>1. Head(plan) = "positions" /\ Tail(plan) = <<>>
    BY <1>4
  <2>2. read \cup {Head(plan)} = {"open", "completed", "positions"}
    BY <1>4, <2>1
  <2> QED BY <1>4, <2>1, <2>2 DEF Plans
<1>5. CASE plan = <<"positions", "open">> /\ read = {}
  <2>1. Head(plan) = "positions" /\ Tail(plan) = <<"open">>
    BY <1>5
  <2> QED BY <1>5, <2>1 DEF Plans
<1>6. CASE plan = <<"open">> /\ read = {"positions"}
  <2>1. Head(plan) = "open" /\ Tail(plan) = <<>>
    BY <1>6
  <2>2. read \cup {Head(plan)} = {"positions", "open"}
    BY <1>6, <2>1
  <2> QED BY <1>6, <2>1, <2>2 DEF Plans
<1> QED BY <1>1, <1>2, <1>3, <1>4, <1>5, <1>6

LEMMA ReadingsPreserved ==
    ASSUME QueryTypes, QueriesNext
    PROVE  /\ reader' \in [Readers -> Readings]
           /\ \A r \in Readers : InPlan(r)'
<1>1. SUFFICES ASSUME NEW r \in Readers
               PROVE  reader'[r] \in Readings /\ InPlan(r)'
  BY ReaderMoves
<1>2. reader[r] \in Readings /\ InPlan(r)
  BY DEF QueryTypes
<1>3. CASE reader'[r] = reader[r]
  BY <1>2, <1>3 DEF InPlan
<1>4. CASE reader'[r] = NotReading
  <2>1. NotReading \in Readings
    BY DEF NotReading, NothingAnswered, Readings, Answers
  <2>2. /\ NotReading.plan = <<>> /\ NotReading.read = {} /\ NotReading.asking = FALSE
    BY DEF NotReading
  <2> QED BY <1>4, <2>1, <2>2 DEF InPlan, Plans
<1>5. ASSUME NEW plan \in {Reconciliation, AccountSnapshot}, StartsReading(r, plan)
      PROVE  reader'[r] \in Readings /\ InPlan(r)'
  <2>1. reader'[r] = [plan |-> plan, asking |-> FALSE, clean |-> TRUE, due |-> {},
                      answer |-> NothingAnswered,
                      known |-> {o \in Orders : order[o] # "none"}, found |-> {},
                      read |-> {}]
    BY <1>5, ReadingStarts
  <2>2. NothingAnswered \in Answers
    BY DEF NothingAnswered, Answers
  <2>3. plan \in Seq(Kinds) /\ [plan |-> plan, read |-> {}] \in Plans
    <3>1. CASE plan = Reconciliation
      BY <3>1 DEF Reconciliation, Plans, Kinds
    <3>2. CASE plan = AccountSnapshot
      BY <3>2 DEF AccountSnapshot, Plans, Kinds
    <3> QED BY <3>1, <3>2
  <2>4. reader'[r] \in Readings
    BY <2>1, <2>2, <2>3 DEF Readings
  <2> QED BY <2>1, <2>3, <2>4 DEF InPlan
<1>6. ASSUME NEW k \in Kinds, Query(r, k)
      PROVE  reader'[r] \in Readings /\ InPlan(r)'
  BY <1>2, <1>6, ReadingAsks DEF InPlan
<1>7. ASSUME NEW k \in Kinds, QueryReturns(r, k)
      PROVE  reader'[r] \in Readings /\ InPlan(r)'
  <2>1. /\ reader'[r] \in Readings /\ reader'[r].plan = Tail(reader[r].plan)
        /\ reader'[r].asking = FALSE /\ reader'[r].read = reader[r].read \cup {k}
        /\ Asks(r, k)
    BY <1>7, ReadingReturns
  <2>2. /\ reader[r].plan # <<>> /\ Head(reader[r].plan) = k
        /\ reader[r].plan \in Seq(Kinds)
        /\ [plan |-> reader[r].plan, read |-> reader[r].read] \in Plans
    BY <1>2, <2>1 DEF Asks, InPlan, Readings
  <2>3. [plan |-> Tail(reader[r].plan), read |-> reader[r].read \cup {k}] \in Plans
    BY <2>2, PlanGoesOn
  <2> QED BY <2>1, <2>3 DEF InPlan
<1> QED BY <1>3, <1>4, <1>5, <1>6, <1>7, ReaderMoves

LEMMA QueryTypesPreserved ==
    ASSUME QueryTypes, QueriesNext
    PROVE  QueryTypes'
<1>1. /\ rows \in [Kinds -> SUBSET FactsOfAll] /\ done \in [Kinds -> BOOLEAN]
      /\ asked \in [Kinds -> Seq({"request", "cancel"})] /\ inbox \in Seq(QueryMessages)
      /\ order \in [Orders -> OrderStates] /\ position \in [Instruments -> Nat]
  BY DEF QueryTypes
<1>2. SUFFICES /\ rows' \in [Kinds -> SUBSET FactsOfAll] /\ done' \in [Kinds -> BOOLEAN]
               /\ asked' \in [Kinds -> Seq({"request", "cancel"})]
               /\ inbox' \in Seq(QueryMessages)
               /\ order' \in [Orders -> OrderStates] /\ position' \in [Instruments -> Nat]
  BY ReadingsPreserved DEF QueryTypes
<1>3. ASSUME NEW r \in Readers, NEW plan, StartsReading(r, plan)
      PROVE  UNCHANGED <<rows, done, asked, inbox, order, position>>
  BY <1>3, ReadingStarts
<1>4. ASSUME NEW r \in Readers, NEW k \in Kinds, Query(r, k)
      PROVE  /\ rows' \in [Kinds -> SUBSET FactsOfAll] /\ done' \in [Kinds -> BOOLEAN]
             /\ asked' \in [Kinds -> Seq({"request", "cancel"})]
             /\ UNCHANGED <<inbox, order, position>>
  <2>1. /\ rows' = [rows EXCEPT ![k] = {}] /\ done' = [done EXCEPT ![k] = FALSE]
        /\ asked' = [asked EXCEPT ![k] = Append(@, "request")]
        /\ UNCHANGED <<inbox, order, position>>
    BY <1>4, ReadingAsks
  <2>2. Append(asked[k], "request") \in Seq({"request", "cancel"})
    BY <1>1
  <2> QED BY <1>1, <2>1, <2>2
<1>5. ASSUME NEW r \in Readers, NEW k \in Kinds, QueryReturns(r, k) \/ QueryTimesOut(r, k)
      PROVE  /\ asked' \in [Kinds -> Seq({"request", "cancel"})]
             /\ UNCHANGED <<rows, done, inbox, order, position>>
  <2>1. /\ asked' = asked \/ asked' = [asked EXCEPT ![k] = Append(@, "cancel")]
        /\ UNCHANGED <<rows, done, inbox, order, position>>
    BY <1>5, ReadingReturns, ReadingTimesOut
  <2>2. Append(asked[k], "cancel") \in Seq({"request", "cancel"})
    BY <1>1
  <2> QED BY <1>1, <2>1, <2>2
<1>6. ASSUME NEW k \in Kinds, BrokerAnswersQuery(k) \/ BrokerCancels(k)
      PROVE  /\ asked' \in [Kinds -> Seq({"request", "cancel"})]
             /\ inbox' \in Seq(QueryMessages)
             /\ UNCHANGED <<rows, done, order, position>>
  <2>1. /\ asked' = [asked EXCEPT ![k] = Tail(@)] /\ asked[k] # <<>>
        /\ UNCHANGED <<reader, rows, done, order, position>>
        /\ inbox' = inbox \/ \E batch \in Batch(k) : inbox' = inbox \o batch
    BY <1>6, BrokerReceives
  <2>2. Tail(asked[k]) \in Seq({"request", "cancel"})
    BY <1>1, <2>1
  <2>3. \A batch \in Batch(k) : batch \in Seq(QueryMessages)
    BY BatchRows
  <2>4. inbox' \in Seq(QueryMessages)
    <3>1. ASSUME NEW batch \in Batch(k), inbox' = inbox \o batch
          PROVE  inbox' \in Seq(QueryMessages)
      BY <1>1, <2>3, <3>1, InboxGrows
    <3>2. CASE inbox' = inbox
      BY <1>1, <3>2
    <3> QED BY <2>1, <3>1, <3>2
  <2> QED BY <1>1, <2>1, <2>2, <2>4
<1>7. ASSUME \/ \E o \in Orders : OrderOpens(o) \/ OrderEnds(o)
             \/ \E i \in Instruments : PositionChanges(i)
      PROVE  /\ inbox' \in Seq(QueryMessages)
             /\ order' \in [Orders -> OrderStates] /\ position' \in [Instruments -> Nat]
             /\ UNCHANGED <<rows, done, asked>>
  <2>1. /\ UNCHANGED <<rows, done, asked>>
        /\ \/ inbox' = inbox
           \/ \E m \in QueryMessages : m.type = "row" /\ inbox' = Append(inbox, m)
        /\ order' \in [Orders -> OrderStates] /\ position' \in [Instruments -> Nat]
    BY <1>7, BrokerNews
  <2>2. \A m \in QueryMessages : Append(inbox, m) \in Seq(QueryMessages)
    BY <1>1
  <2> QED BY <1>1, <2>1, <2>2
<1>8. ASSUME NEW m, NEW k \in Kinds, QueryRowArrives(m, k) \/ QueryEndArrives(m, k)
      PROVE  /\ inbox' \in Seq(QueryMessages)
             /\ rows' \in [Kinds -> SUBSET FactsOfAll] /\ done' \in [Kinds -> BOOLEAN]
             /\ UNCHANGED <<asked, order, position>>
  <2>1. /\ inbox # <<>> /\ inbox' = Tail(inbox) /\ m \in QueryMessages
        /\ UNCHANGED <<reader, asked, order, position>>
        /\ rows' = rows \/ (m.type = "row" /\ rows' = [rows EXCEPT ![k] = @ \cup {m.fact}])
        /\ done' = done \/ done' = [done EXCEPT ![k] = TRUE]
    BY <1>8, QueryReads
  <2>2. m.type = "row" => m.fact \in FactsOfAll
    BY <2>1 DEF QueryMessages
  <2>3. m.type = "row" => rows[k] \cup {m.fact} \in SUBSET FactsOfAll
    BY <1>1, <2>2
  <2>4. rows' \in [Kinds -> SUBSET FactsOfAll]
    BY <1>1, <2>1, <2>3
  <2>5. done' \in [Kinds -> BOOLEAN]
    BY <1>1, <2>1
  <2> QED BY <1>1, <2>1, <2>4, <2>5
<1> QED BY <1>1, <1>3, <1>4, <1>5, <1>6, <1>7, <1>8 DEF QueriesNext

\* The lock of a kind has one owner.
LEMMA LocksPreserved ==
    ASSUME QueryTypes, LocksInv, QueriesNext
    PROVE  LocksInv'
<1>1. SUFFICES ASSUME NEW k \in Kinds, NEW r \in Readers, NEW s \in Readers,
                      Asks(r, k)', Asks(s, k)', r # s
               PROVE  FALSE
  BY DEF LocksInv
<1>2. ASSUME NEW t \in Readers, NEW u \in Readers, t # u, Query(t, k), Asks(u, k)'
      PROVE  FALSE
  <2>1. reader'[u] = reader[u] /\ ~Held(k)
    BY <1>2, ReadingAsks
  <2>2. Asks(u, k)
    BY <1>2, <2>1 DEF Asks
  <2> QED BY <2>1, <2>2 DEF Held
<1>3. Asks(r, k) /\ Asks(s, k)
  BY <1>1, <1>2, AskingBegins
<1> QED BY <1>1, <1>3 DEF LocksInv

\* A query asked stays in its phase, whatever happens, until its thread goes on.
LEMMA PhaseKept ==
    ASSUME QueryTypes, LocksInv, QueriesNext, NEW r \in Readers, NEW k \in Kinds,
           Asks(r, k), Asks(r, k)', NEW due, Phase(k, due), \A f \in due : Was(k, f)
    PROVE  Phase(k, due)'
<1>1. /\ rows \in [Kinds -> SUBSET FactsOfAll] /\ done \in [Kinds -> BOOLEAN]
      /\ asked \in [Kinds -> Seq({"request", "cancel"})] /\ inbox \in Seq(QueryMessages)
  BY DEF QueryTypes
<1>2. /\ Held(k) /\ \A s \in Readers : Asks(s, k) => s = r
  BY DEF Held, LocksInv
<1>3. \A f \in due : StillDue(k, f)' => StillDue(k, f)
  BY WasStays
<1>4. ASSUME inbox' = inbox, asked'[k] = asked[k], done'[k] = done[k], rows'[k] = rows[k]
      PROVE  Phase(k, due)'
  BY <1>1, <1>3, <1>4, PhaseStays DEF InboxAt
<1>5. ASSUME NEW batch \in Seq(QueryMessages), inbox' = inbox \o batch,
             \A i \in 1..Len(batch) : ~IsEnd(batch[i], k),
             asked'[k] = asked[k], done'[k] = done[k], rows'[k] = rows[k]
      PROVE  Phase(k, due)'
  <2>1. /\ \A i \in InboxAt : i \in InboxAt' /\ inbox'[i] = inbox[i]
        /\ \A i \in InboxAt' : i \in InboxAt \/ i - Len(inbox) \in 1..Len(batch)
        /\ \A i \in InboxAt' : i \in InboxAt \/ inbox'[i] = batch[i - Len(inbox)]
    BY <1>1, <1>5, InboxGrows
  <2>2. \A i \in InboxAt' : i \in InboxAt \/ ~IsEnd(inbox'[i], k)
    BY <1>5, <2>1
  <2> QED BY <1>1, <1>3, <1>5, <2>1, <2>2, PhaseStays
<1>6. ASSUME NEW s \in Readers, NEW plan, StartsReading(s, plan)
      PROVE  Phase(k, due)'
  BY <1>4, <1>6, ReadingStarts
<1>7. ASSUME NEW s \in Readers, NEW j \in Kinds, Query(s, j)
      PROVE  Phase(k, due)'
  <2>1. /\ ~Held(j) /\ rows' = [rows EXCEPT ![j] = {}] /\ done' = [done EXCEPT ![j] = FALSE]
        /\ asked' = [asked EXCEPT ![j] = Append(@, "request")] /\ inbox' = inbox
    BY <1>7, ReadingAsks
  <2>2. j # k
    BY <1>2, <2>1
  <2>3. asked'[k] = asked[k] /\ done'[k] = done[k] /\ rows'[k] = rows[k]
    BY <1>1, <2>1, <2>2
  <2> QED BY <1>4, <2>1, <2>3
<1>8. ASSUME NEW s \in Readers, NEW j \in Kinds, QueryReturns(s, j) \/ QueryTimesOut(s, j)
      PROVE  Phase(k, due)'
  <2>1. /\ Asks(s, j) /\ \A i \in Kinds : i # j => asked'[i] = asked[i]
        /\ UNCHANGED <<rows, done, inbox>>
        /\ reader'[s].asking = FALSE
    <3>1. CASE QueryReturns(s, j)
      BY <3>1, ReadingReturns
    <3>2. CASE QueryTimesOut(s, j)
      <4>1. reader'[s] = NotReading /\ NotReading.asking = FALSE
        BY <3>2, ReadingTimesOut DEF NotReading
      <4> QED BY <3>2, <4>1, ReadingTimesOut
    <3> QED BY <1>8, <3>1, <3>2
  <2>2. s # r
    BY <2>1 DEF Asks
  <2>3. j # k
    BY <1>2, <2>1, <2>2
  <2> QED BY <1>4, <2>1, <2>3
<1>9. ASSUME NEW j \in Kinds, BrokerAnswersQuery(j) \/ BrokerCancels(j)
      PROVE  Phase(k, due)'
  <2>1. CASE j = k
    BY <1>9, <2>1, PhaseAnswered, PhaseCancelled
  <2>2. CASE j # k
    <3>1. /\ asked'[k] = asked[k] /\ UNCHANGED <<rows, done>>
          /\ inbox' = inbox \/ \E batch \in Batch(j) : inbox' = inbox \o batch
      BY <1>9, <2>2, BrokerReceives
    <3>2. ASSUME NEW batch \in Batch(j), inbox' = inbox \o batch
          PROVE  Phase(k, due)'
      <4>1. PICK n \in Nat :
               /\ batch \in Seq(QueryMessages) /\ Len(batch) = n + 1
               /\ IsEnd(batch[n + 1], j)
               /\ \A i \in 1..n : IsRow(batch[i], j) /\ ~IsEnd(batch[i], j)
        BY BatchRows
      <4>2. \A i \in 1..(n + 1) : i \in 1..n \/ i = n + 1
        BY <4>1
      <4>3. \A i \in 1..Len(batch) : ~IsEnd(batch[i], k)
        BY <2>2, <4>1, <4>2 DEF IsEnd, IsRow
      <4> QED BY <1>5, <3>1, <3>2, <4>1, <4>3
    <3> QED BY <1>4, <3>1, <3>2
  <2> QED BY <2>1, <2>2
<1>10. ASSUME \/ \E o \in Orders : OrderOpens(o) \/ OrderEnds(o)
              \/ \E i \in Instruments : PositionChanges(i)
       PROVE  Phase(k, due)'
  <2>1. /\ UNCHANGED <<rows, done, asked>>
        /\ \/ inbox' = inbox
           \/ \E m \in QueryMessages : m.type = "row" /\ inbox' = Append(inbox, m)
    BY <1>10, BrokerNews
  <2>2. ASSUME NEW m \in QueryMessages, m.type = "row", inbox' = Append(inbox, m)
        PROVE  Phase(k, due)'
    <3>1. PICK batch : batch = <<m>>
      OBVIOUS
    <3>2. batch \in Seq(QueryMessages) /\ inbox' = inbox \o batch
      BY <1>1, <2>2, <3>1
    <3>3. \A i \in 1..Len(batch) : ~IsEnd(batch[i], k)
      BY <2>2, <3>1 DEF IsEnd
    <3> QED BY <1>5, <2>1, <3>2, <3>3
  <2> QED BY <1>4, <2>1, <2>2
<1>11. ASSUME NEW m, NEW j \in Kinds, QueryRowArrives(m, j) \/ QueryEndArrives(m, j)
       PROVE  Phase(k, due)'
  <2>1. /\ inbox # <<>> /\ m = Head(inbox) /\ inbox' = Tail(inbox)
        /\ UNCHANGED <<asked, order>>
        /\ rows'[k] = IF IsRow(m, k) THEN rows[k] \cup {m.fact} ELSE rows[k]
        /\ done'[k] = IF IsEnd(m, k) THEN TRUE ELSE done[k]
    BY <1>2, <1>11, QueryReads
  <2> QED BY <1>1, <2>1, PhaseTaken
<1> QED BY <1>6, <1>7, <1>8, <1>9, <1>10, <1>11 DEF QueriesNext

\* What was due was true and is on its way, in every query under way.
LEMMA DuePreserved ==
    ASSUME QueryTypes, LocksInv, DueInv, QueriesNext
    PROVE  DueInv'
<1>1. SUFFICES ASSUME NEW r \in Readers, reader'[r].clean
               PROVE  AnsweredDue(r)' /\ \A k \in Kinds : Asks(r, k)' => AskedDue(r, k)'
  BY DEF DueInv
<1>2. reader[r].clean => AnsweredDue(r) /\ \A k \in Kinds : Asks(r, k) => AskedDue(r, k)
  BY DEF DueInv
<1>3. AnsweredDue(r)'
  <2>1. ASSUME NEW kind, NEW due, reader'[r].answer.kind = kind,
               reader'[r].answer.due = due, \A f \in due : Was(kind, f)
        PROVE  AnsweredDue(r)'
    <3>1. \A f \in due : Was(kind, f)'
      BY <2>1, WasStays
    <3> QED BY <2>1, <3>1 DEF AnsweredDue, Was
  <2>2. CASE reader'[r] = reader[r]
    BY <1>1, <1>2, <2>1, <2>2 DEF AnsweredDue
  <2>3. CASE reader'[r] = NotReading
    BY <1>1, <2>3 DEF NotReading
  <2>4. ASSUME NEW plan, StartsReading(r, plan)
        PROVE  reader'[r].answer.due = {}
    <3>1. reader'[r] = [plan |-> plan, asking |-> FALSE, clean |-> TRUE, due |-> {},
                        answer |-> NothingAnswered,
                        known |-> {o \in Orders : order[o] # "none"}, found |-> {},
                        read |-> {}]
      BY <2>4, ReadingStarts
    <3> QED BY <3>1 DEF NothingAnswered
  <2>5. ASSUME NEW k \in Kinds, Query(r, k)
        PROVE  AnsweredDue(r)'
    BY <1>1, <1>2, <2>1, <2>5, ReadingAsks DEF AnsweredDue
  <2>6. ASSUME NEW k \in Kinds, QueryReturns(r, k)
        PROVE  AnsweredDue(r)'
    <3>1. /\ reader'[r].clean = reader[r].clean /\ Asks(r, k)
          /\ reader'[r].answer = [kind |-> k, due |-> reader[r].due, rows |-> rows[k]]
      BY <2>6, ReadingReturns
    <3>2. \A f \in reader[r].due : Was(k, f)
      BY <1>1, <1>2, <3>1 DEF AskedDue
    <3>3. reader'[r].answer.kind = k /\ reader'[r].answer.due = reader[r].due
      BY <3>1
    <3> QED BY <2>1, <3>2, <3>3
  <2> QED BY <2>2, <2>3, <2>4, <2>5, <2>6, ReaderMoves DEF AnsweredDue
<1>4. ASSUME NEW k \in Kinds, Query(r, k)
      PROVE  AskedDue(r, k)'
  <2>1. /\ reader'[r].due = Facts(k) /\ ~AnswerOutstanding(k)
        /\ rows' = [rows EXCEPT ![k] = {}] /\ done' = [done EXCEPT ![k] = FALSE]
        /\ asked' = [asked EXCEPT ![k] = Append(@, "request")] /\ inbox' = inbox
    BY <1>1, <1>4, ReadingAsks
  <2>2. \A f \in Facts(k) : Was(k, f)'
    BY FactsAreTrue, WasStays
  <2>3. /\ asked \in [Kinds -> Seq({"request", "cancel"})]
        /\ asked[k] \in Seq({"request", "cancel"}) /\ Len(asked[k]) \in Nat
        /\ done \in [Kinds -> BOOLEAN]
    BY QueryFields DEF QueryTypes
  <2>4. ~done'[k] /\ asked'[k] = Append(asked[k], "request")
    BY <2>1, <2>3
  <2>5. /\ Len(asked'[k]) = Len(asked[k]) + 1 /\ asked'[k][Len(asked[k]) + 1] = "request"
        /\ \A i \in 1..Len(asked[k]) : asked'[k][i] = asked[k][i]
    BY <2>3, <2>4
  <2>6. \A i \in 1..Len(asked[k]) : asked'[k][i] # "request"
    BY <2>1, <2>5 DEF AnswerOutstanding
  <2>7. PICK at : at = Len(asked[k]) + 1
    OBVIOUS
  <2>8. at \in 1..Len(asked'[k]) /\ \A i \in 1..Len(asked'[k]) : i \in 1..Len(asked[k]) \/ i = at
    BY <2>3, <2>5, <2>7
  <2>9. at \in Requests(k)' /\ Requests(k)' = {at}
    BY <2>5, <2>6, <2>7, <2>8 DEF Requests
  <2>10. EndsOf(k)' = {}
    BY <2>1 DEF EndsOf, InboxAt, IsEnd, AnswerOutstanding
  <2>11. Unanswered(k)'
    BY <2>4, <2>9, <2>10 DEF Unanswered
  <2> QED BY <2>1, <2>2, <2>11 DEF AskedDue, Phase, Unanswered, Was
<1>5. ASSUME NEW k \in Kinds, Asks(r, k)', Asks(r, k), reader'[r] = reader[r]
      PROVE  AskedDue(r, k)'
  <2>1. PICK due : due = reader[r].due
    OBVIOUS
  <2>2. (\A f \in due : Was(k, f)) /\ Phase(k, due)
    BY <1>1, <1>2, <1>5, <2>1 DEF AskedDue
  <2>3. (\A f \in due : Was(k, f)') /\ Phase(k, due)'
    BY <1>5, <2>2, PhaseKept, WasStays
  <2>4. reader'[r].due = due
    BY <1>5, <2>1
  <2> QED BY <2>3, <2>4 DEF AskedDue
<1> QED BY <1>3, <1>4, <1>5, AskingBegins

\* The answer that a query returns is complete, and stays so.
LEMMA AnswersStayComplete ==
    ASSUME QueryTypes, DueInv, AnswersAreComplete, QueriesNext
    PROVE  AnswersAreComplete'
<1>1. SUFFICES ASSUME NEW r \in Readers, reader'[r].clean
               PROVE  AnswerComplete(r)'
  BY DEF AnswersAreComplete, AnswerComplete
<1>2. ASSUME NEW k, NEW due, NEW facts, Complete(k, due, facts), \A f \in due : Was(k, f)
      PROVE  \A f \in due : StillDue(k, f)' => IsKnown(f, facts)
  BY <1>2, WasStays DEF Complete
<1>3. ASSUME NEW k, NEW due, NEW facts, Complete(k, due, facts), \A f \in due : Was(k, f),
             reader'[r].answer.kind = k, reader'[r].answer.due = due,
             reader'[r].answer.rows = facts
      PROVE  AnswerComplete(r)'
  BY <1>2, <1>3 DEF AnswerComplete, Complete, IsKnown, StillDue
<1>4. reader[r].clean =>
         /\ AnsweredDue(r) /\ AnswerComplete(r)
         /\ \A k \in Kinds : Asks(r, k) => AskedDue(r, k)
  BY DEF DueInv, AnswersAreComplete, AnswerComplete
<1>5. CASE reader'[r] = reader[r]
  BY <1>1, <1>3, <1>4, <1>5 DEF AnswerComplete, AnsweredDue
<1>6. CASE reader'[r] = NotReading
  BY <1>1, <1>6 DEF NotReading
<1>7. ASSUME NEW plan, StartsReading(r, plan)
      PROVE  AnswerComplete(r)'
  <2>1. reader'[r] = [plan |-> plan, asking |-> FALSE, clean |-> TRUE, due |-> {},
                      answer |-> NothingAnswered,
                      known |-> {o \in Orders : order[o] # "none"}, found |-> {},
                      read |-> {}]
    BY <1>7, ReadingStarts
  <2>2. reader'[r].answer.due = {}
    BY <2>1 DEF NothingAnswered
  <2> QED BY <2>2 DEF AnswerComplete, Complete
<1>8. ASSUME NEW k \in Kinds, Query(r, k)
      PROVE  AnswerComplete(r)'
  BY <1>1, <1>3, <1>4, <1>8, ReadingAsks DEF AnswerComplete, AnsweredDue
<1>9. ASSUME NEW k \in Kinds, QueryReturns(r, k)
      PROVE  AnswerComplete(r)'
  <2>1. /\ reader'[r].clean = reader[r].clean /\ Asks(r, k) /\ done[k]
        /\ reader'[r].answer = [kind |-> k, due |-> reader[r].due, rows |-> rows[k]]
    BY <1>9, ReadingReturns
  <2>2. (\A f \in reader[r].due : Was(k, f)) /\ Complete(k, reader[r].due, rows[k])
    BY <1>1, <1>4, <2>1 DEF AskedDue, Phase, Unanswered, Answering, Answered
  <2>3. /\ reader'[r].answer.kind = k /\ reader'[r].answer.due = reader[r].due
        /\ reader'[r].answer.rows = rows[k]
    BY <2>1
  <2> QED BY <1>3, <2>2, <2>3
<1> QED BY <1>5, <1>6, <1>7, <1>8, <1>9, ReaderMoves

\* What the answer holds of the order that was due.
LEMMA DueIsFound ==
    ASSUME QueryTypes, NEW r \in Readers, NEW k \in {"open", "completed"}, NEW o \in Orders,
           QueryReturns(r, k), AskedDue(r, k), Fact(o, 0) \in reader[r].due,
           StillDue(k, Fact(o, 0))
    PROVE  o \in reader'[r].found
<1>1. /\ k \in Kinds /\ k # "positions"
  BY DEF Kinds
<1>2. /\ done[k] /\ reader'[r].found = reader[r].found \cup {f.item : f \in rows[k]}
  BY <1>1, ReadingReturns
<1>3. Complete(k, reader[r].due, rows[k])
  BY <1>2 DEF AskedDue, Phase, Unanswered, Answering, Answered
<1>4. PICK f \in rows[k] : f.item = Fact(o, 0).item
  BY <1>3 DEF Complete, IsKnown
<1>5. f.item = o
  BY <1>4 DEF Fact
<1> QED BY <1>2, <1>5

\* A reconciliation loses sight of no order.
LEMMA KnownPreserved ==
    ASSUME QueryTypes, DueInv, KnownInv, QueriesNext
    PROVE  KnownInv'
<1>1. SUFFICES ASSUME NEW r \in Readers, reader'[r].clean, NEW o \in reader'[r].known
               PROVE  KnownIsFound(r, o)'
  BY DEF KnownInv
<1>2. reader[r].clean =>
         /\ o \in reader[r].known => KnownIsFound(r, o)
         /\ \A k \in Kinds : Asks(r, k) => AskedDue(r, k)
  BY DEF DueInv, KnownInv
<1>3. /\ reader'[r] \in Readings /\ InPlan(r) /\ reader[r].plan \in Seq(Kinds)
      /\ reader[r].known \subseteq Orders /\ order \in [Orders -> OrderStates]
      /\ {"open", "completed", "positions"} \subseteq Kinds
  BY ReadingsPreserved DEF QueryTypes, Readings, Kinds
<1>4. o \in Orders
  BY <1>3 DEF Readings
<1>5. CASE reader'[r] = reader[r]
  <2>1. KnownIsFound(r, o)
    BY <1>1, <1>2, <1>5
  <2>2. /\ Asks(r, "open")' => Asks(r, "open")
        /\ Asks(r, "completed")' => Asks(r, "completed")
    BY <1>5 DEF Asks
  <2>3. /\ order'[o] # "none"
        /\ order[o] = "completed" => order'[o] = "completed"
    BY <1>4, <2>1, TimeGoesOn DEF KnownIsFound
  <2>4. Asks(r, "open")' => order'[o] = "completed" \/ Fact(o, 0) \in reader'[r].due
    BY <1>5, <2>1, <2>2, <2>3 DEF KnownIsFound
  <2>5. "open" \in reader'[r].read =>
           \/ o \in reader'[r].found
           \/ /\ order'[o] = "completed" /\ "completed" \notin reader'[r].read
              /\ Asks(r, "completed")' => Fact(o, 0) \in reader'[r].due
    BY <1>5, <2>1, <2>2, <2>3 DEF KnownIsFound
  <2> QED BY <2>3, <2>4, <2>5 DEF KnownIsFound
<1>6. CASE reader'[r] = NotReading
  BY <1>1, <1>6 DEF NotReading
<1>7. ASSUME NEW plan, StartsReading(r, plan)
      PROVE  KnownIsFound(r, o)'
  <2>1. reader'[r] = [plan |-> plan, asking |-> FALSE, clean |-> TRUE, due |-> {},
                      answer |-> NothingAnswered,
                      known |-> {x \in Orders : order[x] # "none"}, found |-> {},
                      read |-> {}]
        /\ order' = order
    BY <1>7, ReadingStarts
  <2>2. /\ reader'[r].asking = FALSE /\ reader'[r].read = {}
        /\ order'[o] # "none"
    BY <1>1, <2>1
  <2> QED BY <2>2 DEF KnownIsFound, Asks
<1>8. ASSUME NEW k \in Kinds, Query(r, k)
      PROVE  KnownIsFound(r, o)'
  <2>1. /\ reader'[r].plan = reader[r].plan /\ reader'[r].due = Facts(k)
        /\ reader'[r].known = reader[r].known /\ reader'[r].found = reader[r].found
        /\ reader'[r].read = reader[r].read /\ reader[r].clean
        /\ reader[r].plan # <<>> /\ Head(reader[r].plan) = k /\ order' = order
    BY <1>1, <1>8, ReadingAsks
  <2>2. KnownIsFound(r, o)
    BY <1>1, <1>2, <2>1
  <2>3. \A j : Asks(r, j)' => j = k
    BY <2>1 DEF Asks
  <2>4. k \in {"open", "completed"} /\ order[o] = k => Fact(o, 0) \in Facts(k)
    BY <1>4 DEF Facts
  <2>5. order[o] \in {"open", "completed"}
    BY <1>3, <1>4, <2>2 DEF KnownIsFound, OrderStates
  <2>6. Asks(r, "open")' => order'[o] = "completed" \/ Fact(o, 0) \in reader'[r].due
    BY <2>1, <2>3, <2>4, <2>5
  <2>7. Asks(r, "completed")' /\ order'[o] = "completed" => Fact(o, 0) \in reader'[r].due
    BY <2>1, <2>3, <2>4
  <2> QED BY <2>1, <2>2, <2>6, <2>7 DEF KnownIsFound
<1>9. ASSUME NEW k \in Kinds, QueryReturns(r, k)
      PROVE  KnownIsFound(r, o)'
  <2>1. /\ reader'[r].asking = FALSE /\ reader'[r].clean = reader[r].clean
        /\ reader'[r].known = reader[r].known /\ reader[r].found \subseteq reader'[r].found
        /\ reader'[r].read = reader[r].read \cup {k} /\ Asks(r, k) /\ order' = order
    BY <1>9, ReadingReturns
  <2>2. KnownIsFound(r, o) /\ AskedDue(r, k)
    BY <1>1, <1>2, <2>1
  <2>3. /\ reader[r].plan # <<>> /\ Head(reader[r].plan) = k
        /\ k = "open" => "completed" \notin reader[r].read
        /\ k = "completed" => "open" \in reader[r].read
    BY <1>3, <2>1, PlanGoesOn DEF Asks, InPlan
  <2>4. order[o] \in {"open", "completed"} /\ order'[o] # "none"
    BY <1>3, <1>4, <2>1, <2>2 DEF KnownIsFound, OrderStates
  <2>5. ~Asks(r, "open")' /\ ~Asks(r, "completed")'
    BY <2>1 DEF Asks
  <2>6. Fact(o, 0).item = o
    BY DEF Fact
  <2>7. CASE k = "open"
    <3>1. order[o] = "completed" \/ Fact(o, 0) \in reader[r].due
      BY <2>1, <2>2, <2>7 DEF KnownIsFound
    <3>2. order[o] = "open" => o \in reader'[r].found
      BY <1>4, <1>9, <2>2, <2>6, <2>7, <3>1, DueIsFound DEF StillDue
    <3>3. "completed" \notin reader'[r].read
      BY <2>1, <2>3, <2>7
    <3> QED BY <2>1, <2>4, <2>5, <3>2, <3>3 DEF KnownIsFound
  <2>8. CASE k = "completed"
    <3>1. o \in reader[r].found \/ Fact(o, 0) \in reader[r].due
      BY <2>1, <2>2, <2>3, <2>8 DEF KnownIsFound
    <3>2. o \in reader'[r].found
      BY <1>4, <1>9, <2>1, <2>2, <2>8, <3>1, DueIsFound DEF StillDue
    <3> QED BY <2>4, <2>5, <3>2 DEF KnownIsFound
  <2>9. CASE k = "positions"
    <3>1. /\ "open" \in reader'[r].read => "open" \in reader[r].read
          /\ "completed" \in reader'[r].read => "completed" \in reader[r].read
      BY <2>1, <2>9
    <3> QED BY <2>1, <2>2, <2>4, <2>5, <3>1 DEF KnownIsFound
  <2> QED BY <2>7, <2>8, <2>9 DEF Kinds
<1> QED BY <1>5, <1>6, <1>7, <1>8, <1>9, ReaderMoves

LEMMA QueriesStart ==
    ASSUME QueriesInit
    PROVE  QueriesInv
<1>1. /\ reader = [r \in Readers |-> NotReading] /\ rows = [k \in Kinds |-> {}]
      /\ done = [k \in Kinds |-> FALSE] /\ asked = [k \in Kinds |-> <<>>] /\ inbox = <<>>
      /\ order \in [Orders -> OrderStates] /\ position = [i \in Instruments |-> 0]
  BY DEF QueriesInit, OrderStates
<1>2. /\ NotReading \in Readings /\ NotReading.plan = <<>> /\ NotReading.read = {}
      /\ NotReading.asking = FALSE /\ NotReading.clean = FALSE
  BY DEF NotReading, NothingAnswered, Readings, Answers
<1>3. QueryTypes
  <2>1. reader \in [Readers -> Readings]
    BY <1>1, <1>2
  <2>2. \A r \in Readers : InPlan(r)
    BY <1>1, <1>2 DEF InPlan, Plans
  <2> QED BY <1>1, <2>1, <2>2 DEF QueryTypes
<1>4. LocksInv
  BY <1>1, <1>2 DEF LocksInv, Asks
<1>5. \A r \in Readers : ~reader[r].clean
  BY <1>1, <1>2
<1> QED BY <1>3, <1>4, <1>5 DEF QueriesInv, DueInv, AnswersAreComplete, KnownInv

LEMMA QueriesStutter ==
    ASSUME QueriesInv, UNCHANGED queryVars
    PROVE  QueriesInv'
<1>1. UNCHANGED <<reader, rows, done, asked, inbox, order, position, subscribed, used>>
  BY DEF queryVars
<1>2. QueryTypes'
  BY <1>1 DEF QueriesInv, QueryTypes, InPlan
<1>3. LocksInv'
  BY <1>1 DEF QueriesInv, LocksInv, Asks
<1>4. \A r \in Readers : AnsweredDue(r) => AnsweredDue(r)'
  BY <1>1 DEF AnsweredDue, Was
<1>5. ASSUME NEW k, NEW due, Phase(k, due)
      PROVE  Phase(k, due)'
  <2>1. Requests(k)' = Requests(k) /\ EndsOf(k)' = EndsOf(k) /\ InboxAt' = InboxAt
    BY <1>1 DEF Requests, EndsOf, InboxAt
  <2>2. Unanswered(k) => Unanswered(k)'
    BY <1>1, <2>1 DEF Unanswered
  <2>3. Answering(k, due) => Answering(k, due)'
    BY <1>1, <2>1 DEF Answering, StillDue
  <2>4. Answered(k, due) => Answered(k, due)'
    BY <1>1, <2>1 DEF Answered, Complete, StillDue
  <2> QED BY <1>5, <2>2, <2>3, <2>4 DEF Phase
<1>6. ASSUME NEW r \in Readers, NEW k \in Kinds, AskedDue(r, k)
      PROVE  AskedDue(r, k)'
  <2>1. PICK due : due = reader[r].due
    OBVIOUS
  <2>2. Phase(k, due)' /\ \A f \in due : Was(k, f)'
    BY <1>1, <1>5, <1>6, <2>1 DEF AskedDue, Was
  <2>3. reader'[r].due = due
    BY <1>1, <2>1
  <2> QED BY <2>2, <2>3 DEF AskedDue
<1>7. DueInv'
  BY <1>1, <1>4, <1>6 DEF QueriesInv, DueInv, Asks
<1>8. AnswersAreComplete'
  BY <1>1 DEF QueriesInv, AnswersAreComplete, Complete, StillDue
<1>9. KnownInv'
  BY <1>1 DEF QueriesInv, KnownInv, KnownIsFound, Asks
<1> QED BY <1>2, <1>3, <1>7, <1>8, <1>9 DEF QueriesInv

\* Every state of the tables satisfies QueriesInv, whatever the threads, IBKR and the reader
\* thread do, and however many queries have timed out.
THEOREM QueriesInvariance == QueriesSpec => []QueriesInv
<1>1. QueriesInv /\ [QueriesNext]_queryVars => QueriesInv'
  <2>1. ASSUME QueriesInv, QueriesNext
        PROVE  QueriesInv'
    <3>1. QueryTypes /\ LocksInv /\ DueInv /\ AnswersAreComplete /\ KnownInv
      BY <2>1 DEF QueriesInv
    <3>2. QueryTypes' /\ LocksInv' /\ DueInv'
      BY <2>1, <3>1, QueryTypesPreserved, LocksPreserved, DuePreserved
    <3>3. AnswersAreComplete' /\ KnownInv'
      BY <2>1, <3>1, AnswersStayComplete, KnownPreserved
    <3> QED BY <3>2, <3>3 DEF QueriesInv
  <2> QED BY <2>1, QueriesStutter
<1> QED BY <1>1, QueriesStart, PTL DEF QueriesSpec

\* AnswersAreComplete holds for every number of threads, orders, instruments and timeouts: what
\* was true when a query was asked is on its way to the table before the end that wakes the
\* thread, and no other thread empties the table meanwhile.
THEOREM QueriesAreComplete == QueriesSpec => []AnswersAreComplete
<1>1. QueriesInv => AnswersAreComplete
  BY DEF QueriesInv
<1> QED BY <1>1, QueriesInvariance, PTL

\* OrdersAreNotMissed does, too: because the open orders are read before the completed ones, an
\* order that ends in between is found among the latter.
THEOREM OrdersAreFound == QueriesSpec => []OrdersAreNotMissed
<1>1. QueriesInv => OrdersAreNotMissed
  BY DEF QueriesInv, KnownInv, KnownIsFound, OrdersAreNotMissed
<1> QED BY <1>1, QueriesInvariance, PTL
=============================================================================
