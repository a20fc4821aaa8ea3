------------------------ MODULE StrategyRuntime_proofs ------------------------
(***************************************************************************)
(* Proofs about StrategyRuntime, for every number of bars, events,         *)
(* failures and crashes: a bar that counts as processed has all its        *)
(* decisions at the service and gets no further order, and the saved       *)
(* plugin has seen every event up to the saved cursor.                     *)
(***************************************************************************)
EXTENDS StrategyRuntime, FiniteSetTheorems, TLAPS

-----------------------------------------------------------------------------
(* The inductive invariant.                                                *)

Memories == [bars : [Bars -> Nat], events : SUBSET Nat]
Positions == [cursor : Nat, last : Nat, payload : Memories]
Works == [kind : {"none", "bar", "page"}, bar : Nat, ordinal : Nat, quote : Quotes \cup {0},
          page : SUBSET Nat]

\* The runtime's own position, in the form of a checkpoint.
Position == [cursor |-> cursor, last |-> last, payload |-> memory]

\* The service has the decisions of bar b up to an ordinal.
DecidedUpTo(b, n) ==
    \A ordinal \in 1..n :
        \E order \in placed : order.id.bar = b /\ order.id.ordinal = ordinal

\* What holds of the runtime's position holds of the saved one, from which it may resume:
\* its bars have their decisions at the service and its plugin has seen its events.
DecisionsBehind(p) == \A b \in Bars : BarTime[b] <= p.last => DecidedUpTo(b, Decisions[b])
EventsBehind(p) ==
    /\ p.cursor <= Len(journal)
    /\ {i \in Visible : i <= p.cursor} \subseteq p.payload.events

\* The bar in work: the decisions already submitted are at the service, and the bars before
\* it are behind the runtime.
BarInWork ==
    work.kind = "bar" =>
        /\ work.ordinal \in Nat \ {0}
        /\ HostFeeds(work.bar)
        /\ DecidedUpTo(work.bar, work.ordinal - 1)

\* The page in work: what lies between the cursor and an event of the page is in the page,
\* also when events were recorded after the page was read.
PageInWork ==
    work.kind = "page" =>
        /\ work.page \subseteq {i \in Visible : cursor < i}
        /\ \A i \in Visible, j \in work.page : cursor < i /\ i <= j => i \in work.page

RuntimeTypes ==
    /\ journal \in Seq(BOOLEAN)
    /\ Position \in Positions
    /\ saved # NoCheckpoint => saved \in Positions
    /\ work \in Works
    /\ work.kind = "bar" => work.bar \in Bars

DecisionInv ==
    /\ RuntimeTypes
    /\ DecisionsBehind(Position)
    /\ saved # NoCheckpoint => DecisionsBehind(saved)
    /\ BarInWork

EventInv ==
    /\ RuntimeTypes
    /\ EventsBehind(Position)
    /\ saved # NoCheckpoint => EventsBehind(saved)
    /\ PageInWork

\* The bar in work is newer than the runtime's position, which only a runtime that has not
\* loaded the checkpoint yet, or was stopped, may have behind the saved one.
Loaded == status \notin {"CREATED", "STOPPED"}
ClosedInv ==
    /\ RuntimeTypes
    /\ work.kind = "bar" => last < BarTime[work.bar]
    /\ ~Idle => Loaded
    /\ Loaded /\ saved # NoCheckpoint => saved.last <= last

\* The host's bars end one after another.  Two bars with one end are the exception that
\* process_bar does not take in: the second counts as processed with the first.
BarsInOrder == \A b, c \in Bars : b < c => BarTime[b] < BarTime[c]

-----------------------------------------------------------------------------
(* Types, and what every step does to the checkpoint and to the service.   *)

\* A checkpoint is written from the position the runtime is left at, by every operation
\* that writes one (_checkpoint, _restore).
LEMMA CheckpointIsPosition ==
    ASSUME StrategyNext
    PROVE  \/ saved' = saved
           \/ saved' = Position'
BY Zenon
   DEF StrategyNext, RuntimeNext, HostNext, BarStep, PageStep, Start, Restored, Pause, Resume,
       CloseTradingDay, Stop, Heartbeat, ChangeStatus, Crash, ProcessBar, ProcessBarFails,
       SubmitDecision, SubmitLost, SubmitConflicts, FailBar, CompleteBar, CompleteBarFails,
       RecordEvent, PollOrderEvents, ReadEvent, ReadEventFails, PageRead, Checkpoint,
       TryCheckpoint, Position, runtimeVars, serviceVars

\* The service forgets no intent and no event, and what was listed of the journal stays.
LEMMA ServiceGrows ==
    ASSUME StrategyNext, journal \in Seq(BOOLEAN)
    PROVE  /\ placed \subseteq placed'
           /\ \/ journal' = journal
              \/ \E linked \in BOOLEAN : journal' = Append(journal, linked)
<1>1. CASE \E linked \in BOOLEAN : RecordEvent(linked)
  BY <1>1 DEF RecordEvent
<1>2. CASE RuntimeNext
  BY <1>2, Zenon
     DEF RuntimeNext, HostNext, BarStep, PageStep, Start, Pause, Resume, CloseTradingDay,
         Stop, Heartbeat, ChangeStatus, Crash, ProcessBar, ProcessBarFails, SubmitDecision,
         SubmitLost, SubmitConflicts, Record, FailBar, CompleteBar, CompleteBarFails,
         PollOrderEvents, ReadEvent, ReadEventFails, PageRead, serviceVars
<1> QED BY <1>1, <1>2 DEF StrategyNext

\* What is linked to the strategy stays linked, and an appended event comes behind it.
LEMMA VisibleGrows ==
    ASSUME journal \in Seq(BOOLEAN),
           \/ journal' = journal
           \/ \E linked \in BOOLEAN : journal' = Append(journal, linked)
    PROVE  /\ journal' \in Seq(BOOLEAN)
           /\ Len(journal) <= Len(journal')
           /\ Visible \subseteq Visible'
           /\ Visible \subseteq 1..Len(journal)
           /\ \A i \in Visible' : i <= Len(journal) => i \in Visible
           /\ \A i \in Visible' : i \in 1..Len(journal')
<1>1. CASE journal' = journal
  BY <1>1 DEF Visible
<1>2. CASE \E linked \in BOOLEAN : journal' = Append(journal, linked)
  <2>1. PICK linked \in BOOLEAN : journal' = Append(journal, linked)
    BY <1>2
  <2>2. journal' \in Seq(BOOLEAN) /\ Len(journal') = Len(journal) + 1
    BY <2>1
  <2>3. \A i \in 1..Len(journal) : journal'[i] = journal[i]
    BY <2>1
  <2> QED BY <2>2, <2>3 DEF Visible
<1> QED BY <1>1, <1>2

\* The events of a page are linked to the strategy and lie behind the cursor; an event
\* between the cursor and one of the page is in the page, because the page is counted from
\* the cursor on.
LEMMA PageIsAStretch ==
    ASSUME journal \in Seq(BOOLEAN), NEW after \in Nat
    PROVE  /\ Page(after) \subseteq {i \in Visible : after < i}
           /\ \A i \in Visible, j \in Page(after) : after < i /\ i <= j => i \in Page(after)
<1> DEFINE Between(i) == {k \in Visible : after < k /\ k < i}
<1>1. Visible \subseteq 1..Len(journal) /\ Len(journal) \in Nat
  BY DEF Visible
<1>2. IsFiniteSet(1..Len(journal))
  BY <1>1, FS_Interval, 1 \in Int, Len(journal) \in Int
<1>3. ASSUME NEW i \in Visible, NEW j \in Page(after), after < i, i <= j
      PROVE  i \in Page(after)
  <2>1. j \in Visible /\ Cardinality(Between(j)) < PageLimit
    BY DEF Page
  <2>2. Between(i) \subseteq Between(j)
    <3>1. i \in Nat /\ j \in Nat /\ \A k \in Visible : k \in Nat
      BY <1>1, <2>1
    <3>2. \A k \in Visible : k < i => k < j
      BY <1>3, <3>1
    <3> QED BY <3>2
  <2>3. Between(j) \subseteq 1..Len(journal)
    BY <1>1
  <2>4. IsFiniteSet(Between(j))
    BY <1>2, <2>3, FS_Subset
  <2>5. /\ IsFiniteSet(Between(i))
        /\ Cardinality(Between(i)) <= Cardinality(Between(j))
    BY <2>2, <2>4, FS_Subset
  <2>6. Cardinality(Between(i)) \in Nat /\ Cardinality(Between(j)) \in Nat
    BY <2>4, <2>5, FS_CardinalityType
  <2>7. PageLimit \in Nat
    BY RuntimeAssumption
  <2>8. Cardinality(Between(i)) < PageLimit
    <3> HIDE DEF Between
    <3> QED BY <2>1, <2>5, <2>6, <2>7
  <2> QED BY <1>3, <2>8 DEF Page
<1> QED BY <1>3 DEF Page

\* A step keeps the types of the runtime's position, its checkpoint and its work.
LEMMA TypesPreserved ==
    ASSUME RuntimeTypes, StrategyNext
    PROVE  RuntimeTypes'
<1> DEFINE Typed == /\ cursor' \in Nat /\ last' \in Nat /\ memory' \in Memories
                    /\ work' \in Works /\ (work'.kind = "bar" => work'.bar \in Bars)
<1>1. /\ journal \in Seq(BOOLEAN)
      /\ cursor \in Nat /\ last \in Nat /\ memory \in Memories
      /\ saved # NoCheckpoint =>
            saved.cursor \in Nat /\ saved.last \in Nat /\ saved.payload \in Memories
      /\ work \in Works /\ (work.kind = "bar" => work.bar \in Bars)
  BY DEF RuntimeTypes, Positions, Position
<1>2. journal' \in Seq(BOOLEAN)
  BY <1>1, ServiceGrows, VisibleGrows
<1>3. Visible \subseteq Nat
  BY <1>1 DEF Visible
<1>4. NoWork \in Works /\ NoWork.kind = "none"
  BY DEF NoWork, Works
<1>5. NoMemory \in Memories
  BY DEF NoMemory, Memories
<1>6. ASSUME NEW id \in work.page
      PROVE  id \in Nat /\ [memory EXCEPT !.events = @ \cup {id}] \in Memories
  BY <1>1 DEF Memories, Works
<1>10. ASSUME NEW b \in Bars
       PROVE  Shown(b) \in Memories
  <2>1. ShownAgain(memory.bars[b]) \in Nat
    BY <1>1, RuntimeAssumption DEF ShownAgain, Memories
  <2> QED BY <1>1, <2>1 DEF Shown, Memories
<1>7. Typed
  <2>1. CASE \E date \in Dates : Start(date)
    BY <1>1, <2>1 DEF Start, Restored
  <2>2. CASE Pause \/ Resume \/ CloseTradingDay \/ Stop \/ Heartbeat
    BY <1>1, <2>2 DEF Pause, Resume, CloseTradingDay, Stop, Heartbeat, ChangeStatus
  <2>3. CASE Crash
    BY <1>1, <1>4, <1>5, <2>3 DEF Crash
  <2>4. ASSUME NEW b \in Bars, NEW quote \in Quotes, ProcessBar(b, quote)
        PROVE  Typed
    <3>1. work' \in Works /\ work'.bar = b
      <4>1. work' = [kind |-> "bar", bar |-> b, ordinal |-> 1, quote |-> quote, page |-> {}]
        BY <2>4 DEF ProcessBar, NoWork
      <4>2. b \in Nat
        BY RuntimeAssumption DEF Bars
      <4> QED BY <4>1, <4>2 DEF Works
    <3> QED BY <1>1, <1>10, <2>4, <3>1 DEF ProcessBar
  <2>5. ASSUME SubmitDecision
        PROVE  Typed
    <3>1. work' \in Works /\ work'.bar = work.bar /\ work.kind = "bar"
      BY <1>1, <2>5 DEF SubmitDecision, MoreDecisions, Works
    <3> QED BY <1>1, <2>5, <3>1 DEF SubmitDecision
  <2>6. CASE SubmitLost \/ SubmitConflicts
    BY <1>1, <1>4, <2>6 DEF SubmitLost, SubmitConflicts, FailBar
  <2>7. CASE CompleteBar \/ CompleteBarFails
    BY <1>1, <1>4, <2>7, RuntimeAssumption DEF CompleteBar, CompleteBarFails, FailBar
  <2>12. CASE \E b \in Bars : ProcessBarFails(b)
    BY <1>1, <1>4, <1>10, <2>12 DEF ProcessBarFails, FailBar
  <2>8. CASE PollOrderEvents
    <3>1. Page(cursor) \in SUBSET Nat
      BY <1>3 DEF Page
    <3> QED BY <1>1, <2>8, <3>1 DEF PollOrderEvents, NoWork, Works
  <2>9. ASSUME ReadEvent
        PROVE  Typed
    <3>1. PICK id \in work.page :
             /\ memory' = [memory EXCEPT !.events = @ \cup {id}]
             /\ cursor' = id
             /\ work' = [work EXCEPT !.page = @ \ {id}]
      BY <2>9 DEF ReadEvent
    <3>2. work' \in Works /\ work'.kind = work.kind /\ work'.bar = work.bar
      BY <1>1, <3>1 DEF Works
    <3> QED BY <1>1, <1>6, <2>9, <3>1, <3>2 DEF ReadEvent
  <2>10. CASE ReadEventFails \/ PageRead
    BY <1>1, <1>4, <1>6, <2>10 DEF ReadEventFails, PageRead
  <2>11. CASE \E linked \in BOOLEAN : RecordEvent(linked)
    BY <1>1, <2>11 DEF RecordEvent, runtimeVars
  <2> QED BY <2>1, <2>2, <2>3, <2>4, <2>5, <2>6, <2>7, <2>8, <2>9, <2>10, <2>11, <2>12
          DEF StrategyNext, RuntimeNext, HostNext, BarStep, PageStep
<1>8. Position' \in Positions
  BY <1>7 DEF Position, Positions
<1>9. saved' # NoCheckpoint => saved' \in Positions
  BY <1>8, CheckpointIsPosition DEF RuntimeTypes
<1> QED BY <1>2, <1>7, <1>8, <1>9 DEF RuntimeTypes

-----------------------------------------------------------------------------
(* Decisions.                                                              *)

\* Decisions at the service stay there.
LEMMA DecidedStays ==
    ASSUME placed \subseteq placed', NEW b, NEW n, DecidedUpTo(b, n)
    PROVE  DecidedUpTo(b, n)'
BY DEF DecidedUpTo

\* A step keeps every bar before the runtime's position, and before the saved one, behind
\* its decisions.
LEMMA DecisionsPreserved ==
    ASSUME BarsInOrder, DecisionInv, StrategyNext
    PROVE  DecisionInv'
<1>1. RuntimeTypes /\ RuntimeTypes'
  BY TypesPreserved DEF DecisionInv
<1>2. placed \subseteq placed'
  BY <1>1, ServiceGrows DEF RuntimeTypes
<1>3. ASSUME NEW p, DecisionsBehind(p)
      PROVE  DecisionsBehind(p)'
  BY <1>2, <1>3, DecidedStays DEF DecisionsBehind
<1>4. DecisionsBehind(Position)'
  <2>1. \A b \in Bars : BarTime[b] <= last => DecidedUpTo(b, Decisions[b])'
    BY <1>2, DecidedStays DEF DecisionInv, DecisionsBehind, Position
  <2>2. \/ last' = last
        \/ saved # NoCheckpoint /\ last' = saved.last
        \/ last' = 0
        \/ CompleteBar \/ CompleteBarFails
    BY Zenon
     DEF StrategyNext, RuntimeNext, HostNext, BarStep, PageStep, Start, Restored, Pause, Resume,
         CloseTradingDay, Stop, Heartbeat, ChangeStatus, Crash, ProcessBar, ProcessBarFails,
         SubmitDecision, SubmitLost, SubmitConflicts, FailBar, RecordEvent, PollOrderEvents,
         ReadEvent, ReadEventFails, PageRead, runtimeVars, serviceVars
  <2>3. CASE last' = last
    BY <2>1, <2>3 DEF DecisionsBehind, Position
  <2>4. CASE saved # NoCheckpoint /\ last' = saved.last
    BY <1>3, <2>4 DEF DecisionInv, DecisionsBehind, Position
  <2>5. CASE last' = 0
    <3>1. \A b \in Bars : ~(BarTime[b] <= 0)
      BY RuntimeAssumption
    <3> QED BY <2>5, <3>1 DEF DecisionsBehind, Position
  <2>6. ASSUME CompleteBar \/ CompleteBarFails, NEW b \in Bars, BarTime[b] <= last'
        PROVE  DecidedUpTo(b, Decisions[b])'
    <3>1. /\ work.kind = "bar" /\ work.bar \in Bars
          /\ last' = BarTime[work.bar] /\ ~(work.ordinal <= Decisions[work.bar])
      BY <1>1, <2>6 DEF CompleteBar, CompleteBarFails, MoreDecisions, RuntimeTypes
    <3>2. b <= work.bar
      BY <2>6, <3>1, RuntimeAssumption DEF BarsInOrder, Bars
    <3>3. CASE b < work.bar
      BY <2>1, <3>1, <3>3 DEF DecisionInv, BarInWork, HostFeeds
    <3>4. CASE b = work.bar
      <4>1. PICK n \in Nat : n = work.ordinal - 1
        BY <3>1 DEF DecisionInv, BarInWork
      <4>2. DecidedUpTo(b, n)'
        BY <1>2, <3>1, <3>4, <4>1, DecidedStays DEF DecisionInv, BarInWork
      <4>3. n + 1 = work.ordinal /\ Decisions[b] \in Nat
        BY <3>1, <4>1, RuntimeAssumption DEF DecisionInv, BarInWork
      <4>4. 1..Decisions[b] \subseteq 1..n
        BY <3>1, <3>4, <4>3
      <4> QED BY <4>2, <4>4 DEF DecidedUpTo
    <3> QED BY <3>1, <3>2, <3>3, <3>4 DEF Bars
  <2>7. CASE CompleteBar \/ CompleteBarFails
    BY <2>6, <2>7 DEF DecisionsBehind, Position
  <2> QED BY <2>2, <2>3, <2>4, <2>5, <2>7
<1>5. saved' # NoCheckpoint => DecisionsBehind(saved)'
  BY <1>3, <1>4, CheckpointIsPosition DEF DecisionInv, DecisionsBehind
<1>6. BarInWork'
  <2>1. \/ work'.kind # "bar"
        \/ UNCHANGED <<work, last>>
        \/ \E b \in Bars, quote \in Quotes : ProcessBar(b, quote)
        \/ SubmitDecision
    <3>1. NoWork.kind # "bar"
      BY DEF NoWork
    <3>2. CASE PollOrderEvents \/ ReadEvent
      BY <1>1, <3>2 DEF PollOrderEvents, ReadEvent, NoWork, RuntimeTypes, Works
    <3>3. CASE ~(PollOrderEvents \/ ReadEvent)
      BY <3>1, <3>3, Zenon
         DEF StrategyNext, RuntimeNext, HostNext, BarStep, PageStep, Start, Pause, Resume,
             CloseTradingDay, Stop, Heartbeat, ChangeStatus, Idle, Crash, ProcessBarFails,
             SubmitLost, SubmitConflicts, FailBar, CompleteBar, CompleteBarFails, RecordEvent,
             ReadEventFails, PageRead, runtimeVars
    <3> QED BY <3>2, <3>3
  <2>2. CASE UNCHANGED <<work, last>>
    BY <1>2, <2>2, DecidedStays DEF DecisionInv, BarInWork, HostFeeds
  <2>3. ASSUME NEW b \in Bars, NEW quote \in Quotes, ProcessBar(b, quote)
        PROVE  BarInWork'
    <3>1. work'.bar = b /\ work'.ordinal = 1 /\ last' = last
      BY <2>3 DEF ProcessBar, NoWork
    <3>2. HostFeeds(b)
      BY <2>3 DEF ProcessBar
    <3> QED BY <3>1, <3>2 DEF BarInWork, HostFeeds, DecidedUpTo
  <2>4. CASE SubmitDecision
    <3>1. /\ work.kind = "bar" /\ work.ordinal \in Nat \ {0}
          /\ HostFeeds(work.bar) /\ DecidedUpTo(work.bar, work.ordinal - 1)
      BY <2>4 DEF SubmitDecision, MoreDecisions, DecisionInv, BarInWork
    <3>2. /\ work'.bar = work.bar /\ work'.ordinal = work.ordinal + 1
          /\ last' = last
      BY <1>1, <2>4 DEF SubmitDecision, RuntimeTypes, Works
    <3>3. PICK b, n \in Nat : b = work.bar /\ n = work.ordinal - 1
      BY <1>1, <3>1 DEF RuntimeTypes, Works
    <3>4. DecidedUpTo(b, n)'
      BY <1>2, <3>1, <3>3, DecidedStays
    <3>5. \E order \in placed' : order.id.bar = b /\ order.id.ordinal = n + 1
      <4>1. PICK id : id = ClientOrderId(work.bar, work.ordinal)
        OBVIOUS
      <4>2. id.bar = b /\ id.ordinal = n + 1
        BY <3>1, <3>3, <4>1 DEF ClientOrderId
      <4>3. [id |-> id, quote |-> work.quote] \in placed'
        BY <2>4, <4>1 DEF SubmitDecision, Record
      <4> QED BY <4>2, <4>3
    <3>6. /\ work'.ordinal - 1 = n + 1 /\ work'.bar = b
          /\ work'.ordinal \in Nat \ {0}
      BY <3>1, <3>2, <3>3
    <3>7. \A ordinal \in 1..(n + 1) : ordinal \in 1..n \/ ordinal = n + 1
      BY <3>3
    <3>8. \A ordinal \in 1..(n + 1) :
             \E order \in placed' : order.id.bar = b /\ order.id.ordinal = ordinal
      BY <3>4, <3>5, <3>7 DEF DecidedUpTo
    <3>9. \A c \in Bars : c < b => BarTime[c] <= last'
      BY <3>1, <3>2, <3>3 DEF HostFeeds
    <3> QED BY <3>6, <3>8, <3>9 DEF BarInWork, DecidedUpTo, HostFeeds
  <2> QED BY <2>1, <2>2, <2>3, <2>4 DEF BarInWork
<1> QED BY <1>1, <1>4, <1>5, <1>6 DEF DecisionInv

-----------------------------------------------------------------------------
(* Events.                                                                 *)

\* A step keeps the plugin, and the saved one, behind no event up to its cursor.
LEMMA EventsPreserved ==
    ASSUME EventInv, StrategyNext
    PROVE  EventInv'
<1>1. RuntimeTypes /\ RuntimeTypes'
  BY TypesPreserved DEF EventInv
<1>2. /\ journal \in Seq(BOOLEAN) /\ cursor \in Nat
      /\ saved # NoCheckpoint => saved.cursor \in Nat
  BY <1>1 DEF RuntimeTypes, Position, Positions
<1>3. /\ Len(journal) \in Nat /\ Len(journal') \in Nat /\ Len(journal) <= Len(journal')
      /\ Visible \subseteq Visible' /\ Visible \subseteq 1..Len(journal)
      /\ \A i \in Visible' : i <= Len(journal) => i \in Visible
      /\ \A i \in Visible' : i \in 1..Len(journal')
  BY <1>2, ServiceGrows, VisibleGrows
<1>. /\ \A i \in Visible : i \in Nat \ {0}
     /\ \A i \in Visible' : i \in Nat \ {0}
  BY <1>3
<1>4. ASSUME NEW p, NEW at \in Nat, at = p.cursor, EventsBehind(p)
      PROVE  /\ at <= Len(journal')
             /\ \A i \in Visible' : i <= at => i \in p.payload.events
  <2>1. at <= Len(journal) /\ \A i \in Visible : i <= at => i \in p.payload.events
    BY <1>4 DEF EventsBehind
  <2>2. \A i \in Visible' : i <= at => i <= Len(journal)
    BY <1>3, <2>1
  <2> QED BY <1>3, <2>1, <2>2
<1>5. EventsBehind(Position)'
  <2>1. /\ cursor <= Len(journal')
        /\ \A i \in Visible' : i <= cursor => i \in memory.events
    <3>1. PICK p : p = Position
      OBVIOUS
    <3>2. p.cursor = cursor /\ p.payload = memory /\ EventsBehind(p)
      BY <3>1 DEF EventInv, Position
    <3>3. PICK at \in Nat : at = cursor
      BY <1>2
    <3> QED BY <1>4, <3>2, <3>3
  <2> DEFINE Takes(id) == /\ IsFirst(id)
                          /\ memory' = [memory EXCEPT !.events = @ \cup {id}]
                          /\ cursor' = id
             Takes1 == work.kind = "page" /\ journal' = journal /\ \E id \in work.page : Takes(id)
  <2>2. \/ cursor' = cursor /\ memory.events \subseteq memory'.events
        \/ saved # NoCheckpoint /\ cursor' = saved.cursor /\ memory' = saved.payload
        \/ cursor' = 0
        \/ Takes1
    <3>1. /\ \A id : memory.events \subseteq [memory EXCEPT !.events = @ \cup {id}].events
          /\ \A b \in Bars : Shown(b).events = memory.events
      <4>1. memory \in Memories
        BY <1>1 DEF RuntimeTypes, Position, Positions
      <4> QED BY <4>1 DEF Memories, Shown
    <3>2. CASE \/ \E b \in Bars, quote \in Quotes : ProcessBar(b, quote)
               \/ \E b \in Bars : ProcessBarFails(b)
      BY <3>1, <3>2 DEF ProcessBar, ProcessBarFails, FailBar
    <3>3. CASE ReadEvent
      BY <3>3 DEF ReadEvent, serviceVars
    <3>4. CASE ReadEventFails
      BY <3>1, <3>4 DEF ReadEventFails, serviceVars
    <3>5. CASE ~(ReadEvent \/ ReadEventFails
                 \/ (\E b \in Bars, quote \in Quotes : ProcessBar(b, quote))
                 \/ (\E b \in Bars : ProcessBarFails(b)))
      <4>1. \/ UNCHANGED <<cursor, memory>>
            \/ saved # NoCheckpoint /\ cursor' = saved.cursor /\ memory' = saved.payload
            \/ cursor' = 0
        BY <3>5, Zenon
           DEF StrategyNext, RuntimeNext, HostNext, BarStep, PageStep, Start, Restored, Pause,
               Resume, CloseTradingDay, Stop, Heartbeat, ChangeStatus, Crash, SubmitDecision,
               SubmitLost, SubmitConflicts, FailBar, CompleteBar, CompleteBarFails, RecordEvent,
               PollOrderEvents, PageRead, runtimeVars
      <4> QED BY <4>1
    <3> QED BY <3>2, <3>3, <3>4, <3>5
  <2>3. CASE cursor' = cursor /\ memory.events \subseteq memory'.events
    BY <2>1, <2>3 DEF EventsBehind, Position
  <2>4. CASE saved # NoCheckpoint /\ cursor' = saved.cursor /\ memory' = saved.payload
    <3>1. PICK p : p = saved
      OBVIOUS
    <3>2. PICK at \in Nat : at = p.cursor
      BY <1>2, <2>4, <3>1
    <3>3. /\ at <= Len(journal')
          /\ \A i \in Visible' : i <= at => i \in p.payload.events
      BY <1>4, <2>4, <3>1, <3>2 DEF EventInv
    <3> QED BY <2>4, <3>1, <3>2, <3>3 DEF EventsBehind, Position
  <2>5. CASE cursor' = 0
    <3>1. 0 <= Len(journal') /\ \A i \in Visible' : ~(i <= 0)
      BY <1>3
    <3> QED BY <2>5, <3>1 DEF EventsBehind, Position
  <2>6. CASE Takes1
    <3>1. PICK id \in work.page :
             /\ \A other \in work.page : id <= other
             /\ memory' = [memory EXCEPT !.events = @ \cup {id}]
             /\ cursor' = id /\ journal' = journal
      BY <2>6 DEF IsFirst
    <3>2. /\ id \in Visible /\ id \in 1..Len(journal)
          /\ \A i \in Visible : cursor < i /\ i <= id => i \in work.page
      BY <1>3, <2>6 DEF EventInv, PageInWork
    <3>3. memory'.events = memory.events \cup {id}
      BY <1>1, <3>1 DEF RuntimeTypes, Position, Positions, Memories
    <3>4. \A i \in Visible : i <= id => i <= cursor \/ i = id
      BY <1>2, <1>3, <3>1, <3>2
    <3>5. Visible' = Visible
      BY <3>1 DEF Visible
    <3>6. \A i \in Visible' : i <= cursor' => i \in memory'.events
      BY <2>1, <3>1, <3>3, <3>4, <3>5
    <3>7. cursor' <= Len(journal')
      BY <3>1, <3>2
    <3> QED BY <3>6, <3>7 DEF EventsBehind, Position
  <2> QED BY <2>2, <2>3, <2>4, <2>5, <2>6
<1>6. saved' # NoCheckpoint => EventsBehind(saved)'
  <2>1. CASE saved' = Position'
    BY <1>5, <2>1 DEF EventsBehind
  <2>2. ASSUME saved' = saved, saved # NoCheckpoint
        PROVE  EventsBehind(saved)'
    <3>1. PICK p : p = saved
      OBVIOUS
    <3>2. PICK at \in Nat : at = p.cursor
      BY <1>2, <2>2, <3>1
    <3>3. /\ at <= Len(journal')
          /\ \A i \in Visible' : i <= at => i \in p.payload.events
      BY <1>4, <2>2, <3>1, <3>2 DEF EventInv
    <3> QED BY <2>2, <3>1, <3>2, <3>3 DEF EventsBehind
  <2> QED BY <2>1, <2>2, CheckpointIsPosition
<1>7. PageInWork'
  <2>1. \/ work'.kind # "page"
        \/ UNCHANGED <<work, cursor>>
        \/ PollOrderEvents
        \/ ReadEvent
    <3>1. NoWork.kind # "page"
      BY DEF NoWork
    <3>2. CASE SubmitDecision \/ \E b \in Bars, quote \in Quotes : ProcessBar(b, quote)
      BY <1>1, <3>2 DEF SubmitDecision, MoreDecisions, ProcessBar, NoWork, RuntimeTypes, Works
    <3>3. CASE ~(SubmitDecision \/ \E b \in Bars, quote \in Quotes : ProcessBar(b, quote))
      BY <3>1, <3>3, Zenon
         DEF StrategyNext, RuntimeNext, HostNext, BarStep, PageStep, Start, Pause, Resume,
             CloseTradingDay, Stop, Heartbeat, ChangeStatus, Idle, Crash, ProcessBarFails,
             SubmitLost, SubmitConflicts, FailBar, CompleteBar, CompleteBarFails, RecordEvent,
             ReadEventFails, PageRead, runtimeVars
    <3> QED BY <3>2, <3>3
  <2>2. CASE UNCHANGED <<work, cursor>>
    <3>1. ASSUME work.kind = "page", NEW i \in Visible', NEW j \in work.page,
                 cursor < i, i <= j
          PROVE  i \in work.page
      <4>1. j \in 1..Len(journal)
        BY <1>3, <3>1 DEF EventInv, PageInWork
      <4>2. i \in Visible
        BY <1>3, <3>1, <4>1
      <4> QED BY <3>1, <4>2 DEF EventInv, PageInWork
    <3>2. work.kind = "page" => work.page \subseteq {i \in Visible' : cursor < i}
      BY <1>3 DEF EventInv, PageInWork
    <3> QED BY <2>2, <3>1, <3>2 DEF PageInWork
  <2>3. CASE PollOrderEvents
    <3>1. /\ Page(cursor) \subseteq {i \in Visible : cursor < i}
          /\ \A i \in Visible, j \in Page(cursor) : cursor < i /\ i <= j => i \in Page(cursor)
      BY <1>2, PageIsAStretch
    <3>2. work'.page = Page(cursor) /\ cursor' = cursor /\ Visible' = Visible
      BY <2>3 DEF PollOrderEvents, NoWork, serviceVars, Visible
    <3> QED BY <3>1, <3>2 DEF PageInWork
  <2>4. CASE ReadEvent
    <3>1. PICK id \in work.page :
             /\ \A other \in work.page : id <= other
             /\ cursor' = id /\ journal' = journal
             /\ work' = [work EXCEPT !.page = @ \ {id}]
      BY <2>4 DEF ReadEvent, IsFirst, serviceVars
    <3>2. /\ work.page \subseteq {i \in Visible : cursor < i}
          /\ \A i \in Visible, j \in work.page : cursor < i /\ i <= j => i \in work.page
      BY <2>4 DEF EventInv, PageInWork, ReadEvent
    <3>3. work'.page = work.page \ {id} /\ Visible' = Visible
      BY <1>1, <3>1 DEF RuntimeTypes, Works, Visible
    <3>4. id \in Nat /\ \A i \in Visible : i \in Nat
      BY <1>3, <3>2
    <3>5. \A j \in work.page \ {id} : j \in Visible /\ id < j
      BY <3>1, <3>2, <3>4
    <3>6. \A i \in Visible, j \in work.page \ {id} : id < i /\ i <= j => i \in work.page \ {id}
      BY <1>2, <3>2, <3>4
    <3> QED BY <3>1, <3>3, <3>5, <3>6 DEF PageInWork
  <2> QED BY <2>1, <2>2, <2>3, <2>4 DEF PageInWork
<1> QED BY <1>1, <1>5, <1>6, <1>7 DEF EventInv

-----------------------------------------------------------------------------
(* Completed bars.                                                         *)

\* A bar comes into work only when it is newer than the runtime's position, and the position
\* of a loaded runtime does not fall behind the saved one.
LEMMA ClosedPreserved ==
    ASSUME ClosedInv, StrategyNext
    PROVE  ClosedInv'
<1>1. RuntimeTypes /\ RuntimeTypes'
  BY TypesPreserved DEF ClosedInv
<1>2. /\ last \in Nat /\ last' \in Nat
      /\ saved # NoCheckpoint => saved.last \in Nat
      /\ work \in Works
  BY <1>1 DEF RuntimeTypes, Position, Positions
<1>3. /\ NoWork.kind = "none"
      /\ \A b \in Bars : BarTime[b] \in Nat
  BY RuntimeAssumption DEF NoWork
<1> DEFINE Closed == /\ work'.kind = "bar" => last' < BarTime[work'.bar]
                     /\ ~Idle' => Loaded'
                     /\ Loaded' => \/ Loaded /\ last <= last'
                                   \/ saved # NoCheckpoint => last' = saved.last
<1>4. Closed
  <2>1. CASE \E date \in Dates : Start(date)
    BY <1>3, <2>1 DEF Start, Restored, Idle, Loaded
  <2>2. CASE Pause \/ Resume \/ CloseTradingDay \/ Stop \/ Heartbeat
    BY <1>2, <1>3, <2>2
       DEF Pause, Resume, CloseTradingDay, Stop, Heartbeat, Active, ChangeStatus, Idle, Loaded
  <2>3. CASE Crash
    BY <1>3, <2>3 DEF Crash, Idle, Loaded
  <2>4. ASSUME NEW b \in Bars, NEW quote \in Quotes, ProcessBar(b, quote)
        PROVE  Closed
    <3>1. work'.bar = b
      BY <2>4 DEF ProcessBar, NoWork
    <3>2. ~(BarTime[b] <= last) /\ last' = last /\ status' = "RUNNING" /\ status = "RUNNING"
      BY <2>4 DEF ProcessBar, Skipped
    <3>3. last < BarTime[b]
      BY <1>2, <1>3, <3>2
    <3> QED BY <1>2, <3>1, <3>2, <3>3 DEF Loaded
  <2>5. CASE \E b \in Bars : ProcessBarFails(b)
    BY <1>2, <1>3, <2>5 DEF ProcessBarFails, FailBar, Idle, Loaded
  <2>6. CASE SubmitDecision
    <3>1. work.kind = "bar" /\ work'.bar = work.bar /\ last' = last /\ status' = status
      BY <1>2, <2>6 DEF SubmitDecision, MoreDecisions, Works
    <3>2. Loaded
      BY <1>3, <3>1 DEF ClosedInv, Idle
    <3> QED BY <1>2, <3>1, <3>2 DEF ClosedInv, Loaded
  <2>7. CASE SubmitLost \/ SubmitConflicts \/ CompleteBar \/ CompleteBarFails
    <3>1. /\ work.kind = "bar" /\ work' = NoWork
          /\ last' = last \/ last' = BarTime[work.bar]
      BY <2>7 DEF SubmitLost, SubmitConflicts, CompleteBar, CompleteBarFails, FailBar,
                  MoreDecisions
    <3>2. Loaded /\ last < BarTime[work.bar] /\ work.bar \in Bars
      BY <1>1, <1>3, <3>1 DEF ClosedInv, Idle, RuntimeTypes
    <3> QED BY <1>2, <1>3, <3>1, <3>2 DEF Idle
  <2>8. CASE PollOrderEvents
    <3>1. /\ work'.kind = "page" /\ last' = last /\ status' = status /\ Active
      BY <2>8 DEF PollOrderEvents, NoWork
    <3> QED BY <1>2, <3>1 DEF Active, Loaded
  <2>9. CASE PageStep
    <3>1. /\ work.kind = "page" /\ last' = last /\ status' = status
          /\ work' = NoWork \/ work'.kind = "page"
      BY <1>2, <2>9 DEF PageStep, ReadEvent, ReadEventFails, PageRead, Works
    <3>2. Loaded
      BY <1>3, <3>1 DEF ClosedInv, Idle
    <3> QED BY <1>2, <1>3, <3>1, <3>2 DEF Loaded
  <2>10. CASE \E linked \in BOOLEAN : RecordEvent(linked)
    BY <1>2, <2>10 DEF RecordEvent, runtimeVars, ClosedInv, Idle, Loaded
  <2> QED BY <2>1, <2>2, <2>3, <2>4, <2>5, <2>6, <2>7, <2>8, <2>9, <2>10
          DEF StrategyNext, RuntimeNext, HostNext, BarStep
<1>5. Loaded' /\ saved' # NoCheckpoint => saved'.last <= last'
  <2>1. CASE saved' = Position'
    BY <1>2, <2>1 DEF Position
  <2>2. CASE saved' = saved
    BY <1>2, <1>4, <2>2 DEF ClosedInv
  <2> QED BY <2>1, <2>2, CheckpointIsPosition
<1> QED BY <1>1, <1>4, <1>5 DEF ClosedInv

\* An order that a step places is one of the bar in work.
LEMMA OrdersAreOfTheBarInWork ==
    ASSUME StrategyNext, NEW order \in placed', order \notin placed
    PROVE  work.kind = "bar" /\ order.id.bar = work.bar
<1>1. \/ placed' = placed
      \/ work.kind = "bar" /\ \E quote : Record(ClientOrderId(work.bar, work.ordinal), quote)
  BY Zenon
     DEF StrategyNext, RuntimeNext, HostNext, BarStep, PageStep, Start, Pause, Resume,
         CloseTradingDay, Stop, Heartbeat, ChangeStatus, Crash, ProcessBar, ProcessBarFails,
         SubmitDecision, SubmitLost, SubmitConflicts, FailBar, CompleteBar, CompleteBarFails,
         MoreDecisions, RecordEvent, PollOrderEvents, ReadEvent, ReadEventFails, PageRead,
         serviceVars
<1>2. PICK quote : /\ work.kind = "bar"
                   /\ order = [id |-> ClientOrderId(work.bar, work.ordinal), quote |-> quote]
  BY <1>1 DEF Record
<1> QED BY <1>2 DEF ClientOrderId

-----------------------------------------------------------------------------
(* Theorems.                                                               *)

\* In the initial state nothing is placed, read or in work.
LEMMA InitiallyBehind ==
    ASSUME StrategyInit
    PROVE  DecisionInv /\ EventInv /\ ClosedInv
<1>1. RuntimeTypes
  BY DEF StrategyInit, RuntimeTypes, Position, Positions, Memories, NoMemory, NoWork, Works
<1>2. \A b \in Bars : ~(BarTime[b] <= 0)
  BY RuntimeAssumption
<1>3. Visible = {} /\ Len(journal) = 0
  BY DEF StrategyInit, Visible
<1> QED BY <1>1, <1>2, <1>3
        DEF StrategyInit, DecisionInv, EventInv, ClosedInv, DecisionsBehind, EventsBehind,
            BarInWork, PageInWork, NoWork, Position, Idle, Loaded

\* Where the bars end one after another: the decisions of every bar the checkpoint counts as
\* processed are at the service, through every failure between two submissions, every
\* crash and every restart (process_bar, _restore).
THEOREM ProcessedBarsAreDecided ==
    ASSUME BarsInOrder
    PROVE  StrategySpec => []DecisionsAreRecorded
<1>1. StrategyInit => DecisionInv
  BY InitiallyBehind
<1>2. DecisionInv /\ [StrategyNext]_strategyVars => DecisionInv'
  <2>1. CASE StrategyNext
    BY <2>1, DecisionsPreserved
  <2>2. CASE UNCHANGED strategyVars
    BY <2>2 DEF strategyVars, serviceVars, runtimeVars, DecisionInv, RuntimeTypes, Position,
                DecisionsBehind, DecidedUpTo, BarInWork, HostFeeds
  <2> QED BY <2>1, <2>2
<1>3. DecisionInv => DecisionsAreRecorded
  BY DEF DecisionInv, DecisionsBehind, DecidedUpTo, DecisionsAreRecorded
<1> QED BY <1>1, <1>2, <1>3, PTL DEF StrategySpec

\* The saved plugin has seen every event of its orders up to the saved cursor, however many
\* events a page holds and wherever a callback fails or the process dies
\* (poll_order_events, _checkpoint).
THEOREM SavedPluginHasSeenItsEvents == StrategySpec => []EventsReachCheckpoint
<1>1. StrategyInit => EventInv
  BY InitiallyBehind
<1>2. EventInv /\ [StrategyNext]_strategyVars => EventInv'
  <2>1. CASE StrategyNext
    BY <2>1, EventsPreserved
  <2>2. CASE UNCHANGED strategyVars
    BY <2>2 DEF strategyVars, serviceVars, runtimeVars, EventInv, RuntimeTypes, Position,
                EventsBehind, PageInWork, Visible
  <2> QED BY <2>1, <2>2
<1>3. EventInv => EventsReachCheckpoint
  BY DEF EventInv, EventsBehind, EventsReachCheckpoint
<1> QED BY <1>1, <1>2, <1>3, PTL DEF StrategySpec

\* A bar the checkpoint counts as processed gets no further order, for every plugin, every
\* feed of bars, failure, crash and restart (process_bar, start, _checkpoint).
THEOREM CompletedBarsStayClosed == StrategySpec => CompletedBarsAreClosed
<1>1. StrategyInit => ClosedInv
  BY InitiallyBehind
<1>2. ClosedInv /\ [StrategyNext]_strategyVars => ClosedInv'
  <2>1. CASE StrategyNext
    BY <2>1, ClosedPreserved
  <2>2. CASE UNCHANGED strategyVars
    BY <2>2 DEF strategyVars, serviceVars, runtimeVars, ClosedInv, RuntimeTypes, Position,
                Idle, Loaded
  <2> QED BY <2>1, <2>2
<1>3. ClosedInv /\ [StrategyNext]_strategyVars =>
        [\A b \in Bars :
            saved # NoCheckpoint /\ BarTime[b] <= saved.last =>
                \A order \in placed' : order.id.bar = b => order \in placed]_strategyVars
  <2> SUFFICES ASSUME ClosedInv, StrategyNext, NEW b \in Bars, saved # NoCheckpoint,
                      BarTime[b] <= saved.last, NEW order \in placed', order.id.bar = b,
                      order \notin placed
               PROVE  FALSE
    BY DEF strategyVars, serviceVars
  <2>1. work.kind = "bar" /\ work.bar = b
    BY OrdersAreOfTheBarInWork
  <2>2. last < BarTime[b] /\ saved.last <= last
    BY <2>1 DEF ClosedInv, Idle, NoWork
  <2>3. last \in Nat /\ saved.last \in Nat /\ BarTime[b] \in Nat
    BY RuntimeAssumption DEF ClosedInv, RuntimeTypes, Position, Positions
  <2> QED BY <2>2, <2>3
<1> QED BY <1>1, <1>2, <1>3, PTL DEF StrategySpec, CompletedBarsAreClosed
=============================================================================
