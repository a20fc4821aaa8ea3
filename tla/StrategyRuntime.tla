--------------------------- MODULE StrategyRuntime ---------------------------
(***************************************************************************)
(* platform_core/plugins/runtime.py: a strategy process that turns bars    *)
(* into orders at the execution service and reads the events of its orders *)
(* back, with one checkpoint for both.  Of the service it takes the        *)
(* recorded intents and the listed journal (BrokerBooks has its writer).   *)
(*                                                                         *)
(* A plugin is what it has been shown: how often each bar and each event   *)
(* was applied to its features and signals.  Every operation of the        *)
(* runtime holds its lock; it is divided where it calls the service.       *)
(***************************************************************************)
EXTENDS Naturals, Sequences, FiniteSets

CONSTANTS
    NumBars,            \* bars in the order the host feeds them
    BarTime,            \* [1..NumBars -> Nat], bar_end of each bar
    Decisions,          \* [1..NumBars -> Nat], decisions the portfolio makes of a bar
    Dates, NoDate,      \* trading dates
    Quotes,             \* quotes a bar may be processed with
    Stateful,           \* whether a decision depends on what the plugin was shown
    NoCheckpoint,
    MaxApplied,         \* how often a plugin was shown one bar is counted up to this
    MaxEvents,          \* bound on the events of the journal
    PageLimit,          \* limit of a page of order events
    MaxFailures,        \* bound on lost requests and answers, failing plugins and failing saves
    MaxCrashes          \* bound on the crashes of the strategy process

Bars == 1..NumBars

ASSUME RuntimeAssumption ==
    /\ NumBars \in Nat
    /\ BarTime \in [Bars -> Nat \ {0}]
    /\ Decisions \in [Bars -> Nat]
    /\ NoDate \notin Dates
    /\ Stateful \in BOOLEAN
    /\ MaxApplied \in Nat
    /\ MaxEvents \in Nat
    /\ PageLimit \in Nat \ {0}
    /\ MaxFailures \in Nat
    /\ MaxCrashes \in Nat

VARIABLES
    placed,     \* intents the service has recorded: client_order_id and quote
    journal,    \* broker_order_events, by event id: whether linked to this strategy
    status, tradingDate, cursor, last,   \* attributes of StrategyRuntime
    memory,     \* state of the features and signal plugins
    work,       \* the bar or the page of events that is being processed
    saved,      \* the row of strategy_checkpoints
    failures, crashes

serviceVars == <<placed, journal>>
runtimeVars == <<status, tradingDate, cursor, last, memory, work, saved, failures, crashes>>
strategyVars == <<serviceVars, runtimeVars>>

RuntimeStatus == {"CREATED", "RUNNING", "PAUSED", "STOPPED", "FAILED"}
NoMemory == [bars |-> [b \in Bars |-> 0], events |-> {}]
NoWork == [kind |-> "none", bar |-> 0, ordinal |-> 0, quote |-> 0, page |-> {}]

StrategyInit ==
    /\ placed = {}
    /\ journal = <<>>
    /\ status = "CREATED"
    /\ tradingDate = NoDate
    /\ cursor = 0
    /\ last = 0
    /\ memory = NoMemory
    /\ work = NoWork
    /\ saved = NoCheckpoint
    /\ failures = 0
    /\ crashes = 0

-----------------------------------------------------------------------------
(* Orders.                                                                 *)

\* deterministic_client_order_id: strategy, version, runtime, mode and account are fixed.
\* What the hash takes of the decision (side, quantity, signal) depends, for a stateful
\* plugin, on what the plugin was shown.
ClientOrderId(b, ordinal) ==
    [bar |-> b, ordinal |-> ordinal, date |-> tradingDate,
     decision |-> IF Stateful THEN memory.bars ELSE NoMemory.bars]

Placed(id) == \E order \in placed : order.id = id

\* create_or_get_intent: an equal number with another request is an IdempotencyConflict.
Conflicts(id, quote) == \E order \in placed : order.id = id /\ order.quote # quote

-----------------------------------------------------------------------------
(* Checkpoints.                                                            *)

\* The status and the trading date of a checkpoint are stored and never read again.
Checkpoint(newCursor, newLast, newMemory) ==
    saved' = [cursor |-> newCursor, last |-> newLast, payload |-> newMemory]

\* A plugin callback before the save, or the save itself, may raise: what the runtime has
\* changed by then stays, and the stored row is the old one.
TryCheckpoint(newCursor, newLast, newMemory) ==
    \/ Checkpoint(newCursor, newLast, newMemory) /\ UNCHANGED failures
    \/ UNCHANGED saved /\ failures < MaxFailures /\ failures' = failures + 1

\* The store's row, or what the runtime has where there is none.
Restored == IF saved = NoCheckpoint
            THEN [cursor |-> cursor, last |-> last, payload |-> memory]
            ELSE saved

Idle == work = NoWork
Active == status \in {"RUNNING", "PAUSED"}

\* Faulty variant: the payload is restored, the cursors are not.
StartWithoutCursor(date) ==
    /\ Idle
    /\ status # "RUNNING"
    /\ cursor' = IF saved = NoCheckpoint THEN cursor ELSE Len(journal)
    /\ last' = Restored.last
    /\ memory' = Restored.payload
    /\ TryCheckpoint(cursor', Restored.last, Restored.payload)
    /\ status' = "RUNNING"
    /\ tradingDate' = date
    /\ UNCHANGED <<serviceVars, work, crashes>>

Start(date) ==
    /\ Idle
    /\ status # "RUNNING"
    /\ cursor' = Restored.cursor
    /\ last' = Restored.last
    /\ memory' = Restored.payload
    /\ TryCheckpoint(Restored.cursor, Restored.last, Restored.payload)
    /\ status' = "RUNNING"
    /\ tradingDate' = date
    /\ UNCHANGED <<serviceVars, work, crashes>>

ChangeStatus(from, to, date) ==
    /\ Idle
    /\ status \in from
    /\ status' = to
    /\ tradingDate' = date
    /\ TryCheckpoint(cursor, last, memory)
    /\ UNCHANGED <<serviceVars, cursor, last, memory, work, crashes>>

Pause == ChangeStatus({"RUNNING"}, "PAUSED", tradingDate)
Resume == ChangeStatus({"PAUSED"}, "RUNNING", tradingDate)
CloseTradingDay == ChangeStatus({"RUNNING", "PAUSED"}, "PAUSED", NoDate)
Stop == ChangeStatus(RuntimeStatus \ {"STOPPED"}, "STOPPED", tradingDate)
Heartbeat ==
    /\ Active
    /\ ChangeStatus({status}, status, tradingDate)

\* The process dies; the next one is created and restores the checkpoint in start().
Crash ==
    /\ crashes < MaxCrashes
    /\ crashes' = crashes + 1
    /\ status' = "CREATED"
    /\ tradingDate' = NoDate
    /\ cursor' = 0
    /\ last' = 0
    /\ memory' = NoMemory
    /\ work' = NoWork
    /\ UNCHANGED <<serviceVars, saved, failures>>

-----------------------------------------------------------------------------
(* process_bar.                                                            *)

\* The host feeds bars in order, and feeds again what a restart may have missed.
HostFeeds(b) == \A c \in Bars : c < b => BarTime[c] <= last

\* Faulty variant: only the last bar is known again, not an older one.
SkippedIfLast(b) == BarTime[b] = last

Skipped(b) == BarTime[b] <= last

ShownAgain(n) == IF n < MaxApplied THEN n + 1 ELSE n

\* Faulty variant: the bar counts as processed before its orders were sent.
ProcessBarEarly(b, quote) ==
    /\ Idle
    /\ status = "RUNNING"
    /\ HostFeeds(b)
    /\ ~Skipped(b)
    /\ memory' = [memory EXCEPT !.bars[b] = ShownAgain(@)]
    /\ last' = BarTime[b]
    /\ work' = [NoWork EXCEPT !.kind = "bar", !.bar = b, !.ordinal = 1, !.quote = quote]
    /\ UNCHANGED <<serviceVars, status, tradingDate, cursor, saved, failures, crashes>>

\* The plugin takes the bar in before the first decision is submitted.
Shown(b) == [memory EXCEPT !.bars[b] = ShownAgain(@)]

ProcessBar(b, quote) ==
    /\ Idle
    /\ status = "RUNNING"
    /\ HostFeeds(b)
    /\ ~Skipped(b)
    /\ memory' = Shown(b)
    /\ work' = [NoWork EXCEPT !.kind = "bar", !.bar = b, !.ordinal = 1, !.quote = quote]
    /\ UNCHANGED <<serviceVars, status, tradingDate, cursor, last, saved, failures, crashes>>

MoreDecisions == work.kind = "bar" /\ work.ordinal <= Decisions[work.bar]

Record(id, quote) == placed' = placed \cup {[id |-> id, quote |-> quote]}

SubmitDecision ==
    /\ MoreDecisions
    /\ LET id == ClientOrderId(work.bar, work.ordinal)
       IN ~Conflicts(id, work.quote) /\ Record(id, work.quote)
    /\ work' = [work EXCEPT !.ordinal = @ + 1]
    /\ UNCHANGED <<journal, status, tradingDate, cursor, last, memory, saved, failures,
                   crashes>>

\* The exception handler: the status is FAILED, the checkpoint is the plugin as it is now
\* and the time the runtime has; saving it may raise again.
FailBar ==
    /\ status' = "FAILED"
    /\ work' = NoWork
    /\ Checkpoint(cursor, last', memory') \/ UNCHANGED saved
    /\ UNCHANGED <<journal, tradingDate, cursor, crashes>>

\* Features, signals or portfolio raise, before or after the plugin took the bar in.
ProcessBarFails(b) ==
    /\ Idle
    /\ status = "RUNNING"
    /\ HostFeeds(b)
    /\ ~Skipped(b)
    /\ failures < MaxFailures
    /\ failures' = failures + 1
    /\ memory' \in {memory, Shown(b)}
    /\ UNCHANGED <<placed, last>>
    /\ FailBar

\* The intent cannot be built, or the request or its answer is lost.
SubmitLost ==
    /\ MoreDecisions
    /\ failures < MaxFailures
    /\ failures' = failures + 1
    /\ LET id == ClientOrderId(work.bar, work.ordinal)
       IN \/ UNCHANGED placed
          \/ ~Conflicts(id, work.quote) /\ Record(id, work.quote)
    /\ UNCHANGED <<last, memory>>
    /\ FailBar

SubmitConflicts ==
    /\ MoreDecisions
    /\ Conflicts(ClientOrderId(work.bar, work.ordinal), work.quote)
    /\ UNCHANGED <<placed, last, memory, failures>>
    /\ FailBar

\* Faulty variant: the time of the bar is saved and not kept.
CompleteBarUnmarked ==
    /\ work.kind = "bar"
    /\ ~MoreDecisions
    /\ work' = NoWork
    /\ Checkpoint(cursor, BarTime[work.bar], memory)
    /\ UNCHANGED <<serviceVars, status, tradingDate, cursor, last, memory, failures, crashes>>

CompleteBar ==
    /\ work.kind = "bar"
    /\ ~MoreDecisions
    /\ last' = BarTime[work.bar]
    /\ work' = NoWork
    /\ Checkpoint(cursor, BarTime[work.bar], memory)
    /\ UNCHANGED <<serviceVars, status, tradingDate, cursor, memory, failures, crashes>>

\* The save at the end of the bar raises: the runtime has the new time, the row need not.
CompleteBarFails ==
    /\ work.kind = "bar"
    /\ ~MoreDecisions
    /\ failures < MaxFailures
    /\ failures' = failures + 1
    /\ last' = BarTime[work.bar]
    /\ UNCHANGED <<placed, memory>>
    /\ FailBar

-----------------------------------------------------------------------------
(* poll_order_events, and GET /v1/order-events behind it.                  *)

\* record_event, while the broker acts on orders of this strategy or of another one.
RecordEvent(linked) ==
    /\ Len(journal) < MaxEvents
    /\ linked => placed # {}
    /\ journal' = Append(journal, linked)
    /\ UNCHANGED <<placed, runtimeVars>>

\* Events the service links to an order of this strategy.
Visible == {i \in DOMAIN journal : journal[i]}

\* The first PageLimit of them after the cursor.  A page is handed out in the order of the ids.
Page(after) ==
    {i \in Visible : i > after /\ Cardinality({j \in Visible : after < j /\ j < i}) < PageLimit}

PollOrderEvents ==
    /\ Idle
    /\ Active
    /\ work' = [NoWork EXCEPT !.kind = "page", !.page = Page(cursor)]
    /\ UNCHANGED <<serviceVars, status, tradingDate, cursor, last, memory, saved, failures,
                   crashes>>

\* The event of the page that comes next.
IsFirst(id) == id \in work.page /\ \A other \in work.page : id <= other

\* Faulty variant: the cursor is saved before the callback has seen the event.
ReadEventAfterCursor ==
    /\ work.kind = "page"
    /\ \E id \in work.page :
          /\ IsFirst(id)
          /\ Checkpoint(id, last, memory)
          /\ memory' = [memory EXCEPT !.events = @ \cup {id}]
          /\ cursor' = id
          /\ work' = [work EXCEPT !.page = @ \ {id}]
    /\ UNCHANGED <<serviceVars, status, tradingDate, last, failures, crashes>>

ReadEvent ==
    /\ work.kind = "page"
    /\ \E id \in work.page :
          /\ IsFirst(id)
          /\ memory' = [memory EXCEPT !.events = @ \cup {id}]
          /\ cursor' = id
          /\ Checkpoint(id, last, memory')
          /\ work' = [work EXCEPT !.page = @ \ {id}]
    /\ UNCHANGED <<serviceVars, status, tradingDate, last, failures, crashes>>

\* The callback raises, before or after the plugin took the event in, or the save behind it
\* does; the exception leaves the status as it is.
ReadEventFails ==
    /\ work.kind = "page"
    /\ failures < MaxFailures
    /\ failures' = failures + 1
    /\ \E id \in work.page :
          /\ IsFirst(id)
          /\ \/ memory' = memory /\ cursor' = cursor
             \/ /\ memory' = [memory EXCEPT !.events = @ \cup {id}]
                /\ cursor' \in {cursor, id}
    /\ work' = NoWork
    /\ UNCHANGED <<serviceVars, status, tradingDate, last, saved, crashes>>

PageRead ==
    /\ work.kind = "page"
    /\ work.page = {}
    /\ work' = NoWork
    /\ TryCheckpoint(cursor, last, memory)
    /\ UNCHANGED <<serviceVars, status, tradingDate, cursor, last, memory, crashes>>

-----------------------------------------------------------------------------
BarStep == SubmitDecision \/ SubmitLost \/ SubmitConflicts \/ CompleteBar \/ CompleteBarFails
PageStep == ReadEvent \/ ReadEventFails \/ PageRead

HostNext ==
    \/ \E date \in Dates : Start(date)
    \/ Pause \/ Resume \/ CloseTradingDay \/ Stop \/ Heartbeat
    \/ Crash

RuntimeNext ==
    \/ HostNext
    \/ \E b \in Bars, quote \in Quotes : ProcessBar(b, quote)
    \/ \E b \in Bars : ProcessBarFails(b)
    \/ BarStep
    \/ PollOrderEvents
    \/ PageStep

StrategyNext ==
    \/ RuntimeNext
    \/ \E linked \in BOOLEAN : RecordEvent(linked)

StrategySpec == StrategyInit /\ [][StrategyNext]_strategyVars

FairStrategySpec ==
    /\ StrategySpec
    /\ WF_strategyVars(BarStep)
    /\ WF_strategyVars(PageStep)
    /\ SF_strategyVars(PollOrderEvents)
    /\ SF_strategyVars(\E b \in Bars, quote \in Quotes : ProcessBar(b, quote))

-----------------------------------------------------------------------------
(* Properties.                                                             *)

\* A bar the checkpoint counts as processed has all its decisions at the service: neither
\* a failure between two submissions nor a crash or a restart loses a decision.
DecisionsAreRecorded ==
    saved # NoCheckpoint =>
        \A b \in Bars : BarTime[b] <= saved.last =>
            \A ordinal \in 1..Decisions[b] :
                \E order \in placed : order.id.bar = b /\ order.id.ordinal = ordinal

\* A bar the checkpoint counts as processed gets no further order, whatever its plugin would
\* decide if it saw the bar again: not from the host that feeds it once more, nor from the
\* runtime that starts in a new process, after any failure of a submission or a save.
CompletedBarsAreClosed ==
    [][\A b \in Bars :
          saved # NoCheckpoint /\ BarTime[b] <= saved.last =>
              \A order \in placed' : order.id.bar = b => order \in placed]_strategyVars

\* However often a bar is processed on a trading date, because an answer was lost or the
\* process died, each of its decisions is one order (README.md, "重启后重复 bar 会跳过，提交
\* 中断则依靠相同订单编号由 ExecutionSDK 幂等恢复").  A stateful plugin breaks it.
OneOrderPerDecision ==
    \A x, y \in placed :
        /\ x.id.bar = y.id.bar
        /\ x.id.ordinal = y.id.ordinal
        /\ x.id.date = y.id.date
        => x.id = y.id

\* The saved plugin has seen every event of its orders up to the saved cursor: a restart
\* resumes behind no event that it has not taken in.
EventsReachCheckpoint ==
    saved # NoCheckpoint =>
        {i \in Visible : i <= saved.cursor} \subseteq saved.payload.events

\* A strategy that stays up reads every event of its orders.
EventsAreRead ==
    <>[]Active => \A i \in 1..MaxEvents : i \in Visible ~> i \in memory.events

\* A strategy that keeps running completes every bar, the interrupted ones included.
BarsAreCompleted ==
    <>[](status = "RUNNING") => <>(\A b \in Bars : BarTime[b] <= last)
=============================================================================
