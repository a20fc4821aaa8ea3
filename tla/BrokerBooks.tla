----------------------------- MODULE BrokerBooks -----------------------------
(***************************************************************************)
(* The books kept of the account: the journal of broker events, the stored *)
(* executions with their commissions, the position baseline, and the       *)
(* statement that is compared with them at the end of the day.             *)
(*                                                                         *)
(* Three actors change them.  The reader thread commits a callback to      *)
(* broker_order_events before it applies it, and drops one that equals an  *)
(* earlier one (ExecutionSDK.on_broker_event).  A reconciliation           *)
(* (IBKRReconciliationSDK.run) makes IBKR repeat the executions, reads the *)
(* positions, and replaces the stored positions when executions explain    *)
(* the difference.  An operator adopts positions or compares a statement.  *)
(*                                                                         *)
(* Every trade buys one unit of one instrument.  A moment is the number of *)
(* trades made so far: trade i was executed before moment t iff i <= t.    *)
(***************************************************************************)
EXTENDS Naturals, Sequences, FiniteSets, SequencesExt

CONSTANTS
    Own,                \* execution ids of orders of the ledger
    Foreign,            \* execution ids of trades the ledger has no order for
    NoExec,             \* absent value
    MaxCrashes,         \* bound on the crashes of exec_svc
    MaxAdoptions,       \* bound on adopt_positions
    MaxStatements,      \* bound on statements compared
    MaxPolls,           \* max_poll_attempts of the Flex provider
    MaxInbox            \* bound on the callbacks under way when IBKR repeats executions

Execs == Own \cup Foreign

ASSUME BooksAssumption ==
    /\ Own \cap Foreign = {}
    /\ NoExec \notin Execs
    /\ {MaxCrashes, MaxAdoptions, MaxStatements, MaxPolls, MaxInbox} \subseteq Nat

VARIABLES
    trades,         \* executions in the order IBKR made them
    commissioned,   \* the executions whose commission IBKR has computed
    inbox,          \* callbacks on their way to the reader thread
    reported,       \* the adapter's _commissions: reports this process has received
    journal,        \* broker_order_events: the event id is the position
    unapplied,      \* the event the reader has committed and not applied, or <<>>
    execRow,        \* broker_executions
    run,            \* the reconciliation's progress and what it has read
    baseline,       \* broker_positions, or the last READY run when it is empty
    session,        \* whether the session is "ready" or "degraded"
    adoption,       \* adopt_positions: what it has read
    statement,      \* the Flex statement that is fetched or compared
    killed,         \* the persistent kill switch of the account
    counts          \* crashes, adoptions and statements so far

callbackVars == <<inbox, reported, journal, unapplied>>
booksVars == <<trades, commissioned, callbackVars, execRow, run, baseline, session,
               adoption, statement, killed, counts>>

NoRow == [known |-> FALSE, commission |-> FALSE]
NoRun == [step |-> "idle", trigger |-> "none", rows |-> {}, reports |-> {}, exec |-> NoExec,
          commission |-> FALSE, positions |-> 0, at |-> 0, unmanaged |-> FALSE]
NoAdoption == [step |-> "idle", positions |-> 0]
NoStatement == [step |-> "idle", polls |-> 0, trades |-> {}, positions |-> 0]

BooksInit ==
    /\ trades = <<>>
    /\ commissioned = {}
    /\ inbox = <<>>
    /\ reported = {}
    /\ journal = <<>>
    /\ unapplied = <<>>
    /\ execRow = [e \in Execs |-> NoRow]
    /\ run = NoRun
    /\ baseline = [exists |-> FALSE, quantity |-> 0, at |-> 0]
    /\ session = "degraded"
    /\ adoption = NoAdoption
    /\ statement = NoStatement
    /\ killed = FALSE
    /\ counts = [crashes |-> 0, adoptions |-> 0, statements |-> 0]

Now == Len(trades)
Executed == Range(trades)

-----------------------------------------------------------------------------
(* IBKR.  Trades of other clients send no callback of their own accord.    *)

Call(kind, e) == [kind |-> kind, exec |-> e]

BrokerTrades(e) ==
    /\ e \notin Executed
    /\ trades' = Append(trades, e)
    /\ inbox' = IF e \in Own THEN Append(inbox, Call("EXECUTION", e)) ELSE inbox
    /\ UNCHANGED <<commissioned, reported, journal, unapplied, execRow, run, baseline,
                   session, adoption, statement, killed, counts>>

\* Commissions of foreign trades are left out: nothing depends on them.
BrokerCommissions(e) ==
    /\ e \in Own \cap Executed
    /\ e \notin commissioned
    /\ commissioned' = commissioned \cup {e}
    /\ inbox' = Append(inbox, Call("COMMISSION", e))
    /\ UNCHANGED <<trades, reported, journal, unapplied, execRow, run, baseline, session,
                   adoption, statement, killed, counts>>

-----------------------------------------------------------------------------
(* The reader thread.                                                      *)

Journaled(kind, e) ==
    \E i \in DOMAIN journal : journal[i].kind = kind /\ journal[i].exec = e

\* An execution names its order; a commission is linked through the stored execution.
ResolveEventOrder(callback) ==
    callback.exec \in Own /\ (callback.kind = "EXECUTION" \/ execRow[callback.exec].known)

RecordEvent ==
    /\ inbox # <<>>
    /\ unapplied = <<>>
    /\ inbox' = Tail(inbox)
    /\ LET callback == Head(inbox)
       IN /\ reported' = IF callback.kind = "COMMISSION"
                         THEN reported \cup {callback.exec} ELSE reported
          /\ IF Journaled(callback.kind, callback.exec)
             THEN UNCHANGED <<journal, unapplied>>
             ELSE /\ journal' = Append(journal,
                        [kind |-> callback.kind, exec |-> callback.exec,
                         linked |-> ResolveEventOrder(callback)])
                  /\ unapplied' = <<callback>>
    /\ UNCHANGED <<trades, commissioned, execRow, run, baseline, session, adoption,
                   statement, killed, counts>>

\* upsert_execution: a commission that was journaled before is taken from the journal.
ExecutionStored(e, commission) ==
    [known |-> TRUE,
     commission |-> commission \/ Journaled("COMMISSION", e) \/ execRow[e].commission]

AttachCommission(e) ==
    IF execRow[e].known THEN [execRow[e] EXCEPT !.commission = TRUE] ELSE execRow[e]

\* An execution without an order kills the account (_activate_integrity_kill).
ApplyEvent ==
    /\ unapplied # <<>>
    /\ LET callback == Head(unapplied)
           e == callback.exec
       IN /\ execRow' = [execRow EXCEPT ![e] =
                           IF callback.kind = "EXECUTION" THEN ExecutionStored(e, FALSE)
                                                          ELSE AttachCommission(e)]
          /\ killed' = (killed \/ (callback.kind = "EXECUTION" /\ e \in Foreign))
    /\ unapplied' = <<>>
    /\ UNCHANGED <<trades, commissioned, inbox, reported, journal, run, baseline, session,
                   adoption, statement, counts>>

-----------------------------------------------------------------------------
(* A reconciliation: executions, positions, storing, judging.              *)

RunUnchanged ==
    UNCHANGED <<trades, commissioned, reported, journal, unapplied, adoption, statement,
                counts>>
RunOnly ==
    /\ UNCHANGED <<inbox, execRow, baseline, session, killed>>
    /\ RunUnchanged

Reports(E) ==
    LET es == SetToSeq(E)
        cs == SetToSeq(E \cap commissioned)
    IN [i \in 1..Len(es) |-> Call("EXECUTION", es[i])]
         \o [i \in 1..Len(cs) |-> Call("COMMISSION", cs[i])]

\* A READY session is audited under _submit_lock, which adopt_positions holds as well; a
\* degraded one is recovered without it.  A killed account is only reconciled by an
\* adoption.
RequestExecutions(trigger) ==
    /\ run.step = "idle"
    /\ CASE trigger = "PERIODIC"  -> session = "ready" /\ ~killed /\ adoption.step = "idle"
         [] trigger = "RECONNECT" -> session = "degraded" /\ ~killed
         [] trigger = "ADOPTION"  -> adoption.step = "adopted"
    /\ Len(inbox) + Len(Reports(Executed)) <= MaxInbox
    /\ inbox' = inbox \o Reports(Executed)
    /\ run' = [NoRun EXCEPT !.step = "executions", !.rows = Executed, !.trigger = trigger]
    /\ UNCHANGED <<execRow, baseline, session, killed>>
    /\ RunUnchanged

\* The reader has handled the executions of the answer; commissions may come after its end.
AnswerRead ==
    /\ \A i \in DOMAIN inbox : inbox[i] \notin {Call("EXECUTION", e) : e \in run.rows}
    /\ \A i \in DOMAIN unapplied : unapplied[i].kind = "COMMISSION"

\* Faulty variant: an execution that is in the journal is taken to be stored.
ExecutionsEndJournaled ==
    /\ run.step = "executions"
    /\ AnswerRead
    /\ run' = [run EXCEPT !.step = "positions", !.reports = reported,
                 !.rows = {e \in @ : ~Journaled("EXECUTION", e)}]
    /\ RunOnly

ExecutionsEnd ==
    /\ run.step = "executions"
    /\ AnswerRead
    /\ run' = [run EXCEPT !.step = "positions", !.reports = reported]
    /\ RunOnly

ReadPositions ==
    /\ run.step = "positions"
    /\ run' = [run EXCEPT !.step = "dated", !.positions = Now]
    /\ RunOnly

\* positions_snapshot_at
DateSnapshot ==
    /\ run.step = "dated"
    /\ run' = [run EXCEPT !.step = "storing", !.at = Now]
    /\ RunOnly

\* The transaction of upsert_execution reads the journal first and writes the row last.
StoreReads(e) ==
    /\ run.step = "storing"
    /\ e \in run.rows
    /\ run' = [run EXCEPT !.step = "writing", !.rows = @ \ {e}, !.exec = e,
                 !.unmanaged = @ \/ e \in Foreign,
                 !.commission = ExecutionStored(e, e \in run.reports).commission]
    /\ RunOnly

StoreWrites ==
    /\ run.step = "writing"
    /\ execRow' = [execRow EXCEPT ![run.exec] =
                     [known |-> TRUE, commission |-> run.commission \/ @.commission]]
    /\ run' = [run EXCEPT !.step = "storing", !.exec = NoExec, !.commission = FALSE]
    /\ UNCHANGED <<inbox, baseline, session, killed>>
    /\ RunUnchanged

\* Stored executions of own orders from one moment to another.
ManagedExecutions(from, to) ==
    {i \in 1..Now : from < i /\ i <= to /\ trades[i] \in Own /\ execRow[trades[i]].known}

\* POSITION_MISMATCH or POSITION_BASELINE_REQUIRED
PositionIssue(positions, at) ==
    IF baseline.exists
    THEN baseline.quantity + Cardinality(ManagedExecutions(baseline.at, at)) # positions
    ELSE positions > 0

\* replace_positions; positions of quantity zero leave no row, and the baseline is then
\* the last READY run.
Replaced(positions) ==
    IF positions > 0
    THEN [baseline EXCEPT !.exists = TRUE, !.quantity = positions, !.at = Now]
    ELSE baseline

\* Faulty variant: the positions are replaced whether or not they are explained.
JudgePositionsAlways ==
    /\ run.step = "storing"
    /\ run.rows = {}
    /\ run' = [NoRun EXCEPT !.step = IF PositionIssue(run.positions, run.at)
                                        \/ run.unmanaged
                                     THEN "blocked" ELSE "ready",
                            !.trigger = run.trigger]
    /\ baseline' = Replaced(run.positions)
    /\ UNCHANGED <<inbox, execRow, session, killed>>
    /\ RunUnchanged

\* Faulty variant: executions without an order do not block.
JudgePositionsUnmanaged ==
    /\ run.step = "storing"
    /\ run.rows = {}
    /\ LET issue == PositionIssue(run.positions, run.at)
       IN /\ run' = [NoRun EXCEPT !.step = IF issue THEN "blocked" ELSE "ready",
                                  !.trigger = run.trigger]
          /\ baseline' = IF issue THEN baseline ELSE Replaced(run.positions)
    /\ UNCHANGED <<inbox, execRow, session, killed>>
    /\ RunUnchanged

JudgePositions ==
    /\ run.step = "storing"
    /\ run.rows = {}
    /\ LET issue == PositionIssue(run.positions, run.at)
       IN /\ run' = [NoRun EXCEPT !.step = IF issue \/ run.unmanaged
                                           THEN "blocked" ELSE "ready",
                                  !.trigger = run.trigger]
          /\ baseline' = IF issue THEN baseline ELSE Replaced(run.positions)
    /\ UNCHANGED <<inbox, execRow, session, killed>>
    /\ RunUnchanged

\* The run is recorded; a blocked audit kills the account.
RecordReconciliation ==
    /\ run.step \in {"ready", "blocked"}
    /\ run' = NoRun
    /\ baseline' = IF run.step = "ready"
                   THEN [baseline EXCEPT !.exists = TRUE,
                           !.at = IF baseline.quantity = 0 THEN Now ELSE @]
                   ELSE baseline
    /\ session' = IF run.step = "ready" THEN "ready" ELSE "degraded"
    /\ killed' = (killed \/ (run.step = "blocked" /\ run.trigger = "PERIODIC"))
    /\ adoption' = IF run.trigger = "ADOPTION" THEN NoAdoption ELSE adoption
    /\ UNCHANGED <<trades, commissioned, callbackVars, execRow, statement, counts>>

-----------------------------------------------------------------------------
(* The operator.                                                           *)

OperatorUnchanged ==
    UNCHANGED <<trades, commissioned, callbackVars, execRow, run, session>>

AdoptReads ==
    /\ adoption.step = "idle"
    /\ run.trigger # "PERIODIC"
    /\ counts.adoptions < MaxAdoptions
    /\ adoption' = [step |-> "read", positions |-> Now]
    /\ counts' = [counts EXCEPT !.adoptions = @ + 1]
    /\ UNCHANGED <<baseline, statement, killed>>
    /\ OperatorUnchanged

AdoptPositions ==
    /\ adoption.step = "read"
    /\ adoption' = [NoAdoption EXCEPT !.step = "adopted"]
    /\ baseline' = Replaced(adoption.positions)
    /\ UNCHANGED <<statement, killed, counts>>
    /\ OperatorUnchanged

\* IBKRFlexStatementProvider.fetch: SendRequest, then polls while the code is transient.
\* The statement of a day is fetched after its last trade.
FetchStatement ==
    /\ statement.step = "idle"
    /\ Executed = Execs
    /\ counts.statements < MaxStatements
    /\ counts' = [counts EXCEPT !.statements = @ + 1]
    /\ statement' = [NoStatement EXCEPT !.step = "polling"]
    /\ UNCHANGED <<baseline, adoption, killed>>
    /\ OperatorUnchanged

\* A transient code, until the attempts are used up; another code or a document that lacks
\* a section ends the reconciliation with an exception.
PollStatement ==
    /\ statement.step = "polling"
    /\ \/ /\ statement.polls + 1 < MaxPolls
          /\ statement' = [statement EXCEPT !.polls = @ + 1]
       \/ statement' = NoStatement
    /\ UNCHANGED <<baseline, adoption, killed, counts>>
    /\ OperatorUnchanged

StatementReady ==
    /\ statement.step = "polling"
    /\ statement' = [NoStatement EXCEPT !.step = "fetched", !.trades = Executed,
                       !.positions = Now]
    /\ UNCHANGED <<baseline, adoption, killed, counts>>
    /\ OperatorUnchanged

\* EndOfDayReconciliationSDK.reconcile for the whole day.  A commission is compared only
\* where both sides have one.
Differs ==
    \/ {e \in Execs : execRow[e].known} # statement.trades
    \/ baseline.quantity # statement.positions

ReconcileStatement ==
    /\ statement.step = "fetched"
    /\ statement' = NoStatement
    /\ killed' = (killed \/ Differs)
    /\ UNCHANGED <<baseline, adoption, counts>>
    /\ OperatorUnchanged

\* A crash loses callbacks, the adapter's memory, and whatever was about to be written.
Crash ==
    /\ counts.crashes < MaxCrashes
    /\ counts' = [counts EXCEPT !.crashes = @ + 1]
    /\ inbox' = <<>>
    /\ reported' = {}
    /\ unapplied' = <<>>
    /\ run' = NoRun
    /\ session' = "degraded"
    /\ adoption' = NoAdoption
    /\ statement' = NoStatement
    /\ UNCHANGED <<trades, commissioned, journal, execRow, baseline, killed>>

-----------------------------------------------------------------------------
BrokerNext == \E e \in Execs : BrokerTrades(e) \/ BrokerCommissions(e)
ReaderNext == RecordEvent \/ ApplyEvent
RunNext ==
    \/ \E trigger \in {"PERIODIC", "RECONNECT", "ADOPTION"} : RequestExecutions(trigger)
    \/ ExecutionsEnd \/ ReadPositions \/ DateSnapshot
    \/ \E e \in Execs : StoreReads(e)
    \/ StoreWrites \/ JudgePositions \/ RecordReconciliation
OperatorNext ==
    \/ AdoptReads \/ AdoptPositions
    \/ FetchStatement \/ PollStatement \/ StatementReady \/ ReconcileStatement

BooksNext == BrokerNext \/ ReaderNext \/ RunNext \/ OperatorNext \/ Crash

BooksSpec == BooksInit /\ [][BooksNext]_booksVars

\* The reader, the supervisor and an adoption that has begun go on.
FairBooksSpec ==
    /\ BooksSpec
    /\ WF_booksVars(ReaderNext)
    /\ WF_booksVars(RunNext)
    /\ WF_booksVars(AdoptPositions)

-----------------------------------------------------------------------------
(* Properties.                                                             *)

\* As long as only own orders trade and nothing was adopted, every trade inside positions
\* that a READY reconciliation stored is a stored execution.
ReadyBooksAreComplete ==
    counts.adoptions = 0 /\ Executed \subseteq Own =>
        \A i \in 1..baseline.quantity : execRow[trades[i]].known

\* An execution of an own order is in the end stored, and its commission with it, although a
\* crash may fall between an entry in the journal, which makes every repetition a duplicate,
\* and its application, and in whatever order the two are journaled, applied and repeated.
ExecutionsAreStored ==
    \A e \in Own :
        /\ e \in Executed ~> execRow[e].known \/ killed
        /\ e \in commissioned ~> execRow[e].commission \/ killed

\* A foreign trade, of which no callback comes, in the end kills the account or degrades
\* the session, although the event that kills may be lost to a crash.
ForeignTradesSurface ==
    \A f \in Foreign : f \in Executed ~> killed \/ session = "degraded"

\* tests/test_execution_lifecycle.py:683, an audit "applies managed fills to expected
\* positions": trades of own orders alone give no cause to kill the account.
OwnTradesNeverKill == Executed \subseteq Own /\ counts.adoptions = 0 => ~killed
=============================================================================
