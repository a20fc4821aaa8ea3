------------------------- MODULE BrokerBooks_proofs -------------------------
(***************************************************************************)
(* Proofs about the books of the account, for every set of executions and  *)
(* every bound: positions that a READY reconciliation stored consist of    *)
(* stored executions.                                                      *)
(*                                                                         *)
(* A run judges positions by counting stored executions, while the reader  *)
(* thread stores executions at the same time and trades go on.  A trade    *)
(* that is missing from the positions could be made up for by a later one. *)
(* It cannot, because the reader comes to the executions in the order they *)
(* were made (InOrder), and those before the run's question are stored by  *)
(* the run (Asked).                                                        *)
(***************************************************************************)
EXTENDS BrokerBooks, FiniteSetTheorems, SequenceTheorems, TLAPS

Kinds == {"EXECUTION", "COMMISSION"}
Callbacks == [kind : Kinds, exec : Execs]
Reading == {"executions", "positions", "dated", "storing", "writing"}
Runs ==
    [step : {"idle", "ready", "blocked"} \cup Reading,
     trigger : {"none", "PERIODIC", "RECONNECT", "ADOPTION"},
     rows : SUBSET Execs, reports : SUBSET Execs, exec : Execs \cup {NoExec},
     commission : BOOLEAN, positions : Nat, at : Nat, unmanaged : BOOLEAN]

BooksTypes ==
    /\ trades \in Seq(Execs)
    /\ \A i, j \in 1..Len(trades) : trades[i] = trades[j] => i = j
    /\ inbox \in Seq(Callbacks)
    /\ unapplied \in Seq(Callbacks)
    /\ unapplied = <<>> \/ Len(unapplied) = 1
    /\ reported \in SUBSET Execs
    /\ journal \in Seq([kind : Kinds, exec : Execs, linked : BOOLEAN])
    /\ execRow \in [Execs -> [known : BOOLEAN, commission : BOOLEAN]]
    /\ run \in Runs
    /\ baseline \in [exists : BOOLEAN, quantity : Nat, at : Nat]
    /\ adoption \in [step : {"idle", "read", "adopted"}, positions : Nat]
    /\ counts \in [crashes : Nat, adoptions : Nat, statements : Nat]
    /\ counts.adoptions = 0 => adoption.step = "idle"

\* Only own orders have traded, and no operator has adopted positions.
Clean == counts.adoptions = 0 /\ Executed \subseteq Own

KnownTrade(i) == execRow[trades[i]].known

\* What the reader has still to handle.
Queue == unapplied \o inbox
IsExecution(m, i) == m.kind = "EXECUTION" /\ m.exec = trades[i]

\* The trades after the n-th become known one after the other, as the reader comes to them.
InOrder(n) ==
    /\ \A i, j \in n + 1..Len(trades) : i < j /\ KnownTrade(j) => KnownTrade(i)
    /\ \A i \in n + 1..Len(trades) :
          ~KnownTrade(i) => \E b \in 1..Len(Queue) : IsExecution(Queue[b], i)
    /\ \A i, j \in n + 1..Len(trades) : \A b \in 1..Len(Queue) :
          i < j /\ IsExecution(Queue[b], j) /\ ~KnownTrade(i)
             => \E a \in 1..(b - 1) : IsExecution(Queue[a], i)
    /\ \A i \in n + 1..Len(trades) :
          Journaled("EXECUTION", trades[i])
             => KnownTrade(i) \/ (unapplied # <<>> /\ IsExecution(unapplied[1], i))

\* The run has asked for the first n trades, and stores those it does not know.
Asked(n) ==
    /\ baseline.at <= n
    /\ \A i \in 1..n :
          \/ KnownTrade(i)
          \/ trades[i] \in run.rows
          \/ run.step = "writing" /\ trades[i] = run.exec
    /\ run.rows \subseteq {trades[i] : i \in 1..n}
    /\ run.step = "writing" => run.exec \in {trades[i] : i \in 1..n}

RunInv ==
    Clean /\ run.step \in Reading => \E n \in 0..Len(trades) : Asked(n) /\ InOrder(n)

SnapshotInv ==
    /\ run.step = "dated" => run.positions <= Len(trades)
    /\ run.step \in {"storing", "writing"} =>
          run.positions <= run.at /\ run.at <= Len(trades)

BaselineInv ==
    Clean =>
        /\ baseline.quantity <= baseline.at /\ baseline.at <= Len(trades)
        /\ \A i \in 1..baseline.quantity : KnownTrade(i)

\* Nothing is known, journaled, under way or asked for but trades that were made.
MadeInv ==
    /\ \A e \in Execs : execRow[e].known => e \in Executed
    /\ \A e \in Execs : Journaled("EXECUTION", e) => e \in Executed
    /\ \A b \in 1..Len(Queue) : Queue[b].exec \in Executed
    /\ run.rows \subseteq Executed
    /\ run.step = "writing" => run.exec \in Executed

BooksInv == BooksTypes /\ MadeInv /\ RunInv /\ SnapshotInv /\ BaselineInv

-----------------------------------------------------------------------------

\* What the reader has to handle is the event it has committed, then the inbox.
LEMMA QueueParts ==
    ASSUME BooksTypes
    PROVE  /\ Len(trades) \in Nat /\ Len(inbox) \in Nat /\ Len(unapplied) \in 0..1
           /\ Queue \in Seq(Callbacks) /\ Len(Queue) \in Nat
           /\ Len(Queue) = Len(unapplied) + Len(inbox)
           /\ \A i \in 1..Len(Queue) : Queue[i] =
                 IF i <= Len(unapplied) THEN unapplied[i] ELSE inbox[i - Len(unapplied)]
<1>1. Len(trades) \in Nat /\ Len(inbox) \in Nat /\ Len(unapplied) \in Nat
  BY LenProperties DEF BooksTypes
<1>2. Len(unapplied) \in 0..1
  BY EmptySeq DEF BooksTypes
<1>3. /\ Queue \in Seq(Callbacks) /\ Len(Queue) = Len(unapplied) + Len(inbox)
      /\ \A i \in 1..Len(unapplied) + Len(inbox) : Queue[i] =
            IF i <= Len(unapplied) THEN unapplied[i] ELSE inbox[i - Len(unapplied)]
  BY ConcatProperties DEF BooksTypes, Queue
<1> QED BY <1>1, <1>2, <1>3

\* Steps after which no trade past the n-th is known or waits that was not before.
LEMMA OrderStands ==
    ASSUME BooksTypes, NEW n \in Nat, InOrder(n), UNCHANGED <<trades, inbox, unapplied, journal>>,
           \A i \in n + 1..Len(trades) : KnownTrade(i)' <=> KnownTrade(i)
    PROVE  InOrder(n)'
<1>1. UNCHANGED Queue
  BY DEF Queue
<1> QED BY <1>1 DEF InOrder, IsExecution, Journaled

\* A callback comes last.
LEMMA QueueGrows ==
    ASSUME BooksTypes, NEW m \in Callbacks, UNCHANGED unapplied, inbox' = Append(inbox, m)
    PROVE  /\ inbox' \in Seq(Callbacks)
           /\ Len(Queue') = Len(Queue) + 1
           /\ \A b \in 1..Len(Queue) : Queue'[b] = Queue[b]
           /\ Queue'[Len(Queue) + 1] = m
<1>1. inbox \in Seq(Callbacks) /\ unapplied \in Seq(Callbacks)
  BY DEF BooksTypes
<1>2. PICK k \in Nat : k = Len(inbox)
  BY <1>1, LenProperties
<1>3. PICK u \in Nat : u = Len(unapplied)
  BY <1>1, LenProperties
<1>4. /\ inbox' \in Seq(Callbacks) /\ Len(inbox') = k + 1
      /\ \A b \in 1..k : inbox'[b] = inbox[b]
      /\ inbox'[k + 1] = m
  BY <1>1, <1>2, AppendProperties
<1>5. /\ Len(Queue) = u + k
      /\ \A b \in 1..u + k : Queue[b] = IF b <= u THEN unapplied[b] ELSE inbox[b - u]
  BY <1>1, <1>2, <1>3, ConcatProperties DEF Queue
<1>6. PICK q : q = unapplied \o inbox'
  OBVIOUS
<1>7. /\ Len(q) = u + (k + 1)
      /\ \A b \in 1..u + (k + 1) : q[b] = IF b <= u THEN unapplied[b] ELSE inbox'[b - u]
  BY <1>1, <1>2, <1>3, <1>4, <1>6, ConcatProperties
<1>8. Queue' = q
  BY <1>6 DEF Queue
<1>9. ASSUME NEW b \in 1..u + k
      PROVE  q[b] = Queue[b]
  <2>1. b \in 1..u + (k + 1)
    BY <1>9
  <2>2. CASE b <= u
    BY <1>5, <1>7, <2>1, <2>2
  <2>3. CASE ~(b <= u)
    <3>1. b - u \in 1..k
      BY <2>3
    <3> QED BY <1>4, <1>5, <1>7, <2>1, <2>3, <3>1
  <2> QED BY <2>2, <2>3
<1>10. q[u + k + 1] = m
  <2>1. u + k + 1 \in 1..u + (k + 1) /\ ~(u + k + 1 <= u) /\ u + k + 1 - u = k + 1
    OBVIOUS
  <2> QED BY <1>4, <1>7, <2>1
<1> QED BY <1>4, <1>5, <1>7, <1>8, <1>9, <1>10

\* A commission disturbs no order of executions.
LEMMA CommissionWaits ==
    ASSUME BooksTypes, NEW n \in Nat, InOrder(n),
           UNCHANGED <<trades, unapplied, journal, execRow>>,
           NEW m \in Callbacks, m.kind = "COMMISSION", inbox' = Append(inbox, m)
    PROVE  InOrder(n)'
<1>1. PICK k \in Nat : k = Len(Queue)
  BY QueueParts
<1>2. /\ Len(Queue') = k + 1 /\ Queue'[k + 1] = m
      /\ \A b \in 1..k : Queue'[b] = Queue[b]
  BY <1>1, QueueGrows
<1>3. ASSUME NEW i, NEW b \in 1..k + 1
      PROVE  IsExecution(Queue[b], i)' <=> b \in 1..k /\ IsExecution(Queue[b], i)
  <2>1. CASE b \in 1..k
    BY <1>2, <2>1 DEF IsExecution
  <2>2. CASE b = k + 1
    BY <1>2, <2>2 DEF IsExecution
  <2> QED BY <2>1, <2>2
<1>4. \A i : KnownTrade(i)' <=> KnownTrade(i)
  BY DEF KnownTrade
<1>5. \A i \in n + 1..Len(trades) :
         ~KnownTrade(i) => \E b \in 1..k + 1 : IsExecution(Queue[b], i)'
  <2> SUFFICES ASSUME NEW i \in n + 1..Len(trades), ~KnownTrade(i)
               PROVE  \E b \in 1..k + 1 : IsExecution(Queue[b], i)'
    OBVIOUS
  <2>1. PICK b \in 1..k : IsExecution(Queue[b], i)
    BY <1>1 DEF InOrder
  <2>2. b \in 1..k + 1
    OBVIOUS
  <2> QED BY <1>3, <2>1, <2>2
<1>6. ASSUME NEW i \in n + 1..Len(trades), NEW j \in n + 1..Len(trades), NEW b \in 1..k + 1,
             i < j, IsExecution(Queue[b], j)', ~KnownTrade(i)
      PROVE  \E a \in 1..(b - 1) : IsExecution(Queue[a], i)'
  <2>1. b \in 1..k /\ IsExecution(Queue[b], j)
    BY <1>3, <1>6
  <2>2. PICK a \in 1..(b - 1) : IsExecution(Queue[a], i)
    BY <1>1, <1>6, <2>1 DEF InOrder
  <2>3. a \in 1..k /\ a \in 1..k + 1
    BY <2>1
  <2> QED BY <1>3, <2>2, <2>3
<1>7. \A i \in n + 1..Len(trades) :
         Journaled("EXECUTION", trades[i])
            => KnownTrade(i) \/ (unapplied # <<>> /\ IsExecution(unapplied[1], i))
  BY DEF InOrder
<1> QED BY <1>2, <1>4, <1>5, <1>6, <1>7 DEF InOrder, Journaled, IsExecution

\* The trades that were made, and one more.
LEMMA TradesGrow ==
    ASSUME BooksTypes, NEW e \in Execs, trades' = Append(trades, e)
    PROVE  /\ trades' \in Seq(Execs)
           /\ Len(trades') = Len(trades) + 1 /\ Len(trades) \in Nat
           /\ \A i \in 1..Len(trades) : trades'[i] = trades[i]
           /\ trades'[Len(trades) + 1] = e
           /\ Executed = {trades[i] : i \in 1..Len(trades)}
           /\ Executed' = Executed \cup {e}
<1>1. trades \in Seq(Execs)
  BY DEF BooksTypes
<1>2. PICK n \in Nat : n = Len(trades)
  BY <1>1, LenProperties
<1>3. /\ trades' \in Seq(Execs) /\ Len(trades') = n + 1
      /\ \A i \in 1..n : trades'[i] = trades[i]
      /\ trades'[n + 1] = e
  BY <1>1, <1>2, AppendProperties
<1>4. DOMAIN trades = 1..n /\ DOMAIN trades' = 1..n + 1
  BY <1>1, <1>2, <1>3, LenProperties
<1>5. Executed = {trades[i] : i \in 1..n} /\ Executed' = {trades'[i] : i \in 1..n + 1}
  BY <1>4 DEF Executed, Range
<1>6. Executed' = Executed \cup {e}
  <2>1. ASSUME NEW i \in 1..n + 1
        PROVE  trades'[i] \in Executed \cup {e}
    <3>1. CASE i \in 1..n
      BY <1>3, <1>5, <3>1
    <3>2. CASE i = n + 1
      BY <1>3, <3>2
    <3>3. i \in 1..n \/ i = n + 1
      OBVIOUS
    <3> QED BY <3>1, <3>2, <3>3
  <2>2. ASSUME NEW i \in 1..n
        PROVE  trades[i] \in Executed'
    <3>1. i \in 1..n + 1
      OBVIOUS
    <3> QED BY <1>3, <1>5, <3>1
  <2>3. e \in Executed'
    <3>1. n + 1 \in 1..n + 1
      OBVIOUS
    <3> QED BY <1>3, <1>5, <3>1
  <2> QED BY <1>5, <2>1, <2>2, <2>3
<1> QED BY <1>2, <1>3, <1>5, <1>6

\* A new trade waits behind all others.
LEMMA ExecutionWaits ==
    ASSUME BooksTypes, MadeInv, NEW n \in 0..Len(trades), InOrder(n),
           UNCHANGED <<unapplied, journal, execRow>>,
           NEW e \in Execs, e \notin Executed, trades' = Append(trades, e),
           NEW m \in Callbacks, m = Call("EXECUTION", e), inbox' = Append(inbox, m)
    PROVE  InOrder(n)'
<1>1. PICK k \in Nat : k = Len(Queue)
  BY QueueParts
<1>2. PICK t \in Nat : t = Len(trades)
  BY TradesGrow
<1>3. /\ Len(Queue') = k + 1 /\ Queue'[k + 1] = m
      /\ \A b \in 1..k : Queue'[b] = Queue[b]
  BY <1>1, QueueGrows
<1>4. /\ Len(trades') = t + 1 /\ trades'[t + 1] = e
      /\ \A i \in 1..t : trades'[i] = trades[i] /\ trades[i] \in Executed /\ trades[i] # e
  BY <1>2, TradesGrow
<1>5. m.kind = "EXECUTION" /\ m.exec = e
  BY DEF Call
<1>6. ASSUME NEW i \in 1..t, NEW b \in 1..k + 1
      PROVE  IsExecution(Queue[b], i)' <=> b \in 1..k /\ IsExecution(Queue[b], i)
  <2>1. CASE b \in 1..k
    BY <1>3, <1>4, <2>1 DEF IsExecution
  <2>2. CASE b = k + 1
    BY <1>3, <1>4, <1>5, <2>2 DEF IsExecution
  <2> QED BY <2>1, <2>2
<1>7. ASSUME NEW b \in 1..k + 1
      PROVE  IsExecution(Queue[b], t + 1)' <=> b = k + 1
  <2>1. CASE b \in 1..k
    <3>1. Queue[b].exec # e
      BY <1>1, <2>1 DEF MadeInv
    <3> QED BY <1>3, <1>4, <2>1, <3>1 DEF IsExecution
  <2>2. CASE b = k + 1
    BY <1>3, <1>4, <1>5, <2>2 DEF IsExecution
  <2> QED BY <2>1, <2>2
<1>8. /\ \A i \in 1..t : KnownTrade(i)' <=> KnownTrade(i)
      /\ ~KnownTrade(t + 1)' /\ ~Journaled("EXECUTION", e)
  BY <1>4 DEF KnownTrade, MadeInv
<1>9. ASSUME NEW i \in n + 1..t + 1
      PROVE  (i \in 1..t /\ i \in n + 1..t) \/ i = t + 1
  BY <1>2
<1>10. ASSUME NEW i \in n + 1..t + 1, NEW j \in n + 1..t + 1, i < j, KnownTrade(j)'
       PROVE  KnownTrade(i)'
  <2>1. j # t + 1
    BY <1>8, <1>10
  <2>2. j \in 1..t /\ j \in n + 1..t /\ i \in 1..t /\ i \in n + 1..t
    BY <1>2, <1>10, <2>1
  <2> QED BY <1>2, <1>8, <1>10, <2>2 DEF InOrder
<1>11. ASSUME NEW i \in n + 1..t + 1, ~KnownTrade(i)'
       PROVE  \E b \in 1..k + 1 : IsExecution(Queue[b], i)'
  <2>1. CASE i = t + 1
    <3>1. k + 1 \in 1..k + 1
      OBVIOUS
    <3> QED BY <1>7, <2>1, <3>1
  <2>2. CASE i \in 1..t /\ i \in n + 1..t
    <3>1. ~KnownTrade(i)
      BY <1>8, <1>11, <2>2
    <3>2. PICK b \in 1..k : IsExecution(Queue[b], i)
      BY <1>1, <1>2, <2>2, <3>1 DEF InOrder
    <3>3. b \in 1..k + 1
      OBVIOUS
    <3> QED BY <1>6, <2>2, <3>2, <3>3
  <2> QED BY <1>9, <2>1, <2>2
<1>12. ASSUME NEW i \in n + 1..t + 1, NEW j \in n + 1..t + 1, NEW b \in 1..k + 1,
              i < j, IsExecution(Queue[b], j)', ~KnownTrade(i)'
       PROVE  \E a \in 1..(b - 1) : IsExecution(Queue[a], i)'
  <2>1. i \in 1..t /\ i \in n + 1..t
    BY <1>2, <1>12
  <2>2. ~KnownTrade(i)
    BY <1>8, <1>12, <2>1
  <2>3. PICK a \in 1..k : IsExecution(Queue[a], i) /\ a <= b - 1
    <3>1. CASE j = t + 1
      <4>1. PICK a \in 1..k : IsExecution(Queue[a], i)
        BY <1>1, <1>2, <2>1, <2>2 DEF InOrder
      <4>2. b = k + 1
        BY <1>7, <1>12, <3>1
      <4> QED BY <4>1, <4>2
    <3>2. CASE j \in 1..t /\ j \in n + 1..t
      <4>1. b \in 1..k /\ IsExecution(Queue[b], j)
        BY <1>6, <1>12, <3>2
      <4>2. PICK a \in 1..(b - 1) : IsExecution(Queue[a], i)
        BY <1>1, <1>2, <1>12, <2>1, <2>2, <3>2, <4>1 DEF InOrder
      <4>3. a \in 1..k /\ a <= b - 1
        BY <4>1
      <4> QED BY <4>2, <4>3
    <3> QED BY <1>9, <3>1, <3>2
  <2>4. a \in 1..k + 1 /\ a \in 1..(b - 1)
    BY <2>3
  <2> QED BY <1>6, <2>1, <2>3, <2>4
<1>13. ASSUME NEW i \in n + 1..t + 1, Journaled("EXECUTION", trades[i])'
       PROVE  KnownTrade(i)' \/ (unapplied' # <<>> /\ IsExecution(unapplied[1], i)')
  <2>1. i # t + 1
    <3>1. Journaled("EXECUTION", e)' <=> Journaled("EXECUTION", e)
      BY DEF Journaled
    <3> QED BY <1>4, <1>8, <1>13, <3>1 DEF Journaled
  <2>2. i \in 1..t /\ i \in n + 1..t
    BY <1>9, <2>1
  <2>3. Journaled("EXECUTION", trades[i])
    BY <1>4, <1>13, <2>2 DEF Journaled
  <2>4. KnownTrade(i) \/ (unapplied # <<>> /\ IsExecution(unapplied[1], i))
    BY <1>2, <2>2, <2>3 DEF InOrder
  <2> QED BY <1>4, <1>8, <2>2, <2>4 DEF IsExecution
<1> QED BY <1>3, <1>4, <1>10, <1>11, <1>12, <1>13 DEF InOrder

\* The reader has handled what came first, and a trade is known where that was its execution.
LEMMA OrderServed ==
    ASSUME BooksTypes, NEW n \in Nat, InOrder(n), UNCHANGED <<trades, journal>>,
           Len(Queue') + 1 = Len(Queue), Len(Queue') \in Nat,
           \A b \in 1..Len(Queue') : Queue'[b] = Queue[b + 1],
           unapplied # <<>> => unapplied[1] = Queue[1],
           \A i \in n + 1..Len(trades) :
              KnownTrade(i)' <=> KnownTrade(i) \/ IsExecution(Queue[1], i)
    PROVE  InOrder(n)'
<1>1. PICK k \in Nat : k = Len(Queue')
  OBVIOUS
<1>2. PICK t \in Nat : t = Len(trades)
  BY QueueParts
<1>3. /\ Len(Queue) = k + 1
      /\ \A b \in 1..k : Queue'[b] = Queue[b + 1]
  BY <1>1
<1>4. \A i : \A b \in 1..k : IsExecution(Queue[b], i)' <=> IsExecution(Queue[b + 1], i)
  BY <1>3 DEF IsExecution
<1>5. ASSUME NEW i \in n + 1..t, NEW j \in n + 1..t, i < j, IsExecution(Queue[1], j)
      PROVE  KnownTrade(i)
  <2> SUFFICES ASSUME ~KnownTrade(i)
               PROVE  FALSE
    OBVIOUS
  <2>1. 1 \in 1..Len(Queue)
    BY <1>3
  <2>2. \E a \in 1..(1 - 1) : IsExecution(Queue[a], i)
    BY <1>2, <1>5, <2>1 DEF InOrder
  <2> QED BY <2>2
<1>6. ASSUME NEW i \in n + 1..t, NEW j \in n + 1..t, i < j, KnownTrade(j)'
      PROVE  KnownTrade(i)'
  <2>1. KnownTrade(i)
    <3>1. CASE KnownTrade(j)
      BY <1>2, <1>6, <3>1 DEF InOrder
    <3>2. CASE IsExecution(Queue[1], j)
      BY <1>5, <1>6, <3>2
    <3> QED BY <1>2, <1>6, <3>1, <3>2
  <2> QED BY <1>2, <2>1
<1>7. ASSUME NEW i \in n + 1..t, ~KnownTrade(i)'
      PROVE  \E b \in 1..k : IsExecution(Queue[b], i)'
  <2>1. ~KnownTrade(i) /\ ~IsExecution(Queue[1], i)
    BY <1>2, <1>7
  <2>2. PICK c \in 1..k + 1 : IsExecution(Queue[c], i)
    BY <1>2, <1>3, <2>1 DEF InOrder
  <2>3. PICK b \in 1..k : c = b + 1
    <3>1. c # 1
      BY <2>1, <2>2
    <3>2. c - 1 \in 1..k /\ c = (c - 1) + 1
      BY <3>1
    <3> QED BY <3>2
  <2> QED BY <1>4, <2>2, <2>3
<1>8. ASSUME NEW i \in n + 1..t, NEW j \in n + 1..t, NEW b \in 1..k,
             i < j, IsExecution(Queue[b], j)', ~KnownTrade(i)'
      PROVE  \E a \in 1..(b - 1) : IsExecution(Queue[a], i)'
  <2>1. ~KnownTrade(i) /\ ~IsExecution(Queue[1], i)
    BY <1>2, <1>8
  <2>2. PICK d \in 1..Len(Queue) : d = b + 1
    BY <1>3
  <2>3. IsExecution(Queue[d], j)
    BY <1>4, <1>8, <2>2
  <2>4. PICK c \in 1..(d - 1) : IsExecution(Queue[c], i)
    BY <1>2, <1>8, <2>1, <2>3 DEF InOrder
  <2>5. PICK a \in 1..(b - 1) : c = a + 1
    <3>1. c # 1
      BY <2>1, <2>4
    <3>2. c - 1 \in 1..(b - 1) /\ c = (c - 1) + 1
      BY <2>2, <3>1
    <3> QED BY <3>2
  <2>6. a \in 1..k
    OBVIOUS
  <2> QED BY <1>4, <2>4, <2>5, <2>6
<1>9. ASSUME NEW i \in n + 1..t, Journaled("EXECUTION", trades[i])'
      PROVE  KnownTrade(i)'
  <2>1. Journaled("EXECUTION", trades[i])
    BY <1>9 DEF Journaled
  <2>2. KnownTrade(i) \/ (unapplied # <<>> /\ IsExecution(unapplied[1], i))
    BY <1>2, <2>1 DEF InOrder
  <2> QED BY <1>2, <2>2
<1> QED BY <1>1, <1>2, <1>6, <1>7, <1>8, <1>9 DEF InOrder

\* The reader has committed an event that is not in the journal yet, and has to apply it.
LEMMA OrderCommitted ==
    ASSUME BooksTypes, NEW n \in Nat, InOrder(n), UNCHANGED <<trades, execRow>>,
           UNCHANGED Queue, unapplied = <<>>, NEW m \in Callbacks, unapplied' = <<m>>,
           \A e \in Execs : Journaled("EXECUTION", e)' =>
              Journaled("EXECUTION", e) \/ (m.kind = "EXECUTION" /\ m.exec = e)
    PROVE  InOrder(n)'
<1>1. PICK t \in Nat : t = Len(trades)
  BY QueueParts
<1>2. unapplied' # <<>> /\ unapplied'[1] = m
  OBVIOUS
<1>3. ASSUME NEW i \in n + 1..t, Journaled("EXECUTION", trades[i])'
      PROVE  KnownTrade(i)' \/ (unapplied' # <<>> /\ IsExecution(unapplied[1], i)')
  <2>1. PICK e \in Execs : e = trades[i]
    <3>1. i \in 1..Len(trades)
      BY <1>1
    <3> QED BY <3>1, ElementOfSeq DEF BooksTypes
  <2>2. CASE Journaled("EXECUTION", e)
    BY <1>1, <2>1, <2>2 DEF InOrder, KnownTrade
  <2>3. CASE m.kind = "EXECUTION" /\ m.exec = e
    BY <1>2, <2>1, <2>3 DEF IsExecution
  <2>4. Journaled("EXECUTION", e)'
    BY <1>3, <2>1
  <2> QED BY <2>2, <2>3, <2>4
<1> QED BY <1>1, <1>3 DEF InOrder, KnownTrade, IsExecution

-----------------------------------------------------------------------------
(* What a run finds explained is stored.                                   *)

\* Positions that stored executions explain hold no trade that is not stored: one that is
\* missing came after the run had asked, no later one is known yet, and the executions
\* counted are too few to reach it.
LEMMA PositionsExplained ==
    ASSUME BooksInv, Clean, run.step = "storing", run.rows = {},
           ~PositionIssue(run.positions, run.at)
    PROVE  /\ run.positions \in Nat /\ run.positions <= Len(trades)
           /\ \A i \in 1..run.positions : KnownTrade(i)
<1>1. PICK t \in Nat : t = Len(trades)
  BY QueueParts DEF BooksInv
<1>2. PICK p \in Nat : p = run.positions
  BY DEF BooksInv, BooksTypes, Runs
<1>3. PICK at \in Nat : at = run.at
  BY DEF BooksInv, BooksTypes, Runs
<1>4. PICK q \in Nat : q = baseline.quantity
  BY DEF BooksInv, BooksTypes
<1>5. PICK from \in Nat : from = baseline.at
  BY DEF BooksInv, BooksTypes
<1>6. p <= at /\ at <= t /\ q <= from
  BY <1>1, <1>2, <1>3, <1>4, <1>5 DEF BooksInv, SnapshotInv, BaselineInv
<1>7. PICK n \in 0..t : Asked(n) /\ InOrder(n)
  BY <1>1 DEF BooksInv, RunInv, Reading
<1>8. from <= n /\ \A i \in 1..n : KnownTrade(i)
  BY <1>5, <1>7 DEF Asked
<1>9. CASE ~baseline.exists
  <2>1. ~(p > 0)
    BY <1>2, <1>9 DEF PositionIssue
  <2>2. p = 0
    BY <2>1
  <2> QED BY <1>1, <1>2, <2>2
<1>10. CASE baseline.exists
  <2>1. PICK managed : managed = ManagedExecutions(from, at)
    OBVIOUS
  <2>2. q + Cardinality(managed) = p
    BY <1>2, <1>3, <1>4, <1>5, <1>10, <2>1 DEF PositionIssue
  <2> SUFFICES ASSUME NEW u \in 1..p, ~KnownTrade(u)
               PROVE  FALSE
    BY <1>1, <1>2, <1>6
  <2>3. u \in n + 1..t
    <3>1. u \notin 1..n
      BY <1>8
    <3> QED BY <1>6, <3>1
  <2>4. ASSUME NEW i \in managed
        PROVE  i \in from + 1..u - 1
    <3>1. i \in 1..t /\ from < i /\ KnownTrade(i)
      BY <1>1, <2>1 DEF ManagedExecutions, Now, KnownTrade
    <3>2. CASE i <= n
      BY <2>3, <3>1, <3>2
    <3>3. CASE ~(i <= n)
      <4>1. i \in n + 1..t
        BY <3>1, <3>3
      <4>2. ~(u < i)
        BY <1>1, <1>7, <2>3, <3>1, <4>1 DEF InOrder
      <4>3. i # u
        BY <3>1
      <4> QED BY <2>3, <3>1, <4>1, <4>2, <4>3
    <3> QED BY <3>2, <3>3
  <2>5. PICK between : between = from + 1..u - 1
    OBVIOUS
  <2>6. managed \in SUBSET between
    BY <2>4, <2>5
  <2>7. from + 1 \in Int /\ u - 1 \in Int
    OBVIOUS
  <2>8. /\ IsFiniteSet(between)
        /\ Cardinality(between) = IF from + 1 > u - 1 THEN 0 ELSE (u - 1) - (from + 1) + 1
    BY <2>5, <2>7, FS_Interval
  <2>9. IsFiniteSet(managed) /\ Cardinality(managed) <= Cardinality(between)
    BY <2>6, <2>8, FS_Subset
  <2>10. Cardinality(managed) \in Nat
    BY <2>9, FS_CardinalityType
  <2>11. from < u
    BY <1>8, <2>3
  <2>12. Cardinality(managed) <= u - 1 - from
    BY <2>8, <2>9, <2>10, <2>11
  <2> QED BY <1>6, <2>2, <2>10, <2>11, <2>12
<1> QED BY <1>9, <1>10

-----------------------------------------------------------------------------
(* The steps of IBKR and of the reader.                                    *)

\* Where trades, queue and rows stay, what was made was made.
LEMMA MadeStands ==
    ASSUME BooksInv, UNCHANGED <<trades, inbox, unapplied, journal>>,
           \A e \in Execs : execRow'[e].known => execRow[e].known \/ e \in Executed,
           run'.rows \subseteq Executed, run'.step = "writing" => run'.exec \in Executed
    PROVE  MadeInv'
<1>1. UNCHANGED <<Queue, Executed>>
  BY DEF Queue, Executed
<1> QED BY <1>1 DEF BooksInv, MadeInv, Journaled

\* Steps that leave trades, callbacks, rows, run and baseline alone.
LEMMA BooksStand ==
    ASSUME BooksInv, UNCHANGED <<trades, callbackVars, execRow, run, baseline>>, BooksTypes',
           Clean' => Clean
    PROVE  BooksInv'
<1>1. UNCHANGED <<inbox, unapplied, journal, reported>>
  BY DEF callbackVars
<1>2. UNCHANGED <<Queue, Executed>>
  BY <1>1 DEF Queue, Executed
<1>3. MadeInv'
  BY <1>1, MadeStands DEF BooksInv, MadeInv
<1>4. \A n \in Nat : Asked(n)' <=> Asked(n)
  BY DEF Asked, KnownTrade
<1>5. \A n \in Nat : InOrder(n) => InOrder(n)'
  BY <1>1, OrderStands DEF BooksInv, KnownTrade
<1>6. RunInv'
  BY <1>4, <1>5 DEF BooksInv, RunInv
<1> QED BY <1>3, <1>6 DEF BooksInv, SnapshotInv, BaselineInv, KnownTrade

\* A finite set as a sequence.
LEMMA SetAsSequence ==
    ASSUME NEW S, IsFiniteSet(S)
    PROVE  SetToSeq(S) \in Seq(S)
<1>1. Cardinality(S) \in Nat /\ ExistsBijection(1..Cardinality(S), S)
  BY FS_CardinalityType
<1>2. \E f \in [1..Cardinality(S) -> S] : IsInjective(f)
  BY <1>1 DEF ExistsBijection, Bijection, Injection
<1>3. SetToSeq(S) \in [1..Cardinality(S) -> S]
  BY <1>2 DEF SetToSeq
<1> QED BY <1>1, <1>3, SeqDef

\* Finitely many trades have been made.
LEMMA ExecutedFinite ==
    ASSUME BooksTypes
    PROVE  IsFiniteSet(Executed) /\ Executed \subseteq Execs
<1>1. PICK t \in Nat : t = Len(trades)
  BY QueueParts
<1>2. trades \in [1..t -> Execs] /\ DOMAIN trades = 1..t
  BY <1>1, LenProperties DEF BooksTypes
<1>3. Executed = {trades[i] : i \in 1..t}
  BY <1>2 DEF Executed, Range
<1>4. trades \in Surjection(1..t, Executed)
  BY <1>2, <1>3 DEF Surjection
<1>5. IsFiniteSet(1..t)
  BY FS_Interval
<1>6. IsFiniteSet(Executed)
  BY <1>4, <1>5, FS_Surjection
<1> QED BY <1>2, <1>3, <1>6

\* IBKR repeats nothing but trades that were made.
LEMMA ReportsOfTrades ==
    ASSUME BooksTypes
    PROVE  /\ Reports(Executed) \in Seq(Callbacks)
           /\ Len(Reports(Executed)) \in Nat
           /\ \A b \in 1..Len(Reports(Executed)) : Reports(Executed)[b].exec \in Executed
<1> DEFINE Made == [kind : Kinds, exec : Executed]
<1>1. IsFiniteSet(Executed) /\ Executed \subseteq Execs
  BY ExecutedFinite
<1>2. IsFiniteSet(Executed \cap commissioned)
  BY <1>1, FS_Intersection
<1>3. PICK es \in Seq(Executed) : es = SetToSeq(Executed)
  BY <1>1, SetAsSequence
<1>4. PICK cs \in Seq(Executed \cap commissioned) : cs = SetToSeq(Executed \cap commissioned)
  BY <1>2, SetAsSequence
<1>5. Len(es) \in Nat /\ Len(cs) \in Nat
  BY LenProperties
<1>6. [i \in 1..Len(es) |-> Call("EXECUTION", es[i])] \in Seq(Made)
  <2>1. \A i \in 1..Len(es) : Call("EXECUTION", es[i]) \in Made
    <3> SUFFICES ASSUME NEW i \in 1..Len(es)
                 PROVE  Call("EXECUTION", es[i]) \in Made
      OBVIOUS
    <3>1. es[i] \in Executed
      BY ElementOfSeq
    <3> QED BY <3>1 DEF Call, Kinds
  <2> HIDE DEF Made
  <2>2. [i \in 1..Len(es) |-> Call("EXECUTION", es[i])] \in [1..Len(es) -> Made]
    BY <2>1
  <2> QED BY <1>5, <2>2, SeqDef
<1>7. [i \in 1..Len(cs) |-> Call("COMMISSION", cs[i])] \in Seq(Made)
  <2>1. \A i \in 1..Len(cs) : Call("COMMISSION", cs[i]) \in Made
    <3> SUFFICES ASSUME NEW i \in 1..Len(cs)
                 PROVE  Call("COMMISSION", cs[i]) \in Made
      OBVIOUS
    <3>1. cs[i] \in Executed
      BY ElementOfSeq
    <3> QED BY <3>1 DEF Call, Kinds
  <2> HIDE DEF Made
  <2>2. [i \in 1..Len(cs) |-> Call("COMMISSION", cs[i])] \in [1..Len(cs) -> Made]
    BY <2>1
  <2> QED BY <1>5, <2>2, SeqDef
<1>8. Reports(Executed) = [i \in 1..Len(es) |-> Call("EXECUTION", es[i])]
                             \o [i \in 1..Len(cs) |-> Call("COMMISSION", cs[i])]
  BY <1>3, <1>4 DEF Reports
<1> HIDE DEF Made
<1>9. Reports(Executed) \in Seq(Made)
  BY <1>6, <1>7, <1>8, ConcatProperties
<1>10. PICK r \in Seq(Made) : r = Reports(Executed)
  BY <1>9
<1>11. Made \subseteq Callbacks
  BY <1>1 DEF Made, Callbacks
<1>12. Seq(Made) \subseteq Seq(Callbacks)
  BY <1>11, SeqMonotonic
<1>13. \A b \in 1..Len(r) : r[b].exec \in Executed
  <2> SUFFICES ASSUME NEW b \in 1..Len(r)
               PROVE  r[b].exec \in Executed
    OBVIOUS
  <2>1. r[b] \in Made
    BY ElementOfSeq
  <2> QED BY <2>1 DEF Made
<1>14. Len(r) \in Nat
  BY LenProperties
<1> QED BY <1>10, <1>12, <1>13, <1>14

\* A trade that IBKR makes waits behind all others.
LEMMA TradingKeepsInv ==
    ASSUME BooksInv, NEW e \in Execs, BrokerTrades(e)
    PROVE  BooksInv'
<1> USE DEF BrokerTrades
<1>0. BooksTypes /\ MadeInv
  BY DEF BooksInv
<1>1. PICK t \in Nat : t = Len(trades)
  BY <1>0, QueueParts
<1>2. /\ trades' \in Seq(Execs) /\ Len(trades') = t + 1 /\ trades'[t + 1] = e
      /\ \A i \in 1..t : trades'[i] = trades[i] /\ trades[i] \in Executed /\ trades[i] # e
      /\ Executed' = Executed \cup {e}
  BY <1>0, <1>1, TradesGrow
<1>3. PICK m : m = Call("EXECUTION", e)
  OBVIOUS
<1>4. m \in Callbacks /\ m.kind = "EXECUTION" /\ m.exec = e
  BY <1>3 DEF Callbacks, Kinds, Call
<1>5. inbox' = Append(inbox, m) \/ (e \notin Own /\ UNCHANGED inbox)
  BY <1>3
<1>6. /\ inbox' \in Seq(Callbacks)
      /\ \A b \in 1..Len(Queue') : Queue'[b].exec \in Executed'
  <2>1. CASE UNCHANGED inbox
    <3>1. UNCHANGED Queue
      BY <2>1 DEF Queue
    <3> QED BY <1>0, <1>2, <2>1, <3>1 DEF BooksTypes, MadeInv
  <2>2. CASE inbox' = Append(inbox, m)
    <3>1. PICK k \in Nat : k = Len(Queue)
      BY <1>0, QueueParts
    <3>2. /\ inbox' \in Seq(Callbacks) /\ Len(Queue') = k + 1 /\ Queue'[k + 1] = m
          /\ \A b \in 1..k : Queue'[b] = Queue[b]
      BY <1>0, <1>4, <2>2, <3>1, QueueGrows
    <3>3. \A b \in 1..k : Queue'[b].exec \in Executed'
      BY <1>0, <1>2, <3>1, <3>2 DEF MadeInv
    <3>4. \A b \in 1..k + 1 : b \in 1..k \/ b = k + 1
      OBVIOUS
    <3> QED BY <1>2, <1>4, <3>2, <3>3, <3>4
  <2> QED BY <1>5, <2>1, <2>2
<1>7. \A i, j \in 1..t + 1 : trades'[i] = trades'[j] => i = j
  <2>1. \A i \in 1..t + 1 : i \in 1..t \/ i = t + 1
    OBVIOUS
  <2>2. \A i, j \in 1..t : trades[i] = trades[j] => i = j
    BY <1>0, <1>1 DEF BooksTypes
  <2> QED BY <1>2, <2>1, <2>2
<1>8. BooksTypes'
  BY <1>0, <1>2, <1>6, <1>7 DEF BooksTypes
<1>9. MadeInv'
  BY <1>0, <1>2, <1>6 DEF MadeInv, Journaled
<1>10. Clean' => Clean /\ e \in Own
  BY <1>2 DEF Clean
<1>11. \A i \in 1..t : KnownTrade(i)' <=> KnownTrade(i)
  BY <1>2 DEF KnownTrade
<1>12. RunInv'
  <2> SUFFICES ASSUME Clean', run.step \in Reading
               PROVE  \E n \in 0..t + 1 : Asked(n)' /\ InOrder(n)'
    BY <1>2 DEF RunInv
  <2>1. PICK n \in 0..t : Asked(n) /\ InOrder(n)
    BY <1>1, <1>10 DEF BooksInv, RunInv
  <2>2. inbox' = Append(inbox, m)
    BY <1>5, <1>10
  <2>3. InOrder(n)'
    BY <1>0, <1>1, <1>3, <1>4, <2>1, <2>2, ExecutionWaits
  <2>4. \A i \in 1..n : i \in 1..t
    OBVIOUS
  <2>5. {trades'[i] : i \in 1..n} = {trades[i] : i \in 1..n}
    BY <1>2, <2>4
  <2>6. Asked(n)'
    BY <1>2, <1>11, <2>1, <2>4, <2>5 DEF Asked
  <2> QED BY <2>3, <2>6
<1>13. SnapshotInv'
  <2>1. run.positions \in Nat /\ run.at \in Nat
    BY <1>0 DEF BooksTypes, Runs
  <2> QED BY <1>1, <1>2, <2>1 DEF BooksInv, SnapshotInv
<1>14. BaselineInv'
  <2> SUFFICES ASSUME Clean'
               PROVE  /\ baseline.quantity <= baseline.at /\ baseline.at <= t + 1
                      /\ \A i \in 1..baseline.quantity : KnownTrade(i)'
    BY <1>2 DEF BaselineInv
  <2>1. baseline.quantity \in Nat /\ baseline.at \in Nat
    BY <1>0 DEF BooksTypes
  <2>2. /\ baseline.quantity <= baseline.at /\ baseline.at <= t
        /\ \A i \in 1..baseline.quantity : KnownTrade(i)
    BY <1>1, <1>10 DEF BooksInv, BaselineInv
  <2>3. \A i \in 1..baseline.quantity : i \in 1..t
    BY <2>1, <2>2
  <2> QED BY <1>11, <2>1, <2>2, <2>3
<1> QED BY <1>8, <1>9, <1>12, <1>13, <1>14 DEF BooksInv

\* A commission is one more callback.
LEMMA CommissioningKeepsInv ==
    ASSUME BooksInv, NEW e \in Execs, BrokerCommissions(e)
    PROVE  BooksInv'
<1> USE DEF BrokerCommissions
<1>0. BooksTypes /\ MadeInv
  BY DEF BooksInv
<1>1. PICK m : m = Call("COMMISSION", e)
  OBVIOUS
<1>2. m \in Callbacks /\ m.kind = "COMMISSION" /\ m.exec = e /\ e \in Executed
  BY <1>1 DEF Callbacks, Kinds, Call
<1>3. inbox' = Append(inbox, m)
  BY <1>1
<1>4. UNCHANGED Executed
  BY DEF Executed
<1>5. PICK k \in Nat : k = Len(Queue)
  BY <1>0, QueueParts
<1>6. /\ inbox' \in Seq(Callbacks) /\ Len(Queue') = k + 1 /\ Queue'[k + 1] = m
      /\ \A b \in 1..k : Queue'[b] = Queue[b]
  BY <1>0, <1>2, <1>3, <1>5, QueueGrows
<1>7. \A b \in 1..k + 1 : Queue'[b].exec \in Executed'
  <2>1. \A b \in 1..k : Queue'[b].exec \in Executed'
    BY <1>0, <1>4, <1>5, <1>6 DEF MadeInv
  <2>2. \A b \in 1..k + 1 : b \in 1..k \/ b = k + 1
    OBVIOUS
  <2> QED BY <1>2, <1>4, <1>6, <2>1, <2>2
<1>8. BooksTypes'
  BY <1>0, <1>6 DEF BooksTypes
<1>9. MadeInv'
  BY <1>0, <1>4, <1>6, <1>7 DEF MadeInv, Journaled
<1>10. \A n \in Nat : Asked(n)' <=> Asked(n)
  BY DEF Asked, KnownTrade
<1>11. \A n \in Nat : InOrder(n) => InOrder(n)'
  BY <1>0, <1>2, <1>3, CommissionWaits
<1>12. Clean' <=> Clean
  BY <1>4 DEF Clean
<1>13. RunInv'
  <2>1. \A n \in 0..Len(trades) : n \in Nat
    OBVIOUS
  <2> QED BY <1>10, <1>11, <1>12, <2>1 DEF BooksInv, RunInv
<1>14. SnapshotInv' /\ BaselineInv'
  BY <1>12 DEF BooksInv, SnapshotInv, BaselineInv, KnownTrade
<1> QED BY <1>8, <1>9, <1>13, <1>14 DEF BooksInv

\* While the reader waits for a callback, its queue is the inbox.
LEMMA ReaderIsFree ==
    ASSUME BooksTypes, unapplied = <<>>, inbox # <<>>
    PROVE  /\ Queue = inbox /\ Len(Queue) \in Nat \ {0} /\ Queue[1] = Head(inbox)
           /\ Head(inbox) \in Callbacks /\ Tail(inbox) \in Seq(Callbacks)
           /\ Len(Tail(inbox)) + 1 = Len(Queue) /\ Len(Tail(inbox)) \in Nat
           /\ \A b \in 1..Len(Tail(inbox)) : Tail(inbox)[b] = Queue[b + 1]
<1>1. inbox \in Seq(Callbacks)
  BY DEF BooksTypes
<1>2. Queue = inbox
  BY <1>1, ConcatEmptySeq DEF Queue
<1>3. PICK k \in Nat \ {0} : k = Len(inbox)
  BY <1>1, EmptySeq
<1>4. /\ Head(inbox) \in Callbacks /\ Tail(inbox) \in Seq(Callbacks)
      /\ Len(Tail(inbox)) = k - 1
      /\ \A b \in 1..Len(Tail(inbox)) : Tail(inbox)[b] = inbox[b + 1]
  BY <1>1, <1>3, HeadTailProperties
<1>5. inbox[1] = Head(inbox)
  BY <1>1
<1> QED BY <1>2, <1>3, <1>4, <1>5

\* The reader drops a callback that is in the journal: it has been applied, for nothing is
\* committed and not applied.
LEMMA DroppingKeepsInv ==
    ASSUME BooksInv, RecordEvent, Journaled(Head(inbox).kind, Head(inbox).exec)
    PROVE  BooksInv'
<1>0. BooksTypes /\ MadeInv
  BY DEF BooksInv
<1>1. /\ inbox # <<>> /\ unapplied = <<>> /\ inbox' = Tail(inbox)
      /\ UNCHANGED <<trades, journal, unapplied, execRow, run, baseline, adoption, counts>>
      /\ reported' = reported \/ reported' = reported \cup {Head(inbox).exec}
  BY DEF RecordEvent
<1>2. PICK m \in Callbacks : m = Head(inbox)
  BY <1>0, <1>1, ReaderIsFree
<1>3. PICK k \in Nat : k = Len(Tail(inbox))
  BY <1>0, <1>1, ReaderIsFree
<1>4. /\ inbox' \in Seq(Callbacks) /\ Len(inbox') = k /\ Len(Queue) = k + 1 /\ Queue[1] = m
      /\ \A b \in 1..k : inbox'[b] = Queue[b + 1]
  BY <1>0, <1>1, <1>2, <1>3, ReaderIsFree
<1>5. Queue' = inbox'
  <2>1. PICK s \in Seq(Callbacks) : s = inbox'
    BY <1>4
  <2>2. <<>> \o s = s
    BY ConcatEmptySeq
  <2> QED BY <1>1, <2>1, <2>2 DEF Queue
<1>6. UNCHANGED Executed
  BY <1>1 DEF Executed
<1>7. BooksTypes'
  <2>1. m.exec \in Execs
    BY DEF Callbacks
  <2>2. reported' \in SUBSET Execs
    BY <1>0, <1>1, <1>2, <2>1 DEF BooksTypes
  <2> QED BY <1>0, <1>1, <1>4, <2>2 DEF BooksTypes
<1>8. MadeInv'
  <2>1. \A b \in 1..k : b + 1 \in 1..k + 1
    OBVIOUS
  <2>2. \A b \in 1..k : inbox'[b].exec \in Executed
    BY <1>0, <1>4, <2>1 DEF MadeInv
  <2> QED BY <1>0, <1>1, <1>4, <1>5, <1>6, <2>2 DEF MadeInv, Journaled
<1>9. \A n \in Nat : Asked(n)' <=> Asked(n)
  BY <1>1 DEF Asked, KnownTrade
<1>10. ASSUME NEW n \in Nat, InOrder(n)
       PROVE  InOrder(n)'
  <2>1. ASSUME NEW i \in n + 1..Len(trades), IsExecution(m, i)
        PROVE  KnownTrade(i)
    <3>1. Journaled("EXECUTION", trades[i])
      BY <1>2, <2>1 DEF IsExecution
    <3> QED BY <1>1, <1>10, <3>1 DEF InOrder
  <2>2. \A i : KnownTrade(i)' <=> KnownTrade(i)
    BY <1>1 DEF KnownTrade
  <2>3. \A i \in n + 1..Len(trades) :
           KnownTrade(i)' <=> KnownTrade(i) \/ IsExecution(Queue[1], i)
    BY <1>4, <2>1, <2>2
  <2>4. /\ Len(Queue') + 1 = Len(Queue) /\ Len(Queue') \in Nat
        /\ \A b \in 1..Len(Queue') : Queue'[b] = Queue[b + 1]
    BY <1>4, <1>5
  <2> QED BY <1>0, <1>1, <1>10, <2>3, <2>4, OrderServed
<1>11. Clean' <=> Clean
  BY <1>1, <1>6 DEF Clean
<1>12. RunInv'
  <2>1. \A n \in 0..Len(trades) : n \in Nat
    OBVIOUS
  <2> QED BY <1>1, <1>9, <1>10, <1>11, <2>1 DEF BooksInv, RunInv
<1>13. SnapshotInv' /\ BaselineInv'
  BY <1>1, <1>11 DEF BooksInv, SnapshotInv, BaselineInv, KnownTrade
<1> QED BY <1>7, <1>8, <1>12, <1>13 DEF BooksInv

\* The reader commits a callback that the journal lacks, and has to apply it next.
LEMMA CommittingKeepsInv ==
    ASSUME BooksInv, RecordEvent, ~Journaled(Head(inbox).kind, Head(inbox).exec)
    PROVE  BooksInv'
<1>0. BooksTypes /\ MadeInv
  BY DEF BooksInv
<1>1. inbox # <<>> /\ unapplied = <<>>
  BY DEF RecordEvent
<1>2. PICK m \in Callbacks : m = Head(inbox)
  BY <1>0, <1>1, ReaderIsFree
<1>3. PICK entry \in [kind : Kinds, exec : Execs, linked : BOOLEAN] :
         entry = [kind |-> m.kind, exec |-> m.exec, linked |-> ResolveEventOrder(m)]
  <2>1. ResolveEventOrder(m) \in BOOLEAN
    BY DEF ResolveEventOrder
  <2> QED BY <2>1 DEF Callbacks
<1>4. /\ inbox' = Tail(inbox) /\ unapplied' = <<m>> /\ journal' = Append(journal, entry)
      /\ UNCHANGED <<trades, execRow, run, baseline, adoption, counts>>
      /\ reported' = reported \/ reported' = reported \cup {m.exec}
  BY <1>2, <1>3 DEF RecordEvent
<1>5. entry.kind = m.kind /\ entry.exec = m.exec
  BY <1>3
<1>6. PICK k \in Nat : k = Len(Tail(inbox))
  BY <1>0, <1>1, ReaderIsFree
<1>7. PICK rest \in Seq(Callbacks) : rest = Tail(inbox)
  BY <1>0, <1>1, ReaderIsFree
<1>8. /\ Queue = inbox /\ inbox \in Seq(Callbacks) /\ Len(Queue) = k + 1 /\ Queue[1] = m
      /\ \A b \in 1..k : rest[b] = Queue[b + 1]
  BY <1>0, <1>1, <1>2, <1>6, <1>7, ReaderIsFree DEF BooksTypes
<1>9. UNCHANGED Queue
  <2>1. PICK q : q = <<m>> \o rest
    OBVIOUS
  <2>2. <<m>> \in Seq(Callbacks) /\ Len(<<m>>) = 1 /\ <<m>>[1] = m
    OBVIOUS
  <2>3. /\ q \in Seq(Callbacks) /\ Len(q) = 1 + k
        /\ \A b \in 1..1 + k : q[b] = IF b <= 1 THEN <<m>>[b] ELSE rest[b - 1]
    BY <1>6, <1>7, <2>1, <2>2, ConcatProperties
  <2>4. PICK s \in Seq(Callbacks) : s = Queue
    BY <1>8
  <2>5. Len(s) = 1 + k /\ s[1] = m /\ \A b \in 1..k : rest[b] = s[b + 1]
    BY <1>8, <2>4
  <2>6. \A b \in 1..1 + k : q[b] = s[b]
    <3> SUFFICES ASSUME NEW b \in 1..1 + k
                 PROVE  q[b] = s[b]
      OBVIOUS
    <3>1. CASE b = 1
      BY <2>2, <2>3, <2>5, <3>1
    <3>2. CASE b # 1
      <4>1. b - 1 \in 1..k /\ (b - 1) + 1 = b /\ ~(b <= 1)
        BY <3>2
      <4> QED BY <2>3, <2>5, <4>1
    <3> QED BY <3>1, <3>2
  <2>7. q = s
    BY <2>3, <2>5, <2>6, SeqEqual
  <2> QED BY <1>4, <1>7, <2>1, <2>4, <2>7 DEF Queue
<1>10. UNCHANGED Executed
  BY <1>4 DEF Executed
<1>11. PICK j \in Nat : j = Len(journal)
  BY <1>0, LenProperties DEF BooksTypes
<1>12. /\ journal' \in Seq([kind : Kinds, exec : Execs, linked : BOOLEAN])
       /\ DOMAIN journal = 1..j /\ DOMAIN journal' = 1..j + 1
       /\ \A i \in 1..j : journal'[i] = journal[i]
       /\ journal'[j + 1] = entry
  BY <1>0, <1>4, <1>11, AppendProperties, LenProperties DEF BooksTypes
<1>13. ASSUME NEW e \in Execs, Journaled("EXECUTION", e)'
       PROVE  Journaled("EXECUTION", e) \/ (m.kind = "EXECUTION" /\ m.exec = e)
  <2>1. PICK i \in 1..j + 1 : journal'[i].kind = "EXECUTION" /\ journal'[i].exec = e
    BY <1>12, <1>13 DEF Journaled
  <2>2. CASE i \in 1..j
    BY <1>12, <2>1, <2>2 DEF Journaled
  <2>3. CASE i = j + 1
    BY <1>5, <1>12, <2>1, <2>3
  <2> QED BY <2>2, <2>3
<1>14. BooksTypes'
  <2>1. m.exec \in Execs
    BY DEF Callbacks
  <2>2. reported' \in SUBSET Execs
    BY <1>0, <1>4, <2>1 DEF BooksTypes
  <2>3. unapplied' \in Seq(Callbacks) /\ Len(unapplied') = 1
    BY <1>4
  <2> QED BY <1>0, <1>4, <1>7, <1>12, <2>2, <2>3 DEF BooksTypes
<1>15. MadeInv'
  <2>1. m.exec \in Executed
    BY <1>0, <1>8 DEF MadeInv
  <2>2. \A e \in Execs : Journaled("EXECUTION", e)' => e \in Executed
    BY <1>0, <1>13, <2>1 DEF MadeInv
  <2>3. \A e \in Execs : execRow'[e].known => e \in Executed
    BY <1>0, <1>4 DEF MadeInv
  <2>4. \A b \in 1..Len(Queue') : Queue'[b].exec \in Executed
    BY <1>0, <1>9 DEF MadeInv
  <2> QED BY <1>0, <1>4, <1>10, <2>2, <2>3, <2>4 DEF MadeInv
<1>16. \A n \in Nat : Asked(n)' <=> Asked(n)
  BY <1>4 DEF Asked, KnownTrade
<1>17. \A n \in Nat : InOrder(n) => InOrder(n)'
  BY <1>0, <1>1, <1>4, <1>9, <1>13, OrderCommitted
<1>18. Clean' <=> Clean
  BY <1>4, <1>10 DEF Clean
<1>19. RunInv'
  <2>1. \A n \in 0..Len(trades) : n \in Nat
    OBVIOUS
  <2> QED BY <1>4, <1>16, <1>17, <1>18, <2>1 DEF BooksInv, RunInv
<1>20. SnapshotInv' /\ BaselineInv'
  BY <1>4, <1>18 DEF BooksInv, SnapshotInv, BaselineInv, KnownTrade
<1> QED BY <1>14, <1>15, <1>19, <1>20 DEF BooksInv

\* The reader applies what it has committed.
LEMMA ApplyingKeepsInv ==
    ASSUME BooksInv, ApplyEvent
    PROVE  BooksInv'
<1>0. BooksTypes /\ MadeInv
  BY DEF BooksInv
<1>1. unapplied # <<>> /\ Len(unapplied) = 1
  BY <1>0 DEF ApplyEvent, BooksTypes
<1>2. PICK m \in Callbacks : m = unapplied[1] /\ m = Head(unapplied)
  BY <1>0, <1>1, ElementOfSeq DEF BooksTypes
<1>3. m.kind \in Kinds /\ m.exec \in Execs
  BY DEF Callbacks
<1>4. PICK row : row = IF m.kind = "EXECUTION" THEN ExecutionStored(m.exec, FALSE)
                                               ELSE AttachCommission(m.exec)
  OBVIOUS
<1>5. /\ execRow' = [execRow EXCEPT ![m.exec] = row]
      /\ unapplied' = <<>>
      /\ UNCHANGED <<trades, inbox, reported, journal, run, baseline, adoption, counts>>
  BY <1>2, <1>4 DEF ApplyEvent
<1>6. execRow \in [Execs -> [known : BOOLEAN, commission : BOOLEAN]]
  BY <1>0 DEF BooksTypes
<1>7. /\ row \in [known : BOOLEAN, commission : BOOLEAN]
      /\ row.known <=> m.kind = "EXECUTION" \/ execRow[m.exec].known
  <2>1. PICK old \in [known : BOOLEAN, commission : BOOLEAN] : old = execRow[m.exec]
    BY <1>3, <1>6
  <2>2. CASE m.kind = "EXECUTION"
    <3>1. Journaled("COMMISSION", m.exec) \in BOOLEAN
      BY DEF Journaled
    <3>2. row = [known |-> TRUE,
                 commission |-> FALSE \/ Journaled("COMMISSION", m.exec) \/ old.commission]
      BY <1>4, <2>1, <2>2 DEF ExecutionStored
    <3> QED BY <2>2, <3>1, <3>2
  <2>3. CASE m.kind # "EXECUTION"
    <3>1. row = IF old.known THEN [old EXCEPT !.commission = TRUE] ELSE old
      BY <1>4, <2>1, <2>3 DEF AttachCommission
    <3> QED BY <2>1, <2>3, <3>1
  <2> QED BY <2>2, <2>3
<1>8. /\ execRow' \in [Execs -> [known : BOOLEAN, commission : BOOLEAN]]
      /\ \A e \in Execs : execRow'[e].known <=>
            execRow[e].known \/ (m.kind = "EXECUTION" /\ m.exec = e)
  BY <1>3, <1>5, <1>6, <1>7
<1>9. UNCHANGED Executed
  BY <1>5 DEF Executed
<1>10. PICK k \in Nat : k = Len(inbox)
  BY <1>0, QueueParts
<1>11. /\ Len(Queue) = k + 1
       /\ \A i \in 1..k + 1 : Queue[i] = IF i <= 1 THEN unapplied[i] ELSE inbox[i - 1]
  BY <1>0, <1>1, <1>10, QueueParts
<1>12. Queue' = inbox
  <2>1. PICK s \in Seq(Callbacks) : s = inbox
    BY <1>0 DEF BooksTypes
  <2>2. <<>> \o s = s
    BY ConcatEmptySeq
  <2> QED BY <1>5, <2>1, <2>2 DEF Queue
<1>13. Queue[1] = m /\ \A b \in 1..k : inbox[b] = Queue[b + 1]
  <2>1. 1 \in 1..k + 1 /\ 1 <= 1
    OBVIOUS
  <2>2. ASSUME NEW b \in 1..k
        PROVE  inbox[b] = Queue[b + 1]
    <3>1. b + 1 \in 1..k + 1 /\ ~(b + 1 <= 1) /\ (b + 1) - 1 = b
      OBVIOUS
    <3> QED BY <1>11, <3>1
  <2> QED BY <1>2, <1>11, <2>1, <2>2
<1>14. BooksTypes'
  <2>1. unapplied' \in Seq(Callbacks)
    BY <1>5, EmptySeq
  <2> QED BY <1>0, <1>5, <1>8, <2>1 DEF BooksTypes
<1>15. MadeInv'
  <2>1. m.exec \in Executed
    <3>1. 1 \in 1..Len(Queue)
      BY <1>11
    <3> QED BY <1>0, <1>13, <3>1 DEF MadeInv
  <2>2. \A e \in Execs : execRow'[e].known => e \in Executed
    BY <1>0, <1>8, <2>1 DEF MadeInv
  <2>3. \A b \in 1..k : inbox[b].exec \in Executed
    <3>1. \A b \in 1..k : b + 1 \in 1..k + 1
      OBVIOUS
    <3> QED BY <1>0, <1>11, <1>13, <3>1 DEF MadeInv
  <2>4. \A b \in 1..Len(Queue') : Queue'[b].exec \in Executed
    BY <1>10, <1>12, <2>3
  <2> QED BY <1>0, <1>5, <1>9, <2>2, <2>4 DEF MadeInv, Journaled
<1>16. \A i \in 1..Len(trades) : trades[i] \in Execs
  BY <1>0, ElementOfSeq DEF BooksTypes
<1>17. \A i \in 1..Len(trades) : KnownTrade(i)' <=> KnownTrade(i) \/ IsExecution(m, i)
  BY <1>5, <1>8, <1>16 DEF KnownTrade, IsExecution
<1>18. PICK t \in Nat : t = Len(trades)
  BY <1>0, QueueParts
<1>19. ASSUME NEW n \in 0..t, Asked(n)
       PROVE  Asked(n)'
  <2>1. \A i \in 1..n : KnownTrade(i) => KnownTrade(i)'
    BY <1>17, <1>18
  <2> QED BY <1>5, <1>19, <2>1 DEF Asked
<1>20. ASSUME NEW n \in 0..t, InOrder(n)
       PROVE  InOrder(n)'
  <2>1. \A i \in n + 1..Len(trades) :
           KnownTrade(i)' <=> KnownTrade(i) \/ IsExecution(Queue[1], i)
    BY <1>13, <1>17, <1>18
  <2>2. /\ Len(Queue') + 1 = Len(Queue) /\ Len(Queue') \in Nat
        /\ \A b \in 1..Len(Queue') : Queue'[b] = Queue[b + 1]
    BY <1>10, <1>11, <1>12, <1>13
  <2> QED BY <1>0, <1>2, <1>5, <1>13, <1>20, <2>1, <2>2, OrderServed
<1>21. Clean' <=> Clean
  BY <1>5, <1>9 DEF Clean
<1>22. RunInv'
  BY <1>5, <1>18, <1>19, <1>20, <1>21 DEF BooksInv, RunInv
<1>23. SnapshotInv'
  BY <1>5 DEF BooksInv, SnapshotInv
<1>24. BaselineInv'
  <2> SUFFICES ASSUME Clean
               PROVE  /\ baseline.quantity <= baseline.at /\ baseline.at <= t
                      /\ \A i \in 1..baseline.quantity : KnownTrade(i)'
    BY <1>5, <1>18, <1>21 DEF BaselineInv
  <2>1. baseline.quantity \in Nat /\ baseline.at \in Nat
    BY <1>0 DEF BooksTypes
  <2>2. /\ baseline.quantity <= baseline.at /\ baseline.at <= t
        /\ \A i \in 1..baseline.quantity : KnownTrade(i)
    BY <1>18 DEF BooksInv, BaselineInv
  <2>3. \A i \in 1..baseline.quantity : i \in 1..t
    BY <2>1, <2>2
  <2> QED BY <1>17, <1>18, <2>2, <2>3
<1> QED BY <1>14, <1>15, <1>22, <1>23, <1>24 DEF BooksInv

-----------------------------------------------------------------------------
(* The steps of a reconciliation.                                          *)

\* Steps of a run that has asked for executions and goes on.
LEMMA RunGoesOn ==
    ASSUME BooksInv, RunOnly, run' \in Runs, run.step \in Reading, run'.rows \subseteq Executed,
           run'.step = "writing" => run'.exec \in Executed,
           \A n \in 0..Len(trades) : Asked(n) => Asked(n)',
           SnapshotInv'
    PROVE  BooksInv'
<1>1. UNCHANGED <<trades, reported, unapplied, journal, inbox, execRow, baseline, adoption, counts>>
  BY DEF RunOnly, RunUnchanged
<1>2. UNCHANGED <<Queue, Executed>>
  BY <1>1 DEF Queue, Executed
<1>3. BooksTypes'
  BY <1>1 DEF BooksInv, BooksTypes
<1>4. MadeInv'
  BY <1>1, MadeStands DEF BooksInv, MadeInv
<1>5. \A n \in 0..Len(trades) : n \in Nat
  BY QueueParts DEF BooksInv
<1>6. \A n \in Nat : InOrder(n) => InOrder(n)'
  BY <1>1, OrderStands DEF BooksInv, KnownTrade
<1>7. Clean' <=> Clean
  BY <1>1, <1>2 DEF Clean
<1>8. RunInv'
  <2> SUFFICES ASSUME Clean
               PROVE  \E n \in 0..Len(trades) : Asked(n)' /\ InOrder(n)'
    BY <1>1, <1>7 DEF RunInv
  <2>1. PICK n \in 0..Len(trades) : Asked(n) /\ InOrder(n)
    BY DEF BooksInv, RunInv
  <2> QED BY <1>5, <1>6, <2>1
<1>9. BaselineInv'
  BY <1>1, <1>7 DEF BooksInv, BaselineInv, KnownTrade
<1> QED BY <1>3, <1>4, <1>8, <1>9 DEF BooksInv

\* The executions are in: what the run has to store stays.
LEMMA EndingKeepsInv ==
    ASSUME BooksInv, ExecutionsEnd
    PROVE  BooksInv'
<1>1. PICK old \in Runs : old = run
  BY DEF BooksInv, BooksTypes
<1>2. PICK known \in SUBSET Execs : known = reported
  BY DEF BooksInv, BooksTypes
<1>3. /\ run' = [old EXCEPT !.step = "positions", !.reports = known]
      /\ old.step = "executions" /\ RunOnly
  BY <1>1, <1>2 DEF ExecutionsEnd
<1>4. run' \in Runs /\ run'.step = "positions" /\ run'.rows = old.rows
  BY <1>3 DEF Runs, Reading
<1>5. run'.rows \subseteq Executed
  BY <1>1, <1>4 DEF BooksInv, MadeInv
<1>6. \A n \in 0..Len(trades) : Asked(n) => Asked(n)'
  BY <1>1, <1>3, <1>4 DEF Asked, KnownTrade, RunOnly, RunUnchanged
<1>7. SnapshotInv'
  BY <1>4 DEF SnapshotInv
<1>8. run.step \in Reading
  BY <1>1, <1>3 DEF Reading
<1> QED BY <1>3, <1>4, <1>5, <1>6, <1>7, <1>8, RunGoesOn

\* The positions are those of the moment.
LEMMA ReadingKeepsInv ==
    ASSUME BooksInv, ReadPositions
    PROVE  BooksInv'
<1>1. PICK old \in Runs : old = run
  BY DEF BooksInv, BooksTypes
<1>2. PICK t \in Nat : t = Len(trades)
  BY QueueParts DEF BooksInv
<1>3. /\ run' = [old EXCEPT !.step = "dated", !.positions = t]
      /\ old.step = "positions" /\ RunOnly
  BY <1>1, <1>2 DEF ReadPositions, Now
<1>4. run' \in Runs /\ run'.step = "dated" /\ run'.rows = old.rows /\ run'.positions = t
  BY <1>3 DEF Runs, Reading
<1>5. run'.rows \subseteq Executed
  BY <1>1, <1>4 DEF BooksInv, MadeInv
<1>6. UNCHANGED trades
  BY <1>3 DEF RunOnly, RunUnchanged
<1>7. \A n \in 0..Len(trades) : Asked(n) => Asked(n)'
  BY <1>1, <1>3, <1>4 DEF Asked, KnownTrade, RunOnly, RunUnchanged
<1>8. SnapshotInv'
  BY <1>2, <1>4, <1>6 DEF SnapshotInv
<1>9. run.step \in Reading
  BY <1>1, <1>3 DEF Reading
<1> QED BY <1>3, <1>4, <1>5, <1>7, <1>8, <1>9, RunGoesOn

\* The snapshot is dated after its positions were read.
LEMMA DatingKeepsInv ==
    ASSUME BooksInv, DateSnapshot
    PROVE  BooksInv'
<1>1. PICK old \in Runs : old = run
  BY DEF BooksInv, BooksTypes
<1>2. PICK t \in Nat : t = Len(trades)
  BY QueueParts DEF BooksInv
<1>3. /\ run' = [old EXCEPT !.step = "storing", !.at = t]
      /\ old.step = "dated" /\ RunOnly
  BY <1>1, <1>2 DEF DateSnapshot, Now
<1>4. /\ run' \in Runs /\ run'.step = "storing" /\ run'.rows = old.rows /\ run'.at = t
      /\ run'.positions = old.positions
  BY <1>3 DEF Runs, Reading
<1>5. run'.rows \subseteq Executed
  BY <1>1, <1>4 DEF BooksInv, MadeInv
<1>6. UNCHANGED trades
  BY <1>3 DEF RunOnly, RunUnchanged
<1>7. \A n \in 0..Len(trades) : Asked(n) => Asked(n)'
  BY <1>1, <1>3, <1>4 DEF Asked, KnownTrade, RunOnly, RunUnchanged
<1>8. old.positions <= t
  BY <1>1, <1>2, <1>3 DEF BooksInv, SnapshotInv
<1>9. SnapshotInv'
  BY <1>2, <1>4, <1>6, <1>8 DEF SnapshotInv
<1>10. run.step \in Reading
  BY <1>1, <1>3 DEF Reading
<1> QED BY <1>3, <1>4, <1>5, <1>7, <1>9, <1>10, RunGoesOn

\* The row that is read next is one that is asked for.
LEMMA StoringKeepsInv ==
    ASSUME BooksInv, NEW e \in Execs, StoreReads(e)
    PROVE  BooksInv'
<1>1. PICK old \in Runs : old = run
  BY DEF BooksInv, BooksTypes
<1>2. PICK paid \in BOOLEAN : paid = ExecutionStored(e, e \in run.reports).commission
  <2>1. execRow[e] \in [known : BOOLEAN, commission : BOOLEAN]
    BY DEF BooksInv, BooksTypes
  <2>2. Journaled("COMMISSION", e) \in BOOLEAN
    BY DEF Journaled
  <2> QED BY <2>1, <2>2 DEF ExecutionStored
<1>3. /\ run' = [old EXCEPT !.step = "writing", !.rows = @ \ {e}, !.exec = e,
                   !.unmanaged = @ \/ e \in Foreign, !.commission = paid]
      /\ old.step = "storing" /\ e \in old.rows /\ RunOnly
  BY <1>1, <1>2 DEF StoreReads
<1>4. /\ run' \in Runs /\ run'.step = "writing" /\ run'.rows = old.rows \ {e} /\ run'.exec = e
      /\ run'.positions = old.positions /\ run'.at = old.at
  BY <1>3 DEF Runs, Reading
<1>5. run'.rows \subseteq Executed /\ run'.exec \in Executed
  BY <1>1, <1>3, <1>4 DEF BooksInv, MadeInv
<1>6. UNCHANGED <<trades, execRow, baseline>>
  BY <1>3 DEF RunOnly, RunUnchanged
<1>7. ASSUME NEW n \in 0..Len(trades), Asked(n)
      PROVE  Asked(n)'
  <2>1. /\ baseline.at <= n
        /\ \A i \in 1..n : KnownTrade(i) \/ trades[i] \in old.rows
        /\ old.rows \subseteq {trades[i] : i \in 1..n}
    BY <1>1, <1>3, <1>7 DEF Asked
  <2>2. \A i \in 1..n : KnownTrade(i)' <=> KnownTrade(i)
    BY <1>6 DEF KnownTrade
  <2>3. e \in {trades[i] : i \in 1..n}
    BY <1>3, <2>1
  <2> QED BY <1>4, <1>6, <2>1, <2>2, <2>3 DEF Asked
<1>8. SnapshotInv'
  BY <1>1, <1>3, <1>4, <1>6 DEF BooksInv, SnapshotInv
<1>9. run.step \in Reading
  BY <1>1, <1>3 DEF Reading
<1> QED BY <1>3, <1>4, <1>5, <1>7, <1>8, <1>9, RunGoesOn

\* Steps after which no run is on its way and which leave the callbacks alone.
LEMMA RunStops ==
    ASSUME BooksInv, UNCHANGED <<trades, callbackVars, execRow, counts>>, BooksTypes',
           run'.step \notin Reading, run'.rows = {}, BaselineInv'
    PROVE  BooksInv'
<1>1. UNCHANGED <<inbox, unapplied, journal>>
  BY DEF callbackVars
<1>2. run'.step \notin {"dated", "storing", "writing"}
  BY DEF Reading
<1>3. MadeInv'
  BY <1>1, <1>2, MadeStands
<1> QED BY <1>2, <1>3 DEF BooksInv, RunInv, SnapshotInv

\* Two sequences of callbacks about trades that were made, one behind the other.
LEMMA MadeTogether ==
    ASSUME NEW s \in Seq(Callbacks), NEW t \in Seq(Callbacks),
           \A b \in 1..Len(s) : s[b].exec \in Executed,
           \A b \in 1..Len(t) : t[b].exec \in Executed
    PROVE  /\ s \o t \in Seq(Callbacks)
           /\ \A b \in 1..Len(s \o t) : (s \o t)[b].exec \in Executed
<1>1. PICK k \in Nat : k = Len(s)
  BY LenProperties
<1>2. PICK l \in Nat : l = Len(t)
  BY LenProperties
<1>3. PICK q \in Seq(Callbacks) : q = s \o t
  BY ConcatProperties
<1>4. Len(q) = k + l /\ \A b \in 1..k + l : q[b] = IF b <= k THEN s[b] ELSE t[b - k]
  BY <1>1, <1>2, <1>3, ConcatProperties
<1>5. ASSUME NEW b \in 1..k + l
      PROVE  q[b].exec \in Executed
  <2>1. CASE b <= k
    <3>1. b \in 1..k
      BY <2>1
    <3> QED BY <1>1, <1>4, <2>1, <3>1
  <2>2. CASE ~(b <= k)
    <3>1. b - k \in 1..l
      BY <2>2
    <3> QED BY <1>2, <1>4, <2>2, <3>1
  <2> QED BY <2>1, <2>2
<1> QED BY <1>3, <1>4, <1>5

\* What the reader has to handle is about trades that were made.
LEMMA QueueIsMade ==
    ASSUME BooksTypes, MadeInv
    PROVE  /\ \A b \in 1..Len(unapplied) : unapplied[b].exec \in Executed
           /\ \A b \in 1..Len(inbox) : inbox[b].exec \in Executed
<1>1. PICK u \in Nat : u = Len(unapplied)
  BY QueueParts
<1>2. PICK k \in Nat : k = Len(inbox)
  BY QueueParts
<1>3. /\ Len(Queue) = u + k
      /\ \A b \in 1..u + k : Queue[b] = IF b <= u THEN unapplied[b] ELSE inbox[b - u]
      /\ \A b \in 1..u + k : Queue[b].exec \in Executed
  BY <1>1, <1>2, QueueParts DEF MadeInv
<1>4. ASSUME NEW b \in 1..u
      PROVE  unapplied[b].exec \in Executed
  <2>1. b \in 1..u + k /\ b <= u
    OBVIOUS
  <2> QED BY <1>3, <2>1
<1>5. ASSUME NEW b \in 1..k
      PROVE  inbox[b].exec \in Executed
  <2>1. u + b \in 1..u + k /\ ~(u + b <= u) /\ (u + b) - u = b
    OBVIOUS
  <2> QED BY <1>3, <2>1
<1> QED BY <1>1, <1>2, <1>4, <1>5

\* A run asks for the trades made so far: none is past the last.
LEMMA RequestingKeepsInv ==
    ASSUME BooksInv, NEW trigger \in {"PERIODIC", "RECONNECT", "ADOPTION"},
           RequestExecutions(trigger)
    PROVE  BooksInv'
<1>0. BooksTypes /\ MadeInv
  BY DEF BooksInv
<1>1. /\ inbox' = inbox \o Reports(Executed)
      /\ UNCHANGED <<trades, reported, journal, unapplied, execRow, baseline, adoption, counts>>
  BY DEF RequestExecutions, RunUnchanged
<1>2. PICK r \in Seq(Callbacks) : r = Reports(Executed)
  BY <1>0, ReportsOfTrades
<1>3. Len(r) \in Nat /\ \A b \in 1..Len(r) : r[b].exec \in Executed
  BY <1>0, <1>2, ReportsOfTrades
<1>4. PICK u \in Seq(Callbacks) : u = unapplied
  BY <1>0 DEF BooksTypes
<1>5. PICK was \in Seq(Callbacks) : was = inbox
  BY <1>0 DEF BooksTypes
<1>6. /\ \A b \in 1..Len(u) : u[b].exec \in Executed
      /\ \A b \in 1..Len(was) : was[b].exec \in Executed
  BY <1>0, <1>4, <1>5, QueueIsMade
<1>7. /\ was \o r \in Seq(Callbacks)
      /\ \A b \in 1..Len(was \o r) : (was \o r)[b].exec \in Executed
  BY <1>3, <1>6, MadeTogether
<1>8. PICK more \in Seq(Callbacks) : more = was \o r
  BY <1>7
<1>9. inbox' = more /\ \A b \in 1..Len(u \o more) : (u \o more)[b].exec \in Executed
  BY <1>1, <1>2, <1>5, <1>6, <1>7, <1>8, MadeTogether
<1>10. UNCHANGED Executed
  BY <1>1 DEF Executed
<1>11. PICK asked \in SUBSET Execs : asked = Executed
  BY <1>0, ExecutedFinite
<1>12. run' = [NoRun EXCEPT !.step = "executions", !.rows = asked, !.trigger = trigger]
  BY <1>11 DEF RequestExecutions
<1>13. run' \in Runs /\ run'.step = "executions" /\ run'.rows = asked
  BY <1>12 DEF Runs, NoRun, Reading
<1>14. BooksTypes'
  BY <1>0, <1>1, <1>9, <1>13 DEF BooksTypes
<1>15. MadeInv'
  <2>1. \A b \in 1..Len(Queue') : Queue'[b].exec \in Executed'
    BY <1>1, <1>4, <1>9, <1>10 DEF Queue
  <2>2. run'.rows \subseteq Executed' /\ run'.step # "writing"
    BY <1>10, <1>11, <1>13
  <2> QED BY <1>0, <1>1, <1>10, <2>1, <2>2 DEF MadeInv, Journaled
<1>16. Clean' <=> Clean
  BY <1>1, <1>10 DEF Clean
<1>17. PICK t \in Nat : t = Len(trades)
  BY <1>0, QueueParts
<1>18. RunInv'
  <2> SUFFICES ASSUME Clean
               PROVE  \E n \in 0..t : Asked(n)' /\ InOrder(n)'
    BY <1>1, <1>16, <1>17 DEF RunInv
  <2>1. baseline.at <= t
    BY <1>17 DEF BooksInv, BaselineInv
  <2>2. Executed = {trades[i] : i \in 1..t}
    <3>1. DOMAIN trades = 1..t
      BY <1>0, <1>17, LenProperties DEF BooksTypes
    <3> QED BY <3>1 DEF Executed, Range
  <2>3. Asked(t)'
    BY <1>1, <1>11, <1>13, <2>1, <2>2 DEF Asked
  <2>4. \A i \in t + 1..t : FALSE
    OBVIOUS
  <2>5. InOrder(t)'
    BY <1>1, <1>17, <2>4 DEF InOrder
  <2> QED BY <2>3, <2>5
<1>19. SnapshotInv'
  BY <1>13 DEF SnapshotInv
<1>20. BaselineInv'
  BY <1>1, <1>16 DEF BooksInv, BaselineInv, KnownTrade
<1> QED BY <1>14, <1>15, <1>18, <1>19, <1>20 DEF BooksInv

\* The row that is written is that of a trade the run has asked for.
LEMMA WritingKeepsInv ==
    ASSUME BooksInv, StoreWrites
    PROVE  BooksInv'
<1>0. BooksTypes /\ MadeInv
  BY DEF BooksInv
<1>1. PICK old \in Runs : old = run
  BY <1>0 DEF BooksTypes
<1>2. /\ old.step = "writing" /\ old.exec \in Executed /\ old.exec \in Execs
      /\ old.rows \subseteq Executed
  BY <1>0, <1>1, ExecutedFinite DEF MadeInv, StoreWrites
<1>3. /\ run' = [old EXCEPT !.step = "storing", !.exec = NoExec, !.commission = FALSE]
      /\ UNCHANGED <<trades, inbox, reported, journal, unapplied, baseline, adoption, counts>>
  BY <1>1 DEF StoreWrites, RunUnchanged
<1>4. /\ run' \in Runs /\ run'.step = "storing" /\ run'.rows = old.rows
      /\ run'.positions = old.positions /\ run'.at = old.at
  BY <1>3 DEF Runs, Reading
<1>5. PICK rows \in [Execs -> [known : BOOLEAN, commission : BOOLEAN]] : rows = execRow
  BY <1>0 DEF BooksTypes
<1>6. execRow' = [rows EXCEPT ![old.exec] = [known |-> TRUE,
                     commission |-> old.commission \/ rows[old.exec].commission]]
  BY <1>1, <1>5 DEF StoreWrites
<1>7. [known |-> TRUE, commission |-> old.commission \/ rows[old.exec].commission]
         \in [known : BOOLEAN, commission : BOOLEAN]
  OBVIOUS
<1>8. /\ execRow' \in [Execs -> [known : BOOLEAN, commission : BOOLEAN]]
      /\ \A e \in Execs : execRow'[e].known <=> execRow[e].known \/ e = old.exec
  BY <1>2, <1>5, <1>6, <1>7
<1>9. UNCHANGED Executed
  BY <1>3 DEF Executed
<1>10. BooksTypes'
  BY <1>0, <1>3, <1>4, <1>8 DEF BooksTypes
<1>11. MadeInv'
  BY <1>2, <1>3, <1>4, <1>8, MadeStands
<1>12. PICK t \in Nat : t = Len(trades)
  BY <1>0, QueueParts
<1>13. \A i \in 1..t : trades[i] \in Execs
  BY <1>0, <1>12, ElementOfSeq DEF BooksTypes
<1>14. \A i \in 1..t : KnownTrade(i)' <=> KnownTrade(i) \/ trades[i] = old.exec
  BY <1>3, <1>8, <1>13 DEF KnownTrade
<1>15. Clean' <=> Clean
  BY <1>3, <1>9 DEF Clean
<1>16. RunInv'
  <2> SUFFICES ASSUME Clean
               PROVE  \E n \in 0..t : Asked(n)' /\ InOrder(n)'
    BY <1>3, <1>12, <1>15 DEF RunInv
  <2>1. PICK n \in 0..t : Asked(n) /\ InOrder(n)
    BY <1>1, <1>2, <1>12 DEF BooksInv, RunInv, Reading
  <2>2. PICK w \in 1..n : trades[w] = old.exec
    BY <1>1, <1>2, <2>1 DEF Asked
  <2>3. \A i, j \in 1..t : trades[i] = trades[j] => i = j
    BY <1>0, <1>12 DEF BooksTypes
  <2>4. \A i \in n + 1..t : i \in 1..t /\ w \in 1..t /\ i # w
    OBVIOUS
  <2>5. \A i \in n + 1..t : KnownTrade(i)' <=> KnownTrade(i)
    BY <1>14, <2>2, <2>3, <2>4
  <2>6. InOrder(n)'
    BY <1>0, <1>3, <1>12, <2>1, <2>5, OrderStands
  <2>7. \A i \in 1..n : i \in 1..t
    OBVIOUS
  <2>8. \A i \in 1..n : KnownTrade(i)' \/ trades[i] \in old.rows
    BY <1>1, <1>14, <2>1, <2>7 DEF Asked
  <2>9. Asked(n)'
    BY <1>1, <1>3, <1>4, <2>1, <2>8 DEF Asked
  <2> QED BY <2>6, <2>9
<1>17. SnapshotInv'
  BY <1>1, <1>2, <1>3, <1>4 DEF BooksInv, SnapshotInv
<1>18. BaselineInv'
  <2> SUFFICES ASSUME Clean
               PROVE  /\ baseline.quantity <= baseline.at /\ baseline.at <= t
                      /\ \A i \in 1..baseline.quantity : KnownTrade(i)'
    BY <1>3, <1>12, <1>15 DEF BaselineInv
  <2>1. baseline.quantity \in Nat /\ baseline.at \in Nat
    BY <1>0 DEF BooksTypes
  <2>2. /\ baseline.quantity <= baseline.at /\ baseline.at <= t
        /\ \A i \in 1..baseline.quantity : KnownTrade(i)
    BY <1>12 DEF BooksInv, BaselineInv
  <2>3. \A i \in 1..baseline.quantity : i \in 1..t
    BY <2>1, <2>2
  <2> QED BY <1>14, <2>2, <2>3
<1> QED BY <1>10, <1>11, <1>16, <1>17, <1>18 DEF BooksInv

\* Positions are stored that executions explain, or none.
LEMMA JudgingKeepsInv ==
    ASSUME BooksInv, JudgePositions
    PROVE  BooksInv'
<1>0. BooksTypes
  BY DEF BooksInv
<1>1. PICK old \in Runs : old = run
  BY <1>0 DEF BooksTypes
<1>2. /\ old.step = "storing" /\ old.rows = {}
      /\ UNCHANGED <<trades, inbox, reported, journal, unapplied, execRow, adoption, counts>>
  BY <1>1 DEF JudgePositions, RunUnchanged
<1>3. PICK step \in {"blocked", "ready"} :
         run' = [NoRun EXCEPT !.step = step, !.trigger = old.trigger]
  BY <1>1 DEF JudgePositions
<1>4. run' \in Runs /\ run'.step \notin Reading /\ run'.rows = {}
  BY <1>3 DEF Runs, NoRun, Reading
<1>5. PICK t \in Nat : t = Len(trades)
  BY <1>0, QueueParts
<1>6. PICK was \in [exists : BOOLEAN, quantity : Nat, at : Nat] : was = baseline
  BY <1>0 DEF BooksTypes
<1>7. PICK p \in Nat : p = run.positions
  BY <1>1 DEF Runs
<1>8. \/ UNCHANGED baseline
      \/ /\ ~PositionIssue(run.positions, run.at)
         /\ p > 0 /\ baseline' = [was EXCEPT !.exists = TRUE, !.quantity = p, !.at = t]
  BY <1>5, <1>6, <1>7 DEF JudgePositions, Replaced, Now
<1>9. BooksTypes'
  <2>1. baseline' \in [exists : BOOLEAN, quantity : Nat, at : Nat]
    BY <1>0, <1>8 DEF BooksTypes
  <2> QED BY <1>0, <1>2, <1>4, <2>1 DEF BooksTypes
<1>10. Clean' <=> Clean
  BY <1>2 DEF Clean, Executed
<1>11. \A i : KnownTrade(i)' <=> KnownTrade(i)
  BY <1>2 DEF KnownTrade
<1>12. BaselineInv'
  <2>1. CASE UNCHANGED baseline
    BY <1>2, <1>10, <1>11, <2>1 DEF BooksInv, BaselineInv
  <2>2. CASE ~UNCHANGED baseline
    <3> SUFFICES ASSUME Clean
                 PROVE  /\ baseline'.quantity <= baseline'.at /\ baseline'.at <= t
                        /\ \A i \in 1..baseline'.quantity : KnownTrade(i)
      BY <1>2, <1>5, <1>10, <1>11 DEF BaselineInv
    <3>1. baseline'.quantity = p /\ baseline'.at = t
      BY <1>8, <2>2
    <3>2. p <= t /\ \A i \in 1..p : KnownTrade(i)
      BY <1>1, <1>2, <1>5, <1>7, <1>8, <2>2, PositionsExplained
    <3> QED BY <3>1, <3>2
  <2> QED BY <2>1, <2>2
<1>13. UNCHANGED <<trades, callbackVars, execRow, counts>>
  BY <1>2 DEF callbackVars
<1> QED BY <1>4, <1>9, <1>12, <1>13, RunStops

\* What is recorded of a run stores no positions.
LEMMA RecordingKeepsInv ==
    ASSUME BooksInv, RecordReconciliation
    PROVE  BooksInv'
<1>0. BooksTypes
  BY DEF BooksInv
<1>1. /\ run' = NoRun /\ UNCHANGED <<trades, callbackVars, execRow, counts>>
      /\ UNCHANGED <<inbox, reported, journal, unapplied>>
      /\ adoption' = NoAdoption \/ adoption' = adoption
  BY DEF RecordReconciliation, callbackVars
<1>2. PICK t \in Nat : t = Len(trades)
  BY <1>0, QueueParts
<1>3. PICK was \in [exists : BOOLEAN, quantity : Nat, at : Nat] : was = baseline
  BY <1>0 DEF BooksTypes
<1>4. \/ baseline' = was
      \/ baseline' = [was EXCEPT !.exists = TRUE, !.at = IF was.quantity = 0 THEN t ELSE @]
  BY <1>2, <1>3 DEF RecordReconciliation, Now
<1>5. /\ baseline' \in [exists : BOOLEAN, quantity : Nat, at : Nat]
      /\ baseline'.quantity = was.quantity
      /\ baseline'.at = was.at \/ (was.quantity = 0 /\ baseline'.at = t)
  BY <1>4
<1>6. run' \in Runs /\ run'.step \notin Reading /\ run'.rows = {}
  BY <1>1 DEF Runs, NoRun, Reading
<1>7. BooksTypes'
  <2>1. adoption' \in [step : {"idle", "read", "adopted"}, positions : Nat]
    BY <1>0, <1>1 DEF BooksTypes, NoAdoption
  <2>2. counts'.adoptions = 0 => adoption'.step = "idle"
    BY <1>0, <1>1 DEF BooksTypes, NoAdoption
  <2> QED BY <1>0, <1>1, <1>5, <1>6, <2>1, <2>2 DEF BooksTypes
<1>8. Clean' <=> Clean
  BY <1>1 DEF Clean, Executed
<1>9. \A i : KnownTrade(i)' <=> KnownTrade(i)
  BY <1>1 DEF KnownTrade
<1>10. BaselineInv'
  <2> SUFFICES ASSUME Clean
               PROVE  /\ baseline'.quantity <= baseline'.at /\ baseline'.at <= t
                      /\ \A i \in 1..baseline'.quantity : KnownTrade(i)
    BY <1>1, <1>2, <1>8, <1>9 DEF BaselineInv
  <2>1. /\ was.quantity <= was.at /\ was.at <= t
        /\ \A i \in 1..was.quantity : KnownTrade(i)
    BY <1>2, <1>3 DEF BooksInv, BaselineInv
  <2> QED BY <1>5, <2>1
<1> QED BY <1>1, <1>6, <1>7, <1>10, RunStops

-----------------------------------------------------------------------------
(* The steps of the operator, a crash, and all steps together.             *)

\* From the moment positions are adopted nothing is promised of them.
LEMMA AdoptingKeepsInv ==
    ASSUME BooksInv, AdoptReads \/ AdoptPositions
    PROVE  BooksInv'
<1>0. BooksTypes
  BY DEF BooksInv
<1>1. /\ UNCHANGED <<trades, inbox, reported, journal, unapplied, execRow, run>>
  BY DEF AdoptReads, AdoptPositions, OperatorUnchanged, callbackVars
<1>2. PICK t \in Nat : t = Len(trades)
  BY <1>0, QueueParts
<1>3. PICK was \in [exists : BOOLEAN, quantity : Nat, at : Nat] : was = baseline
  BY <1>0 DEF BooksTypes
<1>4. PICK plan \in [step : {"idle", "read", "adopted"}, positions : Nat] : plan = adoption
  BY <1>0 DEF BooksTypes
<1>5. PICK made \in [crashes : Nat, adoptions : Nat, statements : Nat] : made = counts
  BY <1>0 DEF BooksTypes
<1>6. /\ baseline' \in [exists : BOOLEAN, quantity : Nat, at : Nat]
      /\ adoption' \in [step : {"idle", "read", "adopted"}, positions : Nat]
      /\ counts' \in [crashes : Nat, adoptions : Nat, statements : Nat]
      /\ counts'.adoptions # 0
  <2>1. CASE AdoptReads
    <3>1. /\ UNCHANGED baseline /\ adoption' = [step |-> "read", positions |-> t]
          /\ counts' = [made EXCEPT !.adoptions = @ + 1]
      BY <1>2, <1>5, <2>1 DEF AdoptReads, Now
    <3> QED BY <1>3, <3>1
  <2>2. CASE AdoptPositions
    <3>1. /\ adoption' = [NoAdoption EXCEPT !.step = "adopted"]
          /\ \/ baseline' = was
             \/ baseline' = [was EXCEPT !.exists = TRUE, !.quantity = plan.positions, !.at = t]
          /\ counts' = made /\ plan.step = "read"
      BY <1>2, <1>3, <1>4, <1>5, <2>2 DEF AdoptPositions, Replaced, Now
    <3>2. made.adoptions # 0
      BY <1>0, <1>4, <1>5, <3>1 DEF BooksTypes
    <3> QED BY <3>1, <3>2 DEF NoAdoption
  <2> QED BY <2>1, <2>2
<1>7. BooksTypes'
  BY <1>0, <1>1, <1>6 DEF BooksTypes
<1>8. MadeInv'
  BY <1>1, MadeStands DEF BooksInv, MadeInv
<1>9. ~Clean'
  BY <1>6 DEF Clean
<1>10. SnapshotInv'
  BY <1>1 DEF BooksInv, SnapshotInv
<1> QED BY <1>7, <1>8, <1>9, <1>10 DEF BooksInv, RunInv, BaselineInv

\* A statement is compared with the books and changes none of them.
LEMMA StatementKeepsInv ==
    ASSUME BooksInv, FetchStatement \/ PollStatement \/ StatementReady \/ ReconcileStatement
    PROVE  BooksInv'
<1>1. UNCHANGED <<trades, callbackVars, execRow, run, baseline, adoption>>
  BY DEF FetchStatement, PollStatement, StatementReady, ReconcileStatement, OperatorUnchanged
<1>2. PICK made \in [crashes : Nat, adoptions : Nat, statements : Nat] : made = counts
  BY DEF BooksInv, BooksTypes
<1>3. counts' = made \/ counts' = [made EXCEPT !.statements = @ + 1]
  BY <1>2 DEF FetchStatement, PollStatement, StatementReady, ReconcileStatement
<1>4. /\ counts' \in [crashes : Nat, adoptions : Nat, statements : Nat]
      /\ counts'.adoptions = counts.adoptions
  BY <1>2, <1>3
<1>5. BooksTypes'
  BY <1>1, <1>4 DEF BooksInv, BooksTypes, callbackVars
<1>6. Clean' => Clean
  BY <1>1, <1>4 DEF Clean, Executed
<1> QED BY <1>1, <1>5, <1>6, BooksStand

\* A crash leaves the database, and no run.
LEMMA CrashKeepsInv ==
    ASSUME BooksInv, Crash
    PROVE  BooksInv'
<1>0. BooksTypes /\ MadeInv
  BY DEF BooksInv
<1>1. /\ inbox' = <<>> /\ unapplied' = <<>> /\ reported' = {} /\ run' = NoRun
      /\ adoption' = NoAdoption
      /\ UNCHANGED <<trades, journal, execRow, baseline>>
  BY DEF Crash
<1>2. PICK made \in [crashes : Nat, adoptions : Nat, statements : Nat] : made = counts
  BY <1>0 DEF BooksTypes
<1>3. counts' = [made EXCEPT !.crashes = @ + 1]
  BY <1>2 DEF Crash
<1>4. /\ counts' \in [crashes : Nat, adoptions : Nat, statements : Nat]
      /\ counts'.adoptions = counts.adoptions
  BY <1>2, <1>3
<1>5. run' \in Runs /\ run'.step = "idle" /\ run'.rows = {}
  BY <1>1 DEF Runs, NoRun
<1>6. Queue' = <<>> /\ Len(Queue') = 0
  <2>1. <<>> \o <<>> = <<>>
    BY EmptySeq, ConcatEmptySeq
  <2> QED BY <1>1, <2>1 DEF Queue
<1>7. UNCHANGED Executed
  BY <1>1 DEF Executed
<1>8. BooksTypes'
  <2>1. /\ adoption' \in [step : {"idle", "read", "adopted"}, positions : Nat]
        /\ adoption'.step = "idle"
    BY <1>1 DEF NoAdoption
  <2>2. inbox' \in Seq(Callbacks) /\ unapplied' \in Seq(Callbacks)
    BY <1>1, EmptySeq
  <2> QED BY <1>0, <1>1, <1>4, <1>5, <2>1, <2>2 DEF BooksTypes
<1>9. MadeInv'
  <2>1. \A b \in 1..Len(Queue') : FALSE
    BY <1>6
  <2> QED BY <1>0, <1>1, <1>5, <1>7, <2>1 DEF MadeInv, Journaled
<1>10. RunInv' /\ SnapshotInv'
  BY <1>5 DEF RunInv, SnapshotInv, Reading
<1>11. Clean' => Clean
  BY <1>4, <1>7 DEF Clean
<1>12. BaselineInv'
  BY <1>1, <1>11 DEF BooksInv, BaselineInv, KnownTrade
<1> QED BY <1>8, <1>9, <1>10, <1>12 DEF BooksInv

\* Before the first trade the books are empty.
LEMMA BooksInitially == BooksInit => BooksInv
<1> SUFFICES ASSUME BooksInit
             PROVE  BooksInv
  OBVIOUS
<1>1. Len(trades) = 0 /\ trades \in Seq(Execs)
  BY EmptySeq DEF BooksInit
<1>2. Queue = <<>> /\ Len(Queue) = 0
  <2>1. <<>> \o <<>> = <<>>
    BY EmptySeq, ConcatEmptySeq
  <2> QED BY <2>1 DEF Queue, BooksInit
<1>3. \A i \in 1..0 : FALSE
  OBVIOUS
<1>4. BooksTypes
  <2>1. run \in Runs
    BY DEF BooksInit, NoRun, Runs
  <2>2. execRow \in [Execs -> [known : BOOLEAN, commission : BOOLEAN]]
    BY DEF BooksInit, NoRow
  <2>3. /\ adoption \in [step : {"idle", "read", "adopted"}, positions : Nat]
        /\ adoption.step = "idle"
        /\ counts \in [crashes : Nat, adoptions : Nat, statements : Nat]
        /\ baseline \in [exists : BOOLEAN, quantity : Nat, at : Nat]
    BY DEF BooksInit, NoAdoption
  <2>4. /\ inbox \in Seq(Callbacks) /\ unapplied \in Seq(Callbacks) /\ unapplied = <<>>
        /\ journal \in Seq([kind : Kinds, exec : Execs, linked : BOOLEAN])
        /\ reported \in SUBSET Execs
    BY EmptySeq DEF BooksInit
  <2> QED BY <1>1, <1>3, <2>1, <2>2, <2>3, <2>4 DEF BooksTypes
<1>5. MadeInv
  <2>1. \A e \in Execs : ~execRow[e].known
    BY DEF BooksInit, NoRow
  <2>2. DOMAIN journal = {}
    BY DEF BooksInit
  <2>3. run.rows = {} /\ run.step = "idle"
    BY DEF BooksInit, NoRun
  <2> QED BY <1>2, <1>3, <2>1, <2>2, <2>3 DEF MadeInv, Journaled
<1>6. RunInv /\ SnapshotInv
  BY DEF BooksInit, NoRun, RunInv, SnapshotInv, Reading
<1>7. BaselineInv
  <2>1. baseline.quantity = 0 /\ baseline.at = 0
    BY DEF BooksInit
  <2> QED BY <1>1, <1>3, <2>1 DEF BaselineInv
<1> QED BY <1>4, <1>5, <1>6, <1>7 DEF BooksInv

\* Every step of IBKR, the reader, a reconciliation, the operator or a crash keeps the
\* invariant.
LEMMA BooksStepKeepsInv == BooksInv /\ [BooksNext]_booksVars => BooksInv'
<1> SUFFICES ASSUME BooksInv, [BooksNext]_booksVars
             PROVE  BooksInv'
  OBVIOUS
<1>1. CASE BrokerNext
  BY <1>1, TradingKeepsInv, CommissioningKeepsInv DEF BrokerNext
<1>2. CASE ReaderNext
  BY <1>2, DroppingKeepsInv, CommittingKeepsInv, ApplyingKeepsInv DEF ReaderNext
<1>3. CASE RunNext
  <2>1. CASE \E trigger \in {"PERIODIC", "RECONNECT", "ADOPTION"} : RequestExecutions(trigger)
    BY <2>1, RequestingKeepsInv
  <2>2. CASE ExecutionsEnd
    BY <2>2, EndingKeepsInv
  <2>3. CASE ReadPositions
    BY <2>3, ReadingKeepsInv
  <2>4. CASE DateSnapshot
    BY <2>4, DatingKeepsInv
  <2>5. CASE \E e \in Execs : StoreReads(e)
    BY <2>5, StoringKeepsInv
  <2>6. CASE StoreWrites
    BY <2>6, WritingKeepsInv
  <2>7. CASE JudgePositions
    BY <2>7, JudgingKeepsInv
  <2>8. CASE RecordReconciliation
    BY <2>8, RecordingKeepsInv
  <2> QED BY <1>3, <2>1, <2>2, <2>3, <2>4, <2>5, <2>6, <2>7, <2>8 DEF RunNext
<1>4. CASE OperatorNext
  BY <1>4, AdoptingKeepsInv, StatementKeepsInv DEF OperatorNext
<1>5. CASE Crash
  BY <1>5, CrashKeepsInv
<1>6. CASE UNCHANGED booksVars
  <2>1. UNCHANGED <<trades, callbackVars, execRow, run, baseline, adoption, counts>>
    BY <1>6 DEF booksVars
  <2>2. UNCHANGED <<inbox, reported, journal, unapplied>>
    BY <2>1 DEF callbackVars
  <2>3. BooksTypes'
    BY <2>1, <2>2 DEF BooksInv, BooksTypes
  <2>4. Clean' => Clean
    BY <2>1 DEF Clean, Executed
  <2> QED BY <2>1, <2>3, <2>4, BooksStand
<1> QED BY <1>1, <1>2, <1>3, <1>4, <1>5, <1>6 DEF BooksNext

\* What is known of the books in every state.
THEOREM BooksInvariance == BooksSpec => []BooksInv
<1>1. BooksInit => BooksInv
  BY BooksInitially
<1>2. BooksInv /\ [BooksNext]_booksVars => BooksInv'
  BY BooksStepKeepsInv
<1> QED BY <1>1, <1>2, PTL DEF BooksSpec

\* As long as only own orders trade and nothing is adopted, every trade inside positions that
\* a READY reconciliation stored is a stored execution, although the reader lags behind, a
\* crash loses callbacks, and trades are made between the answers of a run.
THEOREM ReadyBooksComplete == BooksSpec => []ReadyBooksAreComplete
<1>1. BooksInv => ReadyBooksAreComplete
  BY DEF BooksInv, BaselineInv, ReadyBooksAreComplete, Clean, KnownTrade
<1> QED BY <1>1, BooksInvariance, PTL
=============================================================================
