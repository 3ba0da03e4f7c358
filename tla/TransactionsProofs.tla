--------------------------- MODULE TransactionsProofs ---------------------------
(***************************************************************************)
(* Theorems about Transactions, for any set of transactions of any kinds,  *)
(* any number of retries and of faults.                                    *)
(***************************************************************************)
EXTENDS Transactions, FiniteSetTheorems, SequenceTheorems, TLAPS

-----------------------------------------------------------------------------
(* The inductive invariant *)

\* The fields of a transaction, whatever their values.
IsTx(r) ==
    r = [state |-> r.state, step |-> r.step, operation |-> r.operation, intent |-> r.intent,
         receipt |-> r.receipt, event |-> r.event, copy |-> r.copy, since |-> r.since,
         id |-> r.id, first |-> r.first, tries |-> r.tries, won |-> r.won]

Shape ==
    /\ tx = [t \in Txs |-> tx[t]]
    /\ held = [t \in Txs |-> held[t]]
    /\ want = [t \in Txs |-> want[t]]
    /\ \A t \in Txs : IsTx(tx[t]) /\ tx[t].step \in Nat \ {0} /\ tx[t].id \in Nat

\* Two transactions never hold the key of one event: an index entry that is not
\* committed yet keeps everybody else from its key.
KeysExclude ==
    \A t, u \in Txs, n \in Nat :
        EventKey(n) \in held[t] /\ EventKey(n) \in held[u] => t = u

\* A row of an open transaction carries the number that follows the committed
\* history, and the transaction holds its key.
UncommittedIsNext ==
    \A t \in Txs : \A e, f \in tx[t].event :
        tx[t].state = "open" =>
            /\ e = f
            /\ e.id = Cardinality(log) + 1
            /\ EventKey(e.id) \in held[t]

AtInsert(t) ==
    /\ tx[t].state = "open" /\ ~ Over(t)
    /\ Program(Kind[t])[tx[t].step] = "insert"

\* What is going to be inserted has a number computed from the log as it was
\* earlier, and only its key is waited for.
NumberedFromLog ==
    \A t \in Txs :
        /\ AtInsert(t) => tx[t].id \in 1 .. Cardinality(log) + 1
        /\ \A n \in Nat : tx[t].state = "open" /\ EventKey(n) \in want[t] =>
            AtInsert(t) /\ n = tx[t].id
        /\ AtInsert(t) => want[t] \in {{}, {EventKey(tx[t].id)}}

DenseInv ==
    /\ Shape
    /\ IsFiniteSet(log) /\ EventIdsDense
    /\ KeysExclude
    /\ UncommittedIsNext
    /\ NumberedFromLog

-----------------------------------------------------------------------------
(* Programs, locks and numbers *)

LEMMA KindOf == \A t \in Txs : Kind[t] \in Kinds
  BY TransactionsAssumption

\* The insert of an event follows its numbering, in every program.
LEMMA ProgramOrder ==
    ASSUME NEW kind \in Kinds
    PROVE  /\ Len(Program(kind)) \in Nat \ {0}
           /\ Program(kind)[1] # "insert"
           /\ \A n \in 1 .. Len(Program(kind)) - 1 :
                Program(kind)[n + 1] = "insert" => Program(kind)[n] = "number"
<1>1. CASE kind = "submit"
  BY <1>1 DEF Program, Receipts
<1>2. CASE kind \in Receipts
  BY <1>2 DEF Program, Receipts
<1>3. CASE kind = "accepted"
  BY <1>3 DEF Program, Receipts
<1>4. CASE kind = "unavailable"
  BY <1>4 DEF Program, Receipts
<1>5. CASE kind = "refused"
  BY <1>5 DEF Program, Receipts
<1>6. CASE kind = "recovery"
  BY <1>6 DEF Program, Receipts
<1>7. CASE kind = "claim"
  BY <1>7 DEF Program, Receipts
<1> QED BY <1>1, <1>2, <1>3, <1>4, <1>5, <1>6, <1>7 DEF Kinds, Recordings

LEMMA FiniteCount == ASSUME IsFiniteSet(log) PROVE Cardinality(log) \in Nat
  BY FS_CardinalityType

\* MAX + 1 over a dense history is the number after the last.
LEMMA NextIdOfDense ==
    ASSUME IsFiniteSet(log), EventIdsDense
    PROVE  NextId = Cardinality(log) + 1
<1>1. Cardinality(log) \in Nat
  BY FiniteCount
<1>2. \A n \in Ids \cup {0} : (\A id \in Ids : id <= n) <=> n = Cardinality(log)
  BY <1>1 DEF EventIdsDense
<1>3. Cardinality(log) \in Ids \cup {0}
  BY <1>1 DEF EventIdsDense
<1>4. LastId = Cardinality(log)
  BY <1>2, <1>3 DEF LastId
<1> QED BY <1>1, <1>4 DEF NextId

\* Only the insert of an event needs the key of one.
LEMMA NeedsKey ==
    ASSUME NEW t \in Txs
    PROVE  /\ At(t, "insert") => Needs(t) = {EventKey(tx[t].id)}
           /\ \A n : EventKey(n) \in Needs(t) => At(t, "insert") /\ n = tx[t].id
<1> USE DEF EventKey, OperationRow, IntentRow
<1>1. CASE At(t, "insert")
  BY <1>1 DEF Needs, At
<1>2. CASE ~ At(t, "insert")
  BY <1>2 DEF Needs
<1> QED BY <1>1, <1>2

-----------------------------------------------------------------------------
(* Kinds of steps *)

\* A transaction at a statement waits for, and takes, the key of an event only
\* when the statement is the insert of that event.
LEMMA LocksKey ==
    ASSUME DenseInv, NEW t \in Txs, NEW s, At(t, s), NEW n \in Nat, EventKey(n) \in Locks(t)
    PROVE  s = "insert" /\ n = tx[t].id
<1>1. CASE want[t] = {}
  BY <1>1, NeedsKey DEF Locks, At
<1>2. CASE want[t] # {}
  BY <1>2 DEF Locks, At, DenseInv, NumberedFromLog, AtInsert
<1> QED BY <1>1, <1>2

\* A step that replaces the row, the locks and the wish of one transaction.
LEMMA Updates ==
    ASSUME Shape, NEW t \in Txs, NEW row, IsTx(row), row.step \in Nat \ {0}, row.id \in Nat,
           NEW h, NEW w,
           tx' = [tx EXCEPT ![t] = row], held' = [held EXCEPT ![t] = h],
           want' = [want EXCEPT ![t] = w]
    PROVE  /\ Shape'
           /\ tx'[t] = row /\ held'[t] = h /\ want'[t] = w
           /\ \A u \in Txs \ {t} : tx'[u] = tx[u] /\ held'[u] = held[u] /\ want'[u] = want[u]
<1>1. DOMAIN tx = Txs /\ DOMAIN held = Txs /\ DOMAIN want = Txs
  BY DEF Shape
<1>2. tx'[t] = row /\ held'[t] = h /\ want'[t] = w
  BY <1>1
<1>3. \A u \in Txs \ {t} : tx'[u] = tx[u] /\ held'[u] = held[u] /\ want'[u] = want[u]
  BY <1>1
<1>4. tx' = [u \in Txs |-> tx'[u]]
  BY <1>1
<1>5. held' = [u \in Txs |-> held'[u]] /\ want' = [u \in Txs |-> want'[u]]
  BY <1>1
<1>6. ASSUME NEW u \in Txs
      PROVE  IsTx(tx'[u]) /\ tx'[u].step \in Nat \ {0} /\ tx'[u].id \in Nat
  BY <1>2, <1>3 DEF Shape
<1> QED BY <1>2, <1>3, <1>4, <1>5, <1>6 DEF Shape, IsTx

\* A row that differs from that of the transaction in what the argument is not
\* about: what it has read and written other than its event.
Kept(row, r) ==
    /\ IsTx(row)
    /\ row.event = r.event /\ row.id = r.id /\ row.state = r.state /\ row.step = r.step

Same(row, t) == Kept(row, tx[t])

LEMMA WonKept ==
    ASSUME NEW r, IsTx(r), NEW c
    PROVE  Kept([r EXCEPT !.won = c], r)
BY DEF Kept, IsTx

LEMMA SameRows ==
    ASSUME Shape, NEW t \in Txs, NEW v, NEW w
    PROVE  /\ Same(tx[t], t)
           /\ Same([tx[t] EXCEPT !.copy = v], t)
           /\ Same([tx[t] EXCEPT !.copy = v, !.since = w], t)
           /\ Same([tx[t] EXCEPT !.operation = v], t)
           /\ Same([[tx[t] EXCEPT !.operation = v] EXCEPT !.won = TRUE], t)
           /\ Same([tx[t] EXCEPT !.intent = v], t)
           /\ Same([tx[t] EXCEPT !.receipt = v], t)
<1> DEFINE r == tx[t]
<1>1. IsTx(r)
  BY DEF Shape
<1>2. Same(r, t)
  BY <1>1 DEF Same, Kept
<1> HIDE DEF r
<1>3. Kept([r EXCEPT !.copy = v], r)
  BY <1>1 DEF Kept, IsTx
<1>a. Kept([r EXCEPT !.copy = v, !.since = w], r)
  <2> DEFINE q == [r EXCEPT !.copy = v]
  <2>1. IsTx(q)
    BY <1>3 DEF Kept
  <2> HIDE DEF q
  <2>2. Kept([q EXCEPT !.since = w], q)
    BY <2>1 DEF Kept, IsTx
  <2>3. Kept([q EXCEPT !.since = w], r)
    BY <2>2, <1>3 DEF Kept, q
  <2> QED BY <2>3 DEF q
<1>4. Kept([r EXCEPT !.operation = v], r)
  BY <1>1 DEF Kept, IsTx
<1>b. Kept([[r EXCEPT !.operation = v] EXCEPT !.won = TRUE], r)
  <2> DEFINE q == [r EXCEPT !.operation = v]
  <2>1. IsTx(q)
    BY <1>4 DEF Kept
  <2> HIDE DEF q
  <2>2. Kept([q EXCEPT !.won = TRUE], q)
    BY <2>1, WonKept
  <2>3. Kept([q EXCEPT !.won = TRUE], r)
    BY <2>2, <1>4 DEF Kept, q
  <2> QED BY <2>3 DEF q
<1>5. Kept([r EXCEPT !.intent = v], r) /\ Kept([r EXCEPT !.receipt = v], r)
  BY <1>1 DEF Kept, IsTx
<1> QED BY <1>2, <1>3, <1>a, <1>4, <1>b, <1>5 DEF Same, r

LEMMA Counted ==
    ASSUME NEW row, IsTx(row), NEW n
    PROVE  /\ IsTx([row EXCEPT !.step = n])
           /\ [row EXCEPT !.step = n].step = n
           /\ [row EXCEPT !.step = n].event = row.event
           /\ [row EXCEPT !.step = n].id = row.id
           /\ [row EXCEPT !.step = n].state = row.state
BY DEF IsTx

\* A transaction goes on to its next statement, or to its end, without a new
\* number or event and without a key.
LEMMA GoesOn ==
    ASSUME DenseInv, NEW t \in Txs, NEW s, At(t, s), s \notin {"number", "insert"},
           NEW row, Same(row, t),
           Advance(t, row) \/ Leave(t, row),
           NEW locks, \A n \in Nat : EventKey(n) \notin locks,
           held' = [held EXCEPT ![t] = @ \cup locks],
           want' = [want EXCEPT ![t] = {}],
           log' = log
    PROVE  DenseInv'
<1> DEFINE last == Len(Program(Kind[t]))
<1>0. Kind[t] \in Kinds /\ last \in Nat \ {0}
  BY KindOf, ProgramOrder
<1>1. PICK n \in {row.step + 1, last + 1} : tx' = [tx EXCEPT ![t] = [row EXCEPT !.step = n]]
  BY DEF Advance, Leave
<1>2. tx[t].step \in 1 .. last /\ Program(Kind[t])[tx[t].step] = s
  BY <1>0 DEF At, Over, DenseInv, Shape
<1> DEFINE new == [row EXCEPT !.step = n]
<1>3. /\ IsTx(new) /\ new.step = n
      /\ new.event = tx[t].event /\ new.id = tx[t].id /\ new.state = tx[t].state
  BY Counted DEF Same, Kept
<1>4. n \in Nat \ {0} /\ tx[t].id \in Nat
  BY <1>0, <1>2 DEF Same, Kept, DenseInv, Shape
<1>5. /\ Shape'
      /\ tx'[t] = new /\ held'[t] = held[t] \cup locks /\ want'[t] = {}
      /\ \A u \in Txs \ {t} : tx'[u] = tx[u] /\ held'[u] = held[u] /\ want'[u] = want[u]
  <2>1. tx' = [tx EXCEPT ![t] = new]
    BY <1>1
  <2> HIDE DEF new
  <2> QED BY <2>1, <1>3, <1>4, Updates DEF DenseInv
<1> HIDE DEF new
<1>6. ~ AtInsert(t)'
  <2>1. CASE n = last + 1
    BY <1>0, <1>3, <1>5, <2>1 DEF AtInsert, Over
  <2>2. CASE n = tx[t].step + 1
    BY <1>0, <1>2, <1>3, <1>5, <2>2, ProgramOrder DEF AtInsert, Over
  <2> QED BY <2>1, <2>2 DEF Same, Kept
<1>7. KeysExclude'
  BY <1>5 DEF DenseInv, KeysExclude, EventKey
<1>8. UncommittedIsNext'
  BY <1>3, <1>5 DEF DenseInv, UncommittedIsNext
<1>9. NumberedFromLog'
  BY <1>3, <1>5, <1>6 DEF DenseInv, NumberedFromLog, AtInsert, Over, EventKey
<1> QED BY <1>5, <1>7, <1>8, <1>9 DEF DenseInv, EventIdsDense, Ids

\* A transaction is rolled back.
LEMMA RollsBack ==
    ASSUME DenseInv, NEW t \in Txs, NEW tries, Roll(t, tries)
    PROVE  DenseInv'
<1>1. /\ IsTx(tx'[t]) /\ tx'[t].step = tx[t].step /\ tx'[t].id = tx[t].id
      /\ tx'[t].state = "aborted"
      /\ \A u \in Txs \ {t} : tx'[u] = tx[u] /\ held'[u] = held[u] /\ want'[u] = want[u]
      /\ held'[t] = {} /\ want'[t] = {} /\ log' = log
  <2>1. tx'[t] = [[tx[t] EXCEPT !.state = "aborted"] EXCEPT !.tries = tries]
    BY DEF Roll, DenseInv, Shape
  <2>2. IsTx(tx[t])
    BY DEF DenseInv, Shape
  <2>3. IsTx(tx'[t]) /\ tx'[t].step = tx[t].step /\ tx'[t].id = tx[t].id /\ tx'[t].state = "aborted"
    BY <2>1, <2>2 DEF IsTx
  <2> QED BY <2>3 DEF Roll, DenseInv, Shape, committed
<1>2. Shape'
  BY <1>1 DEF Roll, DenseInv, Shape
<1>3. KeysExclude' /\ UncommittedIsNext' /\ NumberedFromLog'
  BY <1>1 DEF DenseInv, KeysExclude, UncommittedIsNext, NumberedFromLog, AtInsert, Over
<1> QED BY <1>1, <1>2, <1>3 DEF DenseInv, EventIdsDense, Ids

LEMMA Runs ==
    ASSUME DenseInv, NEW t \in Txs, NEW s, Run(t, s), s \notin {"number", "insert"},
           NEW row, Same(row, t), Advance(t, row) \/ Leave(t, row)
    PROVE  DenseInv'
<1>1. At(t, s) /\ log' = log
  BY DEF Run, committed
<1>2. held' = [held EXCEPT ![t] = @ \cup Locks(t)] /\ want' = [want EXCEPT ![t] = {}]
  BY DEF Run, Acquire
<1>3. \A n \in Nat : EventKey(n) \notin Locks(t)
  BY <1>1, LocksKey
<1> QED BY <1>1, <1>2, <1>3, GoesOn

\* The statements that append nothing.
LEMMA OtherStatements ==
    ASSUME DenseInv, NEW t \in Txs,
           \/ Read(t) \/ Refresh(t) \/ BeginProcessing(t) \/ StoreIntent(t)
           \/ LockOperation(t) \/ TryRecord(t)
           \/ Link(t) \/ Finalize(t) \/ Close(t)
           \/ RecordsFailure(t) \/ Resume(t) \/ CheckReference(t)
    PROVE  DenseInv'
<1> USE DEF DenseInv
<1>1. CASE Read(t)
  BY <1>1, Runs, SameRows DEF Read
<1>2. CASE Refresh(t)
  BY <1>2, Runs, SameRows DEF Refresh
<1>3. CASE BeginProcessing(t)
  BY <1>3, Runs, SameRows DEF BeginProcessing, WritesOperation
<1>4. CASE StoreIntent(t)
  BY <1>4, Runs, SameRows DEF StoreIntent, WritesIntent
<1>5. CASE LockOperation(t)
  BY <1>5, Runs, SameRows DEF LockOperation
<1>6. CASE TryRecord(t)
  BY <1>6, Runs, SameRows DEF TryRecord
<1>7. CASE Link(t)
  BY <1>7, Runs, SameRows DEF Link, WritesOperation
<1>8. CASE Finalize(t)
  BY <1>8, Runs, SameRows DEF Finalize, WritesOperation
<1>9. CASE Close(t)
  BY <1>9, Runs, SameRows DEF Close, WritesIntent
<1>10. CASE RecordsFailure(t)
  BY <1>10, Runs, SameRows DEF RecordsFailure, WritesIntent
<1>11. CASE Resume(t)
  BY <1>11, Runs, SameRows DEF Resume, WritesIntent
<1>12. CASE CheckReference(t)
  BY <1>12, Runs, SameRows DEF CheckReference
<1> QED BY <1>1, <1>2, <1>3, <1>4, <1>5, <1>6, <1>7, <1>8, <1>9, <1>10, <1>11, <1>12

LEMMA Claims ==
    ASSUME DenseInv, NEW t \in Txs, ClaimIntent(t)
    PROVE  DenseInv'
<1>0. /\ At(t, "claim") /\ log' = log /\ want' = [want EXCEPT ![t] = {}]
      /\ \A n \in Nat : EventKey(n) \notin {IntentRow} /\ EventKey(n) \notin {}
  BY DEF ClaimIntent, committed, EventKey, IntentRow
<1>1. CASE Op \in Due(outbox) /\ Blockers(t, IntentRow) = {}
  BY <1>0, <1>1, GoesOn, SameRows DEF ClaimIntent, WritesIntent, DenseInv
<1>2. CASE ~ (Op \in Due(outbox) /\ Blockers(t, IntentRow) = {})
  <2> DEFINE none == {l \in {IntentRow} : FALSE}
  <2>0. none = {}
    OBVIOUS
  <2> HIDE DEF none
  <2>1. held' = [held EXCEPT ![t] = @ \cup none]
    <3>1. held' = held /\ held = [u \in Txs |-> held[u]]
      BY <1>2 DEF ClaimIntent, DenseInv, Shape
    <3> QED BY <2>0, <3>1
  <2>2. Advance(t, tx[t])
    BY <1>2 DEF ClaimIntent
  <2> QED BY <1>0, <2>0, <2>1, <2>2, GoesOn, SameRows DEF DenseInv
<1> QED BY <1>1, <1>2

\* The event gets the number after the committed history.
LEMMA Numbers ==
    ASSUME DenseInv, NEW t \in Txs, NumberEvent(t)
    PROVE  DenseInv'
<1>1. At(t, "number") /\ log' = log
  BY DEF NumberEvent, Run, committed
<1>2. held' = [held EXCEPT ![t] = @ \cup Locks(t)] /\ want' = [want EXCEPT ![t] = {}]
  BY DEF NumberEvent, Run, Acquire
<1>3. \A n \in Nat : EventKey(n) \notin Locks(t)
  BY <1>1, LocksKey
<1>4. Cardinality(log) \in Nat /\ NextId = Cardinality(log) + 1
  BY FiniteCount, NextIdOfDense DEF DenseInv
<1>5. PICK row : /\ tx' = [tx EXCEPT ![t] = row]
                 /\ IsTx(row) /\ row.event = tx[t].event /\ row.state = tx[t].state
                 /\ row.id = Cardinality(log) + 1 /\ row.step = tx[t].step + 1
  <2> DEFINE r == tx[t]
             first == IF tx[t].tries = 0 THEN NextId ELSE tx[t].first
             p == [r EXCEPT !.id = NextId, !.first = first]
  <2>1. IsTx(r)
    BY DEF DenseInv, Shape
  <2>2. tx' = [tx EXCEPT ![t] = [p EXCEPT !.step = p.step + 1]]
    BY DEF NumberEvent, Advance
  <2> HIDE DEF r, first
  <2> DEFINE q == [r EXCEPT !.id = NextId]
  <2>3. IsTx(q) /\ q.event = r.event /\ q.state = r.state /\ q.step = r.step /\ q.id = NextId
    BY <2>1 DEF IsTx
  <2> HIDE DEF q
  <2>4. LET z == [q EXCEPT !.first = first] IN
        IsTx(z) /\ z.event = q.event /\ z.state = q.state /\ z.step = q.step /\ z.id = q.id
    BY <2>3 DEF IsTx
  <2>5. IsTx(p) /\ p.event = r.event /\ p.state = r.state /\ p.step = r.step /\ p.id = NextId
    BY <2>3, <2>4 DEF q
  <2> HIDE DEF p
  <2>6. LET z == [p EXCEPT !.step = p.step + 1] IN
        IsTx(z) /\ z.event = p.event /\ z.state = p.state /\ z.step = p.step + 1 /\ z.id = p.id
    BY <2>5, Counted
  <2> QED BY <2>2, <2>5, <2>6, <1>4 DEF r
<1>6. /\ Shape'
      /\ tx'[t] = row /\ held'[t] = held[t] \cup Locks(t) /\ want'[t] = {}
      /\ \A u \in Txs \ {t} : tx'[u] = tx[u] /\ held'[u] = held[u] /\ want'[u] = want[u]
  <2>1. tx[t].step \in Nat \ {0} /\ Shape
    BY DEF DenseInv, Shape
  <2>2. row.step \in Nat \ {0} /\ row.id \in Nat /\ IsTx(row) /\ tx' = [tx EXCEPT ![t] = row]
    BY <1>4, <1>5, <2>1
  <2> QED BY <1>2, <2>1, <2>2, Updates
<1>7. KeysExclude'
  BY <1>3, <1>6 DEF DenseInv, KeysExclude
<1>8. UncommittedIsNext'
  BY <1>1, <1>5, <1>6 DEF DenseInv, UncommittedIsNext
<1>9. NumberedFromLog'
  BY <1>1, <1>4, <1>5, <1>6 DEF DenseInv, NumberedFromLog, AtInsert, Over
<1> QED BY <1>1, <1>6, <1>7, <1>8, <1>9 DEF DenseInv, EventIdsDense, Ids

LEMMA NumberOfEvent == 
    ASSUME Shape, NEW t \in Txs, AtInsert(t)
    PROVE  EventOf(t).id = tx[t].id
<1>1. CASE Kind[t] = "submit"
  BY <1>1 DEF EventOf
<1>2. CASE Kind[t] = "accepted"
  BY <1>2 DEF EventOf
<1>3. CASE Kind[t] \in {"unavailable", "refused"}
  BY <1>3 DEF EventOf
<1>4. CASE Kind[t] = "recovery"
  BY <1>4 DEF EventOf
<1>5. CASE Kind[t] \in Receipts
  BY <1>5 DEF EventOf, Receipts
<1>6. Kind[t] # "claim"
  BY DEF Shape, AtInsert, Over, Program, Receipts
<1> QED BY <1>1, <1>2, <1>3, <1>4, <1>5, <1>6, KindOf DEF Kinds, Recordings

\* The insert takes the key of its number, which nobody else holds; as the
\* number is free, it is the one after the committed history.
LEMMA Inserts ==
    ASSUME DenseInv, NEW t \in Txs, InsertEvent(t)
    PROVE  DenseInv'
<1> DEFINE N == Cardinality(log)
           k == tx[t].id
           e == EventOf(t)
<1>1. At(t, "insert") /\ log' = log /\ k \notin Ids
  BY DEF InsertEvent, Run, committed
<1>2. /\ held' = [held EXCEPT ![t] = @ \cup Locks(t)] /\ want' = [want EXCEPT ![t] = {}]
      /\ \A lock \in Locks(t) : Blockers(t, lock) = {}
  BY DEF InsertEvent, Run, Acquire
<1>3. AtInsert(t) /\ tx[t].state = "open"
  BY <1>1 DEF AtInsert, At
<1>4. Locks(t) = {EventKey(k)}
  BY <1>1, <1>3, NeedsKey DEF Locks, DenseInv, NumberedFromLog
<1>5. N \in Nat /\ k \in 1 .. N + 1 /\ k = N + 1
  BY <1>1, <1>3, FiniteCount DEF DenseInv, NumberedFromLog, EventIdsDense
<1>6. \A u \in Txs \ {t} : EventKey(k) \notin held[u]
  BY <1>2, <1>4 DEF Blockers, Compatible, EventKey
<1>7. e.id = k
  BY <1>3, NumberOfEvent DEF DenseInv
<1>8. PICK row : /\ tx' = [tx EXCEPT ![t] = row]
                 /\ IsTx(row) /\ row.event = {e} /\ row.state = tx[t].state
                 /\ row.id = k /\ row.step = tx[t].step + 1
  <2> DEFINE r == tx[t]
             p == [r EXCEPT !.event = {e}]
  <2>1. IsTx(r)
    BY DEF DenseInv, Shape
  <2>2. tx' = [tx EXCEPT ![t] = [p EXCEPT !.step = p.step + 1]]
    BY DEF InsertEvent, Advance
  <2> HIDE DEF r, e
  <2>3. IsTx(p) /\ p.event = {e} /\ p.state = r.state /\ p.step = r.step /\ p.id = r.id
    BY <2>1 DEF IsTx
  <2> HIDE DEF p
  <2>4. LET z == [p EXCEPT !.step = p.step + 1] IN
        IsTx(z) /\ z.event = p.event /\ z.state = p.state /\ z.step = p.step + 1 /\ z.id = p.id
    BY <2>3, Counted
  <2> QED BY <2>2, <2>3, <2>4 DEF r
<1> HIDE DEF e
<1>9. /\ Shape'
      /\ tx'[t] = row /\ held'[t] = held[t] \cup {EventKey(k)} /\ want'[t] = {}
      /\ \A u \in Txs \ {t} : tx'[u] = tx[u] /\ held'[u] = held[u] /\ want'[u] = want[u]
  <2>1. tx[t].step \in Nat \ {0} /\ Shape
    BY DEF DenseInv, Shape
  <2>2. row.step \in Nat \ {0} /\ row.id \in Nat /\ IsTx(row) /\ tx' = [tx EXCEPT ![t] = row]
    BY <1>5, <1>8, <2>1
  <2>3. held' = [held EXCEPT ![t] = held[t] \cup {EventKey(k)}]
    BY <1>2, <1>4
  <2>4. want' = [want EXCEPT ![t] = {}]
    BY <1>2
  <2>5. IsTx(row)
    BY <1>8
  <2> QED BY <2>1, <2>2, <2>3, <2>4, <2>5, Updates
<1>10. KeysExclude'
  BY <1>6, <1>9 DEF DenseInv, KeysExclude, EventKey
<1>11. UncommittedIsNext'
  BY <1>1, <1>5, <1>7, <1>8, <1>9 DEF DenseInv, UncommittedIsNext
<1>12. ~ AtInsert(t)'
  <2> DEFINE last == Len(Program(Kind[t]))
  <2>1. Kind[t] \in Kinds /\ last \in Nat \ {0} /\ tx[t].step \in 1 .. last
    BY <1>3, KindOf, ProgramOrder DEF DenseInv, Shape, AtInsert, Over
  <2>2. Program(Kind[t])[tx[t].step] = "insert"
    BY <1>3 DEF AtInsert
  <2> QED BY <1>8, <1>9, <2>1, <2>2, ProgramOrder DEF AtInsert, Over
<1>13. NumberedFromLog'
  BY <1>1, <1>9, <1>12 DEF DenseInv, NumberedFromLog, AtInsert, Over, EventKey
<1> QED BY <1>1, <1>9, <1>10, <1>11, <1>13 DEF DenseInv, EventIdsDense, Ids

\* A transaction that collides goes back to the statement before the insert,
\* which is no insert.
LEMMA GoesBack ==
    ASSUME DenseInv, NEW t \in Txs, Collide(t)
    PROVE  DenseInv'
<1>1. At(t, "insert") /\ log' = log /\ held' = held /\ want' = [want EXCEPT ![t] = {}]
  BY DEF Collide, Collides, committed
<1>2. AtInsert(t)
  BY <1>1 DEF AtInsert, At
<1> DEFINE last == Len(Program(Kind[t]))
<1>3. Kind[t] \in Kinds /\ last \in Nat \ {0} /\ tx[t].step \in 1 .. last
  BY <1>2, KindOf, ProgramOrder DEF DenseInv, Shape, AtInsert, Over
<1>4. tx[t].step - 1 \in 1 .. last /\ Program(Kind[t])[tx[t].step - 1] = "number"
  BY <1>2, <1>3, ProgramOrder DEF AtInsert
<1>5. PICK row : /\ tx' = [tx EXCEPT ![t] = row]
                 /\ IsTx(row) /\ row.event = tx[t].event /\ row.state = tx[t].state
                 /\ row.id = tx[t].id /\ row.step = tx[t].step - 1
  <2> DEFINE r == tx[t]
             p == [r EXCEPT !.tries = r.tries + 1]
  <2>1. IsTx(r)
    BY DEF DenseInv, Shape
  <2>2. tx' = [tx EXCEPT ![t] = [p EXCEPT !.step = p.step - 1]]
    BY DEF Collide, GoBack
  <2> HIDE DEF r
  <2>3. IsTx(p) /\ p.event = r.event /\ p.state = r.state /\ p.step = r.step /\ p.id = r.id
    BY <2>1 DEF IsTx
  <2> HIDE DEF p
  <2>4. LET z == [p EXCEPT !.step = p.step - 1] IN
        IsTx(z) /\ z.event = p.event /\ z.state = p.state /\ z.step = p.step - 1 /\ z.id = p.id
    BY <2>3, Counted
  <2> QED BY <2>2, <2>3, <2>4 DEF r
<1>6. /\ Shape'
      /\ tx'[t] = row /\ held'[t] = held[t] /\ want'[t] = {}
      /\ \A u \in Txs \ {t} : tx'[u] = tx[u] /\ held'[u] = held[u] /\ want'[u] = want[u]
  <2>1. Shape /\ tx[t].id \in Nat
    BY DEF DenseInv, Shape
  <2>2. held' = [held EXCEPT ![t] = held[t]]
    BY <1>1, <2>1 DEF Shape
  <2>3. row.step \in Nat \ {0} /\ row.id \in Nat /\ IsTx(row) /\ tx' = [tx EXCEPT ![t] = row]
    BY <1>4, <1>5, <2>1
  <2> QED BY <1>1, <2>1, <2>2, <2>3, Updates
<1>7. ~ AtInsert(t)'
  BY <1>4, <1>5, <1>6 DEF AtInsert
<1>8. KeysExclude' /\ UncommittedIsNext'
  BY <1>1, <1>5, <1>6 DEF DenseInv, KeysExclude, UncommittedIsNext
<1>9. NumberedFromLog'
  BY <1>1, <1>6, <1>7 DEF DenseInv, NumberedFromLog, AtInsert, Over
<1> QED BY <1>1, <1>6, <1>8, <1>9 DEF DenseInv, EventIdsDense, Ids

\* A transaction that waits waits for what its statement needs.
LEMMA Waits ==
    ASSUME DenseInv, NEW t \in Txs, Wait(t)
    PROVE  DenseInv'
<1>1. /\ log' = log /\ tx' = tx /\ held' = held
      /\ want' = [want EXCEPT ![t] = Needs(t)]
  BY DEF Wait, committed
<1>2. DOMAIN want = Txs /\ want = [u \in Txs |-> want[u]]
  BY DEF DenseInv, Shape
<1>3. want'[t] = Needs(t) /\ \A u \in Txs \ {t} : want'[u] = want[u]
  BY <1>1, <1>2
<1>4. Shape'
  BY <1>1, <1>2 DEF DenseInv, Shape
<1>5. KeysExclude' /\ UncommittedIsNext'
  BY <1>1 DEF DenseInv, KeysExclude, UncommittedIsNext
<1>6. NumberedFromLog'
  <2>1. AtInsert(t) => At(t, "insert") \/ Needs(t) = {}
    BY <1>1 DEF AtInsert, At, Needs
  <2> QED BY <1>1, <1>3, <2>1, NeedsKey DEF DenseInv, NumberedFromLog, AtInsert, At, Over
<1> QED BY <1>1, <1>4, <1>5, <1>6 DEF DenseInv, EventIdsDense, Ids

\* A commit appends the next number, or nothing; as its key was held, no other
\* transaction has a row that would now be numbered twice.
LEMMA Commits ==
    ASSUME DenseInv, NEW t \in Txs, Commit(t)
    PROVE  DenseInv'
<1> DEFINE N == Cardinality(log)
<1>1. /\ tx[t].state = "open" /\ log' = log \cup tx[t].event /\ want' = want
      /\ tx' = [tx EXCEPT ![t].state = "committed"] /\ held' = [held EXCEPT ![t] = {}]
  BY DEF Commit
<1>2. N \in Nat /\ IsFiniteSet(log) /\ Ids = 1 .. N
  BY FiniteCount DEF DenseInv, EventIdsDense
<1>3. /\ Shape'
      /\ tx'[t].state = "committed"
      /\ held'[t] = {} /\ want'[t] = want[t]
      /\ \A u \in Txs \ {t} : tx'[u] = tx[u] /\ held'[u] = held[u] /\ want'[u] = want[u]
  <2>1. Shape /\ IsTx(tx[t]) /\ tx[t].step \in Nat \ {0} /\ tx[t].id \in Nat
    BY DEF DenseInv, Shape
  <2>2. PICK row : row = [tx[t] EXCEPT !.state = "committed"]
    OBVIOUS
  <2>3. IsTx(row) /\ row.state = "committed" /\ row.step \in Nat \ {0} /\ row.id \in Nat
    BY <2>1, <2>2 DEF IsTx
  <2>4. tx' = [tx EXCEPT ![t] = row]
    BY <1>1, <2>2
  <2>5. PICK h, w : h = {} /\ w = want[t]
    OBVIOUS
  <2>6. held' = [held EXCEPT ![t] = h] /\ want' = [want EXCEPT ![t] = w]
    BY <1>1, <2>1, <2>5 DEF Shape
  <2>7. /\ Shape' /\ tx'[t] = row /\ held'[t] = h /\ want'[t] = w
        /\ \A u \in Txs \ {t} : tx'[u] = tx[u] /\ held'[u] = held[u] /\ want'[u] = want[u]
    <3>1. Shape /\ IsTx(row) /\ row.step \in Nat \ {0} /\ row.id \in Nat
      BY <2>1, <2>3
    <3>2. Shape' /\ tx'[t] = row
      BY <3>1, <2>4, <2>6, Updates
    <3>3. DOMAIN held = Txs /\ DOMAIN want = Txs
      BY <2>1 DEF Shape
    <3>4. held'[t] = h /\ want'[t] = w
      BY <2>6, <3>3
    <3>5. \A u \in Txs \ {t} : tx'[u] = tx[u] /\ held'[u] = held[u] /\ want'[u] = want[u]
      BY <3>1, <2>4, <2>6, Updates
    <3> QED BY <3>2, <3>4, <3>5
  <2> QED BY <2>3, <2>5, <2>7
<1>4. CASE tx[t].event = {}
  <2>1. log' = log
    BY <1>1, <1>4
  <2>2. KeysExclude' /\ UncommittedIsNext' /\ NumberedFromLog'
    BY <1>3, <2>1 DEF DenseInv, KeysExclude, UncommittedIsNext, NumberedFromLog, AtInsert, Over
  <2> QED BY <1>3, <2>1, <2>2 DEF DenseInv, EventIdsDense, Ids
<1>5. CASE tx[t].event # {}
  <2>1. PICK e : tx[t].event = {e} /\ e.id = N + 1 /\ EventKey(N + 1) \in held[t]
    BY <1>1, <1>5 DEF DenseInv, UncommittedIsNext
  <2>2. log' = log \cup {e} /\ e \notin log
    BY <1>1, <1>2, <2>1 DEF Ids
  <2>3. IsFiniteSet(log') /\ Cardinality(log') = N + 1
    BY <1>2, <2>2, FS_AddElement
  <2>4. Ids' = 1 .. N + 1
    BY <1>2, <2>1, <2>2 DEF Ids
  <2>5. \A u \in Txs \ {t} : tx[u].state = "open" => tx[u].event = {}
    BY <1>2, <2>1 DEF DenseInv, UncommittedIsNext, KeysExclude
  <2>6. KeysExclude' /\ UncommittedIsNext'
    BY <1>3, <2>5 DEF DenseInv, KeysExclude, UncommittedIsNext
  <2>7. NumberedFromLog'
    BY <1>2, <1>3, <2>3 DEF DenseInv, NumberedFromLog, AtInsert, Over
  <2> QED BY <1>3, <2>3, <2>4, <2>6, <2>7 DEF DenseInv, EventIdsDense
<1> QED BY <1>4, <1>5

-----------------------------------------------------------------------------
(* The theorem *)

LEMMA DenseInit == Init => DenseInv
<1> SUFFICES ASSUME Init PROVE DenseInv
  OBVIOUS
<1>1. held = [t \in Txs |-> {}] /\ want = [t \in Txs |-> {}]
  BY DEF Init
<1> DEFINE Blank(r) == IsTx(r) /\ r.step = 1 /\ r.id = 0 /\ r.event = {}
<1>2. \A t \in Txs : Blank(tx[t])
  <2> DEFINE blank(state, c) ==
                [state |-> state, step |-> 1, operation |-> Null, intent |-> Null,
                 receipt |-> {}, event |-> {}, copy |-> NoOperation, since |-> Absent,
                 id |-> 0, first |-> 0, tries |-> 0, won |-> c]
  <2>1. \A state, c : Blank(blank(state, c))
    BY DEF IsTx
  <2>2. \A c : [blank("open", c) EXCEPT !.state = "absent"] = blank("absent", c)
    OBVIOUS
  <2>3. NoTx = blank("open", FALSE)
    BY Zenon DEF NoTx
  <2> HIDE DEF blank
  <2>4. [NoTx EXCEPT !.state = "absent"] = blank("absent", FALSE)
    BY <2>2, <2>3, Zenon
  <2> HIDE DEF Blank
  <2>5. Blank(NoTx)
    BY <2>1, <2>3, Zenon
  <2>6. Blank([NoTx EXCEPT !.state = "absent"])
    <3> DEFINE absent == [NoTx EXCEPT !.state = "absent"]
    <3>1. absent = blank("absent", FALSE)
      BY <2>4
    <3> HIDE DEF absent
    <3>2. Blank(absent)
      BY <2>1, <3>1, Zenon
    <3> QED BY <3>2 DEF absent
  <2>7. PICK mix \in Mixes :
          tx = [t \in Txs |-> IF t \in mix THEN NoTx ELSE [NoTx EXCEPT !.state = "absent"]]
    BY DEF Init
  <2> QED BY <2>5, <2>6, <2>7
<1>3. /\ Shape
      /\ \A t \in Txs : tx[t].event = {} /\ held[t] = {} /\ want[t] = {} /\ ~ AtInsert(t)
  <2>1. tx = [t \in Txs |-> tx[t]]
    BY Zenon DEF Init
  <2> QED BY <1>1, <1>2, <2>1, KindOf, ProgramOrder DEF AtInsert, Shape
<1>4. KeysExclude /\ UncommittedIsNext /\ NumberedFromLog
  BY <1>3 DEF KeysExclude, UncommittedIsNext, NumberedFromLog
<1>5. IsFiniteSet(log) /\ EventIdsDense
  <2> DEFINE a == Row(1, "CREATED", Null, "CREATED")
             b == Row(2, "SUBMIT_REQUESTED", "CREATED", "PROCESSING")
  <2>1. a.id = 1 /\ b.id = 2 /\ a # b
    BY DEF Row
  <2>2. log = {a} \/ log = {a, b}
    BY DEF Init
  <2> HIDE DEF a, b
  <2>3. CASE log = {a}
    <3>1. IsFiniteSet(log) /\ Cardinality(log) = 1
      BY <2>3, FS_Singleton
    <3> QED BY <2>1, <2>3, <3>1 DEF EventIdsDense, Ids
  <2>4. CASE log = {a, b}
    <3>1. IsFiniteSet({a}) /\ Cardinality({a}) = 1 /\ b \notin {a} /\ log = {a} \cup {b}
      BY <2>1, <2>4, FS_Singleton
    <3>2. IsFiniteSet(log) /\ Cardinality(log) = 2
      BY <3>1, FS_AddElement
    <3> QED BY <2>1, <2>4, <3>2 DEF EventIdsDense, Ids
  <2> QED BY <2>2, <2>3, <2>4
<1> QED BY <1>3, <1>4, <1>5 DEF DenseInv

LEMMA DenseStep == DenseInv /\ [Next]_vars => DenseInv'
<1> SUFFICES ASSUME DenseInv, [Next]_vars PROVE DenseInv'
  OBVIOUS
<1>1. ASSUME NEW t \in Txs, Statement(t) PROVE DenseInv'
  <2>1. CASE Mismatch(t) \/ CollideAtLast(t)
    BY <2>1, RollsBack DEF Mismatch, CollideAtLast
  <2>2. CASE ClaimIntent(t)
    BY <2>2, Claims
  <2>3. CASE NumberEvent(t)
    BY <2>3, Numbers
  <2>4. CASE InsertEvent(t)
    BY <2>4, Inserts
  <2>5. CASE Collide(t)
    BY <2>5, GoesBack
  <2> QED BY <1>1, <2>1, <2>2, <2>3, <2>4, <2>5, OtherStatements DEF Statement
<1>2. ASSUME NEW t \in Txs, Wait(t) PROVE DenseInv'
  BY <1>2, Waits
<1>3. ASSUME NEW t \in Txs, Commit(t) PROVE DenseInv'
  BY <1>3, Commits
<1>4. ASSUME NEW t \in Txs, DeadlockVictim(t) \/ ConnectionLost(t) PROVE DenseInv'
  BY <1>4, RollsBack DEF DeadlockVictim, ConnectionLost
<1>5. ASSUME NEW t \in Txs, SendReply(t) PROVE DenseInv'
  <2>1. log' = log /\ tx' = tx /\ held' = held /\ want' = want
    BY <1>5 DEF SendReply, committed
  <2> QED BY <2>1 DEF DenseInv, Shape, EventIdsDense, Ids, KeysExclude, UncommittedIsNext,
                      NumberedFromLog, AtInsert, Over
<1>6. CASE UNCHANGED vars
  <2>1. log' = log /\ tx' = tx /\ held' = held /\ want' = want
    BY <1>6 DEF vars, committed
  <2> QED BY <2>1 DEF DenseInv, Shape, EventIdsDense, Ids, KeysExclude, UncommittedIsNext,
                      NumberedFromLog, AtInsert, Over
<1> QED BY <1>1, <1>2, <1>3, <1>4, <1>5, <1>6 DEF Next, Proceed, Quiet

\* The history of an operation is numbered without a gap and without a
\* duplicate, however many transactions append to it at a time, whichever of
\* them collide, wait, deadlock, fail or are rolled back: append_event keeps
\* what the docstring of app/repositories/events.py promises.
THEOREM HistoryIsDense == Spec => []EventIdsDense
<1>1. DenseInv => EventIdsDense
  BY DEF DenseInv
<1> QED BY <1>1, DenseInit, DenseStep, PTL DEF Spec

-----------------------------------------------------------------------------
(* What each statement does *)

\* n is the row r but for the fields F.
Only(n, r, F) ==
    /\ IsTx(n)
    /\ "state" \in F \/ n.state = r.state
    /\ "step" \in F \/ n.step = r.step
    /\ "operation" \in F \/ n.operation = r.operation
    /\ "intent" \in F \/ n.intent = r.intent
    /\ "receipt" \in F \/ n.receipt = r.receipt
    /\ "event" \in F \/ n.event = r.event
    /\ "copy" \in F \/ n.copy = r.copy
    /\ "since" \in F \/ n.since = r.since
    /\ "id" \in F \/ n.id = r.id
    /\ "first" \in F \/ n.first = r.first
    /\ "tries" \in F \/ n.tries = r.tries
    /\ "won" \in F \/ n.won = r.won

\* Such an n is a row.
LEMMA OnlyTx == \A n, r, F : Only(n, r, F) => IsTx(n)
  BY DEF Only

\* EXCEPT changes the field it names, and no other.
LEMMA ExceptOnly1 ==
    ASSUME NEW r, IsTx(r), NEW v
    PROVE  /\ Only(r, r, {})
           /\ Only([r EXCEPT !.state = v], r, {"state"}) /\ [r EXCEPT !.state = v].state = v
           /\ Only([r EXCEPT !.step = v], r, {"step"}) /\ [r EXCEPT !.step = v].step = v
           /\ Only([r EXCEPT !.operation = v], r, {"operation"})
           /\ [r EXCEPT !.operation = v].operation = v
           /\ Only([r EXCEPT !.intent = v], r, {"intent"}) /\ [r EXCEPT !.intent = v].intent = v
           /\ Only([r EXCEPT !.receipt = v], r, {"receipt"})
           /\ [r EXCEPT !.receipt = v].receipt = v
<1>1. Only(r, r, {})
  BY DEF Only
<1>2. Only([r EXCEPT !.state = v], r, {"state"}) /\ [r EXCEPT !.state = v].state = v
  BY DEF Only, IsTx
<1>3. Only([r EXCEPT !.step = v], r, {"step"}) /\ [r EXCEPT !.step = v].step = v
  BY DEF Only, IsTx
<1>4. Only([r EXCEPT !.operation = v], r, {"operation"}) /\ [r EXCEPT !.operation = v].operation = v
  BY DEF Only, IsTx
<1>5. Only([r EXCEPT !.intent = v], r, {"intent"}) /\ [r EXCEPT !.intent = v].intent = v
  BY DEF Only, IsTx
<1>6. Only([r EXCEPT !.receipt = v], r, {"receipt"}) /\ [r EXCEPT !.receipt = v].receipt = v
  BY DEF Only, IsTx
<1> QED BY <1>1, <1>2, <1>3, <1>4, <1>5, <1>6

\* The same for the other fields.
LEMMA ExceptOnly2 ==
    ASSUME NEW r, IsTx(r), NEW v
    PROVE  /\ Only([r EXCEPT !.event = v], r, {"event"}) /\ [r EXCEPT !.event = v].event = v
           /\ Only([r EXCEPT !.copy = v], r, {"copy"}) /\ [r EXCEPT !.copy = v].copy = v
           /\ Only([r EXCEPT !.since = v], r, {"since"}) /\ [r EXCEPT !.since = v].since = v
           /\ Only([r EXCEPT !.id = v], r, {"id"}) /\ [r EXCEPT !.id = v].id = v
           /\ Only([r EXCEPT !.first = v], r, {"first"}) /\ [r EXCEPT !.first = v].first = v
           /\ Only([r EXCEPT !.tries = v], r, {"tries"}) /\ [r EXCEPT !.tries = v].tries = v
           /\ Only([r EXCEPT !.won = v], r, {"won"}) /\ [r EXCEPT !.won = v].won = v
<1>1. Only([r EXCEPT !.event = v], r, {"event"}) /\ [r EXCEPT !.event = v].event = v
  BY DEF Only, IsTx
<1>2. Only([r EXCEPT !.copy = v], r, {"copy"}) /\ [r EXCEPT !.copy = v].copy = v
  BY DEF Only, IsTx
<1>3. Only([r EXCEPT !.since = v], r, {"since"}) /\ [r EXCEPT !.since = v].since = v
  BY DEF Only, IsTx
<1>4. Only([r EXCEPT !.id = v], r, {"id"}) /\ [r EXCEPT !.id = v].id = v
  BY DEF Only, IsTx
<1>5. Only([r EXCEPT !.first = v], r, {"first"}) /\ [r EXCEPT !.first = v].first = v
  BY DEF Only, IsTx
<1>6. Only([r EXCEPT !.tries = v], r, {"tries"}) /\ [r EXCEPT !.tries = v].tries = v
  BY DEF Only, IsTx
<1>7. Only([r EXCEPT !.won = v], r, {"won"}) /\ [r EXCEPT !.won = v].won = v
  BY DEF Only, IsTx
<1> QED BY <1>1, <1>2, <1>3, <1>4, <1>5, <1>6, <1>7

\* What a step of t leaves alone, and what becomes of its locks.
Others(t) ==
    \A u \in Txs \ {t} : tx'[u] = tx[u] /\ held'[u] = held[u] /\ want'[u] = want[u]

\* Transaction t has executed statement s, with the locks it needed.
Moved(t, s) ==
    /\ At(t, s)
    /\ UNCHANGED <<committed, reply, faults>>
    /\ IsTx(tx'[t])
    /\ \A lock \in Locks(t) : Blockers(t, lock) = {}
    /\ held'[t] = held[t] \cup Locks(t) /\ want'[t] = {}
    /\ Others(t)

\* How far a statement moves its transaction, and what else it may change.
LEMMA RunMoves ==
    ASSUME Shape, NEW t \in Txs, NEW s, Run(t, s),
           NEW row, IsTx(row), Advance(t, row) \/ Leave(t, row)
    PROVE  /\ Moved(t, s)
           /\ Only(tx'[t], row, {"step"})
           /\ Advance(t, row) => tx'[t].step = row.step + 1
           /\ Leave(t, row) => tx'[t].step = Len(Program(Kind[t])) + 1
<1> DEFINE last == Len(Program(Kind[t]))
<1>1. DOMAIN tx = Txs /\ DOMAIN held = Txs /\ DOMAIN want = Txs
  BY DEF Shape
<1>2. ASSUME NEW n, tx' = [tx EXCEPT ![t] = [row EXCEPT !.step = n]]
      PROVE  /\ Only(tx'[t], row, {"step"}) /\ tx'[t].step = n
             /\ \A u \in Txs \ {t} : tx'[u] = tx[u]
  <2>1. tx'[t] = [row EXCEPT !.step = n]
    BY <1>1, <1>2
  <2> QED BY <1>1, <1>2, <2>1, ExceptOnly1
<1>3. \E n \in {row.step + 1, last + 1} :
        /\ tx' = [tx EXCEPT ![t] = [row EXCEPT !.step = n]]
  BY DEF Advance, Leave
<1>a. Advance(t, row) => tx'[t].step = row.step + 1
  BY <1>2 DEF Advance
<1>b. Leave(t, row) => tx'[t].step = last + 1
  BY <1>2 DEF Leave
<1>4. /\ Only(tx'[t], row, {"step"})
      /\ \A u \in Txs \ {t} : tx'[u] = tx[u]
  BY <1>2, <1>3
<1>5. /\ held' = [held EXCEPT ![t] = held[t] \cup Locks(t)] /\ want' = [want EXCEPT ![t] = {}]
      /\ \A lock \in Locks(t) : Blockers(t, lock) = {}
      /\ At(t, s) /\ UNCHANGED <<committed, reply, faults>>
  BY DEF Run, Acquire
<1>6. /\ held'[t] = held[t] \cup Locks(t) /\ want'[t] = {}
      /\ \A u \in Txs \ {t} : held'[u] = held[u] /\ want'[u] = want[u]
  BY <1>1, <1>5
<1> QED BY <1>a, <1>b, <1>4, <1>5, <1>6 DEF Moved, Others, Only

\* What each statement does to its transaction.
Does(t, s, F) == Moved(t, s) /\ Only(tx'[t], tx[t], F)

\* A read copies the row.
LEMMA ReadDoes ==
    ASSUME Shape, NEW t \in Txs, Read(t)
    PROVE  /\ Does(t, "read", {"step", "copy", "since"})
           /\ tx'[t].step = tx[t].step + 1
           /\ tx'[t].copy = OperationsOf(t)[Op] /\ tx'[t].since = OperationsOf(t)[Op].status
<1> DEFINE c == OperationsOf(t)[Op]
           p == [tx[t] EXCEPT !.copy = c]
           q == [p EXCEPT !.since = c.status]
<1>1. IsTx(tx[t])
  BY DEF Shape
<1>2. Run(t, "read") /\ Advance(t, q)
  BY DEF Read
<1> HIDE DEF c
<1>3. Only(p, tx[t], {"copy"}) /\ p.copy = c
  BY <1>1, ExceptOnly2
<1> HIDE DEF p
<1>4. Only(q, p, {"since"}) /\ q.since = c.status
  BY <1>3, ExceptOnly2, OnlyTx
<1> HIDE DEF q
<1>5. Moved(t, "read") /\ Only(tx'[t], q, {"step"}) /\ tx'[t].step = q.step + 1
  BY <1>2, <1>4, OnlyTx, RunMoves
<1> QED BY <1>3, <1>4, <1>5 DEF Does, Only, c

\* Statements that only keep a copy of the row.
LEMMA CopyDoes ==
    ASSUME Shape, NEW t \in Txs, NEW s, NEW c, Run(t, s), Advance(t, [tx[t] EXCEPT !.copy = c])
    PROVE  /\ Does(t, s, {"step", "copy"})
           /\ tx'[t].step = tx[t].step + 1 /\ tx'[t].copy = c
<1> DEFINE p == [tx[t] EXCEPT !.copy = c]
<1>0. Advance(t, p)
  OBVIOUS
<1>1. Only(p, tx[t], {"copy"}) /\ p.copy = c
  BY ExceptOnly2 DEF Shape
<1> HIDE DEF p
<1>2. Moved(t, s) /\ Only(tx'[t], p, {"step"}) /\ tx'[t].step = p.step + 1
  BY <1>0, <1>1, OnlyTx, RunMoves
<1> QED BY <1>1, <1>2 DEF Does, Only

\* Statements that write nothing.
LEMMA PassDoes ==
    ASSUME Shape, NEW t \in Txs, NEW s, Run(t, s)
    PROVE  /\ Advance(t, tx[t]) => Does(t, s, {"step"}) /\ tx'[t].step = tx[t].step + 1
           /\ Leave(t, tx[t]) => Does(t, s, {"step"}) /\ tx'[t].step = Len(Program(Kind[t])) + 1
<1>1. IsTx(tx[t])
  BY DEF Shape
<1> QED BY <1>1, RunMoves DEF Does

\* Statements that write the row of the operation.
LEMMA OperationDoes ==
    ASSUME Shape, NEW t \in Txs, NEW s, NEW table, Run(t, s), Advance(t, WritesOperation(t, table))
    PROVE  /\ Does(t, s, {"step", "operation"})
           /\ tx'[t].step = tx[t].step + 1
           /\ tx'[t].operation = IF table = OperationsOf(t) THEN tx[t].operation ELSE table[Op]
<1> DEFINE v == IF table = OperationsOf(t) THEN tx[t].operation ELSE table[Op]
           p == [tx[t] EXCEPT !.operation = v]
<1>1. Advance(t, p)
  BY DEF WritesOperation
<1> HIDE DEF v
<1>2. Only(p, tx[t], {"operation"}) /\ p.operation = v
  BY ExceptOnly1 DEF Shape
<1> HIDE DEF p
<1>3. Moved(t, s) /\ Only(tx'[t], p, {"step"}) /\ tx'[t].step = p.step + 1
  BY <1>1, <1>2, OnlyTx, RunMoves
<1> QED BY <1>2, <1>3 DEF Does, Only, v

\* Statements that write the row of the intent.
LEMMA IntentDoes ==
    ASSUME Shape, NEW t \in Txs, NEW s, NEW table, Run(t, s), Advance(t, WritesIntent(t, table))
    PROVE  /\ Does(t, s, {"step", "intent"})
           /\ tx'[t].step = tx[t].step + 1
           /\ tx'[t].intent = IF table = OutboxOf(t) THEN tx[t].intent ELSE table[Op]
<1> DEFINE v == IF table = OutboxOf(t) THEN tx[t].intent ELSE table[Op]
           p == [tx[t] EXCEPT !.intent = v]
<1>1. Advance(t, p)
  BY DEF WritesIntent
<1> HIDE DEF v
<1>2. Only(p, tx[t], {"intent"}) /\ p.intent = v
  BY ExceptOnly1 DEF Shape
<1> HIDE DEF p
<1>3. Moved(t, s) /\ Only(tx'[t], p, {"step"}) /\ tx'[t].step = p.step + 1
  BY <1>1, <1>2, OnlyTx, RunMoves
<1> QED BY <1>2, <1>3 DEF Does, Only, v

\* The guarded UPDATE of a submit, won or lost.
LEMMA BeginDoes ==
    ASSUME Shape, NEW t \in Txs, BeginProcessing(t)
    PROVE  \/ /\ CanBeginProcessing(OperationsOf(t), Op)
              /\ Does(t, "begin", {"step", "operation", "won"})
              /\ tx'[t].step = tx[t].step + 1 /\ tx'[t].won
              /\ tx'[t].operation =
                    IF TryBeginProcessing(OperationsOf(t), Op) = OperationsOf(t) THEN tx[t].operation
                    ELSE TryBeginProcessing(OperationsOf(t), Op)[Op]
           \/ /\ ~ CanBeginProcessing(OperationsOf(t), Op)
              /\ Does(t, "begin", {"step", "copy"})
              /\ tx'[t].step = Len(Program(Kind[t])) + 1
              /\ tx'[t].copy \in LoserCopies(tx[t].copy)
<1> DEFINE table == OperationsOf(t)
           begun == TryBeginProcessing(table, Op)
<1>1. Run(t, "begin") /\ IsTx(tx[t])
  BY DEF BeginProcessing, Shape
<1>2. CASE CanBeginProcessing(table, Op) /\ Advance(t, [WritesOperation(t, begun) EXCEPT !.won = TRUE])
  <2> DEFINE v == IF begun = OperationsOf(t) THEN tx[t].operation ELSE begun[Op]
             p == [tx[t] EXCEPT !.operation = v]
             q == [p EXCEPT !.won = TRUE]
  <2>1. Advance(t, q)
    BY <1>2 DEF WritesOperation
  <2> HIDE DEF v
  <2>2. Only(p, tx[t], {"operation"}) /\ p.operation = v
    BY <1>1, ExceptOnly1
  <2> HIDE DEF p
  <2>3. Only(q, p, {"won"}) /\ q.won = TRUE
    BY <2>2, ExceptOnly2, OnlyTx
  <2> HIDE DEF q
  <2>4. Moved(t, "begin") /\ Only(tx'[t], q, {"step"}) /\ tx'[t].step = q.step + 1
    BY <1>1, <2>1, <2>3, OnlyTx, RunMoves
  <2> QED BY <1>2, <2>2, <2>3, <2>4 DEF Does, Only, v
<1>3. ASSUME ~ CanBeginProcessing(table, Op), NEW copy \in LoserCopies(tx[t].copy),
             Leave(t, [tx[t] EXCEPT !.copy = copy])
      PROVE  /\ Does(t, "begin", {"step", "copy"})
             /\ tx'[t].step = Len(Program(Kind[t])) + 1 /\ tx'[t].copy = copy
  <2> DEFINE p == [tx[t] EXCEPT !.copy = copy]
  <2>0. Leave(t, p)
    BY <1>3
  <2>1. Only(p, tx[t], {"copy"}) /\ p.copy = copy
    BY <1>1, ExceptOnly2
  <2> HIDE DEF p
  <2>2. /\ Moved(t, "begin") /\ Only(tx'[t], p, {"step"})
        /\ tx'[t].step = Len(Program(Kind[t])) + 1
    BY <1>1, <2>0, <2>1, OnlyTx, RunMoves
  <2> QED BY <2>1, <2>2 DEF Does, Only
<1> QED BY <1>2, <1>3 DEF BeginProcessing

\* The INSERT of a receipt.
LEMMA RecordDoes ==
    ASSUME Shape, NEW t \in Txs, NEW rs, Run(t, "record"), Advance(t, [tx[t] EXCEPT !.receipt = rs])
    PROVE  /\ Does(t, "record", {"step", "receipt"})
           /\ tx'[t].step = tx[t].step + 1 /\ tx'[t].receipt = rs
<1> DEFINE p == [tx[t] EXCEPT !.receipt = rs]
<1>0. Advance(t, p)
  OBVIOUS
<1>1. Only(p, tx[t], {"receipt"}) /\ p.receipt = rs
  BY ExceptOnly1 DEF Shape
<1> HIDE DEF p
<1>2. Moved(t, "record") /\ Only(tx'[t], p, {"step"}) /\ tx'[t].step = p.step + 1
  BY <1>0, <1>1, OnlyTx, RunMoves
<1> QED BY <1>1, <1>2 DEF Does, Only

\* The numbering of an event.
LEMMA NumberDoes ==
    ASSUME Shape, NEW t \in Txs, NumberEvent(t)
    PROVE  /\ Does(t, "number", {"step", "id", "first"})
           /\ tx'[t].step = tx[t].step + 1 /\ tx'[t].id = NextId
           /\ tx'[t].first = IF tx[t].tries = 0 THEN NextId ELSE tx[t].first
<1> DEFINE v == IF tx[t].tries = 0 THEN NextId ELSE tx[t].first
           p == [tx[t] EXCEPT !.id = NextId]
           q == [p EXCEPT !.first = v]
<1>1. IsTx(tx[t])
  BY DEF Shape
<1>2. Run(t, "number") /\ Advance(t, q)
  BY DEF NumberEvent
<1>3. Only(p, tx[t], {"id"}) /\ p.id = NextId
  BY <1>1, ExceptOnly2
<1> HIDE DEF p, v
<1>4. Only(q, p, {"first"}) /\ q.first = v
  BY <1>3, ExceptOnly2, OnlyTx
<1> HIDE DEF q
<1>5. Moved(t, "number") /\ Only(tx'[t], q, {"step"}) /\ tx'[t].step = q.step + 1
  BY <1>2, <1>4, OnlyTx, RunMoves
<1> QED BY <1>3, <1>4, <1>5 DEF Does, Only, v

\* The INSERT of an event.
LEMMA InsertDoes ==
    ASSUME Shape, NEW t \in Txs, InsertEvent(t)
    PROVE  /\ Does(t, "insert", {"step", "event"})
           /\ tx'[t].step = tx[t].step + 1 /\ tx'[t].event = {EventOf(t)}
<1> DEFINE e == EventOf(t)
           p == [tx[t] EXCEPT !.event = {e}]
<1>1. Run(t, "insert") /\ Advance(t, p)
  BY DEF InsertEvent
<1> HIDE DEF e
<1>2. Only(p, tx[t], {"event"}) /\ p.event = {e}
  BY ExceptOnly2 DEF Shape
<1> HIDE DEF p
<1>3. Moved(t, "insert") /\ Only(tx'[t], p, {"step"}) /\ tx'[t].step = p.step + 1
  BY <1>1, <1>2, OnlyTx, RunMoves
<1> QED BY <1>2, <1>3 DEF Does, Only, e

-----------------------------------------------------------------------------
(* The invariant of the statements *)

\* Whether t holds the row of the operation against other writers.
Write(t) == OperationRow("update") \in held[t] \/ OperationRow("no key") \in held[t]

\* The locks that a statement may need.
LocksOf(t, statement) ==
    IF statement \in {"lock", "link"} THEN {OperationRow("update")}
    ELSE IF statement \in {"begin", "finalize"} THEN {OperationRow("no key")}
    ELSE IF statement \in {"store", "record", "reference"} THEN {OperationRow("share")}
    ELSE IF statement = "insert" THEN {EventKey(tx[t].id)}
    ELSE IF statement \in {"close", "reschedule", "fail", "release", "revive"} THEN {IntentRow}
    ELSE {}

\* Locks exclude, and a transaction waits for the lock of its statement only.
LocksInv ==
    /\ \A t, u \in Txs : \A l \in held[t], m \in held[u] :
        l.on = m.on => t = u \/ Compatible(l.mode, m.mode)
    /\ \A t \in Txs : held[t] \cup want[t] \subseteq Lock
    /\ \A t \in Txs : want[t] # {} =>
        /\ tx[t].state = "open" /\ ~ Over(t)
        /\ want[t] = LocksOf(t, Program(Kind[t])[tx[t].step])

\* An answer of the provider has been recorded.
Acknowledged == \E e \in log : e.type = "PROVIDER_ACCEPTED"

\* The committed rows.
CommittedInv ==
    /\ operations \in [OperationIds -> Operation]
    /\ outbox \in [OperationIds -> SubmitIntent]
    /\ receipts \subseteq Receipt
    /\ log \subseteq EventRow /\ \A e, f \in log : e.id = f.id => e = f
    /\ \A o \in OperationIds \ {Op} : operations[o] = NoOperation /\ outbox[o] = NoIntent
    /\ operations[Op].status \in OperationStatus
    /\ operations[Op].status = "CREATED" =>
        operations[Op].payment = Null /\ outbox[Op] = NoIntent
    /\ operations[Op].status # "CREATED" => outbox[Op].state # Absent
    /\ operations[Op].status = "PROCESSING" /\ operations[Op].payment # Null => Acknowledged
    /\ OneReceiptSettles

\* What the committed row of the intent becomes when a recovery releases and
\* revives it, and no other row with it.
Resumed == ReviveFailed(ReleaseAllInFlight(outbox), operations)

\* The transaction has written nothing so far.
Nothing(t) == tx[t].operation = Null /\ tx[t].intent = Null /\ tx[t].receipt = {} /\ tx[t].event = {}

\* A submit, statement by statement: it has lost or done nothing yet, or it has
\* won and holds the row, which is still CREATED for everybody else.
SubmitInv(t) ==
    /\ tx[t].receipt = {}
    /\ held[t] # {} => Write(t)
    /\ \/ tx[t].step \in {1, 2, 8} /\ ~ tx[t].won /\ Nothing(t)
       \/ /\ tx[t].step \in 3 .. 8 /\ tx[t].won
          /\ Write(t)
          /\ operations[Op].status = "CREATED"
          /\ OperationsOf(t) = TryBeginProcessing(operations, Op)
          /\ IF tx[t].step = 3 THEN tx[t].intent = Null ELSE OutboxOf(t) = CreateIntent(outbox, Op, Op)
          /\ tx[t].event # {} <=> tx[t].step >= 6

\* The reason recorded with a receipt.
Reason(t) == IF Applies(t) THEN "none"
             ELSE IF tx[t].copy.status \in TerminalStatuses THEN "already_final"
             ELSE "not_submitted"

\* A receipt: from its lock on, its copy of the operation is the committed row,
\* and what it has written is that row, linked and finalized.
ReceiptInv(t) ==
    /\ held[t] # {} => Write(t)
    /\ \/ tx[t].step \in {1, 9} /\ Nothing(t)
       \/ /\ tx[t].step \in 2 .. 9
          /\ Write(t)
          /\ tx[t].copy = operations[Op] /\ tx[t].copy.payment \in {Null, PaymentOf[t]}
          /\ tx[t].step = 2 => tx[t].receipt = {}
          /\ tx[t].step > 2 =>
                /\ ~ AlreadyRecorded(receipts, Op, PaymentOf[t], Result(t))
                /\ tx[t].receipt = RecordReceipt({}, Op, PaymentOf[t], Result(t), Applies(t), Reason(t))
          /\ ~ Applies(t) \/ tx[t].step <= 3 => tx[t].operation = Null
          /\ Applies(t) /\ tx[t].step = 4 => OperationsOf(t) = LinkProviderPayment(operations, Op, PaymentOf[t])
          /\ Applies(t) /\ tx[t].step > 4 =>
                OperationsOf(t) = TryFinalize(LinkProviderPayment(operations, Op, PaymentOf[t]), Op,
                                              ResultToStatus(Result(t)))
          /\ ~ Applies(t) \/ tx[t].step <= 8 => tx[t].intent = Null
          /\ Applies(t) /\ tx[t].step = 9 => IntentRow \in held[t] /\ OutboxOf(t) = MarkDone(outbox, Op)
          /\ tx[t].event # {} <=> tx[t].step >= 7

\* The recording of an answer: the committed row, linked, and its intent closed.
AcceptedInv(t) ==
    /\ tx[t].receipt = {}
    /\ tx[t].step \in 1 .. 7
    /\ tx[t].step = 1 => tx[t].operation = Null
    /\ tx[t].step > 1 =>
        /\ OperationsOf(t) = LinkProviderPayment(operations, Op, PaymentOf[t])
        /\ tx[t].operation = Null => operations[Op].payment # Null
    /\ tx[t].operation # Null => Write(t)
    /\ tx[t].step > 2 =>
        /\ tx[t].copy.status \in OperationStatus
        /\ \/ tx[t].copy.status = operations[Op].status
           \/ tx[t].copy.status = "PROCESSING" /\ Acknowledged
    /\ tx[t].step < 7 => tx[t].intent = Null
    /\ tx[t].step = 7 => IntentRow \in held[t] /\ OutboxOf(t) = MarkDone(outbox, Op)
    /\ tx[t].event # {} <=> tx[t].step >= 5

\* The recording of a failure: what it has written is the committed intent,
\* rescheduled or failed, and it holds the intent.
FailureInv(t) ==
    /\ tx[t].operation = Null /\ tx[t].receipt = {}
    /\ tx[t].step \in 1 .. 5
    /\ tx[t].step = 1 => tx[t].intent = Null
    /\ tx[t].intent # Null =>
        /\ IntentRow \in held[t]
        /\ OutboxOf(t) = IF Kind[t] = "unavailable" THEN Reschedule(outbox, Op, "unavailable")
                         ELSE MarkFailed(outbox, Op, "rejected")
    /\ tx[t].event # {} <=> tx[t].step >= 4

\* A claim: the committed intent, which was due, claimed.
ClaimInv(t) ==
    /\ tx[t].operation = Null /\ tx[t].receipt = {} /\ tx[t].event = {}
    /\ tx[t].step \in 1 .. 2
    /\ tx[t].step = 1 => tx[t].intent = Null
    /\ tx[t].intent # Null =>
        IntentRow \in held[t] /\ Op \in Due(outbox) /\ OutboxOf(t) = ClaimDue(outbox, {Op})

\* A recovery: the intent as the recovery returns it to the queue, whichever of
\* its statements has found it, and with it, in the end, the event.
RecoveryInv(t) ==
    /\ tx[t].operation = Null /\ tx[t].receipt = {}
    /\ tx[t].step \in 1 .. 7
    /\ tx[t].step = 1 => tx[t].intent = Null
    /\ tx[t].intent # Null =>
        /\ IntentRow \in held[t] /\ outbox[Op].state \in {"IN_FLIGHT", "FAILED"}
        /\ tx[t].intent \in SubmitIntent /\ tx[t].intent.state = "PENDING"
        /\ tx[t].intent = Resumed[Op]
        /\ tx[t].step > 5 => tx[t].event # {}
    /\ tx[t].step < 6 => tx[t].event = {}

\* The row of "events" that t has written is the one its kind calls for.
EventInv(t) == \A e \in tx[t].event : e = EventOf(t)

\* What is said of an open transaction, whatever its kind.
OpenInv(t) ==
    /\ Kind[t] = "submit" => SubmitInv(t)
    /\ Kind[t] \in Receipts => ReceiptInv(t)
    /\ Kind[t] = "accepted" => AcceptedInv(t)
    /\ Kind[t] \in {"unavailable", "refused"} => FailureInv(t)
    /\ Kind[t] = "claim" => ClaimInv(t)
    /\ Kind[t] = "recovery" => RecoveryInv(t)
    /\ EventInv(t)

\* The rows a transaction has written.
Typed(t) ==
    /\ tx[t].state \in {"absent", "open", "committed", "aborted"}
    /\ tx[t].operation \in Operation \cup {Null}
    /\ tx[t].intent \in SubmitIntent \cup {Null}
    /\ tx[t].receipt \subseteq Receipt
    /\ tx[t].event \subseteq EventRow

\* What is said of every transaction.
TxsInv ==
    \A t \in Txs :
        /\ Typed(t)
        /\ tx[t].state = "absent" => want[t] = {} /\ tx[t].step = 1
        /\ tx[t].state = "open" => OpenInv(t)
        /\ Kind[t] \in Recordings /\ Begun(t) => outbox[Op].state # Absent

\* The invariant: locks exclude, the committed tables agree with each other, and
\* what a transaction is going to commit was computed from what is still committed.
WholeInv == LocksInv /\ CommittedInv /\ TxsInv /\ faults \in 0 .. MaxFaults

-----------------------------------------------------------------------------

\* The assumptions on the constants, as they are used.
LEMMA Constants ==
    /\ Op \in OperationIds /\ Null \notin Operation /\ Null \notin SubmitIntent
    /\ \A t \in Txs : Kind[t] \in Kinds /\ PaymentOf[t] \in PaymentIds
  BY TransactionsAssumption

\* A statement that writes the row of the operation.
LEMMA WroteOperation ==
    ASSUME NEW t \in Txs, operations \in [OperationIds -> Operation], operations' = operations,
           tx[t].operation \in Operation \cup {Null},
           NEW table \in [OperationIds -> Operation],
           \A o \in OperationIds \ {Op} : table[o] = operations[o],
           tx'[t].operation = IF table = OperationsOf(t) THEN tx[t].operation ELSE table[Op]
    PROVE  /\ OperationsOf(t)' = table
           /\ tx'[t].operation \in Operation \cup {Null}
           /\ tx'[t].operation = Null => tx[t].operation = Null /\ table = operations
           /\ table = OperationsOf(t) => tx'[t].operation = tx[t].operation
<1>1. Op \in OperationIds /\ Null \notin Operation
  BY Constants
<1>2. CASE table = OperationsOf(t)
  BY <1>1, <1>2 DEF OperationsOf
<1>3. CASE table # OperationsOf(t)
  <2>1. tx'[t].operation = table[Op] /\ table[Op] # Null /\ table[Op] \in Operation
    BY <1>1, <1>3
  <2>2. [operations EXCEPT ![Op] = table[Op]] = table
    BY <1>1
  <2> QED BY <2>1, <2>2, <1>3 DEF OperationsOf
<1> QED BY <1>2, <1>3

\* A statement that writes the row of the intent.
LEMMA WroteIntent ==
    ASSUME NEW t \in Txs, outbox \in [OperationIds -> SubmitIntent], outbox' = outbox,
           tx[t].intent \in SubmitIntent \cup {Null},
           NEW table \in [OperationIds -> SubmitIntent],
           \A o \in OperationIds \ {Op} : table[o] = outbox[o],
           tx'[t].intent = IF table = OutboxOf(t) THEN tx[t].intent ELSE table[Op]
    PROVE  /\ OutboxOf(t)' = table
           /\ tx'[t].intent \in SubmitIntent \cup {Null}
           /\ tx'[t].intent = Null => tx[t].intent = Null /\ table = outbox
           /\ table = OutboxOf(t) => tx'[t].intent = tx[t].intent
           /\ tx'[t].intent # Null => tx'[t].intent = table[Op]
<1>1. Op \in OperationIds /\ Null \notin SubmitIntent
  BY Constants
<1>2. CASE table = OutboxOf(t)
  BY <1>1, <1>2 DEF OutboxOf
<1>3. CASE table # OutboxOf(t)
  <2>1. tx'[t].intent = table[Op] /\ table[Op] # Null /\ table[Op] \in SubmitIntent
    BY <1>1, <1>3
  <2>2. [outbox EXCEPT ![Op] = table[Op]] = table
    BY <1>1
  <2> QED BY <2>1, <2>2, <1>3 DEF OutboxOf
<1> QED BY <1>2, <1>3

\* What a transaction sees is the committed table but for its own row.
LEMMA Sees ==
    ASSUME NEW t \in Txs, operations \in [OperationIds -> Operation],
           outbox \in [OperationIds -> SubmitIntent],
           tx[t].operation \in Operation \cup {Null}, tx[t].intent \in SubmitIntent \cup {Null}
    PROVE  /\ OperationsOf(t) \in [OperationIds -> Operation]
           /\ \A o \in OperationIds \ {Op} : OperationsOf(t)[o] = operations[o]
           /\ OperationsOf(t)[Op] = IF tx[t].operation = Null THEN operations[Op] ELSE tx[t].operation
           /\ OutboxOf(t) \in [OperationIds -> SubmitIntent]
           /\ \A o \in OperationIds \ {Op} : OutboxOf(t)[o] = outbox[o]
           /\ OutboxOf(t)[Op] = IF tx[t].intent = Null THEN outbox[Op] ELSE tx[t].intent
BY Constants DEF OperationsOf, OutboxOf

\* The position of a transaction tells the statement it is at.
LEMMA Positions ==
    ASSUME Shape, NEW t \in Txs, NEW s, At(t, s)
    PROVE  /\ tx[t].state = "open"
           /\ tx[t].step \in 1 .. Len(Program(Kind[t])) /\ s = Program(Kind[t])[tx[t].step]
           /\ Begun(t) \/ MayBegin(t)
<1>1. Len(Program(Kind[t])) \in Nat /\ tx[t].step \in Nat \ {0}
  BY KindOf, ProgramOrder DEF Shape
<1> QED BY <1>1 DEF At, Over

\* How many statements each program has.
LEMMA Lengths ==
    ASSUME NEW kind \in Kinds
    PROVE  Len(Program(kind)) = IF kind = "submit" THEN 7
                                ELSE IF kind \in Receipts THEN 8
                                ELSE IF kind = "accepted" THEN 6
                                ELSE IF kind \in {"unavailable", "refused"} THEN 4
                                ELSE IF kind = "recovery" THEN 6
                                ELSE 1
<1>1. CASE kind = "submit"
  BY <1>1 DEF Program, Receipts
<1>2. CASE kind \in Receipts
  BY <1>2 DEF Program, Receipts
<1>3. CASE kind = "accepted"
  BY <1>3 DEF Program, Receipts
<1>4. CASE kind \in {"unavailable", "refused"}
  BY <1>4 DEF Program, Receipts
<1>5. CASE kind = "recovery"
  BY <1>5 DEF Program, Receipts
<1>6. CASE kind = "claim"
  BY <1>6 DEF Program, Receipts
<1> QED BY <1>1, <1>2, <1>3, <1>4, <1>5, <1>6 DEF Kinds, Recordings, Receipts

-----------------------------------------------------------------------------
(* Locks *)

\* A statement needs the lock of its kind only.
LEMMA NeedsLock ==
    ASSUME NEW t \in Txs, NEW l \in Needs(t)
    PROVE  LET s == Program(Kind[t])[tx[t].step] IN
           At(t, s) /\ LocksOf(t, s) = {l}
<1> DEFINE s == Program(Kind[t])[tx[t].step]
<1>1. \A x : At(t, x) => x = s
  BY DEF At
<1> HIDE DEF s
<1>2. \/ l = OperationRow("update") /\ (At(t, "lock") \/ At(t, "link"))
      \/ l = OperationRow("no key") /\ (At(t, "begin") \/ At(t, "finalize"))
      \/ l = OperationRow("share") /\ (At(t, "reference") \/ At(t, "store") \/ At(t, "record"))
      \/ /\ l = IntentRow
         /\ \/ At(t, "close") \/ At(t, "reschedule") \/ At(t, "fail") \/ At(t, "release")
            \/ At(t, "revive")
      \/ l = EventKey(tx[t].id) /\ At(t, "insert")
  BY DEF Needs
<1>3. At(t, s) /\ LocksOf(t, s) = {l}
  BY <1>1, <1>2 DEF LocksOf
<1> QED BY <1>3 DEF s

\* The locks of the statements are locks.
LEMMA LockTyped ==
    ASSUME NEW t \in Txs, tx[t].id \in Nat, NEW s
    PROVE  LocksOf(t, s) \subseteq Lock /\ IntentRow \in Lock
<1>1. /\ OperationRow("update") \in Lock /\ OperationRow("no key") \in Lock
      /\ OperationRow("share") \in Lock
      /\ IntentRow \in Lock /\ EventKey(tx[t].id) \in Lock
  BY DEF Lock, OperationRow, IntentRow, EventKey
<1> QED BY <1>1 DEF LocksOf

\* A statement takes the lock it needs, if it needs one, and perhaps the one that
\* it needed when it began to wait.
LEMMA LocksOfStatement ==
    ASSUME LocksInv, NEW t \in Txs, NEW s, At(t, s)
    PROVE  Needs(t) \subseteq Locks(t) /\ Locks(t) \subseteq LocksOf(t, s)
<1>1. s = Program(Kind[t])[tx[t].step]
  BY DEF At
<1>2. Needs(t) \subseteq LocksOf(t, s)
  BY <1>1, NeedsLock
<1>3. CASE want[t] = {}
  BY <1>2, <1>3 DEF Locks
<1>4. CASE want[t] # {}
  BY <1>1, <1>2, <1>4 DEF Locks, LocksInv
<1> QED BY <1>3, <1>4

\* The row of the operation, and of the intent, has one writer.
LEMMA Exclusion ==
    ASSUME LocksInv, NEW t \in Txs, NEW u \in Txs \ {t}
    PROVE  /\ ~ (Write(t) /\ Write(u))
           /\ ~ (IntentRow \in held[t] /\ IntentRow \in held[u])
<1>1. \A l \in held[t], m \in held[u] : l.on = m.on => Compatible(l.mode, m.mode)
  BY DEF LocksInv
<1> QED BY <1>1 DEF Write, OperationRow, IntentRow, Compatible

\* A step that takes free locks only keeps the locks exclusive.
LEMMA LocksStay ==
    ASSUME LocksInv, NEW t \in Txs, Others(t), want'[t] = {},
           NEW L, L \subseteq Lock, \A l \in L : Blockers(t, l) = {},
           held'[t] \subseteq held[t] \cup L
    PROVE  LocksInv'
<1>1. ASSUME NEW a \in Txs, NEW b \in Txs, a # b, NEW l \in held'[a], NEW m \in held'[b],
             l.on = m.on
      PROVE  Compatible(l.mode, m.mode)
  <2>1. \A x, y : Compatible(x, y) <=> Compatible(y, x)
    BY DEF Compatible
  <2>2. ASSUME NEW x \in L, NEW u \in Txs \ {t}, NEW y \in held[u], x.on = y.on
        PROVE  Compatible(x.mode, y.mode)
    BY <2>1, <2>2 DEF Blockers
  <2>3. CASE a # t /\ b # t
    BY <1>1, <2>3 DEF LocksInv, Others
  <2>4. CASE a = t
    BY <1>1, <2>2, <2>4 DEF LocksInv, Others
  <2>5. CASE b = t
    BY <1>1, <2>1, <2>2, <2>5 DEF LocksInv, Others
  <2> QED BY <2>3, <2>4, <2>5
<1>2. \A u \in Txs : held'[u] \cup want'[u] \subseteq Lock
  BY DEF LocksInv, Others
<1>3. ASSUME NEW u \in Txs, want'[u] # {}
      PROVE  /\ tx'[u].state = "open" /\ ~ Over(u)'
             /\ want'[u] = LocksOf(u, Program(Kind[u])[tx[u].step])'
  BY <1>3 DEF LocksInv, Others, Over, LocksOf
<1> QED BY <1>1, <1>2, <1>3 DEF LocksInv

\* So does every statement that has its locks.
LEMMA LocksMoved ==
    ASSUME LocksInv, Shape, NEW t \in Txs, NEW s, Moved(t, s)
    PROVE  LocksInv'
<1>1. Locks(t) \subseteq Lock
  BY LocksOfStatement, LockTyped DEF Moved, Shape
<1> QED BY <1>1, LocksStay DEF Moved

\* So does waiting.
LEMMA LocksWait ==
    ASSUME LocksInv, Shape, NEW t \in Txs, Wait(t)
    PROVE  LocksInv'
<1> DEFINE s == Program(Kind[t])[tx[t].step]
<1>1. /\ tx' = tx /\ held' = held /\ want'[t] = Needs(t)
      /\ \A u \in Txs \ {t} : want'[u] = want[u]
  BY DEF Wait, Shape
<1>2. At(t, s) /\ Needs(t) = LocksOf(t, s)
  BY NeedsLock DEF Wait
<1>4. Needs(t) \subseteq Lock
  BY <1>2, LockTyped DEF Shape
<1>5. tx[t].state = "open" /\ ~ Over(t)
  BY <1>2 DEF At
<1>6. \A u \in Txs : Over(u)' = Over(u) /\ \A x : LocksOf(u, x)' = LocksOf(u, x)
  BY <1>1 DEF Over, LocksOf
<1> HIDE DEF s
<1> QED BY <1>1, <1>2, <1>4, <1>5, <1>6 DEF LocksInv, s

-----------------------------------------------------------------------------
(* Statements of each kind *)

\* A statement keeps what its transaction holds and takes what it needs.
LEMMA Gains ==
    ASSUME LocksInv, NEW t \in Txs, NEW s, Moved(t, s)
    PROVE  /\ held[t] \cup Needs(t) \subseteq held'[t]
           /\ held'[t] \subseteq held[t] \cup LocksOf(t, s)
           /\ Write(t) => Write(t)'
           /\ operations' = operations /\ outbox' = outbox /\ receipts' = receipts /\ log' = log
BY LocksOfStatement DEF Moved, Write, committed, OperationRow

\* A transaction that holds nothing without the row of the operation goes on so.
LEMMA HeldWrites ==
    ASSUME LocksInv, NEW t \in Txs, NEW s, Moved(t, s),
           held[t] # {} => Write(t),
           s \in {"lock", "link", "begin", "finalize"} \/ LocksOf(t, s) = {} \/ Write(t)
    PROVE  held'[t] # {} => Write(t)'
<1> SUFFICES ASSUME NEW l \in held'[t] PROVE Write(t)'
  OBVIOUS
<1>1. CASE Write(t)
  BY <1>1, Gains
<1>2. CASE held[t] = {}
  <2>1. l \in LocksOf(t, s)
    BY <1>2, Gains
  <2>2. l \in {OperationRow("update"), OperationRow("no key")} \/ Write(t)
    BY <2>1 DEF LocksOf
  <2> QED BY <2>2, Gains DEF Write
<1> QED BY <1>1, <1>2

\* The event of a transaction depends on its number and on its copy only.
LEMMA EventSame ==
    ASSUME NEW t \in Txs, Kind[t] # "claim", tx'[t].id = tx[t].id,
           Kind[t] \in Receipts \cup {"accepted"} => tx'[t].copy = tx[t].copy
    PROVE  EventOf(t)' = EventOf(t)
<1>1. CASE Kind[t] = "submit"
  BY <1>1 DEF EventOf
<1>2. CASE Kind[t] = "accepted"
  BY <1>2 DEF EventOf
<1>3. CASE Kind[t] \in {"unavailable", "refused"}
  BY <1>3 DEF EventOf
<1>4. CASE Kind[t] = "recovery"
  BY <1>4 DEF EventOf
<1>5. CASE Kind[t] \in Receipts
  BY <1>5 DEF EventOf, Receipts, Applies, Result
<1> QED BY <1>1, <1>2, <1>3, <1>4, <1>5, KindOf DEF Kinds, Recordings

\* It is a row of "events".
LEMMA EventTyped ==
    ASSUME NEW t \in Txs, Kind[t] # "claim", tx[t].id \in Nat,
           Kind[t] \in Receipts \cup {"accepted"} => tx[t].copy.status \in OperationStatus
    PROVE  EventOf(t) \in EventRow
<1>0. \A id \in Nat, type \in EventType, from \in OperationStatus \cup {Null}, to \in OperationStatus :
        [id |-> id, type |-> type, from |-> from, to |-> to] \in EventRow
  BY DEF EventRow
<1> DEFINE New(type, from, to) == [id |-> tx[t].id, type |-> type, from |-> from, to |-> to]
<1> USE DEF EventType, OperationStatus
<1>1. CASE Kind[t] = "submit"
  <2>1. EventOf(t) = New("SUBMIT_REQUESTED", "CREATED", "PROCESSING")
    BY <1>1 DEF EventOf, Receipts
  <2> QED BY <1>0, <2>1
<1>2. CASE Kind[t] = "accepted"
  <2>1. EventOf(t) = New("PROVIDER_ACCEPTED", tx[t].copy.status, tx[t].copy.status)
    BY <1>2 DEF EventOf, Receipts
  <2> QED BY <1>0, <1>2, <2>1
<1>3. CASE Kind[t] \in {"unavailable", "refused"}
  <2>1. EventOf(t) = New("PROVIDER_ATTEMPT_FAILED", "PROCESSING", "PROCESSING")
    BY <1>3 DEF EventOf, Receipts
  <2> QED BY <1>0, <2>1
<1>4. CASE Kind[t] = "recovery"
  <2>1. EventOf(t) = New("RECOVERY_RESUMED", "PROCESSING", "PROCESSING")
    BY <1>4 DEF EventOf, Receipts
  <2> QED BY <1>0, <2>1
<1>5. CASE Kind[t] \in Receipts
  <2>1. \/ EventOf(t) = New(Result(t), "PROCESSING", Result(t))
        \/ EventOf(t) = New("RECEIPT_CONFLICT_IGNORED", tx[t].copy.status, tx[t].copy.status)
    BY <1>5 DEF EventOf, Receipts, ResultToStatus, StatusToEventType
  <2>2. Result(t) \in {"COMPLETED", "REJECTED"}
    BY DEF Result
  <2> QED BY <1>0, <1>5, <2>1, <2>2
<1> QED BY <1>1, <1>2, <1>3, <1>4, <1>5, KindOf DEF Kinds, Recordings

\* Which statement each step of the model is.
LEMMA StatementsAt ==
    ASSUME NEW t \in Txs
    PROVE  /\ Read(t) => At(t, "read")
           /\ Refresh(t) => At(t, "refresh")
           /\ BeginProcessing(t) => At(t, "begin")
           /\ StoreIntent(t) => At(t, "store")
           /\ LockOperation(t) \/ Mismatch(t) => At(t, "lock")
           /\ TryRecord(t) => At(t, "record")
           /\ Link(t) => At(t, "link")
           /\ Finalize(t) => At(t, "finalize")
           /\ Close(t) => At(t, "close")
           /\ RecordsFailure(t) => At(t, "reschedule") \/ At(t, "fail")
           /\ Resume(t) => At(t, "release") \/ At(t, "revive") \/ At(t, "list")
           /\ ClaimIntent(t) => At(t, "claim")
           /\ NumberEvent(t) => At(t, "number")
           /\ InsertEvent(t) \/ Collide(t) \/ CollideAtLast(t) => At(t, "insert")
           /\ CheckReference(t) => At(t, "reference")
BY DEF Read, Refresh, BeginProcessing, StoreIntent, LockOperation, Mismatch, TryRecord, Link,
       Finalize, Close, RecordsFailure, Resume, ClaimIntent, NumberEvent, InsertEvent, Collide,
       CollideAtLast, Collides, CheckReference, Run

\* Back to the savepoint.
LEMMA CollideDoes ==
    ASSUME Shape, NEW t \in Txs, Collide(t)
    PROVE  /\ At(t, "insert") /\ UNCHANGED <<committed, held, reply, faults>>
           /\ Only(tx'[t], tx[t], {"step", "tries"})
           /\ tx'[t].step = tx[t].step - 1 /\ tx'[t].tries = tx[t].tries + 1
           /\ want'[t] = {} /\ Others(t)
<1> DEFINE p == [tx[t] EXCEPT !.tries = tx[t].tries + 1]
           q == [p EXCEPT !.step = p.step - 1]
<1>1. IsTx(tx[t]) /\ DOMAIN tx = Txs /\ DOMAIN held = Txs /\ DOMAIN want = Txs
  BY DEF Shape
<1>2. tx' = [tx EXCEPT ![t] = q]
  BY DEF Collide, GoBack
<1>3. Only(p, tx[t], {"tries"}) /\ p.tries = tx[t].tries + 1
  BY <1>1, ExceptOnly2
<1> HIDE DEF p
<1>4. Only(q, p, {"step"}) /\ q.step = p.step - 1
  BY <1>3, ExceptOnly1, OnlyTx
<1> HIDE DEF q
<1>5. /\ tx'[t] = q /\ want'[t] = {} /\ Others(t) /\ At(t, "insert")
      /\ UNCHANGED <<committed, held, reply, faults>>
  BY <1>1, <1>2 DEF Collide, Collides, Others
<1> QED BY <1>3, <1>4, <1>5 DEF Only

-----------------------------------------------------------------------------
(* A submit *)

\* The statements of a submit, by position.
LEMMA SubmitPositions ==
    ASSUME Shape, NEW t \in Txs, Kind[t] = "submit", NEW s, At(t, s)
    PROVE  \/ tx[t].step = 1 /\ s = "read"
           \/ tx[t].step = 2 /\ s = "begin"
           \/ tx[t].step = 3 /\ s = "store"
           \/ tx[t].step = 4 /\ s = "number"
           \/ tx[t].step = 5 /\ s = "insert"
           \/ tx[t].step = 6 /\ s = "reference"
           \/ tx[t].step = 7 /\ s = "refresh"
<1>1. tx[t].step \in 1 .. 7 /\ s = Program("submit")[tx[t].step]
  BY Positions, Lengths, Constants
<1> QED BY <1>1 DEF Program, Receipts

\* The steps of a submit, by position.
LEMMA SubmitRuns ==
    ASSUME Shape, NEW t \in Txs, Kind[t] = "submit", Statement(t), ~ CollideAtLast(t)
    PROVE  \/ tx[t].step = 1 /\ Read(t)
           \/ tx[t].step = 2 /\ BeginProcessing(t)
           \/ tx[t].step = 3 /\ StoreIntent(t)
           \/ tx[t].step = 4 /\ NumberEvent(t)
           \/ tx[t].step = 5 /\ (InsertEvent(t) \/ Collide(t))
           \/ tx[t].step = 6 /\ CheckReference(t)
           \/ tx[t].step = 7 /\ Refresh(t)
<1>1. \A s : At(t, s) =>
        \/ tx[t].step = 1 /\ s = "read"
        \/ tx[t].step = 2 /\ s = "begin"
        \/ tx[t].step = 3 /\ s = "store"
        \/ tx[t].step = 4 /\ s = "number"
        \/ tx[t].step = 5 /\ s = "insert"
        \/ tx[t].step = 6 /\ s = "reference"
        \/ tx[t].step = 7 /\ s = "refresh"
  BY SubmitPositions
<1> QED BY <1>1, StatementsAt DEF Statement

\* A statement of a submit keeps its invariant.
LEMMA SubmitStep ==
    ASSUME Shape, Shape', LocksInv, CommittedInv,
           NEW t \in Txs, Kind[t] = "submit", Typed(t), SubmitInv(t), EventInv(t),
           tx[t].state = "open", Statement(t), ~ CollideAtLast(t)
    PROVE  SubmitInv(t)' /\ EventInv(t)' /\ Typed(t)'
<1> USE DEF Only, Does
<1>0. /\ operations \in [OperationIds -> Operation] /\ outbox \in [OperationIds -> SubmitIntent]
      /\ tx[t].operation \in Operation \cup {Null} /\ tx[t].intent \in SubmitIntent \cup {Null}
      /\ Op \in OperationIds /\ Null \notin Operation /\ Null \notin SubmitIntent
      /\ tx[t].id \in Nat /\ Len(Program(Kind[t])) = 7
  BY Constants, Lengths DEF CommittedInv, Typed, Shape
<1>1. CASE tx[t].step = 1 /\ Read(t)
  <2>1. /\ Moved(t, "read") /\ tx'[t].step = 2 /\ Nothing(t)' /\ tx'[t].won = tx[t].won
        /\ tx'[t].state = tx[t].state
    BY <1>1, ReadDoes DEF SubmitInv, Nothing
  <2>2. held'[t] # {} => Write(t)'
    BY <2>1, HeldWrites DEF LocksOf, SubmitInv
  <2> QED BY <1>1, <2>1, <2>2 DEF SubmitInv, EventInv, Typed, Nothing
<1>2. CASE tx[t].step = 2 /\ BeginProcessing(t)
  <2>0. Nothing(t) /\ ~ tx[t].won /\ OperationsOf(t) = operations
    BY <1>2 DEF SubmitInv, Nothing, OperationsOf
  <2>1. Moved(t, "begin")
    BY BeginDoes, <1>2
  <2>2. held'[t] # {} => Write(t)'
    BY <2>1, HeldWrites DEF SubmitInv
  <2>3. CASE ~ CanBeginProcessing(operations, Op)
    <3>0. Only(tx'[t], tx[t], {"step", "copy"}) /\ tx'[t].step = Len(Program(Kind[t])) + 1
      BY <1>2, <2>0, <2>3, BeginDoes
    <3>1. /\ tx'[t].step = 8 /\ Nothing(t)' /\ tx'[t].won = tx[t].won
          /\ tx'[t].state = tx[t].state
      BY <1>0, <2>0, <3>0 DEF Nothing
    <3> QED BY <2>0, <2>2, <3>1 DEF SubmitInv, EventInv, Typed, Nothing
  <2>4. CASE CanBeginProcessing(operations, Op)
    <3> DEFINE table == TryBeginProcessing(operations, Op)
    <3>1. /\ tx'[t].step = 3 /\ tx'[t].won /\ tx'[t].intent = Null /\ tx'[t].event = {}
          /\ tx'[t].receipt = {} /\ tx'[t].state = tx[t].state
          /\ tx'[t].operation = IF table = OperationsOf(t) THEN tx[t].operation ELSE table[Op]
      BY <1>2, <2>0, <2>4, BeginDoes DEF Nothing
    <3>2. table \in [OperationIds -> Operation] /\ \A o \in OperationIds \ {Op} : table[o] = operations[o]
      BY <1>0 DEF TryBeginProcessing, Operation, OperationStatus
    <3>3. OperationsOf(t)' = table /\ tx'[t].operation \in Operation \cup {Null}
      BY <1>0, <2>1, <3>1, <3>2, Gains, WroteOperation
    <3>4. Write(t)'
      <4>1. OperationRow("no key") \in Needs(t)
        BY <2>0, <2>1, <2>4 DEF Needs, Moved, CanBeginProcessing
      <4> QED BY <2>1, <4>1, Gains DEF Write
    <3> QED BY <2>2, <2>4, <3>1, <3>2, <3>3, <3>4, Gains, <2>1
            DEF SubmitInv, EventInv, Typed, CanBeginProcessing
  <2> QED BY <2>0, <2>3, <2>4
<1>3. ASSUME tx[t].step \in 3 .. 7
      PROVE  /\ tx[t].won /\ Write(t) /\ operations[Op].status = "CREATED"
             /\ OperationsOf(t) = TryBeginProcessing(operations, Op)
             /\ IF tx[t].step = 3 THEN tx[t].intent = Null
                ELSE OutboxOf(t) = CreateIntent(outbox, Op, Op)
             /\ tx[t].event # {} <=> tx[t].step >= 6
             /\ tx[t].receipt = {}
  BY <1>3 DEF SubmitInv
<1>4. CASE tx[t].step = 3 /\ StoreIntent(t)
  <2> DEFINE table == CreateIntent(outbox, Op, Op)
  <2>1. tx[t].intent = Null /\ OutboxOf(t) = outbox
    BY <1>3, <1>4 DEF OutboxOf
  <2>2. Run(t, "store") /\ Advance(t, WritesIntent(t, table))
    BY <1>4, <2>1 DEF StoreIntent
  <2>3. Does(t, "store", {"step", "intent"}) /\ tx'[t].step = 4
    BY <1>4, <2>2, IntentDoes
  <2>4. tx'[t].intent = IF table = OutboxOf(t) THEN tx[t].intent ELSE table[Op]
    BY <2>2, IntentDoes
  <2>5. table \in [OperationIds -> SubmitIntent] /\ \A o \in OperationIds \ {Op} : table[o] = outbox[o]
    BY <1>0 DEF CreateIntent, SubmitIntent, NoIntent, IntentState, LeaseState, ErrorClass
  <2>6. OutboxOf(t)' = table /\ tx'[t].intent \in SubmitIntent \cup {Null}
    BY <1>0, <2>3, <2>4, <2>5, Gains, WroteIntent
  <2>7. OperationsOf(t)' = OperationsOf(t)
    BY <2>3, Gains DEF OperationsOf
  <2> QED BY <1>3, <1>4, <2>3, <2>6, <2>7, Gains DEF SubmitInv, EventInv, Typed
<1>5. ASSUME NEW s, Moved(t, s), tx[t].step \in 4 .. 7, tx'[t].step = tx[t].step + 1,
             Only(tx'[t], tx[t], {"step", "id", "first", "copy", "event"}),
             tx[t].step = 5 => tx'[t].event # {},
             tx[t].step # 5 => tx'[t].event = tx[t].event
      PROVE  SubmitInv(t)'
  <2>1. OperationsOf(t)' = OperationsOf(t) /\ OutboxOf(t)' = OutboxOf(t)
    BY <1>5, Gains DEF OperationsOf, OutboxOf
  <2> QED BY <1>3, <1>5, <2>1, Gains DEF SubmitInv
<1>6. CASE tx[t].step = 4 /\ NumberEvent(t)
  <2>1. Does(t, "number", {"step", "id", "first"}) /\ tx'[t].step = 5
    BY <1>6, NumberDoes
  <2> QED BY <1>3, <1>5, <1>6, <2>1 DEF EventInv, Typed
<1>7. CASE tx[t].step = 5 /\ InsertEvent(t)
  <2>1. Does(t, "insert", {"step", "event"}) /\ tx'[t].step = 6 /\ tx'[t].event = {EventOf(t)}
    BY <1>7, InsertDoes
  <2>2. EventOf(t)' = EventOf(t) /\ EventOf(t) \in EventRow
    BY <1>0, <2>1, EventSame, EventTyped DEF Receipts
  <2> QED BY <1>5, <1>7, <2>1, <2>2 DEF EventInv, Typed
<1>8. CASE tx[t].step = 5 /\ Collide(t)
  <2>1. /\ Only(tx'[t], tx[t], {"step", "tries"}) /\ tx'[t].step = 4
        /\ UNCHANGED <<committed, held>>
    BY <1>8, CollideDoes
  <2>2. OperationsOf(t)' = OperationsOf(t) /\ OutboxOf(t)' = OutboxOf(t) /\ Write(t)' = Write(t)
    BY <2>1 DEF OperationsOf, OutboxOf, Write, committed
  <2> QED BY <1>3, <1>8, <2>1, <2>2 DEF SubmitInv, EventInv, Typed, committed
<1>9. CASE tx[t].step = 6 /\ CheckReference(t)
  <2>1. Does(t, "reference", {"step"}) /\ tx'[t].step = 7
    BY <1>9, PassDoes DEF CheckReference
  <2>2. EventOf(t)' = EventOf(t)
    BY <2>1, EventSame
  <2> QED BY <1>5, <1>9, <2>1, <2>2 DEF EventInv, Typed
<1>10. CASE tx[t].step = 7 /\ Refresh(t)
  <2>1. Does(t, "refresh", {"step", "copy"}) /\ tx'[t].step = 8
    BY <1>10, CopyDoes DEF Refresh
  <2>2. EventOf(t)' = EventOf(t)
    BY <2>1, EventSame DEF Receipts
  <2> QED BY <1>5, <1>10, <2>1, <2>2 DEF EventInv, Typed
<1> QED BY <1>1, <1>2, <1>4, <1>6, <1>7, <1>8, <1>9, <1>10, SubmitRuns

-----------------------------------------------------------------------------
(* Tables after a write to the row of the operation *)

\* A table that differs from another in the row of Op at most.
RowOf(new, old) == \A o \in OperationIds \ {Op} : new[o] = old[o]

\* The statements that write the operation leave a table of operations.
LEMMA OperationTables ==
    ASSUME NEW ops \in [OperationIds -> Operation], NEW p \in PaymentIds,
           NEW s \in TerminalStatuses
    PROVE  /\ LinkProviderPayment(ops, Op, p) \in [OperationIds -> Operation]
           /\ RowOf(LinkProviderPayment(ops, Op, p), ops)
           /\ LinkProviderPayment(ops, Op, p)[Op].status = ops[Op].status
           /\ LinkProviderPayment(ops, Op, p)[Op].payment # Null
           /\ TryFinalize(ops, Op, s) \in [OperationIds -> Operation]
           /\ RowOf(TryFinalize(ops, Op, s), ops)
<1>1. Op \in OperationIds /\ Null \notin PaymentIds
  BY Constants, NullAssumption
<1> QED BY <1>1 DEF LinkProviderPayment, TryFinalize, Operation, OperationStatus, TerminalStatuses, RowOf

\* The statements that write the intent leave a table of intents.
LEMMA IntentTables ==
    ASSUME NEW ob \in [OperationIds -> SubmitIntent], NEW class \in ErrorClass
    PROVE  /\ MarkDone(ob, Op) \in [OperationIds -> SubmitIntent]
           /\ RowOf(MarkDone(ob, Op), ob)
           /\ MarkDone(ob, Op)[Op].state = "DONE"
           /\ Reschedule(ob, Op, class) \in [OperationIds -> SubmitIntent]
           /\ RowOf(Reschedule(ob, Op, class), ob)
           /\ MarkFailed(ob, Op, class) \in [OperationIds -> SubmitIntent]
           /\ RowOf(MarkFailed(ob, Op, class), ob)
<1>0. Op \in OperationIds
  BY Constants
<1> USE DEF SubmitIntent, IntentState, LeaseState, ErrorClass
<1>1. MarkDone(ob, Op) \in [OperationIds -> SubmitIntent]
  BY DEF MarkDone
<1>2. RowOf(MarkDone(ob, Op), ob) /\ MarkDone(ob, Op)[Op].state = "DONE"
  BY <1>0 DEF MarkDone, RowOf
<1>3. Reschedule(ob, Op, class) \in [OperationIds -> SubmitIntent]
  <2>1. \A row \in SubmitIntent :
          [row EXCEPT !.state = "PENDING", !.due = FALSE, !.lease = "null",
                      !.error = class] \in SubmitIntent
    OBVIOUS
  <2> QED BY <2>1 DEF Reschedule
<1>4. MarkFailed(ob, Op, class) \in [OperationIds -> SubmitIntent]
  <2>1. \A row \in SubmitIntent :
          [row EXCEPT !.state = "FAILED", !.lease = "null", !.error = class] \in SubmitIntent
    OBVIOUS
  <2> QED BY <2>1 DEF MarkFailed
<1>5. RowOf(Reschedule(ob, Op, class), ob) /\ RowOf(MarkFailed(ob, Op, class), ob)
  BY <1>0 DEF Reschedule, MarkFailed, RowOf
<1> QED BY <1>1, <1>2, <1>3, <1>4, <1>5

-----------------------------------------------------------------------------
(* A receipt *)

\* The steps of a receipt, by position.
LEMMA ReceiptRuns ==
    ASSUME Shape, NEW t \in Txs, Kind[t] \in Receipts, Statement(t), ~ CollideAtLast(t), ~ Mismatch(t)
    PROVE  \/ tx[t].step = 1 /\ LockOperation(t)
           \/ tx[t].step = 2 /\ TryRecord(t)
           \/ tx[t].step = 3 /\ Link(t)
           \/ tx[t].step = 4 /\ Finalize(t)
           \/ tx[t].step = 5 /\ NumberEvent(t)
           \/ tx[t].step = 6 /\ (InsertEvent(t) \/ Collide(t))
           \/ tx[t].step = 7 /\ CheckReference(t)
           \/ tx[t].step = 8 /\ Close(t)
<1>1. ASSUME NEW s, At(t, s)
      PROVE  \/ tx[t].step = 1 /\ s = "lock"
             \/ tx[t].step = 2 /\ s = "record"
             \/ tx[t].step = 3 /\ s = "link"
             \/ tx[t].step = 4 /\ s = "finalize"
             \/ tx[t].step = 5 /\ s = "number"
             \/ tx[t].step = 6 /\ s = "insert"
             \/ tx[t].step = 7 /\ s = "reference"
             \/ tx[t].step = 8 /\ s = "close"
  <2>1. tx[t].step \in 1 .. 8 /\ s = Program(Kind[t])[tx[t].step]
    BY <1>1, Positions, Lengths, Constants DEF Receipts
  <2> QED BY <2>1 DEF Program, Receipts
<1> QED BY <1>1, StatementsAt DEF Statement

\* A statement of a receipt keeps its invariant.
LEMMA ReceiptStep ==
    ASSUME Shape, Shape', LocksInv, CommittedInv,
           NEW t \in Txs, Kind[t] \in Receipts, Typed(t), ReceiptInv(t), EventInv(t),
           tx[t].state = "open", Statement(t), ~ CollideAtLast(t), ~ Mismatch(t)
    PROVE  ReceiptInv(t)' /\ EventInv(t)' /\ Typed(t)'
<1> USE DEF Only, Does
<1> DEFINE p == PaymentOf[t]
           target == ResultToStatus(Result(t))
           linked == LinkProviderPayment(operations, Op, p)
           final == TryFinalize(linked, Op, target)
<1>0. /\ operations \in [OperationIds -> Operation] /\ outbox \in [OperationIds -> SubmitIntent]
      /\ tx[t].operation \in Operation \cup {Null} /\ tx[t].intent \in SubmitIntent \cup {Null}
      /\ Op \in OperationIds /\ Null \notin Operation /\ Null \notin SubmitIntent
      /\ operations[Op].status \in OperationStatus
      /\ tx[t].id \in Nat /\ Len(Program(Kind[t])) = 8 /\ p \in PaymentIds
      /\ Kind[t] # "claim" /\ Kind[t] # "submit" /\ Kind[t] # "accepted"
      /\ target \in TerminalStatuses /\ Result(t) \in ReceiptResult
  BY Constants, Lengths
     DEF CommittedInv, Typed, Shape, Receipts, ResultToStatus, Result, TerminalStatuses, ReceiptResult
<1>a. /\ linked \in [OperationIds -> Operation] /\ RowOf(linked, operations)
      /\ final \in [OperationIds -> Operation] /\ RowOf(final, operations)
  BY <1>0, OperationTables DEF RowOf
<1> HIDE DEF p, target, linked, final
<1>1. CASE tx[t].step = 1 /\ LockOperation(t)
  <2>1. Nothing(t) /\ OperationsOf(t) = operations
    BY <1>1 DEF ReceiptInv, Nothing, OperationsOf
  <2>2. /\ Does(t, "lock", {"step", "copy"}) /\ tx'[t].step = 2
        /\ tx'[t].copy = operations[Op] /\ operations[Op].payment \in {Null, p}
    BY <1>1, <2>1, CopyDoes DEF LockOperation, p
  <2>3. OperationRow("update") \in Needs(t)
    BY <2>2 DEF Moved, Needs
  <2>4. Write(t)'
    BY <2>2, <2>3, Gains DEF Write
  <2> QED BY <1>0, <2>1, <2>2, <2>4, Gains DEF ReceiptInv, EventInv, Typed, Nothing, p
<1>2. ASSUME tx[t].step \in 2 .. 8
      PROVE  /\ Write(t)
             /\ tx[t].copy = operations[Op] /\ tx[t].copy.payment \in {Null, p}
             /\ tx[t].copy.status \in OperationStatus
             /\ tx[t].step > 2 =>
                /\ ~ AlreadyRecorded(receipts, Op, p, Result(t))
                /\ tx[t].receipt = RecordReceipt({}, Op, p, Result(t), Applies(t), Reason(t))
             /\ tx[t].step = 2 => tx[t].receipt = {}
             /\ ~ Applies(t) \/ tx[t].step <= 3 => tx[t].operation = Null
             /\ Applies(t) /\ tx[t].step = 4 => OperationsOf(t) = linked
             /\ Applies(t) /\ tx[t].step > 4 => OperationsOf(t) = final
             /\ tx[t].intent = Null
             /\ tx[t].event # {} <=> tx[t].step >= 7
  BY <1>0, <1>2 DEF ReceiptInv, p, target, linked, final
<1>3. ASSUME tx'[t].copy = tx[t].copy
      PROVE  Applies(t)' = Applies(t) /\ Reason(t)' = Reason(t) /\ Result(t)' = Result(t)
  BY <1>3 DEF Applies, Reason, Result
<1>4. CASE tx[t].step = 2 /\ TryRecord(t)
  <2>1. Run(t, "record") /\ tx[t].operation = Null /\ tx[t].intent = Null /\ tx[t].event = {}
    BY <1>2, <1>4 DEF TryRecord
  <2>2. CASE AlreadyRecorded(receipts, Op, p, Result(t))
    <3>1. Leave(t, tx[t])
      BY <1>4, <2>2 DEF TryRecord, p
    <3>0. Does(t, "record", {"step"}) /\ tx'[t].step = Len(Program(Kind[t])) + 1
      BY ONLY Shape, t \in Txs, <2>1, <3>1, PassDoes
    <3>2. Does(t, "record", {"step"}) /\ tx'[t].step = 9
      BY <1>0, <3>0
    <3>3. Write(t)'
      BY <1>2, <1>4, <3>2, Gains
    <3> QED BY <1>2, <1>4, <2>1, <3>2, <3>3 DEF ReceiptInv, EventInv, Typed, Nothing
  <2>3. CASE ~ AlreadyRecorded(receipts, Op, p, Result(t))
    <3> DEFINE rs == RecordReceipt({}, Op, p, Result(t), Applies(t), Reason(t))
    <3>1. Advance(t, [tx[t] EXCEPT !.receipt = rs])
      BY <1>4, <2>3 DEF TryRecord, Reason, p
    <3>2. rs \subseteq Receipt
      BY <1>0 DEF RecordReceipt, Receipt, Reason, IgnoreReason, Applies
    <3> HIDE DEF rs
    <3>3. Does(t, "record", {"step", "receipt"}) /\ tx'[t].step = 3 /\ tx'[t].receipt = rs
      BY <1>4, <2>1, <3>1, RecordDoes
    <3>4. Write(t)' /\ operations' = operations /\ receipts' = receipts
      BY <1>2, <1>4, <3>3, Gains
    <3> QED BY <1>2, <1>3, <1>4, <2>1, <2>3, <3>2, <3>3, <3>4
            DEF ReceiptInv, EventInv, Typed, p, rs
  <2> QED BY <2>2, <2>3
<1>5. ASSUME NEW s, Moved(t, s), tx[t].step \in 3 .. 8, tx'[t].step = tx[t].step + 1,
             Only(tx'[t], tx[t], {"step", "id", "first", "event", "operation", "intent"}),
             tx[t].step = 6 => tx'[t].event # {},
             tx[t].step # 6 => tx'[t].event = tx[t].event,
             ~ Applies(t) => tx'[t].operation = Null /\ tx'[t].intent = Null,
             Applies(t) => OperationsOf(t)' = IF tx[t].step = 3 THEN linked ELSE final,
             Applies(t) => IF tx[t].step = 8 THEN IntentRow \in held'[t] /\ OutboxOf(t)' = MarkDone(outbox, Op)
                           ELSE tx'[t].intent = Null
      PROVE  ReceiptInv(t)'
  <2>1. /\ Write(t)' /\ operations' = operations /\ receipts' = receipts /\ outbox' = outbox
        /\ Applies(t)' = Applies(t) /\ Reason(t)' = Reason(t) /\ Result(t)' = Result(t)
    BY <1>2, <1>3, <1>5, Gains
  <2> QED BY <1>2, <1>5, <2>1 DEF ReceiptInv, p, target, linked, final
<1>6. ASSUME Moved(t, "link") \/ Moved(t, "finalize") \/ Moved(t, "close"),
             Only(tx'[t], tx[t], {"step", "operation", "intent"}),
             tx'[t].operation \in Operation \cup {Null}, tx'[t].intent \in SubmitIntent \cup {Null}
      PROVE  EventInv(t)' /\ Typed(t)'
  <2>1. EventOf(t)' = EventOf(t)
    BY <1>0, <1>6, EventSame
  <2> QED BY <1>6, <2>1 DEF EventInv, Typed
<1>7. CASE tx[t].step = 3 /\ Link(t)
  <2>1. Run(t, "link") /\ OperationsOf(t) = operations
    BY <1>2, <1>7 DEF Link, OperationsOf
  <2>2. CASE ~ Applies(t)
    <3>1. Does(t, "link", {"step"}) /\ tx'[t].step = 4
      BY <1>7, <2>1, <2>2, PassDoes DEF Link
    <3> QED BY <1>0, <1>2, <1>5, <1>6, <1>7, <2>2, <3>1
  <2>3. CASE Applies(t)
    <3>1. Advance(t, WritesOperation(t, linked))
      BY <1>7, <2>1, <2>3 DEF Link, linked, p
    <3>2. /\ Does(t, "link", {"step", "operation"}) /\ tx'[t].step = 4
          /\ tx'[t].operation = IF linked = OperationsOf(t) THEN tx[t].operation ELSE linked[Op]
      BY <1>7, <2>1, <3>1, OperationDoes
    <3>3. OperationsOf(t)' = linked /\ tx'[t].operation \in Operation \cup {Null}
      BY <1>0, <1>a, <3>2, Gains, WroteOperation DEF RowOf
    <3> QED BY <1>0, <1>2, <1>5, <1>6, <1>7, <2>3, <3>2, <3>3
  <2> QED BY <2>2, <2>3
<1>8. CASE tx[t].step = 4 /\ Finalize(t)
  <2>1. Run(t, "finalize")
    BY <1>8 DEF Finalize
  <2>2. CASE ~ Applies(t)
    <3>1. Does(t, "finalize", {"step"}) /\ tx'[t].step = 5
      BY <1>8, <2>1, <2>2, PassDoes DEF Finalize
    <3> QED BY <1>0, <1>2, <1>5, <1>6, <1>8, <2>2, <3>1
  <2>3. CASE Applies(t)
    <3>1. Advance(t, WritesOperation(t, final))
      BY <1>2, <1>8, <2>1, <2>3 DEF Finalize, final, target
    <3>2. /\ Does(t, "finalize", {"step", "operation"}) /\ tx'[t].step = 5
          /\ tx'[t].operation = IF final = OperationsOf(t) THEN tx[t].operation ELSE final[Op]
      BY <1>8, <2>1, <3>1, OperationDoes
    <3>3. OperationsOf(t)' = final /\ tx'[t].operation \in Operation \cup {Null}
      BY <1>0, <1>a, <3>2, Gains, WroteOperation DEF RowOf
    <3> QED BY <1>0, <1>2, <1>5, <1>6, <1>8, <2>3, <3>2, <3>3
  <2> QED BY <2>2, <2>3
<1>9. CASE tx[t].step = 8 /\ Close(t)
  <2>1. Run(t, "close") /\ OutboxOf(t) = outbox
    BY <1>2, <1>9 DEF Close, OutboxOf
  <2>2. CASE ~ Applies(t)
    <3>1. Does(t, "close", {"step"}) /\ tx'[t].step = 9
      BY <1>9, <2>1, <2>2, PassDoes DEF Close
    <3> QED BY <1>0, <1>2, <1>5, <1>6, <1>9, <2>2, <3>1
  <2>3. CASE Applies(t)
    <3> DEFINE table == MarkDone(outbox, Op)
    <3>1. Advance(t, WritesIntent(t, table))
      BY <1>9, <2>1, <2>3 DEF Close
    <3>2. table \in [OperationIds -> SubmitIntent] /\ RowOf(table, outbox)
      BY <1>0, IntentTables DEF ErrorClass
    <3> HIDE DEF table
    <3>3. /\ Does(t, "close", {"step", "intent"}) /\ tx'[t].step = 9
          /\ tx'[t].intent = IF table = OutboxOf(t) THEN tx[t].intent ELSE table[Op]
      BY <1>9, <2>1, <3>1, IntentDoes
    <3>4. OutboxOf(t)' = table /\ tx'[t].intent \in SubmitIntent \cup {Null}
      BY <1>0, <3>2, <3>3, Gains, WroteIntent DEF RowOf
    <3>5. IntentRow \in held'[t]
      <4>1. IntentRow \in Needs(t)
        BY <2>3, <3>3 DEF Moved, Needs
      <4> QED BY <3>3, <4>1, Gains
    <3>6. OperationsOf(t)' = final
      BY <1>2, <1>9, <2>3, <3>3, Gains DEF OperationsOf
    <3> QED BY <1>0, <1>2, <1>5, <1>6, <1>9, <2>3, <3>3, <3>4, <3>5, <3>6 DEF table
  <2> QED BY <2>2, <2>3
<1>10. ASSUME NEW s, Moved(t, s), tx[t].step \in 5 .. 7,
              Only(tx'[t], tx[t], {"step", "id", "first", "event"})
       PROVE  /\ ~ Applies(t) => tx'[t].operation = Null /\ tx'[t].intent = Null
              /\ Applies(t) => OperationsOf(t)' = final
              /\ tx'[t].intent = Null
  BY <1>2, <1>10, Gains DEF OperationsOf
<1>11. CASE tx[t].step = 5 /\ NumberEvent(t)
  <2>1. Does(t, "number", {"step", "id", "first"}) /\ tx'[t].step = 6
    BY <1>11, NumberDoes
  <2> QED BY <1>2, <1>5, <1>10, <1>11, <2>1 DEF EventInv, Typed
<1>12. CASE tx[t].step = 6 /\ InsertEvent(t)
  <2>1. Does(t, "insert", {"step", "event"}) /\ tx'[t].step = 7 /\ tx'[t].event = {EventOf(t)}
    BY <1>12, InsertDoes
  <2>2. EventOf(t)' = EventOf(t) /\ EventOf(t) \in EventRow
    BY <1>0, <1>2, <1>12, <2>1, EventSame, EventTyped
  <2> QED BY <1>5, <1>10, <1>12, <2>1, <2>2 DEF EventInv, Typed
<1>13. CASE tx[t].step = 6 /\ Collide(t)
  <2>1. /\ Only(tx'[t], tx[t], {"step", "tries"}) /\ tx'[t].step = 5
        /\ UNCHANGED <<committed, held>>
    BY <1>13, CollideDoes
  <2>2. /\ OperationsOf(t)' = OperationsOf(t) /\ Write(t)' = Write(t)
        /\ Applies(t)' = Applies(t) /\ Reason(t)' = Reason(t) /\ Result(t)' = Result(t)
        /\ operations' = operations /\ receipts' = receipts
    BY <1>3, <2>1 DEF OperationsOf, Write, committed
  <2>3. EventInv(t)' /\ Typed(t)'
    BY <1>2, <1>13, <2>1 DEF EventInv, Typed
  <2> QED BY <1>2, <1>13, <2>1, <2>2, <2>3 DEF ReceiptInv, p, target, linked, final
<1>14. CASE tx[t].step = 7 /\ CheckReference(t)
  <2>1. Does(t, "reference", {"step"}) /\ tx'[t].step = 8
    BY <1>14, PassDoes DEF CheckReference
  <2>2. EventOf(t)' = EventOf(t)
    BY <1>0, <2>1, EventSame
  <2> QED BY <1>5, <1>10, <1>14, <2>1, <2>2 DEF EventInv, Typed
<1> QED BY <1>1, <1>4, <1>7, <1>8, <1>9, <1>11, <1>12, <1>13, <1>14, ReceiptRuns

-----------------------------------------------------------------------------
(* An answer of the provider *)

\* The steps of the recording of an answer, by position.
LEMMA AcceptedRuns ==
    ASSUME Shape, NEW t \in Txs, Kind[t] = "accepted", Statement(t), ~ CollideAtLast(t)
    PROVE  \/ tx[t].step = 1 /\ Link(t)
           \/ tx[t].step = 2 /\ Read(t)
           \/ tx[t].step = 3 /\ NumberEvent(t)
           \/ tx[t].step = 4 /\ (InsertEvent(t) \/ Collide(t))
           \/ tx[t].step = 5 /\ CheckReference(t)
           \/ tx[t].step = 6 /\ Close(t)
<1>1. ASSUME NEW s, At(t, s)
      PROVE  \/ tx[t].step = 1 /\ s = "link"
             \/ tx[t].step = 2 /\ s = "read"
             \/ tx[t].step = 3 /\ s = "number"
             \/ tx[t].step = 4 /\ s = "insert"
             \/ tx[t].step = 5 /\ s = "reference"
             \/ tx[t].step = 6 /\ s = "close"
  <2>1. tx[t].step \in 1 .. 6 /\ s = Program(Kind[t])[tx[t].step]
    BY <1>1, Positions, Lengths, Constants DEF Receipts
  <2> QED BY <2>1 DEF Program, Receipts
<1> QED BY <1>1, StatementsAt DEF Statement

\* A statement of the recording of an answer keeps its invariant.
LEMMA AcceptedStep ==
    ASSUME Shape, Shape', LocksInv, CommittedInv, outbox[Op].state # Absent,
           NEW t \in Txs, Kind[t] = "accepted", Typed(t), AcceptedInv(t), EventInv(t),
           tx[t].state = "open", Statement(t), ~ CollideAtLast(t)
    PROVE  AcceptedInv(t)' /\ EventInv(t)' /\ Typed(t)'
<1> USE DEF Only, Does
<1> DEFINE p == PaymentOf[t]
           linked == LinkProviderPayment(operations, Op, p)
<1>0. /\ operations \in [OperationIds -> Operation] /\ outbox \in [OperationIds -> SubmitIntent]
      /\ tx[t].operation \in Operation \cup {Null} /\ tx[t].intent \in SubmitIntent \cup {Null}
      /\ Op \in OperationIds /\ Null \notin Operation /\ Null \notin SubmitIntent
      /\ operations[Op].status \in OperationStatus
      /\ tx[t].id \in Nat /\ Len(Program(Kind[t])) = 6 /\ p \in PaymentIds
      /\ Kind[t] # "claim" /\ Kind[t] # "submit" /\ Kind[t] \notin Receipts
  BY Constants, Lengths DEF CommittedInv, Typed, Shape, Receipts
<1>a. /\ linked \in [OperationIds -> Operation] /\ RowOf(linked, operations)
      /\ linked[Op].status = operations[Op].status /\ linked[Op].payment # Null
      /\ operations[Op].payment # Null => linked = operations
  <2>1. "COMPLETED" \in TerminalStatuses
    BY DEF TerminalStatuses
  <2> QED BY <1>0, <2>1, OperationTables DEF LinkProviderPayment
<1>p. p = PaymentOf[t]
  OBVIOUS
<1>l. linked = LinkProviderPayment(operations, Op, PaymentOf[t])
  OBVIOUS
<1> HIDE DEF p, linked
<1>1. CASE tx[t].step = 1 /\ Link(t)
  <2>0. tx[t].operation = Null /\ OperationsOf(t) = operations /\ tx[t].event = {} /\ tx[t].intent = Null
    BY <1>1 DEF AcceptedInv, OperationsOf
  <2>1. Run(t, "link") /\ Advance(t, WritesOperation(t, linked))
    BY <1>0, <1>1, <1>l, <2>0 DEF Link
  <2>2. /\ Does(t, "link", {"step", "operation"}) /\ tx'[t].step = 2
        /\ tx'[t].operation = IF linked = OperationsOf(t) THEN tx[t].operation ELSE linked[Op]
    BY <1>1, <2>1, OperationDoes
  <2>3. /\ OperationsOf(t)' = linked /\ tx'[t].operation \in Operation \cup {Null}
        /\ tx'[t].operation = Null => linked = operations
        /\ linked = operations => tx'[t].operation = Null
    BY <1>0, <1>a, <2>0, <2>2, Gains, WroteOperation DEF RowOf
  <2>4. tx'[t].operation # Null => Write(t)'
    <3> SUFFICES ASSUME operations[Op].payment = Null PROVE Write(t)'
      BY <1>a, <2>3
    <3>1. OperationRow("update") \in Needs(t)
      BY <1>0, <2>0, <2>2 DEF Moved, Needs
    <3> QED BY <2>2, <3>1, Gains DEF Write
  <2>5. tx'[t].operation = Null => operations[Op].payment # Null
    BY <1>a, <2>3
  <2>6. operations' = operations
    BY <2>2, Gains
  <2> QED BY <1>0, <1>l, <2>0, <2>2, <2>3, <2>4, <2>5, <2>6 DEF AcceptedInv, EventInv, Typed
<1>2. ASSUME tx[t].step \in 2 .. 6
      PROVE  /\ tx[t].receipt = {}
             /\ OperationsOf(t) = linked
             /\ tx[t].operation = Null => operations[Op].payment # Null
             /\ tx[t].operation # Null => Write(t)
             /\ tx[t].step > 2 => tx[t].copy.status \in OperationStatus
             /\ tx[t].step > 2 => \/ tx[t].copy.status = operations[Op].status
                                  \/ tx[t].copy.status = "PROCESSING" /\ Acknowledged
             /\ tx[t].intent = Null
             /\ tx[t].event # {} <=> tx[t].step >= 5
  BY <1>0, <1>2, <1>l DEF AcceptedInv
<1>5. ASSUME NEW s, Moved(t, s), tx[t].step \in 2 .. 6, tx'[t].step = tx[t].step + 1,
             Only(tx'[t], tx[t], {"step", "id", "first", "event", "copy", "intent"}),
             tx[t].step = 4 => tx'[t].event # {},
             tx[t].step # 4 => tx'[t].event = tx[t].event,
             IF tx[t].step = 2 THEN tx'[t].copy = OperationsOf(t)[Op] ELSE tx'[t].copy = tx[t].copy,
             IF tx[t].step = 6 THEN IntentRow \in held'[t] /\ OutboxOf(t)' = MarkDone(outbox, Op)
             ELSE tx'[t].intent = Null
      PROVE  AcceptedInv(t)'
  <2>1. /\ Write(t) => Write(t)'
        /\ operations' = operations /\ receipts' = receipts
        /\ outbox' = outbox /\ OperationsOf(t)' = OperationsOf(t) /\ Acknowledged' = Acknowledged
    BY <1>5, Gains DEF OperationsOf, Acknowledged
  <2>2. /\ tx'[t].copy.status \in OperationStatus
        /\ \/ tx'[t].copy.status = operations[Op].status
           \/ tx'[t].copy.status = "PROCESSING" /\ Acknowledged
    BY <1>0, <1>2, <1>a, <1>5
  <2> QED BY <1>2, <1>5, <1>l, <2>1, <2>2 DEF AcceptedInv
<1>6. CASE tx[t].step = 2 /\ Read(t)
  <2>1. Does(t, "read", {"step", "copy", "since"}) /\ tx'[t].step = 3 /\ tx'[t].copy = OperationsOf(t)[Op]
    BY <1>6, ReadDoes
  <2>2. AcceptedInv(t)'
    <3>1. /\ operations' = operations /\ receipts' = receipts
          /\ outbox' = outbox /\ OperationsOf(t)' = OperationsOf(t) /\ Acknowledged' = Acknowledged
          /\ Write(t) => Write(t)'
      BY <2>1, Gains DEF OperationsOf, Acknowledged
    <3>2. tx'[t].copy.status = operations[Op].status
      BY <1>2, <1>6, <1>a, <2>1
    <3> QED BY <1>0, <1>2, <1>6, <1>l, <2>1, <3>1, <3>2 DEF AcceptedInv
  <2> QED BY <1>2, <1>6, <2>1, <2>2 DEF EventInv, Typed
<1>7. CASE tx[t].step = 3 /\ NumberEvent(t)
  <2>1. Does(t, "number", {"step", "id", "first"}) /\ tx'[t].step = 4
    BY <1>7, NumberDoes
  <2> QED BY <1>2, <1>5, <1>7, <2>1 DEF EventInv, Typed
<1>8. CASE tx[t].step = 4 /\ InsertEvent(t)
  <2>1. Does(t, "insert", {"step", "event"}) /\ tx'[t].step = 5 /\ tx'[t].event = {EventOf(t)}
    BY <1>8, InsertDoes
  <2>2. EventOf(t)' = EventOf(t) /\ EventOf(t) \in EventRow
    BY <1>0, <1>2, <1>8, <2>1, EventSame, EventTyped
  <2>3. AcceptedInv(t)'
    BY <1>2, <1>5, <1>8, <2>1
  <2> QED BY <1>8, <2>1, <2>2, <2>3 DEF EventInv, Typed
<1>9. CASE tx[t].step = 4 /\ Collide(t)
  <2>1. /\ Only(tx'[t], tx[t], {"step", "tries"}) /\ tx'[t].step = 3
        /\ UNCHANGED <<committed, held>>
    BY <1>9, CollideDoes
  <2>2. /\ OperationsOf(t)' = OperationsOf(t) /\ Write(t)' = Write(t)
        /\ operations' = operations /\ Acknowledged' = Acknowledged
    BY <2>1 DEF OperationsOf, Write, committed, Acknowledged
  <2> QED BY <1>2, <1>9, <1>l, <2>1, <2>2 DEF AcceptedInv, EventInv, Typed
<1>10. CASE tx[t].step = 5 /\ CheckReference(t)
  <2>1. Does(t, "reference", {"step"}) /\ tx'[t].step = 6
    BY <1>10, PassDoes DEF CheckReference
  <2>2. EventOf(t)' = EventOf(t)
    BY <1>0, <2>1, EventSame
  <2>3. AcceptedInv(t)'
    BY <1>2, <1>5, <1>10, <2>1
  <2> QED BY <1>10, <2>1, <2>2, <2>3 DEF EventInv, Typed
<1>11. CASE tx[t].step = 6 /\ Close(t)
  <2> DEFINE table == MarkDone(outbox, Op)
  <2>0. Run(t, "close") /\ OutboxOf(t) = outbox
    BY <1>2, <1>11 DEF Close, OutboxOf
  <2>1. Advance(t, WritesIntent(t, table))
    BY <1>0, <1>11, <2>0 DEF Close
  <2>2. table \in [OperationIds -> SubmitIntent] /\ RowOf(table, outbox)
    BY <1>0, IntentTables DEF ErrorClass
  <2>t. table = MarkDone(outbox, Op)
    OBVIOUS
  <2> HIDE DEF table
  <2>3. /\ Does(t, "close", {"step", "intent"}) /\ tx'[t].step = 7
        /\ tx'[t].intent = IF table = OutboxOf(t) THEN tx[t].intent ELSE table[Op]
    BY <1>11, <2>0, <2>1, IntentDoes
  <2>4. OutboxOf(t)' = table /\ tx'[t].intent \in SubmitIntent \cup {Null}
    BY <1>0, <2>2, <2>3, Gains, WroteIntent DEF RowOf
  <2>5. IntentRow \in held'[t]
    <3>1. IntentRow \in Needs(t)
      BY <1>0, <2>3 DEF Moved, Needs
    <3> QED BY <2>3, <3>1, Gains
  <2>6. EventOf(t)' = EventOf(t)
    BY <1>0, <2>3, EventSame
  <2>7. AcceptedInv(t)'
    BY <1>2, <1>5, <1>11, <2>3, <2>4, <2>5, <2>t
  <2> QED BY <1>11, <2>3, <2>4, <2>6, <2>7 DEF EventInv, Typed
<1> QED BY <1>1, <1>6, <1>7, <1>8, <1>9, <1>10, <1>11, AcceptedRuns

-----------------------------------------------------------------------------
(* A failure *)

\* The steps of the recording of a failure, by position.
LEMMA FailureRuns ==
    ASSUME Shape, NEW t \in Txs, Kind[t] \in {"unavailable", "refused"}, Statement(t),
           ~ CollideAtLast(t)
    PROVE  \/ tx[t].step = 1 /\ RecordsFailure(t)
                /\ At(t, IF Kind[t] = "unavailable" THEN "reschedule" ELSE "fail")
           \/ tx[t].step = 2 /\ NumberEvent(t)
           \/ tx[t].step = 3 /\ (InsertEvent(t) \/ Collide(t))
           \/ tx[t].step = 4 /\ CheckReference(t)
<1>1. ASSUME NEW s, At(t, s)
      PROVE  \/ tx[t].step = 1 /\ s = IF Kind[t] = "unavailable" THEN "reschedule" ELSE "fail"
             \/ tx[t].step = 2 /\ s = "number"
             \/ tx[t].step = 3 /\ s = "insert"
             \/ tx[t].step = 4 /\ s = "reference"
  <2>1. tx[t].step \in 1 .. 4 /\ s = Program(Kind[t])[tx[t].step]
    BY <1>1, Positions, Lengths, Constants DEF Receipts
  <2> QED BY <2>1 DEF Program, Receipts
<1> QED BY <1>1, StatementsAt DEF Statement

\* A statement of the recording of a failure keeps its invariant.
LEMMA FailureStep ==
    ASSUME Shape, Shape', LocksInv, CommittedInv,
           NEW t \in Txs, Kind[t] \in {"unavailable", "refused"},
           Typed(t), FailureInv(t), EventInv(t),
           tx[t].state = "open", Statement(t), ~ CollideAtLast(t)
    PROVE  FailureInv(t)' /\ EventInv(t)' /\ Typed(t)'
<1> USE DEF Only, Does
<1>0. /\ operations \in [OperationIds -> Operation] /\ outbox \in [OperationIds -> SubmitIntent]
      /\ tx[t].operation \in Operation \cup {Null} /\ tx[t].intent \in SubmitIntent \cup {Null}
      /\ Op \in OperationIds /\ Null \notin Operation /\ Null \notin SubmitIntent
      /\ tx[t].id \in Nat /\ Len(Program(Kind[t])) = 4
      /\ Kind[t] # "claim" /\ Kind[t] # "submit" /\ Kind[t] # "accepted" /\ Kind[t] \notin Receipts
  BY Constants, Lengths DEF CommittedInv, Typed, Shape, Receipts
<1>1. CASE /\ tx[t].step = 1 /\ RecordsFailure(t)
           /\ At(t, IF Kind[t] = "unavailable" THEN "reschedule" ELSE "fail")
  <2> DEFINE s == IF Kind[t] = "unavailable" THEN "reschedule" ELSE "fail"
             table == IF Kind[t] = "unavailable" THEN Reschedule(outbox, Op, "unavailable")
                      ELSE MarkFailed(outbox, Op, "rejected")
  <2>0. /\ tx[t].intent = Null /\ OutboxOf(t) = outbox /\ tx[t].event = {}
        /\ tx[t].operation = Null /\ tx[t].receipt = {}
    BY <1>1 DEF FailureInv, OutboxOf
  <2>1. Run(t, s) /\ Advance(t, WritesIntent(t, table))
    <3>1. \A x : At(t, x) => x = s
      BY <1>1 DEF At
    <3>2. /\ Run(t, "reschedule") => At(t, "reschedule")
          /\ Run(t, "fail") => At(t, "fail")
      BY DEF Run
    <3> QED BY <1>1, <2>0, <3>1, <3>2 DEF RecordsFailure
  <2>2. /\ table \in [OperationIds -> SubmitIntent] /\ RowOf(table, outbox)
    BY <1>0, IntentTables DEF ErrorClass
  <2>3. outbox[Op].state # "IN_FLIGHT" => table = outbox
    BY DEF Reschedule, MarkFailed
  <2>t. table = IF Kind[t] = "unavailable" THEN Reschedule(outbox, Op, "unavailable")
                ELSE MarkFailed(outbox, Op, "rejected")
    OBVIOUS
  <2>s. s = "reschedule" \/ s = "fail"
    OBVIOUS
  <2> HIDE DEF table, s
  <2>4. /\ Does(t, s, {"step", "intent"}) /\ tx'[t].step = 2
        /\ tx'[t].intent = IF table = OutboxOf(t) THEN tx[t].intent ELSE table[Op]
    BY <1>1, <2>1, IntentDoes
  <2>5. OutboxOf(t)' = table /\ tx'[t].intent \in SubmitIntent \cup {Null} /\ outbox' = outbox
    BY <1>0, <2>2, <2>4, Gains, WroteIntent DEF RowOf
  <2>6. tx'[t].intent # Null => IntentRow \in held'[t]
    <3> SUFFICES ASSUME outbox[Op].state = "IN_FLIGHT" PROVE IntentRow \in held'[t]
      BY <2>0, <2>3, <2>4
    <3>1. IntentRow \in Needs(t)
      BY <2>0, <2>4, <2>s DEF Moved, Needs
    <3> QED BY <2>4, <3>1, Gains
  <2> QED BY <2>0, <2>4, <2>5, <2>6, <2>t DEF FailureInv, EventInv, Typed
<1>5. ASSUME NEW s, Moved(t, s), tx[t].step \in 2 .. 4, tx'[t].step = tx[t].step + 1,
             Only(tx'[t], tx[t], {"step", "id", "first", "event"}),
             tx[t].step = 3 => tx'[t].event # {},
             tx[t].step # 3 => tx'[t].event = tx[t].event
      PROVE  FailureInv(t)'
  <2>1. OutboxOf(t)' = OutboxOf(t) /\ outbox' = outbox /\ held[t] \subseteq held'[t]
    BY <1>5, Gains DEF OutboxOf
  <2> QED BY <1>5, <2>1 DEF FailureInv
<1>7. CASE tx[t].step = 2 /\ NumberEvent(t)
  <2>1. Does(t, "number", {"step", "id", "first"}) /\ tx'[t].step = 3
    BY <1>7, NumberDoes
  <2> QED BY <1>5, <1>7, <2>1 DEF EventInv, Typed, FailureInv
<1>8. CASE tx[t].step = 3 /\ InsertEvent(t)
  <2>1. Does(t, "insert", {"step", "event"}) /\ tx'[t].step = 4 /\ tx'[t].event = {EventOf(t)}
    BY <1>8, InsertDoes
  <2>2. EventOf(t)' = EventOf(t) /\ EventOf(t) \in EventRow
    BY <1>0, <2>1, EventSame, EventTyped
  <2>3. FailureInv(t)'
    BY <1>5, <1>8, <2>1
  <2> QED BY <1>8, <2>1, <2>2, <2>3 DEF EventInv, Typed
<1>9. CASE tx[t].step = 3 /\ Collide(t)
  <2>1. /\ Only(tx'[t], tx[t], {"step", "tries"}) /\ tx'[t].step = 2
        /\ UNCHANGED <<committed, held>>
    BY <1>9, CollideDoes
  <2>2. OutboxOf(t)' = OutboxOf(t) /\ outbox' = outbox
    BY <2>1 DEF OutboxOf, committed
  <2> QED BY <1>9, <2>1, <2>2 DEF FailureInv, EventInv, Typed
<1>10. CASE tx[t].step = 4 /\ CheckReference(t)
  <2>1. Does(t, "reference", {"step"}) /\ tx'[t].step = 5
    BY <1>10, PassDoes DEF CheckReference
  <2>2. EventOf(t)' = EventOf(t)
    BY <1>0, <2>1, EventSame
  <2>3. FailureInv(t)'
    BY <1>5, <1>10, <2>1
  <2> QED BY <1>10, <2>1, <2>2, <2>3 DEF EventInv, Typed
<1> QED BY <1>1, <1>7, <1>8, <1>9, <1>10, FailureRuns

-----------------------------------------------------------------------------
(* A claim *)

\* What a claim does.
LEMMA ClaimDoes ==
    ASSUME Shape, NEW t \in Txs, ClaimIntent(t)
    PROVE  /\ At(t, "claim") /\ UNCHANGED <<committed, reply, faults>>
           /\ want'[t] = {} /\ Others(t) /\ tx'[t].step = tx[t].step + 1
           /\ Only(tx'[t], tx[t], {"step", "intent"})
           /\ IF Op \in Due(outbox) /\ Blockers(t, IntentRow) = {}
              THEN /\ held'[t] = held[t] \cup {IntentRow}
                   /\ tx'[t].intent = IF ClaimDue(outbox, {Op}) = OutboxOf(t) THEN tx[t].intent
                                      ELSE ClaimDue(outbox, {Op})[Op]
              ELSE held'[t] = held[t] /\ tx'[t].intent = tx[t].intent
<1>1. DOMAIN tx = Txs /\ DOMAIN held = Txs /\ DOMAIN want = Txs /\ IsTx(tx[t])
  BY DEF Shape
<1>2. At(t, "claim") /\ UNCHANGED <<committed, reply, faults>> /\ want' = [want EXCEPT ![t] = {}]
  BY DEF ClaimIntent
<1>3. ASSUME NEW p, Only(p, tx[t], {"intent"}), Advance(t, p)
      PROVE  /\ tx'[t].step = tx[t].step + 1 /\ tx'[t].intent = p.intent
             /\ Only(tx'[t], tx[t], {"step", "intent"})
             /\ \A u \in Txs \ {t} : tx'[u] = tx[u]
  <2>1. tx'[t] = [p EXCEPT !.step = p.step + 1] /\ \A u \in Txs \ {t} : tx'[u] = tx[u]
    BY <1>1, <1>3 DEF Advance
  <2>2. Only([p EXCEPT !.step = p.step + 1], p, {"step"}) /\ [p EXCEPT !.step = p.step + 1].step = p.step + 1
    BY <1>3, ExceptOnly1, OnlyTx
  <2>3. Only(tx'[t], p, {"step"}) /\ tx'[t].step = p.step + 1
    BY <2>1, <2>2
  <2> QED BY <1>3, <2>1, <2>3 DEF Only
<1>4. CASE Op \in Due(outbox) /\ Blockers(t, IntentRow) = {}
  <2> DEFINE v == IF ClaimDue(outbox, {Op}) = OutboxOf(t) THEN tx[t].intent
                  ELSE ClaimDue(outbox, {Op})[Op]
             p == [tx[t] EXCEPT !.intent = v]
  <2>1. Advance(t, p) /\ held' = [held EXCEPT ![t] = held[t] \cup {IntentRow}]
    BY <1>4 DEF ClaimIntent, WritesIntent
  <2> HIDE DEF v
  <2>2. Only(p, tx[t], {"intent"}) /\ p.intent = v
    BY <1>1, ExceptOnly1
  <2> HIDE DEF p
  <2>3. /\ tx'[t].step = tx[t].step + 1 /\ tx'[t].intent = v
        /\ Only(tx'[t], tx[t], {"step", "intent"})
        /\ \A u \in Txs \ {t} : tx'[u] = tx[u]
    BY <1>3, <2>1, <2>2
  <2> QED BY <1>1, <1>2, <1>4, <2>1, <2>3 DEF Others, v
<1>5. CASE ~ (Op \in Due(outbox) /\ Blockers(t, IntentRow) = {})
  <2>1. Advance(t, tx[t]) /\ held' = held
    BY <1>5 DEF ClaimIntent
  <2>2. Only(tx[t], tx[t], {"intent"})
    BY <1>1 DEF Only
  <2>3. /\ tx'[t].step = tx[t].step + 1 /\ tx'[t].intent = tx[t].intent
        /\ Only(tx'[t], tx[t], {"step", "intent"})
        /\ \A u \in Txs \ {t} : tx'[u] = tx[u]
    BY <1>3, <2>1, <2>2
  <2> QED BY <1>1, <1>2, <1>5, <2>1, <2>3 DEF Others
<1> QED BY <1>4, <1>5

\* The only step of a claim.
LEMMA ClaimRuns ==
    ASSUME Shape, NEW t \in Txs, Kind[t] = "claim", Statement(t)
    PROVE  tx[t].step = 1 /\ ClaimIntent(t)
<1>1. ASSUME NEW s, At(t, s)
      PROVE  tx[t].step = 1 /\ s = "claim"
  <2>1. tx[t].step \in 1 .. 1 /\ s = Program(Kind[t])[tx[t].step]
    BY <1>1, Positions, Lengths, Constants DEF Receipts
  <2> QED BY <2>1 DEF Program, Receipts
<1> QED BY <1>1, StatementsAt DEF Statement

\* A claim keeps its invariant.
LEMMA ClaimStep ==
    ASSUME Shape, Shape', LocksInv, CommittedInv,
           NEW t \in Txs, Kind[t] = "claim", Typed(t), ClaimInv(t),
           tx[t].state = "open", Statement(t)
    PROVE  ClaimInv(t)' /\ EventInv(t)' /\ Typed(t)'
<1> DEFINE table == ClaimDue(outbox, {Op})
<1>1. tx[t].step = 1 /\ ClaimIntent(t)
  BY ClaimRuns
<1>2. /\ outbox' = outbox /\ outbox \in [OperationIds -> SubmitIntent]
      /\ tx[t].intent \in SubmitIntent \cup {Null} /\ OutboxOf(t) = outbox /\ Op \in OperationIds
  BY <1>1, ClaimDoes, Constants DEF committed, CommittedInv, Typed, OutboxOf, ClaimInv
<1>3. table \in [OperationIds -> SubmitIntent] /\ RowOf(table, outbox)
  <2>1. \A row \in SubmitIntent :
          [row EXCEPT !.state = "IN_FLIGHT", !.attempts = @ + 1, !.lease = "held"] \in SubmitIntent
    <3> SUFFICES ASSUME NEW row \in SubmitIntent
                 PROVE  [row EXCEPT !.state = "IN_FLIGHT", !.attempts = @ + 1, !.lease = "held"]
                            \in SubmitIntent
      OBVIOUS
    <3>1. row.attempts + 1 \in Nat
      BY DEF SubmitIntent
    <3>2. \A n \in Nat : [row EXCEPT !.state = "IN_FLIGHT", !.attempts = n, !.lease = "held"]
                            \in SubmitIntent
      BY DEF SubmitIntent, IntentState, LeaseState, ErrorClass
    <3> QED BY <3>1, <3>2
  <2> QED BY <1>2, <2>1 DEF ClaimDue, RowOf
<1>t. table = ClaimDue(outbox, {Op})
  OBVIOUS
<1> HIDE DEF table
<1>4. /\ tx'[t].operation = tx[t].operation /\ tx'[t].receipt = tx[t].receipt
      /\ tx'[t].event = tx[t].event /\ tx'[t].state = tx[t].state /\ tx'[t].step = 2
  BY <1>1, ClaimDoes DEF Only
<1>5. CASE Op \in Due(outbox) /\ Blockers(t, IntentRow) = {}
  <2>1. /\ held'[t] = held[t] \cup {IntentRow}
        /\ tx'[t].intent = IF table = OutboxOf(t) THEN tx[t].intent ELSE table[Op]
    BY <1>1, <1>5, <1>t, ClaimDoes
  <2>2. OutboxOf(t)' = table /\ tx'[t].intent \in SubmitIntent \cup {Null}
    BY <1>2, <1>3, <2>1, WroteIntent DEF RowOf
  <2> QED BY <1>2, <1>4, <1>5, <1>t, <2>1, <2>2 DEF ClaimInv, EventInv, Typed
<1>6. CASE ~ (Op \in Due(outbox) /\ Blockers(t, IntentRow) = {})
  <2>1. tx'[t].intent = Null
    BY <1>1, <1>6, ClaimDoes DEF ClaimInv
  <2> QED BY <1>4, <2>1 DEF ClaimInv, EventInv, Typed
<1> QED BY <1>5, <1>6

-----------------------------------------------------------------------------
(* A recovery *)

\* The steps of a recovery, by position.
LEMMA RecoveryRuns ==
    ASSUME Shape, NEW t \in Txs, Kind[t] = "recovery", Statement(t), ~ CollideAtLast(t)
    PROVE  \/ tx[t].step = 1 /\ Resume(t) /\ At(t, "release")
           \/ tx[t].step = 2 /\ Resume(t) /\ At(t, "revive")
           \/ tx[t].step = 3 /\ Resume(t) /\ At(t, "list")
           \/ tx[t].step = 4 /\ NumberEvent(t)
           \/ tx[t].step = 5 /\ (InsertEvent(t) \/ Collide(t))
           \/ tx[t].step = 6 /\ CheckReference(t)
<1>1. ASSUME NEW s, At(t, s)
      PROVE  \/ tx[t].step = 1 /\ s = "release"
             \/ tx[t].step = 2 /\ s = "revive"
             \/ tx[t].step = 3 /\ s = "list"
             \/ tx[t].step = 4 /\ s = "number"
             \/ tx[t].step = 5 /\ s = "insert"
             \/ tx[t].step = 6 /\ s = "reference"
  <2>1. tx[t].step \in 1 .. 6 /\ s = Program(Kind[t])[tx[t].step]
    BY <1>1, Positions, Lengths, Constants DEF Receipts
  <2> QED BY <2>1 DEF Program, Receipts
<1> QED BY <1>1, StatementsAt DEF Statement

\* What the three statements of a recovery do to the row of the intent.
LEMMA RecoveryTables ==
    ASSUME NEW ob \in [OperationIds -> SubmitIntent], \A o \in OperationIds \ {Op} : ob[o] = NoIntent
    PROVE  /\ ReleaseAllInFlight(ob) \in [OperationIds -> SubmitIntent]
           /\ RowOf(ReleaseAllInFlight(ob), ob)
           /\ IF ob[Op].state = "IN_FLIGHT" THEN ReleaseAllInFlight(ob)[Op].state = "PENDING"
              ELSE ReleaseAllInFlight(ob) = ob
           /\ ReviveFailed(ob, operations) \in [OperationIds -> SubmitIntent]
           /\ RowOf(ReviveFailed(ob, operations), ob)
           /\ IF ob[Op].state = "FAILED" /\ operations[Op].status = "PROCESSING"
              THEN ReviveFailed(ob, operations)[Op].state = "PENDING"
              ELSE ReviveFailed(ob, operations) = ob
<1>0. Op \in OperationIds /\ NoIntent.state = Absent /\ Absent = "ABSENT"
  BY Constants DEF NoIntent, Absent
<1>1. ReleaseAllInFlight(ob) \in [OperationIds -> SubmitIntent]
  <2>1. \A row \in SubmitIntent : [row EXCEPT !.state = "PENDING", !.lease = "null"] \in SubmitIntent
    BY DEF SubmitIntent, IntentState, LeaseState, ErrorClass
  <2> QED BY <2>1 DEF ReleaseAllInFlight, Released
<1>2. RowOf(ReleaseAllInFlight(ob), ob)
  BY <1>0 DEF ReleaseAllInFlight, Released, RowOf
<1>3. IF ob[Op].state = "IN_FLIGHT" THEN ReleaseAllInFlight(ob)[Op].state = "PENDING"
      ELSE ReleaseAllInFlight(ob) = ob
  <2>1. CASE ob[Op].state = "IN_FLIGHT"
    <3>1. ReleaseAllInFlight(ob)[Op] = [ob[Op] EXCEPT !.state = "PENDING", !.lease = "null"]
      BY <1>0, <2>1 DEF ReleaseAllInFlight, Released
    <3>2. ob[Op] \in SubmitIntent
      BY <1>0
    <3> QED BY <2>1, <3>1, <3>2 DEF SubmitIntent
  <2>2. CASE ob[Op].state # "IN_FLIGHT"
    <3>1. \A o \in OperationIds : Released(ob[o]) = ob[o]
      BY <1>0, <2>2 DEF Released
    <3> QED BY <2>2, <3>1 DEF ReleaseAllInFlight
  <2> QED BY <2>1, <2>2
<1>4. ReviveFailed(ob, operations) \in [OperationIds -> SubmitIntent]
  <2>1. \A row \in SubmitIntent :
          [row EXCEPT !.state = "PENDING", !.attempts = 0, !.lease = "null"] \in SubmitIntent
    BY DEF SubmitIntent, IntentState, LeaseState, ErrorClass
  <2> QED BY <2>1 DEF ReviveFailed
<1>5. RowOf(ReviveFailed(ob, operations), ob)
  BY <1>0 DEF ReviveFailed, RowOf
<1>6. IF ob[Op].state = "FAILED" /\ operations[Op].status = "PROCESSING"
      THEN ReviveFailed(ob, operations)[Op].state = "PENDING"
      ELSE ReviveFailed(ob, operations) = ob
  <2>1. CASE ob[Op].state = "FAILED" /\ operations[Op].status = "PROCESSING"
    <3>1. ReviveFailed(ob, operations)[Op] =
            [ob[Op] EXCEPT !.state = "PENDING", !.attempts = 0, !.lease = "null"]
      BY <1>0, <2>1 DEF ReviveFailed
    <3>2. ob[Op] \in SubmitIntent
      BY <1>0
    <3> QED BY <2>1, <3>1, <3>2 DEF SubmitIntent
  <2>2. CASE ~ (ob[Op].state = "FAILED" /\ operations[Op].status = "PROCESSING")
    <3>1. \A o \in OperationIds : ~ (ob[o].state = "FAILED" /\ operations[o].status = "PROCESSING")
      BY <1>0, <2>2
    <3>2. ReviveFailed(ob, operations) = [o \in OperationIds |-> ob[o]]
      BY <3>1 DEF ReviveFailed
    <3> QED BY <2>2, <3>2
  <2> QED BY <2>1, <2>2
<1> QED BY <1>1, <1>2, <1>3, <1>4, <1>5, <1>6

\* An operation whose intent is in flight or given up is under way.
LEMMA Undecided ==
    ASSUME CommittedInv, outbox[Op].state \in {"IN_FLIGHT", "FAILED"}
    PROVE  operations[Op].status = "PROCESSING"
<1>1. operations[Op].status # "CREATED"
  BY DEF CommittedInv, NoIntent, Absent
<1>2. operations[Op].status \notin TerminalStatuses
  BY DEF CommittedInv, OneReceiptSettles
<1> QED BY <1>1, <1>2 DEF CommittedInv, OperationStatus, TerminalStatuses

\* Each of the two statements does the work of both: what is released is not
\* given up, and what is given up is not released.
LEMMA ResumedRow ==
    ASSUME CommittedInv
    PROVE  /\ Resumed \in [OperationIds -> SubmitIntent] /\ RowOf(Resumed, outbox)
           /\ outbox[Op].state = "IN_FLIGHT" => Resumed[Op] = ReleaseAllInFlight(outbox)[Op]
           /\ outbox[Op].state = "FAILED" => Resumed[Op] = ReviveFailed(outbox, operations)[Op]
<1> DEFINE released == ReleaseAllInFlight(outbox)
<1>0. outbox \in [OperationIds -> SubmitIntent] /\ \A o \in OperationIds \ {Op} : outbox[o] = NoIntent
  BY DEF CommittedInv
<1>1. /\ released \in [OperationIds -> SubmitIntent] /\ RowOf(released, outbox)
      /\ IF outbox[Op].state = "IN_FLIGHT" THEN released[Op].state = "PENDING" ELSE released = outbox
  BY <1>0, RecoveryTables
<1> HIDE DEF released
<1>2. \A o \in OperationIds \ {Op} : released[o] = NoIntent
  BY <1>0, <1>1 DEF RowOf
<1>3. /\ ReviveFailed(released, operations) \in [OperationIds -> SubmitIntent]
      /\ RowOf(ReviveFailed(released, operations), released)
      /\ released[Op].state # "FAILED" => ReviveFailed(released, operations) = released
  BY <1>1, <1>2, RecoveryTables
<1>4. Resumed = ReviveFailed(released, operations)
  BY DEF Resumed, released
<1> QED BY <1>1, <1>3, <1>4 DEF RowOf, released

\* A statement of a recovery keeps its invariant.
LEMMA RecoveryStep ==
    ASSUME Shape, Shape', LocksInv, CommittedInv,
           NEW t \in Txs, Kind[t] = "recovery",
           Typed(t), RecoveryInv(t), EventInv(t),
           tx[t].state = "open", Statement(t), ~ CollideAtLast(t)
    PROVE  RecoveryInv(t)' /\ EventInv(t)' /\ Typed(t)'
<1> USE DEF Only, Does
<1>0. /\ operations \in [OperationIds -> Operation] /\ outbox \in [OperationIds -> SubmitIntent]
      /\ tx[t].operation \in Operation \cup {Null} /\ tx[t].intent \in SubmitIntent \cup {Null}
      /\ Op \in OperationIds /\ Null \notin Operation /\ Null \notin SubmitIntent
      /\ tx[t].id \in Nat /\ Len(Program(Kind[t])) = 6
      /\ Kind[t] # "claim" /\ Kind[t] # "submit" /\ Kind[t] # "accepted" /\ Kind[t] \notin Receipts
      /\ OutboxOf(t) \in [OperationIds -> SubmitIntent]
      /\ \A o \in OperationIds \ {Op} : OutboxOf(t)[o] = NoIntent /\ outbox[o] = NoIntent
      /\ OutboxOf(t)[Op] = IF tx[t].intent = Null THEN outbox[Op] ELSE tx[t].intent
  BY Constants, Lengths, Sees DEF CommittedInv, Typed, Shape, Receipts
<1>b. tx[t].step < 6 => tx[t].event = {}
  BY DEF RecoveryInv
<1>1. ASSUME NEW s, s \in {"release", "revive"}, tx[t].step \in {1, 2}, Run(t, s),
             NEW table \in [OperationIds -> SubmitIntent], RowOf(table, OutboxOf(t)),
             Advance(t, WritesIntent(t, table)),
             table # OutboxOf(t) => /\ table[Op].state = "PENDING" /\ IntentRow \in Needs(t)
                                    /\ OutboxOf(t)[Op].state \in {"IN_FLIGHT", "FAILED"}
                                    /\ OutboxOf(t) = outbox => table[Op] = Resumed[Op]
      PROVE  RecoveryInv(t)' /\ EventInv(t)' /\ Typed(t)'
  <2>1. /\ Does(t, s, {"step", "intent"}) /\ tx'[t].step = tx[t].step + 1
        /\ tx'[t].intent = IF table = OutboxOf(t) THEN tx[t].intent ELSE table[Op]
    BY <1>1, IntentDoes
  <2>2. held[t] \cup Needs(t) \subseteq held'[t] /\ outbox' = outbox
    BY <2>1, Gains
  <2>3. tx'[t].intent # Null =>
            /\ IntentRow \in held'[t] /\ outbox[Op].state \in {"IN_FLIGHT", "FAILED"}
            /\ tx'[t].intent \in SubmitIntent /\ tx'[t].intent.state = "PENDING"
            /\ tx'[t].intent = Resumed[Op]
    <3>1. CASE table = OutboxOf(t)
      BY <2>1, <2>2, <3>1 DEF RecoveryInv
    <3>2. CASE table # OutboxOf(t)
      <4>1. tx[t].intent = Null
        BY <1>0, <1>1, <3>2 DEF RecoveryInv
      <4>2. OutboxOf(t) = outbox
        BY <4>1 DEF OutboxOf
      <4> QED BY <1>0, <1>1, <2>1, <2>2, <3>2, <4>2
    <3> QED BY <3>1, <3>2
  <2>4. tx'[t].event = {} /\ tx'[t].step \in 2 .. 3
    BY <1>1, <1>b, <2>1
  <2>5. Resumed' = Resumed
    BY <2>1 DEF Resumed, Moved, committed
  <2> QED BY <2>1, <2>2, <2>3, <2>4, <2>5 DEF RecoveryInv, EventInv, Typed
<1>2. CASE tx[t].step = 1 /\ Resume(t) /\ At(t, "release")
  <2> DEFINE table == ReleaseAllInFlight(OutboxOf(t))
  <2>1. Run(t, "release") /\ Advance(t, WritesIntent(t, table))
    BY <1>2 DEF Resume, Run, At
  <2>2. /\ table \in [OperationIds -> SubmitIntent] /\ RowOf(table, OutboxOf(t))
        /\ IF OutboxOf(t)[Op].state = "IN_FLIGHT" THEN table[Op].state = "PENDING"
           ELSE table = OutboxOf(t)
    BY <1>0, RecoveryTables
  <2>3. OutboxOf(t)[Op].state = "IN_FLIGHT" => IntentRow \in Needs(t)
    BY <1>2 DEF Needs
  <2>4. OutboxOf(t) = outbox /\ outbox[Op].state = "IN_FLIGHT" => table[Op] = Resumed[Op]
    BY ResumedRow
  <2> HIDE DEF table
  <2> QED BY <1>1, <1>2, <2>1, <2>2, <2>3, <2>4
<1>3. CASE tx[t].step = 2 /\ Resume(t) /\ At(t, "revive")
  <2> DEFINE table == ReviveFailed(OutboxOf(t), operations)
  <2>1. Run(t, "revive") /\ Advance(t, WritesIntent(t, table))
    BY <1>3 DEF Resume, Run, At
  <2>2. /\ table \in [OperationIds -> SubmitIntent] /\ RowOf(table, OutboxOf(t))
        /\ IF OutboxOf(t)[Op].state = "FAILED" /\ operations[Op].status = "PROCESSING"
           THEN table[Op].state = "PENDING"
           ELSE table = OutboxOf(t)
    BY <1>0, RecoveryTables
  <2>3. OutboxOf(t)[Op].state = "FAILED" /\ operations[Op].status = "PROCESSING"
            => IntentRow \in Needs(t)
    BY <1>3 DEF Needs
  <2>4. OutboxOf(t) = outbox /\ outbox[Op].state = "FAILED" => table[Op] = Resumed[Op]
    BY ResumedRow
  <2> HIDE DEF table
  <2> QED BY <1>1, <1>3, <2>1, <2>2, <2>3, <2>4
<1>5. ASSUME NEW s, Moved(t, s), tx[t].step \in 3 .. 6, tx'[t].step \in {tx[t].step + 1, 7},
             Only(tx'[t], tx[t], {"step", "id", "first", "event"}),
             tx'[t].step < 6 => tx'[t].event = tx[t].event,
             tx[t].intent # Null /\ tx'[t].step > 5 => tx'[t].event # {}
      PROVE  RecoveryInv(t)'
  <2>1. outbox' = outbox /\ held[t] \subseteq held'[t]
    BY <1>5, Gains
  <2>2. Resumed' = Resumed
    BY <1>5 DEF Resumed, Moved, committed
  <2> QED BY <1>5, <2>1, <2>2 DEF RecoveryInv
<1>6. CASE tx[t].step = 3 /\ Resume(t) /\ At(t, "list")
  <2>1. Run(t, "list") /\ (Advance(t, tx[t]) \/ Leave(t, tx[t]))
    BY <1>6 DEF Resume, Run, At
  <2>2. Does(t, "list", {"step"}) /\ tx'[t].step \in {tx[t].step + 1, Len(Program(Kind[t])) + 1}
    BY ONLY Shape, t \in Txs, <2>1, PassDoes
  <2>3. tx'[t].step \in {4, 7}
    <3>1. tx'[t].step \in {tx[t].step + 1, Len(Program(Kind[t])) + 1}
      BY <2>2
    <3>2. tx[t].step = 3 /\ Len(Program(Kind[t])) = 6
      BY <1>0, <1>6
    <3> QED BY ONLY <3>1, <3>2
  <2>4. tx[t].intent # Null => tx'[t].step = 4
    <3> SUFFICES ASSUME tx[t].intent # Null PROVE tx'[t].step = 4
      OBVIOUS
    <3>1. OutboxOf(t)[Op].state = "PENDING" /\ operations[Op].status = "PROCESSING"
      BY <1>0, Undecided DEF RecoveryInv
    <3>2. Op \in ListResumable(OutboxOf(t), operations)
      BY <1>0, <3>1 DEF ListResumable
    <3>3. Advance(t, tx[t])
      BY <1>6, <3>2 DEF Resume, Run, At
    <3> QED BY <1>6, <2>1, <3>3, PassDoes
  <2> QED BY <1>b, <1>5, <1>6, <2>2, <2>3, <2>4 DEF EventInv, Typed
<1>7. CASE tx[t].step = 4 /\ NumberEvent(t)
  <2>1. Does(t, "number", {"step", "id", "first"}) /\ tx'[t].step = 5
    BY <1>7, NumberDoes
  <2> QED BY <1>b, <1>5, <1>7, <2>1 DEF EventInv, Typed
<1>8. CASE tx[t].step = 5 /\ InsertEvent(t)
  <2>1. Does(t, "insert", {"step", "event"}) /\ tx'[t].step = 6 /\ tx'[t].event = {EventOf(t)}
    BY <1>8, InsertDoes
  <2>2. EventOf(t)' = EventOf(t) /\ EventOf(t) \in EventRow
    BY <1>0, <2>1, EventSame, EventTyped
  <2>3. RecoveryInv(t)'
    BY <1>5, <1>8, <2>1
  <2> QED BY <1>8, <2>1, <2>2, <2>3 DEF EventInv, Typed
<1>9. CASE tx[t].step = 5 /\ Collide(t)
  <2>1. /\ Only(tx'[t], tx[t], {"step", "tries"}) /\ tx'[t].step = 4
        /\ UNCHANGED <<committed, held>>
    BY <1>9, CollideDoes
  <2> QED BY <1>b, <1>9, <2>1 DEF RecoveryInv, EventInv, Typed, committed, Resumed
<1>10. CASE tx[t].step = 6 /\ CheckReference(t)
  <2>1. Does(t, "reference", {"step"}) /\ tx'[t].step = 7
    BY <1>10, PassDoes DEF CheckReference
  <2>2. EventOf(t)' = EventOf(t)
    BY <1>0, <2>1, EventSame
  <2>3. RecoveryInv(t)'
    BY <1>5, <1>10, <2>1 DEF RecoveryInv
  <2> QED BY <1>10, <2>1, <2>2, <2>3 DEF EventInv, Typed
<1> QED BY <1>2, <1>3, <1>6, <1>7, <1>8, <1>9, <1>10, RecoveryRuns

-----------------------------------------------------------------------------
(* Steps of every kind *)

\* What a roll-back does.
LEMMA RollDoes ==
    ASSUME Shape, NEW t \in Txs, NEW tries, Roll(t, tries)
    PROVE  /\ UNCHANGED <<committed, reply>> /\ Others(t)
           /\ Only(tx'[t], tx[t], {"state", "tries"})
           /\ tx'[t].state = "aborted" /\ tx'[t].tries = tries
           /\ held'[t] = {} /\ want'[t] = {}
<1>1. DOMAIN tx = Txs /\ DOMAIN held = Txs /\ DOMAIN want = Txs /\ IsTx(tx[t])
  BY DEF Shape
<1> DEFINE p == [tx[t] EXCEPT !.state = "aborted"]
           q == [p EXCEPT !.tries = tries]
<1>2. tx'[t] = q
  BY <1>1 DEF Roll
<1>o. \A u \in Txs \ {t} : tx'[u] = tx[u]
  BY <1>1 DEF Roll
<1>3. Only(p, tx[t], {"state"}) /\ p.state = "aborted"
  BY <1>1, ExceptOnly1
<1> HIDE DEF p
<1>4. Only(q, p, {"tries"}) /\ q.tries = tries
  BY <1>3, ExceptOnly2, OnlyTx
<1> HIDE DEF q
<1>5. Only(q, tx[t], {"state", "tries"}) /\ q.state = "aborted"
  BY <1>3, <1>4 DEF Only
<1>6. held'[t] = {} /\ want'[t] = {} /\ UNCHANGED <<committed, reply>>
      /\ \A u \in Txs \ {t} : held'[u] = held[u] /\ want'[u] = want[u]
  BY <1>1 DEF Roll
<1> QED BY <1>2, <1>o, <1>4, <1>5, <1>6 DEF Others

\* What a commit does to its transaction.
LEMMA CommitDoes ==
    ASSUME Shape, NEW t \in Txs, Commit(t)
    PROVE  /\ Others(t)
           /\ Only(tx'[t], tx[t], {"state"}) /\ tx'[t].state = "committed"
           /\ held'[t] = {} /\ want'[t] = want[t]
           /\ tx[t].state = "open" /\ Over(t)
           /\ UNCHANGED <<reply, faults>>
<1>1. DOMAIN tx = Txs /\ DOMAIN held = Txs /\ DOMAIN want = Txs /\ IsTx(tx[t])
  BY DEF Shape
<1> DEFINE p == [tx[t] EXCEPT !.state = "committed"]
<1>2. tx'[t] = p /\ \A u \in Txs \ {t} : tx'[u] = tx[u]
  BY <1>1 DEF Commit
<1>3. Only(p, tx[t], {"state"}) /\ p.state = "committed"
  BY <1>1, ExceptOnly1
<1> HIDE DEF p
<1>4. /\ held'[t] = {} /\ want'[t] = want[t] /\ UNCHANGED <<reply, faults>>
      /\ \A u \in Txs \ {t} : held'[u] = held[u] /\ want'[u] = want[u]
      /\ tx[t].state = "open" /\ Over(t)
  BY <1>1 DEF Commit
<1> QED BY <1>2, <1>3, <1>4 DEF Others

\* A statement is a move with its lock, a claim, a collision, or a roll-back.
LEMMA StatementDoes ==
    ASSUME Shape, NEW t \in Txs, Statement(t)
    PROVE  /\ \/ \E s : Moved(t, s)
              \/ ClaimIntent(t) \/ Collide(t)
              \/ Mismatch(t) \/ CollideAtLast(t)
           /\ Mismatch(t) \/ CollideAtLast(t) => UNCHANGED faults /\ \E tries : Roll(t, tries)
           /\ \E s : At(t, s)
           /\ ~ (Mismatch(t) \/ CollideAtLast(t)) =>
                /\ tx'[t].state = tx[t].state
                /\ BeginProcessing(t) \/ tx'[t].won = tx[t].won
<1> USE DEF Does, Only
<1>0. Mismatch(t) \/ CollideAtLast(t) => UNCHANGED faults /\ \E tries : Roll(t, tries)
  BY DEF Mismatch, CollideAtLast
<1>1. CASE Read(t)
  BY <1>0, <1>1, ReadDoes, StatementsAt
<1>2. CASE Refresh(t)
  BY <1>0, <1>2, CopyDoes, StatementsAt DEF Refresh
<1>3. CASE BeginProcessing(t)
  BY <1>0, <1>3, BeginDoes, StatementsAt
<1>4. CASE StoreIntent(t)
  BY <1>0, <1>4, IntentDoes, StatementsAt DEF StoreIntent
<1>5. CASE LockOperation(t)
  BY <1>0, <1>5, CopyDoes, StatementsAt DEF LockOperation
<1>6. CASE TryRecord(t)
  BY <1>0, <1>6, PassDoes, RecordDoes, StatementsAt DEF TryRecord
<1>7. CASE Link(t)
  BY <1>0, <1>7, PassDoes, OperationDoes, StatementsAt DEF Link
<1>8. CASE Finalize(t)
  BY <1>0, <1>8, PassDoes, OperationDoes, StatementsAt DEF Finalize
<1>9. CASE Close(t)
  BY <1>0, <1>9, PassDoes, IntentDoes, StatementsAt DEF Close
<1>10. CASE RecordsFailure(t)
  BY <1>0, <1>10, IntentDoes, StatementsAt DEF RecordsFailure
<1>11. CASE Resume(t)
  BY <1>0, <1>11, PassDoes, IntentDoes, StatementsAt DEF Resume
<1>12. CASE NumberEvent(t)
  BY <1>0, <1>12, NumberDoes, StatementsAt
<1>13. CASE InsertEvent(t)
  BY <1>0, <1>13, InsertDoes, StatementsAt
<1>14. CASE CheckReference(t)
  BY <1>0, <1>14, PassDoes, StatementsAt DEF CheckReference
<1>15. CASE ClaimIntent(t) \/ Collide(t) \/ Mismatch(t) \/ CollideAtLast(t)
  BY <1>0, <1>15, StatementsAt, ClaimDoes, CollideDoes
<1> QED BY <1>1, <1>2, <1>3, <1>4, <1>5, <1>6, <1>7, <1>8, <1>9, <1>10, <1>11, <1>12, <1>13, <1>14,
          <1>15 DEF Statement

\* Only a commit changes the tables, and a step is of one transaction.
LEMMA StepDoes ==
    ASSUME Shape, NEW t \in Txs, Wait(t) \/ Statement(t) \/ DeadlockVictim(t) \/ ConnectionLost(t)
    PROVE  /\ UNCHANGED <<committed, reply>> /\ Others(t)
           /\ Begun(t) \/ MayBegin(t)
           /\ ~ ConnectionLost(t) => UNCHANGED faults
<1>1. ASSUME Wait(t)
      PROVE  UNCHANGED <<committed, reply, faults>> /\ Others(t) /\ (Begun(t) \/ MayBegin(t))
  <2>1. DOMAIN want = Txs
    BY DEF Shape
  <2>2. \E s : At(t, s)
    BY <1>1, NeedsLock DEF Wait
  <2> QED BY <1>1, <2>1, <2>2 DEF Wait, Others, At
<1>2. ASSUME Statement(t)
      PROVE  UNCHANGED <<committed, reply, faults>> /\ Others(t) /\ (Begun(t) \/ MayBegin(t))
  <2>1. Begun(t) \/ MayBegin(t)
    BY <1>2, StatementDoes DEF At
  <2>2. CASE \E s : Moved(t, s)
    BY <2>1, <2>2 DEF Moved
  <2>3. CASE ClaimIntent(t)
    BY <2>1, <2>3, ClaimDoes
  <2>4. CASE Collide(t)
    BY <2>1, <2>4, CollideDoes
  <2>5. CASE Mismatch(t) \/ CollideAtLast(t)
    BY <1>2, <2>1, <2>5, StatementDoes, RollDoes
  <2> QED BY <1>2, <2>2, <2>3, <2>4, <2>5, StatementDoes
<1>3. ASSUME DeadlockVictim(t)
      PROVE  UNCHANGED <<committed, reply, faults>> /\ Others(t) /\ Begun(t)
  BY <1>3, RollDoes DEF DeadlockVictim, Begun, Waiting
<1>4. ASSUME ConnectionLost(t)
      PROVE  UNCHANGED <<committed, reply>> /\ Others(t) /\ Begun(t)
  BY <1>4, RollDoes DEF ConnectionLost
<1> QED BY <1>1, <1>2, <1>3, <1>4

\* Locks exclude after every step.
LEMMA LocksStep ==
    ASSUME LocksInv, Shape, NEW t \in Txs, Proceed(t) \/ ConnectionLost(t)
    PROVE  LocksInv'
<1>0. {} \subseteq Lock /\ {IntentRow} \subseteq Lock
  BY DEF Lock, IntentRow
<1>1. CASE Wait(t)
  BY <1>1, LocksWait
<1>2. ASSUME NEW s, Moved(t, s) PROVE LocksInv'
  BY <1>2, LocksMoved
<1>3. CASE ClaimIntent(t)
  <2>1. Others(t) /\ want'[t] = {}
    BY <1>3, ClaimDoes
  <2>2. CASE Blockers(t, IntentRow) = {} /\ held'[t] = held[t] \cup {IntentRow}
    BY <1>0, <2>1, <2>2, LocksStay
  <2>3. CASE held'[t] = held[t]
    BY <1>0, <2>1, <2>3, LocksStay
  <2> QED BY <1>3, <2>2, <2>3, ClaimDoes
<1>4. CASE Collide(t)
  <2>1. Others(t) /\ want'[t] = {} /\ held'[t] \subseteq held[t] \cup {}
    BY <1>4, CollideDoes
  <2> QED BY <1>0, <2>1, LocksStay
<1>5. ASSUME NEW tries, Roll(t, tries) PROVE LocksInv'
  <2>1. Others(t) /\ want'[t] = {} /\ held'[t] \subseteq held[t] \cup {}
    BY <1>5, RollDoes
  <2> QED BY <1>0, <2>1, LocksStay
<1>6. CASE Commit(t)
  <2>1. Others(t) /\ want'[t] = want[t] /\ held'[t] \subseteq held[t] \cup {} /\ Over(t)
    BY <1>6, CommitDoes
  <2>2. want'[t] = {}
    BY <2>1 DEF LocksInv
  <2> QED BY <1>0, <2>1, <2>2, LocksStay
<1> QED BY <1>1, <1>2, <1>3, <1>4, <1>5, <1>6, StatementDoes DEF Proceed, DeadlockVictim, ConnectionLost

-----------------------------------------------------------------------------
(* What a transaction commits *)

\* A submit that has won.
SubmitOutcome(t) ==
    /\ Kind[t] = "submit" /\ tx[t].won
    /\ Write(t) /\ CanBeginProcessing(operations, Op)
    /\ OperationsOf(t) = TryBeginProcessing(operations, Op)
    /\ OutboxOf(t) = CreateIntent(outbox, Op, Op)
    /\ tx[t].receipt = {} /\ tx[t].event # {}

\* A receipt that was new, applied or ignored.
ReceiptOutcome(t) ==
    /\ Kind[t] \in Receipts
    /\ Write(t) /\ tx[t].copy = operations[Op] /\ operations[Op].payment \in {Null, PaymentOf[t]}
    /\ ~ AlreadyRecorded(receipts, Op, PaymentOf[t], Result(t))
    /\ tx[t].receipt = RecordReceipt({}, Op, PaymentOf[t], Result(t), Applies(t), Reason(t))
    /\ tx[t].event # {}
    /\ IF Applies(t)
       THEN /\ IntentRow \in held[t] /\ OutboxOf(t) = MarkDone(outbox, Op)
            /\ OperationsOf(t) = TryFinalize(LinkProviderPayment(operations, Op, PaymentOf[t]), Op,
                                             ResultToStatus(Result(t)))
       ELSE OperationsOf(t) = operations /\ OutboxOf(t) = outbox

\* An answer that is recorded.
AcceptedOutcome(t) ==
    /\ Kind[t] = "accepted" /\ outbox[Op].state # Absent
    /\ tx[t].operation # Null => Write(t)
    /\ OperationsOf(t) = LinkProviderPayment(operations, Op, PaymentOf[t])
    /\ tx[t].copy.status \in OperationStatus
    /\ \/ tx[t].copy.status = operations[Op].status
       \/ tx[t].copy.status = "PROCESSING" /\ Acknowledged
    /\ IntentRow \in held[t] /\ OutboxOf(t) = MarkDone(outbox, Op)
    /\ tx[t].receipt = {} /\ tx[t].event # {}

\* A failure that is recorded, with or without an intent in flight.
FailureOutcome(t) ==
    /\ Kind[t] \in {"unavailable", "refused"} /\ outbox[Op].state # Absent
    /\ tx[t].operation = Null /\ OperationsOf(t) = operations /\ tx[t].receipt = {} /\ tx[t].event # {}
    /\ \/ tx[t].intent = Null /\ OutboxOf(t) = outbox
       \/ /\ tx[t].intent # Null /\ IntentRow \in held[t]
          /\ OutboxOf(t) = IF Kind[t] = "unavailable" THEN Reschedule(outbox, Op, "unavailable")
                           ELSE MarkFailed(outbox, Op, "rejected")

\* A claim that has found the intent due.
ClaimOutcome(t) ==
    /\ Kind[t] = "claim" /\ IntentRow \in held[t]
    /\ tx[t].operation = Null /\ OperationsOf(t) = operations /\ tx[t].receipt = {} /\ tx[t].event = {}
    /\ Op \in Due(outbox) /\ OutboxOf(t) = ClaimDue(outbox, {Op})

\* A recovery, whatever it has found.
RecoveryOutcome(t) ==
    /\ Kind[t] = "recovery"
    /\ tx[t].operation = Null /\ OperationsOf(t) = operations /\ tx[t].receipt = {}
    /\ \/ tx[t].intent = Null /\ OutboxOf(t) = outbox
       \/ /\ IntentRow \in held[t] /\ outbox[Op].state \in {"IN_FLIGHT", "FAILED"}
          /\ OutboxOf(t)[Op].state = "PENDING"
          /\ OutboxOf(t) = Resumed /\ tx[t].event # {}

\* An open transaction whose program is over is one of these, or has written nothing.
LEMMA Outcomes ==
    ASSUME Shape, CommittedInv, NEW t \in Txs, Typed(t), OpenInv(t), tx[t].state = "open", Over(t),
           Kind[t] \in Recordings => outbox[Op].state # Absent
    PROVE  \/ Nothing(t)
           \/ SubmitOutcome(t) \/ ReceiptOutcome(t) \/ AcceptedOutcome(t)
           \/ FailureOutcome(t) \/ ClaimOutcome(t) \/ RecoveryOutcome(t)
<1>0. /\ tx[t].step \in Nat /\ Kind[t] \in Kinds /\ Op \in OperationIds
      /\ tx[t].step > Len(Program(Kind[t]))
  BY Constants DEF Shape, Over
<1>1. CASE Kind[t] = "submit"
  <2>1. SubmitInv(t) /\ tx[t].step > 7
    BY <1>0, <1>1, Lengths DEF OpenInv
  <2> QED BY <1>1, <2>1 DEF SubmitInv, SubmitOutcome, CanBeginProcessing
<1>2. CASE Kind[t] \in Receipts
  <2>1. ReceiptInv(t) /\ tx[t].step > 8
    BY <1>0, <1>2, Lengths DEF OpenInv, Receipts
  <2>2. tx[t].operation = Null => OperationsOf(t) = operations
    BY DEF OperationsOf
  <2>3. tx[t].intent = Null => OutboxOf(t) = outbox
    BY DEF OutboxOf
  <2> QED BY <1>2, <2>1, <2>2, <2>3 DEF ReceiptInv, ReceiptOutcome
<1>3. CASE Kind[t] = "accepted"
  <2>1. AcceptedInv(t) /\ tx[t].step > 6
    BY <1>0, <1>3, Lengths DEF OpenInv, Receipts
  <2> QED BY <1>3, <2>1 DEF AcceptedInv, AcceptedOutcome, Recordings
<1>4. CASE Kind[t] \in {"unavailable", "refused"}
  <2>1. FailureInv(t) /\ tx[t].step > 4
    BY <1>0, <1>4, Lengths DEF OpenInv, Receipts
  <2> QED BY <1>4, <2>1 DEF FailureInv, FailureOutcome, Recordings, OperationsOf, OutboxOf
<1>5. CASE Kind[t] = "claim"
  <2>1. ClaimInv(t)
    BY <1>5 DEF OpenInv
  <2> QED BY <1>5, <2>1 DEF ClaimInv, ClaimOutcome, Nothing, OperationsOf
<1>6. CASE Kind[t] = "recovery"
  <2>1. RecoveryInv(t) /\ tx[t].step > 6
    BY <1>0, <1>6, Lengths DEF OpenInv, Receipts
  <2>2. /\ OutboxOf(t)[Op] = IF tx[t].intent = Null THEN outbox[Op] ELSE tx[t].intent
        /\ tx[t].intent = Null => OutboxOf(t) = outbox
        /\ tx[t].operation = Null => OperationsOf(t) = operations
    BY Sees DEF OutboxOf, OperationsOf, CommittedInv, Typed
  <2>3. tx[t].intent # Null => OutboxOf(t) = Resumed
    <3>1. /\ OutboxOf(t) \in [OperationIds -> SubmitIntent] /\ Resumed \in [OperationIds -> SubmitIntent]
          /\ \A o \in OperationIds \ {Op} : OutboxOf(t)[o] = outbox[o] /\ Resumed[o] = outbox[o]
      BY Sees, ResumedRow DEF CommittedInv, Typed, RowOf
    <3> QED BY <2>1, <2>2, <3>1 DEF RecoveryInv
  <2> QED BY <1>6, <2>1, <2>2, <2>3 DEF RecoveryInv, RecoveryOutcome
<1> QED BY <1>0, <1>1, <1>2, <1>3, <1>4, <1>5, <1>6 DEF Kinds, Recordings

-----------------------------------------------------------------------------
(* What a commit does to the tables *)

\* The row of the operation after a statement that writes it.
LEMMA OperationRows ==
    ASSUME NEW ops \in [OperationIds -> Operation], NEW p, NEW s
    PROVE  /\ LinkProviderPayment(ops, Op, p)[Op].status = ops[Op].status
           /\ LinkProviderPayment(ops, Op, p)[Op].payment =
                IF ops[Op].payment = Null THEN p ELSE ops[Op].payment
           /\ TryFinalize(ops, Op, s)[Op].status =
                IF ops[Op].status = "PROCESSING" THEN s ELSE ops[Op].status
           /\ TryFinalize(ops, Op, s)[Op].payment = ops[Op].payment
           /\ TryBeginProcessing(ops, Op)[Op].payment = ops[Op].payment
           /\ TryBeginProcessing(ops, Op)[Op].status =
                IF ops[Op].status = "CREATED" THEN "PROCESSING" ELSE ops[Op].status
<1>1. Op \in OperationIds
  BY Constants
<1> QED BY <1>1 DEF LinkProviderPayment, TryFinalize, TryBeginProcessing, CanBeginProcessing, Operation

\* The state of the intent after a statement that writes it.
LEMMA IntentRows ==
    ASSUME NEW ob \in [OperationIds -> SubmitIntent], NEW class
    PROVE  /\ CreateIntent(ob, Op, Op)[Op].state = IF ob[Op].state = Absent THEN "PENDING" ELSE ob[Op].state
           /\ MarkDone(ob, Op)[Op].state = "DONE"
           /\ IF ob[Op].state = "IN_FLIGHT" THEN Reschedule(ob, Op, class)[Op].state = "PENDING"
              ELSE Reschedule(ob, Op, class) = ob
           /\ IF ob[Op].state = "IN_FLIGHT" THEN MarkFailed(ob, Op, class)[Op].state = "FAILED"
              ELSE MarkFailed(ob, Op, class) = ob
           /\ ClaimDue(ob, {Op})[Op].state = "IN_FLIGHT"
           /\ Op \in Due(ob) => ob[Op].state \in {"PENDING", "IN_FLIGHT"}
<1>1. Op \in OperationIds
  BY Constants
<1>2. ob[Op] \in SubmitIntent
  BY <1>1
<1>3. CreateIntent(ob, Op, Op)[Op].state = IF ob[Op].state = Absent THEN "PENDING" ELSE ob[Op].state
  BY <1>1 DEF CreateIntent, NoIntent
<1>4. MarkDone(ob, Op)[Op].state = "DONE"
  BY <1>1, <1>2 DEF MarkDone, SubmitIntent
<1>5. IF ob[Op].state = "IN_FLIGHT" THEN Reschedule(ob, Op, class)[Op].state = "PENDING"
      ELSE Reschedule(ob, Op, class) = ob
  <2>1. [ob[Op] EXCEPT !.state = "PENDING", !.due = FALSE, !.lease = "null", !.error = class].state
            = "PENDING"
    BY <1>2 DEF SubmitIntent
  <2> QED BY <1>1, <2>1 DEF Reschedule
<1>6. IF ob[Op].state = "IN_FLIGHT" THEN MarkFailed(ob, Op, class)[Op].state = "FAILED"
      ELSE MarkFailed(ob, Op, class) = ob
  <2>1. [ob[Op] EXCEPT !.state = "FAILED", !.lease = "null", !.error = class].state = "FAILED"
    BY <1>2 DEF SubmitIntent
  <2> QED BY <1>1, <2>1 DEF MarkFailed
<1>7. ClaimDue(ob, {Op})[Op].state = "IN_FLIGHT"
  <2>1. \A n : [ob[Op] EXCEPT !.state = "IN_FLIGHT", !.attempts = n, !.lease = "held"].state = "IN_FLIGHT"
    BY <1>2 DEF SubmitIntent
  <2> QED BY <1>1, <2>1 DEF ClaimDue
<1>8. Op \in Due(ob) => ob[Op].state \in {"PENDING", "IN_FLIGHT"}
  BY DEF Due
<1> QED BY <1>3, <1>4, <1>5, <1>6, <1>7, <1>8

\* What no commit takes back.
KeepsWhatIsDone ==
    /\ operations[Op].status \in TerminalStatuses => operations'[Op].status = operations[Op].status
    /\ operations[Op].status # "CREATED" => operations'[Op].status # "CREATED"
    /\ operations[Op].payment # Null => operations'[Op].payment = operations[Op].payment
    /\ outbox[Op].state = "DONE" => outbox'[Op].state = "DONE"
    /\ outbox[Op].state # Absent => outbox'[Op].state # Absent
    /\ log \subseteq log'

\* Who writes a row holds it.
WritesUnderLock(t) ==
    /\ ~ Write(t) => operations' = operations /\ receipts' = receipts
    /\ outbox[Op].state = Absent /\ ~ Write(t) => outbox' = outbox
    /\ outbox[Op].state # Absent /\ IntentRow \notin held[t] => outbox' = outbox

\* Each outcome, committed, keeps what is done and the agreement of the tables.
LEMMA CommitKeeps ==
    ASSUME CommittedInv, NEW t \in Txs, EventInv(t), Typed(t),
           \/ Nothing(t)
           \/ SubmitOutcome(t) \/ ReceiptOutcome(t) \/ AcceptedOutcome(t)
           \/ FailureOutcome(t) \/ ClaimOutcome(t) \/ RecoveryOutcome(t),
           operations' = OperationsOf(t), outbox' = OutboxOf(t),
           receipts' = receipts \cup tx[t].receipt, log' = log \cup tx[t].event
    PROVE  /\ KeepsWhatIsDone
           /\ WritesUnderLock(t)
           /\ operations'[Op].status \in OperationStatus
           /\ operations'[Op].status = "CREATED" => operations'[Op].payment = Null /\ outbox'[Op] = NoIntent
           /\ operations'[Op].status # "CREATED" => outbox'[Op].state # Absent
           /\ operations'[Op].status = "PROCESSING" /\ operations'[Op].payment # Null => Acknowledged'
<1> DEFINE Goal ==
           /\ KeepsWhatIsDone
           /\ WritesUnderLock(t)
           /\ operations'[Op].status \in OperationStatus
           /\ operations'[Op].status = "CREATED" => operations'[Op].payment = Null /\ outbox'[Op] = NoIntent
           /\ operations'[Op].status # "CREATED" => outbox'[Op].state # Absent
           /\ operations'[Op].status = "PROCESSING" /\ operations'[Op].payment # Null => Acknowledged'
<1>0. /\ operations \in [OperationIds -> Operation] /\ outbox \in [OperationIds -> SubmitIntent]
      /\ PaymentOf[t] \in PaymentIds /\ Null \notin PaymentIds /\ Op \in OperationIds
      /\ operations[Op].status \in OperationStatus
      /\ NoIntent.state = Absent /\ Absent = "ABSENT"
      /\ operations[Op].status = "CREATED" => operations[Op].payment = Null /\ outbox[Op] = NoIntent
      /\ operations[Op].status # "CREATED" => outbox[Op].state # Absent
      /\ operations[Op].status = "PROCESSING" /\ operations[Op].payment # Null => Acknowledged
  BY Constants, NullAssumption DEF CommittedInv, NoIntent, Absent
<1>k. Acknowledged => Acknowledged'
  BY DEF Acknowledged
<1>l. LET linked == LinkProviderPayment(operations, Op, PaymentOf[t]) IN
      /\ linked \in [OperationIds -> Operation]
      /\ linked[Op].status = operations[Op].status
      /\ linked[Op].payment = IF operations[Op].payment = Null THEN PaymentOf[t] ELSE operations[Op].payment
  <2>1. "COMPLETED" \in TerminalStatuses
    BY DEF TerminalStatuses
  <2> QED BY <1>0, <2>1, OperationRows, OperationTables
<1> USE DEF KeepsWhatIsDone, WritesUnderLock, TerminalStatuses, OperationStatus
<1>1. CASE Nothing(t)
  <2>1. operations' = operations /\ outbox' = outbox /\ receipts' = receipts /\ log' = log
    BY <1>1 DEF Nothing, OperationsOf, OutboxOf
  <2> QED BY <1>0, <1>k, <2>1
<1>2. CASE SubmitOutcome(t)
  <2>1. /\ Write(t) /\ operations[Op].status = "CREATED"
        /\ operations'[Op].status = "PROCESSING" /\ operations'[Op].payment = operations[Op].payment
        /\ outbox'[Op].state = "PENDING"
    BY <1>0, <1>2, OperationRows, IntentRows DEF SubmitOutcome, CanBeginProcessing
  <2> QED BY <1>0, <1>k, <2>1
<1>3. CASE ReceiptOutcome(t)
  <2>0. Write(t)
    BY <1>3 DEF ReceiptOutcome
  <2>1. CASE ~ Applies(t)
    <3>1. operations' = operations /\ outbox' = outbox
      BY <1>3, <2>1 DEF ReceiptOutcome
    <3> QED BY <1>0, <1>k, <2>0, <3>1
  <2>2. CASE Applies(t)
    <3>1. /\ operations[Op].status = "PROCESSING" /\ IntentRow \in held[t]
          /\ operations' = TryFinalize(LinkProviderPayment(operations, Op, PaymentOf[t]), Op,
                                       ResultToStatus(Result(t)))
          /\ outbox' = MarkDone(outbox, Op)
      BY <1>3, <2>2 DEF ReceiptOutcome, Applies
    <3>2. /\ operations'[Op].status = ResultToStatus(Result(t))
          /\ operations'[Op].payment =
                IF operations[Op].payment = Null THEN PaymentOf[t] ELSE operations[Op].payment
      BY <1>l, <3>1, OperationRows
    <3>3. ResultToStatus(Result(t)) \in {"COMPLETED", "REJECTED"}
      BY DEF ResultToStatus, Result
    <3>4. outbox'[Op].state = "DONE"
      BY <1>0, <3>1, IntentRows
    <3> QED BY <1>0, <1>k, <2>0, <3>1, <3>2, <3>3, <3>4
  <2> QED BY <2>1, <2>2
<1>4. CASE AcceptedOutcome(t)
  <2>1. /\ tx[t].operation # Null => Write(t)
        /\ IntentRow \in held[t] /\ outbox[Op].state # Absent
        /\ operations' = LinkProviderPayment(operations, Op, PaymentOf[t])
        /\ outbox' = MarkDone(outbox, Op) /\ receipts' = receipts
    BY <1>4 DEF AcceptedOutcome
  <2>2. tx[t].operation = Null => operations' = operations
    BY DEF OperationsOf
  <2>3. outbox'[Op].state = "DONE"
    BY <1>0, <2>1, IntentRows
  <2>4. Acknowledged'
    <3>1. PICK e : e \in tx[t].event
      BY <1>4 DEF AcceptedOutcome
    <3>2. e = EventOf(t) /\ e \in log'
      BY <3>1 DEF EventInv
    <3>3. EventOf(t).type = "PROVIDER_ACCEPTED"
      BY <1>4 DEF EventOf, AcceptedOutcome, Receipts
    <3> QED BY <3>2, <3>3 DEF Acknowledged
  <2>5. operations'[Op].status = operations[Op].status
    BY <1>l, <2>1
  <2>6. operations[Op].payment # Null => operations'[Op].payment = operations[Op].payment
    BY <1>l, <2>1
  <2>7. operations[Op].status # "CREATED"
    BY <1>0, <2>1
  <2> QED BY <1>0, <2>1, <2>2, <2>3, <2>4, <2>5, <2>6, <2>7
<1>5. ASSUME operations' = operations, receipts' = receipts,
             \/ outbox' = outbox
             \/ /\ IntentRow \in held[t] /\ outbox[Op].state \notin {Absent, "DONE"}
                /\ outbox'[Op].state # Absent
      PROVE  Goal
  BY <1>0, <1>k, <1>5
<1>6. CASE FailureOutcome(t)
  <2>1. operations' = operations /\ receipts' = receipts
    BY <1>6 DEF FailureOutcome
  <2>2. CASE tx[t].intent = Null
    BY <1>5, <1>6, <2>1, <2>2 DEF FailureOutcome
  <2>3. CASE tx[t].intent # Null
    <3>1. /\ IntentRow \in held[t] /\ outbox[Op].state # Absent
          /\ outbox' = Reschedule(outbox, Op, "unavailable") \/ outbox' = MarkFailed(outbox, Op, "rejected")
      BY <1>6, <2>3 DEF FailureOutcome
    <3>2. \/ outbox' = outbox
          \/ outbox[Op].state = "IN_FLIGHT" /\ outbox'[Op].state \in {"PENDING", "FAILED"}
      BY <1>0, <3>1, IntentRows
    <3> QED BY <1>0, <1>5, <2>1, <3>1, <3>2
  <2> QED BY <2>2, <2>3
<1>7. CASE ClaimOutcome(t)
  <2>1. /\ operations' = operations /\ receipts' = receipts /\ IntentRow \in held[t]
        /\ outbox' = ClaimDue(outbox, {Op}) /\ Op \in Due(outbox)
    BY <1>7 DEF ClaimOutcome
  <2>2. \A class : /\ ClaimDue(outbox, {Op})[Op].state = "IN_FLIGHT"
                   /\ Op \in Due(outbox) => outbox[Op].state \in {"PENDING", "IN_FLIGHT"}
    BY <1>0, IntentRows
  <2>3. outbox'[Op].state = "IN_FLIGHT" /\ outbox[Op].state \in {"PENDING", "IN_FLIGHT"}
    BY <2>1, <2>2
  <2> QED BY <1>0, <1>5, <2>1, <2>3
<1>8. CASE RecoveryOutcome(t)
  <2>1. operations' = operations /\ receipts' = receipts
    BY <1>8 DEF RecoveryOutcome
  <2> QED BY <1>0, <1>5, <1>8, <2>1 DEF RecoveryOutcome
<1> QED BY <1>1, <1>2, <1>3, <1>4, <1>6, <1>7, <1>8

\* Nor is a decision taken without its receipt, nor twice.
LEMMA CommitSettles ==
    ASSUME CommittedInv, NEW t \in Txs,
           \/ Nothing(t)
           \/ SubmitOutcome(t) \/ ReceiptOutcome(t) \/ AcceptedOutcome(t)
           \/ FailureOutcome(t) \/ ClaimOutcome(t) \/ RecoveryOutcome(t),
           operations' = OperationsOf(t), outbox' = OutboxOf(t),
           receipts' = receipts \cup tx[t].receipt, KeepsWhatIsDone
    PROVE  OneReceiptSettles'
<1> DEFINE Applied(rs) == {r \in rs : r.applied}
<1>0. /\ operations \in [OperationIds -> Operation] /\ outbox \in [OperationIds -> SubmitIntent]
      /\ receipts \subseteq Receipt /\ Null \notin PaymentIds /\ PaymentOf[t] \in PaymentIds
      /\ operations[Op].status \in TerminalStatuses <=> Applied(receipts) # {}
      /\ \A r \in Applied(receipts) :
            /\ Applied(receipts) = {r} /\ r.payment \in PaymentIds
            /\ ResultToStatus(r.result) = operations[Op].status
            /\ r.payment = operations[Op].payment /\ outbox[Op].state = "DONE"
  BY Constants, NullAssumption DEF CommittedInv, OneReceiptSettles, Receipt
<1>1. ASSUME Applied(receipts') = Applied(receipts),
             operations'[Op].status \in TerminalStatuses => operations[Op].status \in TerminalStatuses
      PROVE  OneReceiptSettles'
  <2> HIDE DEF Applied
  <2>1. operations[Op].status \in TerminalStatuses => operations'[Op].status = operations[Op].status
    BY DEF KeepsWhatIsDone
  <2>2. operations'[Op].status \in TerminalStatuses <=> Applied(receipts') # {}
    BY <1>0, <1>1, <2>1
  <2>3. ASSUME NEW r \in Applied(receipts')
        PROVE  /\ Applied(receipts') = {r} /\ ResultToStatus(r.result) = operations'[Op].status
               /\ r.payment = operations'[Op].payment /\ outbox'[Op].state = "DONE"
    BY <1>0, <1>1, <2>1, <2>3 DEF KeepsWhatIsDone
  <2> QED BY <2>2, <2>3 DEF OneReceiptSettles, Applied
<1>2. CASE Nothing(t)
  BY <1>1, <1>2 DEF Nothing, OperationsOf
<1>3. CASE SubmitOutcome(t)
  <2>1. operations'[Op].status = "PROCESSING" /\ receipts' = receipts
    BY <1>0, <1>3, OperationRows DEF SubmitOutcome, CanBeginProcessing
  <2> QED BY <1>1, <2>1 DEF TerminalStatuses
<1>4. CASE ReceiptOutcome(t) /\ ~ Applies(t)
  <2>1. /\ operations' = operations
        /\ receipts' = receipts \cup RecordReceipt({}, Op, PaymentOf[t], Result(t), Applies(t), Reason(t))
    BY <1>4 DEF ReceiptOutcome
  <2>2. Applies(t) = FALSE
    BY <1>4 DEF Applies
  <2>3. \A r \in RecordReceipt({}, Op, PaymentOf[t], Result(t), FALSE, Reason(t)) : ~ r.applied
    BY DEF RecordReceipt
  <2>4. Applied(receipts') = Applied(receipts)
    BY <2>1, <2>2, <2>3
  <2> QED BY <1>1, <2>1, <2>4
<1>5. CASE ReceiptOutcome(t) /\ Applies(t)
  <2> DEFINE new == [op |-> Op, payment |-> PaymentOf[t], result |-> Result(t),
                     applied |-> TRUE, reason |-> Reason(t)]
  <2>1. /\ operations[Op].status = "PROCESSING" /\ operations[Op].payment \in {Null, PaymentOf[t]}
        /\ operations' = TryFinalize(LinkProviderPayment(operations, Op, PaymentOf[t]), Op,
                                     ResultToStatus(Result(t)))
        /\ outbox' = MarkDone(outbox, Op)
    BY <1>5 DEF ReceiptOutcome, Applies
  <2>2. Result(t) \in TerminalStatuses /\ ResultToStatus(Result(t)) = Result(t)
    BY DEF Result, TerminalStatuses, ResultToStatus
  <2>3. /\ LinkProviderPayment(operations, Op, PaymentOf[t]) \in [OperationIds -> Operation]
    BY <1>0, <2>2, OperationTables
  <2>4. operations'[Op].status = Result(t) /\ operations'[Op].payment = PaymentOf[t]
    BY <1>0, <2>1, <2>2, <2>3, OperationRows
  <2>5. outbox'[Op].state = "DONE"
    BY <1>0, <2>1, IntentRows
  <2>6. receipts' = receipts \cup {new}
    <3>1. Applies(t) = TRUE
      BY <1>5 DEF Applies
    <3> QED BY <1>5, <3>1 DEF ReceiptOutcome, RecordReceipt
  <2>7. new.applied /\ new.payment = PaymentOf[t] /\ new.result = Result(t)
    OBVIOUS
  <2> HIDE DEF new
  <2>8. Applied(receipts) = {}
    BY <1>0, <2>1 DEF TerminalStatuses
  <2>9. Applied(receipts') = {new}
    BY <2>6, <2>7, <2>8
  <2> QED BY <2>2, <2>4, <2>5, <2>7, <2>9 DEF OneReceiptSettles
<1>6. CASE AcceptedOutcome(t)
  <2>1. operations'[Op].status = operations[Op].status /\ receipts' = receipts
    BY <1>0, <1>6, OperationRows DEF AcceptedOutcome
  <2> QED BY <1>1, <2>1
<1>7. CASE FailureOutcome(t) \/ ClaimOutcome(t) \/ RecoveryOutcome(t)
  BY <1>1, <1>7 DEF FailureOutcome, ClaimOutcome, RecoveryOutcome
<1> QED BY <1>2, <1>3, <1>4, <1>5, <1>6, <1>7

-----------------------------------------------------------------------------
(* What a step leaves to the others *)

\* Transaction t has not moved.
Still(t) == tx'[t] = tx[t] /\ held'[t] = held[t]

\* What is said of a transaction that has not moved.
LEMMA StillSame ==
    ASSUME NEW t \in Txs, Still(t)
    PROVE  /\ Typed(t)' = Typed(t) /\ Over(t)' = Over(t)
           /\ want'[t] = want[t] => Begun(t)' = Begun(t)
           /\ Nothing(t)' = Nothing(t) /\ Write(t)' = Write(t) /\ EventInv(t)' = EventInv(t)
           /\ Applies(t)' = Applies(t) /\ Reason(t)' = Reason(t) /\ Result(t)' = Result(t)
           /\ operations' = operations => OperationsOf(t)' = OperationsOf(t)
           /\ outbox' = outbox => OutboxOf(t)' = OutboxOf(t)
<1>1. Applies(t)' = Applies(t) /\ Result(t)' = Result(t) /\ Write(t)' = Write(t) /\ Nothing(t)' = Nothing(t)
  BY DEF Still, Applies, Result, Write, Nothing
<1>2. Typed(t)' = Typed(t)
  BY DEF Still, Typed
<1>3. Over(t)' = Over(t) /\ (want'[t] = want[t] => Begun(t)' = Begun(t))
  BY DEF Still, Begun, Over
<1>4. Reason(t)' = Reason(t)
  BY <1>1 DEF Still, Reason
<1>5. EventOf(t)' = EventOf(t)
  BY <1>1 DEF Still, EventOf
<1>6. EventInv(t)' = EventInv(t)
  BY <1>5 DEF Still, EventInv
<1>7. /\ operations' = operations => OperationsOf(t)' = OperationsOf(t)
      /\ outbox' = outbox => OutboxOf(t)' = OutboxOf(t)
  BY DEF Still, OperationsOf, OutboxOf
<1> QED BY <1>1, <1>2, <1>3, <1>4, <1>6, <1>7

\* A step that commits nothing leaves the invariant of every transaction that it
\* is not of.
LEMMA StillOpen ==
    ASSUME NEW t \in Txs, Still(t), UNCHANGED committed, OpenInv(t)
    PROVE  OpenInv(t)'
<1>1. /\ Nothing(t)' = Nothing(t) /\ Write(t)' = Write(t) /\ EventInv(t)' = EventInv(t)
      /\ Applies(t)' = Applies(t) /\ Reason(t)' = Reason(t) /\ Result(t)' = Result(t)
      /\ OperationsOf(t)' = OperationsOf(t) /\ OutboxOf(t)' = OutboxOf(t)
      /\ operations' = operations /\ outbox' = outbox /\ receipts' = receipts /\ log' = log
      /\ tx'[t] = tx[t] /\ held'[t] = held[t]
  BY StillSame DEF committed, Still
<1>a. Acknowledged' = Acknowledged
  BY <1>1 DEF Acknowledged
<1>2. Kind[t] = "submit" => SubmitInv(t)'
  BY <1>1 DEF OpenInv, SubmitInv
<1>3. Kind[t] \in Receipts => ReceiptInv(t)'
  BY <1>1 DEF OpenInv, ReceiptInv
<1>4. Kind[t] = "accepted" => AcceptedInv(t)'
  BY <1>1, <1>a DEF OpenInv, AcceptedInv
<1>5. Kind[t] \in {"unavailable", "refused"} => FailureInv(t)'
  BY <1>1 DEF OpenInv, FailureInv
<1>6. Kind[t] = "claim" => ClaimInv(t)'
  BY <1>1 DEF OpenInv, ClaimInv
<1>7. Kind[t] = "recovery" => RecoveryInv(t)'
  BY <1>1 DEF OpenInv, RecoveryInv, Resumed
<1> QED BY <1>1, <1>2, <1>3, <1>4, <1>5, <1>6, <1>7 DEF OpenInv

\* Nor does a commit take anything from another transaction: what that one has
\* read under a lock is still what is committed.
LEMMA CommitLeaves ==
    ASSUME LocksInv, CommittedInv, CommittedInv', NEW u \in Txs, NEW t \in Txs \ {u}, Still(t),
           KeepsWhatIsDone, WritesUnderLock(u), Typed(t), OpenInv(t),
           Kind[t] \in Recordings /\ Begun(t) => outbox[Op].state # Absent
    PROVE  OpenInv(t)'
<1>1. /\ Nothing(t)' = Nothing(t) /\ Write(t)' = Write(t) /\ EventInv(t)' = EventInv(t)
      /\ Applies(t)' = Applies(t) /\ Reason(t)' = Reason(t) /\ Result(t)' = Result(t)
      /\ operations' = operations => OperationsOf(t)' = OperationsOf(t)
      /\ outbox' = outbox => OutboxOf(t)' = OutboxOf(t)
      /\ tx'[t] = tx[t] /\ held'[t] = held[t]
  BY StillSame DEF Still
<1>w. /\ Write(t) => operations' = operations /\ receipts' = receipts
      /\ Write(t) /\ outbox[Op].state = Absent => outbox' = outbox
      /\ IntentRow \in held[t] /\ outbox[Op].state # Absent => outbox' = outbox
  BY Exclusion DEF WritesUnderLock
<1>0. /\ NoIntent.state = Absent /\ Op \in OperationIds
      /\ operations[Op].status = "CREATED" => operations[Op].payment = Null /\ outbox[Op] = NoIntent
      /\ operations[Op].status # "CREATED" => outbox[Op].state # Absent
      /\ operations \in [OperationIds -> Operation]
  BY Constants DEF CommittedInv, NoIntent
<1>2. CASE Kind[t] = "submit"
  <2>1. SubmitInv(t)
    BY <1>2 DEF OpenInv
  <2>2. ASSUME tx[t].won PROVE SubmitInv(t)'
    BY <1>0, <1>1, <1>w, <2>1, <2>2 DEF SubmitInv
  <2>3. ASSUME ~ tx[t].won PROVE SubmitInv(t)'
    BY <1>1, <2>1, <2>3 DEF SubmitInv
  <2>4. SubmitInv(t)'
    BY <2>2, <2>3
  <2> QED BY <1>1, <1>2, <2>4 DEF OpenInv, Receipts
<1>3. CASE Kind[t] \in Receipts
  <2>1. ReceiptInv(t)
    BY <1>3 DEF OpenInv
  <2>2. ASSUME Nothing(t) /\ tx[t].step \in {1, 9} PROVE ReceiptInv(t)'
    BY <1>1, <2>1, <2>2 DEF ReceiptInv
  <2>3. ASSUME ~ (Nothing(t) /\ tx[t].step \in {1, 9}) PROVE ReceiptInv(t)'
    <3>1. operations' = operations /\ receipts' = receipts /\ OperationsOf(t)' = OperationsOf(t)
      BY <1>1, <1>w, <2>1, <2>3 DEF ReceiptInv
    <3>2. Applies(t) /\ tx[t].step = 9 => outbox' = outbox
      BY <1>0, <1>w, <2>1, <2>3 DEF ReceiptInv, Applies
    <3> QED BY <1>1, <2>1, <2>3, <3>1, <3>2 DEF ReceiptInv
  <2>4. ReceiptInv(t)'
    BY <2>2, <2>3
  <2> QED BY <1>1, <1>3, <2>4 DEF OpenInv, Receipts
<1>4. CASE Kind[t] = "accepted"
  <2>1. AcceptedInv(t)
    BY <1>4 DEF OpenInv
  <2>2. tx[t].step > 1 => outbox[Op].state # Absent
    BY <1>4 DEF Recordings, Begun
  <2>3. tx[t].step = 7 => outbox' = outbox
    BY <1>w, <2>1, <2>2 DEF AcceptedInv
  <2>4. Acknowledged => Acknowledged'
    BY DEF KeepsWhatIsDone, Acknowledged
  <2>5. ASSUME tx[t].step > 1
        PROVE  /\ OperationsOf(t)' = LinkProviderPayment(operations', Op, PaymentOf[t])
               /\ tx[t].operation = Null => operations'[Op].payment # Null
    <3>1. CASE tx[t].operation # Null
      <4>1. operations' = operations
        BY <1>w, <2>1, <3>1 DEF AcceptedInv
      <4> QED BY <1>1, <2>1, <2>5, <3>1, <4>1 DEF AcceptedInv
    <3>2. CASE tx[t].operation = Null
      <4>1. operations'[Op].payment # Null
        BY <2>1, <2>5, <3>2 DEF AcceptedInv, KeepsWhatIsDone
      <4>2. OperationsOf(t)' = operations'
        BY <1>1, <3>2 DEF OperationsOf
      <4>3. LinkProviderPayment(operations', Op, PaymentOf[t]) = operations'
        BY <4>1 DEF LinkProviderPayment
      <4> QED BY <4>1, <4>2, <4>3
    <3> QED BY <3>1, <3>2
  <2>6. ASSUME tx[t].step > 2
        PROVE  \/ tx[t].copy.status = operations'[Op].status
               \/ tx[t].copy.status = "PROCESSING" /\ Acknowledged'
    <3>0. \/ tx[t].copy.status = operations[Op].status
          \/ tx[t].copy.status = "PROCESSING" /\ Acknowledged
      BY <2>1, <2>6 DEF AcceptedInv
    <3>1. CASE operations'[Op].status = operations[Op].status
      BY <2>4, <3>0, <3>1
    <3>2. CASE operations'[Op].status # operations[Op].status
      <4>1. tx[t].operation = Null /\ operations[Op].payment # Null
        BY <1>w, <2>1, <2>6, <3>2 DEF AcceptedInv
      <4>2. operations[Op].status = "PROCESSING" /\ Acknowledged
        BY <3>2, <4>1 DEF CommittedInv, KeepsWhatIsDone, OperationStatus, TerminalStatuses
      <4> QED BY <2>4, <3>0, <4>2
    <3> QED BY <3>1, <3>2
  <2>7. AcceptedInv(t)'
    BY <1>1, <2>1, <2>3, <2>5, <2>6 DEF AcceptedInv
  <2> QED BY <1>1, <1>4, <2>7 DEF OpenInv, Receipts
<1>5. CASE Kind[t] \in {"unavailable", "refused"}
  <2>1. FailureInv(t)
    BY <1>5 DEF OpenInv
  <2>2. tx[t].intent # Null => outbox' = outbox
    <3>1. tx[t].intent # Null => tx[t].step > 1
      BY <2>1 DEF FailureInv
    <3> QED BY <1>5, <1>w, <2>1, <3>1 DEF FailureInv, Recordings, Begun
  <2>3. FailureInv(t)'
    BY <1>1, <2>1, <2>2 DEF FailureInv
  <2> QED BY <1>1, <1>5, <2>3 DEF OpenInv, Receipts
<1>6. CASE Kind[t] = "claim"
  <2>1. ClaimInv(t)
    BY <1>6 DEF OpenInv
  <2>2. tx[t].intent # Null => outbox[Op].state # Absent
    BY <2>1 DEF ClaimInv, Due, Absent
  <2>3. ClaimInv(t)'
    BY <1>1, <1>w, <2>1, <2>2 DEF ClaimInv
  <2> QED BY <1>1, <1>6, <2>3 DEF OpenInv, Receipts
<1>7. CASE Kind[t] = "recovery"
  <2>1. RecoveryInv(t)
    BY <1>7 DEF OpenInv
  <2>2. tx[t].intent # Null => outbox[Op].state # Absent
    BY <2>1 DEF RecoveryInv, Absent
  <2>3. tx[t].intent # Null => outbox' = outbox /\ Resumed'[Op] = Resumed[Op]
    <3> SUFFICES ASSUME tx[t].intent # Null PROVE outbox' = outbox /\ Resumed'[Op] = Resumed[Op]
      OBVIOUS
    <3>1. outbox' = outbox /\ outbox[Op].state \in {"IN_FLIGHT", "FAILED"}
      BY <1>w, <2>1, <2>2 DEF RecoveryInv
    <3>2. operations[Op].status = "PROCESSING"
      BY <3>1, Undecided
    <3>3. operations'[Op].status = "PROCESSING"
      <4>1. operations'[Op].status # "CREATED"
        BY <3>2 DEF KeepsWhatIsDone
      <4>2. operations'[Op].status \notin TerminalStatuses
        BY <3>1 DEF CommittedInv, OneReceiptSettles
      <4> QED BY <4>1, <4>2 DEF CommittedInv, OperationStatus, TerminalStatuses
    <3> QED BY <1>0, <3>1, <3>2, <3>3 DEF Resumed, ReviveFailed
  <2>4. RecoveryInv(t)'
    BY <1>1, <2>1, <2>3 DEF RecoveryInv
  <2> QED BY <1>1, <1>7, <2>4 DEF OpenInv, Receipts
<1> QED BY <1>2, <1>3, <1>4, <1>5, <1>6, <1>7, KindOf DEF Kinds, Recordings

-----------------------------------------------------------------------------
(* The invariant is inductive *)

\* A recording may begin only after a claim, so that the intent is there.
LEMMA MayBeginLater ==
    ASSUME CommittedInv, NEW t \in Txs, Kind[t] \in Recordings, MayBegin(t)
    PROVE  outbox[Op].state # Absent
<1> DEFINE begun == {u \in Txs : Kind[u] \in Recordings /\ Begun(u)}
<1>1. IsFiniteSet(Txs)
  BY TransactionsAssumption
<1>2. IsFiniteSet(begun)
  BY <1>1, FS_Subset
<1>3. Cardinality(begun) \in Nat
  BY <1>2, FS_CardinalityType
<1>4. Cardinality(begun) < outbox[Op].attempts
  BY DEF MayBegin
<1> HIDE DEF begun
<1>5. SUFFICES ASSUME operations[Op].status = "CREATED" PROVE FALSE
  BY DEF CommittedInv
<1>6. outbox[Op].attempts = 0
  BY <1>5 DEF CommittedInv, NoIntent
<1> QED BY <1>3, <1>4, <1>6

\* A statement of any kind keeps the invariant of its transaction.
LEMMA StatementOpen ==
    ASSUME Shape, Shape', LocksInv, CommittedInv,
           NEW t \in Txs, Typed(t), OpenInv(t), tx[t].state = "open",
           Kind[t] \in Recordings => outbox[Op].state # Absent,
           Statement(t), ~ CollideAtLast(t), ~ Mismatch(t)
    PROVE  OpenInv(t)' /\ Typed(t)' /\ tx'[t].state = "open"
<1>0. tx'[t].state = "open"
  BY StatementDoes
<1>e. EventInv(t)
  BY DEF OpenInv
<1>1. CASE Kind[t] = "submit"
  <2>1. SubmitInv(t)' /\ EventInv(t)' /\ Typed(t)'
    BY <1>1, <1>e, SubmitStep DEF OpenInv
  <2> QED BY <1>0, <1>1, <2>1 DEF OpenInv, Receipts
<1>2. CASE Kind[t] \in Receipts
  <2>1. ReceiptInv(t)' /\ EventInv(t)' /\ Typed(t)'
    BY <1>2, <1>e, ReceiptStep DEF OpenInv
  <2> QED BY <1>0, <1>2, <2>1 DEF OpenInv, Receipts
<1>3. CASE Kind[t] = "accepted"
  <2>1. AcceptedInv(t)' /\ EventInv(t)' /\ Typed(t)'
    BY <1>3, <1>e, AcceptedStep DEF OpenInv, Recordings
  <2> QED BY <1>0, <1>3, <2>1 DEF OpenInv, Receipts
<1>4. CASE Kind[t] \in {"unavailable", "refused"}
  <2>1. FailureInv(t)' /\ EventInv(t)' /\ Typed(t)'
    BY <1>4, <1>e, FailureStep DEF OpenInv
  <2> QED BY <1>0, <1>4, <2>1 DEF OpenInv, Receipts
<1>5. CASE Kind[t] = "claim"
  <2>1. ClaimInv(t)' /\ EventInv(t)' /\ Typed(t)'
    BY <1>5, <1>e, ClaimStep DEF OpenInv
  <2> QED BY <1>0, <1>5, <2>1 DEF OpenInv, Receipts
<1>6. CASE Kind[t] = "recovery"
  <2>1. RecoveryInv(t)' /\ EventInv(t)' /\ Typed(t)'
    BY <1>6, <1>e, RecoveryStep DEF OpenInv
  <2> QED BY <1>0, <1>6, <2>1 DEF OpenInv, Receipts
<1> QED BY <1>1, <1>2, <1>3, <1>4, <1>5, <1>6, KindOf DEF Kinds, Recordings

\* What is said of one transaction.
TxInv(t) ==
    /\ Typed(t)
    /\ tx[t].state = "absent" => want[t] = {} /\ tx[t].step = 1
    /\ tx[t].state = "open" => OpenInv(t)
    /\ Kind[t] \in Recordings /\ Begun(t) => outbox[Op].state # Absent

\* Whoever has not moved keeps its part when nothing is committed.
LEMMA TxIdle ==
    ASSUME NEW t \in Txs, TxInv(t), Still(t), want'[t] = want[t], UNCHANGED committed
    PROVE  TxInv(t)'
<1>1. Typed(t)' /\ Begun(t)' = Begun(t)
  BY StillSame DEF TxInv
<1>2. tx'[t] = tx[t] /\ outbox' = outbox
  BY DEF Still, committed
<1> QED BY <1>1, <1>2, StillOpen DEF TxInv

\* Whoever has moved without a commit keeps its part.
LEMMA TxStep ==
    ASSUME Shape, Shape', LocksInv, CommittedInv, NEW t \in Txs, TxInv(t),
           Wait(t) \/ Statement(t) \/ DeadlockVictim(t) \/ ConnectionLost(t)
    PROVE  TxInv(t)'
<1>0. /\ UNCHANGED committed /\ outbox' = outbox
      /\ Kind[t] \in Recordings => outbox[Op].state # Absent
  BY StepDoes, MayBeginLater DEF TxInv, committed
<1>1. CASE Wait(t)
  <2>1. Still(t) /\ tx[t].state = "open"
    BY <1>1 DEF Wait, Still
  <2>2. Typed(t)' /\ OpenInv(t)'
    BY <1>0, <2>1, StillSame, StillOpen DEF TxInv
  <2> QED BY <1>0, <2>1, <2>2 DEF TxInv, Still
<1>2. ASSUME NEW tries, Roll(t, tries)
      PROVE  TxInv(t)'
  <2>1. tx'[t].state = "aborted" /\ Only(tx'[t], tx[t], {"state", "tries"})
    BY <1>2, RollDoes
  <2>2. Typed(t)'
    BY <2>1 DEF TxInv, Typed, Only
  <2> QED BY <1>0, <2>1, <2>2 DEF TxInv
<1>3. CASE Statement(t)
  <2>1. CASE Mismatch(t) \/ CollideAtLast(t)
    BY <1>2, <1>3, <2>1, StatementDoes
  <2>2. CASE ~ (Mismatch(t) \/ CollideAtLast(t))
    <3>1. tx[t].state = "open"
      BY <1>3, StatementDoes DEF At
    <3>2. OpenInv(t)' /\ Typed(t)' /\ tx'[t].state = "open"
      BY <1>0, <1>3, <2>2, <3>1, StatementOpen DEF TxInv
    <3> QED BY <1>0, <3>2 DEF TxInv
  <2> QED BY <2>1, <2>2
<1>4. CASE DeadlockVictim(t) \/ ConnectionLost(t)
  BY <1>2, <1>4 DEF DeadlockVictim, ConnectionLost
<1> QED BY <1>1, <1>3, <1>4

\* The commit of a transaction, for the tables and for everybody.
LEMMA TxCommit ==
    ASSUME DenseInv, LocksInv, CommittedInv, NEW t \in Txs, \A u \in Txs : TxInv(u), Commit(t)
    PROVE  /\ KeepsWhatIsDone /\ CommittedInv'
           /\ \/ Nothing(t)
              \/ SubmitOutcome(t) \/ ReceiptOutcome(t) \/ AcceptedOutcome(t)
              \/ FailureOutcome(t) \/ ClaimOutcome(t) \/ RecoveryOutcome(t)
           /\ WritesUnderLock(t)
           /\ \A u \in Txs : TxInv(u)'
<1>1. /\ tx[t].state = "open" /\ Over(t)
      /\ operations' = OperationsOf(t) /\ outbox' = OutboxOf(t)
      /\ receipts' = receipts \cup tx[t].receipt /\ log' = log \cup tx[t].event
  BY DEF Commit
<1>2. /\ Others(t) /\ tx'[t].state = "committed" /\ Only(tx'[t], tx[t], {"state"})
      /\ Shape
  BY CommitDoes DEF DenseInv
<1>3. Typed(t) /\ OpenInv(t) /\ EventInv(t)
  BY <1>1 DEF TxInv, OpenInv
<1>4. Begun(t) /\ (Kind[t] \in Recordings => outbox[Op].state # Absent)
  <2>1. tx[t].step > 1
    <3>1. Len(Program(Kind[t])) \in Nat \ {0} /\ tx[t].step \in Nat
      BY <1>2, KindOf, ProgramOrder DEF Shape
    <3> QED BY <1>1, <3>1 DEF Over
  <2> QED BY <2>1 DEF Begun, TxInv
<1>5. \/ Nothing(t)
      \/ SubmitOutcome(t) \/ ReceiptOutcome(t) \/ AcceptedOutcome(t)
      \/ FailureOutcome(t) \/ ClaimOutcome(t) \/ RecoveryOutcome(t)
  BY <1>1, <1>2, <1>3, <1>4, Outcomes
<1>6. /\ KeepsWhatIsDone
      /\ WritesUnderLock(t)
      /\ operations'[Op].status \in OperationStatus
      /\ operations'[Op].status = "CREATED" => operations'[Op].payment = Null /\ outbox'[Op] = NoIntent
      /\ operations'[Op].status # "CREATED" => outbox'[Op].state # Absent
      /\ operations'[Op].status = "PROCESSING" /\ operations'[Op].payment # Null => Acknowledged'
  BY <1>1, <1>3, <1>5, CommitKeeps
<1>7. CommittedInv'
  <2>1. /\ operations' \in [OperationIds -> Operation] /\ outbox' \in [OperationIds -> SubmitIntent]
        /\ \A o \in OperationIds \ {Op} : operations'[o] = NoOperation /\ outbox'[o] = NoIntent
    BY <1>1, <1>3, Sees DEF CommittedInv, Typed
  <2>2. receipts' \subseteq Receipt /\ log' \subseteq EventRow
    BY <1>1, <1>3 DEF CommittedInv, Typed
  <2>3. ASSUME NEW e \in log', NEW f \in log', e.id = f.id
        PROVE  e = f
    <3>1. Cardinality(log) \in Nat /\ \A g \in log : g.id \in 1 .. Cardinality(log)
      BY FiniteCount DEF DenseInv, EventIdsDense, Ids
    <3>2. \A g, h \in tx[t].event : g = h /\ g.id = Cardinality(log) + 1
      BY <1>1 DEF DenseInv, UncommittedIsNext
    <3>3. \A g, h \in log : g.id = h.id => g = h
      BY DEF CommittedInv
    <3> QED BY <1>1, <2>3, <3>1, <3>2, <3>3
  <2>4. OneReceiptSettles'
    BY <1>1, <1>5, <1>6, CommitSettles
  <2> QED BY <1>6, <2>1, <2>2, <2>3, <2>4 DEF CommittedInv
<1>8. TxInv(t)'
  <2>1. Typed(t)'
    BY <1>2, <1>3 DEF Typed, Only
  <2> QED BY <1>2, <1>4, <1>6, <2>1 DEF TxInv, KeepsWhatIsDone
<1>9. ASSUME NEW u \in Txs \ {t} PROVE TxInv(u)'
  <2>1. Still(u) /\ want'[u] = want[u] /\ tx'[u] = tx[u]
    BY <1>2 DEF Others, Still
  <2>2. Typed(u)' /\ Begun(u)' = Begun(u)
    BY <2>1, StillSame DEF TxInv
  <2>3. tx[u].state = "open" => OpenInv(u)'
    BY <1>6, <1>7, <2>1, CommitLeaves DEF TxInv
  <2> QED BY <1>6, <2>1, <2>2, <2>3 DEF TxInv, KeepsWhatIsDone
<1> QED BY <1>5, <1>6, <1>7, <1>8, <1>9

\* Every step keeps the invariant.
LEMMA WholeStep == DenseInv /\ WholeInv /\ [Next]_vars => WholeInv'
<1> SUFFICES ASSUME DenseInv, WholeInv, [Next]_vars PROVE WholeInv'
  OBVIOUS
<1>0. /\ DenseInv' /\ Shape /\ Shape' /\ LocksInv /\ CommittedInv /\ \A t \in Txs : TxInv(t)
      /\ faults \in 0 .. MaxFaults /\ MaxFaults \in Nat
  BY DenseStep, TransactionsAssumption DEF DenseInv, WholeInv, TxsInv, TxInv
<1>1. SUFFICES LocksInv' /\ CommittedInv' /\ (\A t \in Txs : TxInv(t)') /\ faults' \in 0 .. MaxFaults
  BY DEF WholeInv, TxsInv, TxInv
<1>2. ASSUME NEW t \in Txs, Wait(t) \/ Statement(t) \/ DeadlockVictim(t) \/ ConnectionLost(t)
      PROVE  LocksInv' /\ CommittedInv' /\ (\A u \in Txs : TxInv(u)') /\ faults' \in 0 .. MaxFaults
  <2>1. UNCHANGED committed /\ Others(t) /\ (~ ConnectionLost(t) => UNCHANGED faults)
    BY <1>0, <1>2, StepDoes
  <2>2. LocksInv'
    BY <1>0, <1>2, LocksStep DEF Proceed
  <2>3. CommittedInv'
    BY <1>0, <2>1 DEF CommittedInv, committed, Acknowledged, OneReceiptSettles
  <2>4. TxInv(t)'
    BY <1>0, <1>2, TxStep
  <2>5. \A u \in Txs \ {t} : TxInv(u)'
    BY <1>0, <2>1, TxIdle DEF Others, Still
  <2>6. faults' \in 0 .. MaxFaults
    BY <1>0, <2>1 DEF ConnectionLost
  <2> QED BY <2>2, <2>3, <2>4, <2>5, <2>6
<1>3. ASSUME NEW t \in Txs, Commit(t)
      PROVE  LocksInv' /\ CommittedInv' /\ (\A u \in Txs : TxInv(u)') /\ faults' \in 0 .. MaxFaults
  <2>1. LocksInv'
    BY <1>0, <1>3, LocksStep DEF Proceed
  <2>2. faults' = faults
    BY <1>3 DEF Commit
  <2> QED BY <1>0, <1>3, <2>1, <2>2, TxCommit
<1>4. ASSUME UNCHANGED <<committed, tx, held, want, faults>>
      PROVE  LocksInv' /\ CommittedInv' /\ (\A u \in Txs : TxInv(u)') /\ faults' \in 0 .. MaxFaults
  <2>1. LocksInv'
    BY <1>0, <1>4 DEF LocksInv, Over, LocksOf
  <2>2. CommittedInv'
    BY <1>0, <1>4 DEF CommittedInv, committed, Acknowledged, OneReceiptSettles
  <2>3. \A u \in Txs : TxInv(u)'
    BY <1>0, <1>4, TxIdle DEF Still
  <2> QED BY <1>0, <1>4, <2>1, <2>2, <2>3
<1>5. ASSUME NEW t \in Txs, SendReply(t)
      PROVE  LocksInv' /\ CommittedInv' /\ (\A u \in Txs : TxInv(u)') /\ faults' \in 0 .. MaxFaults
  BY <1>4, <1>5 DEF SendReply
<1>6. CASE UNCHANGED vars
  BY <1>4, <1>6 DEF vars
<1> QED BY <1>2, <1>3, <1>5, <1>6 DEF Next, Proceed, Quiet

\* The transactions as they begin.
LEMMA InitialRows ==
    ASSUME Init, NEW t \in Txs
    PROVE  /\ tx[t].state \in {"open", "absent"} /\ tx[t].step = 1 /\ Nothing(t)
           /\ ~ tx[t].won /\ tx[t].tries = 0 /\ tx[t].first = 0 /\ tx[t].id = 0
           /\ held[t] = {} /\ want[t] = {} /\ reply[t].code = 0
<1> DEFINE blank(state, c) ==
              [state |-> state, step |-> 1, operation |-> Null, intent |-> Null,
               receipt |-> {}, event |-> {}, copy |-> NoOperation, since |-> Absent,
               id |-> 0, first |-> 0, tries |-> 0, won |-> c]
           Blank(r) == /\ r.step = 1 /\ r.operation = Null /\ r.intent = Null
                       /\ r.receipt = {} /\ r.event = {} /\ r.id = 0 /\ r.first = 0 /\ r.tries = 0
                       /\ r.state \in {"open", "absent"} /\ ~ r.won
<1>1. Blank(blank("open", FALSE)) /\ Blank(blank("absent", FALSE))
  OBVIOUS
<1>2. \A c : [blank("open", c) EXCEPT !.state = "absent"] = blank("absent", c)
  OBVIOUS
<1>3. NoTx = blank("open", FALSE)
  BY Zenon DEF NoTx
<1> HIDE DEF blank
<1>4. [NoTx EXCEPT !.state = "absent"] = blank("absent", FALSE)
  BY <1>2, <1>3, Zenon
<1>5. PICK mix \in Mixes :
        tx = [u \in Txs |-> IF u \in mix THEN NoTx ELSE [NoTx EXCEPT !.state = "absent"]]
  BY DEF Init
<1>6. tx[t] = blank("open", FALSE) \/ tx[t] = blank("absent", FALSE)
  BY <1>3, <1>4, <1>5
<1>7. Blank(tx[t])
  BY <1>1, <1>6
<1>8. held[t] = {} /\ want[t] = {} /\ reply[t].code = 0
  BY DEF Init
<1> QED BY <1>7, <1>8 DEF Nothing

\* The tables as they begin agree.
LEMMA InitialTables ==
    ASSUME Init
    PROVE  CommittedInv
<1> USE DEF OperationStatus
<1>0. Op \in OperationIds /\ NoIntent.state = "ABSENT" /\ Null \notin OperationIds
  BY Constants, NullAssumption DEF NoIntent, Absent
<1>r. NoOperation \in Operation /\ NoIntent \in SubmitIntent
  BY DEF NoOperation, Operation, NoIntent, SubmitIntent, IntentState, LeaseState, ErrorClass, Absent
<1>e. /\ Row(1, "CREATED", Null, "CREATED") \in EventRow
      /\ Row(2, "SUBMIT_REQUESTED", "CREATED", "PROCESSING") \in EventRow
      /\ Row(1, "CREATED", Null, "CREATED").id # Row(2, "SUBMIT_REQUESTED", "CREATED", "PROCESSING").id
  BY DEF Row, EventRow, EventType
<1>1. \A o \in OperationIds \ {Op} : operations[o] = NoOperation /\ outbox[o] = NoIntent
  BY DEF Init
<1>2. receipts \subseteq Receipt /\ log \subseteq EventRow /\ \A e, f \in log : e.id = f.id => e = f
  BY <1>e DEF Init
<1>3. \/ /\ operations = [o \in OperationIds |-> IF o = Op THEN [NoOperation EXCEPT !.status = "CREATED"]
                                                 ELSE NoOperation]
         /\ outbox = [o \in OperationIds |-> NoIntent]
      \/ /\ operations = [o \in OperationIds |-> IF o = Op THEN [NoOperation EXCEPT !.status = "PROCESSING"]
                                                 ELSE NoOperation]
         /\ outbox = [o \in OperationIds |->
                IF o = Op THEN [state |-> "IN_FLIGHT", key |-> Op, attempts |-> 2, due |-> TRUE,
                                lease |-> "held", error |-> "none"]
                ELSE NoIntent]
  BY DEF Init
<1>4. /\ \A s \in OperationStatus :
            /\ [NoOperation EXCEPT !.status = s] \in Operation
            /\ [NoOperation EXCEPT !.status = s].status = s
            /\ [NoOperation EXCEPT !.status = s].payment = Null
      /\ [state |-> "IN_FLIGHT", key |-> Op, attempts |-> 2, due |-> TRUE,
          lease |-> "held", error |-> "none"] \in SubmitIntent
  BY <1>0 DEF NoOperation, Operation, SubmitIntent, IntentState, LeaseState, ErrorClass
<1>5. /\ operations \in [OperationIds -> Operation] /\ outbox \in [OperationIds -> SubmitIntent]
      /\ operations[Op].payment = Null
      /\ \/ operations[Op].status = "CREATED" /\ outbox[Op] = NoIntent
         \/ operations[Op].status = "PROCESSING" /\ outbox[Op].state = "IN_FLIGHT"
  <2> DEFINE row(s) == [NoOperation EXCEPT !.status = s]
             held2 == [state |-> "IN_FLIGHT", key |-> Op, attempts |-> 2, due |-> TRUE,
                       lease |-> "held", error |-> "none"]
  <2>1. \/ /\ operations = [o \in OperationIds |-> IF o = Op THEN row("CREATED") ELSE NoOperation]
           /\ outbox = [o \in OperationIds |-> NoIntent]
        \/ /\ operations = [o \in OperationIds |-> IF o = Op THEN row("PROCESSING") ELSE NoOperation]
           /\ outbox = [o \in OperationIds |-> IF o = Op THEN held2 ELSE NoIntent]
    BY <1>3
  <2>2. held2 \in SubmitIntent /\ held2.state = "IN_FLIGHT"
    BY <1>4
  <2>3. /\ row("CREATED") \in Operation /\ row("PROCESSING") \in Operation
        /\ row("CREATED").status = "CREATED" /\ row("PROCESSING").status = "PROCESSING"
        /\ row("CREATED").payment = Null /\ row("PROCESSING").payment = Null
    BY <1>4
  <2> HIDE DEF row, held2
  <2> QED BY <1>0, <1>r, <2>1, <2>2, <2>3
<1>6. OneReceiptSettles
  <2>1. receipts = {}
    BY DEF Init
  <2> QED BY <1>5, <2>1 DEF OneReceiptSettles, TerminalStatuses
<1> QED BY <1>1, <1>2, <1>5, <1>6 DEF CommittedInv, Absent

\* The invariant holds at first.
LEMMA WholeInit == Init => WholeInv
<1> SUFFICES ASSUME Init PROVE WholeInv
  OBVIOUS
<1>1. LocksInv
  BY InitialRows DEF LocksInv
<1>2. ASSUME NEW t \in Txs
      PROVE  TxInv(t)
  <2>1. /\ tx[t].state \in {"open", "absent"} /\ tx[t].step = 1 /\ Nothing(t) /\ ~ tx[t].won
        /\ held[t] = {} /\ want[t] = {}
    BY InitialRows
  <2>2. SubmitInv(t) /\ ReceiptInv(t)
    BY <2>1 DEF SubmitInv, ReceiptInv, Nothing
  <2>3. AcceptedInv(t) /\ FailureInv(t) /\ ClaimInv(t) /\ RecoveryInv(t) /\ EventInv(t)
    BY <2>1 DEF AcceptedInv, FailureInv, ClaimInv, RecoveryInv, EventInv, Nothing
  <2>4. Typed(t) /\ ~ Begun(t)
    BY <2>1 DEF Typed, Nothing, Begun
  <2> QED BY <2>1, <2>2, <2>3, <2>4 DEF TxInv, OpenInv
<1>3. faults \in 0 .. MaxFaults
  BY TransactionsAssumption DEF Init
<1> QED BY <1>1, <1>2, <1>3, InitialTables DEF WholeInv, TxsInv, TxInv

\* The tables, what is written to them and the locks keep their types: a
\* transaction never commits a row the schema would not take.
THEOREM TablesAreTyped == Spec => []TypeOK
<1>1. WholeInv => TypeOK
  BY DEF WholeInv, LocksInv, CommittedInv, TxsInv, Typed, TypeOK
<1> QED BY <1>1, DenseInit, DenseStep, WholeInit, WholeStep, PTL DEF Spec

\* What changes the tables is a commit.
LEMMA CommitsOnly ==
    ASSUME Shape, [Next]_vars
    PROVE  UNCHANGED committed \/ \E t \in Txs : Commit(t)
<1>1. ASSUME NEW t \in Txs, SendReply(t) PROVE UNCHANGED committed
  BY <1>1 DEF SendReply
<1>2. UNCHANGED vars => UNCHANGED committed
  BY DEF vars
<1> QED BY <1>1, <1>2, StepDoes DEF Next, Proceed, Quiet

\* No interleaving of the statements of any transactions takes back a final
\* status, a link, a closed intent or a row of the history.
THEOREM NothingIsUndone == Spec => StatementsUndoNothing
<1> DEFINE Kept1 ==
       /\ operations[Op].status \in TerminalStatuses => operations'[Op].status = operations[Op].status
       /\ operations[Op].payment # Null => operations'[Op].payment = operations[Op].payment
       /\ outbox[Op].state = "DONE" => outbox'[Op].state = "DONE"
       /\ log \subseteq log'
<1>1. DenseInv /\ WholeInv /\ [Next]_vars => [Kept1]_vars
  <2> SUFFICES ASSUME DenseInv, WholeInv, [Next]_vars PROVE Kept1
    OBVIOUS
  <2>1. CASE UNCHANGED committed
    BY <2>1 DEF committed
  <2>2. ASSUME NEW t \in Txs, Commit(t) PROVE Kept1
    <3>1. KeepsWhatIsDone
      BY <2>2, TxCommit DEF WholeInv, TxsInv, TxInv
    <3> QED BY <3>1 DEF KeepsWhatIsDone
  <2> QED BY <2>1, <2>2, CommitsOnly DEF DenseInv
<1> QED BY <1>1, DenseInit, DenseStep, WholeInit, WholeStep, PTL DEF Spec, StatementsUndoNothing

-----------------------------------------------------------------------------
(* The history as the tables of TaskPayments have it *)

\* What a row of "events" tells, without its number.
Told(e) == [type |-> e.type, from |-> e.from, to |-> e.to]

\* The rows in the order of their numbers.
StoryOf(rows) ==
    [o \in OperationIds |->
        IF o # Op THEN <<>>
        ELSE [k \in 1 .. Cardinality(rows) |-> Told(CHOOSE row \in rows : row.id = k)]]

\* The k-th of them is the row numbered k.
LEMMA StoryTold ==
    ASSUME NEW rows, IsFiniteSet(rows), {e.id : e \in rows} = 1 .. Cardinality(rows),
           \A e, f \in rows : e.id = f.id => e = f
    PROVE  /\ Cardinality(rows) \in Nat
           /\ \A o \in OperationIds \ {Op} : StoryOf(rows)[o] = <<>>
           /\ DOMAIN StoryOf(rows) = OperationIds
           /\ StoryOf(rows)[Op] = [k \in 1 .. Cardinality(rows) |-> StoryOf(rows)[Op][k]]
           /\ \A e \in rows : e.id \in 1 .. Cardinality(rows) /\ StoryOf(rows)[Op][e.id] = Told(e)
           /\ \A k \in 1 .. Cardinality(rows) : \E e \in rows : e.id = k
<1>0. Cardinality(rows) \in Nat /\ Op \in OperationIds
  BY FS_CardinalityType, Constants
<1>1. /\ \A k \in 1 .. Cardinality(rows) : \E e \in rows : e.id = k
      /\ \A e \in rows : e.id \in 1 .. Cardinality(rows)
  OBVIOUS
<1>2. /\ \A o \in OperationIds \ {Op} : StoryOf(rows)[o] = <<>>
      /\ DOMAIN StoryOf(rows) = OperationIds
      /\ StoryOf(rows)[Op] =
            [k \in 1 .. Cardinality(rows) |-> Told(CHOOSE row \in rows : row.id = k)]
  BY <1>0 DEF StoryOf
<1>3. ASSUME NEW e \in rows PROVE (CHOOSE row \in rows : row.id = e.id) = e
  OBVIOUS
<1>4. ASSUME NEW e \in rows PROVE StoryOf(rows)[Op][e.id] = Told(e)
  <2>1. e.id \in 1 .. Cardinality(rows)
    BY <1>1
  <2> QED BY <1>2, <1>3, <2>1
<1> QED BY <1>0, <1>1, <1>2, <1>4

\* The history TaskPayments keeps as a sequence.
LEMMA HistoryIsStory == History = StoryOf(log)
  BY DEF History, StoryOf, Told

\* A committed event is appended to the history.
LEMMA HistoryAppends ==
    ASSUME DenseInv, DenseInv', CommittedInv, CommittedInv',
           NEW e, log' = log \cup {e}, e.id = Cardinality(log) + 1
    PROVE  History' = AppendEvent(History, Op, e.type, e.from, e.to)
<1> DEFINE N == Cardinality(log)
           S == {Told(f) : f \in log'}
           new == Append(History[Op], Told(e))
<1>0. History = StoryOf(log) /\ History' = StoryOf(log')
  <2>1. History' = StoryOf(log')
    BY DEF History, StoryOf, Told
  <2> QED BY <2>1, HistoryIsStory
<1>1. /\ N \in Nat /\ DOMAIN History = OperationIds /\ \A o \in OperationIds \ {Op} : History[o] = <<>>
      /\ History[Op] = [k \in 1 .. N |-> History[Op][k]]
      /\ \A f \in log : f.id \in 1 .. N /\ History[Op][f.id] = Told(f)
      /\ \A k \in 1 .. N : \E f \in log : f.id = k
  BY <1>0, StoryTold DEF DenseInv, CommittedInv, EventIdsDense, Ids
<1>2. Cardinality(log') = N + 1 /\ Op \in OperationIds
  <2>1. e \notin log
    BY <1>1
  <2> QED BY <2>1, Constants, FS_AddElement DEF DenseInv
<1>3. /\ DOMAIN History' = OperationIds /\ \A o \in OperationIds \ {Op} : History'[o] = <<>>
      /\ History'[Op] = [k \in 1 .. N + 1 |-> History'[Op][k]]
      /\ \A f \in log' : f.id \in 1 .. N + 1 /\ History'[Op][f.id] = Told(f)
  BY <1>0, <1>2, StoryTold DEF DenseInv, CommittedInv, EventIdsDense, Ids
<1>4. History[Op] \in Seq(S) /\ Len(History[Op]) = N
  <2>1. \A k \in 1 .. N : History[Op][k] \in S
    BY <1>1
  <2> QED BY <1>1, <2>1, IsASeq
<1>5. /\ new \in Seq(S) /\ Len(new) = N + 1
      /\ \A k \in 1 .. N : new[k] = History[Op][k]
      /\ new[N + 1] = Told(e)
  BY <1>4, AppendProperties
<1>6. History'[Op] = new
  <2>1. \A k \in 1 .. N : History'[Op][k] = new[k]
    BY <1>1, <1>3, <1>5
  <2>2. History'[Op][N + 1] = new[N + 1]
    BY <1>3, <1>5
  <2>3. new = [k \in 1 .. N + 1 |-> new[k]]
    BY <1>5, LenProperties
  <2> HIDE DEF new
  <2>4. \A k \in 1 .. N + 1 : History'[Op][k] = new[k]
    BY <1>1, <2>1, <2>2
  <2> QED BY <1>3, <2>3, <2>4
<1>7. History' = [History EXCEPT ![Op] = new]
  <2>1. History' = [o \in OperationIds |-> History'[o]] /\ History = [o \in OperationIds |-> History[o]]
    BY DEF History
  <2> QED BY <1>1, <1>2, <1>3, <1>6, <2>1
<1> QED BY <1>7 DEF AppendEvent, Told

\* It changes with the log only.
LEMMA HistorySame == log' = log => History' = History
  BY DEF History

\* The operators of the tables, as AtomicTables has them.
LEMMA SameOperators ==
    /\ \A ops, o : Tables!CanBeginProcessing(ops, o) = CanBeginProcessing(ops, o)
    /\ \A ops, o : Tables!TryBeginProcessing(ops, o) = TryBeginProcessing(ops, o)
    /\ \A ops, o, p : Tables!LinkProviderPayment(ops, o, p) = LinkProviderPayment(ops, o, p)
    /\ \A ops, o, s : Tables!TryFinalize(ops, o, s) = TryFinalize(ops, o, s)
    /\ \A ob, o, k : Tables!CreateIntent(ob, o, k) = CreateIntent(ob, o, k)
    /\ \A ob, o : Tables!MarkDone(ob, o) = MarkDone(ob, o)
    /\ \A ob, o, c : Tables!Reschedule(ob, o, c) = Reschedule(ob, o, c)
    /\ \A ob, o, c : Tables!MarkFailed(ob, o, c) = MarkFailed(ob, o, c)
    /\ \A ob, rows : Tables!ClaimDue(ob, rows) = ClaimDue(ob, rows)
    /\ \A ob : Tables!Due(ob) = Due(ob)
    /\ \A ob : Tables!ReleaseAllInFlight(ob) = ReleaseAllInFlight(ob)
    /\ \A ob, ops : Tables!ReviveFailed(ob, ops) = ReviveFailed(ob, ops)
    /\ \A ob, ops : Tables!ListResumable(ob, ops) = ListResumable(ob, ops)
    /\ \A ev, o, x, y, z : Tables!AppendEvent(ev, o, x, y, z) = AppendEvent(ev, o, x, y, z)
<1>1. \A ops, o : Tables!CanBeginProcessing(ops, o) = CanBeginProcessing(ops, o)
  BY DEF Tables!CanBeginProcessing, CanBeginProcessing
<1>2. \A ops, o : Tables!TryBeginProcessing(ops, o) = TryBeginProcessing(ops, o)
  BY DEF Tables!TryBeginProcessing, TryBeginProcessing, Tables!CanBeginProcessing, CanBeginProcessing
<1>3. \A ops, o, p : Tables!LinkProviderPayment(ops, o, p) = LinkProviderPayment(ops, o, p)
  BY DEF Tables!LinkProviderPayment, LinkProviderPayment
<1>4. \A ops, o, s : Tables!TryFinalize(ops, o, s) = TryFinalize(ops, o, s)
  BY DEF Tables!TryFinalize, TryFinalize
<1>5. \A ob, o, k : Tables!CreateIntent(ob, o, k) = CreateIntent(ob, o, k)
  BY DEF Tables!CreateIntent, CreateIntent, Tables!NoIntent, NoIntent, Tables!Absent, Absent
<1>6. \A ob, o : Tables!MarkDone(ob, o) = MarkDone(ob, o)
  BY DEF Tables!MarkDone, MarkDone
<1>7. \A ob, o, c : Tables!Reschedule(ob, o, c) = Reschedule(ob, o, c)
  BY DEF Tables!Reschedule, Reschedule
<1>8. \A ob, o, c : Tables!MarkFailed(ob, o, c) = MarkFailed(ob, o, c)
  BY DEF Tables!MarkFailed, MarkFailed
<1>9. \A ob, rows : Tables!ClaimDue(ob, rows) = ClaimDue(ob, rows)
  BY DEF Tables!ClaimDue, ClaimDue
<1>10. \A ob : Tables!Due(ob) = Due(ob)
  BY DEF Tables!Due, Due
<1>11. \A ev, o, x, y, z : Tables!AppendEvent(ev, o, x, y, z) = AppendEvent(ev, o, x, y, z)
  BY DEF Tables!AppendEvent, AppendEvent
<1>12. /\ \A ob : Tables!ReleaseAllInFlight(ob) = ReleaseAllInFlight(ob)
       /\ \A ob, ops : Tables!ReviveFailed(ob, ops) = ReviveFailed(ob, ops)
       /\ \A ob, ops : Tables!ListResumable(ob, ops) = ListResumable(ob, ops)
  BY DEF Tables!ReleaseAllInFlight, ReleaseAllInFlight, Tables!Released, Released,
         Tables!ReviveFailed, ReviveFailed, Tables!ListResumable, ListResumable
<1> QED BY <1>1, <1>2, <1>3, <1>4, <1>5, <1>6, <1>7, <1>8, <1>9, <1>10, <1>11, <1>12

\* The event of a transaction is committed as the next of the history.
LEMMA EventCommitted ==
    ASSUME DenseInv, DenseInv', CommittedInv, CommittedInv', NEW t \in Txs, EventInv(t),
           tx[t].state = "open", tx[t].event # {}, log' = log \cup tx[t].event
    PROVE  History' = AppendEvent(History, Op, EventOf(t).type, EventOf(t).from, EventOf(t).to)
<1>1. PICK e : tx[t].event = {e} /\ e.id = Cardinality(log) + 1
  BY DEF DenseInv, UncommittedIsNext
<1>2. e = EventOf(t)
  BY <1>1 DEF EventInv
<1> QED BY <1>1, <1>2, HistoryAppends

\* The commit of a transaction is one step of the tables, or one of the two notes.
LEMMA CommitIsStep ==
    ASSUME DenseInv, DenseInv', CommittedInv, CommittedInv', NEW t \in Txs, EventInv(t), Commit(t),
           tx'[t].state = "committed",
           \/ Nothing(t)
           \/ SubmitOutcome(t) \/ ReceiptOutcome(t) \/ AcceptedOutcome(t)
           \/ FailureOutcome(t) \/ ClaimOutcome(t) \/ RecoveryOutcome(t)
    PROVE  \/ UNCHANGED committed
           \/ Tables!Next
           \/ FoundNothing({"unavailable", "refused"}) /\ Tables!NoteFailure(Op)
           \/ FoundNothing({"recovery"}) /\ Tables!NoteResumption(Op)
<1>1. /\ tx[t].state = "open"
      /\ operations' = OperationsOf(t) /\ outbox' = OutboxOf(t)
      /\ receipts' = receipts \cup tx[t].receipt /\ log' = log \cup tx[t].event
      /\ Op \in OperationIds /\ PaymentOf[t] \in PaymentIds
  BY Constants DEF Commit
<1>2. tx[t].event # {} =>
        History' = AppendEvent(History, Op, EventOf(t).type, EventOf(t).from, EventOf(t).to)
  BY <1>1, EventCommitted
<1>3. CASE Nothing(t)
  BY <1>1, <1>3 DEF Nothing, OperationsOf, OutboxOf, committed
<1>4. CASE SubmitOutcome(t)
  <2>1. EventOf(t).type = "SUBMIT_REQUESTED" /\ EventOf(t).from = "CREATED" /\ EventOf(t).to = "PROCESSING"
    BY <1>4 DEF SubmitOutcome, EventOf, Receipts
  <2>2. /\ CanBeginProcessing(operations, Op) /\ operations' = TryBeginProcessing(operations, Op)
        /\ outbox' = CreateIntent(outbox, Op, Op) /\ receipts' = receipts
        /\ History' = AppendEvent(History, Op, "SUBMIT_REQUESTED", "CREATED", "PROCESSING")
    BY <1>1, <1>2, <1>4, <2>1 DEF SubmitOutcome
  <2>3. Tables!SubmitOperation(Op)
    BY <2>2, SameOperators DEF Tables!SubmitOperation
  <2> QED BY <1>1, <2>3 DEF Tables!Next
<1>5. CASE ReceiptOutcome(t)
  <2> DEFINE p == PaymentOf[t]
             r == Result(t)
  <2>1. /\ Kind[t] \in Receipts /\ r \in ReceiptResult
        /\ tx[t].copy = operations[Op] /\ operations[Op].payment \in {Null, p}
        /\ ~ AlreadyRecorded(receipts, Op, p, r)
        /\ operations[Op].status \in OperationStatus
    BY <1>5 DEF ReceiptOutcome, CommittedInv, Result, ReceiptResult
  <2>2. Tables!Admissible(Op, p, r)
    BY <2>1 DEF Tables!Admissible, Tables!AlreadyRecorded, AlreadyRecorded, OperationStatus,
                Tables!Absent
  <2>3. CASE Applies(t)
    <3>1. /\ operations[Op].status = "PROCESSING" /\ Tables!CanApply(operations[Op])
      BY <2>1, <2>3 DEF Applies, Tables!CanApply
    <3>2. ~ Tables!PaymentTaken(operations, Op, p)
      BY <1>1, NullAssumption DEF Tables!PaymentTaken, CommittedInv, NoOperation
    <3>3. receipts' = Tables!RecordReceipt(receipts, Op, p, r, TRUE, "none")
      BY <1>1, <1>5, <2>3 DEF ReceiptOutcome, Tables!RecordReceipt, RecordReceipt, Reason
    <3>4. /\ EventOf(t).type = r /\ EventOf(t).from = "PROCESSING" /\ EventOf(t).to = r
      BY <2>1, <2>3 DEF EventOf, Receipts, StatusToEventType, ResultToStatus
    <3>5. /\ operations' = TryFinalize(LinkProviderPayment(operations, Op, p), Op, r)
          /\ outbox' = MarkDone(outbox, Op)
          /\ History' = AppendEvent(History, Op, r, "PROCESSING", r)
      BY <1>1, <1>2, <1>5, <2>3, <3>4 DEF ReceiptOutcome, ResultToStatus
    <3>6. Tables!ResultToStatus(r) = r /\ Tables!StatusToEventType(r) = r
      BY DEF Tables!ResultToStatus, Tables!StatusToEventType
    <3> HIDE DEF p, r
    <3>7. Tables!ApplyReceipt(Op, p, r)
      BY <2>2, <3>1, <3>2, <3>3, <3>5, <3>6, SameOperators DEF Tables!ApplyReceipt
    <3> QED BY <1>1, <2>1, <3>7 DEF Tables!Next, Tables!ProcessReceipt, p, r, Tables!ReceiptResult, ReceiptResult
  <2>4. CASE ~ Applies(t)
    <3>1. ~ Tables!CanApply(operations[Op])
      BY <2>1, <2>4 DEF Applies, Tables!CanApply
    <3>2. /\ operations' = operations /\ outbox' = outbox
          /\ receipts' = Tables!RecordReceipt(receipts, Op, p, r, FALSE,
                            IF operations[Op].status \in Tables!TerminalStatuses THEN "already_final"
                            ELSE "not_submitted")
      <4>1. Applies(t) = FALSE
        BY <2>4 DEF Applies
      <4>2. Reason(t) = IF operations[Op].status \in Tables!TerminalStatuses THEN "already_final"
                        ELSE "not_submitted"
        BY <2>1, <2>4 DEF Reason, Tables!TerminalStatuses, TerminalStatuses
      <4>3. /\ operations' = operations /\ outbox' = outbox
            /\ tx[t].receipt = RecordReceipt({}, Op, p, r, FALSE, Reason(t))
        BY <1>1, <1>5, <2>4, <4>1 DEF ReceiptOutcome
      <4> HIDE DEF p, r
      <4> QED BY <1>1, <4>2, <4>3 DEF Tables!RecordReceipt, RecordReceipt
    <3>3. /\ EventOf(t).type = "RECEIPT_CONFLICT_IGNORED" /\ EventOf(t).from = operations[Op].status
          /\ EventOf(t).to = operations[Op].status
      BY <2>1, <2>4 DEF EventOf, Receipts
    <3>4. History' = AppendEvent(History, Op, "RECEIPT_CONFLICT_IGNORED", operations[Op].status,
                                 operations[Op].status)
      BY <1>2, <1>5, <3>3 DEF ReceiptOutcome
    <3> HIDE DEF p, r
    <3>5. Tables!IgnoreReceipt(Op, p, r)
      BY <2>2, <3>1, <3>2, <3>4, SameOperators DEF Tables!IgnoreReceipt
    <3> QED BY <1>1, <2>1, <3>5 DEF Tables!Next, Tables!ProcessReceipt, p, r, Tables!ReceiptResult, ReceiptResult
  <2> QED BY <2>3, <2>4
<1>6. CASE AcceptedOutcome(t)
  <2> DEFINE p == PaymentOf[t]
             s == tx[t].copy.status
  <2>1. /\ operations' = LinkProviderPayment(operations, Op, p) /\ outbox' = MarkDone(outbox, Op)
        /\ receipts' = receipts
    BY <1>1, <1>6 DEF AcceptedOutcome
  <2>2. EventOf(t).type = "PROVIDER_ACCEPTED" /\ EventOf(t).from = s /\ EventOf(t).to = s
    BY <1>6 DEF EventOf, Receipts, AcceptedOutcome
  <2>3. History' = AppendEvent(History, Op, "PROVIDER_ACCEPTED", s, s)
    BY <1>2, <1>6, <2>2 DEF AcceptedOutcome
  <2>4. ~ Tables!PaymentTaken(operations, Op, p)
    BY <1>1, NullAssumption DEF Tables!PaymentTaken, CommittedInv, NoOperation
  <2>5. s \in Tables!StatusRead(Op)
    <3>1. CASE s = operations[Op].status
      BY <3>1 DEF Tables!StatusRead
    <3>2. CASE s = "PROCESSING" /\ Acknowledged
      <4>1. PICK e \in log : e.type = "PROVIDER_ACCEPTED"
        BY <3>2 DEF Acknowledged
      <4>2. /\ Cardinality(log) \in Nat
            /\ History[Op] = [k \in 1 .. Cardinality(log) |-> History[Op][k]]
            /\ e.id \in 1 .. Cardinality(log) /\ History[Op][e.id] = Told(e)
        BY HistoryIsStory, StoryTold DEF DenseInv, CommittedInv, EventIdsDense, Ids
      <4>3. Len(History[Op]) = Cardinality(log)
        BY <4>2
      <4>4. History[Op][e.id].type = "PROVIDER_ACCEPTED" /\ e.id \in 1 .. Len(History[Op])
        BY <4>1, <4>2, <4>3 DEF Told
      <4> QED BY <3>2, <4>4 DEF Tables!StatusRead
    <3> QED BY <1>6, <3>1, <3>2 DEF AcceptedOutcome
  <2> HIDE DEF p, s
  <2>6. Tables!RecordAcceptance(Op, p)
    BY <2>1, <2>3, <2>4, <2>5, SameOperators DEF Tables!RecordAcceptance
  <2> QED BY <1>1, <2>6 DEF Tables!Next, Tables!Deliver, p
<1>7. CASE FailureOutcome(t)
  <2>1. /\ EventOf(t).type = "PROVIDER_ATTEMPT_FAILED" /\ EventOf(t).from = "PROCESSING"
        /\ EventOf(t).to = "PROCESSING"
    BY <1>7 DEF EventOf, Receipts, FailureOutcome
  <2>2. /\ History' = AppendEvent(History, Op, "PROVIDER_ATTEMPT_FAILED", "PROCESSING", "PROCESSING")
        /\ operations' = operations /\ receipts' = receipts
    BY <1>1, <1>2, <1>7, <2>1 DEF FailureOutcome
  <2>3. CASE tx[t].intent = Null
    <3>1. FoundNothing({"unavailable", "refused"})
      BY <1>1, <1>7, <2>3 DEF FoundNothing, FailureOutcome
    <3>2. outbox' = outbox
      BY <1>1, <1>7, <2>3 DEF FailureOutcome
    <3>3. Tables!NoteFailure(Op)
      BY <2>2, <3>2, SameOperators DEF Tables!NoteFailure
    <3> QED BY <3>1, <3>3
  <2>4. CASE tx[t].intent # Null
    <3>1. \/ outbox' = Reschedule(outbox, Op, "unavailable")
          \/ outbox' = MarkFailed(outbox, Op, "rejected")
      BY <1>1, <1>7, <2>4 DEF FailureOutcome
    <3>2. \/ Tables!RecordFailure(Op, "unavailable", TRUE)
          \/ Tables!RecordFailure(Op, "rejected", FALSE)
      BY <2>2, <3>1, SameOperators DEF Tables!RecordFailure
    <3>3. "unavailable" \in Tables!ErrorClass /\ "rejected" \in Tables!ErrorClass
      BY DEF Tables!ErrorClass
    <3>4. Tables!Deliver(Op)
      BY <3>2, <3>3 DEF Tables!Deliver
    <3> QED BY <1>1, <3>4 DEF Tables!Next
  <2> QED BY <2>3, <2>4
<1>8. CASE ClaimOutcome(t)
  <2>1. /\ Op \in Due(outbox) /\ outbox' = ClaimDue(outbox, {Op})
        /\ operations' = operations /\ receipts' = receipts /\ log' = log
    BY <1>1, <1>8 DEF ClaimOutcome
  <2>2. Tables!ClaimIntent(Op)
    BY <2>1, HistorySame, SameOperators DEF Tables!ClaimIntent
  <2> QED BY <1>1, <2>2 DEF Tables!Next
<1>9. CASE RecoveryOutcome(t)
  <2>1. /\ EventOf(t).type = "RECOVERY_RESUMED" /\ EventOf(t).from = "PROCESSING"
        /\ EventOf(t).to = "PROCESSING"
    BY <1>9 DEF EventOf, Receipts, RecoveryOutcome
  <2>2. /\ operations' = operations /\ receipts' = receipts
        /\ tx[t].event # {} =>
            History' = AppendEvent(History, Op, "RECOVERY_RESUMED", "PROCESSING", "PROCESSING")
        /\ tx[t].event = {} => log' = log
    BY <1>1, <1>2, <1>9, <2>1 DEF RecoveryOutcome
  <2>3. CASE tx[t].intent = Null
    <3>1. outbox' = outbox
      BY <1>1, <2>3 DEF OutboxOf
    <3>2. CASE tx[t].event = {}
      BY <2>2, <3>1, <3>2 DEF committed
    <3>3. CASE tx[t].event # {}
      <4>1. FoundNothing({"recovery"})
        BY <1>1, <1>9, <2>3 DEF FoundNothing, RecoveryOutcome
      <4>2. Tables!NoteResumption(Op)
        BY <2>2, <3>1, <3>3, SameOperators DEF Tables!NoteResumption
      <4> QED BY <4>1, <4>2
    <3> QED BY <3>2, <3>3
  <2>4. CASE tx[t].intent # Null
    <3>1. /\ outbox' = Resumed /\ Resumed[Op].state = "PENDING"
          /\ outbox[Op].state \in {"IN_FLIGHT", "FAILED"} /\ tx[t].event # {}
      BY <1>1, <1>9, <2>4 DEF RecoveryOutcome
    <3>2. ListResumable(Resumed, operations) = {Op}
      <4>1. Resumed \in [OperationIds -> SubmitIntent] /\ RowOf(Resumed, outbox)
        BY ResumedRow
      <4>2. \A o \in OperationIds \ {Op} : Resumed[o].state # "PENDING"
        BY <4>1 DEF RowOf, CommittedInv, NoIntent, Absent
      <4> QED BY <1>1, <3>1, <4>2, Undecided DEF ListResumable
    <3>3. History' = [o \in OperationIds |->
            IF o \in ListResumable(Resumed, operations)
            THEN AppendEvent(History, o, "RECOVERY_RESUMED", "PROCESSING", "PROCESSING")[o]
            ELSE History[o]]
      <4>1. History = [o \in OperationIds |-> History[o]]
        BY DEF History
      <4> QED BY <1>1, <2>2, <3>1, <3>2, <4>1 DEF AppendEvent
    <3>4. Tables!ResumeUnfinished
      BY <2>2, <3>1, <3>3, SameOperators DEF Tables!ResumeUnfinished, Resumed
    <3> QED BY <3>4 DEF Tables!Next
  <2> QED BY <2>3, <2>4
<1> QED BY <1>3, <1>4, <1>5, <1>6, <1>7, <1>8, <1>9

\* Every commit, however the statements of requests, deliveries and recoveries
\* were interleaved, is one step of the atomic tables that TaskPayments takes it to
\* be; but for the event a failure or a recovery leaves of what it found earlier.
THEOREM CommitsAreAtomic == Spec => TransactionsAreAtomic
<1>1. DenseInv /\ WholeInv /\ [Next]_vars =>
        [\/ UNCHANGED committed
         \/ Tables!Next
         \/ FoundNothing({"unavailable", "refused"}) /\ Tables!NoteFailure(Op)
         \/ FoundNothing({"recovery"}) /\ Tables!NoteResumption(Op)]_vars
  <2> SUFFICES ASSUME DenseInv, WholeInv, [Next]_vars
               PROVE  \/ UNCHANGED committed
                      \/ Tables!Next
                      \/ FoundNothing({"unavailable", "refused"}) /\ Tables!NoteFailure(Op)
                      \/ FoundNothing({"recovery"}) /\ Tables!NoteResumption(Op)
    OBVIOUS
  <2>1. DenseInv'
    BY DenseStep
  <2>2. /\ LocksInv /\ CommittedInv /\ \A t \in Txs : TxInv(t)
        /\ Shape
    BY DEF WholeInv, TxsInv, TxInv, DenseInv
  <2>3. ASSUME NEW t \in Txs, Commit(t)
        PROVE  \/ Tables!Next \/ UNCHANGED committed
               \/ FoundNothing({"unavailable", "refused"}) /\ Tables!NoteFailure(Op)
               \/ FoundNothing({"recovery"}) /\ Tables!NoteResumption(Op)
    <3>1. tx'[t].state = "committed" /\ tx[t].state = "open"
      BY <2>2, <2>3, CommitDoes
    <3>2. EventInv(t)
      BY <2>2, <3>1 DEF TxInv, OpenInv
    <3>3. /\ CommittedInv'
          /\ \/ Nothing(t)
             \/ SubmitOutcome(t) \/ ReceiptOutcome(t) \/ AcceptedOutcome(t)
             \/ FailureOutcome(t) \/ ClaimOutcome(t) \/ RecoveryOutcome(t)
      BY <2>2, <2>3, TxCommit
    <3> QED BY <2>1, <2>2, <2>3, <3>1, <3>2, <3>3, CommitIsStep
  <2> QED BY <2>2, <2>3, CommitsOnly
<1> QED BY <1>1, DenseInit, DenseStep, WholeInit, WholeStep, PTL DEF Spec, TransactionsAreAtomic

\* However many reports of whatever payments and results arrive together, one of
\* them at most is recorded as applied, and it is the one the operation shows.
THEOREM OneReportSettles == Spec => []OneReceiptSettles
<1>1. WholeInv => OneReceiptSettles
  BY DEF WholeInv, CommittedInv
<1> QED BY <1>1, DenseInit, DenseStep, WholeInit, WholeStep, PTL DEF Spec

-----------------------------------------------------------------------------
(* Deadlocks and collisions *)

\* A request, or an answer that has linked, holds nothing before the row of the
\* operation, and of two of them only one holds that: the other waits empty-handed.
THEOREM RequestsTakeOneOrder == Spec => []RequestsKeepOneOrder
<1>1. WholeInv => RequestsKeepOneOrder
  <2> SUFFICES ASSUME WholeInv, NEW cycle \in SUBSET Waiting, Cycle(cycle),
                      \A t \in cycle : /\ Kind[t] \notin {"unavailable", "refused", "recovery"}
                                       /\ Kind[t] = "accepted" => tx[t].operation # Null
               PROVE  FALSE
    BY DEF RequestsKeepOneOrder
  <2>0. LocksInv /\ cycle \subseteq Txs
    BY DEF WholeInv, Waiting
  <2>1. ASSUME NEW t \in cycle, held[t] # {} PROVE Write(t)
    <3>1. /\ tx[t].state = "open" /\ ~ Over(t)
          /\ want[t] = LocksOf(t, Program(Kind[t])[tx[t].step])
          /\ OpenInv(t) /\ Kind[t] \in Kinds
      BY <2>0, KindOf DEF Waiting, LocksInv, WholeInv, TxsInv
    <3>2. CASE Kind[t] = "submit" \/ Kind[t] \in Receipts
      BY <2>1, <3>1, <3>2 DEF OpenInv, SubmitInv, ReceiptInv
    <3>3. CASE Kind[t] = "accepted"
      BY <3>1, <3>3 DEF OpenInv, AcceptedInv
    <3>4. CASE Kind[t] = "claim"
      <4>1. tx[t].step \in 1 .. 2
        BY <3>1, <3>4 DEF OpenInv, ClaimInv
      <4>2. Program("claim") = <<"claim">>
        BY DEF Program, Receipts
      <4>3. Program(Kind[t])[tx[t].step] = "claim"
        BY <3>1, <3>4, <4>1, <4>2 DEF Over
      <4> QED BY <3>1, <4>3 DEF LocksOf, Waiting
    <3> QED BY <3>1, <3>2, <3>3, <3>4 DEF Kinds, Recordings
  <2>2. ASSUME NEW t \in cycle
        PROVE  \E u \in cycle \ {t} : Write(u)
    <3>1. PICK u \in cycle : u \in WaitsFor(t)
      BY DEF Cycle, Stuck
    <3>2. u # t /\ held[u] # {}
      BY <3>1 DEF WaitsFor, Blockers
    <3> QED BY <2>1, <3>2
  <2>3. PICK t \in cycle : TRUE
    BY DEF Cycle, Stuck
  <2>4. PICK u \in cycle : Write(u)
    BY <2>2, <2>3
  <2>5. PICK w \in cycle \ {u} : Write(w)
    BY <2>2, <2>4
  <2> QED BY <2>0, <2>4, <2>5, Exclusion
<1> QED BY <1>1, DenseInit, DenseStep, WholeInit, WholeStep, PTL DEF Spec

\* Each collision was with a row committed since the first number was computed,
\* and with another row each time.
TriesInv(t) ==
    /\ tx[t].tries \in Nat /\ tx[t].first \in Nat
    /\ tx[t].tries > 0 => tx[t].first >= 1 /\ tx[t].first + tx[t].tries <= Cardinality(log) + 1
    /\ AtInsert(t) => tx[t].first >= 1 /\ tx[t].first + tx[t].tries <= tx[t].id

\* The insert of an event is reached from its numbering only.
LEMMA InsertFollows ==
    ASSUME Shape, NEW t \in Txs, NEW s, At(t, s), s # "number", AtInsert(t)',
           tx'[t].step = tx[t].step + 1
    PROVE  FALSE
<1>1. /\ Kind[t] \in Kinds /\ tx[t].step \in Nat \ {0} /\ tx'[t].step <= Len(Program(Kind[t]))
      /\ Len(Program(Kind[t])) \in Nat
  BY KindOf, ProgramOrder DEF Shape, AtInsert, Over
<1>2. Program(Kind[t])[tx[t].step + 1] = "insert" /\ s = Program(Kind[t])[tx[t].step]
  BY DEF AtInsert, At
<1>3. tx[t].step \in 1 .. Len(Program(Kind[t])) - 1
  BY <1>1
<1> QED BY <1>1, <1>2, <1>3, ProgramOrder

\* The statements that count no collision.
LEMMA CountsNothing ==
    ASSUME Shape, NEW t \in Txs, Statement(t), ~ NumberEvent(t), ~ Collide(t), ~ CollideAtLast(t),
           ~ Mismatch(t)
    PROVE  tx'[t].tries = tx[t].tries /\ tx'[t].first = tx[t].first /\ ~ AtInsert(t)'
<1>1. ASSUME NEW s, At(t, s), s # "number",
             NEW F, "tries" \notin F, "first" \notin F, Only(tx'[t], tx[t], F),
             tx'[t].step \in {tx[t].step + 1, Len(Program(Kind[t])) + 1}
      PROVE  tx'[t].tries = tx[t].tries /\ tx'[t].first = tx[t].first /\ ~ AtInsert(t)'
  <2>1. CASE tx'[t].step = tx[t].step + 1
    BY <1>1, <2>1, InsertFollows DEF Only
  <2>2. CASE tx'[t].step = Len(Program(Kind[t])) + 1
    <3>1. Len(Program(Kind[t])) \in Nat
      BY KindOf, ProgramOrder
    <3>2. Over(t)'
      BY <2>2, <3>1 DEF Over
    <3> QED BY <1>1, <3>2 DEF Only, AtInsert
  <2> QED BY <1>1, <2>1, <2>2
<1> USE DEF Does
<1>2. CASE Read(t)
  BY <1>1, <1>2, ReadDoes, StatementsAt
<1>3. CASE Refresh(t)
  BY <1>1, <1>3, CopyDoes, StatementsAt DEF Refresh
<1>4. CASE BeginProcessing(t)
  <2>1. At(t, "begin")
    BY <1>4, StatementsAt
  <2> QED BY <1>1, <1>4, <2>1, BeginDoes
<1>5. CASE StoreIntent(t)
  BY <1>1, <1>5, IntentDoes, StatementsAt DEF StoreIntent
<1>6. CASE LockOperation(t)
  BY <1>1, <1>6, CopyDoes, StatementsAt DEF LockOperation
<1>7. CASE TryRecord(t)
  BY <1>1, <1>7, PassDoes, RecordDoes, StatementsAt DEF TryRecord
<1>8. CASE Link(t)
  BY <1>1, <1>8, PassDoes, OperationDoes, StatementsAt DEF Link
<1>9. CASE Finalize(t)
  BY <1>1, <1>9, PassDoes, OperationDoes, StatementsAt DEF Finalize
<1>10. CASE Close(t)
  BY <1>1, <1>10, PassDoes, IntentDoes, StatementsAt DEF Close
<1>11. CASE RecordsFailure(t)
  <2>1. \E s \in {"reschedule", "fail"} : At(t, s) /\ Does(t, s, {"step", "intent"})
                                           /\ tx'[t].step = tx[t].step + 1
    BY <1>11, IntentDoes DEF RecordsFailure, Run
  <2> QED BY <1>1, <2>1
<1>12. CASE Resume(t)
  <2>1. \E s \in {"release", "revive", "list"} :
            /\ At(t, s)
            /\ \/ Does(t, s, {"step", "intent"}) /\ tx'[t].step = tx[t].step + 1
               \/ Does(t, s, {"step"}) /\ tx'[t].step \in {tx[t].step + 1, Len(Program(Kind[t])) + 1}
    BY <1>12, PassDoes, IntentDoes DEF Resume, Run
  <2> QED BY <1>1, <2>1
<1>13. CASE ClaimIntent(t)
  BY <1>1, <1>13, ClaimDoes, StatementsAt
<1>14. CASE InsertEvent(t)
  BY <1>1, <1>14, InsertDoes, StatementsAt
<1>15. CASE CheckReference(t)
  BY <1>1, <1>15, PassDoes, StatementsAt DEF CheckReference
<1> QED BY <1>2, <1>3, <1>4, <1>5, <1>6, <1>7, <1>8, <1>9, <1>10, <1>11, <1>12, <1>13, <1>14, <1>15
        DEF Statement

\* Every step keeps that.
LEMMA TriesStep ==
    DenseInv /\ (\A t \in Txs : TriesInv(t)) /\ [Next]_vars => (\A t \in Txs : TriesInv(t))'
<1> SUFFICES ASSUME DenseInv, \A t \in Txs : TriesInv(t), [Next]_vars
             PROVE  \A t \in Txs : TriesInv(t)'
  OBVIOUS
<1>0. DenseInv' /\ Shape /\ Shape'
  BY DenseStep DEF DenseInv
<1>1. /\ Cardinality(log) \in Nat /\ Cardinality(log)' \in Nat
      /\ NextId = Cardinality(log) + 1
      /\ \A id \in Ids : id <= Cardinality(log)
      /\ \A u \in Txs : tx[u].id \in Nat /\ tx'[u].id \in Nat
  <2>1. Cardinality(log) \in Nat /\ Cardinality(log)' \in Nat
    BY <1>0, FS_CardinalityType DEF DenseInv
  <2> QED BY <1>0, <2>1, NextIdOfDense DEF DenseInv, EventIdsDense, Shape
<1>2. ASSUME NEW u \in Txs, tx'[u] = tx[u], Cardinality(log)' >= Cardinality(log)
      PROVE  TriesInv(u)'
  <2>1. AtInsert(u)' = AtInsert(u)
    BY <1>2 DEF AtInsert, Over
  <2> QED BY <1>1, <1>2, <2>1 DEF TriesInv
<1>3. ASSUME NEW t \in Txs, Wait(t) \/ Statement(t) \/ DeadlockVictim(t) \/ ConnectionLost(t)
      PROVE  \A u \in Txs : TriesInv(u)'
  <2>1. log' = log /\ Others(t)
    BY <1>0, <1>3, StepDoes DEF committed
  <2>2. \A u \in Txs \ {t} : TriesInv(u)'
    BY <1>1, <1>2, <2>1 DEF Others
  <2>3. CASE Wait(t)
    BY <1>1, <1>2, <2>1, <2>2, <2>3 DEF Wait
  <2>4. CASE NumberEvent(t)
    <3>1. /\ Only(tx'[t], tx[t], {"step", "id", "first"})
          /\ tx'[t].id = NextId /\ tx'[t].first = IF tx[t].tries = 0 THEN NextId ELSE tx[t].first
      BY <1>0, <2>4, NumberDoes DEF Does
    <3>2. tx'[t].tries = tx[t].tries
      BY <3>1 DEF Only
    <3> QED BY <1>1, <2>1, <2>2, <3>1, <3>2 DEF TriesInv
  <2>5. CASE Collide(t)
    <3>1. /\ At(t, "insert") /\ tx[t].id \in Ids
          /\ Only(tx'[t], tx[t], {"step", "tries"})
          /\ tx'[t].tries = tx[t].tries + 1 /\ tx'[t].step = tx[t].step - 1
      BY <1>0, <2>5, CollideDoes DEF Collide, Collides
    <3>2. AtInsert(t) /\ tx'[t].first = tx[t].first
      BY <3>1 DEF AtInsert, At, Only
    <3>3. ~ AtInsert(t)'
      <4>1. /\ Kind[t] \in Kinds /\ tx[t].step \in Nat \ {0} /\ tx[t].step <= Len(Program(Kind[t]))
            /\ tx'[t].step \in Nat \ {0} /\ Len(Program(Kind[t])) \in Nat
        BY <1>0, <3>1, KindOf, ProgramOrder DEF Shape, At, Over
      <4>2. Program(Kind[t])[tx'[t].step] = "number"
        <5>1. tx'[t].step \in 1 .. Len(Program(Kind[t])) - 1 /\ tx'[t].step + 1 = tx[t].step
          BY <3>1, <4>1
        <5>2. Program(Kind[t])[tx'[t].step + 1] = "insert"
          BY <3>1, <5>1 DEF At
        <5> QED BY <4>1, <5>1, <5>2, ProgramOrder
      <4> QED BY <4>2 DEF AtInsert
    <3> QED BY <1>1, <2>1, <2>2, <3>1, <3>2, <3>3 DEF TriesInv
  <2>6. ASSUME NEW tries, Roll(t, tries),
               \/ tries = tx[t].tries
               \/ tries = tx[t].tries + 1 /\ AtInsert(t) /\ tx[t].id \in Ids
        PROVE  TriesInv(t)'
    <3>1. /\ Only(tx'[t], tx[t], {"state", "tries"}) /\ tx'[t].tries = tries
          /\ tx'[t].state = "aborted"
      BY <1>0, <2>6, RollDoes
    <3>2. tx'[t].first = tx[t].first /\ ~ AtInsert(t)'
      BY <3>1 DEF Only, AtInsert
    <3> QED BY <1>1, <2>1, <2>6, <3>1, <3>2 DEF TriesInv
  <2>7. CASE CollideAtLast(t)
    <3>1. AtInsert(t) /\ tx[t].id \in Ids /\ Roll(t, tx[t].tries + 1)
      BY <2>7 DEF CollideAtLast, Collides, At, AtInsert
    <3> QED BY <2>2, <2>6, <3>1
  <2>8. CASE Mismatch(t) \/ DeadlockVictim(t) \/ ConnectionLost(t)
    BY <2>2, <2>6, <2>8 DEF Mismatch, DeadlockVictim, ConnectionLost
  <2>9. CASE /\ Statement(t) /\ ~ NumberEvent(t) /\ ~ Collide(t) /\ ~ CollideAtLast(t)
             /\ ~ Mismatch(t)
    BY <1>0, <1>1, <2>1, <2>2, <2>9, CountsNothing DEF TriesInv
  <2> QED BY <1>3, <2>3, <2>4, <2>5, <2>7, <2>8, <2>9
<1>4. ASSUME NEW t \in Txs, Commit(t)
      PROVE  \A u \in Txs : TriesInv(u)'
  <2>1. /\ Others(t) /\ Only(tx'[t], tx[t], {"state"}) /\ tx'[t].state = "committed"
    BY <1>0, <1>4, CommitDoes
  <2>2. Cardinality(log)' >= Cardinality(log)
    <3>1. log \subseteq log' /\ IsFiniteSet(log) /\ IsFiniteSet(log')
      BY <1>0, <1>4 DEF Commit, DenseInv
    <3> QED BY <3>1, FS_Subset
  <2>3. TriesInv(t)'
    BY <1>1, <2>1, <2>2 DEF TriesInv, AtInsert, Only
  <2> QED BY <1>2, <2>1, <2>2, <2>3 DEF Others
<1>5. ASSUME tx' = tx, log' = log
      PROVE  \A u \in Txs : TriesInv(u)'
  BY <1>1, <1>2, <1>5
<1> QED BY <1>3, <1>4, <1>5 DEF Next, Proceed, SendReply, Quiet, vars, committed

\* An append collides, and at the last gives up, only because others have
\* committed as many events since it first computed a number.
THEOREM CollisionsArePaidFor == Spec => []CollisionsAreCommits
<1>1. Init => \A t \in Txs : TriesInv(t)
  <2> SUFFICES ASSUME Init, NEW t \in Txs PROVE TriesInv(t)
    OBVIOUS
  <2>1. tx[t].tries = 0 /\ tx[t].first = 0 /\ tx[t].step = 1
    BY InitialRows
  <2>2. ~ AtInsert(t)
    BY <2>1, KindOf, ProgramOrder DEF AtInsert
  <2> QED BY <2>1, <2>2 DEF TriesInv
<1>2. DenseInv /\ (\A t \in Txs : TriesInv(t)) => CollisionsAreCommits
  <2> SUFFICES ASSUME DenseInv, NEW t \in Txs, TriesInv(t)
               PROVE  Cardinality({id \in Ids : id >= tx[t].first}) >= tx[t].tries
    BY DEF CollisionsAreCommits
  <2> DEFINE n == Cardinality(log)
             later == {id \in Ids : id >= tx[t].first}
  <2>1. n \in Nat /\ Ids = 1 .. n /\ tx[t].first \in Nat /\ tx[t].tries \in Nat
    BY FiniteCount DEF DenseInv, EventIdsDense, TriesInv
  <2>2. IsFiniteSet(later) /\ Cardinality(later) \in Nat
    <3>1. IsFiniteSet(1 .. n)
      BY <2>1, FS_Interval
    <3>2. IsFiniteSet(later)
      BY <2>1, <3>1, FS_Subset
    <3> QED BY <3>2, FS_CardinalityType
  <2>3. CASE tx[t].tries = 0
    BY <2>2, <2>3
  <2>4. CASE tx[t].tries > 0
    <3>1. tx[t].first >= 1 /\ tx[t].first + tx[t].tries <= n + 1
      BY <2>4 DEF TriesInv
    <3>2. later = tx[t].first .. n
      BY <2>1, <3>1
    <3>3. Cardinality(tx[t].first .. n) = n - tx[t].first + 1
      <4>1. tx[t].first \in Int /\ n \in Int /\ ~ (tx[t].first > n)
        BY <2>1, <2>4, <3>1
      <4> HIDE DEF n
      <4> QED BY <4>1, FS_Interval
    <3>4. Cardinality(later) = n - tx[t].first + 1
      BY <3>2, <3>3, Zenon
    <3> HIDE DEF later, n
    <3>5. Cardinality(later) >= tx[t].tries
      BY <2>1, <3>1, <3>4
    <3> QED BY <3>5 DEF later
  <2> QED BY <2>1, <2>3, <2>4
<1> QED BY <1>1, <1>2, DenseInit, DenseStep, TriesStep, PTL DEF Spec

-----------------------------------------------------------------------------
(* What a submit is told *)

\* A submit has read a status the operation had, and ends with one it has had
\* since; a reply says so.
ReplyInv(t) ==
    /\ tx[t].won \/ reply[t].code # 0 => Kind[t] = "submit"
    /\ Kind[t] = "submit" =>
        /\ tx[t].step > 1 => /\ Rank(tx[t].since) <= Rank(operations[Op].status)
                             /\ Rank(tx[t].since) <= Rank(tx[t].copy.status)
        /\ tx[t].step = 2 => tx[t].copy \in Operation /\ tx[t].copy.status = tx[t].since
        /\ Over(t) /\ ~ tx[t].won => Rank(tx[t].copy.status) <= Rank(operations[Op].status)
        /\ Over(t) /\ tx[t].won => tx[t].copy.status = "PROCESSING"
        /\ reply[t].code # 0 =>
            /\ Over(t) /\ reply[t].status = tx[t].copy.status
            /\ reply[t].code = 202 <=> tx[t].won

\* A submit that has won and committed.
Won(t) == tx[t].state = "committed" /\ tx[t].won

\* One submit at most has committed the step from CREATED.
WinnerInv ==
    \A t \in Txs : Won(t) => /\ operations[Op].status # "CREATED"
                             /\ \A u \in Txs : Won(u) => u = t

\* What is said of the replies.
RepliesInv ==
    /\ reply = [t \in Txs |-> reply[t]]
    /\ \A t \in Txs : ReplyInv(t)
    /\ WinnerInv

\* The order in which an operation takes its statuses.
Rises == Rank(operations[Op].status) <= Rank(operations'[Op].status)

\* The order, as it is used.
LEMMA Ranks ==
    /\ \A s : Rank(s) \in 1 .. 3
    /\ Rank("CREATED") = 1 /\ Rank("PROCESSING") = 2
    /\ \A s \in OperationStatus : s # "CREATED" => Rank(s) >= 2
    /\ \A s \in OperationStatus : s \in TerminalStatuses \/ Rank(s) <= 2
  BY DEF Rank, OperationStatus, TerminalStatuses

\* A status is not taken back.
LEMMA KeptRises ==
    ASSUME CommittedInv, operations'[Op].status \in OperationStatus, KeepsWhatIsDone
    PROVE  Rises
<1>1. /\ operations[Op].status \in OperationStatus
      /\ operations[Op].status \in TerminalStatuses => operations'[Op].status = operations[Op].status
      /\ operations[Op].status # "CREATED" => operations'[Op].status # "CREATED"
  BY DEF CommittedInv, KeepsWhatIsDone
<1> QED BY <1>1 DEF Rises, Rank, OperationStatus, TerminalStatuses

\* A step that leaves the row and the reply of a submit leaves what is said of it.
LEMMA ReplyStays ==
    ASSUME Shape, NEW t \in Txs, ReplyInv(t), reply'[t] = reply[t], Rises,
           Only(tx'[t], tx[t], {"state"})
    PROVE  ReplyInv(t)'
<1>1. Over(t)' = Over(t)
  BY DEF Over, Only
<1> QED BY <1>1, Ranks DEF ReplyInv, Only, Rises

\* Nothing is replied before the program is over.
LEMMA NotYet ==
    ASSUME NEW t \in Txs, ReplyInv(t), NEW s, At(t, s)
    PROVE  reply[t].code = 0
BY DEF ReplyInv, At

\* Nobody else takes the step from CREATED.
LEMMA OnlySubmitsBegin ==
    ASSUME NEW kind \in Kinds \ {"submit"}, NEW n \in 1 .. Len(Program(kind))
    PROVE  Program(kind)[n] # "begin"
<1>1. CASE kind \in Receipts
  BY <1>1 DEF Program, Receipts
<1>2. CASE kind = "accepted"
  BY <1>2 DEF Program, Receipts
<1>3. CASE kind \in {"unavailable", "refused"}
  BY <1>3 DEF Program, Receipts
<1>4. CASE kind = "recovery"
  BY <1>4 DEF Program, Receipts
<1>5. CASE kind = "claim"
  BY <1>5 DEF Program, Receipts
<1> QED BY <1>1, <1>2, <1>3, <1>4, <1>5 DEF Kinds, Recordings

\* A statement of a submit leaves what is said of its reply.
LEMMA StatementTells ==
    ASSUME Shape, Shape', CommittedInv, NEW t \in Txs, ReplyInv(t), Typed(t),
           tx[t].state = "open" => OpenInv(t),
           Statement(t), ~ CollideAtLast(t), ~ Mismatch(t), reply'[t] = reply[t],
           operations' = operations
    PROVE  ReplyInv(t)'
<1>0. /\ tx[t].state = "open" /\ ~ Over(t) /\ reply[t].code = 0
      /\ operations[Op].status \in OperationStatus
  BY StatementDoes, NotYet DEF At, CommittedInv
<1>1. CASE Kind[t] = "submit"
  <2>0. SubmitInv(t) /\ Len(Program(Kind[t])) = 7
    BY <1>0, <1>1, Lengths, KindOf DEF OpenInv
  <2>w. ASSUME Rank(tx'[t].since) <= Rank(operations[Op].status),
               Rank(tx'[t].since) <= Rank(tx'[t].copy.status),
               tx'[t].step = 2 => tx'[t].copy \in Operation /\ tx'[t].copy.status = tx'[t].since,
               tx'[t].step > 7 => IF tx'[t].won THEN tx'[t].copy.status = "PROCESSING"
                                  ELSE Rank(tx'[t].copy.status) <= Rank(operations[Op].status)
        PROVE  ReplyInv(t)'
    BY <1>0, <1>1, <2>0, <2>w DEF ReplyInv, Over
  <2>r. tx[t].step > 1 => /\ Rank(tx[t].since) <= Rank(operations[Op].status)
                          /\ Rank(tx[t].since) <= Rank(tx[t].copy.status)
    BY <1>1 DEF ReplyInv
  <2>1. CASE tx[t].step = 1 /\ Read(t)
    <3>1. OperationsOf(t)[Op] = operations[Op]
      BY <2>0, <2>1 DEF SubmitInv, Nothing, OperationsOf
    <3>2. tx'[t].step = 2 /\ tx'[t].copy = operations[Op] /\ tx'[t].since = operations[Op].status
      BY <2>1, <3>1, ReadDoes
    <3>3. operations[Op] \in Operation
      BY Constants DEF CommittedInv
    <3> QED BY <2>w, <3>2, <3>3, Ranks
  <2>2. CASE tx[t].step = 2 /\ BeginProcessing(t)
    <3>1. ~ tx[t].won /\ OperationsOf(t) = operations /\ tx[t].copy.status = tx[t].since
      BY <1>1, <2>0, <2>2 DEF SubmitInv, Nothing, OperationsOf, ReplyInv
    <3>2. CASE CanBeginProcessing(operations, Op)
      <4>1. Only(tx'[t], tx[t], {"step", "operation", "won"}) /\ tx'[t].step = 3
        BY <2>2, <3>1, <3>2, BeginDoes DEF Does
      <4>2. tx'[t].since = tx[t].since /\ tx'[t].copy = tx[t].copy
        BY <4>1 DEF Only
      <4> QED BY <2>2, <2>r, <2>w, <4>1, <4>2
    <3>3. CASE ~ CanBeginProcessing(operations, Op)
      <4>0. /\ Only(tx'[t], tx[t], {"step", "copy"}) /\ tx'[t].step = Len(Program(Kind[t])) + 1
            /\ tx'[t].copy \in LoserCopies(tx[t].copy)
        BY <2>2, <3>1, <3>3, BeginDoes DEF Does
      <4>1. tx'[t].step = 8
        BY <2>0, <4>0
      <4>2. tx'[t].since = tx[t].since /\ tx'[t].won = tx[t].won
        BY <4>0 DEF Only
      <4>3. \/ tx'[t].copy.status = tx[t].copy.status
            \/ tx[t].copy.status = "CREATED" /\ tx'[t].copy.status = "PROCESSING"
        <5>1. CASE tx'[t].copy = tx[t].copy
          BY <5>1
        <5>2. CASE /\ tx[t].copy.status = "CREATED"
                   /\ tx'[t].copy = [tx[t].copy EXCEPT !.status = "PROCESSING"]
          <6>1. tx[t].copy \in Operation
            BY <1>1, <2>2 DEF ReplyInv
          <6> QED BY <5>2, <6>1 DEF Operation
        <5> QED BY <4>0, <5>1, <5>2 DEF LoserCopies
      <4>4. operations[Op].status # "CREATED"
        BY <3>3 DEF CanBeginProcessing
      <4> QED BY <1>0, <2>2, <2>r, <2>w, <3>1, <4>1, <4>2, <4>3, <4>4, Ranks
    <3> QED BY <3>2, <3>3
  <2>3. ASSUME tx[t].step \in 3 .. 6, tx'[t].step \in 3 .. 7,
               Only(tx'[t], tx[t], {"step", "intent", "id", "first", "event", "tries"})
        PROVE  ReplyInv(t)'
    <3>1. tx'[t].since = tx[t].since /\ tx'[t].copy = tx[t].copy
      BY <2>3 DEF Only
    <3> QED BY <2>3, <2>r, <2>w, <3>1
  <2>4. CASE tx[t].step = 3 /\ StoreIntent(t)
    BY <2>3, <2>4, IntentDoes DEF StoreIntent, Does, Only
  <2>5. CASE tx[t].step = 4 /\ NumberEvent(t)
    BY <2>3, <2>5, NumberDoes DEF Does, Only
  <2>6. CASE tx[t].step = 5 /\ InsertEvent(t)
    BY <2>3, <2>6, InsertDoes DEF Does, Only
  <2>7. CASE tx[t].step = 5 /\ Collide(t)
    BY <2>3, <2>7, CollideDoes DEF Only
  <2>8. CASE tx[t].step = 6 /\ CheckReference(t)
    BY <2>3, <2>8, PassDoes DEF CheckReference, Does, Only
  <2>9. CASE tx[t].step = 7 /\ Refresh(t)
    <3>1. /\ Only(tx'[t], tx[t], {"step", "copy"}) /\ tx'[t].step = 8
          /\ tx'[t].copy = OperationsOf(t)[Op]
      BY <2>9, CopyDoes DEF Refresh, Does
    <3>2. /\ tx[t].won /\ operations[Op].status = "CREATED"
          /\ OperationsOf(t) = TryBeginProcessing(operations, Op)
      BY <2>0, <2>9 DEF SubmitInv
    <3>3. tx'[t].copy.status = "PROCESSING"
      BY <3>1, <3>2, OperationRows DEF CommittedInv
    <3>4. tx'[t].since = tx[t].since /\ tx'[t].won = tx[t].won
      BY <3>1 DEF Only
    <3> QED BY <2>9, <2>r, <2>w, <3>1, <3>2, <3>3, <3>4, Ranks
  <2> QED BY <1>1, <2>1, <2>2, <2>4, <2>5, <2>6, <2>7, <2>8, <2>9, SubmitRuns
<1>2. CASE Kind[t] # "submit"
  <2>1. ~ BeginProcessing(t)
    <3>1. ASSUME At(t, "begin") PROVE FALSE
      <4>1. /\ Kind[t] \in Kinds /\ tx[t].step \in 1 .. Len(Program(Kind[t]))
            /\ Program(Kind[t])[tx[t].step] = "begin"
        BY <3>1, KindOf, Positions
      <4> QED BY <1>2, <4>1, OnlySubmitsBegin
    <3> QED BY <3>1, StatementsAt
  <2>2. tx'[t].won = tx[t].won
    BY <2>1, StatementDoes
  <2> QED BY <1>0, <1>2, <2>2 DEF ReplyInv
<1> QED BY <1>1, <1>2

\* Every step keeps what is said of the replies.
LEMMA RepliesStep == DenseInv /\ WholeInv /\ RepliesInv /\ [Next]_vars => RepliesInv'
<1> SUFFICES ASSUME DenseInv, WholeInv, RepliesInv, [Next]_vars PROVE RepliesInv'
  OBVIOUS
<1>0. /\ DenseInv' /\ Shape /\ Shape' /\ LocksInv /\ CommittedInv /\ CommittedInv'
      /\ \A t \in Txs : TxInv(t) /\ ReplyInv(t)
      /\ reply = [t \in Txs |-> reply[t]]
  BY DenseStep, WholeStep DEF DenseInv, WholeInv, TxsInv, TxInv, RepliesInv
<1>s. operations' = operations => Rises
  BY Ranks DEF Rises
<1>i. \A u : IsTx(tx[u]) => Only(tx[u], tx[u], {"state"})
  BY DEF Only
<1>1. ASSUME NEW t \in Txs, Rises, \A u \in Txs \ {t} : tx'[u] = tx[u] /\ reply'[u] = reply[u]
      PROVE  \A u \in Txs \ {t} : ReplyInv(u)'
  <2>1. \A u \in Txs \ {t} : Only(tx'[u], tx[u], {"state"})
    BY <1>0, <1>1, <1>i DEF Shape
  <2> QED BY <1>0, <1>1, <2>1, ReplyStays
<1>2. ASSUME operations' = operations, \A t \in Txs : Won(t)' => Won(t)
      PROVE  WinnerInv'
  BY <1>2 DEF WinnerInv, RepliesInv
<1>3. ASSUME NEW t \in Txs, Wait(t) \/ Statement(t) \/ DeadlockVictim(t) \/ ConnectionLost(t)
      PROVE  RepliesInv'
  <2>1. UNCHANGED <<operations, reply>> /\ Others(t)
    BY <1>0, <1>3, StepDoes DEF committed
  <2>2. \A u \in Txs \ {t} : ReplyInv(u)'
    BY <1>1, <1>s, <2>1 DEF Others
  <2>3. ReplyInv(t)' /\ (Won(t)' => Won(t))
    <3>1. CASE Only(tx'[t], tx[t], {"state", "tries"}) /\ tx'[t].state \in {tx[t].state, "aborted"}
      BY <1>0, <2>1, <3>1 DEF ReplyInv, Only, Over, Won
    <3>2. CASE Wait(t)
      BY <1>0, <3>1, <3>2 DEF Wait, Only, Shape
    <3>3. CASE \E tries : Roll(t, tries)
      BY <1>0, <3>1, <3>3, RollDoes
    <3>4. CASE Statement(t) /\ ~ Mismatch(t) /\ ~ CollideAtLast(t)
      <4>1. tx'[t].state = "open"
        BY <1>0, <3>4, StatementDoes DEF At
      <4> QED BY <1>0, <2>1, <3>4, <4>1, StatementTells DEF TxInv, Won
    <3> QED BY <1>0, <1>3, <3>2, <3>3, <3>4 DEF Mismatch, CollideAtLast, DeadlockVictim, ConnectionLost
  <2>4. \A u \in Txs : Won(u)' => Won(u)
    BY <2>1, <2>3 DEF Others, Won
  <2> QED BY <1>0, <1>2, <2>1, <2>2, <2>3, <2>4 DEF RepliesInv
<1>4. ASSUME NEW t \in Txs, Commit(t)
      PROVE  RepliesInv'
  <2>1. /\ Others(t) /\ Only(tx'[t], tx[t], {"state"}) /\ tx'[t].state = "committed"
        /\ tx[t].state = "open" /\ Over(t) /\ reply' = reply
    BY <1>0, <1>4, CommitDoes
  <2>2. KeepsWhatIsDone /\ operations' = OperationsOf(t)
    BY <1>0, <1>4, TxCommit DEF Commit
  <2>3. Rises
    BY <1>0, <2>2, KeptRises DEF CommittedInv
  <2>4. \A u \in Txs : ReplyInv(u)'
    BY <1>0, <1>1, <2>1, <2>3, ReplyStays DEF Others
  <2>5. ASSUME tx[t].won
        PROVE  operations[Op].status = "CREATED" /\ operations'[Op].status # "CREATED"
    <3>1. SubmitInv(t)
      BY <1>0, <2>1, <2>5 DEF ReplyInv, TxInv, OpenInv
    <3>2. operations[Op].status = "CREATED" /\ operations' = TryBeginProcessing(operations, Op)
      BY <2>2, <2>5, <3>1 DEF SubmitInv
    <3> QED BY <1>0, <3>2, OperationRows DEF CommittedInv
  <2>6. WinnerInv'
    <3>1. \A u \in Txs \ {t} : Won(u)' <=> Won(u)
      BY <2>1 DEF Others, Won
    <3>2. Won(t)' <=> tx[t].won
      BY <2>1 DEF Won, Only
    <3> QED BY <2>2, <2>5, <3>1, <3>2 DEF WinnerInv, RepliesInv, KeepsWhatIsDone
  <2> QED BY <1>0, <2>1, <2>4, <2>6 DEF RepliesInv
<1>5. ASSUME NEW t \in Txs, SendReply(t)
      PROVE  RepliesInv'
  <2>1. /\ UNCHANGED <<operations, tx>> /\ Kind[t] = "submit" /\ Over(t)
        /\ reply' = [reply EXCEPT ![t] = [code |-> IF tx[t].won THEN 202 ELSE 200,
                                          status |-> tx[t].copy.status]]
    BY <1>5 DEF SendReply, committed
  <2>2. /\ reply' = [u \in Txs |-> reply'[u]]
        /\ reply'[t].code = (IF tx[t].won THEN 202 ELSE 200) /\ reply'[t].status = tx[t].copy.status
        /\ \A u \in Txs \ {t} : reply'[u] = reply[u]
    BY <1>0, <2>1
  <2>3. ReplyInv(t)'
    <3>1. Over(t)'
      BY <2>1 DEF Over
    <3> QED BY <1>0, <2>1, <2>2, <3>1 DEF ReplyInv, Over
  <2>4. \A u \in Txs \ {t} : ReplyInv(u)'
    BY <1>1, <1>s, <2>1, <2>2
  <2>5. WinnerInv'
    BY <1>2, <2>1 DEF Won
  <2> QED BY <2>2, <2>3, <2>4, <2>5 DEF RepliesInv
<1>6. ASSUME UNCHANGED <<operations, tx, reply>>
      PROVE  RepliesInv'
  <2>1. \A u \in Txs : ReplyInv(u)'
    BY <1>0, <1>6 DEF ReplyInv, Over
  <2>2. WinnerInv'
    BY <1>2, <1>6 DEF Won
  <2> QED BY <1>0, <1>6, <2>1, <2>2 DEF RepliesInv
<1> QED BY <1>3, <1>4, <1>5, <1>6 DEF Next, Proceed, Quiet, vars, committed

\* It holds at first.
LEMMA RepliesInit == Init => RepliesInv
<1> SUFFICES ASSUME Init PROVE RepliesInv
  OBVIOUS
<1>1. \A t \in Txs : /\ tx[t].state \in {"open", "absent"} /\ tx[t].step = 1 /\ ~ tx[t].won
                      /\ reply[t].code = 0
  BY InitialRows
<1>2. \A t \in Txs : ~ Over(t)
  BY <1>1, KindOf, ProgramOrder DEF Over
<1>3. reply = [t \in Txs |-> reply[t]]
  BY DEF Init
<1> QED BY <1>1, <1>2, <1>3 DEF RepliesInv, ReplyInv, WinnerInv, Won

\* A reply that is not kept has cost a fault.
UnkeptFew == Cardinality(Unkept) <= faults

\* Who has replied has no statement left, and waits for nothing.
LEMMA RepliedIsOver ==
    ASSUME WholeInv, NEW t \in Txs, ReplyInv(t), reply[t].code # 0
    PROVE  /\ ~ DeadlockVictim(t) /\ \A s : ~ At(t, s)
           /\ want[t] = {}
<1>1. Over(t)
  BY DEF ReplyInv
<1>2. want[t] = {}
  BY <1>1 DEF WholeInv, LocksInv
<1> QED BY <1>1, <1>2 DEF DeadlockVictim, Waiting, At

LEMMA UnkeptStep ==
    DenseInv /\ WholeInv /\ RepliesInv /\ UnkeptFew /\ [Next]_vars => UnkeptFew'
<1> SUFFICES ASSUME DenseInv, WholeInv, RepliesInv, UnkeptFew, [Next]_vars PROVE UnkeptFew'
  OBVIOUS
<1>0. /\ Shape /\ reply = [t \in Txs |-> reply[t]] /\ faults \in Nat
      /\ \A t \in Txs : ReplyInv(t)
  BY TransactionsAssumption DEF DenseInv, WholeInv, RepliesInv
<1>1. /\ Unkept \subseteq Txs /\ IsFiniteSet(Unkept) /\ Cardinality(Unkept) \in Nat
  <2>1. Unkept \subseteq Txs /\ IsFiniteSet(Txs)
    BY TransactionsAssumption DEF Unkept
  <2> QED BY <2>1, FS_Subset, FS_CardinalityType
<1>2. ASSUME Unkept' \subseteq Unkept, faults' = faults PROVE UnkeptFew'
  <2>1. IsFiniteSet(Unkept') /\ Cardinality(Unkept') <= Cardinality(Unkept)
    BY <1>1, <1>2, FS_Subset
  <2>2. Cardinality(Unkept') \in Nat
    BY <2>1, FS_CardinalityType
  <2> QED BY <1>0, <1>1, <1>2, <2>1, <2>2 DEF UnkeptFew
<1>3. ASSUME NEW t \in Txs, Wait(t) \/ Statement(t) \/ DeadlockVictim(t) PROVE UnkeptFew'
  <2>1. UNCHANGED reply /\ Others(t)
    BY <1>0, <1>3, StepDoes
  <2>f. faults' = faults
    <3>1. CASE Wait(t) \/ DeadlockVictim(t)
      BY <3>1 DEF Wait, DeadlockVictim
    <3>2. CASE Statement(t)
      BY <1>0, <3>2, StatementDoes, ClaimDoes, CollideDoes DEF Moved
    <3> QED BY <1>3, <3>1, <3>2
  <2>2. tx'[t].state = "aborted" => reply[t].code = 0 \/ tx[t].state = "aborted"
    <3>1. CASE Wait(t)
      BY <3>1 DEF Wait
    <3>2. CASE Statement(t) \/ DeadlockVictim(t)
      BY <1>0, <3>2, RepliedIsOver, StatementDoes
    <3> QED BY <1>3, <3>1, <3>2
  <2>3. Unkept' \subseteq Unkept
    BY <2>1, <2>2 DEF Unkept, Others
  <2> QED BY <1>2, <2>f, <2>3
<1>4. ASSUME NEW t \in Txs, Commit(t) PROVE UnkeptFew'
  <2>1. Others(t) /\ tx'[t].state = "committed" /\ reply' = reply /\ faults' = faults
    BY <1>0, <1>4, CommitDoes DEF Commit
  <2>2. Unkept' \subseteq Unkept
    BY <2>1 DEF Unkept, Others
  <2> QED BY <1>2, <2>1, <2>2
<1>5. ASSUME NEW t \in Txs, SendReply(t) PROVE UnkeptFew'
  <2>1. /\ UNCHANGED <<tx, faults>> /\ tx[t].state # "aborted"
        /\ \A u \in Txs \ {t} : reply'[u] = reply[u]
    BY <1>0, <1>5 DEF SendReply
  <2>2. Unkept' \subseteq Unkept
    BY <2>1 DEF Unkept
  <2> QED BY <1>2, <2>1, <2>2
<1>6. ASSUME NEW t \in Txs, ConnectionLost(t) PROVE UnkeptFew'
  <2>1. reply' = reply /\ Others(t) /\ faults' = faults + 1
    BY <1>0, <1>6, StepDoes DEF ConnectionLost
  <2>2. Unkept' \subseteq Unkept \cup {t}
    BY <2>1 DEF Unkept, Others
  <2>3. /\ IsFiniteSet(Unkept \cup {t})
        /\ Cardinality(Unkept \cup {t}) <= Cardinality(Unkept) + 1
    BY <1>1, FS_AddElement
  <2>4. /\ IsFiniteSet(Unkept') /\ Cardinality(Unkept') <= Cardinality(Unkept \cup {t})
        /\ Cardinality(Unkept \cup {t}) \in Nat
    BY <2>2, <2>3, FS_Subset, FS_CardinalityType
  <2>5. Cardinality(Unkept') \in Nat
    BY <2>4, FS_CardinalityType
  <2> QED BY <1>0, <1>1, <2>1, <2>3, <2>4, <2>5 DEF UnkeptFew
<1>7. CASE UNCHANGED vars
  <2>1. Unkept' = Unkept /\ faults' = faults
    BY <1>7 DEF vars, Unkept
  <2> QED BY <1>2, <2>1
<1> QED BY <1>3, <1>4, <1>5, <1>6, <1>7 DEF Next, Proceed, Quiet

LEMMA UnkeptInit == Init => UnkeptFew
<1> SUFFICES ASSUME Init PROVE UnkeptFew
  OBVIOUS
<1>1. Unkept = {}
  BY DEF Init, Unkept
<1>2. faults = 0 /\ Cardinality(Unkept) = 0
  BY <1>1, FS_EmptySet DEF Init
<1> QED BY <1>2 DEF UnkeptFew

\* Of two submits that have won, and have not been rolled back, one has not: they
\* would hold the row together, or the second would have found it PROCESSING.
LEMMA OneWinner ==
    ASSUME WholeInv, RepliesInv, NEW t \in Txs \ Unkept, NEW u \in Txs \ Unkept,
           reply[t].code = 202, reply[u].code = 202
    PROVE  u = t
<1>1. ASSUME NEW x \in {t, u}
      PROVE  /\ tx[x].won
             /\ \/ Won(x)
                \/ operations[Op].status = "CREATED" /\ Write(x)
  <2>1. /\ x \in Txs /\ reply[x].code = 202 /\ tx[x].state # "aborted"
        /\ ReplyInv(x) /\ TxInv(x)
    BY DEF Unkept, RepliesInv, WholeInv, TxsInv, TxInv
  <2>2. tx[x].won /\ Kind[x] = "submit" /\ Over(x)
    BY <2>1 DEF ReplyInv
  <2>3. tx[x].state # "absent"
    <3>1. Len(Program(Kind[x])) = 7
      BY <2>1, <2>2, KindOf, Lengths
    <3>2. tx[x].step > 7
      BY <2>2, <3>1 DEF Over
    <3> QED BY <2>1, <3>2 DEF TxInv
  <2>4. CASE tx[x].state = "open"
    BY <2>1, <2>2, <2>4 DEF TxInv, OpenInv, SubmitInv
  <2>5. CASE tx[x].state = "committed"
    BY <2>2, <2>5 DEF Won
  <2> QED BY <2>1, <2>2, <2>3, <2>4, <2>5 DEF TxInv, Typed
<1>2. t \in Txs /\ u \in Txs /\ LocksInv /\ WinnerInv
  BY DEF WholeInv, RepliesInv
<1>3. CASE Won(t) \/ Won(u)
  <2>1. operations[Op].status # "CREATED"
    BY <1>2, <1>3 DEF WinnerInv
  <2>2. Won(t) /\ Won(u)
    BY <1>1, <2>1
  <2> QED BY <1>2, <2>2 DEF WinnerInv
<1>4. CASE Write(t) /\ Write(u)
  BY <1>2, <1>4, Exclusion
<1> QED BY <1>1, <1>3, <1>4

\* An intent that a 202 speaks of is in the table, or in the transaction that is
\* still to commit.
LEMMA WinnerStores ==
    ASSUME DenseInv, WholeInv, RepliesInv, NEW t \in Txs \ Unkept, reply[t].code = 202
    PROVE  (IF tx[t].state = "open" THEN OutboxOf(t) ELSE outbox)[Op].state # Absent
<1>1. /\ t \in Txs /\ tx[t].state # "aborted" /\ ReplyInv(t) /\ TxInv(t) /\ CommittedInv
      /\ Shape
  BY DEF Unkept, RepliesInv, WholeInv, TxsInv, TxInv, DenseInv
<1>2. /\ tx[t].won /\ Kind[t] = "submit" /\ Over(t) /\ tx[t].step \in Nat
  BY <1>1 DEF ReplyInv, Shape
<1>s. tx[t].step > 7
  <2>1. Len(Program(Kind[t])) = 7
    BY <1>1, <1>2, KindOf, Lengths
  <2> QED BY <1>2, <2>1 DEF Over
<1>3. tx[t].state # "absent"
  BY <1>1, <1>s DEF TxInv
<1>4. CASE tx[t].state = "open"
  <2>1. OutboxOf(t) = CreateIntent(outbox, Op, Op) /\ operations[Op].status = "CREATED"
    BY <1>1, <1>2, <1>s, <1>4 DEF TxInv, OpenInv, SubmitInv
  <2>2. outbox[Op] = NoIntent /\ outbox \in [OperationIds -> SubmitIntent] /\ Op \in OperationIds
    BY <1>1, <2>1, TransactionsAssumption DEF CommittedInv
  <2>3. OutboxOf(t)[Op].state = "PENDING"
    BY <2>1, <2>2 DEF CreateIntent, NoIntent, SubmitIntent
  <2> QED BY <1>4, <2>3 DEF Absent
<1>5. CASE tx[t].state = "committed"
  BY <1>1, <1>2, <1>5 DEF RepliesInv, WinnerInv, Won, CommittedInv
<1> QED BY <1>1, <1>3, <1>4, <1>5 DEF TxInv, Typed

\* Only a connection lost at the commit breaks the reply of a submit; of the
\* other replies one at most is 202, with its intent, and a loser is told a
\* status the operation had between its read and now.
THEOREM RepliesAreTrue == Spec => []RepliesTellTheTruth
<1>1. DenseInv /\ WholeInv /\ RepliesInv /\ UnkeptFew => RepliesTellTheTruth
  <2> SUFFICES ASSUME DenseInv, WholeInv, RepliesInv, UnkeptFew PROVE RepliesTellTheTruth
    OBVIOUS
  <2>1. ASSUME NEW t \in Txs, reply[t].code = 200
        PROVE  /\ Rank(tx[t].since) <= Rank(reply[t].status)
               /\ Rank(reply[t].status) <= Rank(operations[Op].status)
    <3>1. ReplyInv(t) /\ Kind[t] = "submit" /\ Over(t) /\ ~ tx[t].won
      BY <2>1 DEF RepliesInv, ReplyInv
    <3>2. tx[t].step > 1
      <4>1. Len(Program(Kind[t])) \in Nat \ {0} /\ tx[t].step \in Nat
        BY KindOf, ProgramOrder DEF DenseInv, Shape
      <4> QED BY <3>1, <4>1 DEF Over
    <3> QED BY <2>1, <3>1, <3>2 DEF ReplyInv
  <2> QED BY <2>1, OneWinner, WinnerStores DEF RepliesTellTheTruth, UnkeptFew
<1>2. DenseInv /\ WholeInv /\ RepliesInv /\ UnkeptFew /\ [Next]_vars => UnkeptFew'
  BY UnkeptStep
<1> QED BY <1>1, <1>2, DenseInit, DenseStep, WholeInit, WholeStep, RepliesInit, RepliesStep,
           UnkeptInit, PTL DEF Spec
===============================================================================
