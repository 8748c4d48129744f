------------------------- MODULE IngestSystemProofs -------------------------
(***************************************************************************)
(* Proofs about IngestSystem: the two parts keep their own invariants in   *)
(* the composition, the tables because every step of the system is one of  *)
(* ProtocolStore, and then the loop because every step is one of           *)
(* DataProcessor.  What is proved of the parts is taken over with it.      *)
(*                                                                         *)
(* LoopP and StoreP are the proofs of the parts, and the parts again; they *)
(* are the same as Loop and Store of IngestSystem, under other names.      *)
(***************************************************************************)
EXTENDS IngestSystem, FiniteSetTheorems, TLAPS

StoreP == INSTANCE ProtocolStoreProofs WITH
    Protocols <- {Protocol},
    MaxCrashes <- MaxDeleterCrashes,
    crashes <- deleter_crashes,
    request <- [step |-> "none", endpoint |-> "names", round |-> 0, read |-> 0,
                tree |-> {}, data |-> {}, had_root |-> FALSE, status |-> 0]

LoopP == INSTANCE DataProcessorProofs WITH
    Cutoffs <- Store!Rounds,
    stored <- Stored,
    late <- InDoubt,
    cutoff <- horizon

\* Its actions, defined twice, are the same.
LEMMA SameLoopActions ==
    /\ LoopP!Boot <=> Loop!Boot
    /\ LoopP!Poll <=> Loop!Poll
    /\ LoopP!PollUpToDate <=> Loop!PollUpToDate
    /\ LoopP!PollPastLastLog <=> Loop!PollPastLastLog
    /\ LoopP!GetLogs <=> Loop!GetLogs
    /\ LoopP!ScanDone <=> Loop!ScanDone
    /\ LoopP!SkipForeignEvent <=> Loop!SkipForeignEvent
    /\ LoopP!ProcessEvent <=> Loop!ProcessEvent
    /\ LoopP!RetryQueueEmpty <=> Loop!RetryQueueEmpty
    /\ LoopP!RetryNotDue <=> Loop!RetryNotDue
    /\ LoopP!RetryEvent <=> Loop!RetryEvent
    /\ LoopP!Crash <=> Loop!Crash
    /\ LoopP!LateCommit <=> Loop!LateCommit
    /\ LoopP!NewBlock <=> Loop!NewBlock
    /\ LoopP!Tick <=> Loop!Tick
    /\ LoopP!DeleteHistory <=> Loop!DeleteHistory
<1>1. LoopP!Boot <=> Loop!Boot
  BY DEF LoopP!Boot, Loop!Boot, LoopP!DefaultStartHeight,
         Loop!DefaultStartHeight, LoopP!FirstBlock, Loop!FirstBlock,
         LoopP!IsLastBlock, Loop!IsLastBlock
<1>2. LoopP!Poll <=> Loop!Poll
  BY DEF LoopP!Poll, Loop!Poll
<1>3. LoopP!PollUpToDate <=> Loop!PollUpToDate
  BY DEF LoopP!PollUpToDate, Loop!PollUpToDate
<1>4. LoopP!PollPastLastLog <=> Loop!PollPastLastLog
  BY DEF LoopP!PollPastLastLog, Loop!PollPastLastLog
<1>5. LoopP!GetLogs <=> Loop!GetLogs
  BY DEF LoopP!GetLogs, Loop!GetLogs, LoopP!IndexRange, Loop!IndexRange,
         LoopP!ToBlock, Loop!ToBlock
<1>6. LoopP!ScanDone <=> Loop!ScanDone
  BY DEF LoopP!ScanDone, Loop!ScanDone
<1>7. LoopP!SkipForeignEvent <=> Loop!SkipForeignEvent
  BY DEF LoopP!SkipForeignEvent, Loop!SkipForeignEvent, LoopP!IsNextEvent,
         Loop!IsNextEvent
<1>8. LoopP!ProcessEvent <=> Loop!ProcessEvent
  BY DEF LoopP!ProcessEvent, Loop!ProcessEvent, LoopP!Cardinality,
         Loop!Cardinality, LoopP!IsNextEvent, Loop!IsNextEvent,
         LoopP!LoseCommit, Loop!LoseCommit, LoopP!Process, Loop!Process,
         LoopP!ProcessFails, Loop!ProcessFails, LoopP!Refuses,
         Loop!Refuses, LoopP!Retry, Loop!Retry
<1>9. LoopP!RetryQueueEmpty <=> Loop!RetryQueueEmpty
  BY DEF LoopP!RetryQueueEmpty, Loop!RetryQueueEmpty
<1>10. LoopP!RetryNotDue <=> Loop!RetryNotDue
  BY DEF LoopP!RetryNotDue, Loop!RetryNotDue, LoopP!Due, Loop!Due
<1>11. LoopP!RetryEvent <=> Loop!RetryEvent
  BY DEF LoopP!RetryEvent, Loop!RetryEvent, LoopP!Cardinality,
         Loop!Cardinality, LoopP!Due, Loop!Due, LoopP!LoseCommit,
         Loop!LoseCommit, LoopP!Process, Loop!Process, LoopP!ProcessFails,
         Loop!ProcessFails, LoopP!Refuses, Loop!Refuses, LoopP!Requeued,
         Loop!Requeued, LoopP!RetriesLeft, Loop!RetriesLeft, LoopP!Retry,
         Loop!Retry
<1>12. LoopP!Crash <=> Loop!Crash
  BY DEF LoopP!Crash, Loop!Crash, LoopP!Cardinality, Loop!Cardinality,
         LoopP!Due, Loop!Due, LoopP!InProcess, Loop!InProcess,
         LoopP!IsNextEvent, Loop!IsNextEvent, LoopP!LoseCommit,
         Loop!LoseCommit, LoopP!Refuses, Loop!Refuses
<1>13. LoopP!LateCommit <=> Loop!LateCommit
  BY DEF LoopP!LateCommit, Loop!LateCommit
<1>14. LoopP!NewBlock <=> Loop!NewBlock
  BY DEF LoopP!NewBlock, Loop!NewBlock
<1>15. LoopP!Tick <=> Loop!Tick
  BY DEF LoopP!Tick, Loop!Tick, LoopP!Due, Loop!Due, LoopP!Older,
         Loop!Older
<1>16. LoopP!DeleteHistory <=> Loop!DeleteHistory
  BY DEF LoopP!DeleteHistory, Loop!DeleteHistory, LoopP!Expired,
         Loop!Expired
<1> QED BY <1>1, <1>2, <1>3, <1>4, <1>5, <1>6, <1>7, <1>8, <1>9, <1>10,
           <1>11, <1>12, <1>13, <1>14, <1>15, <1>16

\* So are the actions of the tables.
LEMMA SameStoreActions ==
    /\ StoreP!NextRound <=> Store!NextRound
    /\ StoreP!WakeDeleter <=> Store!WakeDeleter
    /\ StoreP!Delete <=> Store!Delete
    /\ StoreP!CommitDelete <=> Store!CommitDelete
    /\ StoreP!CrashDeleter <=> Store!CrashDeleter
    /\ StoreP!LateCommit <=> Store!LateCommit
    /\ StoreP!Begin(Protocol) <=> Store!Begin(Protocol)
    /\ StoreP!BulkCreate(Protocol) <=> Store!BulkCreate(Protocol)
    /\ StoreP!Commit(Protocol) <=> Store!Commit(Protocol)
    /\ StoreP!Rollback(Protocol) <=> Store!Rollback(Protocol)
    /\ StoreP!LoseCommit(Protocol) <=> Store!LoseCommit(Protocol)
<1>1. StoreP!NextRound <=> Store!NextRound
  BY DEF StoreP!NextRound, Store!NextRound
<1>2. StoreP!WakeDeleter <=> Store!WakeDeleter
  BY DEF StoreP!WakeDeleter, Store!WakeDeleter, StoreP!Cutoff,
         Store!Cutoff
<1>3. StoreP!Delete <=> Store!Delete
  BY DEF StoreP!Delete, Store!Delete, StoreP!DeleteOrder,
         Store!DeleteOrder, StoreP!Old, Store!Old
<1>4. StoreP!CommitDelete <=> Store!CommitDelete
  BY DEF StoreP!CommitDelete, Store!CommitDelete, StoreP!DeleteOrder,
         Store!DeleteOrder
<1>5. StoreP!CrashDeleter <=> Store!CrashDeleter
  BY DEF StoreP!CrashDeleter, Store!CrashDeleter
<1>6. StoreP!LateCommit <=> Store!LateCommit
  BY DEF StoreP!LateCommit, Store!LateCommit, StoreP!Inserted,
         Store!Inserted, StoreP!Inserts, Store!Inserts
<1>7. StoreP!Begin(Protocol) <=> Store!Begin(Protocol)
  BY DEF StoreP!Begin, Store!Begin, StoreP!HasRoot, Store!HasRoot,
         StoreP!Idle, Store!Idle, StoreP!IsNewKey, Store!IsNewKey,
         StoreP!Keys, Store!Keys, StoreP!Refuses, Store!Refuses,
         StoreP!RowsOf, Store!RowsOf
<1>8. StoreP!BulkCreate(Protocol) <=> Store!BulkCreate(Protocol)
  BY DEF StoreP!BulkCreate, Store!BulkCreate, StoreP!Idle, Store!Idle,
         StoreP!Inserts, Store!Inserts
<1>9. StoreP!Commit(Protocol) <=> Store!Commit(Protocol)
  BY DEF StoreP!Commit, Store!Commit, StoreP!Idle, Store!Idle,
         StoreP!Inserted, Store!Inserted, StoreP!Inserts, Store!Inserts,
         StoreP!ReadyToCommit, Store!ReadyToCommit
<1>10. StoreP!Rollback(Protocol) <=> Store!Rollback(Protocol)
  BY DEF StoreP!Rollback, Store!Rollback, StoreP!Idle, Store!Idle
<1>11. StoreP!LoseCommit(Protocol) <=> Store!LoseCommit(Protocol)
  BY DEF StoreP!LoseCommit, Store!LoseCommit, StoreP!Cardinality,
         Store!Cardinality, StoreP!Idle, Store!Idle, StoreP!Inserts,
         Store!Inserts, StoreP!ReadyToCommit, Store!ReadyToCommit
<1> QED BY <1>1, <1>2, <1>3, <1>4, <1>5, <1>6, <1>7, <1>8, <1>9, <1>10,
           <1>11

-----------------------------------------------------------------------------
(* The invariants of the parts, for the parts of the system                *)

\* The invariant of the loop holds at its start ...
LEMMA LoopStart == LoopP!Init => LoopP!IInv
  BY LoopP!InvInit, LoopAssumption
     DEF Loop!ChainAssumption, Loop!OneRootPerRound, Loop!ConfigAssumption

\* ... and is kept by its steps ...
LEMMA LoopStep == LoopP!IInv /\ [LoopP!Next]_(LoopP!vars) => LoopP!IInv'
  BY LoopP!InvStep, LoopAssumption
     DEF Loop!ChainAssumption, Loop!OneRootPerRound, Loop!ConfigAssumption

\* ... and so for the invariant of the tables.
LEMMA StoreStart == StoreP!Init => StoreP!IInv
  BY StoreP!InitInv, StoreAssumption
     DEF Store!ProtocolsAssumption, Store!HistoryAssumption

\* ProtocolStore keeps its invariant.
LEMMA StoreStep == StoreP!IInv /\ [StoreP!Next]_(StoreP!vars) => StoreP!IInv'
  BY StoreP!NextInv, StoreAssumption
     DEF Store!ProtocolsAssumption, Store!HistoryAssumption

\* An open transaction is that of the message that run() is processing, also
\* after a crash, a retry or a restart: no two attempts overlap in a process.
OneAttempt ==
    txn[Protocol] # Store!Idle =>
        \E e \in Own : Loop!InProcess(e) /\ txn[Protocol].round = Round[e]

\* A COMMIT that nobody waits for is of a message of this protocol.
LateOwn == \A x \in late : \E e \in Own : x.round = Round[e]

IInv ==
    /\ LoopP!IInv
    /\ StoreP!IInv
    /\ OneAttempt
    /\ LateOwn

-----------------------------------------------------------------------------
(* What the loop needs to know of the tables                               *)

\* The types that the proofs below need.
LEMMA LoopTypes ==
    ASSUME LoopP!IInv
    PROVE  /\ events \in SUBSET Log
           /\ retry_queue \in Seq(Loop!ProcessingRetry)
           /\ horizon \in Nat
  BY DEF LoopP!IInv, LoopP!TypeOK, LoopP!ProcessingRetry, Loop!ProcessingRetry

\* The open transactions are of this protocol, and those on their way have
\* executed all their statements.
LEMMA TxnTypes ==
    ASSUME StoreP!IInv
    PROVE  /\ txn \in [{Protocol} -> Store!Transaction \cup {Store!Idle}]
           /\ late \subseteq Store!Transaction
           /\ \A x \in late : x.protocol = Protocol
           /\ \A x \in late : x.done = Len(Store!Inserts[x.protocol])
           /\ txn[Protocol] # Store!Idle => txn[Protocol].protocol = Protocol
<1>1. /\ txn \in [{Protocol} -> Store!Transaction \cup {Store!Idle}]
      /\ late \subseteq Store!Transaction
      /\ txn[Protocol] # Store!Idle => txn[Protocol].protocol = Protocol
  BY DEF StoreP!IInv, StoreP!TypeOK, StoreP!Transaction, Store!Transaction,
         StoreP!Idle, Store!Idle, StoreP!Rounds, Store!Rounds, StoreP!Keys,
         Store!Keys
<1>2. \A x \in late : x.protocol = Protocol
  BY <1>1 DEF Store!Transaction
<1>3. \A x \in late : x.done = Len(Store!Inserts[x.protocol])
  BY DEF StoreP!IInv, StoreP!OpenWithin, StoreP!Inserts, Store!Inserts
<1> QED BY <1>1, <1>2, <1>3

\* While a transaction is open, its round has no root, and no COMMIT of it is
\* on its way but its own.
LEMMA OpenTransaction ==
    ASSUME StoreP!IInv,
           NEW x, x \in late \/ (x = txn[Protocol] /\ x # Store!Idle)
    PROVE  /\ ~Store!HasRoot(Protocol, x.round)
           /\ \A y \in late : y.round = x.round => y = x
<1>1. x \in StoreP!Open /\ x.protocol = Protocol
  <2>1. x # Store!Idle
    BY TxnTypes DEF Store!Transaction, Store!Idle
  <2> QED BY <2>1, TxnTypes DEF StoreP!Open, StoreP!Idle, Store!Idle
<1>2. ~Store!HasRoot(Protocol, x.round)
  BY <1>1 DEF StoreP!IInv, StoreP!OpenIsNew, Store!HasRoot, Store!RowsOf
<1>3. ASSUME NEW y \in late, y.round = x.round
      PROVE  y = x
  BY <1>1, <1>3, TxnTypes
     DEF StoreP!IInv, StoreP!OneOpenPerRound, StoreP!Idle, Store!Idle
<1> QED BY <1>2, <1>3

\* Only the root of its own round is in what a transaction inserts.
LEMMA InsertedRoot ==
    ASSUME NEW x \in Store!Transaction, x.protocol = Protocol,
           x.done = Len(Store!Inserts[x.protocol]),
           NEW e \in Own, x.round = Round[e],
           rows' = rows \cup Store!Inserted(x)
    PROVE  Stored' = Stored \cup {e}
<1>1. \A row : row \in Store!Inserted(x) <=>
          /\ row \in Store!Row
          /\ row.protocol = x.protocol
          /\ row.round = x.round
          /\ row.gen = x.gen
          /\ row.table \in {"root"} \cup Store!DataTables(x.protocol)
  <2>1. /\ x \in StoreP!Transaction
        /\ x.done = Len(StoreP!Inserts[x.protocol])
    BY DEF StoreP!Transaction, Store!Transaction, StoreP!Rounds, Store!Rounds,
           StoreP!Keys, Store!Keys, StoreP!Inserts, Store!Inserts
  <2>2. \A row : row \in StoreP!Inserted(x) <=>
            /\ row \in StoreP!Row
            /\ row.protocol = x.protocol
            /\ row.round = x.round
            /\ row.gen = x.gen
            /\ row.table \in {"root"} \cup StoreP!DataTables(x.protocol)
    BY <2>1, StoreP!InsertedFacts, StoreAssumption
       DEF Store!ProtocolsAssumption, Store!HistoryAssumption
  <2>3. /\ StoreP!Inserted(x) = Store!Inserted(x)
        /\ StoreP!DataTables(x.protocol) = Store!DataTables(x.protocol)
        /\ StoreP!Row = Store!Row
    BY DEF StoreP!Inserted, Store!Inserted, StoreP!Inserts, Store!Inserts,
           StoreP!DataTables, Store!DataTables, StoreP!Row, Store!Row,
           StoreP!Rounds, Store!Rounds, StoreP!Keys, Store!Keys,
           StoreP!Tables, Store!Tables
  <2> QED BY <2>2, <2>3
<1>2. Stored' \subseteq Stored \cup {e}
  <2> SUFFICES ASSUME NEW f \in Own, f # e, Store!HasRoot(Protocol, Round[f])'
               PROVE  Store!HasRoot(Protocol, Round[f])
    BY DEF Stored
  <2>1. Round[f] # Round[e]
    BY LoopAssumption DEF Loop!OneRootPerRound
  <2> QED BY <1>1, <2>1 DEF Store!HasRoot, Store!RowsOf
<1>3. Stored \subseteq Stored'
  BY DEF Stored, Store!HasRoot, Store!RowsOf
<1>4. Store!HasRoot(Protocol, Round[e])'
  <2> DEFINE root == [protocol |-> Protocol, table |-> "root",
                      round |-> x.round, gen |-> x.gen]
  <2>1. root \in Store!Row
    BY DEF Store!Row, Store!Transaction, Store!Tables
  <2>2. root \in rows'
    BY <1>1, <2>1
  <2> QED BY <2>2 DEF Store!HasRoot, Store!RowsOf
<1> QED BY <1>2, <1>3, <1>4 DEF Stored

\* run() is at work on one message at a time.
LEMMA InProcessUnique ==
    ASSUME LoopP!IInv, NEW e \in Own, NEW f \in Own,
           Loop!InProcess(e), Loop!InProcess(f)
    PROVE  e = f
<1>1. CASE pc = "scan"
  <2>1. e \in events /\ f \in events /\ e <= f /\ f <= e
    BY <1>1 DEF Loop!InProcess, Loop!IsNextEvent
  <2>2. e \in Nat /\ f \in Nat
    BY LoopAssumption DEF Loop!ChainAssumption
  <2> QED BY <2>1, <2>2
<1>2. CASE pc = "retry"
  BY <1>2 DEF Loop!InProcess
<1> QED BY <1>1, <1>2 DEF Loop!InProcess

\* The open transaction is the attempt at the message in process: the unique
\* index refuses neither its root nor, later, its COMMIT.
LEMMA AttemptOpen ==
    ASSUME IInv, NEW e \in Own, Loop!InProcess(e), txn[Protocol] # Store!Idle
    PROVE  txn[Protocol].round = Round[e] /\ ~Loop!Refuses(e)
<1>1. txn[Protocol].round = Round[e]
  BY InProcessUnique DEF IInv, OneAttempt
<1>2. \A f \in Stored : Round[f] # Round[e]
  BY <1>1, OpenTransaction DEF IInv, Stored
<1>3. \A f \in InDoubt : Round[f] # Round[e]
  <2> SUFFICES ASSUME NEW y \in late, y.round = Round[e] PROVE FALSE
    BY DEF InDoubt
  <2>1. y = txn[Protocol]
    BY <1>1, OpenTransaction DEF IInv
  <2> QED BY <1>1, <2>1 DEF IInv, StoreP!IInv, StoreP!OneOpenPerRound, StoreP!Idle, Store!Idle
<1> QED BY <1>1, <1>2, <1>3 DEF Loop!Refuses

\* What a lost COMMIT is to the loop.
LEMMA CommitLostIsLoseCommit ==
    ASSUME IInv, NEW e \in Own, Loop!InProcess(e), CommitLost
    PROVE  /\ Loop!LoseCommit(e)
           /\ InDoubt' = InDoubt \cup {e}
           /\ UNCHANGED <<Stored, horizon>>
<1>1. /\ txn[Protocol] # Store!Idle
      /\ late' = late \cup {txn[Protocol]}
      /\ UNCHANGED <<rows, horizon>>
  BY DEF CommitLost, Store!LoseCommit, Store!ReadyToCommit
<1>2. txn[Protocol].round = Round[e] /\ ~Loop!Refuses(e)
  BY <1>1, AttemptOpen
<1>3. InDoubt' = InDoubt \cup {e}
  BY <1>1, <1>2, LoopAssumption DEF InDoubt, Loop!OneRootPerRound
<1>4. Loop!Cardinality(unacknowledged) < MaxUnacknowledged
  BY DEF CommitLost, Cardinality, Loop!Cardinality
<1>5. Stored' = Stored
  BY <1>1 DEF Stored, Store!HasRoot, Store!RowsOf
<1> QED BY <1>1, <1>2, <1>3, <1>4, <1>5 DEF Loop!LoseCommit

\* What the loop sees of the tables is in their rows and late COMMITs.
LEMMA SameTables ==
    ASSUME UNCHANGED <<rows, late>>
    PROVE  UNCHANGED <<Stored, InDoubt>>
  BY DEF Stored, InDoubt, Store!HasRoot, Store!RowsOf

\* An attempt that leaves nothing changes nothing that the loop sees.
LEMMA NothingStoredTables ==
    ASSUME NothingStored
    PROVE  UNCHANGED <<Stored, InDoubt, horizon>>
<1>1. UNCHANGED <<rows, late, horizon>>
  BY DEF NothingStored, storeVars, Store!Rollback
<1> QED BY <1>1, SameTables

-----------------------------------------------------------------------------
(* Every step is a step of the tables                                      *)

\* A step of the system is one of ProtocolStore or leaves the tables alone.
LEMMA StoreSimulates ==
    ASSUME [Next]_systemVars
    PROVE  [StoreP!Next]_(StoreP!vars)
<1>1. ASSUME UNCHANGED storeVars
      PROVE  UNCHANGED StoreP!vars
  BY <1>1 DEF storeVars, StoreP!vars
<1>2. ASSUME \/ Store!Begin(Protocol) \/ Store!BulkCreate(Protocol)
             \/ Store!Commit(Protocol) \/ Store!Rollback(Protocol)
             \/ Store!LoseCommit(Protocol)
      PROVE  StoreP!Next
  BY <1>2, SameStoreActions DEF StoreP!Next, StoreP!StoreNext, StoreP!Ingest
<1>3. ASSUME NothingStored \/ CommitLost
      PROVE  StoreP!Next \/ UNCHANGED StoreP!vars
  BY <1>1, <1>2, <1>3 DEF NothingStored, CommitLost
<1>4. CASE Run
  BY <1>1, <1>4 DEF Run
<1>5. CASE BeginProcess
  BY <1>2, <1>5 DEF BeginProcess
<1>6. CASE InsertData
  BY <1>2, <1>6 DEF InsertData
<1>7. CASE ProcessReturns
  BY <1>2, <1>7 DEF ProcessReturns
<1>8. CASE ProcessRaises
  BY <1>3, <1>8 DEF ProcessRaises
<1>9. CASE Crash
  BY <1>3, <1>9 DEF Crash
<1>10. CASE LateCommit
  BY <1>10, SameStoreActions DEF LateCommit, StoreP!Next, StoreP!StoreNext
<1>11. CASE DropHistory
  BY <1>11, SameStoreActions
     DEF DropHistory, Store!Deleter, StoreP!Deleter, StoreP!Next, StoreP!StoreNext
<1>12. CASE NextRound
  BY <1>12, SameStoreActions DEF NextRound, StoreP!Next, StoreP!StoreNext
<1>13. CASE NewBlock
  BY <1>1, <1>13 DEF NewBlock
<1>14. CASE UNCHANGED systemVars
  BY <1>1, <1>14 DEF systemVars
<1> QED BY <1>4, <1>5, <1>6, <1>7, <1>8, <1>9, <1>10, <1>11, <1>12, <1>13,
           <1>14 DEF Next

-----------------------------------------------------------------------------
(* ... and of the loop                                                     *)

\* A COMMIT of which the process learns is Processor.process as one step.
LEMMA ReturnsIsProcess ==
    ASSUME IInv, ProcessReturns
    PROVE  Loop!ProcessEvent \/ Loop!RetryEvent
<1>1. PICK e \in Own : /\ Loop!InProcess(e)
                       /\ Returned(e)
                       /\ published' = published \cup {e}
  BY DEF ProcessReturns
<1>2. /\ txn[Protocol] # Store!Idle
      /\ txn[Protocol].done = Len(Store!Inserts[Protocol])
      /\ rows' = rows \cup Store!Inserted(txn[Protocol])
      /\ UNCHANGED <<late, horizon>>
  BY DEF ProcessReturns, Store!Commit, Store!ReadyToCommit
<1>3. txn[Protocol].round = Round[e] /\ ~Loop!Refuses(e)
  BY <1>1, <1>2, AttemptOpen
<1>4. Stored' = Stored \cup {e}
  <2>1. txn[Protocol] \in Store!Transaction /\ txn[Protocol].protocol = Protocol
    BY <1>2, TxnTypes DEF IInv
  <2> QED BY <1>2, <1>3, <2>1, InsertedRoot
<1>5. InDoubt' = InDoubt
  BY <1>2 DEF InDoubt
<1>6. Loop!Process(e)
  BY <1>1, <1>2, <1>3, <1>4, <1>5 DEF Loop!Process, ProcessReturns, Returned
<1>7. UNCHANGED <<head, pc, start, height, abandoned, crashes>>
  BY DEF ProcessReturns
<1>8. CASE pc = "scan"
  <2>1. /\ e \in events \cap Own /\ Loop!IsNextEvent(e)
        /\ events' = events \ {e} /\ UNCHANGED retry_queue
    BY <1>1, <1>8 DEF Loop!InProcess, Returned
  <2> QED BY <1>6, <1>7, <1>8, <2>1 DEF Loop!ProcessEvent
<1>9. CASE pc = "retry"
  <2>1. /\ retry_queue # <<>> /\ Loop!Due(Head(retry_queue))
        /\ e = Head(retry_queue).event
        /\ retry_queue' = Tail(retry_queue) /\ UNCHANGED events
    BY <1>1, <1>9 DEF Loop!InProcess, Returned
  <2> QED BY <1>6, <1>7, <1>9, <2>1 DEF Loop!RetryEvent
<1> QED BY <1>1, <1>8, <1>9 DEF Loop!InProcess

\* Every way in which an attempt fails is one that the loop reckons with.
LEMMA RaisesIsProcessFails ==
    ASSUME IInv, ProcessRaises
    PROVE  Loop!ProcessEvent \/ Loop!RetryEvent
<1>1. PICK e \in Own :
          /\ Loop!InProcess(e)
          /\ Raised(e)
          /\ \/ NothingStored /\ UNCHANGED unacknowledged
             \/ CommitLost /\ unacknowledged' = unacknowledged \cup {e}
  BY DEF ProcessRaises
<1>2. Loop!ProcessFails(e)
  <2>1. /\ failures' = [failures EXCEPT ![e] = @ + 1]
        /\ published' = published
    BY <1>1 DEF Raised, ProcessRaises
  <2>2. CASE NothingStored /\ UNCHANGED unacknowledged
    BY <2>1, <2>2, NothingStoredTables DEF Loop!ProcessFails
  <2>3. CASE CommitLost /\ unacknowledged' = unacknowledged \cup {e}
    BY <1>1, <2>1, <2>3, CommitLostIsLoseCommit DEF Loop!ProcessFails
  <2> QED BY <1>1, <2>2, <2>3
<1>3. UNCHANGED <<head, pc, start, height, abandoned, crashes>>
  BY DEF ProcessRaises
<1>4. CASE pc = "scan"
  <2>1. /\ e \in events \cap Own /\ Loop!IsNextEvent(e)
        /\ events' = events \ {e}
        /\ retry_queue' = Append(retry_queue, Loop!Retry(e, 1))
        /\ UNCHANGED dropped
    BY <1>1, <1>4 DEF Loop!InProcess, Raised
  <2> QED BY <1>2, <1>3, <1>4, <2>1 DEF Loop!ProcessEvent
<1>5. CASE pc = "retry"
  <2>1. /\ retry_queue # <<>> /\ Loop!Due(Head(retry_queue))
        /\ e = Head(retry_queue).event
        /\ UNCHANGED events
        /\ \/ /\ Loop!RetriesLeft(Head(retry_queue).retry)
              /\ retry_queue' = Loop!Requeued(e, Head(retry_queue).retry)
              /\ UNCHANGED dropped
           \/ /\ ~Loop!RetriesLeft(Head(retry_queue).retry)
              /\ retry_queue' = Tail(retry_queue)
              /\ dropped' = dropped \cup {e}
    BY <1>1, <1>5 DEF Loop!InProcess, Raised
  <2> QED BY <1>2, <1>3, <1>5, <2>1 DEF Loop!RetryEvent
<1> QED BY <1>1, <1>4, <1>5 DEF Loop!InProcess

\* A process that dies leaves at most a COMMIT that the loop reckons with.
LEMMA CrashIsCrash ==
    ASSUME IInv, Crash
    PROVE  Loop!Crash
<1>1. /\ UNCHANGED <<Stored, horizon>>
      /\ \/ UNCHANGED InDoubt
         \/ \E e \in Own : Loop!InProcess(e) /\ Loop!LoseCommit(e)
  <2>1. CASE NothingStored
    BY <2>1, NothingStoredTables
  <2>2. CASE CommitLost
    <3>1. txn[Protocol] # Store!Idle
      BY <2>2 DEF CommitLost, Store!LoseCommit, Store!ReadyToCommit
    <3>2. PICK e \in Own : Loop!InProcess(e)
      BY <3>1 DEF IInv, OneAttempt
    <3> QED BY <2>2, <3>2, CommitLostIsLoseCommit
  <2> QED BY <2>1, <2>2 DEF Crash
<1> QED BY <1>1 DEF Crash, Loop!Crash

\* The COMMIT whose outcome comes is of a message, and of no other.
LEMMA LateIsLate ==
    ASSUME IInv, LateCommit
    PROVE  Loop!LateCommit
<1>1. PICK x \in late : late' = late \ {x} /\ rows' \in {rows, rows \cup Store!Inserted(x)}
  BY DEF LateCommit, Store!LateCommit
<1>2. PICK e \in Own : x.round = Round[e]
  BY DEF IInv, LateOwn
<1>3. e \in InDoubt /\ e \notin Stored
  <2>1. e \in InDoubt
    BY <1>2 DEF InDoubt
  <2>2. ~Store!HasRoot(Protocol, x.round)
    <3>1. x \in StoreP!Open /\ x.protocol = Protocol
      BY TxnTypes DEF IInv, StoreP!Open, StoreP!Idle, Store!Transaction, Store!Idle
    <3> QED BY <3>1 DEF IInv, StoreP!IInv, StoreP!OpenIsNew, Store!HasRoot, Store!RowsOf
  <2> QED BY <1>2, <2>1, <2>2 DEF Stored
<1>4. InDoubt' = InDoubt \ {e}
  <2>1. \A y \in late : y.round = x.round => y = x
    BY OpenTransaction DEF IInv
  <2>2. \A f \in Own : Round[f] = x.round => f = e
    BY <1>2, LoopAssumption DEF Loop!OneRootPerRound
  <2>3. \A f \in Own \ {e} : f \in InDoubt => f \in InDoubt'
    BY <1>1, <1>2, <2>2 DEF InDoubt
  <2>4. e \notin InDoubt' /\ InDoubt' \subseteq InDoubt
    BY <1>1, <1>2, <2>1 DEF InDoubt
  <2>5. InDoubt \subseteq Own
    BY DEF InDoubt
  <2> QED BY <2>3, <2>4, <2>5
<1>5. /\ UNCHANGED <<head, horizon, pc, start, height, events, retry_queue,
                     failures, dropped, abandoned, crashes>>
      /\ published' = published \cup (Stored' \ Stored)
      /\ unacknowledged' = unacknowledged \ (InDoubt \ (InDoubt' \cup Stored'))
  BY DEF LateCommit, Store!LateCommit
<1>6. CASE rows' = rows
  <2>1. Stored' = Stored
    BY <1>6 DEF Stored, Store!HasRoot, Store!RowsOf
  <2>2. unacknowledged' = unacknowledged \ {e}
    BY <1>3, <1>4, <1>5, <2>1
  <2>3. published' = published
    BY <1>3, <1>5, <2>1
  <2> QED BY <1>3, <1>4, <1>5, <2>1, <2>2, <2>3 DEF Loop!LateCommit
<1>7. CASE rows' = rows \cup Store!Inserted(x)
  <2>1. Stored' = Stored \cup {e}
    BY <1>2, <1>7, TxnTypes, InsertedRoot DEF IInv
  <2>2. unacknowledged' = unacknowledged
    BY <1>3, <1>4, <1>5, <2>1
  <2>3. published' = published \cup {e}
    BY <1>3, <1>5, <2>1
  <2> QED BY <1>3, <1>4, <1>5, <2>1, <2>2, <2>3 DEF Loop!LateCommit
<1> QED BY <1>1, <1>6, <1>7

\* delete_history drops roots behind its cutoff and no others.
LEMMA DropIsDelete ==
    ASSUME IInv, DropHistory
    PROVE  Loop!DeleteHistory \/ UNCHANGED Loop!vars
<1>1. CASE Store!WakeDeleter \/ Store!Delete \/ Store!CrashDeleter
  <2>1. UNCHANGED <<rows, late, horizon>> /\ UNCHANGED loopVars
    BY <1>1 DEF DropHistory, Store!WakeDeleter, Store!Delete, Store!CrashDeleter
  <2> QED BY <2>1, SameTables DEF loopVars, Loop!vars
<1>2. CASE Store!CommitDelete
  <2>1. /\ rows' = rows \ doomed /\ horizon' = cutoff /\ stmt = 5
        /\ UNCHANGED late /\ UNCHANGED loopVars
    BY <1>2 DEF DropHistory, Store!CommitDelete, Store!DeleteOrder
  <2>2. /\ cutoff \in Store!Rounds /\ cutoff >= horizon
        /\ \A row \in doomed : row.round < cutoff
    <3>1. cutoff \in Store!Rounds /\ horizon \in Store!Rounds
      BY DEF IInv, StoreP!IInv, StoreP!TypeOK, StoreP!Rounds, Store!Rounds
    <3>2. horizon <= cutoff
      BY <2>1 DEF IInv, StoreP!IInv, StoreP!HorizonBehind
    <3>3. \A row \in doomed : row.round < cutoff
      BY DEF IInv, StoreP!IInv, StoreP!DoomedOld
    <3> QED BY <3>1, <3>2, <3>3 DEF Store!Rounds
  <2> DEFINE gone == Stored \ Stored'
  <2>3. Stored' = Stored \ gone
    <3>1. Stored' \subseteq Stored
      BY <2>1 DEF Stored, Store!HasRoot, Store!RowsOf
    <3> QED BY <3>1
  <2>4. gone \subseteq Loop!Expired(cutoff)
    <3> SUFFICES ASSUME NEW e \in Stored, e \notin Stored'
                 PROVE  Round[e] < cutoff
      BY DEF Loop!Expired
    <3>1. e \in Own
      BY DEF Stored
    <3>2. PICK row \in rows : /\ row.protocol = Protocol /\ row.table = "root"
                              /\ row.round = Round[e]
      BY DEF Stored, Store!HasRoot, Store!RowsOf
    <3>3. row \in doomed
      BY <2>1, <3>1, <3>2 DEF Stored, Store!HasRoot, Store!RowsOf
    <3> QED BY <2>2, <3>2, <3>3
  <2>5. InDoubt' = InDoubt
    BY <2>1 DEF InDoubt
  <2>6. UNCHANGED <<InDoubt, head, pc, start, height, events, retry_queue,
                    failures, unacknowledged, published, dropped, abandoned,
                    crashes>>
    BY <2>1, <2>5 DEF loopVars
  <2> QED BY <2>1, <2>2, <2>3, <2>4, <2>6 DEF Loop!DeleteHistory
<1> QED BY <1>1, <1>2 DEF DropHistory, Store!Deleter

\* A step of the system is one of DataProcessor, or none that it tells apart.
LEMMA LoopSimulates ==
    ASSUME IInv, [Next]_systemVars
    PROVE  [Loop!Next]_(Loop!vars)
<1>1. ASSUME UNCHANGED <<rows, late, horizon>>, UNCHANGED loopVars
      PROVE  UNCHANGED Loop!vars
  BY <1>1, SameTables DEF loopVars, Loop!vars
<1>2. CASE Run
  BY <1>2 DEF Run, Loop!Next, Loop!Step
<1>3. CASE BeginProcess
  BY <1>1, <1>3 DEF BeginProcess, Store!Begin
<1>4. CASE InsertData
  BY <1>1, <1>4 DEF InsertData, Store!BulkCreate
<1>5. CASE ProcessReturns
  BY <1>5, ReturnsIsProcess DEF Loop!Next, Loop!Step
<1>6. CASE ProcessRaises
  BY <1>6, RaisesIsProcessFails DEF Loop!Next, Loop!Step
<1>7. CASE Crash
  BY <1>7, CrashIsCrash DEF Loop!Next
<1>8. CASE LateCommit
  BY <1>8, LateIsLate DEF Loop!Next
<1>9. CASE DropHistory
  BY <1>9, DropIsDelete DEF Loop!Next
<1>10. CASE NextRound
  BY <1>1, <1>10 DEF NextRound, Store!NextRound
<1>11. CASE NewBlock
  BY <1>11 DEF NewBlock, Loop!Next
<1>12. CASE UNCHANGED systemVars
  BY <1>1, <1>12 DEF systemVars, storeVars
<1> QED BY <1>2, <1>3, <1>4, <1>5, <1>6, <1>7, <1>8, <1>9, <1>10, <1>11,
           <1>12 DEF Next

-----------------------------------------------------------------------------
(* The invariant                                                           *)

\* While a message is in process, run() does nothing else.
LEMMA RunWaits ==
    ASSUME IInv, Run, NEW e \in Own, Loop!InProcess(e)
    PROVE  Loop!InProcess(e)'
<1>1. events \in SUBSET Log /\ retry_queue \in Seq(Loop!ProcessingRetry)
  BY LoopTypes DEF IInv
<1>2. CASE pc = "scan"
  <2>1. e \in events \cap Own /\ Loop!IsNextEvent(e)
    BY <1>2 DEF Loop!InProcess
  <2>2. ~Loop!SkipForeignEvent
    <3> SUFFICES ASSUME NEW f \in events \ Own, Loop!IsNextEvent(f) PROVE FALSE
      BY DEF Loop!SkipForeignEvent
    <3>1. e <= f /\ f <= e /\ e \in Nat /\ f \in Nat
      BY <1>1, <2>1, LoopAssumption DEF Loop!IsNextEvent, Loop!ChainAssumption
    <3> QED BY <2>1, <3>1
  <2>3. Loop!Tick
    BY <1>2, <2>1, <2>2
       DEF Run, Loop!Boot, Loop!Poll, Loop!PollUpToDate, Loop!PollPastLastLog,
           Loop!GetLogs, Loop!ScanDone, Loop!RetryQueueEmpty, Loop!RetryNotDue
  <2>4. UNCHANGED <<pc, events>>
    BY <2>3 DEF Loop!Tick
  <2> QED BY <1>2, <2>1, <2>4 DEF Loop!InProcess, Loop!IsNextEvent
<1>3. CASE pc = "retry"
  <2>1. /\ retry_queue # <<>> /\ Loop!Due(Head(retry_queue))
        /\ e = Head(retry_queue).event
    BY <1>3 DEF Loop!InProcess
  <2>2. Loop!Tick
    BY <1>3, <2>1
       DEF Run, Loop!Boot, Loop!Poll, Loop!PollUpToDate, Loop!PollPastLastLog,
           Loop!GetLogs, Loop!ScanDone, Loop!RetryQueueEmpty, Loop!RetryNotDue,
           Loop!SkipForeignEvent
  <2>3. /\ 1 \in DOMAIN retry_queue
        /\ Head(retry_queue) = retry_queue[1]
        /\ Head(retry_queue) \in Loop!ProcessingRetry
        /\ Len(retry_queue) \in Nat \ {0}
        /\ DOMAIN retry_queue = 1 .. Len(retry_queue)
    BY <1>1, <2>1
  <2>4. /\ retry_queue' = [i \in DOMAIN retry_queue |-> Loop!Older(retry_queue[i])]
        /\ pc' = pc
    BY <2>2 DEF Loop!Tick
  <2>5. /\ Loop!Older(Head(retry_queue)).event = e
        /\ Loop!Due(Loop!Older(Head(retry_queue)))
    BY <2>1, <2>3 DEF Loop!Older, Loop!Due, Loop!ProcessingRetry
  <2>6. retry_queue' # <<>> /\ Head(retry_queue') = Loop!Older(Head(retry_queue))
    <3>1. retry_queue' \in Seq({Loop!Older(retry_queue[i]) : i \in DOMAIN retry_queue})
      BY <2>3, <2>4
    <3>2. retry_queue'[1] = Loop!Older(Head(retry_queue)) /\ 1 \in DOMAIN retry_queue'
      BY <2>3, <2>4
    <3> QED BY <3>1, <3>2
  <2> QED BY <1>3, <2>4, <2>5, <2>6 DEF Loop!InProcess, Loop!Due
<1> QED BY <1>2, <1>3 DEF Loop!InProcess

\* No step leaves a transaction open that is not of the message in process.
LEMMA OneAttemptStep ==
    ASSUME IInv, [Next]_systemVars
    PROVE  OneAttempt'
<1>1. ASSUME UNCHANGED <<txn, pc, events, retry_queue>>
      PROVE  OneAttempt'
  BY <1>1 DEF IInv, OneAttempt, Loop!InProcess, Loop!IsNextEvent, Loop!Due
<1>2. ASSUME txn'[Protocol] = Store!Idle
      PROVE  OneAttempt'
  BY <1>2 DEF OneAttempt, Store!Idle
<1>3. ASSUME NothingStored \/ CommitLost
      PROVE  OneAttempt'
  <2>1. txn \in [{Protocol} -> Store!Transaction \cup {Store!Idle}]
    BY TxnTypes DEF IInv
  <2>2. txn'[Protocol] = Store!Idle
    BY <1>3, <2>1
       DEF NothingStored, CommitLost, storeVars, Store!Rollback, Store!LoseCommit
  <2> QED BY <1>2, <2>2
<1>4. CASE Run
  <2>1. UNCHANGED txn
    BY <1>4 DEF Run, storeVars
  <2>2. SUFFICES ASSUME txn[Protocol] # Store!Idle
                 PROVE  OneAttempt'
    BY <2>1 DEF OneAttempt, Store!Idle
  <2>3. PICK e \in Own : Loop!InProcess(e) /\ txn[Protocol].round = Round[e]
    BY <2>2 DEF IInv, OneAttempt
  <2>4. Loop!InProcess(e)'
    BY <1>4, <2>3, RunWaits
  <2> QED BY <2>1, <2>3, <2>4 DEF OneAttempt
<1>5. CASE BeginProcess
  <2>1. PICK e \in Own : Loop!InProcess(e) /\ txn'[Protocol].round = Round[e]
    BY <1>5 DEF BeginProcess
  <2>2. UNCHANGED <<pc, events, retry_queue>>
    BY <1>5 DEF BeginProcess, loopVars
  <2> QED BY <2>1, <2>2
          DEF OneAttempt, Loop!InProcess, Loop!IsNextEvent, Loop!Due
<1>6. CASE InsertData
  <2>1. /\ txn[Protocol] # Store!Idle
        /\ txn' = [txn EXCEPT ![Protocol].done = @ + 1]
        /\ UNCHANGED <<pc, events, retry_queue>>
    BY <1>6 DEF InsertData, Store!BulkCreate, loopVars
  <2>2. txn[Protocol] \in Store!Transaction /\ DOMAIN txn = {Protocol}
    BY <2>1, TxnTypes DEF IInv
  <2>3. txn'[Protocol].round = txn[Protocol].round
    BY <2>1, <2>2 DEF Store!Transaction
  <2> QED BY <2>1, <2>3
          DEF IInv, OneAttempt, Loop!InProcess, Loop!IsNextEvent, Loop!Due
<1>7. CASE ProcessReturns
  <2>1. txn \in [{Protocol} -> Store!Transaction \cup {Store!Idle}]
    BY TxnTypes DEF IInv
  <2>2. txn'[Protocol] = Store!Idle
    BY <1>7, <2>1 DEF ProcessReturns, Store!Commit
  <2> QED BY <1>2, <2>2
<1>8. CASE ProcessRaises
  BY <1>3, <1>8 DEF ProcessRaises
<1>9. CASE Crash
  BY <1>3, <1>9 DEF Crash
<1>10. CASE LateCommit
  BY <1>1, <1>10 DEF LateCommit, Store!LateCommit
<1>11. CASE DropHistory
  BY <1>1, <1>11
     DEF DropHistory, Store!Deleter, Store!WakeDeleter, Store!Delete,
         Store!CommitDelete, Store!CrashDeleter, loopVars
<1>12. CASE NextRound
  BY <1>1, <1>12 DEF NextRound, Store!NextRound, loopVars
<1>13. CASE NewBlock
  BY <1>1, <1>13 DEF NewBlock, Loop!NewBlock, storeVars
<1>14. CASE UNCHANGED systemVars
  BY <1>1, <1>14 DEF systemVars, loopVars, storeVars
<1> QED BY <1>4, <1>5, <1>6, <1>7, <1>8, <1>9, <1>10, <1>11, <1>12, <1>13,
           <1>14 DEF Next

\* COMMITs on their way stay those of messages.
LEMMA LateOwnStep ==
    ASSUME IInv, [Next]_systemVars
    PROVE  LateOwn'
<1>1. ASSUME late' \subseteq late
      PROVE  LateOwn'
  BY <1>1 DEF IInv, LateOwn
<1>2. ASSUME NothingStored \/ CommitLost
      PROVE  LateOwn'
  <2>1. CASE NothingStored
    BY <1>1, <2>1 DEF NothingStored, storeVars, Store!Rollback
  <2>2. CASE CommitLost
    <3>1. txn[Protocol] # Store!Idle /\ late' = late \cup {txn[Protocol]}
      BY <2>2 DEF CommitLost, Store!LoseCommit, Store!ReadyToCommit
    <3>2. \E e \in Own : txn[Protocol].round = Round[e]
      BY <3>1 DEF IInv, OneAttempt
    <3> QED BY <3>1, <3>2 DEF IInv, LateOwn
  <2> QED BY <1>2, <2>1, <2>2
<1>3. CASE ProcessRaises
  BY <1>2, <1>3 DEF ProcessRaises
<1>4. CASE Crash
  BY <1>2, <1>4 DEF Crash
<1>5. CASE LateCommit
  BY <1>1, <1>5 DEF LateCommit, Store!LateCommit
<1>6. CASE Run \/ NewBlock \/ UNCHANGED systemVars
  BY <1>1, <1>6 DEF Run, NewBlock, systemVars, storeVars
<1>7. CASE BeginProcess \/ InsertData \/ ProcessReturns
  BY <1>1, <1>7
     DEF BeginProcess, InsertData, ProcessReturns, Store!Begin,
         Store!BulkCreate, Store!Commit
<1>8. CASE DropHistory \/ NextRound
  BY <1>1, <1>8
     DEF DropHistory, NextRound, Store!Deleter, Store!WakeDeleter,
         Store!Delete, Store!CommitDelete, Store!CrashDeleter, Store!NextRound
<1> QED BY <1>3, <1>4, <1>5, <1>6, <1>7, <1>8 DEF Next

\* The parts start as they do alone.
LEMMA SameInit ==
    ASSUME Init
    PROVE  LoopP!Init /\ StoreP!Init
<1>1. StoreP!Init
  BY DEF Init, Store!Init, StoreP!Init, Store!Idle, StoreP!Idle,
         Store!NoRequest, StoreP!NoRequest
<1>2. LoopP!Init
  BY DEF Init, Loop!Init, LoopP!Init
<1> QED BY <1>1, <1>2

\* The steps of the loop are the steps that keep its invariant.
LEMMA SameLoopNext == [Loop!Next]_(Loop!vars) => [LoopP!Next]_(LoopP!vars)
<1>1. Loop!Next => LoopP!Next
  BY SameLoopActions DEF Loop!Next, Loop!Step, LoopP!Next, LoopP!Step
<1>2. LoopP!vars = Loop!vars
  BY DEF LoopP!vars, Loop!vars
<1> QED BY <1>1, <1>2 DEF LoopP!vars, Loop!vars

\* The invariants of both parts hold of the system.
LEMMA InvariantHolds == Spec => []IInv
<1>1. Init => IInv
  <2> SUFFICES ASSUME Init PROVE IInv
    OBVIOUS
  <2>1. late = {} /\ txn[Protocol] = Store!Idle
    BY DEF Init, Store!Init
  <2> QED BY <2>1, SameInit, LoopStart, StoreStart DEF IInv, OneAttempt, LateOwn
<1>2. IInv /\ [Next]_systemVars => IInv'
  <2> SUFFICES ASSUME IInv, [Next]_systemVars PROVE IInv'
    OBVIOUS
  <2>1. LoopP!IInv'
    BY LoopSimulates, SameLoopNext, LoopStep DEF IInv
  <2>2. StoreP!IInv'
    BY StoreSimulates, StoreStep DEF IInv
  <2> QED BY <2>1, <2>2, OneAttemptStep, LateOwnStep DEF IInv
<1> QED BY <1>1, <1>2, PTL DEF Spec

-----------------------------------------------------------------------------
(* The theorems                                                            *)

\* A process has one transaction open, and it is of the message that run() is
\* processing, in every interleaving with crashes, lost COMMITs and deletion.
THEOREM AttemptsDoNotOverlap == Spec => []OneAttempt
<1>1. IInv => OneAttempt
  BY DEF IInv
<1> QED BY <1>1, InvariantHolds, PTL

\* Processor.process, statement by statement in the database and beside
\* delete_history, is the one step that DataProcessor takes it for: committed
\* or raised, or raised and committed later.
THEOREM SystemImplementsLoop == Spec => LoopImplemented
<1>1. Init => Loop!Init
  BY DEF Init
<1>2. IInv /\ [Next]_systemVars => [Loop!Next]_(Loop!vars)
  BY LoopSimulates
<1> QED BY <1>1, <1>2, InvariantHolds, PTL DEF Spec, LoopImplemented, Loop!Spec

\* Every message that run() has passed is in the tables once and with all its
\* data while its round is within the history, unless it is pending, given up
\* or left behind.
THEOREM PassedMessagesAreStored == Spec => []PassedIsStored
<1>1. IInv => PassedIsStored
  <2> SUFFICES ASSUME IInv, pc # "down",
                      NEW e \in Own, Block[e] < start, Store!Live(Round[e]),
                      e \notin Loop!Pending \cup dropped \cup abandoned,
                      NEW t \in {"root"} \cup Store!DataTables(Protocol)
               PROVE  Cardinality(Store!RowsOf(Protocol, t, Round[e])) = 1
    BY DEF PassedIsStored
  <2>1. LoopP!Pending = Loop!Pending
    BY DEF LoopP!Pending, Loop!Pending, LoopP!Queued, Loop!Queued,
           LoopP!EventsOf, Loop!EventsOf
  <2>2. e \in published
    BY <2>1 DEF IInv, LoopP!IInv, LoopP!NothingSkipped
  <2>3. horizon \in Nat /\ Round[e] \in Nat /\ Round[e] >= horizon
    BY LoopTypes, LoopAssumption DEF IInv, Loop!ChainAssumption, Store!Live
  <2>4. e \in Stored
    BY <2>2, <2>3 DEF IInv, LoopP!IInv, LoopP!StoredUntilExpired
  <2>5. PICK root \in rows : /\ root.protocol = Protocol /\ root.table = "root"
                             /\ root.round = Round[e]
    BY <2>4 DEF Stored, Store!HasRoot, Store!RowsOf
  <2>6. PICK row \in rows : /\ row.protocol = Protocol /\ row.table = t
                            /\ row.round = Round[e]
    <3>1. CASE t = "root"
      BY <2>5, <3>1
    <3>2. CASE t \in Store!DataTables(Protocol)
      <4>1. StoreP!DataTables(Protocol) = Store!DataTables(Protocol)
        BY DEF StoreP!DataTables, Store!DataTables, StoreP!Inserts, Store!Inserts
      <4>2. StoreP!RootHasData
        BY StoreP!RootHasDataHolds, StoreAssumption
           DEF IInv, Store!ProtocolsAssumption, Store!HistoryAssumption
      <4>3. StoreP!RowsOf(Protocol, t, Round[e]) # {}
        BY <2>5, <3>2, <4>1, <4>2 DEF StoreP!RootHasData
      <4> QED BY <4>3 DEF StoreP!RowsOf
    <3> QED BY <3>1, <3>2
  <2>7. StoreP!RowsOf(Protocol, t, Round[e]) = {row}
    BY <2>3, <2>6 DEF IInv, StoreP!IInv, StoreP!LiveDataOnce, StoreP!Live
  <2>8. Store!RowsOf(Protocol, t, Round[e]) = {row}
    BY <2>7 DEF StoreP!RowsOf, Store!RowsOf
  <2> QED BY <2>8, FS_Singleton
<1> QED BY <1>1, InvariantHolds, PTL

=============================================================================
