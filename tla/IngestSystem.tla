---------------------------- MODULE IngestSystem ----------------------------
(***************************************************************************)
(* The ingest loop of one protocol (DataProcessor) on the tables of the    *)
(* database (ProtocolStore), which delete_history cleans meanwhile.  The   *)
(* loop decides what is processed and when; the transaction of             *)
(* Processor.process, which DataProcessor takes as one step, is the one of *)
(* ProtocolStore, statement by statement.                                  *)
(*                                                                         *)
(* The steps of the loop outside processor.process are those of            *)
(* DataProcessor, the statements those of ProtocolStore.  What an attempt  *)
(* means for the loop is stated here again, without a word about rows:     *)
(* that both together are steps of DataProcessor is LoopImplemented.       *)
(*                                                                         *)
(* Left out: the other protocol, which shares nothing with this one but    *)
(* delete_history, and the views, which only read.                         *)
(***************************************************************************)
EXTENDS Integers, Sequences, FiniteSets

CONSTANTS
    Protocol,              \* "ftso" or "fdc"
    Log, Own, Block, Round, StartHeight, Unset, BatchSize, RetryDelay,
    MaxRetry, MaxHeight, MaxUnacknowledged, MaxCrashes,   \* of DataProcessor
    History, MaxRound, MaxLate, MaxDeleterCrashes         \* of ProtocolStore

VARIABLES
    head, pc, start, height, events, retry_queue, failures, unacknowledged,
    published, dropped, abandoned, crashes,               \* of DataProcessor
    now, rows, txn, late, stmt, cutoff, doomed, horizon,
    deleter_crashes                                       \* of ProtocolStore

loopVars == <<head, pc, start, height, events, retry_queue, failures,
              unacknowledged, published, dropped, abandoned, crashes>>

storeVars == <<now, rows, txn, late, stmt, cutoff, doomed, horizon,
               deleter_crashes>>

systemVars == <<loopVars, storeVars>>

Store == INSTANCE ProtocolStore WITH
    Protocols <- {Protocol},
    MaxCrashes <- MaxDeleterCrashes,
    crashes <- deleter_crashes,
    request <- [step |-> "none", endpoint |-> "names", round |-> 0, read |-> 0,
                tree |-> {}, data |-> {}, had_root |-> FALSE, status |-> 0]

\* The messages whose root is in fsp_protocolmessagerelayed.
Stored == {e \in Own : Store!HasRoot(Protocol, Round[e])}

\* Those whose COMMIT is on its way without their process.
InDoubt == {e \in Own : \E x \in late : x.round = Round[e]}

Loop == INSTANCE DataProcessor WITH
    Cutoffs <- Store!Rounds,
    stored <- Stored,
    late <- InDoubt,
    cutoff <- horizon

ASSUME StoreAssumption == Store!ProtocolsAssumption /\ Store!HistoryAssumption

ASSUME LoopAssumption ==
    Loop!ChainAssumption /\ Loop!OneRootPerRound /\ Loop!ConfigAssumption

\* The bound on rounds lets the rounds of all messages end.
ASSUME RoundAssumption == \A e \in Own : Round[e] \in 0 .. MaxRound - 1

\* The Relay contract finalises a round when it is over.
Finalised == \A e \in Own : Block[e] <= head => Round[e] < now

Init ==
    /\ Store!Init
    /\ Loop!Init
    /\ Finalised

-----------------------------------------------------------------------------
(* run() outside processor.process: it reads the last block at its start   *)

Run ==
    /\ UNCHANGED storeVars
    /\ \/ Loop!Boot
       \/ Loop!Poll
       \/ Loop!PollUpToDate
       \/ Loop!PollPastLastLog
       \/ Loop!GetLogs
       \/ Loop!ScanDone
       \/ Loop!SkipForeignEvent
       \/ Loop!RetryQueueEmpty
       \/ Loop!RetryNotDue
       \/ Loop!Tick

-----------------------------------------------------------------------------
(* processor.process(e), and how run() takes its outcome                   *)

\* No transaction, or one that is rolled back.
NothingStored ==
    \/ txn[Protocol] = Store!Idle /\ UNCHANGED storeVars
    \/ Store!Rollback(Protocol)

\* COMMIT is sent, and nobody will learn of its outcome.
CommitLost ==
    /\ Cardinality(unacknowledged) < MaxUnacknowledged
    /\ Store!LoseCommit(Protocol)

\* A right tree is fetched, and the transaction begins with the root.
BeginProcess ==
    /\ \E e \in Own :
          /\ Loop!InProcess(e)
          /\ Store!Begin(Protocol)
          /\ txn'[Protocol].round = Round[e]
    /\ UNCHANGED loopVars

InsertData == Store!BulkCreate(Protocol) /\ UNCHANGED loopVars

\* process(e) returns: the message leaves the batch or the queue.
Returned(e) ==
    /\ \/ pc = "scan" /\ events' = events \ {e} /\ UNCHANGED retry_queue
       \/ pc = "retry" /\ retry_queue' = Tail(retry_queue) /\ UNCHANGED events
    /\ UNCHANGED <<failures, dropped>>

\* It raises: the message is queued, queued again or given up.
Raised(e) ==
    /\ failures' = [failures EXCEPT ![e] = @ + 1]
    /\ \/ /\ pc = "scan"
          /\ events' = events \ {e}
          /\ retry_queue' = Append(retry_queue, Loop!Retry(e, 1))
          /\ UNCHANGED dropped
       \/ /\ pc = "retry"
          /\ Loop!RetriesLeft(Head(retry_queue).retry)
          /\ retry_queue' = Loop!Requeued(e, Head(retry_queue).retry)
          /\ UNCHANGED <<events, dropped>>
       \/ /\ pc = "retry"
          /\ ~Loop!RetriesLeft(Head(retry_queue).retry)
          /\ retry_queue' = Tail(retry_queue)
          /\ dropped' = dropped \cup {e}
          /\ UNCHANGED events

ProcessReturns ==
    /\ Store!Commit(Protocol)
    /\ \E e \in Own :
          /\ Loop!InProcess(e)
          /\ Returned(e)
          /\ published' = published \cup {e}
    /\ UNCHANGED <<head, pc, start, height, unacknowledged, abandoned, crashes>>

ProcessRaises ==
    /\ \E e \in Own :
          /\ Loop!InProcess(e)
          /\ Raised(e)
          /\ \/ NothingStored /\ UNCHANGED unacknowledged
             \/ CommitLost /\ unacknowledged' = unacknowledged \cup {e}
    /\ UNCHANGED <<head, pc, start, height, published, abandoned, crashes>>

\* The process dies, in process(e) or elsewhere.
Crash ==
    /\ pc # "down"
    /\ crashes < MaxCrashes
    /\ crashes' = crashes + 1
    /\ pc' = "down"
    /\ start' = 0
    /\ height' = 0
    /\ events' = {}
    /\ retry_queue' = <<>>
    /\ failures' = [e \in Own |-> 0]
    /\ NothingStored \/ CommitLost
    /\ unacknowledged' = InDoubt'
    /\ UNCHANGED <<head, published, dropped, abandoned>>

-----------------------------------------------------------------------------
(* The database, delete_history and the chain                              *)

LateCommit ==
    /\ Store!LateCommit
    /\ published' = published \cup (Stored' \ Stored)
    /\ unacknowledged' = unacknowledged \ (InDoubt \ (InDoubt' \cup Stored'))
    /\ UNCHANGED <<head, pc, start, height, events, retry_queue, failures,
                   dropped, abandoned, crashes>>

DropHistory == (Store!Deleter \/ Store!CrashDeleter) /\ UNCHANGED loopVars

NextRound == Store!NextRound /\ UNCHANGED loopVars

NewBlock == UNCHANGED storeVars /\ Loop!NewBlock /\ Finalised'

-----------------------------------------------------------------------------

Next ==
    \/ Run
    \/ BeginProcess
    \/ InsertData
    \/ ProcessReturns
    \/ ProcessRaises
    \/ Crash
    \/ LateCommit
    \/ DropHistory
    \/ NextRound
    \/ NewBlock

Spec == Init /\ [][Next]_systemVars

\* docker keeps delete_history running, and a DELETE ends.
FairSpec == Spec /\ WF_systemVars(Store!Deleter /\ UNCHANGED loopVars)

-----------------------------------------------------------------------------
(* Properties                                                              *)

\* What run() has passed (its start, main.py:90) and does not give up or leave
\* behind is in the tables with all its data, once, until its round is behind
\* the history: from the log on the chain to the rows that the views answer
\* from.
PassedIsStored ==
    pc # "down" =>
        \A e \in Own : Block[e] < start /\ Store!Live(Round[e]) =>
            \/ e \in Loop!Pending \cup dropped \cup abandoned
            \/ \A t \in {"root"} \cup Store!DataTables(Protocol) :
                  Cardinality(Store!RowsOf(Protocol, t, Round[e])) = 1

\* What DataProcessor takes as one step is what the transaction does, between
\* the statements of delete_history.
LoopImplemented == Loop!Spec

\* Every row that the loop ever stores is eventually deleted, attestations as
\* well as roots, also when its COMMIT arrives late, behind delete_history.
OldRowsGo == Store!OldRowsGo

=============================================================================
