--------------------------- MODULE DataProcessor ---------------------------
(***************************************************************************)
(* DataProcessor.run (src/processing/main.py): the ingest loop of one      *)
(* protocol.  One process follows the chain, turns every                   *)
(* ProtocolMessageRelayed log of its protocol into rows of the database,   *)
(* keeps what it could not process in an in-memory retry queue and, after  *)
(* a crash, is restarted by docker and starts over from the database.      *)
(* delete_history runs beside it and drops old rounds.                     *)
(*                                                                         *)
(* Abstractions                                                            *)
(*  - The chain is fixed in advance: Log is the set of Relay logs, numbered*)
(*    in chain order; Block says in which block a log is; head is how much *)
(*    of the chain exists.  No log is in block MaxHeight or above, and     *)
(*    heights saturate there: MaxHeight stands for itself and for every    *)
(*    later height.  Round is the voting round a message finalises.        *)
(*  - Processor.process is one step.  It commits (root and data in one     *)
(*    transaction) or raises; when the connection breaks while COMMIT is   *)
(*    on its way it raises first, and commits later or not at all.         *)
(*    ProtocolStore looks inside the transaction.                          *)
(*  - A retry keeps its age in ticks instead of its wall-clock time; ages  *)
(*    saturate one tick after they are due.                                *)
(***************************************************************************)
EXTENDS Integers, Sequences, FiniteSets

CONSTANTS
    Log,                   \* every log of the Relay contract, in chain order
    Own,                   \* those relaying a message of this protocol
    Block,                 \* the block of each log
    Round,                 \* the voting round of each log
    StartHeight,           \* INDEXING_DEFAULT_HEIGHT, or Unset
    Unset,
    BatchSize,             \* INDEXING_BATCH_SIZE
    RetryDelay,            \* main.py waits 20 s before a retry
    MaxRetry,              \* main.py gives up after retry 5
    Cutoffs,               \* bound: the rounds delete_history may cut at
    MaxHeight,             \* bound: heights saturate here
    MaxUnacknowledged,     \* bound: COMMITs that a process loses sight of
    MaxCrashes             \* bound: crashes in one behaviour

ASSUME ChainAssumption ==
    /\ Log \subseteq Nat
    /\ Own \subseteq Log
    /\ MaxHeight \in Nat \ {0}
    /\ Block \in [Log -> 1 .. MaxHeight - 1]
    /\ \A e, f \in Log : e <= f => Block[e] <= Block[f]
    /\ Round \in [Log -> Nat]

\* The Relay contract finalises a round of a protocol once.
ASSUME OneRootPerRound == \A e, f \in Own : Round[e] = Round[f] => e = f

ASSUME ConfigAssumption ==
    /\ StartHeight \in (1 .. MaxHeight) \cup {Unset}
    /\ Unset \notin Nat
    /\ BatchSize \in Nat \ {0}
    /\ RetryDelay \in Nat
    /\ MaxRetry \in Nat \ {0}
    /\ Cutoffs \in SUBSET Nat
    /\ MaxUnacknowledged \in Nat
    /\ MaxCrashes \in Nat

VARIABLES
    head,                  \* the chain's latest block
    stored,                \* logs with a row in fsp_protocolmessagerelayed
    late,                  \* those with COMMIT sent and nobody waiting
    cutoff,                \* delete_history has dropped the rounds below it
    pc,                    \* where run() is; "down" after a crash
    start,                 \* run's local: next block to fetch
    height,                \* run's local: the latest block it was told of
    events,                \* what is left of the batch being processed
    retry_queue,           \* the deque of ProcessingRetry
    failures,              \* history: failed attempts since the last boot
    unacknowledged,        \* history: late since the last crash, or before it
                           \* and still late at the crash, and not rolled back
    published,             \* history: every message that was ever stored
    dropped,               \* history: every message given up after retries
    abandoned,             \* history: messages the last boot left behind
    crashes                \* bound

vars == <<head, stored, late, cutoff, pc, start, height, events, retry_queue,
          failures, unacknowledged, published, dropped, abandoned, crashes>>

ProcessingRetry ==
    [event : Own, retry : 1 .. MaxRetry, age : 0 .. RetryDelay + 1]

EventsOf(queue) == {queue[i].event : i \in DOMAIN queue}
Queued == EventsOf(retry_queue)
Pending == (events \cap Own) \cup Queued

TypeOK ==
    /\ head \in 1 .. MaxHeight
    /\ stored \in SUBSET Own
    /\ late \in SUBSET Own
    /\ cutoff \in Nat
    /\ pc \in {"down", "poll", "scan", "retry"}
    /\ start \in 0 .. MaxHeight
    /\ height \in 0 .. MaxHeight
    /\ events \in SUBSET Log
    /\ retry_queue \in Seq(ProcessingRetry)
    /\ failures \in [Own -> Nat]
    /\ unacknowledged \in SUBSET Own
    /\ published \in SUBSET Own
    /\ dropped \in SUBSET Own
    /\ abandoned \in SUBSET Own
    /\ crashes \in 0 .. MaxCrashes

Init ==
    /\ head \in 1 .. MaxHeight
    /\ stored = {}
    /\ late = {}
    /\ cutoff = 0
    /\ pc = "down"
    /\ start = 0
    /\ height = 0
    /\ events = {}
    /\ retry_queue = <<>>
    /\ failures = [e \in Own |-> 0]
    /\ unacknowledged = {}
    /\ published = {}
    /\ dropped = {}
    /\ abandoned = {}
    /\ crashes = 0

-----------------------------------------------------------------------------
(* Start of the process                                                    *)

\* Max("block") over the protocol's rows; 0 when there is none (None or 0,
\* which `or` does not tell apart).
IsLastBlock(b) ==
    \/ stored = {} /\ b = 0
    \/ /\ \E e \in stored : Block[e] = b
       /\ \A e \in stored : Block[e] <= b

\* Mutant: the configured start height is ignored.
DefaultStartHeightIgnored == head

DefaultStartHeight == IF StartHeight = Unset THEN head ELSE StartHeight

\* Mutants: the last stored block is read again; one block too many skipped.
FirstBlockAgain(last) == IF last # 0 THEN last ELSE DefaultStartHeight
FirstBlockSkips(last) == IF last # 0 THEN last + 2 ELSE DefaultStartHeight

FirstBlock(last) == IF last # 0 THEN last + 1 ELSE DefaultStartHeight

\* docker (re)starts the process: configuration, then run() up to its loop.
Boot ==
    /\ pc = "down"
    /\ pc' = "poll"
    /\ \E last \in 0 .. MaxHeight - 1 :
          /\ IsLastBlock(last)
          /\ start' = FirstBlock(last)
          /\ abandoned' = {e \in Own : Block[e] < FirstBlock(last)}
                             \ (published \cup dropped)
    /\ UNCHANGED <<head, stored, late, cutoff, height, events, retry_queue,
                   failures, unacknowledged, published, dropped, crashes>>

-----------------------------------------------------------------------------
(* The outer loop                                                          *)

\* A new height to catch up with (or a height still below the start).
Poll ==
    /\ pc = "poll"
    /\ head # start
    /\ height' = head
    /\ pc' = "scan"
    /\ UNCHANGED <<head, stored, late, cutoff, start, events, retry_queue,
                   failures, unacknowledged, published, dropped, abandoned, crashes>>

\* height == start: sleep and `continue`, past the retries.
PollUpToDate ==
    /\ pc = "poll"
    /\ head = start
    /\ height' = head
    /\ UNCHANGED <<head, stored, late, cutoff, pc, start, events, retry_queue,
                   failures, unacknowledged, published, dropped, abandoned, crashes>>

\* Mutant: the loop continues without a look at the retry queue.
PollPastLastLogNoRetry ==
    /\ pc = "poll"
    /\ head = MaxHeight
    /\ start = MaxHeight
    /\ height' = head
    /\ UNCHANGED <<head, stored, late, cutoff, pc, start, events, retry_queue,
                   failures, unacknowledged, published, dropped, abandoned, crashes>>

\* The chain has grown past MaxHeight: the new blocks are fetched, hold no
\* log, and the loop goes on to the retries.
PollPastLastLog ==
    /\ pc = "poll"
    /\ head = MaxHeight
    /\ start = MaxHeight
    /\ height' = head
    /\ pc' = "retry"
    /\ UNCHANGED <<head, stored, late, cutoff, start, events, retry_queue,
                   failures, unacknowledged, published, dropped, abandoned, crashes>>

-----------------------------------------------------------------------------
(* while start < height: one batch of blocks                               *)

IndexRange ==
    IF BatchSize < height - start THEN BatchSize ELSE height - start

\* Mutant: toBlock taken as exclusive.
ToBlockExclusive == start + IndexRange - 2

ToBlock == start + IndexRange - 1

GetLogs ==
    /\ pc = "scan"
    /\ events = {}
    /\ start < height
    /\ events' = {e \in Log : Block[e] \in start .. ToBlock}
    /\ start' = start + IndexRange
    /\ UNCHANGED <<head, stored, late, cutoff, pc, height, retry_queue, failures,
                   unacknowledged, published, dropped, abandoned, crashes>>

ScanDone ==
    /\ pc = "scan"
    /\ events = {}
    /\ start >= height
    /\ pc' = "retry"
    /\ UNCHANGED <<head, stored, late, cutoff, start, height, events, retry_queue,
                   failures, unacknowledged, published, dropped, abandoned, crashes>>

\* get_logs answers in chain order and the for loop keeps it.
IsNextEvent(e) == e \in events /\ \A f \in events : e <= f

\* Another event of the Relay contract, or the other protocol's message.
SkipForeignEvent ==
    /\ pc = "scan"
    /\ \E e \in events \ Own :
          /\ IsNextEvent(e)
          /\ events' = events \ {e}
    /\ UNCHANGED <<head, stored, late, cutoff, pc, start, height, retry_queue,
                   failures, unacknowledged, published, dropped, abandoned, crashes>>

\* unique_together (protocol_id, voting_round_id): a round that has a row is
\* refused, and the insertion of one that another transaction has inserted
\* waits for the outcome of that.
Refuses(e) == \E f \in stored \cup late : Round[f] = Round[e]

\* Processor.process(e) commits.
Process(e) ==
    /\ ~Refuses(e)
    /\ stored' = stored \cup {e}
    /\ published' = published \cup {e}
    /\ UNCHANGED <<late, cutoff, failures, unacknowledged, dropped>>

\* The connection breaks, or the process dies, with COMMIT on its way.
LoseCommit(e) ==
    /\ ~Refuses(e)
    /\ Cardinality(unacknowledged) < MaxUnacknowledged
    /\ late' = late \cup {e}

\* Processor.process(e) raises: no provider answered well, the database
\* refused, or the connection broke, when the rows may still come.
ProcessFails(e) ==
    /\ failures' = [failures EXCEPT ![e] = @ + 1]
    /\ UNCHANGED <<stored, cutoff, published>>
    /\ \/ UNCHANGED <<late, unacknowledged>>
       \/ /\ LoseCommit(e)
          /\ unacknowledged' = unacknowledged \cup {e}

Retry(e, n) == [event |-> e, retry |-> n, age |-> 0]

ProcessEvent ==
    /\ pc = "scan"
    /\ \E e \in events \cap Own :
          /\ IsNextEvent(e)
          /\ events' = events \ {e}
          /\ \/ Process(e) /\ UNCHANGED retry_queue
             \/ /\ ProcessFails(e)
                /\ retry_queue' = Append(retry_queue, Retry(e, 1))
                /\ UNCHANGED dropped
    /\ UNCHANGED <<head, pc, start, height, abandoned, crashes>>

-----------------------------------------------------------------------------
(* while retry_queue: failed events, oldest first                          *)

Due(processing_retry) == processing_retry.age > RetryDelay

\* Mutants: the first event is not taken off; it goes back to the front; the
\* retry number stays.
RequeuedTwice(event, retry) == Append(retry_queue, Retry(event, retry + 1))
RequeuedFirst(event, retry) ==
    <<Retry(event, retry + 1)>> \o Tail(retry_queue)
RequeuedSameRetry(event, retry) ==
    Append(Tail(retry_queue), Retry(event, retry))

Requeued(event, retry) == Append(Tail(retry_queue), Retry(event, retry + 1))

\* Mutant: one retry too few.
RetriesLeftOneFewer(retry) == retry + 1 < MaxRetry

RetriesLeft(retry) == retry < MaxRetry

\* The queue is empty: back to the outer loop.
RetryQueueEmpty ==
    /\ pc = "retry"
    /\ retry_queue = <<>>
    /\ pc' = "poll"
    /\ UNCHANGED <<head, stored, late, cutoff, start, height, events, retry_queue,
                   failures, unacknowledged, published, dropped, abandoned, crashes>>

\* Its first event is not due: `break`, with the event put back.
RetryNotDue ==
    /\ pc = "retry"
    /\ retry_queue # <<>>
    /\ ~Due(Head(retry_queue))
    /\ pc' = "poll"
    /\ UNCHANGED <<head, stored, late, cutoff, start, height, events, retry_queue,
                   failures, unacknowledged, published, dropped, abandoned, crashes>>

RetryEvent ==
    /\ pc = "retry"
    /\ retry_queue # <<>>
    /\ Due(Head(retry_queue))
    /\ LET event == Head(retry_queue).event
           retry == Head(retry_queue).retry
       IN  \/ /\ Process(event)
              /\ retry_queue' = Tail(retry_queue)
           \/ /\ ProcessFails(event)
              /\ RetriesLeft(retry)
              /\ retry_queue' = Requeued(event, retry)
              /\ UNCHANGED dropped
           \/ /\ ProcessFails(event)
              /\ ~RetriesLeft(retry)
              /\ retry_queue' = Tail(retry_queue)
              /\ dropped' = dropped \cup {event}
    /\ UNCHANGED <<head, pc, start, height, events, abandoned, crashes>>

-----------------------------------------------------------------------------
(* The environment                                                         *)

\* The message that processor.process is at work on.
InProcess(e) ==
    \/ pc = "scan" /\ e \in events \cap Own /\ IsNextEvent(e)
    \/ /\ pc = "retry" /\ retry_queue # <<>>
       /\ Due(Head(retry_queue)) /\ e = Head(retry_queue).event

\* The process dies: an exception run() does not catch (get_block_number,
\* get_logs, decoding a log), a kill, a redeploy.  Its locals are gone; a
\* COMMIT may be on its way.
Crash ==
    /\ pc # "down"
    /\ crashes < MaxCrashes
    /\ crashes' = crashes + 1
    /\ pc' = "down"
    /\ start' = 0
    /\ height' = 0
    /\ events' = {}
    /\ retry_queue' = <<>>
    /\ failures' = [e \in Own |-> 0]
    /\ \/ UNCHANGED late
       \/ \E e \in Own : InProcess(e) /\ LoseCommit(e)
    /\ unacknowledged' = late'
    /\ UNCHANGED <<head, stored, cutoff, published, dropped, abandoned>>

\* The outcome of a COMMIT that nobody waits for.
LateCommit ==
    /\ \E e \in late :
          /\ late' = late \ {e}
          /\ \/ /\ stored' = stored \cup {e}
                /\ published' = published \cup {e}
                /\ UNCHANGED unacknowledged
             \/ /\ unacknowledged' = unacknowledged \ {e}
                /\ UNCHANGED <<stored, published>>
    /\ UNCHANGED <<head, cutoff, pc, start, height, events, retry_queue,
                   failures, dropped, abandoned, crashes>>

NewBlock ==
    /\ head < MaxHeight
    /\ head' = head + 1
    /\ UNCHANGED <<stored, late, cutoff, pc, start, height, events, retry_queue,
                   failures, unacknowledged, published, dropped, abandoned, crashes>>

Older(processing_retry) ==
    [processing_retry EXCEPT !.age = IF @ > RetryDelay THEN @ ELSE @ + 1]

Tick ==
    /\ \E i \in DOMAIN retry_queue : ~Due(retry_queue[i])
    /\ retry_queue' = [i \in DOMAIN retry_queue |-> Older(retry_queue[i])]
    /\ UNCHANGED <<head, stored, late, cutoff, pc, start, height, events, failures,
                   unacknowledged, published, dropped, abandoned, crashes>>

\* Mutant: the round at the cutoff goes too.
ExpiredAtCutoff(c) == {e \in stored : Round[e] <= c}

Expired(c) == {e \in stored : Round[e] < c}

\* delete_history: the rows with a round below the new cutoff go, except those
\* that came after its last DELETE and before its COMMIT.
DeleteHistory ==
    /\ \E c \in Cutoffs, gone \in SUBSET stored :
          /\ c >= cutoff
          /\ gone \subseteq Expired(c)
          /\ cutoff' = c
          /\ stored' = stored \ gone
    /\ UNCHANGED <<late, head, pc, start, height, events, retry_queue, failures,
                   unacknowledged, published, dropped, abandoned, crashes>>

-----------------------------------------------------------------------------

Step ==
    \/ Poll
    \/ PollUpToDate
    \/ PollPastLastLog
    \/ GetLogs
    \/ ScanDone
    \/ SkipForeignEvent
    \/ ProcessEvent
    \/ RetryQueueEmpty
    \/ RetryNotDue
    \/ RetryEvent

Next ==
    \/ Boot
    \/ Step
    \/ Crash
    \/ LateCommit
    \/ NewBlock
    \/ Tick
    \/ DeleteHistory

Spec == Init /\ [][Next]_vars

\* docker restarts the container, the process keeps running, time and the
\* chain go on.  Nothing is assumed of providers: every attempt may fail.
\* SF(PollPastLastLog): blocks keep coming, so a process that polls for ever
\* does not find height == start every time.
FairSpec ==
    /\ Spec
    /\ WF_vars(Boot)
    /\ WF_vars(Step)
    /\ SF_vars(PollPastLastLog)
    /\ WF_vars(Tick)
    /\ WF_vars(NewBlock)

-----------------------------------------------------------------------------
(* Properties                                                              *)

\* Every message of this protocol below `start` (main.py:90) is accounted
\* for: stored once, still in the batch, queued for a retry, given up after
\* all retries, or left behind by the last start.  A wrong batch boundary, an
\* early `continue` or a lost queue entry would break it.
NothingSkipped ==
    pc # "down" =>
        \A e \in Own :
            Block[e] < start => e \in Pending \cup published \cup dropped
                                        \cup abandoned

\* A message waiting in the batch or in the queue has no row yet, whatever
\* the mix of retries, crashes and restarts from Max("block"): the
\* unique_together of fsp/models.py:37-38 refuses an attempt (and the message
\* is given up though it is stored) only when an earlier one was committed
\* after this process, or the one that crashed before it, lost sight of it.
NoRework ==
    \A e \in Pending, f \in stored :
        Round[e] = Round[f] => e \in unacknowledged

\* A message is pending in one place only, so no retry races another attempt
\* at the same round.
PendingOnce ==
    /\ events \cap Queued = {}
    /\ \A i, j \in DOMAIN retry_queue :
          retry_queue[i].event = retry_queue[j].event => i = j

\* main.py:121 "the first event has the smallest t in the processing_queue":
\* what makes `break` at the first event that is not due correct.
QueueOldestFirst ==
    \A i, j \in DOMAIN retry_queue :
        i <= j => retry_queue[i].age >= retry_queue[j].age

\* The retry number of a queued message is the number of attempts that have
\* failed since boot; one that is neither queued nor given up has not failed.
RetryCountsFailures ==
    \A i \in DOMAIN retry_queue :
        retry_queue[i].retry = failures[retry_queue[i].event]

\* main.py:136 "in total there were (retry + 1) failed processing": a message
\* is given up only after MaxRetry + 1 failures.
DroppedAfterAllRetries ==
    [][\A e \in dropped' \ dropped : failures'[e] = MaxRetry + 1]_vars

\* A crash loses a pending message only when the restart starts past it, and
\* then only because a later message (or one of the same block) was stored
\* first, or because no start height is configured.
OnlyOvertakenAbandoned ==
    [][\A e \in abandoned' \ abandoned :
          \/ \E f \in stored : Block[f] >= Block[e]
          \/ StartHeight = Unset
          \/ Block[e] < StartHeight]_vars

\* The tables implement the abstract promise: a round is published once, after
\* it was finalised, and disappears only when history expires.
Promise == INSTANCE DataAvailability WITH
    Rounds <- {Round[e] : e \in Own},
    relayed <- {Round[e] : e \in {f \in Own : Block[f] <= head}},
    available <- {Round[e] : e \in stored},
    horizon <- cutoff

ImplementsPromise == Promise!Spec

\* Every message is eventually stored, given up after all retries, or left
\* behind by a restart: none stays in the queue or unread for ever.
Settles ==
    \A e \in Own : <>(e \in published \cup dropped \cup abandoned)

\* .env.example.prod:75-76 "indexer will start from specified when database
\* will be empty otherwise it will continue from where it stopped": a restart
\* on a database that is not empty leaves nothing behind.
ContinuesWhereItStopped ==
    [][pc = "down" /\ pc' # "down" /\ stored # {}
          => abandoned' \subseteq abandoned]_vars

\* .env.example.prod:76-77 "this defaults to block where latest version of
\* Relay contract was deployed per chain": with no start height configured
\* and an empty database, indexing starts at or before the contract's first log.
DefaultsToDeployment ==
    [][pc = "down" /\ pc' # "down" /\ stored = {}
          => \A e \in Log : start' <= Block[e]]_vars

=============================================================================
