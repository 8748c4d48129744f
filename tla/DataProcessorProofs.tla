------------------------ MODULE DataProcessorProofs ------------------------
(***************************************************************************)
(* What DataProcessor guarantees for every chain, batch size, retry budget *)
(* and number of crashes, checked by TLAPS.                                *)
(***************************************************************************)
EXTENDS DataProcessor, SequenceTheorems, TLAPS

-----------------------------------------------------------------------------
(* The two sequence operations of the retry queue                          *)

\* popleft drops the first element and shifts the others by one.
LEMMA TailFacts ==
    ASSUME NEW S, NEW q \in Seq(S), q # <<>>
    PROVE  /\ Head(q) \in S
           /\ Head(q) = q[1]
           /\ Tail(q) \in Seq(S)
           /\ 1 \in DOMAIN q
           /\ \A i \in DOMAIN Tail(q) : i + 1 \in DOMAIN q /\ Tail(q)[i] = q[i + 1]
           /\ \A i \in DOMAIN q : i # 1 => i - 1 \in DOMAIN Tail(q)
  OBVIOUS

\* append keeps every element and adds one at the end.
LEMMA AppendFacts ==
    ASSUME NEW S, NEW q \in Seq(S), NEW x \in S
    PROVE  /\ Append(q, x) \in Seq(S)
           /\ DOMAIN Append(q, x) = DOMAIN q \cup {Len(q) + 1}
           /\ Len(q) + 1 \notin DOMAIN q
           /\ \A i \in DOMAIN q : Append(q, x)[i] = q[i] /\ i < Len(q) + 1
           /\ Append(q, x)[Len(q) + 1] = x
  OBVIOUS

\* A map over a sequence is a sequence.
LEMMA MapFacts ==
    ASSUME NEW S, NEW q \in Seq(S), NEW r,
           r = [i \in DOMAIN q |-> r[i]],
           \A i \in DOMAIN q : r[i] \in S
    PROVE  r \in Seq(S)
<1>1. Len(q) \in Nat /\ DOMAIN q = 1 .. Len(q)
  BY LenProperties
<1>2. r \in [1 .. Len(q) -> S]
  BY <1>1
<1> QED BY <1>1, <1>2, SeqDef

-----------------------------------------------------------------------------
(* The steps the actions share                                             *)

\* A tick changes the age of a retry and nothing else.
LEMMA OlderFacts ==
    ASSUME NEW r \in ProcessingRetry
    PROVE  /\ Older(r) \in ProcessingRetry
           /\ Older(r).event = r.event
           /\ Older(r).retry = r.retry
           /\ Older(r).age = IF r.age > RetryDelay THEN r.age ELSE r.age + 1
  BY ConfigAssumption DEF Older, ProcessingRetry

\* A failed attempt is counted for the message it is about.
LEMMA ProcessFailsFacts ==
    ASSUME NEW e \in Own, ProcessFails(e), failures \in [Own -> Nat]
    PROVE  /\ failures' \in [Own -> Nat]
           /\ failures'[e] = failures[e] + 1
           /\ \A f \in Own : f # e => failures'[f] = failures[f]
           /\ cutoff' = cutoff
  BY DEF ProcessFails

\* It leaves the rows alone; a COMMIT may have been lost sight of.
LEMMA ProcessFailsRows ==
    ASSUME NEW e \in Own, ProcessFails(e)
    PROVE  /\ stored' = stored /\ published' = published
           /\ \/ late' = late /\ unacknowledged' = unacknowledged
              \/ /\ late' = late \cup {e} /\ ~Refuses(e)
                 /\ unacknowledged' = unacknowledged \cup {e}
  BY DEF ProcessFails, LoseCommit

\* A failed attempt, about a message of this protocol, adds no other to the
\* rows or to their histories.
LEMMA ProcessFailsTypes ==
    ASSUME NEW e \in Own, ProcessFails(e), stored \in SUBSET Own,
           published \in SUBSET Own, late \in SUBSET Own,
           unacknowledged \in SUBSET Own
    PROVE  /\ stored' \in SUBSET Own /\ late' \in SUBSET Own
           /\ published' \in SUBSET Own
           /\ unacknowledged' \in SUBSET Own
<1>1. stored' \in SUBSET Own /\ published' \in SUBSET Own
  BY ProcessFailsRows
<1>2. late' \in SUBSET Own /\ unacknowledged' \in SUBSET Own
  BY ProcessFailsRows
<1> QED BY <1>1, <1>2

-----------------------------------------------------------------------------
(* Type correctness                                                        *)

LEMMA TypeInit == Init => TypeOK
  BY ChainAssumption, ConfigAssumption DEF Init, TypeOK

LEMMA TypeStep == TypeOK /\ [Next]_vars => TypeOK'
<1> SUFFICES ASSUME TypeOK, [Next]_vars
             PROVE  TypeOK'
  OBVIOUS
<1> USE ChainAssumption, ConfigAssumption
<1>1. CASE Boot
  <2>1. PICK last \in 0 .. MaxHeight - 1 :
            /\ IsLastBlock(last)
            /\ start' = FirstBlock(last)
            /\ abandoned' = {e \in Own : Block[e] < FirstBlock(last)}
                               \ (published \cup dropped)
    BY <1>1 DEF Boot
  <2>2. start' \in 0 .. MaxHeight
    BY <2>1 DEF FirstBlock, DefaultStartHeight, TypeOK
  <2> QED BY <1>1, <2>1, <2>2 DEF Boot, TypeOK
<1>2. CASE Poll
  BY <1>2 DEF Poll, TypeOK
<1>13. CASE PollUpToDate
  BY <1>13 DEF PollUpToDate, TypeOK
<1>14. CASE PollPastLastLog
  BY <1>14 DEF PollPastLastLog, TypeOK
<1>3. CASE GetLogs
  BY <1>3 DEF GetLogs, IndexRange, TypeOK
<1>4. CASE ScanDone
  BY <1>4 DEF ScanDone, TypeOK
<1>15. CASE RetryQueueEmpty
  BY <1>15 DEF RetryQueueEmpty, TypeOK
<1>16. CASE RetryNotDue
  BY <1>16 DEF RetryNotDue, TypeOK
<1>5. CASE SkipForeignEvent
  BY <1>5 DEF SkipForeignEvent, TypeOK
<1>6. CASE ProcessEvent
  <2>1. PICK e \in events \cap Own :
            /\ events' = events \ {e}
            /\ \/ Process(e) /\ UNCHANGED retry_queue
               \/ /\ ProcessFails(e)
                  /\ retry_queue' = Append(retry_queue, Retry(e, 1))
                  /\ UNCHANGED dropped
    BY <1>6 DEF ProcessEvent
  <2>2. Retry(e, 1) \in ProcessingRetry
    BY DEF Retry, ProcessingRetry
  <2>3. retry_queue' \in Seq(ProcessingRetry)
    <3>1. retry_queue \in Seq(ProcessingRetry)
      BY DEF TypeOK
    <3>2. Append(retry_queue, Retry(e, 1)) \in Seq(ProcessingRetry)
      BY <2>2, <3>1, AppendFacts
    <3> QED BY <2>1, <3>1, <3>2
  <2>4. /\ stored' \in SUBSET Own /\ cutoff' \in Nat
        /\ published' \in SUBSET Own /\ unacknowledged' \in SUBSET Own
        /\ late' \in SUBSET Own
    <3>1. CASE Process(e)
      BY <3>1 DEF Process, TypeOK
    <3>2. CASE ProcessFails(e)
      <4>1. e \in Own
        OBVIOUS
      <4>2. cutoff' = cutoff
        BY <3>2, <4>1, ProcessFailsFacts DEF TypeOK
      <4> QED BY <3>2, <4>1, <4>2, ProcessFailsTypes DEF TypeOK
    <3> QED BY <2>1, <3>1, <3>2
  <2>5. failures' \in [Own -> Nat]
    BY <2>1, ProcessFailsFacts DEF Process, TypeOK
  <2>6. events' \in SUBSET Log /\ dropped' \in SUBSET Own
    BY <2>1 DEF Process, TypeOK
  <2> QED BY <1>6, <2>3, <2>4, <2>5, <2>6 DEF ProcessEvent, TypeOK
<1>7. CASE RetryEvent
  <2> DEFINE h == Head(retry_queue)
  <2>1. /\ h \in ProcessingRetry
        /\ Tail(retry_queue) \in Seq(ProcessingRetry)
    BY <1>7, TailFacts DEF RetryEvent, TypeOK
  <2>2. CASE Process(h.event) /\ retry_queue' = Tail(retry_queue)
    BY <1>7, <2>1, <2>2 DEF RetryEvent, Process, ProcessingRetry, TypeOK
  <2>3. CASE /\ ProcessFails(h.event)
             /\ RetriesLeft(h.retry)
             /\ retry_queue' = Requeued(h.event, h.retry)
             /\ UNCHANGED dropped
    <3>1. Retry(h.event, h.retry + 1) \in ProcessingRetry
      BY <2>1, <2>3 DEF RetriesLeft, Retry, ProcessingRetry
    <3>2. retry_queue' \in Seq(ProcessingRetry)
      BY <2>1, <2>3, <3>1, AppendFacts DEF Requeued
    <3>3. /\ failures' \in [Own -> Nat] /\ cutoff' = cutoff
          /\ stored' \in SUBSET Own /\ published' \in SUBSET Own
          /\ unacknowledged' \in SUBSET Own /\ late' \in SUBSET Own
      <4>1. h.event \in Own
        BY <2>1 DEF ProcessingRetry
      <4>2. failures' \in [Own -> Nat] /\ cutoff' = cutoff
        BY <2>3, <4>1, ProcessFailsFacts DEF TypeOK
      <4> QED BY <2>3, <4>1, <4>2, ProcessFailsTypes DEF TypeOK
    <3> QED BY <1>7, <2>3, <3>2, <3>3 DEF RetryEvent, TypeOK
  <2>4. CASE /\ ProcessFails(h.event)
             /\ retry_queue' = Tail(retry_queue)
             /\ dropped' = dropped \cup {h.event}
    <3>1. h.event \in Own
      BY <2>1 DEF ProcessingRetry
    <3>2. /\ failures' \in [Own -> Nat] /\ cutoff' = cutoff
          /\ stored' \in SUBSET Own /\ published' \in SUBSET Own
          /\ unacknowledged' \in SUBSET Own /\ late' \in SUBSET Own
      <4>1. failures' \in [Own -> Nat] /\ cutoff' = cutoff
        BY <2>4, <3>1, ProcessFailsFacts DEF TypeOK
      <4> QED BY <2>4, <3>1, <4>1, ProcessFailsTypes DEF TypeOK
    <3> QED BY <1>7, <2>1, <2>4, <3>1, <3>2 DEF RetryEvent, TypeOK
  <2> QED BY <1>7, <2>2, <2>3, <2>4 DEF RetryEvent
<1>8. CASE Crash
  <2>1. late' \in SUBSET Own
    <3>1. CASE late' = late
      BY <3>1 DEF TypeOK
    <3>2. CASE \E e \in Own : InProcess(e) /\ LoseCommit(e)
      BY <3>2 DEF LoseCommit, TypeOK
    <3> QED BY <1>8, <3>1, <3>2 DEF Crash
  <2> QED BY <1>8, <2>1 DEF Crash, TypeOK
<1>17. CASE LateCommit
  <2>1. PICK e \in late :
            /\ late' = late \ {e}
            /\ \/ /\ stored' = stored \cup {e} /\ published' = published \cup {e}
                  /\ UNCHANGED unacknowledged
               \/ /\ unacknowledged' = unacknowledged \ {e}
                  /\ UNCHANGED <<stored, published>>
    BY <1>17 DEF LateCommit
  <2>2. e \in Own
    BY DEF TypeOK
  <2>3. /\ stored' \in SUBSET Own /\ published' \in SUBSET Own
        /\ late' \in SUBSET Own /\ unacknowledged' \in SUBSET Own
    BY <2>1, <2>2 DEF TypeOK
  <2> QED BY <1>17, <2>3 DEF LateCommit, TypeOK
<1>9. CASE NewBlock
  BY <1>9 DEF NewBlock, TypeOK
<1>10. CASE Tick
  <2>1. \A i \in DOMAIN retry_queue : retry_queue[i] \in ProcessingRetry
    BY DEF TypeOK
  <2>2. \A i \in DOMAIN retry_queue : Older(retry_queue[i]) \in ProcessingRetry
    BY <2>1, OlderFacts
  <2>3. retry_queue' \in Seq(ProcessingRetry)
    BY <1>10, <2>2, MapFacts DEF Tick, TypeOK
  <2> QED BY <1>10, <2>3 DEF Tick, TypeOK
<1>11. CASE DeleteHistory
  <2>1. cutoff' \in Nat
    BY <1>11 DEF DeleteHistory, TypeOK
  <2>2. stored' \in SUBSET Own
    BY <1>11 DEF DeleteHistory, TypeOK
  <2> QED BY <1>11, <2>1, <2>2 DEF DeleteHistory, TypeOK
<1>12. CASE UNCHANGED vars
  BY <1>12 DEF vars, TypeOK
<1> QED BY <1>1, <1>2, <1>3, <1>4, <1>5, <1>6, <1>7, <1>8, <1>9, <1>10,
           <1>11, <1>12, <1>13, <1>14, <1>15, <1>16, <1>17 DEF Next, Step

\* Every variable of the ingest loop stays within its type.
THEOREM TypeCorrect == Spec => []TypeOK
  BY TypeInit, TypeStep, PTL DEF Spec

-----------------------------------------------------------------------------
(* The inductive invariant                                                 *)

\* A process that is down has lost its locals.
DownIsEmpty ==
    pc = "down" => start = 0 /\ events = {} /\ retry_queue = <<>>

\* What is pending has been fetched, and only blocks that exist are fetched.
PendingBelow ==
    /\ height <= head
    /\ \A e \in events \cup Queued : Block[e] < start /\ Block[e] <= head

\* A running process is past every row, except those of a COMMIT it knows
\* nothing of: it restarted after the last one and stores only what it fetched.
StoredBelow ==
    pc # "down" => \A e \in stored : Block[e] < start \/ e \in unacknowledged

\* A COMMIT on its way is of a message that exists and has no row.
LateIsNew ==
    /\ late \subseteq unacknowledged
    /\ \A e \in late : Block[e] <= head /\ \A f \in stored : Round[f] # Round[e]

\* A message that was stored has its row until delete_history is past it.
StoredUntilExpired ==
    \A e \in published \ stored : Round[e] < cutoff

\* What was not attempted since boot has not failed since boot.
FreshUnfailed ==
    \A e \in Own : e \in events \/ Block[e] >= start => failures[e] = 0

IInv ==
    /\ TypeOK
    /\ DownIsEmpty
    /\ PendingBelow
    /\ StoredBelow
    /\ LateIsNew
    /\ StoredUntilExpired
    /\ FreshUnfailed
    /\ PendingOnce
    /\ NoRework
    /\ QueueOldestFirst
    /\ RetryCountsFailures
    /\ NothingSkipped

\* The invariants of the queue, of any queue.
Distinct(q) == \A i, j \in DOMAIN q : q[i].event = q[j].event => i = j
OldestFirst(q) == \A i, j \in DOMAIN q : i <= j => q[i].age >= q[j].age

\* Taking the oldest retry off leaves the others as they were.
LEMMA PopFacts ==
    ASSUME NEW q \in Seq(ProcessingRetry), q # <<>>,
           Distinct(q), OldestFirst(q)
    PROVE  /\ Tail(q) \in Seq(ProcessingRetry)
           /\ Head(q) \in ProcessingRetry
           /\ Head(q).event \in EventsOf(q)
           /\ EventsOf(Tail(q)) = EventsOf(q) \ {Head(q).event}
           /\ Distinct(Tail(q))
           /\ OldestFirst(Tail(q))
           /\ \A i \in DOMAIN Tail(q) :
                 i + 1 \in DOMAIN q /\ Tail(q)[i] = q[i + 1]
           /\ Head(q) = q[1] /\ 1 \in DOMAIN q
<1>1. /\ Head(q) = q[1]
      /\ Head(q) \in ProcessingRetry
      /\ 1 \in DOMAIN q
      /\ Tail(q) \in Seq(ProcessingRetry)
      /\ \A i \in DOMAIN Tail(q) : i + 1 \in DOMAIN q /\ Tail(q)[i] = q[i + 1]
      /\ \A i \in DOMAIN q : i # 1 => i - 1 \in DOMAIN Tail(q)
  BY TailFacts
<1>2. DOMAIN q \subseteq Int /\ DOMAIN Tail(q) \subseteq Nat \ {0}
  BY <1>1, LenProperties
<1>3. EventsOf(Tail(q)) \subseteq EventsOf(q) \ {Head(q).event}
  <2> SUFFICES ASSUME NEW i \in DOMAIN Tail(q)
               PROVE  Tail(q)[i].event \in EventsOf(q) \ {Head(q).event}
    BY DEF EventsOf
  <2>1. i + 1 \in DOMAIN q /\ i + 1 # 1 /\ Tail(q)[i] = q[i + 1]
    BY <1>1, <1>2
  <2> QED BY <1>1, <2>1 DEF EventsOf, Distinct
<1>4. EventsOf(q) \ {Head(q).event} \subseteq EventsOf(Tail(q))
  <2> SUFFICES ASSUME NEW i \in DOMAIN q, q[i].event # Head(q).event
               PROVE  q[i].event \in EventsOf(Tail(q))
    BY DEF EventsOf
  <2>1. i - 1 \in DOMAIN Tail(q) /\ Tail(q)[i - 1] = q[(i - 1) + 1]
    BY <1>1
  <2>2. q[(i - 1) + 1] = q[i]
    BY <1>2
  <2> QED BY <2>1, <2>2 DEF EventsOf
<1>5. Distinct(Tail(q))
  BY <1>1, <1>2 DEF Distinct
<1>6. OldestFirst(Tail(q))
  BY <1>1, <1>2 DEF OldestFirst
<1>7. Head(q).event \in EventsOf(q)
  BY <1>1 DEF EventsOf
<1> QED BY <1>1, <1>3, <1>4, <1>5, <1>6, <1>7

\* A new failure goes to the end of the queue and is the youngest.
LEMMA PushFacts ==
    ASSUME NEW q \in Seq(ProcessingRetry), NEW r \in ProcessingRetry,
           Distinct(q), OldestFirst(q),
           r.age = 0, r.event \notin EventsOf(q)
    PROVE  /\ EventsOf(Append(q, r)) = EventsOf(q) \cup {r.event}
           /\ Distinct(Append(q, r))
           /\ OldestFirst(Append(q, r))
<1>1. /\ DOMAIN Append(q, r) = DOMAIN q \cup {Len(q) + 1}
      /\ Len(q) + 1 \notin DOMAIN q
      /\ \A i \in DOMAIN q : Append(q, r)[i] = q[i] /\ i < Len(q) + 1
      /\ Append(q, r)[Len(q) + 1] = r
  BY AppendFacts
<1>2. \A i \in DOMAIN q : q[i].age \in Nat
  <2>1. \A i \in DOMAIN q : q[i] \in ProcessingRetry
    OBVIOUS
  <2> QED BY <2>1, ConfigAssumption DEF ProcessingRetry
<1>3. DOMAIN q \subseteq Int /\ Len(q) \in Nat
  BY LenProperties
<1>4. EventsOf(Append(q, r)) = EventsOf(q) \cup {r.event}
  BY <1>1 DEF EventsOf
<1>5. Distinct(Append(q, r))
  BY <1>1 DEF Distinct, EventsOf
<1>6. OldestFirst(Append(q, r))
  <2> SUFFICES ASSUME NEW i \in DOMAIN Append(q, r),
                      NEW j \in DOMAIN Append(q, r), i <= j
               PROVE  Append(q, r)[i].age >= Append(q, r)[j].age
    BY DEF OldestFirst
  <2>1. CASE j = Len(q) + 1
    BY <1>1, <1>2, <2>1
  <2>2. CASE j \in DOMAIN q
    <3>1. i \in DOMAIN q
      BY <1>1, <1>3, <2>2
    <3> QED BY <1>1, <2>2, <3>1 DEF OldestFirst
  <2> QED BY <1>1, <2>1, <2>2
<1> QED BY <1>4, <1>5, <1>6

-----------------------------------------------------------------------------
(* Every action preserves the invariant                                    *)

\* Only messages of the protocol are queued, and every retry is well formed.
LEMMA QueuedType ==
    ASSUME TypeOK
    PROVE  /\ Queued \subseteq Own
           /\ \A i \in DOMAIN retry_queue : retry_queue[i] \in ProcessingRetry
<1>1. \A i \in DOMAIN retry_queue : retry_queue[i] \in ProcessingRetry
  BY DEF TypeOK
<1> QED BY <1>1 DEF Queued, EventsOf, ProcessingRetry

LEMMA InvInit == Init => IInv
<1> SUFFICES ASSUME Init PROVE IInv
  OBVIOUS
<1>1. TypeOK
  BY TypeInit
<1>2. Queued = {}
  BY DEF Init, Queued, EventsOf
<1> QED BY <1>1, <1>2, ChainAssumption
        DEF Init, IInv, DownIsEmpty, PendingBelow, StoredBelow, LateIsNew,
            StoredUntilExpired, FreshUnfailed, PendingOnce, NoRework, QueueOldestFirst,
            RetryCountsFailures, NothingSkipped, Pending, TypeOK

\* The restart begins after the last row, so no row is fetched again.
LEMMA BootStep == IInv /\ Boot => IInv'
<1> SUFFICES ASSUME IInv, Boot PROVE IInv'
  OBVIOUS
<1> USE ChainAssumption
<1>1. TypeOK'
  BY TypeStep DEF IInv, Next
<1>2. PICK last \in 0 .. MaxHeight - 1 :
            /\ IsLastBlock(last)
            /\ start' = FirstBlock(last)
            /\ abandoned' = {e \in Own : Block[e] < FirstBlock(last)}
                               \ (published \cup dropped)
  BY DEF Boot
<1>3. /\ start = 0 /\ events = {} /\ retry_queue = <<>> /\ Queued = {}
      /\ events' = {} /\ retry_queue' = <<>> /\ Queued' = {}
      /\ UNCHANGED <<stored, late, cutoff, failures, unacknowledged, published,
                     dropped, height, head>>
      /\ pc' = "poll"
  BY DEF IInv, DownIsEmpty, Boot, Queued, EventsOf
<1>4. \A e \in Own : Block[e] \in Nat \ {0}
  OBVIOUS
<1>5. StoredBelow'
  <2> SUFFICES ASSUME NEW e \in stored PROVE Block[e] < start'
    BY <1>3 DEF StoredBelow
  <2>1. last # 0 /\ Block[e] <= last /\ Block[e] \in Nat
    BY <1>2, <1>4 DEF IsLastBlock, IInv, TypeOK
  <2> QED BY <1>2, <2>1 DEF FirstBlock
<1>6. FreshUnfailed'
  BY <1>3, <1>4 DEF IInv, FreshUnfailed
<1>7. NothingSkipped'
  BY <1>2, <1>3 DEF NothingSkipped, Pending
<1> QED BY <1>1, <1>3, <1>5, <1>6, <1>7
        DEF IInv, DownIsEmpty, PendingBelow, LateIsNew, StoredUntilExpired,
            PendingOnce, NoRework, Pending, QueueOldestFirst, RetryCountsFailures

\* Steps that move the program counter, the height or the chain, but touch
\* neither the rows nor what is pending.
LEMMA MoveStep ==
    ASSUME IInv, TypeOK', pc # "down" => pc' # "down",
           pc = "down" => pc' = "down",
           height' <= head', head <= head',
           UNCHANGED <<stored, late, cutoff, start, events, retry_queue, failures,
                       unacknowledged, published, dropped, abandoned>>
    PROVE  IInv'
<1>1. Queued' = Queued
  BY DEF Queued
<1>2. Pending' = Pending
  BY <1>1 DEF Pending
<1>3. PendingBelow'
  <2>1. \A e \in events \cup Queued : Block[e] \in Int
    BY QueuedType, ChainAssumption DEF IInv, TypeOK
  <2>2. head \in Int /\ head' \in Int
    BY DEF IInv, TypeOK
  <2> QED BY <1>1, <2>1, <2>2 DEF IInv, PendingBelow
<1>4. LateIsNew'
  <2>1. \A e \in late : Block[e] \in Int
    BY ChainAssumption DEF IInv, TypeOK
  <2>2. head \in Int /\ head' \in Int
    BY DEF IInv, TypeOK
  <2> QED BY <2>1, <2>2 DEF IInv, LateIsNew
<1> QED BY <1>1, <1>2, <1>3, <1>4
        DEF IInv, DownIsEmpty, StoredBelow, StoredUntilExpired, FreshUnfailed,
            PendingOnce, NoRework, QueueOldestFirst, RetryCountsFailures,
            NothingSkipped

\* A batch holds every log of the blocks it covers, none of them a row or
\* pending already.
LEMMA GetLogsStep == IInv /\ GetLogs => IInv'
<1> SUFFICES ASSUME IInv, GetLogs PROVE IInv'
  OBVIOUS
<1> USE ChainAssumption
<1>1. TypeOK'
  BY TypeStep DEF IInv, Next, Step
<1>2. /\ start \in Nat /\ height \in Nat /\ head \in Nat
      /\ height <= head /\ start < height
  BY DEF IInv, TypeOK, PendingBelow, GetLogs
<1>3. /\ ToBlock \in Int /\ start' = ToBlock + 1
      /\ start <= start' /\ start' <= height
  BY <1>2, ConfigAssumption DEF GetLogs, ToBlock, IndexRange
<1>4. /\ events = {} /\ events' = {e \in Log : Block[e] \in start .. ToBlock}
      /\ Queued' = Queued
      /\ pc = "scan" /\ pc' = "scan"
      /\ UNCHANGED <<stored, late, cutoff, head, height, retry_queue, failures,
                     unacknowledged, published, dropped, abandoned>>
  BY DEF GetLogs, Queued
<1>5. Queued \subseteq Own /\ stored \subseteq Own
  BY QueuedType DEF IInv, TypeOK
<1>6. \A e \in Queued : Block[e] < start /\ Block[e] <= head
  BY DEF IInv, PendingBelow
<1>7. \A e \in Log : Block[e] \in Nat
  OBVIOUS
<1>8. PendingBelow'
  BY <1>2, <1>3, <1>4, <1>5, <1>6, <1>7 DEF PendingBelow
<1>9. StoredBelow' /\ FreshUnfailed'
  <2>1. StoredBelow'
    BY <1>2, <1>3, <1>4, <1>5, <1>7 DEF IInv, StoredBelow
  <2>2. FreshUnfailed'
    BY <1>2, <1>3, <1>4, <1>7 DEF IInv, FreshUnfailed
  <2> QED BY <2>1, <2>2
<1>10. PendingOnce'
  <2>1. events' \cap Queued = {}
    <3> SUFFICES ASSUME NEW e \in events', e \in Queued PROVE FALSE
      OBVIOUS
    <3>1. e \in Log /\ Block[e] >= start
      BY <1>3, <1>4
    <3> QED BY <1>2, <1>6, <1>7, <3>1
  <2> QED BY <1>4, <2>1 DEF IInv, PendingOnce
<1>11. NoRework'
  <2> SUFFICES ASSUME NEW e \in Pending', NEW f \in stored
               PROVE  Round[e] = Round[f] => e \in unacknowledged
    BY <1>4 DEF NoRework
  <2>1. CASE e \in Queued
    BY <2>1 DEF IInv, NoRework, Pending
  <2>2. CASE e \in events' /\ e \in Own
    BY <1>2, <1>4, <1>5, <1>7, <2>2, OneRootPerRound DEF IInv, StoredBelow
  <2> QED BY <1>4, <2>1, <2>2 DEF Pending
<1>12. NothingSkipped'
  <2> SUFFICES ASSUME NEW e \in Own, Block[e] < start'
               PROVE  e \in Pending' \cup published \cup dropped \cup abandoned
    BY <1>4 DEF NothingSkipped
  <2>1. CASE Block[e] < start
    <3>1. e \in Pending \cup published \cup dropped \cup abandoned
      BY <1>4, <2>1 DEF IInv, NothingSkipped
    <3>2. Pending \subseteq Pending'
      BY <1>4 DEF Pending
    <3> QED BY <3>1, <3>2
  <2>2. CASE Block[e] >= start
    BY <1>2, <1>3, <1>4, <1>7, <2>2 DEF Pending
  <2> QED BY <1>2, <1>7, <2>1, <2>2
<1> QED BY <1>1, <1>4, <1>8, <1>9, <1>10, <1>11, <1>12
        DEF IInv, DownIsEmpty, LateIsNew, StoredUntilExpired, QueueOldestFirst,
            RetryCountsFailures

\* Dropping a foreign log changes nothing that is accounted for.
LEMMA SkipForeignStep == IInv /\ SkipForeignEvent => IInv'
<1> SUFFICES ASSUME IInv, SkipForeignEvent PROVE IInv'
  OBVIOUS
<1>1. TypeOK'
  BY TypeStep DEF IInv, Next, Step
<1>2. PICK e \in events \ Own : events' = events \ {e}
  BY DEF SkipForeignEvent
<1>3. /\ pc = "scan" /\ pc' = "scan"
      /\ UNCHANGED <<head, stored, late, cutoff, start, height, retry_queue, failures,
                     unacknowledged, published, dropped, abandoned>>
  BY DEF SkipForeignEvent
<1>4. Queued' = Queued /\ Pending' = Pending
  BY <1>2, <1>3 DEF Pending, Queued
<1> QED BY <1>1, <1>2, <1>3, <1>4
        DEF IInv, DownIsEmpty, PendingBelow, StoredBelow, LateIsNew,
            StoredUntilExpired, FreshUnfailed, PendingOnce, NoRework,
            QueueOldestFirst, RetryCountsFailures, NothingSkipped

\* A pending message leaves the batch or the queue and gets its row.
LEMMA StoreStep ==
    ASSUME IInv, TypeOK', pc # "down", pc' # "down",
           NEW e \in Pending, Process(e),
           events' \subseteq events,
           Pending' = Pending \ {e},
           Queued' \subseteq Queued,
           PendingOnce', QueueOldestFirst', RetryCountsFailures',
           UNCHANGED <<head, start, height, abandoned>>
    PROVE  IInv'
<1>1. /\ stored' = stored \cup {e} /\ published' = published \cup {e}
      /\ UNCHANGED <<late, cutoff, failures, unacknowledged, dropped>>
      /\ ~Refuses(e)
  BY DEF Process
<1>2. Pending \subseteq Own /\ stored \subseteq Own
  BY QueuedType DEF IInv, TypeOK, Pending
<1>3. PendingBelow'
  BY DEF IInv, PendingBelow
<1>4. StoredBelow'
  BY <1>1 DEF IInv, StoredBelow, PendingBelow, Pending
<1>5. FreshUnfailed'
  BY <1>1 DEF IInv, FreshUnfailed
<1>6. NoRework'
  BY <1>1, <1>2, OneRootPerRound DEF IInv, NoRework
<1>7. NothingSkipped'
  BY <1>1 DEF IInv, NothingSkipped
<1>8. LateIsNew'
  BY <1>1 DEF IInv, LateIsNew, Refuses
<1>9. StoredUntilExpired'
  BY <1>1 DEF IInv, StoredUntilExpired
<1> QED BY <1>3, <1>4, <1>5, <1>6, <1>7, <1>8, <1>9 DEF IInv, DownIsEmpty

\* The queue and its invariants in the form of PopFacts and PushFacts.
LEMMA QueueFacts ==
    ASSUME IInv
    PROVE  /\ retry_queue \in Seq(ProcessingRetry)
           /\ Queued = EventsOf(retry_queue)
           /\ Distinct(retry_queue)
           /\ OldestFirst(retry_queue)
           /\ events \cap Queued = {}
           /\ RetryCountsFailures
  BY DEF IInv, TypeOK, Queued, PendingOnce, QueueOldestFirst, Distinct,
         OldestFirst

\* A pending message stays pending, or is given up, after a failed attempt; a
\* COMMIT it may have left behind is known to be unacknowledged.
LEMMA FailStep ==
    ASSUME IInv, TypeOK', pc # "down", pc' # "down",
           NEW e \in Pending, ProcessFails(e),
           Pending \ {e} \subseteq Pending',
           Pending' \subseteq Pending,
           e \in Pending' \/ e \in dropped',
           dropped \subseteq dropped',
           UNCHANGED <<head, start, abandoned>>
    PROVE  /\ StoredBelow' /\ LateIsNew' /\ StoredUntilExpired'
           /\ NoRework' /\ NothingSkipped'
<1>1. Pending \subseteq Own /\ stored \subseteq Own
  BY QueuedType DEF IInv, TypeOK, Pending
<1>2. /\ stored' = stored /\ published' = published /\ cutoff' = cutoff
      /\ \/ late' = late /\ unacknowledged' = unacknowledged
         \/ /\ late' = late \cup {e} /\ ~Refuses(e)
            /\ unacknowledged' = unacknowledged \cup {e}
  BY <1>1, ProcessFailsRows DEF ProcessFails
<1>3. StoredBelow'
  BY <1>2 DEF IInv, StoredBelow
<1>4. LateIsNew'
  <2>1. Block[e] <= head
    BY DEF IInv, PendingBelow, Pending
  <2> QED BY <1>2, <2>1 DEF IInv, LateIsNew, Refuses
<1>5. NoRework'
  BY <1>2 DEF IInv, NoRework
<1>6. NothingSkipped'
  BY <1>2 DEF IInv, NothingSkipped
<1>7. StoredUntilExpired'
  BY <1>2 DEF IInv, StoredUntilExpired
<1> QED BY <1>3, <1>4, <1>5, <1>6, <1>7

LEMMA ProcessEventStep == IInv /\ ProcessEvent => IInv'
<1> SUFFICES ASSUME IInv, ProcessEvent PROVE IInv'
  OBVIOUS
<1>1. TypeOK'
  BY TypeStep DEF IInv, Next, Step
<1>2. PICK e \in events \cap Own :
            /\ events' = events \ {e}
            /\ \/ Process(e) /\ UNCHANGED retry_queue
               \/ /\ ProcessFails(e)
                  /\ retry_queue' = Append(retry_queue, Retry(e, 1))
                  /\ UNCHANGED dropped
  BY DEF ProcessEvent
<1>3. /\ pc = "scan" /\ pc' = "scan"
      /\ UNCHANGED <<head, start, height, abandoned>>
  BY DEF ProcessEvent
<1>4. e \notin Queued /\ Block[e] < start /\ e \in Pending
  BY DEF IInv, PendingOnce, PendingBelow, Pending
<1>5. CASE Process(e) /\ UNCHANGED retry_queue
  <2>1. Queued' = Queued /\ failures' = failures
    BY <1>5 DEF Queued, Process
  <2>2. Pending' = Pending \ {e}
    BY <1>2, <1>4, <2>1 DEF Pending
  <2>3. PendingOnce' /\ QueueOldestFirst' /\ RetryCountsFailures'
    BY <1>2, <1>5, <2>1
       DEF IInv, PendingOnce, QueueOldestFirst, RetryCountsFailures
  <2> QED BY <1>1, <1>2, <1>3, <1>4, <1>5, <2>1, <2>2, <2>3, StoreStep
<1>6. CASE /\ ProcessFails(e)
           /\ retry_queue' = Append(retry_queue, Retry(e, 1))
           /\ UNCHANGED dropped
  <2>1. /\ Retry(e, 1) \in ProcessingRetry
        /\ Retry(e, 1).age = 0 /\ Retry(e, 1).event = e
        /\ Retry(e, 1).retry = 1
    BY ConfigAssumption DEF Retry, ProcessingRetry
  <2>2. /\ Queued' = Queued \cup {e}
        /\ Distinct(retry_queue')
        /\ OldestFirst(retry_queue')
    <3>1. Queued' = EventsOf(retry_queue')
      BY DEF Queued
    <3> QED BY <1>4, <1>6, <2>1, <3>1, QueueFacts, PushFacts
  <2>3. Pending' = Pending
    BY <1>2, <2>2 DEF Pending
  <2>4. /\ failures'[e] = 1
        /\ \A f \in Own : f # e => failures'[f] = failures[f]
    BY <1>2, <1>6, ProcessFailsFacts DEF IInv, TypeOK, FreshUnfailed
  <2>5. PendingBelow'
    BY <1>2, <1>3, <1>4, <2>2 DEF IInv, PendingBelow
  <2>6. FreshUnfailed'
    BY <1>2, <1>3, <1>4, <2>4, ChainAssumption DEF IInv, TypeOK, FreshUnfailed
  <2>7. PendingOnce' /\ QueueOldestFirst'
    BY <1>2, <1>4, <2>2
       DEF IInv, PendingOnce, QueueOldestFirst, Distinct, OldestFirst
  <2>8. RetryCountsFailures'
    <3> SUFFICES ASSUME NEW i \in DOMAIN retry_queue'
                 PROVE  retry_queue'[i].retry = failures'[retry_queue'[i].event]
      BY DEF RetryCountsFailures
    <3>1. CASE i \in DOMAIN retry_queue
      <4>1. retry_queue'[i] = retry_queue[i]
        BY <1>6, <2>1, <3>1, QueueFacts, AppendFacts
      <4>2. retry_queue[i].event \in Own /\ retry_queue[i].event # e
        BY <1>4, <3>1, QueuedType DEF IInv, Queued, EventsOf
      <4> QED BY <2>4, <3>1, <4>1, <4>2 DEF IInv, RetryCountsFailures
    <3>2. CASE i \notin DOMAIN retry_queue
      <4>1. retry_queue'[i] = Retry(e, 1)
        BY <1>6, <2>1, <3>2, QueueFacts, AppendFacts
      <4> QED BY <2>1, <2>4, <4>1
    <3> QED BY <3>1, <3>2
  <2>9. /\ StoredBelow' /\ LateIsNew' /\ StoredUntilExpired'
        /\ NoRework' /\ NothingSkipped'
    BY <1>1, <1>3, <1>4, <1>6, <2>3, FailStep
  <2> QED BY <1>1, <1>3, <2>5, <2>6, <2>7, <2>8, <2>9 DEF IInv, DownIsEmpty
<1> QED BY <1>2, <1>5, <1>6

LEMMA RetryEventStep == IInv /\ RetryEvent => IInv'
<1> SUFFICES ASSUME IInv, RetryEvent PROVE IInv'
  OBVIOUS
<1> DEFINE h == Head(retry_queue)
           e == h.event
           q == Tail(retry_queue)
<1>1. TypeOK'
  BY TypeStep DEF IInv, Next, Step
<1>2. /\ pc = "retry" /\ pc' = "retry"
      /\ UNCHANGED <<head, start, height, events, abandoned>>
  BY DEF RetryEvent
<1>3. /\ q \in Seq(ProcessingRetry)
      /\ h \in ProcessingRetry
      /\ e \in Queued
      /\ EventsOf(q) = Queued \ {e}
      /\ Distinct(q)
      /\ OldestFirst(q)
      /\ \A i \in DOMAIN q : i + 1 \in DOMAIN retry_queue /\ q[i] = retry_queue[i + 1]
      /\ h = retry_queue[1] /\ 1 \in DOMAIN retry_queue
  BY QueueFacts, PopFacts DEF RetryEvent
<1>4. e \in Own /\ e \notin events /\ e \in Pending /\ Block[e] < start
  BY <1>3, QueuedType DEF IInv, PendingOnce, PendingBelow, Pending
<1>5. /\ \A i \in DOMAIN q : q[i].retry = failures[q[i].event]
      /\ h.retry = failures[e]
  BY <1>3 DEF IInv, RetryCountsFailures
<1>6. \A i \in DOMAIN q : q[i].event \in Own /\ q[i].event # e
  <2>1. \A i \in DOMAIN q : q[i].event \in EventsOf(q)
    BY DEF EventsOf
  <2> QED BY <1>3, <2>1, QueuedType DEF IInv
<1>7. CASE Process(e) /\ retry_queue' = q
  <2>1. Queued' = Queued \ {e} /\ failures' = failures
    BY <1>3, <1>7 DEF Queued, Process
  <2>2. Pending' = Pending \ {e}
    BY <1>2, <1>4, <2>1 DEF Pending
  <2>3. PendingOnce' /\ QueueOldestFirst' /\ RetryCountsFailures'
    BY <1>2, <1>3, <1>5, <1>7, <2>1
       DEF IInv, PendingOnce, QueueOldestFirst, RetryCountsFailures, Distinct,
           OldestFirst
  <2> QED BY <1>1, <1>2, <1>4, <1>7, <2>1, <2>2, <2>3, StoreStep
<1>8. ASSUME ProcessFails(e)
      PROVE  /\ failures'[e] = h.retry + 1
             /\ \A f \in Own : f # e => failures'[f] = failures[f]
             /\ FreshUnfailed'
  <2>1. /\ failures'[e] = h.retry + 1
        /\ \A f \in Own : f # e => failures'[f] = failures[f]
    BY <1>4, <1>5, <1>8, ProcessFailsFacts DEF IInv, TypeOK
  <2>2. FreshUnfailed'
    BY <1>2, <1>4, <2>1, ChainAssumption DEF IInv, TypeOK, FreshUnfailed
  <2> QED BY <2>1, <2>2
<1>9. CASE /\ ProcessFails(e)
           /\ RetriesLeft(h.retry)
           /\ retry_queue' = Requeued(e, h.retry)
           /\ UNCHANGED dropped
  <2> DEFINE r == Retry(e, h.retry + 1)
  <2>1. r \in ProcessingRetry /\ r.age = 0 /\ r.event = e /\ r.retry = h.retry + 1
    BY <1>3, <1>4, <1>9, ConfigAssumption DEF Retry, RetriesLeft, ProcessingRetry
  <2>2. retry_queue' = Append(q, r)
    BY <1>9 DEF Requeued
  <2>3. /\ EventsOf(Append(q, r)) = EventsOf(q) \cup {e}
        /\ Distinct(Append(q, r))
        /\ OldestFirst(Append(q, r))
    BY <1>3, <2>1, PushFacts
  <2>4. Queued' = Queued
    BY <1>3, <2>2, <2>3 DEF Queued
  <2>5. Pending' = Pending
    BY <1>2, <2>4 DEF Pending
  <2>6. PendingBelow' /\ PendingOnce' /\ QueueOldestFirst'
    BY <1>2, <2>2, <2>3, <2>4
       DEF IInv, PendingBelow, PendingOnce, QueueOldestFirst, Distinct,
           OldestFirst
  <2>7. RetryCountsFailures'
    <3> SUFFICES ASSUME NEW i \in DOMAIN retry_queue'
                 PROVE  retry_queue'[i].retry = failures'[retry_queue'[i].event]
      BY DEF RetryCountsFailures
    <3>1. CASE i \in DOMAIN q
      <4>1. retry_queue'[i] = q[i]
        BY <1>3, <2>1, <2>2, <3>1, AppendFacts
      <4> QED BY <1>5, <1>6, <1>8, <1>9, <3>1, <4>1
    <3>2. CASE i \notin DOMAIN q
      <4>1. retry_queue'[i] = r
        BY <1>3, <2>1, <2>2, <3>2, AppendFacts
      <4> QED BY <1>8, <1>9, <2>1, <4>1
    <3> QED BY <3>1, <3>2
  <2>8. /\ StoredBelow' /\ LateIsNew' /\ StoredUntilExpired'
        /\ NoRework' /\ NothingSkipped'
    BY <1>1, <1>2, <1>4, <1>9, <2>5, FailStep
  <2> QED BY <1>1, <1>2, <1>8, <1>9, <2>6, <2>7, <2>8 DEF IInv, DownIsEmpty
<1>10. CASE /\ ProcessFails(e)
            /\ retry_queue' = q
            /\ dropped' = dropped \cup {e}
  <2>1. Queued' = Queued \ {e}
    BY <1>3, <1>10 DEF Queued
  <2>2. Pending' = Pending \ {e}
    BY <1>2, <1>4, <2>1 DEF Pending
  <2>3. PendingBelow' /\ PendingOnce' /\ QueueOldestFirst'
    BY <1>2, <1>3, <1>10, <2>1
       DEF IInv, PendingBelow, PendingOnce, QueueOldestFirst, Distinct,
           OldestFirst
  <2>4. RetryCountsFailures'
    BY <1>5, <1>6, <1>8, <1>10 DEF RetryCountsFailures
  <2>5. /\ StoredBelow' /\ LateIsNew' /\ StoredUntilExpired'
        /\ NoRework' /\ NothingSkipped'
    BY <1>1, <1>2, <1>4, <1>10, <2>2, FailStep
  <2> QED BY <1>1, <1>2, <1>8, <1>10, <2>3, <2>4, <2>5 DEF IInv, DownIsEmpty
<1> QED BY <1>7, <1>9, <1>10 DEF RetryEvent

LEMMA CrashStep == IInv /\ Crash => IInv'
<1> SUFFICES ASSUME IInv, Crash PROVE IInv'
  OBVIOUS
<1>1. TypeOK'
  BY TypeStep DEF IInv, Next
<1>2. /\ pc' = "down" /\ start' = 0 /\ height' = 0 /\ head' = head
      /\ events' = {} /\ retry_queue' = <<>>
      /\ failures' = [e \in Own |-> 0]
  BY DEF Crash
<1>3. Queued' = {} /\ Pending' = {}
  BY <1>2 DEF Pending, Queued, EventsOf
<1>4. height' <= head'
  BY <1>2 DEF IInv, TypeOK
<1>5. LateIsNew'
  <2>1. stored' = stored /\ unacknowledged' = late'
    BY DEF Crash
  <2>2. CASE late' = late
    BY <1>2, <2>1, <2>2 DEF IInv, LateIsNew
  <2>3. CASE \E e \in Own : InProcess(e) /\ LoseCommit(e)
    <3>1. PICK e \in Own : InProcess(e) /\ LoseCommit(e)
      BY <2>3
    <3>2. late' = late \cup {e} /\ ~Refuses(e)
      BY <3>1 DEF LoseCommit
    <3>3. e \in events \cup Queued
      <4>1. CASE e \in events
        BY <4>1
      <4>2. CASE e \notin events
        <5>1. retry_queue # <<>> /\ e = Head(retry_queue).event
          BY <3>1, <4>2 DEF InProcess
        <5> QED BY <5>1, QueueFacts, PopFacts
      <4> QED BY <4>1, <4>2
    <3>4. Block[e] <= head
      BY <3>3 DEF IInv, PendingBelow
    <3> QED BY <1>2, <2>1, <3>2, <3>4 DEF IInv, LateIsNew, Refuses
  <2> QED BY <2>2, <2>3 DEF Crash
<1>6. StoredUntilExpired'
  BY DEF IInv, StoredUntilExpired, Crash
<1> QED BY <1>1, <1>2, <1>3, <1>4, <1>5, <1>6
        DEF IInv, DownIsEmpty, PendingBelow, StoredBelow, FreshUnfailed,
            PendingOnce, NoRework, QueueOldestFirst, RetryCountsFailures,
            NothingSkipped

\* The outcome of a late COMMIT concerns a message that is unacknowledged, and
\* no row but its own.
LEMMA LateCommitStep == IInv /\ LateCommit => IInv'
<1> SUFFICES ASSUME IInv, LateCommit PROVE IInv'
  OBVIOUS
<1>1. TypeOK'
  BY TypeStep DEF IInv, Next
<1>2. PICK e \in late :
          /\ late' = late \ {e}
          /\ \/ /\ stored' = stored \cup {e} /\ published' = published \cup {e}
                /\ UNCHANGED unacknowledged
             \/ /\ unacknowledged' = unacknowledged \ {e}
                /\ UNCHANGED <<stored, published>>
  BY DEF LateCommit
<1>3. UNCHANGED <<head, cutoff, pc, start, height, events, retry_queue,
                  failures, dropped, abandoned>>
  BY DEF LateCommit
<1>4. Queued' = Queued /\ Pending' = Pending
  BY <1>3 DEF Pending, Queued
<1>5. /\ e \in unacknowledged /\ e \in Own
      /\ \A f \in stored : Round[f] # Round[e]
      /\ Pending \subseteq Own /\ stored \subseteq Own /\ late \subseteq Own
  BY QueuedType DEF IInv, TypeOK, LateIsNew, Pending
<1>6. CASE stored' = stored \cup {e} /\ published' = published \cup {e} /\ UNCHANGED unacknowledged
  <2>1. LateIsNew'
    <3>1. \A f \in late \ {e} : Round[e] # Round[f]
      BY <1>5, OneRootPerRound
    <3> QED BY <1>2, <1>3, <1>6, <3>1 DEF IInv, LateIsNew
  <2>2. StoredBelow'
    BY <1>3, <1>5, <1>6 DEF IInv, StoredBelow
  <2>3. NoRework'
    BY <1>4, <1>5, <1>6, OneRootPerRound DEF IInv, NoRework
  <2>4. NothingSkipped' /\ StoredUntilExpired'
    BY <1>3, <1>4, <1>6 DEF IInv, NothingSkipped, StoredUntilExpired
  <2> QED BY <1>1, <1>3, <1>4, <2>1, <2>2, <2>3, <2>4
          DEF IInv, DownIsEmpty, PendingBelow, FreshUnfailed, PendingOnce,
              QueueOldestFirst, RetryCountsFailures
<1>7. CASE unacknowledged' = unacknowledged \ {e} /\ UNCHANGED <<stored, published>>
  <2>1. LateIsNew'
    BY <1>2, <1>3, <1>7 DEF IInv, LateIsNew
  <2>2. StoredBelow'
    BY <1>3, <1>5, <1>7 DEF IInv, StoredBelow
  <2>3. NoRework'
    BY <1>4, <1>5, <1>7 DEF IInv, NoRework
  <2>4. NothingSkipped' /\ StoredUntilExpired'
    BY <1>3, <1>4, <1>7 DEF IInv, NothingSkipped, StoredUntilExpired
  <2> QED BY <1>1, <1>3, <1>4, <2>1, <2>2, <2>3, <2>4
          DEF IInv, DownIsEmpty, PendingBelow, FreshUnfailed, PendingOnce,
              QueueOldestFirst, RetryCountsFailures
<1> QED BY <1>2, <1>6, <1>7

LEMMA TickStep == IInv /\ Tick => IInv'
<1> SUFFICES ASSUME IInv, Tick PROVE IInv'
  OBVIOUS
<1>1. TypeOK'
  BY TypeStep DEF IInv, Next
<1>2. /\ DOMAIN retry_queue' = DOMAIN retry_queue
      /\ \A i \in DOMAIN retry_queue : retry_queue'[i] = Older(retry_queue[i])
      /\ UNCHANGED <<head, stored, late, cutoff, pc, start, height, events, failures,
                     unacknowledged, published, dropped, abandoned>>
  BY DEF Tick
<1>3. \A i \in DOMAIN retry_queue :
          /\ retry_queue'[i].event = retry_queue[i].event
          /\ retry_queue'[i].retry = retry_queue[i].retry
          /\ retry_queue'[i].age = IF retry_queue[i].age > RetryDelay
                                      THEN retry_queue[i].age
                                      ELSE retry_queue[i].age + 1
  BY <1>2, QueuedType, OlderFacts DEF IInv
<1>4. Queued' = Queued
  BY <1>2, <1>3 DEF Queued, EventsOf
<1>5. Pending' = Pending
  BY <1>2, <1>4 DEF Pending
<1>6. QueueOldestFirst'
  <2>1. \A i \in DOMAIN retry_queue : retry_queue[i].age \in 0 .. RetryDelay + 1
    BY QueuedType DEF IInv, ProcessingRetry
  <2> QED BY <1>2, <1>3, <2>1, ConfigAssumption DEF IInv, QueueOldestFirst
<1>7. PendingOnce' /\ RetryCountsFailures'
  BY <1>2, <1>3, <1>4 DEF IInv, PendingOnce, RetryCountsFailures
<1>8. DownIsEmpty'
  BY <1>2 DEF IInv, DownIsEmpty, Tick
<1> QED BY <1>1, <1>2, <1>4, <1>5, <1>6, <1>7, <1>8
        DEF IInv, PendingBelow, StoredBelow, LateIsNew, StoredUntilExpired,
            FreshUnfailed, NoRework, NothingSkipped

LEMMA DeleteHistoryStep == IInv /\ DeleteHistory => IInv'
<1> SUFFICES ASSUME IInv, DeleteHistory PROVE IInv'
  OBVIOUS
<1>1. TypeOK'
  BY TypeStep DEF IInv, Next
<1>2. /\ stored' \subseteq stored
      /\ UNCHANGED <<late, head, pc, start, height, events, retry_queue, failures,
                     unacknowledged, published, dropped, abandoned>>
  BY DEF DeleteHistory
<1>3. Queued' = Queued /\ Pending' = Pending
  BY <1>2 DEF Pending, Queued
<1>4. StoredUntilExpired'
  <2>1. PICK c \in Cutoffs, gone \in SUBSET stored :
            /\ c >= cutoff /\ gone \subseteq Expired(c)
            /\ cutoff' = c /\ stored' = stored \ gone
    BY DEF DeleteHistory
  <2>2. \A e \in published : Round[e] \in Nat
    BY ChainAssumption DEF IInv, TypeOK
  <2>3. cutoff \in Nat /\ c \in Nat
    BY ConfigAssumption DEF IInv, TypeOK
  <2>4. \A e \in published \ stored : Round[e] < c
    BY <2>1, <2>2, <2>3 DEF IInv, StoredUntilExpired
  <2>5. \A e \in gone : Round[e] < c
    BY <2>1 DEF Expired
  <2> QED BY <1>2, <2>1, <2>4, <2>5 DEF StoredUntilExpired
<1> QED BY <1>1, <1>2, <1>3, <1>4
        DEF IInv, DownIsEmpty, PendingBelow, StoredBelow, LateIsNew, FreshUnfailed,
            PendingOnce, NoRework, QueueOldestFirst, RetryCountsFailures,
            NothingSkipped

LEMMA InvStep == IInv /\ [Next]_vars => IInv'
<1> SUFFICES ASSUME IInv, [Next]_vars PROVE IInv'
  OBVIOUS
<1>1. TypeOK'
  BY TypeStep DEF IInv
<1>2. head \in Int /\ height <= head
  BY DEF IInv, TypeOK, PendingBelow
<1>3. CASE Poll
  BY <1>1, <1>2, <1>3, MoveStep DEF Poll
<1>4. CASE PollUpToDate
  BY <1>1, <1>2, <1>4, MoveStep DEF PollUpToDate
<1>5. CASE PollPastLastLog
  BY <1>1, <1>2, <1>5, MoveStep DEF PollPastLastLog
<1>6. CASE ScanDone
  BY <1>1, <1>2, <1>6, MoveStep DEF ScanDone
<1>7. CASE RetryQueueEmpty
  BY <1>1, <1>2, <1>7, MoveStep DEF RetryQueueEmpty
<1>8. CASE RetryNotDue
  BY <1>1, <1>2, <1>8, MoveStep DEF RetryNotDue
<1>9. CASE NewBlock
  <2>1. height' <= head' /\ head <= head'
    BY <1>2, <1>9 DEF NewBlock, IInv, TypeOK
  <2> QED BY <1>1, <1>9, <2>1, MoveStep DEF NewBlock
<1>10. CASE UNCHANGED vars
  BY <1>1, <1>2, <1>10, MoveStep DEF vars
<1> QED BY <1>3, <1>4, <1>5, <1>6, <1>7, <1>8, <1>9, <1>10, BootStep,
           GetLogsStep, SkipForeignStep, ProcessEventStep, RetryEventStep,
           CrashStep, LateCommitStep, TickStep, DeleteHistoryStep DEF Next, Step

LEMMA InvariantHolds == Spec => []IInv
  BY InvInit, InvStep, PTL DEF Spec

-----------------------------------------------------------------------------
(* The theorems                                                            *)

\* No message of a scanned block is ever unaccounted for.
THEOREM NoMessageSkipped == Spec => []NothingSkipped
<1>1. IInv => NothingSkipped
  BY DEF IInv
<1> QED BY <1>1, InvariantHolds, PTL

\* No pending message already has a row, across retries, crashes and
\* restarts, unless an earlier COMMIT that got through went unacknowledged:
\* otherwise the uniqueness constraint never fires.
THEOREM NoMessageReworked == Spec => []NoRework
<1>1. IInv => NoRework
  BY DEF IInv
<1> QED BY <1>1, InvariantHolds, PTL

\* No message is pending twice.
THEOREM NoMessagePendingTwice == Spec => []PendingOnce
<1>1. IInv => PendingOnce
  BY DEF IInv
<1> QED BY <1>1, InvariantHolds, PTL

\* The `break` at the first retry that is not due never hides one that is.
THEOREM RetryQueueSorted == Spec => []QueueOldestFirst
<1>1. IInv => QueueOldestFirst
  BY DEF IInv
<1> QED BY <1>1, InvariantHolds, PTL

\* The retry counter carried in the queue is the number of failed attempts.
THEOREM RetryCounterExact == Spec => []RetryCountsFailures
<1>1. IInv => RetryCountsFailures
  BY DEF IInv
<1> QED BY <1>1, InvariantHolds, PTL

\* A message is given up after exactly MaxRetry + 1 failures.
THEOREM GivenUpAfterAllRetries == Spec => DroppedAfterAllRetries
<1> DEFINE Lost == \A e \in dropped' \ dropped : failures'[e] = MaxRetry + 1
<1>1. IInv /\ [Next]_vars => [Lost]_vars
  <2> SUFFICES ASSUME IInv, Next, NEW e \in dropped' \ dropped
               PROVE  failures'[e] = MaxRetry + 1
    OBVIOUS
  <2>1. RetryEvent
    BY DEF Next, Step, Boot, Poll, PollUpToDate, PollPastLastLog, GetLogs,
           ScanDone, SkipForeignEvent, ProcessEvent, Process, RetryQueueEmpty,
           RetryNotDue, Crash, LateCommit, NewBlock, Tick, DeleteHistory
  <2> DEFINE h == Head(retry_queue)
  <2>2. /\ ProcessFails(h.event) /\ ~RetriesLeft(h.retry)
        /\ e = h.event
    BY <2>1 DEF RetryEvent, Process
  <2>3. h = retry_queue[1] /\ 1 \in DOMAIN retry_queue
    BY <2>1, QueueFacts, TailFacts DEF RetryEvent
  <2>4. h.retry = failures[h.event] /\ h.retry = MaxRetry /\ h.event \in Own
    <3>1. h \in ProcessingRetry /\ h.retry = failures[h.event]
      BY <2>3, QueuedType DEF IInv, RetryCountsFailures
    <3> QED BY <2>2, <3>1, ConfigAssumption DEF RetriesLeft, ProcessingRetry
  <2> QED BY <2>2, <2>4, ProcessFailsFacts DEF IInv, TypeOK
<1> QED BY <1>1, InvariantHolds, PTL DEF Spec, DroppedAfterAllRetries

\* A restart leaves a message behind only if a row at or past its block exists,
\* or the configured start height is past it or missing.
THEOREM AbandonedOnlyIfOvertaken == Spec => OnlyOvertakenAbandoned
<1> DEFINE Left == \A e \in abandoned' \ abandoned :
                       \/ \E f \in stored : Block[f] >= Block[e]
                       \/ StartHeight = Unset
                       \/ Block[e] < StartHeight
<1>1. TypeOK /\ [Next]_vars => [Left]_vars
  <2> SUFFICES ASSUME TypeOK, Next, NEW e \in abandoned' \ abandoned
               PROVE  \/ \E f \in stored : Block[f] >= Block[e]
                      \/ StartHeight = Unset
                      \/ Block[e] < StartHeight
    OBVIOUS
  <2>1. Boot
    BY DEF Next, Step, Poll, PollUpToDate, PollPastLastLog, GetLogs,
           ScanDone, SkipForeignEvent, ProcessEvent, RetryEvent,
           RetryQueueEmpty, RetryNotDue, Crash, LateCommit, NewBlock, Tick,
           DeleteHistory
  <2>2. PICK last \in 0 .. MaxHeight - 1 :
            /\ IsLastBlock(last)
            /\ abandoned' = {f \in Own : Block[f] < FirstBlock(last)}
                               \ (published \cup dropped)
    BY <2>1 DEF Boot
  <2>3. e \in Own /\ Block[e] < FirstBlock(last) /\ Block[e] \in Nat
    BY <2>2, ChainAssumption
  <2>4. CASE last # 0
    BY <2>2, <2>3, <2>4 DEF IsLastBlock, FirstBlock
  <2>5. CASE last = 0
    BY <2>3, <2>5 DEF FirstBlock, DefaultStartHeight
  <2> QED BY <2>4, <2>5
<1> QED BY <1>1, TypeCorrect, PTL DEF Spec, OnlyOvertakenAbandoned

-----------------------------------------------------------------------------
(* The ingest loop implements the abstract promise                         *)

Relayed == {Round[e] : e \in {f \in Own : Block[f] <= head}}
Available == {Round[e] : e \in stored}

LEMMA PromiseInit == Init => Promise!Init
<1> SUFFICES ASSUME Init PROVE Promise!Init
  OBVIOUS
<1>1. Relayed \in SUBSET {Round[e] : e \in Own}
  BY DEF Relayed
<1>2. Available = {} /\ cutoff = 0
  BY DEF Init, Available
<1> QED BY <1>1, <1>2 DEF Promise!Init, Relayed, Available

\* Storing a message, pending or late, publishes its round, once and after
\* finalisation.
LEMMA StoreIsPublish ==
    ASSUME IInv, NEW e \in Pending \cup late, \A f \in stored : Round[f] # Round[e],
           stored' = stored \cup {e}, head' = head, cutoff' = cutoff
    PROVE  Promise!Publish(Round[e])
<1>1. e \in Own /\ Block[e] <= head
  <2>1. CASE e \in Pending
    BY <2>1, QueuedType DEF IInv, TypeOK, Pending, PendingBelow
  <2>2. CASE e \in late
    BY <2>2 DEF IInv, TypeOK, LateIsNew
  <2> QED BY <2>1, <2>2
<1>2. Round[e] \in Relayed
  BY <1>1 DEF Relayed
<1>3. Round[e] \notin Available
  BY DEF Available
<1>4. Available' = Available \cup {Round[e]}
  BY DEF Available
<1>5. Relayed' = Relayed /\ cutoff' = cutoff
  BY DEF Relayed
<1> QED BY <1>2, <1>3, <1>4, <1>5 DEF Promise!Publish, Relayed, Available

LEMMA PromiseStep == IInv /\ [Next]_vars => [Promise!Next]_(Promise!daVars)
<1> SUFFICES ASSUME IInv, [Next]_vars
             PROVE  Promise!Next \/ UNCHANGED Promise!daVars
  OBVIOUS
<1>1. ASSUME head' = head, stored' = stored, cutoff' = cutoff
      PROVE  UNCHANGED Promise!daVars
  BY <1>1 DEF Promise!daVars
<1>2. ASSUME NEW e \in Pending, Process(e) \/ ProcessFails(e), head' = head
      PROVE  Promise!Next \/ UNCHANGED Promise!daVars
  <2>1. e \in Own
    BY QueuedType DEF IInv, TypeOK, Pending
  <2>2. CASE Process(e)
    BY <1>2, <2>1, <2>2, StoreIsPublish DEF Process, Refuses, Promise!Next
  <2>3. CASE ProcessFails(e)
    BY <1>1, <1>2, <2>3 DEF ProcessFails
  <2> QED BY <1>2, <2>2, <2>3
<1>3. CASE Boot
  BY <1>1, <1>3 DEF Boot
<1>4. CASE Poll
  BY <1>1, <1>4 DEF Poll
<1>5. CASE PollUpToDate
  BY <1>1, <1>5 DEF PollUpToDate
<1>6. CASE PollPastLastLog
  BY <1>1, <1>6 DEF PollPastLastLog
<1>7. CASE GetLogs
  BY <1>1, <1>7 DEF GetLogs
<1>8. CASE ScanDone
  BY <1>1, <1>8 DEF ScanDone
<1>9. CASE SkipForeignEvent
  BY <1>1, <1>9 DEF SkipForeignEvent
<1>10. CASE ProcessEvent
  <2>1. PICK e \in events \cap Own : Process(e) \/ ProcessFails(e)
    BY <1>10 DEF ProcessEvent
  <2>2. head' = head /\ e \in Pending
    BY <1>10 DEF ProcessEvent, Pending
  <2> QED BY <1>2, <2>1, <2>2
<1>11. CASE RetryQueueEmpty
  BY <1>1, <1>11 DEF RetryQueueEmpty
<1>12. CASE RetryNotDue
  BY <1>1, <1>12 DEF RetryNotDue
<1>13. CASE RetryEvent
  <2> DEFINE e == Head(retry_queue).event
  <2>1. head' = head /\ (Process(e) \/ ProcessFails(e))
    BY <1>13 DEF RetryEvent
  <2>2. e \in Pending
    BY <1>13, QueueFacts, PopFacts DEF RetryEvent, Pending
  <2> QED BY <1>2, <2>1, <2>2
<1>14. CASE Crash
  BY <1>1, <1>14 DEF Crash
<1>19. CASE LateCommit
  <2>1. PICK e \in late : stored' = stored \/ stored' = stored \cup {e}
    BY <1>19 DEF LateCommit
  <2>2. /\ head' = head /\ cutoff' = cutoff /\ e \in Own
        /\ \A f \in stored : Round[f] # Round[e]
    BY <1>19 DEF LateCommit, IInv, TypeOK, LateIsNew
  <2>3. CASE stored' = stored
    BY <1>1, <2>2, <2>3
  <2>4. CASE stored' = stored \cup {e}
    BY <2>2, <2>4, StoreIsPublish DEF Promise!Next
  <2> QED BY <2>1, <2>3, <2>4
<1>15. CASE NewBlock
  <2> DEFINE S == {Round[e] : e \in Own}
  <2>1. Relayed' \in SUBSET S /\ Available' = Available /\ cutoff' = cutoff
    BY <1>15 DEF NewBlock, Relayed, Available
  <2>2. Relayed \subseteq Relayed'
    <3>1. head \in Int /\ head' = head + 1
      BY <1>15 DEF NewBlock, IInv, TypeOK
    <3>2. \A e \in Own : Block[e] \in Int
      BY ChainAssumption
    <3> QED BY <3>1, <3>2 DEF Relayed
  <2>3. Relayed' = Relayed \cup Relayed'
    BY <2>2
  <2> QED BY <2>1, <2>3 DEF Promise!Next, Promise!Relay, Relayed, Available
<1>16. CASE Tick
  BY <1>1, <1>16 DEF Tick
<1>17. CASE DeleteHistory
  <2>1. cutoff' \in Nat /\ cutoff' >= cutoff
    BY <1>17, TypeStep DEF DeleteHistory, IInv, TypeOK
  <2>2. PICK c \in Cutoffs, gone \in SUBSET stored :
            gone \subseteq Expired(c) /\ cutoff' = c /\ stored' = stored \ gone
    BY <1>17 DEF DeleteHistory
  <2>3. Relayed' = Relayed
    BY <1>17 DEF DeleteHistory, Relayed
  <2> DEFINE Gone == Available \ Available'
  <2>4. Available' = Available \ Gone
    BY <2>2 DEF Available
  <2>5. Gone \in SUBSET {r \in Available : r < cutoff'}
    BY <2>2 DEF Available, Expired
  <2>6. Promise!Expire
    BY <2>1, <2>3, <2>4, <2>5 DEF Promise!Expire, Relayed, Available
  <2> QED BY <2>6 DEF Promise!Next
<1>18. CASE UNCHANGED vars
  BY <1>1, <1>18 DEF vars
<1> QED BY <1>3, <1>4, <1>5, <1>6, <1>7, <1>8, <1>9, <1>10, <1>11, <1>12,
           <1>13, <1>14, <1>15, <1>16, <1>17, <1>18, <1>19 DEF Next, Step

\* The rows refine the promise: every round is published at most once, only
\* after finalisation, and disappears only when history expires.
THEOREM ProcessorImplementsPromise == Spec => ImplementsPromise
  BY PromiseInit, PromiseStep, InvariantHolds, PTL
     DEF Spec, ImplementsPromise, Promise!Spec

=============================================================================
