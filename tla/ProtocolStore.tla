--------------------------- MODULE ProtocolStore ---------------------------
(***************************************************************************)
(* The four tables of the database and the processes that share them:      *)
(*                                                                         *)
(*  - one ingest process per protocol, whose Processor.process             *)
(*    (processing/ftso_processing.py, processing/fdc_processing.py) inserts*)
(*    the root and the data of a round in one transaction;                 *)
(*  - delete_history, which drops old rounds from all four tables in one   *)
(*    transaction of four DELETE statements;                               *)
(*  - the FTSO view (ftso/views.py), which answers one request with up to  *)
(*    four queries and no transaction.                                     *)
(*                                                                         *)
(* The isolation level is PostgreSQL's default, READ COMMITTED: a statement*)
(* sees what was committed when it began, so statements of a transaction,  *)
(* or queries of a request, may each see another state.  unique_together   *)
(* (protocol_id, voting_round_id) of the roots is enforced against other   *)
(* open transactions too: an INSERT waits for them to end.                 *)
(*                                                                         *)
(* Abstractions                                                            *)
(*  - All rows of a round in one table come and go in one statement, so a  *)
(*    Row stands for them.  Its gen stands for their primary keys: it tells*)
(*    the rows of one insertion from those of another one of the round.    *)
(*  - A round is finalised for every protocol when it is over.             *)
(*  - Nothing is assumed about which finalised rounds are processed, in    *)
(*    which order or how often: a retry of a round that is stored, because *)
(*    the acknowledgement of its COMMIT was lost, is among the behaviours. *)
(*  - The rows of a round carry its number.  For attestations no code checks*)
(*    the roundId that a provider sends (fdc/models.py:74, 98); a row with  *)
(*    another one would be read, and deleted, with the rows of that round.  *)
(***************************************************************************)
EXTENDS Integers, Sequences, FiniteSets

CONSTANTS
    Protocols,             \* the protocols configured: "ftso", "fdc"
    History,               \* HISTORY_KEEP_ROUNDS
    MaxRound,              \* bound: the last voting round
    MaxLate,               \* bound: COMMITs in flight without their process
    MaxCrashes             \* bound: crashes of delete_history

ASSUME ProtocolsAssumption == Protocols \subseteq {"ftso", "fdc"}

ASSUME HistoryAssumption ==
    /\ History \in Nat
    /\ MaxRound \in Nat
    /\ MaxLate \in Nat
    /\ MaxCrashes \in Nat

VARIABLES
    now,                   \* the current voting round
    rows,                  \* committed rows
    txn,                   \* per protocol: the ingest transaction
    late,                  \* transactions with COMMIT sent and nobody waiting
    stmt,                  \* delete_history's next statement; 0 when asleep
    cutoff,                \* delete_history's local: the oldest round to keep
    doomed,                \* rows deleted by its open transaction
    horizon,               \* history: the last cutoff committed
    request,               \* the FTSO request being served
    crashes                \* bound

vars == <<now, rows, txn, late, stmt, cutoff, doomed, horizon, request, crashes>>

Rounds == 0 .. MaxRound
Tables == {"root", "random", "feed", "attestation"}

\* The order of the INSERT statements (bulk_create) of each protocol.
Inserts == [ftso |-> <<"root", "random", "feed">>,
            fdc  |-> <<"root", "attestation">>]

DataTables(p) == {Inserts[p][i] : i \in 2 .. Len(Inserts[p])}

\* A primary key is never used again.  Two would do: a row that outlives the
\* deletion of its round, and one insertion since.
Keys == 0 .. 2

Row == [protocol : Protocols, table : Tables, round : Rounds, gen : Keys]

RowsOf(p, t, r) ==
    {row \in rows : row.protocol = p /\ row.table = t /\ row.round = r}

HasRoot(p, r) == RowsOf(p, "root", r) # {}

Transaction == [protocol : Protocols, round : Rounds, gen : Keys, done : 1 .. 3]

Idle == [done |-> 0]

Endpoints == {"names", "proofs"}

Request == [step : {"none", "tree", "data", "done"}, endpoint : Endpoints,
            round : Rounds, read : 0 .. 2, tree : SUBSET Row, data : SUBSET Row,
            had_root : BOOLEAN, status : {0, 200, 400, 404}]

NoRequest == [step |-> "none", endpoint |-> "names", round |-> 0, read |-> 0,
              tree |-> {}, data |-> {}, had_root |-> FALSE, status |-> 0]

\* Not behind a deletion that is committed.
Live(r) == r >= horizon

TypeOK ==
    /\ now \in Rounds
    /\ rows \in SUBSET Row
    /\ txn \in [Protocols -> Transaction \cup {Idle}]
    /\ \A p \in Protocols : txn[p] # Idle => txn[p].protocol = p
    /\ late \in SUBSET Transaction
    /\ stmt \in 0 .. 5
    /\ cutoff \in Rounds
    /\ doomed \in SUBSET Row
    /\ horizon \in Rounds
    /\ request \in Request
    /\ crashes \in 0 .. MaxCrashes

Init ==
    /\ now = 0
    /\ rows = {}
    /\ txn = [p \in Protocols |-> Idle]
    /\ late = {}
    /\ stmt = 0
    /\ cutoff = 0
    /\ doomed = {}
    /\ horizon = 0
    /\ request = NoRequest
    /\ crashes = 0

NextRound ==
    /\ now < MaxRound
    /\ now' = now + 1
    /\ UNCHANGED <<rows, txn, late, stmt, cutoff, doomed, horizon, request,
                   crashes>>

-----------------------------------------------------------------------------
(* Processor.process: fetch_merkle_tree succeeded, then transaction.atomic *)

\* Mutant: no unique_together.
RefusesNothing(p, r) == FALSE

\* The unique index has the root of the round: committed (the INSERT raises
\* IntegrityError, or waits if delete_history is about to commit its deletion)
\* or inserted by a transaction that is still open (it waits).
Refuses(p, r) ==
    \/ HasRoot(p, r)
    \/ \E x \in late : x.protocol = p /\ x.round = r

IsNewKey(p, r, key) ==
    LET used == {row.gen : row \in {row \in rows : row.protocol = p /\ row.round = r}}
    IN  key \notin used /\ \A k \in Keys \ used : key <= k

\* transaction.atomic and its first statement, bulk_create([root]).  When that
\* is refused the exception rolls the empty transaction back: nothing changes.
Begin(p) ==
    /\ txn[p] = Idle
    /\ \E r \in 0 .. now - 1, key \in Keys :
          /\ ~Refuses(p, r)
          /\ IsNewKey(p, r, key)
          /\ txn' = [txn EXCEPT ![p] =
                        [protocol |-> p, round |-> r, gen |-> key, done |-> 1]]
    /\ UNCHANGED <<now, rows, late, stmt, cutoff, doomed, horizon, request,
                   crashes>>

\* The next bulk_create; nobody else sees its rows yet.
BulkCreate(p) ==
    /\ txn[p] # Idle
    /\ txn[p].done < Len(Inserts[p])
    /\ txn' = [txn EXCEPT ![p].done = @ + 1]
    /\ UNCHANGED <<now, rows, late, stmt, cutoff, doomed, horizon, request,
                   crashes>>

Inserted(x) ==
    {[protocol |-> x.protocol, table |-> Inserts[x.protocol][i],
      round |-> x.round, gen |-> x.gen] : i \in 1 .. x.done}

\* Mutant: every bulk_create commits by itself, without transaction.atomic.
ReadyToCommitEarly(p) == txn[p] # Idle

ReadyToCommit(p) == txn[p] # Idle /\ txn[p].done = Len(Inserts[p])

\* COMMIT.  The process may learn of it, or its connection breaks before the
\* answer: then the message goes to the retry queue although it is stored.
Commit(p) ==
    /\ ReadyToCommit(p)
    /\ rows' = rows \cup Inserted(txn[p])
    /\ txn' = [txn EXCEPT ![p] = Idle]
    /\ UNCHANGED <<now, late, stmt, cutoff, doomed, horizon, request, crashes>>

\* The database refuses a statement, the connection breaks or the process dies
\* before COMMIT: the transaction is rolled back.
Rollback(p) ==
    /\ txn[p] # Idle
    /\ txn' = [txn EXCEPT ![p] = Idle]
    /\ UNCHANGED <<now, rows, late, stmt, cutoff, doomed, horizon, request,
                   crashes>>

\* The connection breaks or the process dies with COMMIT on its way: the
\* process, or its successor, goes on before the outcome is known.
LoseCommit(p) ==
    /\ ReadyToCommit(p)
    /\ Cardinality(late) < MaxLate
    /\ late' = late \cup {txn[p]}
    /\ txn' = [txn EXCEPT ![p] = Idle]
    /\ UNCHANGED <<now, rows, stmt, cutoff, doomed, horizon, request, crashes>>

\* The outcome of such a COMMIT.
LateCommit ==
    /\ \E x \in late :
          /\ late' = late \ {x}
          /\ rows' \in {rows, rows \cup Inserted(x)}
    /\ UNCHANGED <<now, txn, stmt, cutoff, doomed, horizon, request, crashes>>

-----------------------------------------------------------------------------
(* delete_history                                                          *)

\* Mutant: the history kept is added to the current round.
CutoffAhead == now + History

Cutoff == now - History

\* Mutants: the root is deleted first; a data table is forgotten; the round at
\* the cutoff is deleted too.
DeleteOrderRootFirst == <<"root", "random", "feed", "attestation">>

DeleteOrderNoFeed == <<"attestation", "random", "root">>

DeleteOrderNoAttestation == <<"feed", "random", "root">>

DeleteOrder == <<"attestation", "feed", "random", "root">>

OldInclusive(row) == row.round <= cutoff

Old(row) == row.round < cutoff

WakeDeleter ==
    /\ stmt = 0
    /\ now >= History
    /\ stmt' = 1
    /\ cutoff' = Cutoff
    /\ UNCHANGED <<now, rows, txn, late, doomed, horizon, request, crashes>>

\* One DELETE: it marks the old rows committed by now and no others.
Delete ==
    /\ stmt \in 1 .. Len(DeleteOrder)
    /\ doomed' = doomed \cup
          {row \in rows : row.table = DeleteOrder[stmt] /\ Old(row)}
    /\ stmt' = stmt + 1
    /\ UNCHANGED <<now, rows, txn, late, cutoff, horizon, request, crashes>>

CommitDelete ==
    /\ stmt = Len(DeleteOrder) + 1
    /\ rows' = rows \ doomed
    /\ horizon' = cutoff
    /\ stmt' = 0
    /\ cutoff' = 0
    /\ doomed' = {}
    /\ UNCHANGED <<now, txn, late, request, crashes>>

\* The transaction is rolled back; docker restarts the process.
CrashDeleter ==
    /\ stmt # 0
    /\ crashes < MaxCrashes
    /\ crashes' = crashes + 1
    /\ stmt' = 0
    /\ cutoff' = 0
    /\ doomed' = {}
    /\ UNCHANGED <<now, rows, txn, late, horizon, request>>

-----------------------------------------------------------------------------
(* FeedResultViewSet: anchor_feed_names, anchor_feeds_with_proof           *)

Ask(endpoint, r) ==
    [NoRequest EXCEPT !.step = IF endpoint = "names" THEN "data" ELSE "tree",
                      !.endpoint = endpoint,
                      !.round = r,
                      !.had_root = HasRoot("ftso", r)]

\* voting_round_id is in the query.
AskRound ==
    /\ request = NoRequest
    /\ \E endpoint \in Endpoints, r \in Rounds : request' = Ask(endpoint, r)
    /\ UNCHANGED <<now, rows, txn, late, stmt, cutoff, doomed, horizon,
                   crashes>>

\* It is not: FeedResult.objects.latest("voting_round_id").
AskLatest ==
    /\ request = NoRequest
    /\ \E endpoint \in Endpoints, row \in rows :
          /\ row.table = "feed"
          /\ \A other \in rows : other.table = "feed" => other.round <= row.round
          /\ request' = Ask(endpoint, row.round)
    /\ UNCHANGED <<now, rows, txn, late, stmt, cutoff, doomed, horizon,
                   crashes>>

\* DoesNotExist: None, and 404 from both endpoints.
AskLatestOfNone ==
    /\ request = NoRequest
    /\ \A row \in rows : row.table # "feed"
    /\ request' = [NoRequest EXCEPT !.step = "done", !.status = 404]
    /\ UNCHANGED <<now, rows, txn, late, stmt, cutoff, doomed, horizon,
                   crashes>>

\* Mutant: the queryset of the feeds is evaluated where it is written.
ReadOrderFeedsFirst == <<"feed", "random">>

\* get_merkle_tree_for_round: the queryset of the feeds is lazy, so the random
\* number is read first.
ReadOrder == <<"random", "feed">>

Reading(t) == request.step = "tree" /\ ReadOrder[request.read + 1] = t

AddToTree(leaves) ==
    request' = [request EXCEPT
                   !.read = @ + 1,
                   !.tree = @ \cup leaves,
                   !.step = IF request.read + 1 = Len(ReadOrder) THEN "data"
                                                                 ELSE @]

ReadRandom ==
    /\ Reading("random")
    /\ \E row \in RowsOf("ftso", "random", request.round) : AddToTree({row})
    /\ UNCHANGED <<now, rows, txn, late, stmt, cutoff, doomed, horizon,
                   crashes>>

\* ValueError: 400.
ReadNoRandom ==
    /\ Reading("random")
    /\ RowsOf("ftso", "random", request.round) = {}
    /\ request' = [request EXCEPT !.step = "done", !.status = 400]
    /\ UNCHANGED <<now, rows, txn, late, stmt, cutoff, doomed, horizon,
                   crashes>>

\* The tree is built from the feeds there are now...
ReadFeeds ==
    /\ Reading("feed")
    /\ AddToTree(RowsOf("ftso", "feed", request.round))
    /\ UNCHANGED <<now, rows, txn, late, stmt, cutoff, doomed, horizon,
                   crashes>>

\* ...and the answer from the feeds there are later: those asked for with their
\* proofs, or the names of all.
ReadData ==
    /\ request.step = "data"
    /\ request' = [request EXCEPT !.step = "done", !.status = 200,
                      !.data = RowsOf("ftso", "feed", request.round)]
    /\ UNCHANGED <<now, rows, txn, late, stmt, cutoff, doomed, horizon,
                   crashes>>

Respond ==
    /\ request.step = "done"
    /\ request' = NoRequest
    /\ UNCHANGED <<now, rows, txn, late, stmt, cutoff, doomed, horizon,
                   crashes>>

-----------------------------------------------------------------------------

Ingest(p) == Begin(p) \/ BulkCreate(p) \/ Commit(p)

Deleter == WakeDeleter \/ Delete \/ CommitDelete

View ==
    \/ AskRound
    \/ AskLatest
    \/ AskLatestOfNone
    \/ ReadRandom
    \/ ReadNoRandom
    \/ ReadFeeds
    \/ ReadData
    \/ Respond

StoreNext ==
    \/ NextRound
    \/ \E p \in Protocols : Ingest(p) \/ Rollback(p) \/ LoseCommit(p)
    \/ LateCommit
    \/ Deleter
    \/ CrashDeleter

Next == StoreNext \/ View

Spec == Init /\ [][Next]_vars

\* docker keeps delete_history running, and a DELETE ends.
FairSpec == Spec /\ WF_vars(Deleter)

-----------------------------------------------------------------------------
(* Properties                                                              *)

\* fsp/views.py:53 "for this to work saving to DB must be atomic": a root that
\* /status can report has the data of its round, though delete_history removes
\* the data in earlier statements than the root and sees other states in each.
RootHasData ==
    \A row \in rows : row.table = "root" =>
        \A t \in DataTables(row.protocol) : RowsOf(row.protocol, t, row.round) # {}

\* The data tables have no unique constraint.  A round within the history has
\* its data once, together with its root, or not at all, also when a message is
\* retried whose COMMIT had got through (main.py:105-112) or still will; what
\* delete_history and a concurrent insertion leave behind is older.
LiveDataOnce ==
    \A row \in rows : Live(row.round) =>
        /\ RowsOf(row.protocol, row.table, row.round) = {row}
        /\ HasRoot(row.protocol, row.round)

\* A list of proofs for a round within the history has one random number and
\* one set of feeds in its tree, those of the finalised round, and answers from
\* them.
ProofsVerify ==
    request.status = 200 /\ request.endpoint = "proofs" /\ Live(request.round) =>
        /\ {row.table : row \in request.tree} = {"random", "feed"}
        /\ Cardinality(request.tree) = 2
        /\ request.data = {row \in request.tree : row.table = "feed"}

\* A round that had its root when the request came, as /status would have
\* told the client, is answered, and not by an empty list, unless it has been
\* deleted since.
ServedIfPublished ==
    request.step = "done" /\ request.had_root /\ Live(request.round) =>
        request.status = 200 /\ request.data # {}

\* The FTSO tables implement the abstract promise.
Promise == INSTANCE DataAvailability WITH
    Rounds <- Rounds,
    relayed <- 0 .. now - 1,
    available <- {r \in Rounds : HasRoot("ftso", r)},
    horizon <- horizon

ImplementsPromise == Promise!Spec

\* The rounds that are behind the history in the end.
OldAtLast == {r \in Rounds : r < MaxRound - History}

\* A row of any table that a protocol is stored in is eventually deleted once
\* it is behind the history, also data without a root and rows inserted between
\* two of the DELETE statements.
OldRowsGo ==
    \A p \in Protocols, r \in OldAtLast, gen \in Keys :
        \A t \in {"root"} \cup DataTables(p) :
            LET row == [protocol |-> p, table |-> t, round |-> r, gen |-> gen]
            IN  [](row \in rows /\ r < now - History => <>(row \notin rows))

=============================================================================
