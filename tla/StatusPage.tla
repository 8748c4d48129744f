----------------------------- MODULE StatusPage -----------------------------
(***************************************************************************)
(* /status of FspViewSet (src/fsp/views.py): which voting round is active, *)
(* and the latest round each protocol has in the tables.  A client learns  *)
(* from it what to ask the other views for.                                *)
(*                                                                         *)
(* cache_page(10) keeps the page in the FallbackCache of                   *)
(* src/project/cache.py: in redis, which the workers share, or in the      *)
(* memory of one worker.  A thread asks only the latter while redis is down*)
(* or during a cooldown; the module FallbackCache shows when that is, and  *)
(* here every call may be in one.                                          *)
(*                                                                         *)
(* Abstractions                                                            *)
(*  - Rows are the roots of a protocol, which stand for the round's data.  *)
(*  - latest-voting-round is the active part of this page.                 *)
(*  - start_timestamp is a function of the round beside it.                *)
(*  - A request is over MaxRequest ticks after its lookup in the cache.    *)
(***************************************************************************)
EXTENDS Integers, FiniteSets

CONSTANTS
    Workers,               \* gunicorn's processes
    Threads,               \* of each worker
    Protocols,             \* those with an indexer: "ftso", "fdc"
    Timeout,               \* cache_page(10), in ticks
    MaxRequest,            \* assumption: the longest request, in ticks
    RoundLength,           \* a voting round, in ticks
    History,               \* HISTORY_KEEP_ROUNDS
    MaxClock               \* bound: the last tick

ASSUME StatusAssumption ==
    /\ Protocols \subseteq {"ftso", "fdc"}
    /\ {Timeout, RoundLength} \subseteq Nat \ {0}
    /\ {MaxRequest, History, MaxClock} \subseteq Nat

VARIABLES
    clock,
    rows,                  \* per protocol: the rounds in the tables
    ago,                   \* history: ticks since a round was the latest one
    redis_up,              \* whether redis answers
    page_in,               \* what the caches hold, and for how long
    request                \* per thread: the request being served

vars == <<clock, rows, ago, redis_up, page_in, request>>

RoundAt(tick) == tick \div RoundLength
now == RoundAt(clock)
Rounds == 0 .. RoundAt(MaxClock)

\* The oldest that what a page says can be; ages saturate here.
MaxAge == Timeout + MaxRequest

\* No row: {"voting_round_id": -1, "start_timestamp": -1}.
None == -1

Clients == Workers \X Threads

\* redis, and the LocMemCache "fallback" of each worker.
Caches == {"redis"} \cup Workers

Page == [active : Rounds, latest : [{"ftso", "fdc"} -> Rounds \cup {None}]]
BlankPage == [active |-> 0, latest |-> [p \in {"ftso", "fdc"} |-> None]]

Empty == [page |-> BlankPage, ttl |-> 0]
NoRequest == [step |-> "none", age |-> 0, page |-> BlankPage]

TypeOK ==
    /\ clock \in 0 .. MaxClock
    /\ rows \in [Protocols -> SUBSET Rounds]
    /\ ago \in [Protocols -> [Rounds \cup {None} -> 0 .. MaxAge]]
    /\ redis_up \in BOOLEAN
    /\ page_in \in [Caches -> [page : Page, ttl : Nat]]
    /\ request \in [Clients -> [step : {"none", "now", "ftso", "fdc", "set", "done"},
                                age : 0 .. MaxRequest, page : Page]]

Init ==
    /\ clock = 0
    /\ rows = [p \in Protocols |-> {}]
    /\ ago = [p \in Protocols |->
                [r \in Rounds \cup {None} |-> IF r = None THEN 0 ELSE MaxAge]]
    /\ redis_up \in BOOLEAN
    /\ page_in = [c \in Caches |-> Empty]
    /\ request = [t \in Clients |-> NoRequest]

-----------------------------------------------------------------------------
(* The tables                                                              *)

Newest(rounds) ==
    IF rounds = {} THEN None
    ELSE CHOOSE r \in rounds : \A other \in rounds : other <= r

ChangeRows(p, rounds) ==
    /\ rows' = [rows EXCEPT ![p] = rounds]
    /\ ago' = [ago EXCEPT ![p][Newest(rounds)] = 0]

\* Ingest stores a round that is over, in any order.
Commit(p) ==
    /\ \E r \in 0 .. now - 1 :
          /\ r \notin rows[p]
          /\ ChangeRows(p, rows[p] \cup {r})
    /\ UNCHANGED <<clock, redis_up, page_in, request>>

\* Mutant: the round at the cutoff goes too.
OldInclusive(r) == r <= now - History

Old(r) == r < now - History

\* delete_history.
DropOld(p) ==
    /\ \E r \in rows[p] : Old(r)
    /\ ChangeRows(p, {r \in rows[p] : ~Old(r)})
    /\ UNCHANGED <<clock, redis_up, page_in, request>>

-----------------------------------------------------------------------------
(* The caches                                                              *)

\* Where a call of thread t may end up: _call falls back when redis raises,
\* and does not try it during a cooldown.
Asked(t) == IF redis_up THEN {"redis", t[1]} ELSE {t[1]}

Has(c) == page_in[c].ttl > 0

\* Mutant: set without its timeout, for which Django has a longer default.
TimeToLiveByDefault == 3 * Timeout

TimeToLive == Timeout

RedisGoesDown ==
    /\ redis_up
    /\ redis_up' = FALSE
    /\ UNCHANGED <<clock, rows, ago, page_in, request>>

\* Redis is back, or its network, with or without its contents.
RedisComesUp ==
    /\ ~redis_up
    /\ redis_up' = TRUE
    /\ page_in' \in {page_in, [page_in EXCEPT !["redis"] = Empty]}
    /\ UNCHANGED <<clock, rows, ago, request>>

-----------------------------------------------------------------------------
(* A request                                                               *)

\* cache_page finds the page: the view is not called.
Hit(t) ==
    /\ request[t] = NoRequest
    /\ \E c \in Asked(t) :
          /\ Has(c)
          /\ request' = [request EXCEPT
                ![t] = [NoRequest EXCEPT !.step = "done", !.page = page_in[c].page]]
    /\ UNCHANGED <<clock, rows, ago, redis_up, page_in>>

\* It makes two calls, for the headers and for the page, and either may find
\* nothing.
Miss(t) ==
    /\ request[t] = NoRequest
    /\ \E c \in Asked(t) : ~Has(c)
    /\ request' = [request EXCEPT ![t].step = "now"]
    /\ UNCHANGED <<clock, rows, ago, redis_up, page_in>>

\* Mutant: the round that begins next.
ActiveNext == now + 1

Active == now

\* ve = config.epoch.voting_epoch_factory.now()
ReadNow(t) ==
    /\ request[t].step = "now"
    /\ request' = [request EXCEPT ![t].step = "ftso", ![t].page.active = Active]
    /\ UNCHANGED <<clock, rows, ago, redis_up, page_in>>

\* A protocol without an indexer has no rows.
RowsOf(p) == IF p \in Protocols THEN rows[p] ELSE {}

\* Both protocols are asked for: config has both, with or without providers.
Latest(p) == Newest(RowsOf(p))

QueryLatest(t, p, next) ==
    /\ request[t].step = p
    /\ request' = [request EXCEPT ![t].step = next, ![t].page.latest[p] = Latest(p)]
    /\ UNCHANGED <<clock, rows, ago, redis_up, page_in>>

\* A query raises: nothing is cached.
QueryFails(t) ==
    /\ request[t].step \in {"ftso", "fdc"}
    /\ request' = [request EXCEPT ![t] = NoRequest]
    /\ UNCHANGED <<clock, rows, ago, redis_up, page_in>>

SetPage(t) ==
    /\ request[t].step = "set"
    /\ \E c \in Asked(t) :
          page_in' = [page_in EXCEPT
                         ![c] = [page |-> request[t].page, ttl |-> TimeToLive]]
    /\ request' = [request EXCEPT ![t].step = "done"]
    /\ UNCHANGED <<clock, rows, ago, redis_up>>

Respond(t) ==
    /\ request[t].step = "done"
    /\ request' = [request EXCEPT ![t] = NoRequest]
    /\ UNCHANGED <<clock, rows, ago, redis_up, page_in>>

-----------------------------------------------------------------------------

\* A request that has its answer is as good as over.
InTime(t) == request[t].step # "done" /\ request[t].age < MaxRequest

Later(p, r) ==
    IF r = Newest(rows[p]) THEN 0
    ELSE IF ago[p][r] = MaxAge THEN MaxAge ELSE ago[p][r] + 1

\* A page is gone when its time is over.
Aged(entry) == IF entry.ttl <= 1 THEN Empty ELSE [entry EXCEPT !.ttl = @ - 1]

Tick ==
    /\ clock < MaxClock
    /\ \A t \in Clients : InTime(t)
    /\ clock' = clock + 1
    /\ ago' = [p \in Protocols |-> [r \in Rounds \cup {None} |-> Later(p, r)]]
    /\ page_in' = [c \in Caches |-> Aged(page_in[c])]
    /\ request' = [t \in Clients |->
          IF request[t].step = "none" THEN NoRequest
                                      ELSE [request[t] EXCEPT !.age = @ + 1]]
    /\ UNCHANGED <<rows, redis_up>>

Serve(t) ==
    \/ Hit(t)
    \/ Miss(t)
    \/ ReadNow(t)
    \/ QueryLatest(t, "ftso", "fdc")
    \/ QueryLatest(t, "fdc", "set")
    \/ QueryFails(t)
    \/ SetPage(t)
    \/ Respond(t)

Next ==
    \/ \E p \in Protocols : Commit(p) \/ DropOld(p)
    \/ \E t \in Clients : Serve(t)
    \/ RedisGoesDown
    \/ RedisComesUp
    \/ Tick

Spec == Init /\ [][Next]_vars

-----------------------------------------------------------------------------
(* Properties                                                              *)

Answered(t) == request[t].step = "done"

\* Whichever cache a page comes from, and whoever put it there when, each of
\* its rounds was right less than cache_page's ten seconds and one request ago.
Fresh ==
    \A t \in Clients : Answered(t) =>
        /\ request[t].page.active >= RoundAt(clock - MaxAge)
        /\ \A p \in Protocols : ago[p][request[t].page.latest[p]] < MaxAge

\* A round that /status reports can be asked for: it is in the tables, unless
\* it has fallen behind the history.
ReportedCanBeFetched ==
    \A t \in Clients, p \in Protocols :
        Answered(t) /\ request[t].page.latest[p] # None =>
            \/ request[t].page.latest[p] \in rows[p]
            \/ request[t].page.latest[p] < now - History

=============================================================================
