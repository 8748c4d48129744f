-------------------------- MODULE StatusPageProofs --------------------------
(***************************************************************************)
(* What StatusPage guarantees for every number of workers and threads,     *)
(* every timeout and every history, checked by TLAPS.                      *)
(***************************************************************************)
EXTENDS StatusPage, WellFoundedInduction, TLAPS

-----------------------------------------------------------------------------
(* Rounds                                                                  *)

\* The round of a tick never goes back.
LEMMA RoundMonotone ==
    ASSUME NEW a \in Int, NEW b \in Int, a <= b
    PROVE  /\ RoundAt(a) \in Int /\ RoundAt(b) \in Int
           /\ RoundAt(a) <= RoundAt(b)
  BY StatusAssumption DEF RoundAt

LEMMA ConstantFacts ==
    /\ Timeout \in Nat \ {0} /\ RoundLength \in Nat \ {0}
    /\ MaxRequest \in Nat /\ History \in Nat /\ MaxClock \in Nat
    /\ MaxAge \in Nat /\ MaxRequest < MaxAge /\ MaxAge = Timeout + MaxRequest
    /\ None \notin Rounds
    /\ RoundAt(MaxClock) \in Nat /\ 0 \in Rounds
<1>1. /\ Timeout \in Nat \ {0} /\ RoundLength \in Nat \ {0}
      /\ MaxRequest \in Nat /\ History \in Nat /\ MaxClock \in Nat
  BY StatusAssumption
<1>2. RoundAt(0) = 0
  BY <1>1 DEF RoundAt
<1>3. RoundAt(MaxClock) \in Nat
  BY <1>1, <1>2, RoundMonotone
<1> QED BY <1>1, <1>3 DEF MaxAge, Rounds, None

\* The current round is one of the rounds.
LEMMA NowFacts ==
    ASSUME clock \in 0 .. MaxClock
    PROVE  now \in Rounds /\ now \in Nat
<1>1. RoundAt(0) = 0
  BY StatusAssumption DEF RoundAt
<1>2. RoundAt(0) <= RoundAt(clock) /\ RoundAt(clock) <= RoundAt(MaxClock) /\ RoundAt(clock) \in Int
  BY ConstantFacts, RoundMonotone
<1> QED BY <1>1, <1>2, ConstantFacts DEF now, Rounds

\* A set of rounds has a newest one.
LEMMA Largest ==
    ASSUME NEW n \in Nat, NEW S, S \subseteq 0 .. n, S # {}
    PROVE  \E m \in S : \A k \in S : k <= m
<1> DEFINE less == OpToRel(<, Nat)
           T == {k \in 0 .. n : n - k \in S}
<1>1. IsWellFoundedOn(less, Nat)
  BY NatLessThanWellFounded
<1>2. T \subseteq Nat /\ T # {}
  <2>1. PICK s \in S : TRUE
    OBVIOUS
  <2>2. n - s \in T
    OBVIOUS
  <2> QED BY <2>2
<1>3. \A x, y \in Nat : x < y => <<x, y>> \in less
  BY DEF OpToRel
<1> HIDE DEF less
<1>4. PICK x \in T : \A y \in T : <<y, x>> \notin less
  BY <1>1, <1>2, WFMin, Zenon
<1>5. ASSUME NEW k \in S
      PROVE  k <= n - x
  <2>1. n - k \in T /\ x \in Nat /\ n - k \in Nat
    OBVIOUS
  <2>2. ~(n - k < x)
    BY <1>3, <1>4, <2>1
  <2> QED BY <2>1, <2>2
<1>6. n - x \in S
  OBVIOUS
<1> QED BY <1>5, <1>6

LEMMA NewestFacts ==
    ASSUME NEW S, S \subseteq Rounds
    PROVE  Newest(S) \in Rounds \cup {None} /\ (Newest(S) = None \/ Newest(S) \in S)
<1>1. CASE S = {}
  BY <1>1 DEF Newest
<1>2. CASE S # {}
  <2>1. \E m \in S : \A k \in S : k <= m
    BY <1>2, ConstantFacts, Largest DEF Rounds
  <2>2. Newest(S) \in S
    BY <1>2, <2>1 DEF Newest
  <2> QED BY <2>2
<1> QED BY <1>1, <1>2

-----------------------------------------------------------------------------
(* The invariant                                                           *)

Latests == Rounds \cup {None}

Entry == [page : Page, ttl : 0 .. Timeout]

Request == [step : {"none", "now", "ftso", "fdc", "set", "done"},
            age : 0 .. MaxRequest, page : Page]

\* A round is in the tables, or behind the history.
Fetchable(p, r) == r = None \/ r \in rows[p] \/ r < now - History

PageFetchable(page) == \A p \in Protocols : Fetchable(p, page.latest[p])

\* What a page says was right at most so many ticks ago.
ActiveWithin(page, age) == page.active >= RoundAt(clock - age)

LatestWithin(p, page, age) == ago[p][page.latest[p]] <= age

PageWithin(page, age) ==
    ActiveWithin(page, age) /\ \A p \in Protocols : LatestWithin(p, page, age)

\* A page in a cache is as old as its time there and a request.
EntryOK(entry) ==
    /\ entry \in Entry
    /\ PageFetchable(entry.page)
    /\ entry.ttl > 0 => PageWithin(entry.page, MaxAge - entry.ttl)

Queried(step, p) == step = "set" \/ (step = "fdc" /\ p = "ftso")

\* What a request has read is no older than the request.
RequestOK(q) ==
    /\ q \in Request
    /\ PageFetchable(q.page)
    /\ q.step \in {"ftso", "fdc", "set"} => ActiveWithin(q.page, q.age)
    /\ \A p \in Protocols : Queried(q.step, p) => LatestWithin(p, q.page, q.age)
    /\ q.step = "done" => PageWithin(q.page, MaxAge - 1)

TablesOK ==
    /\ clock \in 0 .. MaxClock
    /\ rows \in [Protocols -> SUBSET Rounds]
    /\ ago \in [Protocols -> [Latests -> 0 .. MaxAge]]
    /\ redis_up \in BOOLEAN
    /\ \A p \in Protocols : ago[p][Newest(rows[p])] = 0

IInv ==
    /\ TablesOK
    /\ page_in \in [Caches -> Entry] /\ \A c \in Caches : EntryOK(page_in[c])
    /\ request \in [Clients -> Request] /\ \A t \in Clients : RequestOK(request[t])

\* Pages of protocols that are configured.
LEMMA LatestType ==
    ASSUME NEW page \in Page, NEW p \in {"ftso", "fdc"}
    PROVE  page.latest[p] \in Latests /\ page.active \in Rounds
  BY DEF Page, Latests

LEMMA ProtocolsFact == Protocols \subseteq {"ftso", "fdc"}
  BY StatusAssumption

LEMMA BlankFacts ==
    /\ BlankPage \in Page
    /\ Empty \in Entry /\ Empty.page = BlankPage /\ Empty.ttl = 0
    /\ NoRequest \in Request /\ NoRequest.page = BlankPage
    /\ NoRequest.step = "none" /\ NoRequest.age = 0
    /\ \A p \in {"ftso", "fdc"} : BlankPage.latest[p] = None
<1>1. BlankPage \in Page
  BY ConstantFacts DEF BlankPage, Page
<1>2. \A p \in {"ftso", "fdc"} : BlankPage.latest[p] = None
  BY DEF BlankPage
<1>3. Empty \in Entry /\ Empty.page = BlankPage /\ Empty.ttl = 0
  BY <1>1, ConstantFacts DEF Empty, Entry
<1>4. /\ NoRequest \in Request /\ NoRequest.page = BlankPage
      /\ NoRequest.step = "none" /\ NoRequest.age = 0
  BY <1>1, ConstantFacts DEF NoRequest, Request
<1> QED BY <1>1, <1>2, <1>3, <1>4

\* They hold nothing that could be wrong.
LEMMA BlankOK == EntryOK(Empty) /\ RequestOK(NoRequest)
<1>1. PageFetchable(BlankPage)
  BY BlankFacts, ProtocolsFact DEF PageFetchable, Fetchable
<1>2. EntryOK(Empty)
  BY <1>1, BlankFacts DEF EntryOK
<1>3. RequestOK(NoRequest)
  BY <1>1, BlankFacts DEF RequestOK, Queried
<1> QED BY <1>2, <1>3

LEMMA InitInv == Init => IInv
<1> SUFFICES ASSUME Init
             PROVE  IInv
  OBVIOUS
<1>1. TablesOK
  <2>1. clock \in 0 .. MaxClock /\ rows \in [Protocols -> SUBSET Rounds] /\ redis_up \in BOOLEAN
    BY ConstantFacts DEF Init
  <2>2. ago \in [Protocols -> [Latests -> 0 .. MaxAge]]
    BY ConstantFacts DEF Init, Latests
  <2>3. \A p \in Protocols : Newest(rows[p]) = None
    BY DEF Init, Newest
  <2>4. \A p \in Protocols : ago[p][None] = 0
    BY DEF Init
  <2> QED BY <2>1, <2>2, <2>3, <2>4 DEF TablesOK
<1>2. page_in \in [Caches -> Entry] /\ \A c \in Caches : EntryOK(page_in[c])
  BY BlankFacts, BlankOK DEF Init
<1>3. request \in [Clients -> Request] /\ \A t \in Clients : RequestOK(request[t])
  BY BlankFacts, BlankOK DEF Init
<1> QED BY <1>1, <1>2, <1>3 DEF IInv

-----------------------------------------------------------------------------
(* A request                                                               *)

\* What was right lately was right less lately too.
LEMMA Weaken ==
    ASSUME TablesOK, NEW page \in Page, NEW a \in Nat, NEW b \in Nat, a <= b
    PROVE  /\ ActiveWithin(page, a) => ActiveWithin(page, b)
           /\ \A p \in Protocols : LatestWithin(p, page, a) => LatestWithin(p, page, b)
           /\ PageWithin(page, a) => PageWithin(page, b)
<1>1. ActiveWithin(page, a) => ActiveWithin(page, b)
  <2>1. clock \in Int
    BY ConstantFacts DEF TablesOK
  <2>2. clock - b \in Int /\ clock - a \in Int /\ clock - b <= clock - a
    BY <2>1
  <2>3. RoundAt(clock - b) <= RoundAt(clock - a) /\ RoundAt(clock - b) \in Int
        /\ RoundAt(clock - a) \in Int
    BY <2>2, RoundMonotone
  <2>4. page.active \in Int
    BY ConstantFacts DEF Page, Rounds
  <2> QED BY <2>3, <2>4 DEF ActiveWithin
<1>2. ASSUME NEW p \in Protocols, LatestWithin(p, page, a)
      PROVE  LatestWithin(p, page, b)
  <2>1. page.latest[p] \in Latests
    BY LatestType, ProtocolsFact
  <2>2. ago[p][page.latest[p]] \in Nat
    BY <2>1, ConstantFacts DEF TablesOK
  <2> QED BY <1>2, <2>2 DEF LatestWithin
<1> QED BY <1>1, <1>2 DEF PageWithin

LEMMA RequestChanges ==
    ASSUME IInv, NEW t \in Clients, NEW q, RequestOK(q),
           request' = [request EXCEPT ![t] = q],
           UNCHANGED <<clock, rows, ago, redis_up, page_in>>
    PROVE  IInv'
<1>1. TablesOK'
  BY DEF IInv, TablesOK
<1>2. ASSUME NEW r, RequestOK(r)
      PROVE  RequestOK(r)'
  BY <1>2
  DEF RequestOK, PageFetchable, Fetchable, now, ActiveWithin, LatestWithin, PageWithin
<1>3. ASSUME NEW e, EntryOK(e)
      PROVE  EntryOK(e)'
  BY <1>3
  DEF EntryOK, PageFetchable, Fetchable, now, ActiveWithin, LatestWithin, PageWithin
<1>4. request' \in [Clients -> Request] /\ \A u \in Clients : RequestOK(request'[u])
  BY DEF IInv, RequestOK
<1>5. \A u \in Clients : RequestOK(request[u])'
  <2> SUFFICES ASSUME NEW u \in Clients
               PROVE  RequestOK(request[u])'
    OBVIOUS
  <2>1. PICK r : r = request'[u]
    OBVIOUS
  <2>2. RequestOK(r)'
    BY <1>2, <1>4, <2>1
  <2> QED BY <2>1, <2>2
<1>6. \A c \in Caches : EntryOK(page_in[c])'
  <2> SUFFICES ASSUME NEW c \in Caches
               PROVE  EntryOK(page_in[c])'
    OBVIOUS
  <2>1. PICK e : e = page_in[c]
    OBVIOUS
  <2>2. EntryOK(e)'
    BY <1>3, <2>1 DEF IInv
  <2> QED BY <2>1, <2>2
<1>7. page_in' \in [Caches -> Entry]
  BY DEF IInv
<1> QED BY <1>1, <1>4, <1>5, <1>6, <1>7 DEF IInv

LEMMA HitInv ==
    ASSUME IInv, NEW t \in Clients, Hit(t)
    PROVE  IInv'
<1>1. PICK c \in Caches :
          /\ page_in[c].ttl > 0
          /\ request' = [request EXCEPT
                ![t] = [NoRequest EXCEPT !.step = "done", !.page = page_in[c].page]]
  BY DEF Hit, Asked, Has, Caches, Clients
<1>2. PICK e : e = page_in[c] /\ EntryOK(e) /\ e \in Entry /\ e.ttl > 0
  BY <1>1 DEF IInv, EntryOK
<1>3. PICK q : q = [NoRequest EXCEPT !.step = "done", !.page = e.page]
  OBVIOUS
<1>4. /\ q \in Request
      /\ q.step = "done" /\ q.page = e.page
  <2>1. e.page \in Page
    BY <1>2 DEF Entry
  <2>2. PICK q1 \in Request : q1 = [NoRequest EXCEPT !.step = "done"]
    BY BlankFacts DEF Request
  <2>3. q = [q1 EXCEPT !.page = e.page]
    BY <1>3, <2>2
  <2> QED BY <2>1, <2>2, <2>3 DEF Request
<1>5. PageWithin(q.page, MaxAge - 1)
  <2>1. e.ttl \in 1 .. Timeout /\ e.page \in Page
    BY <1>2, ConstantFacts DEF Entry
  <2>2. MaxAge - e.ttl \in Nat /\ MaxAge - 1 \in Nat /\ MaxAge - e.ttl <= MaxAge - 1
    BY <2>1, ConstantFacts
  <2>3. PageWithin(e.page, MaxAge - e.ttl)
    BY <1>2 DEF EntryOK
  <2> QED BY <1>4, <2>1, <2>2, <2>3, Weaken DEF IInv
<1>6. PageFetchable(q.page)
  BY <1>2, <1>4 DEF EntryOK
<1>7. RequestOK(q)
  BY <1>4, <1>5, <1>6 DEF RequestOK, Queried
<1>8. request' = [request EXCEPT ![t] = q]
  BY <1>1, <1>2, <1>3
<1> QED BY <1>7, <1>8, RequestChanges DEF Hit

\* A request that is over, or given up.
LEMMA EndInv ==
    ASSUME IInv, NEW t \in Clients, QueryFails(t) \/ Respond(t)
    PROVE  IInv'
  BY BlankOK, RequestChanges DEF QueryFails, Respond

\* One that goes on to a step that has read no more than the last one.
LEMMA MissInv ==
    ASSUME IInv, NEW t \in Clients, Miss(t)
    PROVE  IInv'
<1>1. PICK q : q = [NoRequest EXCEPT !.step = "now"]
  OBVIOUS
<1>2. request' = [request EXCEPT ![t] = q]
  BY <1>1 DEF Miss
<1>3. q \in Request /\ q.step = "now" /\ q.page = NoRequest.page
  BY <1>1, BlankFacts DEF Request
<1>4. RequestOK(q)
  BY <1>3, BlankOK DEF RequestOK, Queried
<1> QED BY <1>2, <1>4, RequestChanges DEF Miss

LEMMA ReadNowInv ==
    ASSUME IInv, NEW t \in Clients, ReadNow(t)
    PROVE  IInv'
<1>1. PICK r : r = request[t] /\ RequestOK(r) /\ r \in Request /\ r.page \in Page
  BY DEF IInv, RequestOK, Request
<1>2. clock \in 0 .. MaxClock /\ now \in Rounds
  BY NowFacts DEF IInv, TablesOK
<1>3. PICK page : page = [r.page EXCEPT !.active = now]
  OBVIOUS
<1>4. page \in Page /\ page.active = now /\ page.latest = r.page.latest
  BY <1>1, <1>2, <1>3 DEF Page
<1>5. PICK q : q = [step |-> "ftso", age |-> r.age, page |-> page]
  OBVIOUS
<1>6. q \in Request /\ q.step = "ftso" /\ q.age = r.age /\ q.page = page
  BY <1>1, <1>4, <1>5 DEF Request
<1>7. request' = [request EXCEPT ![t] = q]
  <2>1. request' = [request EXCEPT ![t] = [r EXCEPT !.step = "ftso", !.page.active = now]]
    BY <1>1 DEF ReadNow, Active, IInv
  <2>2. [r EXCEPT !.step = "ftso", !.page.active = now] = q
    <3>1. PICK r1 : r1 = [r EXCEPT !.step = "ftso"]
      OBVIOUS
    <3>2. r1 \in Request /\ r1.age = r.age /\ r1.page = r.page /\ r1.step = "ftso"
      BY <1>1, <3>1 DEF Request
    <3>3. [r1 EXCEPT !.page = page] = q
      BY <1>5, <3>2 DEF Request
    <3>4. [r EXCEPT !.step = "ftso", !.page.active = now] = [r1 EXCEPT !.page.active = now]
      BY <3>1
    <3>5. [r1 EXCEPT !.page.active = now] = [r1 EXCEPT !.page = [r1.page EXCEPT !.active = now]]
      BY <3>2 DEF Request
    <3> QED BY <1>3, <3>2, <3>3, <3>4, <3>5
  <2> QED BY <2>1, <2>2
<1>8. PageFetchable(page)
  BY <1>1, <1>4 DEF RequestOK, PageFetchable
<1>9. ActiveWithin(page, r.age)
  <2>1. clock \in Int /\ r.age \in Nat
    BY <1>1, <1>2, ConstantFacts DEF Request
  <2>2. clock - r.age \in Int /\ clock - r.age <= clock
    BY <2>1
  <2>3. RoundAt(clock - r.age) <= RoundAt(clock) /\ RoundAt(clock) \in Int
        /\ RoundAt(clock - r.age) \in Int
    BY <2>1, <2>2, RoundMonotone
  <2> QED BY <1>4, <2>3 DEF ActiveWithin, now
<1>10. RequestOK(q)
  BY <1>6, <1>8, <1>9 DEF RequestOK, Queried
<1> QED BY <1>7, <1>10, RequestChanges DEF ReadNow

LEMMA QueryInv ==
    ASSUME IInv, NEW t \in Clients, NEW p, NEW next,
           (p = "ftso" /\ next = "fdc") \/ (p = "fdc" /\ next = "set"),
           QueryLatest(t, p, next)
    PROVE  IInv'
<1>1. PICK r : r = request[t] /\ RequestOK(r) /\ r \in Request /\ r.page \in Page /\ r.step = p
  BY DEF IInv, RequestOK, Request, QueryLatest
<1>2. Latest(p) \in Latests /\ (p \in Protocols => Latest(p) = Newest(rows[p]))
  <2>1. CASE p \in Protocols
    BY <2>1, NewestFacts DEF Latest, RowsOf, Latests, IInv, TablesOK
  <2>2. CASE p \notin Protocols
    BY <2>2, NewestFacts DEF Latest, RowsOf, Latests
  <2> QED BY <2>1, <2>2
<1>3. PICK page : page = [r.page EXCEPT !.latest[p] = Latest(p)]
  OBVIOUS
<1>4. /\ page \in Page /\ page.active = r.page.active
      /\ page.latest[p] = Latest(p)
      /\ \A o \in {"ftso", "fdc"} \ {p} : page.latest[o] = r.page.latest[o]
  BY <1>1, <1>2, <1>3 DEF Page, Latests
<1>5. PICK q : q = [step |-> next, age |-> r.age, page |-> page]
  OBVIOUS
<1>6. q \in Request /\ q.step = next /\ q.age = r.age /\ q.page = page /\ r.age \in Nat
  BY <1>1, <1>4, <1>5, ConstantFacts DEF Request
<1>7. request' = [request EXCEPT ![t] = q]
  <2>1. request' = [request EXCEPT ![t] = [r EXCEPT !.step = next, !.page.latest[p] = Latest(p)]]
    BY <1>1 DEF QueryLatest, IInv
  <2>2. [r EXCEPT !.step = next, !.page.latest[p] = Latest(p)] = q
    <3>1. PICK r1 : r1 = [r EXCEPT !.step = next]
      OBVIOUS
    <3>2. r1 \in Request /\ r1.age = r.age /\ r1.page = r.page /\ r1.step = next
      BY <1>1, <3>1 DEF Request
    <3>3. [r1 EXCEPT !.page = page] = q
      BY <1>5, <3>2 DEF Request
    <3>4. [r EXCEPT !.step = next, !.page.latest[p] = Latest(p)]
              = [r1 EXCEPT !.page.latest[p] = Latest(p)]
      BY <3>1
    <3>5. [r1 EXCEPT !.page.latest[p] = Latest(p)]
              = [r1 EXCEPT !.page = [r1.page EXCEPT !.latest[p] = Latest(p)]]
      BY <3>2 DEF Request
    <3> QED BY <1>3, <3>2, <3>3, <3>4, <3>5
  <2> QED BY <2>1, <2>2
<1>8. p \in Protocols => Fetchable(p, Latest(p)) /\ ago[p][Latest(p)] = 0
  BY <1>2, NewestFacts DEF Fetchable, IInv, TablesOK
<1>9. PageFetchable(page)
  BY <1>1, <1>4, <1>8, ProtocolsFact DEF RequestOK, PageFetchable
<1>10. ActiveWithin(page, r.age)
  BY <1>1, <1>4 DEF RequestOK, ActiveWithin
<1>11. ASSUME NEW o \in Protocols, Queried(next, o)
       PROVE  LatestWithin(o, page, r.age)
  <2>1. CASE o = p
    BY <1>4, <1>6, <1>8, <2>1 DEF LatestWithin
  <2>2. CASE o # p
    BY <1>1, <1>4, <1>11, <2>2, ProtocolsFact DEF LatestWithin, Queried, RequestOK
  <2> QED BY <2>1, <2>2
<1>12. RequestOK(q)
  BY <1>6, <1>9, <1>10, <1>11 DEF RequestOK
<1> QED BY <1>7, <1>12, RequestChanges DEF QueryLatest

-----------------------------------------------------------------------------
(* The caches                                                              *)

\* The pages that are put in a cache, or taken out of it.
LEMMA PagesChange ==
    ASSUME IInv, UNCHANGED <<clock, rows, ago>>, redis_up' \in BOOLEAN,
           page_in' \in [Caches -> Entry],
           \A c \in Caches : EntryOK(page_in'[c]),
           request' \in [Clients -> Request],
           \A t \in Clients : RequestOK(request'[t])
    PROVE  IInv'
<1>1. TablesOK'
  BY DEF IInv, TablesOK
<1>2. \A u \in Clients : RequestOK(request[u])'
  <2> SUFFICES ASSUME NEW u \in Clients
               PROVE  RequestOK(request[u])'
    OBVIOUS
  <2>1. PICK r : r = request'[u]
    OBVIOUS
  <2>2. RequestOK(r)'
    BY <2>1
    DEF RequestOK, PageFetchable, Fetchable, now, ActiveWithin, LatestWithin, PageWithin
  <2> QED BY <2>1, <2>2
<1>3. \A c \in Caches : EntryOK(page_in[c])'
  <2> SUFFICES ASSUME NEW c \in Caches
               PROVE  EntryOK(page_in[c])'
    OBVIOUS
  <2>1. PICK e : e = page_in'[c]
    OBVIOUS
  <2>2. EntryOK(e)'
    BY <2>1
    DEF EntryOK, PageFetchable, Fetchable, now, ActiveWithin, LatestWithin, PageWithin
  <2> QED BY <2>1, <2>2
<1> QED BY <1>1, <1>2, <1>3 DEF IInv

LEMMA SetPageInv ==
    ASSUME IInv, NEW t \in Clients, SetPage(t)
    PROVE  IInv'
<1>1. PICK r : r = request[t] /\ RequestOK(r) /\ r \in Request /\ r.page \in Page /\ r.step = "set"
  BY DEF IInv, RequestOK, Request, SetPage
<1>2. PICK q : q = [r EXCEPT !.step = "done"]
  OBVIOUS
<1>3. q \in Request /\ q.step = "done" /\ q.page = r.page /\ r.age \in 0 .. MaxRequest
  BY <1>1, <1>2 DEF Request
<1>4. PICK e : e = [page |-> r.page, ttl |-> Timeout]
  OBVIOUS
<1>5. e \in Entry /\ e.page = r.page /\ e.ttl = Timeout
  BY <1>1, <1>4, ConstantFacts DEF Entry
<1>6. PageWithin(r.page, r.age)
  BY <1>1 DEF RequestOK, PageWithin, Queried
<1>7. PageWithin(r.page, MaxRequest) /\ PageWithin(r.page, MaxAge - 1)
  <2>1. /\ r.age \in Nat /\ MaxRequest \in Nat /\ MaxAge - 1 \in Nat
        /\ r.age <= MaxRequest /\ r.age <= MaxAge - 1
    BY <1>3, ConstantFacts
  <2> QED BY <1>1, <1>6, <2>1, Weaken DEF IInv
<1>8. RequestOK(q)
  BY <1>1, <1>3, <1>7 DEF RequestOK, Queried
<1>9. EntryOK(e)
  <2>1. MaxAge - Timeout = MaxRequest
    BY ConstantFacts
  <2> QED BY <1>1, <1>5, <1>7, <2>1 DEF EntryOK, RequestOK
<1>10. PICK c : page_in' = [page_in EXCEPT ![c] = e]
  BY <1>1, <1>4 DEF SetPage, TimeToLive
<1>11. request' = [request EXCEPT ![t] = q]
  BY <1>1, <1>2 DEF SetPage, IInv
<1>12. page_in' \in [Caches -> Entry] /\ \A d \in Caches : EntryOK(page_in'[d])
  BY <1>5, <1>9, <1>10 DEF IInv
<1>13. request' \in [Clients -> Request] /\ \A u \in Clients : RequestOK(request'[u])
  BY <1>3, <1>8, <1>11 DEF IInv
<1>14. redis_up' \in BOOLEAN /\ UNCHANGED <<clock, rows, ago>>
  BY DEF SetPage, IInv, TablesOK
<1> QED BY <1>12, <1>13, <1>14, PagesChange

LEMMA RedisInv ==
    ASSUME IInv, RedisGoesDown \/ RedisComesUp
    PROVE  IInv'
<1>1. UNCHANGED <<clock, rows, ago, request>> /\ redis_up' \in BOOLEAN
  BY DEF RedisGoesDown, RedisComesUp
<1>2. page_in' = page_in \/ page_in' = [page_in EXCEPT !["redis"] = Empty]
  BY DEF RedisGoesDown, RedisComesUp
<1>3. page_in' \in [Caches -> Entry] /\ \A d \in Caches : EntryOK(page_in'[d])
  BY <1>2, BlankFacts, BlankOK DEF IInv
<1> QED BY <1>1, <1>3, PagesChange DEF IInv

-----------------------------------------------------------------------------
(* The tables                                                              *)

\* A change of the rows drops old rounds only, and whatever is the latest round
\* then is so now.
LEMMA ChangeInv ==
    ASSUME IInv, NEW p \in Protocols, NEW rounds, rounds \subseteq Rounds,
           ChangeRows(p, rounds),
           \A r \in rows[p] \ rounds : r < now - History,
           UNCHANGED <<clock, redis_up, page_in, request>>
    PROVE  IInv'
<1> DEFINE newest == Newest(rounds)
<1>1. newest \in Latests
  BY NewestFacts DEF Latests
<1>2. /\ rows' = [rows EXCEPT ![p] = rounds]
      /\ ago' = [ago EXCEPT ![p][newest] = 0]
      /\ TablesOK
  BY DEF ChangeRows, IInv
<1>3. /\ ago' \in [Protocols -> [Latests -> 0 .. MaxAge]]
      /\ ago'[p][newest] = 0
      /\ \A o \in Protocols : \A r \in Latests : ago'[o][r] <= ago[o][r]
  <2>1. PICK row : row = [ago[p] EXCEPT ![newest] = 0]
    OBVIOUS
  <2>2. /\ row \in [Latests -> 0 .. MaxAge] /\ row[newest] = 0
        /\ \A r \in Latests : row[r] <= ago[p][r]
    BY <1>1, <1>2, <2>1, ConstantFacts DEF TablesOK
  <2>3. ago' = [ago EXCEPT ![p] = row]
    BY <1>2, <2>1
  <2>4. \A o \in Protocols : \A r \in Latests : ago[o][r] <= ago[o][r]
    BY <1>2, ConstantFacts DEF TablesOK
  <2> QED BY <1>2, <2>2, <2>3, <2>4 DEF TablesOK
<1>4. TablesOK'
  <2>1. rows' \in [Protocols -> SUBSET Rounds]
    BY <1>2 DEF TablesOK
  <2>2. \A o \in Protocols : ago'[o][Newest(rows'[o])] = 0
    <3> SUFFICES ASSUME NEW o \in Protocols
                 PROVE  ago'[o][Newest(rows'[o])] = 0
      OBVIOUS
    <3>1. CASE o = p
      BY <1>2, <1>3, <3>1 DEF TablesOK
    <3>2. CASE o # p
      BY <1>2, <3>2 DEF TablesOK
    <3> QED BY <3>1, <3>2
  <2> QED BY <1>2, <1>3, <2>1, <2>2 DEF TablesOK
<1>5. ASSUME NEW page \in Page, PageFetchable(page)
      PROVE  PageFetchable(page)'
  <2> SUFFICES ASSUME NEW o \in Protocols
               PROVE  Fetchable(o, page.latest[o])'
    BY DEF PageFetchable
  <2>1. PICK r : r = page.latest[o] /\ Fetchable(o, r)
    BY <1>5 DEF PageFetchable
  <2>2. r \in rows[o] /\ r \notin rows'[o] => r < now - History
    BY <1>2 DEF TablesOK
  <2> QED BY <2>1, <2>2 DEF Fetchable, now
<1>6. ASSUME NEW page \in Page, NEW age \in Nat, NEW o \in Protocols, LatestWithin(o, page, age)
      PROVE  LatestWithin(o, page, age)'
  <2>1. PICK r \in Latests : r = page.latest[o]
    BY LatestType, ProtocolsFact
  <2>2. ago[o][r] \in Nat /\ ago'[o][r] \in Nat /\ ago'[o][r] <= ago[o][r]
    BY <1>2, <1>3, ConstantFacts DEF TablesOK
  <2> QED BY <1>6, <2>1, <2>2 DEF LatestWithin
<1>7. ASSUME NEW page, NEW age
      PROVE  ActiveWithin(page, age)' = ActiveWithin(page, age)
  BY DEF ActiveWithin
<1>8. ASSUME NEW page \in Page, NEW age \in Nat, PageWithin(page, age)
      PROVE  PageWithin(page, age)'
  BY <1>6, <1>7, <1>8 DEF PageWithin
<1>9. ASSUME NEW e, EntryOK(e)
      PROVE  EntryOK(e)'
  <2>1. e \in Entry /\ e.page \in Page
    BY <1>9 DEF EntryOK, Entry
  <2>2. MaxAge - e.ttl \in Nat
    BY <2>1, ConstantFacts DEF Entry
  <2>3. PICK page \in Page, age \in Nat : page = e.page /\ age = MaxAge - e.ttl
    BY <2>1, <2>2
  <2>4. PageFetchable(page)' /\ (e.ttl > 0 => PageWithin(page, age)')
    BY <1>5, <1>8, <1>9, <2>3 DEF EntryOK
  <2> QED BY <2>1, <2>3, <2>4 DEF EntryOK
<1>10. ASSUME NEW q, RequestOK(q)
       PROVE  RequestOK(q)'
  <2>1. q \in Request /\ q.page \in Page /\ q.age \in Nat /\ MaxAge - 1 \in Nat
    BY <1>10, ConstantFacts DEF RequestOK, Request
  <2>2. PICK page \in Page, age \in Nat : page = q.page /\ age = q.age
    BY <2>1
  <2>3. PageFetchable(page)'
    BY <1>5, <1>10, <2>2 DEF RequestOK
  <2>4. q.step \in {"ftso", "fdc", "set"} => ActiveWithin(page, age)'
    BY <1>7, <1>10, <2>2 DEF RequestOK
  <2>5. \A o \in Protocols : Queried(q.step, o) => LatestWithin(o, page, age)'
    BY <1>6, <1>10, <2>2 DEF RequestOK
  <2>6. q.step = "done" => PageWithin(page, MaxAge - 1)'
    BY <1>8, <1>10, <2>1, <2>2 DEF RequestOK
  <2> QED BY <2>1, <2>2, <2>3, <2>4, <2>5, <2>6 DEF RequestOK
<1>11. \A u \in Clients : RequestOK(request[u])'
  <2> SUFFICES ASSUME NEW u \in Clients
               PROVE  RequestOK(request[u])'
    OBVIOUS
  <2>1. PICK r : r = request[u] /\ RequestOK(r)
    BY DEF IInv
  <2> QED BY <1>10, <2>1
<1>12. \A c \in Caches : EntryOK(page_in[c])'
  <2> SUFFICES ASSUME NEW c \in Caches
               PROVE  EntryOK(page_in[c])'
    OBVIOUS
  <2>1. PICK e : e = page_in[c] /\ EntryOK(e)
    BY DEF IInv
  <2> QED BY <1>9, <2>1
<1>13. page_in' \in [Caches -> Entry] /\ request' \in [Clients -> Request]
  BY DEF IInv
<1> QED BY <1>4, <1>11, <1>12, <1>13 DEF IInv

LEMMA CommitInv ==
    ASSUME IInv, NEW p \in Protocols, Commit(p) \/ DropOld(p)
    PROVE  IInv'
<1>1. CASE Commit(p)
  <2>1. PICK r \in 0 .. now - 1 : ChangeRows(p, rows[p] \cup {r})
    BY <1>1 DEF Commit
  <2>2. now \in Rounds /\ now \in Nat
    BY NowFacts DEF IInv, TablesOK
  <2>3. rows[p] \cup {r} \subseteq Rounds
    BY <2>2, ConstantFacts DEF Rounds, IInv, TablesOK
  <2> QED BY <1>1, <2>1, <2>3, ChangeInv DEF Commit
<1>2. CASE DropOld(p)
  <2>1. {r \in rows[p] : ~Old(r)} \subseteq Rounds
    BY DEF IInv, TablesOK
  <2>2. \A r \in rows[p] \ {r \in rows[p] : ~Old(r)} : r < now - History
    BY DEF Old
  <2> QED BY <1>2, <2>1, <2>2, ChangeInv DEF DropOld
<1> QED BY <1>1, <1>2

-----------------------------------------------------------------------------
(* Time                                                                    *)

LEMMA TickInv ==
    ASSUME IInv, Tick
    PROVE  IInv'
<1>1. /\ clock < MaxClock /\ clock' = clock + 1
      /\ \A t \in Clients : InTime(t)
      /\ ago' = [p \in Protocols |-> [r \in Latests |-> Later(p, r)]]
      /\ page_in' = [c \in Caches |-> Aged(page_in[c])]
      /\ request' = [t \in Clients |->
            IF request[t].step = "none" THEN NoRequest
                                        ELSE [request[t] EXCEPT !.age = request[t].age + 1]]
      /\ UNCHANGED <<rows, redis_up>>
      /\ TablesOK /\ clock \in Nat /\ clock' \in Nat
  <2>1. TablesOK /\ clock \in Nat
    BY ConstantFacts DEF IInv, TablesOK
  <2> QED BY <2>1 DEF Tick, Latests
<1>2. /\ ago' \in [Protocols -> [Latests -> 0 .. MaxAge]]
      /\ \A p \in Protocols : \A r \in Latests : ago'[p][r] <= ago[p][r] + 1
      /\ \A p \in Protocols : ago'[p][Newest(rows[p])] = 0
  <2>1. ASSUME NEW p \in Protocols, NEW r \in Latests
        PROVE  /\ Later(p, r) \in 0 .. MaxAge /\ Later(p, r) <= ago[p][r] + 1
               /\ r = Newest(rows[p]) => Later(p, r) = 0
    <3>1. ago[p][r] \in 0 .. MaxAge
      BY <1>1 DEF TablesOK
    <3> QED BY <3>1, ConstantFacts DEF Later
  <2>2. \A p \in Protocols : Newest(rows[p]) \in Latests
    BY <1>1, NewestFacts DEF TablesOK, Latests
  <2> QED BY <1>1, <2>1, <2>2
<1>3. TablesOK'
  BY <1>1, <1>2, ConstantFacts DEF TablesOK
<1>4. now' >= now /\ now \in Int /\ now' \in Int
  <2>1. clock \in Int /\ clock' \in Int /\ clock <= clock'
    BY <1>1
  <2> QED BY <2>1, RoundMonotone DEF now
<1>5. ASSUME NEW page \in Page, PageFetchable(page)
      PROVE  PageFetchable(page)'
  <2> SUFFICES ASSUME NEW p \in Protocols
               PROVE  Fetchable(p, page.latest[p])'
    BY DEF PageFetchable
  <2>1. PICK r \in Latests : r = page.latest[p] /\ Fetchable(p, r)
    BY <1>5, LatestType, ProtocolsFact DEF PageFetchable
  <2>2. r \in Int /\ History \in Int
    BY ConstantFacts DEF Latests, Rounds, None
  <2>3. r < now - History => r < now' - History
    <3>1. PICK a \in Int, b \in Int : a = now /\ b = now' /\ b >= a
      BY <1>4
    <3>2. PICK s \in Int, h \in Int : s = r /\ h = History
      BY <2>2
    <3>3. b >= a
      BY <3>1
    <3>4. s < a - h => s < b - h
      BY <3>3
    <3> QED BY <3>1, <3>2, <3>4
  <2> QED BY <1>1, <2>1, <2>3 DEF Fetchable
<1>6. ASSUME NEW page \in Page, NEW age \in Nat
      PROVE  /\ ActiveWithin(page, age) => ActiveWithin(page, age + 1)'
             /\ \A p \in Protocols : LatestWithin(p, page, age) => LatestWithin(p, page, age + 1)'
  <2>1. clock' - (age + 1) = clock - age
    BY <1>1
  <2>2. ActiveWithin(page, age) => ActiveWithin(page, age + 1)'
    BY <2>1 DEF ActiveWithin
  <2>3. ASSUME NEW p \in Protocols, LatestWithin(p, page, age)
        PROVE  LatestWithin(p, page, age + 1)'
    <3>1. PICK r \in Latests : r = page.latest[p]
      BY LatestType, ProtocolsFact
    <3>2. ago[p][r] \in Nat /\ ago'[p][r] \in Nat /\ ago'[p][r] <= ago[p][r] + 1
      BY <1>1, <1>2, ConstantFacts DEF TablesOK
    <3> QED BY <2>3, <3>1, <3>2 DEF LatestWithin
  <2> QED BY <2>2, <2>3
<1>7. ASSUME NEW e, EntryOK(e)
      PROVE  Aged(e) \in Entry /\ EntryOK(Aged(e))'
  <2>1. e \in Entry /\ e.page \in Page /\ e.ttl \in 0 .. Timeout
    BY <1>7 DEF EntryOK, Entry
  <2>2. CASE e.ttl <= 1
    <3>1. Aged(e) = Empty
      BY <2>2 DEF Aged
    <3>2. PageFetchable(BlankPage)'
      BY <1>5, BlankFacts, BlankOK DEF EntryOK
    <3>3. EntryOK(Empty)'
      BY <3>2, BlankFacts DEF EntryOK
    <3> QED BY <3>1, <3>3, BlankFacts
  <2>3. CASE e.ttl > 1
    <3>1. PICK n \in 1 .. Timeout : n = e.ttl - 1
      BY <2>1, <2>3, ConstantFacts
    <3>2. PICK old : old = [e EXCEPT !.ttl = n]
      OBVIOUS
    <3>3. old \in Entry /\ old.page = e.page /\ old.ttl = n
      BY <2>1, <3>1, <3>2, ConstantFacts DEF Entry
    <3>4. Aged(e) = old
      BY <2>1, <2>3, <3>1, <3>2, ConstantFacts DEF Aged
    <3>5. PICK age \in Nat : age = MaxAge - e.ttl /\ MaxAge - n = age + 1
      BY <2>1, <3>1, ConstantFacts
    <3>6. PICK page \in Page : page = e.page /\ PageFetchable(page) /\ PageWithin(page, age)
      BY <1>7, <2>1, <2>3, <3>5, ConstantFacts DEF EntryOK
    <3>7. PageFetchable(page)' /\ PageWithin(page, age + 1)'
      BY <1>5, <1>6, <3>6 DEF PageWithin
    <3> QED BY <3>3, <3>4, <3>5, <3>6, <3>7 DEF EntryOK
  <2> QED BY <2>1, <2>2, <2>3, ConstantFacts
<1>8. RequestOK(NoRequest)'
  <2>1. PageFetchable(BlankPage)'
    BY <1>5, BlankFacts, BlankOK DEF EntryOK
  <2> QED BY <2>1, BlankFacts DEF RequestOK, Queried
<1>9. ASSUME NEW q, RequestOK(q), q.step # "done", q.age < MaxRequest
      PROVE  [q EXCEPT !.age = q.age + 1] \in Request /\ RequestOK([q EXCEPT !.age = q.age + 1])'
  <2>1. q \in Request /\ q.page \in Page /\ q.age \in 0 .. MaxRequest
    BY <1>9 DEF RequestOK, Request
  <2>2. PICK age \in 0 .. MaxRequest : age = q.age + 1
    BY <1>9, <2>1, ConstantFacts
  <2>3. PICK old : old = [q EXCEPT !.age = age]
    OBVIOUS
  <2>4. old \in Request /\ old.page = q.page /\ old.step = q.step /\ old.age = age
    BY <2>1, <2>2, <2>3 DEF Request
  <2>5. PICK page \in Page, a \in Nat : page = q.page /\ a = q.age /\ age = a + 1
    BY <2>1, <2>2, ConstantFacts
  <2>6. PageFetchable(page)'
    BY <1>5, <1>9, <2>5 DEF RequestOK
  <2>7. q.step \in {"ftso", "fdc", "set"} => ActiveWithin(page, a + 1)'
    BY <1>6, <1>9, <2>5 DEF RequestOK
  <2>8. \A p \in Protocols : Queried(q.step, p) => LatestWithin(p, page, a + 1)'
    BY <1>6, <1>9, <2>5 DEF RequestOK
  <2>9. RequestOK(old)'
    BY <1>9, <2>4, <2>5, <2>6, <2>7, <2>8 DEF RequestOK
  <2> QED BY <2>2, <2>3, <2>4, <2>9
<1>10. \A c \in Caches : page_in'[c] \in Entry /\ EntryOK(page_in[c])'
  <2> SUFFICES ASSUME NEW c \in Caches
               PROVE  page_in'[c] \in Entry /\ EntryOK(page_in[c])'
    OBVIOUS
  <2>1. PICK e : e = page_in[c] /\ EntryOK(e) /\ page_in'[c] = Aged(e)
    BY <1>1 DEF IInv
  <2>2. PICK old : old = Aged(e) /\ old \in Entry /\ EntryOK(old)'
    BY <1>7, <2>1
  <2> QED BY <2>1, <2>2
<1>11. \A t \in Clients : request'[t] \in Request /\ RequestOK(request[t])'
  <2> SUFFICES ASSUME NEW t \in Clients
               PROVE  request'[t] \in Request /\ RequestOK(request[t])'
    OBVIOUS
  <2>1. PICK q : q = request[t] /\ RequestOK(q) /\ q.step # "done" /\ q.age < MaxRequest
    BY <1>1 DEF IInv, InTime
  <2>2. PICK old : old = request'[t]
    OBVIOUS
  <2>3. old \in Request /\ RequestOK(old)'
    <3>1. CASE q.step = "none"
      BY <1>1, <1>8, <2>1, <2>2, <3>1, BlankFacts
    <3>2. CASE q.step # "none"
      <4>1. old = [q EXCEPT !.age = q.age + 1]
        BY <1>1, <2>1, <2>2, <3>2
      <4> QED BY <1>9, <2>1, <4>1
    <3> QED BY <3>1, <3>2
  <2> QED BY <2>2, <2>3
<1>12. page_in' \in [Caches -> Entry] /\ request' \in [Clients -> Request]
  <2>1. page_in' \in [Caches -> Entry]
    <3>1. \A c \in Caches : Aged(page_in[c]) \in Entry
      BY <1>1, <1>10
    <3> QED BY <1>1, <3>1
  <2>2. request' \in [Clients -> Request]
    BY <1>1, <1>11
  <2> QED BY <2>1, <2>2
<1> QED BY <1>3, <1>10, <1>11, <1>12 DEF IInv

-----------------------------------------------------------------------------
(* The invariant holds                                                     *)

LEMMA NextInv ==
    ASSUME IInv, [Next]_vars
    PROVE  IInv'
<1>1. ASSUME NEW p \in Protocols, Commit(p) \/ DropOld(p)
      PROVE  IInv'
  BY <1>1, CommitInv
<1>2. ASSUME NEW t \in Clients, Serve(t)
      PROVE  IInv'
  BY <1>2, HitInv, MissInv, ReadNowInv, QueryInv, EndInv, SetPageInv DEF Serve
<1>3. CASE RedisGoesDown \/ RedisComesUp
  BY <1>3, RedisInv
<1>4. CASE Tick
  BY <1>4, TickInv
<1>5. CASE UNCHANGED vars
  BY <1>5, PagesChange DEF vars, IInv, TablesOK
<1> QED BY <1>1, <1>2, <1>3, <1>4, <1>5 DEF Next

LEMMA SpecInv == Spec => []IInv
<1>1. IInv /\ [Next]_vars => IInv'
  BY NextInv
<1> QED BY <1>1, InitInv, PTL DEF Spec

\* Every page, in a cache or on its way, names rounds there can be, and no
\* request is longer than assumed.
THEOREM StatusTypeCorrect == Spec => []TypeOK
<1>1. IInv => TypeOK
  <2> SUFFICES ASSUME IInv
               PROVE  TypeOK
    OBVIOUS
  <2>1. Entry \subseteq [page : Page, ttl : Nat]
    BY ConstantFacts DEF Entry
  <2>2. page_in \in [Caches -> [page : Page, ttl : Nat]]
    BY <2>1 DEF IInv
  <2>3. request \in [Clients -> Request]
    BY DEF IInv
  <2> QED BY <2>2, <2>3 DEF TypeOK, IInv, TablesOK, Latests, Request
<1> QED BY <1>1, SpecInv, PTL

\* Whatever redis does, each round on a page was right less than the page's
\* time in a cache and one request ago.
THEOREM PagesAreFresh == Spec => []Fresh
<1>1. IInv => Fresh
  <2> SUFFICES ASSUME IInv, NEW t \in Clients, request[t].step = "done"
               PROVE  /\ request[t].page.active >= RoundAt(clock - MaxAge)
                      /\ \A p \in Protocols : ago[p][request[t].page.latest[p]] < MaxAge
    BY DEF Fresh, Answered
  <2>1. PICK page \in Page : page = request[t].page /\ PageWithin(page, MaxAge - 1)
    BY DEF IInv, RequestOK, Request
  <2>2. MaxAge - 1 \in Nat /\ MaxAge \in Nat /\ MaxAge - 1 <= MaxAge
    BY ConstantFacts
  <2>3. ActiveWithin(page, MaxAge)
    BY <2>1, <2>2, Weaken DEF IInv, PageWithin
  <2>4. \A p \in Protocols : ago[p][page.latest[p]] \in Nat
    BY LatestType, ProtocolsFact, ConstantFacts DEF IInv, TablesOK
  <2>5. \A p \in Protocols : ago[p][page.latest[p]] < MaxAge
    BY <2>1, <2>2, <2>4 DEF PageWithin, LatestWithin
  <2> QED BY <2>1, <2>3, <2>5 DEF ActiveWithin
<1> QED BY <1>1, SpecInv, PTL

\* A round that a page names, however old the page, is in the tables or behind
\* the history.
THEOREM ReportedRoundsCanBeFetched == Spec => []ReportedCanBeFetched
<1>1. IInv => ReportedCanBeFetched
  BY DEF IInv, RequestOK, PageFetchable, Fetchable, ReportedCanBeFetched
<1> QED BY <1>1, SpecInv, PTL

=============================================================================
