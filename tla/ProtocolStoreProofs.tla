------------------------ MODULE ProtocolStoreProofs ------------------------
(***************************************************************************)
(* What ProtocolStore guarantees for every history, number of rounds, of   *)
(* crashes and of lost COMMITs, checked by TLAPS.                          *)
(***************************************************************************)
EXTENDS ProtocolStore, FiniteSetTheorems, TLAPS

-----------------------------------------------------------------------------
(* The statements of a transaction                                         *)

\* Each protocol inserts the root first, and two or three tables.
LEMMA InsertsFacts ==
    ASSUME NEW p \in Protocols
    PROVE  /\ Len(Inserts[p]) \in 2 .. 3
           /\ Inserts[p][1] = "root"
           /\ \A i \in 1 .. Len(Inserts[p]) : Inserts[p][i] \in Tables
           /\ "root" \notin DataTables(p)
           /\ DataTables(p) \subseteq Tables
           /\ DataTables(p) # {}
           /\ p = "ftso" => DataTables(p) = {"random", "feed"}
<1>1. CASE p = "ftso"
  <2>1. Inserts[p] = <<"root", "random", "feed">>
    BY <1>1 DEF Inserts
  <2>2. Len(Inserts[p]) = 3
    BY <2>1
  <2>3. DataTables(p) = {Inserts[p][2], Inserts[p][3]}
    BY <2>2 DEF DataTables
  <2>4. Inserts[p][1] = "root" /\ Inserts[p][2] = "random" /\ Inserts[p][3] = "feed"
    BY <2>1
  <2> QED BY <2>2, <2>3, <2>4 DEF Tables
<1>2. CASE p = "fdc"
  <2>1. Inserts[p] = <<"root", "attestation">>
    BY <1>2 DEF Inserts
  <2>2. Len(Inserts[p]) = 2
    BY <2>1
  <2>3. DataTables(p) = {Inserts[p][2]}
    BY <2>2 DEF DataTables
  <2>4. Inserts[p][1] = "root" /\ Inserts[p][2] = "attestation"
    BY <2>1
  <2> QED BY <1>2, <2>2, <2>3, <2>4 DEF Tables
<1> QED BY <1>1, <1>2, ProtocolsAssumption

\* A complete transaction inserts one row into each table of its protocol.
LEMMA InsertedFacts ==
    ASSUME NEW x \in Transaction, x.done = Len(Inserts[x.protocol])
    PROVE  \A row : row \in Inserted(x) <=>
              /\ row \in Row
              /\ row.protocol = x.protocol
              /\ row.round = x.round
              /\ row.gen = x.gen
              /\ row.table \in {"root"} \cup DataTables(x.protocol)
<1> DEFINE p == x.protocol
           row(t) == [protocol |-> p, table |-> t, round |-> x.round, gen |-> x.gen]
<1>1. p \in Protocols /\ x.round \in Rounds /\ x.gen \in Keys
  BY DEF Transaction
<1>2. Inserted(x) = {row(Inserts[p][i]) : i \in 1 .. Len(Inserts[p])}
  BY DEF Inserted
<1>3. {Inserts[p][i] : i \in 1 .. Len(Inserts[p])} = {"root"} \cup DataTables(p)
  BY <1>1, InsertsFacts DEF DataTables
<1>4. Inserted(x) = {row(t) : t \in {"root"} \cup DataTables(p)}
  BY <1>2, <1>3
<1>5. {"root"} \cup DataTables(p) \subseteq Tables
  BY <1>1, InsertsFacts DEF Tables
<1>6. ASSUME NEW r \in Inserted(x)
      PROVE  /\ r \in Row
             /\ r.protocol = p /\ r.round = x.round /\ r.gen = x.gen
             /\ r.table \in {"root"} \cup DataTables(p)
  <2>1. PICK t \in {"root"} \cup DataTables(p) : r = row(t)
    BY <1>4
  <2> QED BY <2>1, <1>1, <1>5 DEF Row
<1>7. ASSUME NEW r, r \in Row, r.protocol = p, r.round = x.round, r.gen = x.gen,
             r.table \in {"root"} \cup DataTables(p)
      PROVE  r \in Inserted(x)
  <2>1. r = row(r.table)
    BY <1>7 DEF Row
  <2> QED BY <2>1, <1>4, <1>7
<1> QED BY <1>6, <1>7

-----------------------------------------------------------------------------
(* The invariant                                                           *)

\* The transactions whose COMMIT may still take effect.
Open == (late \cup {txn[p] : p \in Protocols}) \ {Idle}

\* They hold rows of rounds that are over; those in flight are complete.
OpenWithin ==
    /\ \A x \in Open : x.done <= Len(Inserts[x.protocol]) /\ x.round < now
    /\ \A x \in late : x.done = Len(Inserts[x.protocol])

\* The unique index lets a round be open once for a protocol.
OneOpenPerRound ==
    \A x \in late :
        /\ \A y \in late : x.protocol = y.protocol /\ x.round = y.round => x = y
        /\ \A p \in Protocols : txn[p] # Idle =>
              ~(txn[p].protocol = x.protocol /\ txn[p].round = x.round)

\* ... and not while its root is there; primary keys are new.
OpenIsNew ==
    \A x \in Open, row \in rows :
        row.protocol = x.protocol /\ row.round = x.round
            => row.gen # x.gen /\ row.table # "root"

\* The rows that were inserted with a root are there as long as the root.
InsertedTogether ==
    \A row \in rows : row.table = "root" =>
        \A t \in DataTables(row.protocol) :
            [protocol |-> row.protocol, table |-> t, round |-> row.round,
             gen |-> row.gen] \in rows

\* delete_history has marked old rows only, and after its last statement the
\* root of every transaction of which it has marked a row.
DoomedOld ==
    /\ stmt = 0 => doomed = {}
    /\ \A row \in doomed : row \in rows /\ row.round < cutoff
    /\ stmt = 5 => \A row \in doomed, root \in rows :
          /\ root.table = "root"
          /\ root.protocol = row.protocol
          /\ root.round = row.round
          /\ root.gen = row.gen
          => root \in doomed

\* The history dropped is behind the history being dropped, behind now.
HorizonBehind ==
    /\ horizon = 0 \/ horizon <= now - History
    /\ stmt # 0 => horizon <= cutoff /\ cutoff <= now - History

\* A tree that is not complete has a query left.
TreeUnfinished == request.step = "tree" => request.read < Len(ReadOrder)

IInv ==
    /\ TypeOK
    /\ TreeUnfinished
    /\ OpenWithin
    /\ OneOpenPerRound
    /\ OpenIsNew
    /\ InsertedTogether
    /\ DoomedOld
    /\ HorizonBehind
    /\ LiveDataOnce

LEMMA InitInv == Init => IInv
<1> SUFFICES ASSUME Init
             PROVE  IInv
  OBVIOUS
<1>1. TypeOK
  BY HistoryAssumption DEF Init, TypeOK, Rounds, Request, NoRequest, Endpoints
<1>2. rows = {} /\ Open = {} /\ late = {}
  BY DEF Init, Open
<1> QED BY <1>1, <1>2
        DEF Init, IInv, OpenWithin, OneOpenPerRound, OpenIsNew, InsertedTogether,
            DoomedOld, HorizonBehind, LiveDataOnce, TreeUnfinished, NoRequest

\* Two open transactions are about different rounds or protocols.
LEMMA OpenDistinct ==
    ASSUME TypeOK, OneOpenPerRound, NEW x \in Open, NEW y \in Open,
           x.protocol = y.protocol, x.round = y.round
    PROVE  x = y
<1>1. CASE x \in late /\ y \in late
  BY <1>1 DEF OneOpenPerRound
<1>2. CASE x \notin late /\ y \notin late
  BY <1>2 DEF Open, TypeOK
<1>3. CASE x \in late /\ y \notin late
  BY <1>3 DEF Open, OneOpenPerRound
<1>4. CASE x \notin late /\ y \in late
  BY <1>4 DEF Open, OneOpenPerRound
<1> QED BY <1>1, <1>2, <1>3, <1>4

\* An open transaction is one.
LEMMA OpenType ==
    ASSUME TypeOK, NEW x \in Open
    PROVE  x \in Transaction
  BY DEF Open, TypeOK

-----------------------------------------------------------------------------
(* Steps that leave the tables alone                                       *)

\* The view changes its request only, to another one.
LEMMA ViewStep ==
    ASSUME TypeOK, TreeUnfinished, View
    PROVE  /\ request' \in Request
           /\ UNCHANGED <<now, rows, txn, late, stmt, cutoff, doomed, horizon, crashes>>
<1>1. NoRequest \in Request
  BY HistoryAssumption DEF NoRequest, Request, Endpoints, Rounds
<1>2. ASSUME NEW endpoint \in Endpoints, NEW r \in Rounds
      PROVE  Ask(endpoint, r) \in Request
  <2>1. PICK s \in {"none", "tree", "data", "done"} :
            s = IF endpoint = "names" THEN "data" ELSE "tree"
    OBVIOUS
  <2>2. PICK b \in BOOLEAN : b = HasRoot("ftso", r)
    BY Zenon DEF HasRoot
  <2>3. [NoRequest EXCEPT !.step = s] \in Request
    BY <1>1 DEF Request
  <2>4. PICK q1 \in Request : q1 = [NoRequest EXCEPT !.step = s]
    BY <2>3
  <2>5. [q1 EXCEPT !.endpoint = endpoint] \in Request
    BY DEF Request
  <2>6. PICK q2 \in Request : q2 = [q1 EXCEPT !.endpoint = endpoint]
    BY <2>5
  <2>7. [q2 EXCEPT !.round = r] \in Request
    BY DEF Request
  <2>8. PICK q3 \in Request : q3 = [q2 EXCEPT !.round = r]
    BY <2>7
  <2>9. [q3 EXCEPT !.had_root = b] \in Request
    BY DEF Request
  <2> QED BY <2>1, <2>2, <2>4, <2>6, <2>8, <2>9 DEF Ask
<1>3. ASSUME NEW p, NEW t, NEW r
      PROVE  RowsOf(p, t, r) \subseteq Row
  BY DEF RowsOf, TypeOK
<1>4. CASE AskRound
  BY <1>2, <1>4 DEF AskRound
<1>5. CASE AskLatest
  <2>1. PICK endpoint \in Endpoints, row \in rows : request' = Ask(endpoint, row.round)
    BY <1>5 DEF AskLatest
  <2>2. row.round \in Rounds
    BY DEF TypeOK, Row
  <2> QED BY <1>2, <1>5, <2>1, <2>2 DEF AskLatest
<1>6. ASSUME NEW leaves \in SUBSET Row, NEW t, Reading(t), AddToTree(leaves)
      PROVE  request' \in Request
  <2>1. request \in Request /\ request.step = "tree" /\ request.tree \subseteq Row
    BY <1>6 DEF Reading, TypeOK, Request
  <2>2. PICK s \in {"none", "tree", "data", "done"} :
            s = IF request.read + 1 = Len(ReadOrder) THEN "data" ELSE request.step
    BY <2>1
  <2>3. PICK m \in 0 .. 2 : m = request.read + 1
    BY <2>1 DEF TreeUnfinished, ReadOrder, Request, TypeOK
  <2>4. PICK tree \in SUBSET Row : tree = request.tree \cup leaves
    BY <2>1
  <2>5. [request EXCEPT !.read = m] \in Request
    BY <2>1 DEF Request
  <2>6. PICK q1 \in Request : q1 = [request EXCEPT !.read = m]
    BY <2>5
  <2>7. [q1 EXCEPT !.tree = tree] \in Request
    BY DEF Request
  <2>8. PICK q2 \in Request : q2 = [q1 EXCEPT !.tree = tree]
    BY <2>7
  <2>9. [q2 EXCEPT !.step = s] \in Request
    BY DEF Request
  <2> QED BY <1>6, <2>2, <2>3, <2>4, <2>6, <2>8, <2>9 DEF AddToTree
<1>7. CASE ReadRandom
  <2>1. PICK row \in RowsOf("ftso", "random", request.round) : AddToTree({row})
    BY <1>7 DEF ReadRandom
  <2>2. {row} \in SUBSET Row
    BY <1>3
  <2> QED BY <1>6, <1>7, <2>1, <2>2 DEF ReadRandom
<1>8. CASE ReadNoRandom
  <2>1. [request EXCEPT !.step = "done"] \in Request
    BY DEF TypeOK, Request
  <2>2. PICK q1 \in Request : q1 = [request EXCEPT !.step = "done"]
    BY <2>1
  <2>3. [q1 EXCEPT !.status = 400] \in Request
    BY DEF Request
  <2> QED BY <1>8, <2>2, <2>3 DEF ReadNoRandom
<1>9. CASE ReadFeeds
  BY <1>3, <1>6, <1>9 DEF ReadFeeds
<1>10. CASE ReadData
  <2>1. [request EXCEPT !.step = "done"] \in Request
    BY DEF TypeOK, Request
  <2>2. PICK q1 \in Request : q1 = [request EXCEPT !.step = "done"]
    BY <2>1
  <2>3. [q1 EXCEPT !.status = 200] \in Request
    BY DEF Request
  <2>4. PICK q2 \in Request : q2 = [q1 EXCEPT !.status = 200]
    BY <2>3
  <2>5. PICK data \in SUBSET Row : data = RowsOf("ftso", "feed", request.round)
    BY <1>3
  <2>6. [q2 EXCEPT !.data = data] \in Request
    BY DEF Request
  <2> QED BY <1>10, <2>2, <2>4, <2>5, <2>6 DEF ReadData
<1>11. CASE Respond
  BY <1>1, <1>11 DEF Respond
<1>12. CASE AskLatestOfNone
  <2>1. [NoRequest EXCEPT !.step = "done"] \in Request
    BY <1>1 DEF Request
  <2>2. PICK q1 \in Request : q1 = [NoRequest EXCEPT !.step = "done"]
    BY <2>1
  <2>3. [q1 EXCEPT !.status = 404] \in Request
    BY DEF Request
  <2> QED BY <1>12, <2>2, <2>3 DEF AskLatestOfNone
<1> QED BY <1>4, <1>5, <1>7, <1>8, <1>9, <1>10, <1>11, <1>12 DEF View

LEMMA ViewInv ==
    ASSUME IInv, View
    PROVE  IInv'
<1>1. /\ request' \in Request
      /\ UNCHANGED <<now, rows, txn, late, stmt, cutoff, doomed, horizon, crashes>>
  BY ViewStep DEF IInv
<1>2. TypeOK'
  BY <1>1 DEF IInv, TypeOK, Transaction
<1>7. TreeUnfinished'
  <2>1. CASE \E t, leaves : Reading(t) /\ AddToTree(leaves)
    <3>1. request \in Request /\ request.step = "tree" /\ request.read \in 0 .. 1
      BY <2>1 DEF Reading, IInv, TypeOK, TreeUnfinished, ReadOrder, Request
    <3>2. request'.read = request.read + 1
      BY <2>1, <3>1 DEF AddToTree, Request
    <3>3. request'.step = IF request.read + 1 = 2 THEN "data" ELSE "tree"
      BY <2>1, <3>1 DEF AddToTree, Request, ReadOrder
    <3> QED BY <3>1, <3>2, <3>3 DEF TreeUnfinished, ReadOrder
  <2>2. CASE ~ \E t, leaves : Reading(t) /\ AddToTree(leaves)
    <3>0. request \in Request /\ request' \in Request
      BY <1>1 DEF IInv, TypeOK
    <3>1. CASE request' = NoRequest \/ request'.step = "done"
      BY <3>1 DEF NoRequest, TreeUnfinished, ReadOrder
    <3>2. CASE \E endpoint, r : request' = Ask(endpoint, r)
      <4>1. request'.read = 0
        BY <3>2 DEF Ask, NoRequest
      <4> QED BY <4>1 DEF TreeUnfinished, ReadOrder
    <3>3. CASE ReadNoRandom \/ ReadData \/ AskLatestOfNone
      <4>1. ReadNoRandom => request'.step = "done"
        BY <3>0 DEF ReadNoRandom, Request
      <4>2. AskLatestOfNone => request'.step = "done"
        BY DEF AskLatestOfNone, NoRequest
      <4>3. ReadData => request'.step = "done"
        BY <3>0 DEF ReadData, Request
      <4> QED BY <3>1, <3>3, <4>1, <4>2, <4>3
    <3> QED BY <2>2, <3>1, <3>2, <3>3
            DEF View, AskRound, AskLatest, ReadRandom, ReadFeeds, Respond
  <2> QED BY <2>1, <2>2
<1>3. Open' = Open
  BY <1>1 DEF Open
<1>4. OpenWithin' /\ OneOpenPerRound' /\ OpenIsNew'
  BY <1>1, <1>3 DEF IInv, OpenWithin, OneOpenPerRound, OpenIsNew
<1>5. InsertedTogether' /\ DoomedOld' /\ HorizonBehind'
  BY <1>1 DEF IInv, InsertedTogether, DoomedOld, HorizonBehind
<1>6. LiveDataOnce'
  BY <1>1 DEF IInv, LiveDataOnce, Live, RowsOf, HasRoot
<1> QED BY <1>2, <1>4, <1>5, <1>6, <1>7 DEF IInv

\* What does not depend on open transactions.
LEMMA SameRows ==
    ASSUME IInv, UNCHANGED <<now, rows, stmt, cutoff, doomed, horizon, request>>
    PROVE  InsertedTogether' /\ DoomedOld' /\ HorizonBehind' /\ LiveDataOnce' /\ TreeUnfinished'
<1>1. InsertedTogether' /\ DoomedOld' /\ HorizonBehind' /\ TreeUnfinished'
  BY DEF IInv, InsertedTogether, DoomedOld, HorizonBehind, TreeUnfinished
<1>2. LiveDataOnce'
  BY DEF IInv, LiveDataOnce, Live, RowsOf, HasRoot
<1> QED BY <1>1, <1>2

-----------------------------------------------------------------------------
(* A transaction that is open                                              *)

LEMMA BeginInv ==
    ASSUME IInv, NEW p \in Protocols, Begin(p)
    PROVE  IInv'
<1>1. PICK r \in 0 .. now - 1, key \in Keys :
          /\ ~Refuses(p, r)
          /\ IsNewKey(p, r, key)
          /\ txn' = [txn EXCEPT ![p] =
                        [protocol |-> p, round |-> r, gen |-> key, done |-> 1]]
  BY DEF Begin
<1> DEFINE new == [protocol |-> p, round |-> r, gen |-> key, done |-> 1]
<1>2. /\ UNCHANGED <<now, rows, late, stmt, cutoff, doomed, horizon, request, crashes>>
      /\ txn[p] = Idle
      /\ TypeOK
  BY DEF Begin, IInv
<1>3. r \in Rounds /\ r < now
  BY <1>2, HistoryAssumption DEF TypeOK, Rounds
<1>4. new \in Transaction
  BY <1>3 DEF Transaction
<1>5. /\ txn'[p] = new
      /\ \A q \in Protocols : q # p => txn'[q] = txn[q]
  BY <1>1, <1>2 DEF TypeOK
<1>6. TypeOK'
  <2>1. txn' \in [Protocols -> Transaction \cup {Idle}]
    BY <1>1, <1>2, <1>4 DEF TypeOK
  <2>2. \A q \in Protocols : txn'[q] # Idle => txn'[q].protocol = q
    BY <1>2, <1>5 DEF TypeOK
  <2> QED BY <1>2, <2>1, <2>2 DEF TypeOK
<1>7. Open' \subseteq Open \cup {new} /\ late' = late
  BY <1>2, <1>5 DEF Open
<1>8. OpenWithin'
  <2>1. new.done <= Len(Inserts[new.protocol]) /\ new.round < now
    BY <1>3, InsertsFacts
  <2> QED BY <1>2, <1>7, <2>1 DEF OpenWithin, IInv
<1>9. OneOpenPerRound'
  <2>1. \A x \in late : ~(x.protocol = p /\ x.round = r)
    BY <1>1 DEF Refuses
  <2> QED BY <1>2, <1>5, <2>1 DEF OneOpenPerRound, IInv
<1>10. OpenIsNew'
  <2>1. ASSUME NEW row \in rows, row.protocol = p, row.round = r
        PROVE  row.gen # key /\ row.table # "root"
    <3>1. row.table # "root"
      BY <1>1, <2>1 DEF Refuses, HasRoot, RowsOf
    <3>2. row.gen # key
      BY <1>1, <2>1 DEF IsNewKey
    <3> QED BY <3>1, <3>2
  <2> QED BY <1>2, <1>7, <2>1 DEF OpenIsNew, IInv
<1> QED BY <1>2, <1>6, <1>8, <1>9, <1>10, SameRows DEF IInv

LEMMA BulkCreateInv ==
    ASSUME IInv, NEW p \in Protocols, BulkCreate(p)
    PROVE  IInv'
<1> DEFINE x == txn[p]
<1>1. /\ UNCHANGED <<now, rows, late, stmt, cutoff, doomed, horizon, request, crashes>>
      /\ x # Idle /\ x.done < Len(Inserts[p])
      /\ txn' = [txn EXCEPT ![p].done = x.done + 1]
      /\ TypeOK
  BY DEF BulkCreate, IInv
<1>2. x \in Transaction /\ x.protocol = p
  BY <1>1 DEF TypeOK
<1>3. PICK n \in 1 .. 3 : n = x.done + 1 /\ n <= Len(Inserts[p])
  <2>1. x.done \in 1 .. 3
    BY <1>2 DEF Transaction
  <2>2. PICK length \in 2 .. 3 : length = Len(Inserts[p])
    BY InsertsFacts
  <2>3. PICK done \in 1 .. 3 : done = x.done
    BY <2>1
  <2>4. done < length
    BY <1>1, <2>2, <2>3, Zenon
  <2>5. done + 1 \in 1 .. 3 /\ done + 1 <= length
    BY <2>4
  <2> QED BY <2>2, <2>3, <2>5
<1>4. PICK new : new = [x EXCEPT !.done = n]
  OBVIOUS
<1>5. /\ new \in Transaction
      /\ new.protocol = p /\ new.round = x.round /\ new.gen = x.gen /\ new.done = n
  BY <1>2, <1>4 DEF Transaction
<1>6. new # Idle
  <2>1. Idle.done = 0 /\ new.done # 0
    BY <1>5 DEF Idle
  <2> QED BY <2>1
<1>7. txn' = [txn EXCEPT ![p] = new]
  BY <1>1, <1>3, <1>4 DEF TypeOK
<1>8. /\ txn'[p] = new
      /\ \A q \in Protocols : q # p => txn'[q] = txn[q]
  BY <1>1, <1>7 DEF TypeOK
<1>9. TypeOK'
  <2>1. txn' \in [Protocols -> Transaction \cup {Idle}]
    BY <1>1, <1>5, <1>7 DEF TypeOK
  <2>2. \A q \in Protocols : txn'[q] # Idle => txn'[q].protocol = q
    BY <1>1, <1>5, <1>8 DEF TypeOK
  <2> QED BY <1>1, <2>1, <2>2 DEF TypeOK
<1>10. Open' \subseteq Open \cup {new} /\ late' = late /\ x \in Open
  BY <1>1, <1>8 DEF Open
<1>11. OpenWithin'
  <2>1. new.done <= Len(Inserts[new.protocol]) /\ new.round < now
    BY <1>3, <1>5, <1>10 DEF OpenWithin, IInv
  <2> QED BY <1>1, <1>10, <2>1 DEF OpenWithin, IInv
<1>12. OneOpenPerRound'
  <2>1. \A y \in late : ~(new.protocol = y.protocol /\ new.round = y.round)
    BY <1>1, <1>2, <1>5 DEF OneOpenPerRound, IInv
  <2> QED BY <1>1, <1>8, <2>1 DEF OneOpenPerRound, IInv
<1>13. OpenIsNew'
  BY <1>1, <1>2, <1>5, <1>10 DEF OpenIsNew, IInv
<1> QED BY <1>1, <1>9, <1>11, <1>12, <1>13, SameRows DEF IInv

\* Its end without COMMIT, or with COMMIT on its way.
LEMMA CloseInv ==
    ASSUME IInv, NEW p \in Protocols, Rollback(p) \/ LoseCommit(p)
    PROVE  IInv'
<1> DEFINE x == txn[p]
<1>1. /\ UNCHANGED <<now, rows, stmt, cutoff, doomed, horizon, request, crashes>>
      /\ x # Idle
      /\ txn' = [txn EXCEPT ![p] = Idle]
      /\ late' = late \/ (late' = late \cup {x} /\ x.done = Len(Inserts[p]))
      /\ TypeOK
  BY DEF Rollback, LoseCommit, ReadyToCommit, IInv
<1>2. x \in Transaction /\ x.protocol = p /\ x \in Open
  BY <1>1 DEF TypeOK, Open
<1>3. /\ txn'[p] = Idle
      /\ \A q \in Protocols : q # p => txn'[q] = txn[q]
  BY <1>1 DEF TypeOK
<1>4. TypeOK'
  <2>1. txn' \in [Protocols -> Transaction \cup {Idle}]
    BY <1>1 DEF TypeOK
  <2>2. \A q \in Protocols : txn'[q] # Idle => txn'[q].protocol = q
    BY <1>1, <1>3 DEF TypeOK
  <2>3. late' \in SUBSET Transaction
    BY <1>1, <1>2 DEF TypeOK
  <2> QED BY <1>1, <2>1, <2>2, <2>3 DEF TypeOK
<1>5. Open' \subseteq Open
  BY <1>1, <1>2, <1>3 DEF Open
<1>6. OpenWithin'
  BY <1>1, <1>2, <1>5 DEF OpenWithin, IInv
<1>7. OneOpenPerRound'
  <2>1. ASSUME NEW q \in Protocols, txn'[q] # Idle
        PROVE  q # p /\ txn'[q] = txn[q] /\ txn[q].protocol = q
    BY <1>1, <1>3, <2>1 DEF TypeOK
  <2>2. \A y \in late' : \A q \in Protocols : txn'[q] # Idle =>
            ~(txn'[q].protocol = y.protocol /\ txn'[q].round = y.round)
    BY <1>1, <1>2, <2>1 DEF OneOpenPerRound, IInv
  <2>3. \A y, z \in late' : y.protocol = z.protocol /\ y.round = z.round => y = z
    BY <1>1, <1>2 DEF OneOpenPerRound, IInv
  <2> QED BY <2>2, <2>3 DEF OneOpenPerRound
<1>8. OpenIsNew'
  BY <1>1, <1>5 DEF OpenIsNew, IInv
<1> QED BY <1>1, <1>4, <1>6, <1>7, <1>8, SameRows DEF IInv

-----------------------------------------------------------------------------
(* COMMIT                                                                  *)

\* The rows of a complete transaction become visible, all at once.
LEMMA StoreKeeps ==
    ASSUME IInv, NEW x \in Open, x.done = Len(Inserts[x.protocol]),
           rows' = rows \cup Inserted(x),
           Open' \subseteq Open \ {x},
           UNCHANGED <<now, stmt, cutoff, doomed, horizon>>
    PROVE  /\ rows' \subseteq Row
           /\ OpenIsNew' /\ InsertedTogether' /\ DoomedOld' /\ HorizonBehind' /\ LiveDataOnce'
<1> DEFINE p == x.protocol
           r == x.round
<1>1. x \in Transaction /\ TypeOK /\ p \in Protocols
  BY OpenType DEF IInv, Transaction
<1>2. \A row : row \in Inserted(x) <=>
          /\ row \in Row /\ row.protocol = p /\ row.round = r /\ row.gen = x.gen
          /\ row.table \in {"root"} \cup DataTables(p)
  BY <1>1, InsertedFacts
<1>3. rows' \subseteq Row
  BY <1>1, <1>2 DEF TypeOK
<1>4. OpenIsNew'
  <2> SUFFICES ASSUME NEW y \in Open \ {x}, NEW row \in rows \cup Inserted(x),
                      row.protocol = y.protocol, row.round = y.round
               PROVE  row.gen # y.gen /\ row.table # "root"
    BY DEF OpenIsNew
  <2>1. CASE row \in rows
    BY <2>1 DEF IInv, OpenIsNew
  <2>2. CASE row \in Inserted(x)
    BY <2>2, <1>1, <1>2, OpenDistinct DEF IInv
  <2> QED BY <2>1, <2>2
<1>5. InsertedTogether'
  <2> SUFFICES ASSUME NEW row \in rows \cup Inserted(x), row.table = "root",
                      NEW t \in DataTables(row.protocol)
               PROVE  [protocol |-> row.protocol, table |-> t, round |-> row.round,
                       gen |-> row.gen] \in rows \cup Inserted(x)
    BY DEF InsertedTogether
  <2>1. CASE row \in rows
    BY <2>1 DEF IInv, InsertedTogether
  <2>2. CASE row \in Inserted(x)
    <3>1. row.protocol = p /\ row.round = r /\ row.gen = x.gen
      BY <2>2, <1>2
    <3>2. t \in DataTables(p) /\ t \in Tables /\ r \in Rounds /\ x.gen \in Keys
      BY <3>1, <1>1, InsertsFacts DEF Transaction
    <3>3. PICK data : data = [protocol |-> p, table |-> t, round |-> r, gen |-> x.gen]
      OBVIOUS
    <3>4. data \in Row /\ data.protocol = p /\ data.round = r /\ data.gen = x.gen /\ data.table = t
      BY <3>2, <3>3, <1>1 DEF Row
    <3> QED BY <3>1, <3>2, <3>3, <3>4, <1>2
  <2> QED BY <2>1, <2>2
<1>6. DoomedOld'
  <2>1. \A row \in doomed : row \in rows
    BY DEF IInv, DoomedOld
  <2>2. \A row \in doomed, root \in Inserted(x) :
            ~(root.protocol = row.protocol /\ root.round = row.round /\ root.gen = row.gen)
    BY <2>1, <1>2 DEF IInv, OpenIsNew
  <2> QED BY <2>1, <2>2 DEF IInv, DoomedOld
<1>7. HorizonBehind'
  BY DEF IInv, HorizonBehind
<1>8. LiveDataOnce'
  <2> SUFFICES ASSUME NEW row \in rows \cup Inserted(x), row.round >= horizon
               PROVE  /\ \A other \in rows \cup Inserted(x) :
                            /\ other.protocol = row.protocol
                            /\ other.table = row.table
                            /\ other.round = row.round
                            => other = row
                      /\ \E root \in rows \cup Inserted(x) :
                            /\ root.protocol = row.protocol
                            /\ root.table = "root"
                            /\ root.round = row.round
    BY DEF LiveDataOnce, Live, RowsOf, HasRoot
  <2>1. \A old \in rows : old.protocol = p /\ old.round = r => ~ old.round >= horizon
    BY DEF IInv, LiveDataOnce, Live, HasRoot, RowsOf, OpenIsNew
  <2>2. CASE row \in rows
    <3>1. ~(row.protocol = p /\ row.round = r)
      BY <2>1, <2>2
    <3>2. \A other \in rows :
              /\ other.protocol = row.protocol
              /\ other.table = row.table
              /\ other.round = row.round
              => other = row
      BY <2>2 DEF IInv, LiveDataOnce, Live, RowsOf
    <3>3. \E root \in rows :
              root.protocol = row.protocol /\ root.table = "root" /\ root.round = row.round
      BY <2>2 DEF IInv, LiveDataOnce, Live, RowsOf, HasRoot
    <3> QED BY <3>1, <3>2, <3>3, <1>2
  <2>3. CASE row \in Inserted(x)
    <3>1. row \in Row /\ row.protocol = p /\ row.round = r /\ row.gen = x.gen
      BY <2>3, <1>2
    <3>2. \A other \in Inserted(x) : other.table = row.table => other = row
      BY <3>1, <1>2 DEF Row
    <3>3. \A other \in rows : ~(other.protocol = p /\ other.round = r)
      BY <2>1, <3>1
    <3>4. PICK root : root = [protocol |-> p, table |-> "root", round |-> r, gen |-> x.gen]
      OBVIOUS
    <3>5. root \in Row /\ root.protocol = p /\ root.table = "root" /\ root.round = r /\ root.gen = x.gen
      BY <3>4, <1>1 DEF Row, Transaction, Tables
    <3> QED BY <3>1, <3>2, <3>3, <3>5, <1>2
  <2> QED BY <2>2, <2>3
<1> QED BY <1>3, <1>4, <1>5, <1>6, <1>7, <1>8

LEMMA CommitInv ==
    ASSUME IInv, NEW p \in Protocols, Commit(p)
    PROVE  IInv'
<1> DEFINE x == txn[p]
<1>1. /\ UNCHANGED <<now, late, stmt, cutoff, doomed, horizon, request, crashes>>
      /\ x # Idle /\ x.done = Len(Inserts[p])
      /\ rows' = rows \cup Inserted(x)
      /\ txn' = [txn EXCEPT ![p] = Idle]
      /\ TypeOK
  BY DEF Commit, ReadyToCommit, IInv
<1>2. x \in Transaction /\ x.protocol = p /\ x \in Open
  BY <1>1 DEF TypeOK, Open
<1>3. /\ txn'[p] = Idle
      /\ \A q \in Protocols : q # p => txn'[q] = txn[q]
  BY <1>1 DEF TypeOK
<1>4. Open' \subseteq Open \ {x}
  <2>1. x \notin late
    BY <1>1, <1>2 DEF IInv, OneOpenPerRound
  <2>2. \A q \in Protocols : q # p => txn[q] # x
    BY <1>1, <1>2 DEF TypeOK
  <2> QED BY <1>1, <1>3, <2>1, <2>2 DEF Open
<1>5. /\ rows' \subseteq Row
      /\ OpenIsNew' /\ InsertedTogether' /\ DoomedOld' /\ HorizonBehind' /\ LiveDataOnce'
  BY <1>1, <1>2, <1>4, StoreKeeps
<1>6. TypeOK'
  <2>1. txn' \in [Protocols -> Transaction \cup {Idle}]
    BY <1>1 DEF TypeOK
  <2>2. \A q \in Protocols : txn'[q] # Idle => txn'[q].protocol = q
    BY <1>1, <1>3 DEF TypeOK
  <2> QED BY <1>1, <1>5, <2>1, <2>2 DEF TypeOK
<1>7. OpenWithin' /\ OneOpenPerRound' /\ TreeUnfinished'
  BY <1>1, <1>3, <1>4 DEF IInv, OpenWithin, OneOpenPerRound, TreeUnfinished
<1> QED BY <1>5, <1>6, <1>7 DEF IInv

LEMMA LateCommitInv ==
    ASSUME IInv, LateCommit
    PROVE  IInv'
<1>1. PICK x \in late :
          /\ late' = late \ {x}
          /\ rows' \in {rows, rows \cup Inserted(x)}
  BY DEF LateCommit
<1>2. /\ UNCHANGED <<now, txn, stmt, cutoff, doomed, horizon, request, crashes>>
      /\ TypeOK
  BY DEF LateCommit, IInv
<1>3. x \in Transaction /\ x \in Open /\ x.done = Len(Inserts[x.protocol])
  <2>1. x \in Transaction
    BY <1>2 DEF TypeOK
  <2>2. x # Idle
    <3>1. Idle.done = 0 /\ x.done # 0
      BY <2>1 DEF Idle, Transaction
    <3> QED BY <3>1
  <2> QED BY <2>1, <2>2 DEF Open, IInv, OpenWithin
<1>4. Open' \subseteq Open \ {x}
  <2>1. \A q \in Protocols : txn[q] # Idle => txn[q] # x
    BY DEF IInv, OneOpenPerRound
  <2> QED BY <1>1, <1>2, <2>1 DEF Open
<1>5. OpenWithin' /\ OneOpenPerRound' /\ TreeUnfinished'
  BY <1>1, <1>2, <1>4 DEF IInv, OpenWithin, OneOpenPerRound, TreeUnfinished
<1>6. ASSUME rows' \subseteq Row
      PROVE  TypeOK'
  BY <1>1, <1>2, <1>6 DEF TypeOK
<1>7. CASE rows' = rows \cup Inserted(x)
  BY <1>2, <1>3, <1>4, <1>5, <1>6, <1>7, StoreKeeps DEF IInv
<1>8. CASE rows' = rows
  <2>1. OpenIsNew'
    BY <1>4, <1>8 DEF IInv, OpenIsNew
  <2>2. rows' \subseteq Row
    BY <1>2, <1>8 DEF TypeOK
  <2> QED BY <1>2, <1>5, <1>6, <1>8, <2>1, <2>2, SameRows DEF IInv
<1> QED BY <1>1, <1>7, <1>8

-----------------------------------------------------------------------------
(* delete_history, and the next round                                      *)

LEMMA NextRoundInv ==
    ASSUME IInv, NextRound
    PROVE  IInv'
<1>1. /\ now < MaxRound /\ now' = now + 1 /\ TypeOK
      /\ UNCHANGED <<rows, txn, late, stmt, cutoff, doomed, horizon, request, crashes>>
  BY DEF NextRound, IInv
<1>2. TypeOK' /\ now \in Nat
  <2>1. now \in Nat /\ now' \in Rounds
    BY <1>1, HistoryAssumption DEF TypeOK, Rounds
  <2> QED BY <1>1, <2>1 DEF TypeOK, Transaction
<1>3. Open' = Open
  BY <1>1 DEF Open
<1>4. OpenWithin'
  <2>1. \A x \in Open : x.round \in Nat
    BY <1>1, OpenType, HistoryAssumption DEF Transaction, Rounds
  <2> QED BY <1>1, <1>2, <1>3, <2>1 DEF IInv, OpenWithin
<1>5. OneOpenPerRound' /\ OpenIsNew' /\ InsertedTogether' /\ DoomedOld' /\ TreeUnfinished'
  BY <1>1, <1>3 DEF IInv, OneOpenPerRound, OpenIsNew, InsertedTogether, DoomedOld, TreeUnfinished
<1>6. HorizonBehind'
  <2>1. horizon \in Nat /\ cutoff \in Nat /\ History \in Nat
    BY <1>1, HistoryAssumption DEF TypeOK, Rounds
  <2> QED BY <1>1, <1>2, <2>1 DEF IInv, HorizonBehind
<1>7. LiveDataOnce'
  BY <1>1 DEF IInv, LiveDataOnce, Live, RowsOf, HasRoot
<1> QED BY <1>2, <1>4, <1>5, <1>6, <1>7 DEF IInv

\* What does not depend on delete_history's progress.
LEMMA SameStore ==
    ASSUME IInv, UNCHANGED <<now, rows, txn, late, horizon, request>>
    PROVE  /\ OpenWithin' /\ OneOpenPerRound' /\ OpenIsNew' /\ InsertedTogether'
           /\ LiveDataOnce' /\ TreeUnfinished'
<1>1. Open' = Open
  BY DEF Open
<1>2. OpenWithin' /\ OneOpenPerRound' /\ OpenIsNew' /\ InsertedTogether' /\ TreeUnfinished'
  BY <1>1 DEF IInv, OpenWithin, OneOpenPerRound, OpenIsNew, InsertedTogether, TreeUnfinished
<1>3. LiveDataOnce'
  BY DEF IInv, LiveDataOnce, Live, RowsOf, HasRoot
<1> QED BY <1>2, <1>3

LEMMA WakeDeleterInv ==
    ASSUME IInv, WakeDeleter
    PROVE  IInv'
<1>1. /\ stmt = 0 /\ now >= History /\ stmt' = 1 /\ cutoff' = now - History /\ TypeOK
      /\ UNCHANGED <<now, rows, txn, late, doomed, horizon, request, crashes>>
  BY DEF WakeDeleter, Cutoff, IInv
<1>2. now \in Nat /\ horizon \in Nat /\ History \in Nat /\ cutoff' \in Rounds
  BY <1>1, HistoryAssumption DEF TypeOK, Rounds
<1>3. TypeOK'
  BY <1>1, <1>2 DEF TypeOK, Transaction
<1>4. DoomedOld'
  BY <1>1 DEF IInv, DoomedOld
<1>5. HorizonBehind'
  BY <1>1, <1>2 DEF IInv, HorizonBehind
<1> QED BY <1>1, <1>3, <1>4, <1>5, SameStore DEF IInv

LEMMA DeleteInv ==
    ASSUME IInv, Delete
    PROVE  IInv'
<1> DEFINE marked == {row \in rows : row.table = DeleteOrder[stmt] /\ Old(row)}
<1>1. /\ stmt \in 1 .. 4
      /\ doomed' = doomed \cup marked
      /\ stmt' = stmt + 1 /\ TypeOK
      /\ UNCHANGED <<now, rows, txn, late, cutoff, horizon, request, crashes>>
  BY DEF Delete, DeleteOrder, IInv
<1>2. marked \subseteq Row
  BY <1>1 DEF TypeOK
<1>3. TypeOK'
  <2>1. stmt' \in 0 .. 5
    BY <1>1
  <2>2. doomed' \in SUBSET Row
    BY <1>1, <1>2 DEF TypeOK
  <2> QED BY <1>1, <2>1, <2>2 DEF TypeOK, Transaction
<1>4. \A row \in doomed' : row \in rows /\ row.round < cutoff
  BY <1>1 DEF IInv, DoomedOld, Old
<1>5. ASSUME stmt' = 5, NEW row \in doomed', NEW root \in rows,
             root.table = "root", root.protocol = row.protocol,
             root.round = row.round, root.gen = row.gen
      PROVE  root \in doomed'
  <2>1. stmt = 4
    BY <1>1, <1>5
  <2>2. DeleteOrder[stmt] = "root"
    BY <2>1 DEF DeleteOrder
  <2>3. row.round < cutoff
    BY <1>4, <1>5
  <2>4. root \in marked
    BY <1>5, <2>2, <2>3 DEF Old
  <2> QED BY <1>1, <2>4
<1>6. DoomedOld'
  <2>1. stmt' # 0
    BY <1>1
  <2> QED BY <1>1, <1>4, <1>5, <2>1 DEF DoomedOld
<1>7. HorizonBehind'
  <2>1. stmt # 0
    BY <1>1
  <2> QED BY <1>1, <2>1 DEF IInv, HorizonBehind
<1> QED BY <1>1, <1>3, <1>6, <1>7, SameStore DEF IInv

LEMMA CrashDeleterInv ==
    ASSUME IInv, CrashDeleter
    PROVE  IInv'
<1>1. /\ crashes < MaxCrashes /\ crashes' = crashes + 1
      /\ stmt' = 0 /\ cutoff' = 0 /\ doomed' = {} /\ TypeOK
      /\ UNCHANGED <<now, rows, txn, late, horizon, request>>
  BY DEF CrashDeleter, IInv
<1>2. TypeOK'
  <2>1. crashes' \in 0 .. MaxCrashes /\ cutoff' \in Rounds /\ stmt' \in 0 .. 5
    BY <1>1, HistoryAssumption DEF TypeOK, Rounds
  <2> QED BY <1>1, <2>1 DEF TypeOK, Transaction
<1>3. DoomedOld' /\ HorizonBehind'
  BY <1>1 DEF IInv, DoomedOld, HorizonBehind
<1> QED BY <1>1, <1>2, <1>3, SameStore DEF IInv

LEMMA CommitDeleteInv ==
    ASSUME IInv, CommitDelete
    PROVE  IInv'
<1>1. /\ stmt = 5 /\ rows' = rows \ doomed /\ horizon' = cutoff
      /\ stmt' = 0 /\ cutoff' = 0 /\ doomed' = {} /\ TypeOK
      /\ UNCHANGED <<now, txn, late, request, crashes>>
  BY DEF CommitDelete, DeleteOrder, IInv
<1>2. TypeOK'
  <2>1. cutoff' \in Rounds /\ stmt' \in 0 .. 5
    BY <1>1, HistoryAssumption DEF TypeOK, Rounds
  <2> QED BY <1>1, <2>1 DEF TypeOK, Transaction
<1>3. Open' = Open
  BY <1>1 DEF Open
<1>4. OpenWithin' /\ OneOpenPerRound' /\ OpenIsNew' /\ TreeUnfinished'
  BY <1>1, <1>3 DEF IInv, OpenWithin, OneOpenPerRound, OpenIsNew, TreeUnfinished
<1>5. DoomedOld' /\ HorizonBehind'
  BY <1>1 DEF IInv, DoomedOld, HorizonBehind
<1>6. InsertedTogether'
  <2> SUFFICES ASSUME NEW root \in rows', root.table = "root",
                      NEW t \in DataTables(root.protocol)
               PROVE  [protocol |-> root.protocol, table |-> t, round |-> root.round,
                       gen |-> root.gen] \in rows'
    BY DEF InsertedTogether
  <2>1. PICK data : data = [protocol |-> root.protocol, table |-> t, round |-> root.round,
                            gen |-> root.gen]
    OBVIOUS
  <2>2. data \in rows
    BY <1>1, <2>1 DEF IInv, InsertedTogether
  <2>3. /\ data.protocol = root.protocol /\ data.round = root.round /\ data.gen = root.gen
    BY <2>1
  <2>4. data \notin doomed
    BY <1>1, <2>3 DEF IInv, DoomedOld
  <2> QED BY <1>1, <2>1, <2>2, <2>4
<1>7. LiveDataOnce'
  <2> SUFFICES ASSUME NEW row \in rows', row.round >= cutoff
               PROVE  /\ \A other \in rows' :
                            /\ other.protocol = row.protocol
                            /\ other.table = row.table
                            /\ other.round = row.round
                            => other = row
                      /\ \E root \in rows' :
                            /\ root.protocol = row.protocol
                            /\ root.table = "root"
                            /\ root.round = row.round
    BY <1>1 DEF LiveDataOnce, Live, RowsOf, HasRoot
  <2>1. row.round \in Nat /\ horizon \in Nat /\ cutoff \in Nat /\ horizon <= cutoff
    BY <1>1, HistoryAssumption DEF TypeOK, Row, Rounds, IInv, HorizonBehind
  <2>2. row \in rows /\ Live(row.round)
    BY <1>1, <2>1 DEF Live
  <2>3. \A other \in rows :
            /\ other.protocol = row.protocol
            /\ other.table = row.table
            /\ other.round = row.round
            => other = row
    BY <2>2 DEF IInv, LiveDataOnce, RowsOf
  <2>4. PICK root \in rows :
            root.protocol = row.protocol /\ root.table = "root" /\ root.round = row.round
    BY <2>2 DEF IInv, LiveDataOnce, RowsOf, HasRoot
  <2>5. root \notin doomed
    BY <2>1, <2>4 DEF IInv, DoomedOld
  <2> QED BY <1>1, <2>3, <2>4, <2>5
<1> QED BY <1>2, <1>4, <1>5, <1>6, <1>7 DEF IInv

-----------------------------------------------------------------------------
(* The invariant holds                                                     *)

LEMMA NextInv ==
    ASSUME IInv, [Next]_vars
    PROVE  IInv'
<1>1. CASE NextRound
  BY <1>1, NextRoundInv
<1>2. ASSUME NEW p \in Protocols, Ingest(p) \/ Rollback(p) \/ LoseCommit(p)
      PROVE  IInv'
  BY <1>2, BeginInv, BulkCreateInv, CommitInv, CloseInv DEF Ingest
<1>3. CASE LateCommit
  BY <1>3, LateCommitInv
<1>4. CASE Deleter
  BY <1>4, WakeDeleterInv, DeleteInv, CommitDeleteInv DEF Deleter
<1>5. CASE CrashDeleter
  BY <1>5, CrashDeleterInv
<1>6. CASE View
  BY <1>6, ViewInv
<1>7. CASE UNCHANGED vars
  <2>1. UNCHANGED <<now, rows, txn, late, stmt, cutoff, doomed, horizon, request, crashes>>
    BY <1>7 DEF vars
  <2>2. TypeOK'
    BY <2>1 DEF IInv, TypeOK, Transaction
  <2>3. DoomedOld' /\ HorizonBehind'
    BY <2>1 DEF IInv, DoomedOld, HorizonBehind
  <2> QED BY <2>1, <2>2, <2>3, SameStore DEF IInv
<1> QED BY <1>1, <1>2, <1>3, <1>4, <1>5, <1>6, <1>7 DEF Next, StoreNext

LEMMA SpecInv == Spec => []IInv
<1>1. Init => IInv
  BY InitInv
<1>2. IInv /\ [Next]_vars => IInv'
  BY NextInv
<1> QED BY <1>1, <1>2, PTL DEF Spec

\* The variables of the tables, of the processes and of the view stay within
\* their types; in particular delete_history never drops future rounds.
THEOREM StoreTypeCorrect == Spec => []TypeOK
<1>1. IInv => TypeOK
  BY DEF IInv
<1> QED BY <1>1, SpecInv, PTL

LEMMA RootHasDataHolds ==
    ASSUME IInv
    PROVE  RootHasData
<1> SUFFICES ASSUME NEW row \in rows, row.table = "root",
                    NEW t \in DataTables(row.protocol)
             PROVE  RowsOf(row.protocol, t, row.round) # {}
  BY DEF RootHasData
<1>1. PICK data : data = [protocol |-> row.protocol, table |-> t, round |-> row.round,
                          gen |-> row.gen]
  OBVIOUS
<1>2. data \in rows
  BY <1>1 DEF IInv, InsertedTogether
<1>3. data.protocol = row.protocol /\ data.table = t /\ data.round = row.round
  BY <1>1
<1> QED BY <1>2, <1>3 DEF RowsOf

\* fsp/views.py:53: whatever statements of delete_history and COMMITs of the
\* ingest processes come between, a root that is there has its data.
THEOREM RootsHaveData == Spec => []RootHasData
  BY RootHasDataHolds, SpecInv, PTL

\* A round within the history is stored once and completely, or not at all,
\* although the data tables have no unique constraint and COMMITs may be late.
THEOREM LiveRoundsStoredOnce == Spec => []LiveDataOnce
<1>1. IInv => LiveDataOnce
  BY DEF IInv
<1> QED BY <1>1, SpecInv, PTL

-----------------------------------------------------------------------------
(* How the tables change                                                   *)

\* A step leaves the rows alone, stores a transaction or drops the history.
LEMMA RowsStep ==
    ASSUME IInv, [Next]_vars
    PROVE  \/ rows' = rows /\ horizon' = horizon
           \/ /\ horizon' = horizon /\ now' = now /\ request' = request
              /\ \E x \in Open :
                    /\ x.done = Len(Inserts[x.protocol])
                    /\ rows' = rows \cup Inserted(x)
           \/ /\ stmt = 5 /\ now' = now /\ request' = request
              /\ rows' = rows \ doomed /\ horizon' = cutoff
<1>1. CASE NextRound
  BY <1>1 DEF NextRound
<1>2. ASSUME NEW p \in Protocols, Begin(p) \/ BulkCreate(p) \/ Rollback(p) \/ LoseCommit(p)
      PROVE  rows' = rows /\ horizon' = horizon
  BY <1>2 DEF Begin, BulkCreate, Rollback, LoseCommit
<1>3. ASSUME NEW p \in Protocols, Commit(p)
      PROVE  /\ horizon' = horizon /\ now' = now /\ request' = request
             /\ \E x \in Open :
                   /\ x.done = Len(Inserts[x.protocol])
                   /\ rows' = rows \cup Inserted(x)
  <2>1. txn[p] \in Open /\ txn[p].protocol = p
    BY <1>3 DEF Commit, ReadyToCommit, Open, IInv, TypeOK
  <2> QED BY <1>3, <2>1 DEF Commit, ReadyToCommit
<1>4. CASE LateCommit
  <2>1. PICK x \in late : rows' \in {rows, rows \cup Inserted(x)}
    BY <1>4 DEF LateCommit
  <2>2. x.done = Len(Inserts[x.protocol]) /\ x \in Transaction
    BY DEF IInv, OpenWithin, TypeOK
  <2>3. x # Idle
    <3>1. Idle.done = 0 /\ x.done # 0
      BY <2>2 DEF Idle, Transaction
    <3> QED BY <3>1
  <2> QED BY <1>4, <2>1, <2>2, <2>3 DEF LateCommit, Open
<1>5. CASE WakeDeleter \/ Delete \/ CrashDeleter
  BY <1>5 DEF WakeDeleter, Delete, CrashDeleter
<1>6. CASE CommitDelete
  BY <1>6 DEF CommitDelete, DeleteOrder
<1>7. CASE View
  BY <1>7, ViewStep DEF IInv
<1>8. CASE UNCHANGED vars
  BY <1>8 DEF vars
<1> QED BY <1>1, <1>2, <1>3, <1>4, <1>5, <1>6, <1>7, <1>8
        DEF Next, StoreNext, Ingest, Deleter

\* The horizon only moves forward.
LEMMA HorizonForward ==
    ASSUME IInv, [Next]_vars
    PROVE  horizon \in Nat /\ horizon' \in Nat /\ horizon <= horizon'
<1>1. horizon \in Nat /\ cutoff \in Nat
  BY HistoryAssumption DEF IInv, TypeOK, Rounds
<1>2. stmt = 5 => horizon <= cutoff
  BY DEF IInv, HorizonBehind
<1>3. horizon' = horizon \/ (stmt = 5 /\ horizon' = cutoff)
  BY RowsStep
<1> QED BY <1>1, <1>2, <1>3

\* A round that has its root keeps its rows as long as it is live.
LEMMA RootedRowsStay ==
    ASSUME IInv, [Next]_vars, NEW p, NEW r \in Rounds, HasRoot(p, r), Live(r)'
    PROVE  /\ \A t : RowsOf(p, t, r)' = RowsOf(p, t, r)
           /\ HasRoot(p, r)'
<1>1. CASE rows' = rows
  BY <1>1 DEF RowsOf, HasRoot
<1>2. ASSUME NEW x \in Open, x.done = Len(Inserts[x.protocol]), rows' = rows \cup Inserted(x)
      PROVE  \A t : RowsOf(p, t, r)' = RowsOf(p, t, r)
  <2>1. \A row \in Inserted(x) : row.protocol = x.protocol /\ row.round = x.round
    BY <1>2, OpenType, InsertedFacts DEF IInv
  <2>2. ~(x.protocol = p /\ x.round = r)
    BY DEF IInv, OpenIsNew, HasRoot, RowsOf
  <2> QED BY <1>2, <2>1, <2>2 DEF RowsOf
<1>3. ASSUME rows' = rows \ doomed, horizon' = cutoff
      PROVE  \A t : RowsOf(p, t, r)' = RowsOf(p, t, r)
  <2>1. \A row \in doomed : row.round # r
    <3>1. r >= cutoff /\ r \in Nat /\ cutoff \in Nat
      BY <1>3, HistoryAssumption DEF Live, IInv, TypeOK, Rounds
    <3> QED BY <3>1 DEF IInv, DoomedOld
  <2> QED BY <1>3, <2>1 DEF RowsOf
<1>4. \A t : RowsOf(p, t, r)' = RowsOf(p, t, r)
  <2>1. CASE rows' = rows
    BY <2>1 DEF RowsOf
  <2> QED BY <2>1, <1>2, <1>3, RowsStep
<1>5. HasRoot(p, r)'
  BY <1>4 DEF HasRoot
<1> QED BY <1>4, <1>5

-----------------------------------------------------------------------------
(* The tables implement the promise                                        *)

LEMMA StoreInit == Init => Promise!Init
<1> SUFFICES ASSUME Init PROVE Promise!Init
  OBVIOUS
<1>1. 0 .. now - 1 \in SUBSET Rounds
  BY HistoryAssumption DEF Init, Rounds
<1>2. {r \in Rounds : HasRoot("ftso", r)} = {}
  BY DEF Init, HasRoot, RowsOf
<1> QED BY <1>1, <1>2 DEF Promise!Init, Init

LEMMA StoreStep ==
    ASSUME IInv, [Next]_vars
    PROVE  [Promise!Next]_(Promise!daVars)
<1> DEFINE available == {r \in Rounds : HasRoot("ftso", r)}
<1>0. now \in Nat
  BY HistoryAssumption DEF IInv, TypeOK, Rounds
<1>1. CASE rows' = rows /\ horizon' = horizon
  <2>1. available' = available
    BY <1>1 DEF HasRoot, RowsOf, Rounds
  <2>2. CASE now' = now
    BY <1>1, <2>1, <2>2 DEF Promise!daVars
  <2>3. CASE NextRound
    <3>1. now < MaxRound /\ now' = now + 1
      BY <2>3 DEF NextRound
    <3>2. 0 .. now' - 1 = (0 .. now - 1) \cup {now} /\ {now} \in SUBSET Rounds
      BY <3>1, <1>0, HistoryAssumption DEF Rounds
    <3>3. Promise!Relay({now})
      BY <1>1, <2>1, <3>2 DEF Promise!Relay
    <3> QED BY <3>2, <3>3 DEF Promise!Next
  <2>4. now' = now \/ NextRound
    BY ViewStep
    DEF IInv, Next, StoreNext, Ingest, Deleter, Begin, BulkCreate, Commit, Rollback, LoseCommit,
        LateCommit, WakeDeleter, Delete, CommitDelete, CrashDeleter, vars
  <2> QED BY <2>2, <2>3, <2>4
<1>2. ASSUME NEW x \in Open, x.done = Len(Inserts[x.protocol]), rows' = rows \cup Inserted(x),
             horizon' = horizon, now' = now
      PROVE  Promise!Next \/ UNCHANGED Promise!daVars
  <2>1. x \in Transaction /\ x.round \in Rounds
    BY OpenType DEF IInv, Transaction
  <2>2. \A row : row \in Inserted(x) <=>
            /\ row \in Row /\ row.protocol = x.protocol /\ row.round = x.round
            /\ row.gen = x.gen
            /\ row.table \in {"root"} \cup DataTables(x.protocol)
    BY <1>2, <2>1, InsertedFacts
  <2>3. \A r : HasRoot("ftso", r)' <=> HasRoot("ftso", r)
                \/ \E row \in Inserted(x) : row.protocol = "ftso" /\ row.table = "root" /\ row.round = r
    BY <1>2 DEF HasRoot, RowsOf
  <2>4. CASE x.protocol = "ftso"
    <3>1. PICK root : root = [protocol |-> "ftso", table |-> "root", round |-> x.round,
                              gen |-> x.gen]
      OBVIOUS
    <3>2. root \in Inserted(x) /\ root.protocol = "ftso" /\ root.table = "root" /\ root.round = x.round
      BY <2>1, <2>2, <2>4, <3>1 DEF Row, Transaction, Tables
    <3>3. \A r : HasRoot("ftso", r)' <=> HasRoot("ftso", r) \/ r = x.round
      BY <2>2, <2>3, <3>2
    <3>4. available' = available \cup {x.round}
      BY <2>1, <3>3 DEF Rounds
    <3>5. x.round \notin available
      BY <2>4 DEF IInv, OpenIsNew, HasRoot, RowsOf
    <3>6. x.round \in 0 .. now - 1
      BY <2>1, <1>0 DEF IInv, OpenWithin, Rounds
    <3>7. Promise!Publish(x.round)
      BY <1>2, <3>4, <3>5, <3>6 DEF Promise!Publish
    <3> QED BY <2>1, <3>7 DEF Promise!Next
  <2>5. CASE x.protocol # "ftso"
    <3>1. \A r : HasRoot("ftso", r)' <=> HasRoot("ftso", r)
      BY <2>2, <2>3, <2>5
    <3>2. available' = available
      BY <3>1 DEF Rounds
    <3> QED BY <1>2, <3>2 DEF Promise!daVars
  <2> QED BY <2>4, <2>5
<1>3. ASSUME stmt = 5, rows' = rows \ doomed, horizon' = cutoff, now' = now
      PROVE  Promise!Expire
  <2>1. horizon' \in Nat /\ horizon' >= horizon
    BY HorizonForward
  <2>2. available' \subseteq available
    BY <1>3 DEF HasRoot, RowsOf, Rounds
  <2>3. \A r \in available \ available' : r < horizon'
    <3> SUFFICES ASSUME NEW r \in Rounds, HasRoot("ftso", r), ~HasRoot("ftso", r)'
                 PROVE  r < horizon'
      BY DEF Rounds
    <3>1. PICK row \in rows : row.protocol = "ftso" /\ row.table = "root" /\ row.round = r
      BY DEF HasRoot, RowsOf
    <3>2. row \in doomed
      BY <1>3, <3>1 DEF HasRoot, RowsOf
    <3> QED BY <1>3, <3>1, <3>2 DEF IInv, DoomedOld
  <2>4. PICK S : S = available \ available'
    OBVIOUS
  <2>5. S \in SUBSET {r \in available : r < horizon'} /\ available' = available \ S
    BY <2>2, <2>3, <2>4
  <2> QED BY <1>3, <2>1, <2>5 DEF Promise!Expire
<1> QED BY <1>1, <1>2, <1>3, RowsStep DEF Promise!Next

\* What becomes visible and what goes is what DataAvailability promises: a
\* round appears whole, once and after it is finalised, and goes only when the
\* horizon has passed it.
THEOREM StoreImplementsPromise == Spec => ImplementsPromise
<1>1. IInv /\ [Next]_vars => [Promise!Next]_(Promise!daVars)
  BY StoreStep
<1> QED BY <1>1, StoreInit, SpecInv, PTL DEF Spec, ImplementsPromise, Promise!Spec

-----------------------------------------------------------------------------
(* What a request has read                                                 *)

AskedRows(t) == RowsOf("ftso", t, request.round)

\* While its round is live, what a request has read is what is in the tables,
\* and there is a root if there was one or anything has been read.
ReadsCurrent ==
    /\ request.had_root \/ request.tree # {} => HasRoot("ftso", request.round)
    /\ request.endpoint = "names" => request.step # "tree"
    /\ request.endpoint = "proofs" =>
        /\ request.step = "tree" /\ request.read = 0 => request.tree = {}
        /\ request.step = "tree" /\ request.read = 1 =>
              request.tree = AskedRows("random") /\ request.tree # {}
        /\ request.step = "data" \/ request.status = 200 =>
              request.tree = AskedRows("random") \cup AskedRows("feed") /\ request.tree # {}
        /\ request.status = 200 => request.data = AskedRows("feed")
    /\ request.step = "done" /\ request.had_root => request.status = 200 /\ request.data # {}

ViewOK ==
    /\ request.status = 200 => request.step = "done"
    /\ request.step # "none" /\ Live(request.round) => ReadsCurrent

LEMMA LiveRows ==
    ASSUME IInv, NEW r \in Rounds
    PROVE  /\ HasRoot("ftso", r) => RowsOf("ftso", "random", r) # {} /\ RowsOf("ftso", "feed", r) # {}
           /\ Live(r) => \A t : \A row \in RowsOf("ftso", t, r) :
                 RowsOf("ftso", t, r) = {row} /\ HasRoot("ftso", r)
<1>1. ASSUME HasRoot("ftso", r)
      PROVE  RowsOf("ftso", "random", r) # {} /\ RowsOf("ftso", "feed", r) # {}
  <2>1. PICK root \in rows : root.protocol = "ftso" /\ root.table = "root" /\ root.round = r
    BY <1>1 DEF HasRoot, RowsOf
  <2>2. "ftso" \in Protocols
    BY <2>1 DEF IInv, TypeOK, Row
  <2>3. DataTables("ftso") = {"random", "feed"}
    BY <2>2, InsertsFacts
  <2> QED BY <2>1, <2>3, RootHasDataHolds DEF RootHasData
<1>2. ASSUME Live(r), NEW t, NEW row \in RowsOf("ftso", t, r)
      PROVE  RowsOf("ftso", t, r) = {row} /\ HasRoot("ftso", r)
  <2>1. row \in rows /\ row.protocol = "ftso" /\ row.table = t /\ row.round = r
    BY <1>2 DEF RowsOf
  <2> QED BY <1>2, <2>1 DEF IInv, LiveDataOnce
<1> QED BY <1>1, <1>2

\* Other processes do not take back what a request relies on.
LEMMA ViewOKKept ==
    ASSUME IInv, ViewOK, [Next]_vars, request' = request
    PROVE  ViewOK'
<1>1. request \in Request /\ request.round \in Rounds
  BY DEF IInv, TypeOK, Request
<1>2. ASSUME request.step # "none", Live(request.round)'
      PROVE  ReadsCurrent'
  <2>1. Live(request.round)
    <3>1. request.round \in Nat /\ horizon \in Nat /\ horizon' \in Nat /\ horizon <= horizon'
      BY <1>1, HorizonForward, HistoryAssumption DEF Rounds
    <3> QED BY <1>2, <3>1 DEF Live
  <2>2. ReadsCurrent
    BY <1>2, <2>1 DEF ViewOK
  <2>3. CASE request.had_root \/ request.tree # {}
    <3>1. /\ \A t : RowsOf("ftso", t, request.round)' = RowsOf("ftso", t, request.round)
          /\ HasRoot("ftso", request.round)'
      <4>1. PICK r \in Rounds : r = request.round
        BY <1>1
      <4>2. HasRoot("ftso", r) /\ Live(r)'
        BY <1>2, <2>2, <2>3, <4>1 DEF ReadsCurrent, Live
      <4>3. (\A t : RowsOf("ftso", t, r)' = RowsOf("ftso", t, r)) /\ HasRoot("ftso", r)'
        BY <4>2, RootedRowsStay
      <4> QED BY <4>1, <4>3 DEF RowsOf, HasRoot
    <3>2. \A t : AskedRows(t)' = AskedRows(t)
      BY <3>1 DEF AskedRows
    <3> QED BY <2>2, <3>1, <3>2 DEF ReadsCurrent
  <2>4. CASE ~(request.had_root \/ request.tree # {})
    BY <2>2, <2>4 DEF ReadsCurrent
  <2> QED BY <2>3, <2>4
<1> QED BY <1>2 DEF ViewOK

LEMMA ViewOKView ==
    ASSUME IInv, ViewOK, View
    PROVE  ViewOK'
<1> DEFINE r == request.round
<1>1. /\ request \in Request /\ request' \in Request /\ r \in Rounds
      /\ UNCHANGED <<rows, horizon>>
      /\ TypeOK
  BY ViewStep DEF IInv, TypeOK, Request
<1>2. ASSUME NEW t, NEW s
      PROVE  RowsOf("ftso", t, s)' = RowsOf("ftso", t, s) /\ Live(s)' = Live(s)
  BY <1>1 DEF RowsOf, Live
<1>3. ASSUME request' = NoRequest
      PROVE  ViewOK'
  BY <1>3 DEF ViewOK, NoRequest
<1>4. ASSUME NEW endpoint \in Endpoints, NEW s \in Rounds, request' = Ask(endpoint, s)
      PROVE  ViewOK'
  <2>1. /\ request'.status = 0 /\ request'.round = s /\ request'.tree = {}
        /\ request'.read = 0 /\ request'.endpoint = endpoint
        /\ request'.had_root = HasRoot("ftso", s)
        /\ request'.step = IF endpoint = "names" THEN "data" ELSE "tree"
    BY <1>4 DEF Ask, NoRequest
  <2>2. HasRoot("ftso", s)' = HasRoot("ftso", s)
    BY <1>2 DEF HasRoot
  <2>3. endpoint = "names" \/ endpoint = "proofs"
    BY DEF Endpoints
  <2> QED BY <2>1, <2>2, <2>3 DEF ViewOK, ReadsCurrent
<1>5. CASE AskLatest
  <2>1. PICK endpoint \in Endpoints, row \in rows : request' = Ask(endpoint, row.round)
    BY <1>5 DEF AskLatest
  <2>2. row.round \in Rounds
    BY <1>1 DEF TypeOK, Row
  <2> QED BY <1>4, <2>1, <2>2
<1>6. CASE AskLatestOfNone
  <2>1. /\ request'.step = "done" /\ request'.status = 404 /\ request'.had_root = FALSE
        /\ request'.endpoint = "names" /\ request'.tree = {}
    BY <1>6 DEF AskLatestOfNone, NoRequest
  <2> QED BY <2>1 DEF ViewOK, ReadsCurrent
<1>7. CASE ReadRandom
  <2>1. PICK row \in RowsOf("ftso", "random", r) : AddToTree({row})
    BY <1>7 DEF ReadRandom
  <2>2. request.read = 0 /\ request.step = "tree"
    BY <1>1, <1>7 DEF ReadRandom, Reading, ReadOrder, IInv, TreeUnfinished, Request
  <2>3. /\ request'.step = "tree" /\ request'.read = 1 /\ request'.tree = request.tree \cup {row}
        /\ request'.endpoint = request.endpoint /\ request'.round = r
        /\ request'.had_root = request.had_root /\ request'.status = request.status
    BY <1>1, <2>1, <2>2 DEF AddToTree, ReadOrder, Request
  <2>4. ASSUME Live(r)
        PROVE  ReadsCurrent'
    <3>1. ReadsCurrent
      BY <2>2, <2>4 DEF ViewOK
    <3>2. RowsOf("ftso", "random", r) = {row} /\ HasRoot("ftso", r)
      BY <1>1, <2>1, <2>4, LiveRows
    <3>3. HasRoot("ftso", r)'
      BY <1>1, <2>3, <3>2 DEF HasRoot, RowsOf
    <3>4. request.endpoint = "proofs" /\ request.tree = {}
      BY <1>1, <2>2, <3>1 DEF ReadsCurrent, Request, Endpoints
    <3>5. AskedRows("random")' = {row}
      BY <1>2, <2>3, <3>2 DEF AskedRows
    <3>6. request'.tree = {row} /\ request.status # 200
      BY <2>2, <2>3, <3>4 DEF ViewOK
    <3> QED BY <2>3, <3>3, <3>4, <3>5, <3>6 DEF ReadsCurrent
  <2>5. request'.status # 200
    BY <2>2, <2>3 DEF ViewOK
  <2> QED BY <1>2, <2>3, <2>4, <2>5 DEF ViewOK
<1>8. CASE ReadNoRandom
  <2>1. /\ request.step = "tree"
        /\ RowsOf("ftso", "random", r) = {}
        /\ request'.step = "done" /\ request'.status = 400
        /\ request'.tree = request.tree
        /\ request'.endpoint = request.endpoint /\ request'.round = r
        /\ request'.had_root = request.had_root
    BY <1>1, <1>8 DEF ReadNoRandom, Reading, Request
  <2>2. ASSUME Live(r)
        PROVE  ReadsCurrent'
    <3>1. ReadsCurrent
      BY <2>1, <2>2 DEF ViewOK
    <3>2. ~HasRoot("ftso", r)
      BY <1>1, <2>1, LiveRows
    <3>3. request.had_root = FALSE /\ request.tree = {}
      BY <1>1, <3>1, <3>2 DEF ReadsCurrent, Request
    <3> QED BY <2>1, <3>3 DEF ReadsCurrent
  <2> QED BY <1>2, <2>1, <2>2 DEF ViewOK
<1>9. CASE ReadFeeds
  <2>1. AddToTree(RowsOf("ftso", "feed", r))
    BY <1>9 DEF ReadFeeds
  <2>2. request.read = 1 /\ request.step = "tree"
    BY <1>1, <1>9 DEF ReadFeeds, Reading, ReadOrder, IInv, TreeUnfinished, Request
  <2>3. /\ request'.step = "data"
        /\ request'.tree = request.tree \cup RowsOf("ftso", "feed", r)
        /\ request'.endpoint = request.endpoint /\ request'.round = r
        /\ request'.had_root = request.had_root /\ request'.status = request.status
    BY <1>1, <2>1, <2>2 DEF AddToTree, ReadOrder, Request
  <2>4. request'.status # 200
    BY <2>2, <2>3 DEF ViewOK
  <2>5. ASSUME Live(r)
        PROVE  ReadsCurrent'
    <3>1. ReadsCurrent
      BY <2>2, <2>5 DEF ViewOK
    <3>2. request.endpoint = "proofs"
      BY <1>1, <2>2, <3>1 DEF ReadsCurrent, Request, Endpoints
    <3>3. request.tree = RowsOf("ftso", "random", r) /\ request.tree # {}
      BY <2>2, <3>1, <3>2 DEF ReadsCurrent, AskedRows
    <3>4. HasRoot("ftso", r)'
      BY <1>1, <2>3, <3>1, <3>3 DEF ReadsCurrent, HasRoot, RowsOf
    <3>5. /\ AskedRows("random")' = RowsOf("ftso", "random", r)
          /\ AskedRows("feed")' = RowsOf("ftso", "feed", r)
      BY <1>2, <2>3 DEF AskedRows
    <3> QED BY <2>3, <2>4, <3>2, <3>3, <3>4, <3>5 DEF ReadsCurrent
  <2> QED BY <1>2, <2>3, <2>4, <2>5 DEF ViewOK
<1>10. CASE ReadData
  <2>1. /\ request.step = "data"
        /\ request'.step = "done" /\ request'.status = 200
        /\ request'.data = RowsOf("ftso", "feed", r)
        /\ request'.tree = request.tree
        /\ request'.endpoint = request.endpoint /\ request'.round = r
        /\ request'.had_root = request.had_root
    BY <1>1, <1>10 DEF ReadData, Request
  <2>2. ASSUME Live(r)
        PROVE  ReadsCurrent'
    <3>1. ReadsCurrent
      BY <2>1, <2>2 DEF ViewOK
    <3>2. /\ AskedRows("random")' = AskedRows("random")
          /\ AskedRows("feed")' = AskedRows("feed")
          /\ AskedRows("feed") = RowsOf("ftso", "feed", r)
      BY <1>2, <2>1 DEF AskedRows
    <3>3. HasRoot("ftso", r)' = HasRoot("ftso", r)
      BY <1>1, <2>1 DEF HasRoot, RowsOf
    <3>4. request.had_root => RowsOf("ftso", "feed", r) # {}
      BY <1>1, <3>1, LiveRows DEF ReadsCurrent
    <3> QED BY <2>1, <3>1, <3>2, <3>3, <3>4 DEF ReadsCurrent
  <2> QED BY <1>2, <2>1, <2>2 DEF ViewOK
<1>11. CASE AskRound
  BY <1>4, <1>11 DEF AskRound
<1>12. CASE Respond
  BY <1>3, <1>12 DEF Respond
<1> QED BY <1>5, <1>6, <1>7, <1>8, <1>9, <1>10, <1>11, <1>12 DEF View

LEMMA SpecViewOK == Spec => [](IInv /\ ViewOK)
<1>1. Init => ViewOK
  BY DEF Init, ViewOK, NoRequest
<1>2. IInv /\ ViewOK /\ [Next]_vars => ViewOK'
  <2> SUFFICES ASSUME IInv, ViewOK, [Next]_vars
               PROVE  ViewOK'
    OBVIOUS
  <2>1. CASE View
    BY <2>1, ViewOKView
  <2>2. CASE StoreNext \/ UNCHANGED vars
    <3>1. request' = request
      BY <2>2
      DEF StoreNext, Ingest, Deleter, NextRound, Begin, BulkCreate, Commit, Rollback, LoseCommit,
          LateCommit, WakeDeleter, Delete, CommitDelete, CrashDeleter, vars
    <3> QED BY <3>1, ViewOKKept
  <2> QED BY <2>1, <2>2 DEF Next
<1>3. IInv /\ [Next]_vars => IInv'
  BY NextInv
<1> QED BY <1>1, <1>2, <1>3, InitInv, PTL DEF Spec

\* Every list of proofs of a live round was computed from the one random number
\* and the one set of feeds of that round, whatever was stored and deleted
\* between the queries of the request.
THEOREM ServedProofsVerify == Spec => []ProofsVerify
<1>1. IInv /\ ViewOK => ProofsVerify
  <2> SUFFICES ASSUME IInv, ViewOK, request.status = 200, request.endpoint = "proofs",
                      Live(request.round)
               PROVE  /\ {row.table : row \in request.tree} = {"random", "feed"}
                      /\ Cardinality(request.tree) = 2
                      /\ request.data = {row \in request.tree : row.table = "feed"}
    BY DEF ProofsVerify
  <2>1. ReadsCurrent
    BY DEF ViewOK
  <2>2. /\ request.tree = AskedRows("random") \cup AskedRows("feed")
        /\ request.data = AskedRows("feed")
        /\ HasRoot("ftso", request.round)
    BY <2>1 DEF ReadsCurrent
  <2>3. PICK r \in Rounds : r = request.round
    BY DEF IInv, TypeOK, Request
  <2>4. PICK a, b : RowsOf("ftso", "random", r) = {a} /\ RowsOf("ftso", "feed", r) = {b}
    <3>1. HasRoot("ftso", r) /\ Live(r)
      BY <2>2, <2>3
    <3>2. PICK a \in RowsOf("ftso", "random", r) : TRUE
      BY <3>1, LiveRows
    <3>3. PICK b \in RowsOf("ftso", "feed", r) : TRUE
      BY <3>1, LiveRows
    <3>4. RowsOf("ftso", "random", r) = {a}
      BY <3>1, <3>2, LiveRows
    <3>5. RowsOf("ftso", "feed", r) = {b}
      BY <3>1, <3>3, LiveRows
    <3> QED BY <3>4, <3>5
  <2>5. a.table = "random" /\ b.table = "feed"
    BY <2>4 DEF RowsOf
  <2>6. request.tree = {a, b} /\ request.data = {b}
    BY <2>2, <2>3, <2>4 DEF AskedRows
  <2>7. Cardinality({a, b}) = 2
    <3>1. IsFiniteSet({a}) /\ Cardinality({a}) = 1
      BY FS_Singleton
    <3>2. b \notin {a}
      BY <2>5
    <3>3. Cardinality({a} \cup {b}) = Cardinality({a}) + 1
      BY <3>1, <3>2, FS_AddElement
    <3>4. {a, b} = {a} \cup {b}
      OBVIOUS
    <3> QED BY <3>1, <3>3, <3>4
  <2> QED BY <2>5, <2>6, <2>7
<1> QED BY <1>1, SpecViewOK, PTL

\* A client that was told of a round (/status reads its root) is answered by
\* feeds until delete_history has passed the round.
THEOREM PublishedIsServed == Spec => []ServedIfPublished
<1>1. IInv /\ ViewOK => ServedIfPublished
  BY DEF ViewOK, ReadsCurrent, ServedIfPublished
<1> QED BY <1>1, SpecViewOK, PTL

=============================================================================
