----------------------- MODULE AttestationViewsProofs -----------------------
(***************************************************************************)
(* What AttestationViews guarantees for every set of requests, number of   *)
(* rounds and history, and before that what the loop of dict_transform     *)
(* computes for every document, checked by TLAPS.  Induction on the turns  *)
(* of the loop and on the depth of a path is by the least counterexample.  *)
(***************************************************************************)
EXTENDS AttestationViews, FunctionTheorems, SequenceTheorems, FiniteSetTheorems, TLAPS

-----------------------------------------------------------------------------
(* Induction                                                               *)

\* Every set of naturals that is not empty has a least element.
LEMMA LeastNatural ==
    ASSUME NEW T, T \subseteq Nat, T # {}
    PROVE  \E n \in T : \A m \in T : n <= m
<1>1. PICK n \in T : \A m \in T : <<m, n>> \notin OpToRel(<, Nat)
  BY WFMin, NatLessThanWellFounded
<1>2. ASSUME NEW m \in T
      PROVE  n <= m
  <2>1. ~(m < n)
    BY <1>1 DEF OpToRel
  <2> QED BY <2>1
<1> QED BY <1>2

\* A set that holds 0, and with a number the next, holds all up to the bound.
LEMMA UpTo ==
    ASSUME NEW N \in Nat, NEW S, 0 \in S,
           \A n \in 0 .. N : n + 1 \in 0 .. N /\ n \in S => n + 1 \in S
    PROVE  \A n \in 0 .. N : n \in S
<1> DEFINE T == {n \in 0 .. N : n \notin S}
<1> SUFFICES ASSUME T # {}
             PROVE  FALSE
  OBVIOUS
<1>0. T \subseteq Nat
  OBVIOUS
<1>1. PICK n \in T : \A m \in T : n <= m
  <2> HIDE DEF T
  <2> QED BY <1>0, LeastNatural
<1>2. n # 0 /\ n - 1 \in 0 .. N /\ n - 1 \notin T
  BY <1>1
<1>3. n - 1 + 1 = n
  BY <1>1
<1> QED BY <1>2, <1>3

-----------------------------------------------------------------------------
(* Sequences                                                               *)

\* Last and Front take a sequence apart.
LEMMA FrontLast ==
    ASSUME NEW S, NEW s \in Seq(S), s # <<>>
    PROVE  /\ Last(s) \in S /\ Last(s) = s[Len(s)]
           /\ Len(s) \in Nat \ {0}
           /\ Front(s) \in Seq(S) /\ Len(Front(s)) = Len(s) - 1
           /\ \A i \in 1 .. Len(s) - 1 : Front(s)[i] = s[i]
<1>1. Len(s) \in Nat \ {0}
  BY EmptySeq
<1>2. \A i \in 1 .. Len(s) : s[i] \in S
  BY ElementOfSeq
<1>3. Last(s) = s[Len(s)] /\ Last(s) \in S
  BY <1>1, <1>2 DEF Last
<1>4. Front(s) = SubSeq(s, 1, Len(s) - 1)
  BY DEF Front
<1>5. \A i \in 1 .. Len(s) - 1 : s[i] \in S
  BY <1>1, <1>2
<1>6. /\ SubSeq(s, 1, Len(s) - 1) \in Seq(S)
      /\ Len(SubSeq(s, 1, Len(s) - 1)) = IF 1 <= Len(s) - 1 THEN Len(s) - 1 - 1 + 1 ELSE 0
      /\ \A i \in 1 .. Len(s) - 1 - 1 + 1 : SubSeq(s, 1, Len(s) - 1)[i] = s[1 + i - 1]
  BY <1>1, <1>5, SubSeqProperties
<1>7. Len(s) - 1 - 1 + 1 = Len(s) - 1 /\ \A i \in 1 .. Len(s) - 1 : 1 + i - 1 = i
  BY <1>1
<1>8. Len(Front(s)) = Len(s) - 1
  <2>1. \A n \in Nat \ {0} : (IF 1 <= n - 1 THEN n - 1 - 1 + 1 ELSE 0) = n - 1
    OBVIOUS
  <2>2. (IF 1 <= Len(s) - 1 THEN Len(s) - 1 - 1 + 1 ELSE 0) = Len(s) - 1
    BY <1>1, <2>1
  <2> QED BY <1>4, <1>6, <2>2
<1>9. \A i \in 1 .. Len(s) - 1 : Front(s)[i] = s[i]
  BY <1>4, <1>6, <1>7
<1> QED BY <1>1, <1>3, <1>4, <1>6, <1>8, <1>9

\* The elements of a concatenation.
LEMMA Joined ==
    ASSUME NEW S, NEW s \in Seq(S), NEW t \in Seq(S)
    PROVE  /\ s \o t \in Seq(S) /\ Len(s \o t) = Len(s) + Len(t)
           /\ Len(s) \in Nat /\ Len(t) \in Nat
           /\ \A i \in 1 .. Len(s) : (s \o t)[i] = s[i]
           /\ \A i \in 1 .. Len(t) : (s \o t)[Len(s) + i] = t[i]
<1>1. Len(s) \in Nat /\ Len(t) \in Nat
  BY LenProperties
<1>2. /\ s \o t \in Seq(S) /\ Len(s \o t) = Len(s) + Len(t)
      /\ \A i \in 1 .. Len(s) + Len(t) :
            (s \o t)[i] = IF i <= Len(s) THEN s[i] ELSE t[i - Len(s)]
  BY ConcatProperties
<1>3. ASSUME NEW i \in 1 .. Len(s)
      PROVE  (s \o t)[i] = s[i]
  <2>1. i \in 1 .. Len(s) + Len(t) /\ i <= Len(s)
    BY <1>1
  <2> QED BY <1>2, <2>1
<1>4. ASSUME NEW i \in 1 .. Len(t)
      PROVE  (s \o t)[Len(s) + i] = t[i]
  <2>1. Len(s) + i \in 1 .. Len(s) + Len(t) /\ ~(Len(s) + i <= Len(s)) /\ Len(s) + i - Len(s) = i
    BY <1>1
  <2> QED BY <1>2, <2>1
<1> QED BY <1>1, <1>2, <1>3, <1>4

\* A finite set can be put in a sequence without repetition.
LEMMA SetToSeqFacts ==
    ASSUME NEW S, IsFiniteSet(S)
    PROVE  /\ SetToSeq(S) \in Seq(S)
           /\ \A x \in S : \E i \in 1 .. Len(SetToSeq(S)) : SetToSeq(S)[i] = x
           /\ \A i, j \in 1 .. Len(SetToSeq(S)) :
                 SetToSeq(S)[i] = SetToSeq(S)[j] => i = j
<1> DEFINE n == Cardinality(S)
<1>1. n \in Nat /\ ExistsBijection(1 .. n, S)
  BY FS_CardinalityType
<1>2. \E f \in [1 .. n -> S] : IsInjective(f)
  <2>1. PICK f : f \in Bijection(1 .. n, S)
    BY <1>1 DEF ExistsBijection
  <2>2. f \in Injection(1 .. n, S)
    BY <2>1 DEF Bijection
  <2> QED BY <2>2 DEF Injection
<1>3. SetToSeq(S) \in [1 .. n -> S] /\ IsInjective(SetToSeq(S))
  BY <1>2 DEF SetToSeq
<1>4. SetToSeq(S) \in Seq(S) /\ Len(SetToSeq(S)) = n
  BY <1>1, <1>3
<1>5. SetToSeq(S) \in Surjection(1 .. n, S)
  <2>1. SetToSeq(S) \in Injection(1 .. n, S)
    BY <1>3 DEF Injection
  <2>2. Cardinality(1 .. n) = n
    BY <1>1, FS_Interval
  <2> QED BY <2>1, <2>2, FS_Injection
<1>6. \A x \in S : \E i \in 1 .. n : SetToSeq(S)[i] = x
  BY <1>5 DEF Surjection
<1>7. \A i, j \in 1 .. n : SetToSeq(S)[i] = SetToSeq(S)[j] => i = j
  BY <1>3 DEF IsInjective
<1> QED BY <1>4, <1>6, <1>7

-----------------------------------------------------------------------------
(* The loop                                                                *)

AsText(item) == IF item.type = "int" THEN Leaf("str", item.value) ELSE item

Containers(data) == {path \in DOMAIN data : data[path].type \in {"dict", "list"}}

\* What is true between two turns, for the containers already visited: they
\* and those on the stack are the containers a visited one holds, and the
\* whole; and what a visited container holds has been replaced.
VisitedSoFar(data, state, visited) ==
    /\ visited \subseteq Containers(data)
    /\ state.ref_stack \in Seq(Containers(data))
    /\ \A i, j \in 1 .. Len(state.ref_stack) :
          state.ref_stack[i] = state.ref_stack[j] => i = j
    /\ \A i \in 1 .. Len(state.ref_stack) : state.ref_stack[i] \notin visited
    /\ \A path \in Containers(data) :
          (path = <<>> \/ Front(path) \in visited)
              <=> \/ path \in visited
                  \/ \E i \in 1 .. Len(state.ref_stack) : state.ref_stack[i] = path
    /\ state = [ref_stack |-> state.ref_stack,
                new_data |-> [path \in DOMAIN data |->
                    IF path # <<>> /\ Front(path) \in visited
                    THEN AsText(data[path]) ELSE data[path]]]

LEMMA NothingVisited ==
    ASSUME NEW data, IsDocument(data)
    PROVE  VisitedSoFar(data, [ref_stack |-> << <<>> >>, new_data |-> data], {})
<1> DEFINE state == [ref_stack |-> << <<>> >>, new_data |-> data]
<1>1. <<>> \in Containers(data)
  BY DEF IsDocument, Containers
<1>2. /\ state.ref_stack \in Seq(Containers(data)) /\ Len(state.ref_stack) = 1
      /\ state.ref_stack[1] = <<>>
  BY <1>1
<1>3. data = [path \in DOMAIN data |-> data[path]]
  BY DEF IsDocument
<1> QED BY <1>1, <1>2, <1>3 DEF VisitedSoFar

\* The children of the container on top take its place on the stack.
LEMMA VisitOne ==
    ASSUME NEW data, IsDocument(data), NEW state, NEW visited,
           VisitedSoFar(data, state, visited), state.ref_stack # <<>>
    PROVE  /\ Last(state.ref_stack) \in Containers(data) \ visited
           /\ VisitedSoFar(data, Visit(state), visited \cup {Last(state.ref_stack)})
<1> DEFINE stack == state.ref_stack
           d == Last(stack)
           done == visited \cup {d}
           held == {path \in Containers(data) : path # <<>> /\ Front(path) = d}
           next == Front(stack) \o SetToSeq(held)
<1>1. /\ d \in Containers(data) /\ d = stack[Len(stack)] /\ Len(stack) \in Nat \ {0}
      /\ Front(stack) \in Seq(Containers(data)) /\ Len(Front(stack)) = Len(stack) - 1
      /\ \A i \in 1 .. Len(stack) - 1 : Front(stack)[i] = stack[i]
  BY FrontLast DEF VisitedSoFar
<1>2. d \notin visited
  BY <1>1 DEF VisitedSoFar
<1>3. Visit(state) = [ref_stack |-> next,
                      new_data |-> [path \in DOMAIN data |->
                          IF path # <<>> /\ Front(path) \in done
                          THEN AsText(data[path]) ELSE data[path]]]
  <2>1. /\ DOMAIN state.new_data = DOMAIN data
        /\ \A path \in DOMAIN data :
              state.new_data[path] = IF path # <<>> /\ Front(path) \in visited
                                     THEN AsText(data[path]) ELSE data[path]
    BY DEF VisitedSoFar
  <2> DEFINE items == ItemsOf(state.new_data, d)
  <2>2. items = {path \in DOMAIN data : path # <<>> /\ Front(path) = d}
    BY <2>1 DEF ItemsOf
  <2>3. \A path \in items : state.new_data[path] = data[path]
    BY <1>2, <2>1, <2>2
  <2>4. {path \in items : IsContainer(state.new_data[path])} = held
    BY <2>2, <2>3 DEF IsContainer, Containers
  <2>5. ASSUME NEW path \in DOMAIN data
        PROVE  (IF path \in items /\ state.new_data[path].type \in Transformators
                THEN Transform(state.new_data[path]) ELSE state.new_data[path])
               = (IF path # <<>> /\ Front(path) \in done
                  THEN AsText(data[path]) ELSE data[path])
    <3>1. CASE path \in items
      BY <2>2, <2>3, <3>1 DEF Transformators, Transform, AsText
    <3>2. CASE path \notin items
      BY <2>1, <2>2, <3>2
    <3> QED BY <3>1, <3>2
  <2>6. Visit(state) = [ref_stack |-> Front(stack) \o SetToSeq({path \in items : IsContainer(state.new_data[path])}),
                        new_data |-> [path \in DOMAIN state.new_data |->
                            IF path \in items /\ state.new_data[path].type \in Transformators
                            THEN Transform(state.new_data[path]) ELSE state.new_data[path]]]
    BY DEF Visit
  <2> HIDE DEF items
  <2> QED BY <2>1, <2>4, <2>5, <2>6
<1>4. /\ SetToSeq(held) \in Seq(held)
      /\ \A x \in held : \E i \in 1 .. Len(SetToSeq(held)) : SetToSeq(held)[i] = x
      /\ \A i, j \in 1 .. Len(SetToSeq(held)) : SetToSeq(held)[i] = SetToSeq(held)[j] => i = j
  <2>1. IsFiniteSet(held)
    <3>1. held \in SUBSET DOMAIN data
      BY DEF Containers
    <3> QED BY <3>1, FS_Subset DEF IsDocument
  <2> HIDE DEF held
  <2> QED BY <2>1, SetToSeqFacts
<1> DEFINE kids == SetToSeq(held)
           n == Len(stack) - 1
           k == Len(kids)
<1>5. /\ kids \in Seq(Containers(data)) /\ k \in Nat /\ n \in Nat
      /\ \A i \in 1 .. k : kids[i] \in held
  <2>1. held \subseteq Containers(data)
    OBVIOUS
  <2> HIDE DEF held
  <2>2. kids \in Seq(Containers(data)) /\ k \in Nat
    BY <1>4, <2>1, SeqMonotonic, LenProperties
  <2>3. \A i \in 1 .. k : kids[i] \in held
    BY <1>4, ElementOfSeq
  <2> QED BY <1>1, <2>2, <2>3
<1>6. /\ next \in Seq(Containers(data)) /\ Len(next) = n + k
      /\ \A i \in 1 .. n : next[i] = stack[i]
      /\ \A i \in 1 .. k : next[n + i] = kids[i]
  <2> HIDE DEF held
  <2>1. /\ next \in Seq(Containers(data)) /\ Len(next) = Len(Front(stack)) + Len(kids)
        /\ \A i \in 1 .. Len(Front(stack)) : next[i] = Front(stack)[i]
        /\ \A i \in 1 .. Len(kids) : next[Len(Front(stack)) + i] = kids[i]
    <3> DEFINE S == Containers(data)
               bottom == Front(stack)
               whole == bottom \o kids
    <3>1. bottom \in Seq(S) /\ kids \in Seq(S)
      BY <1>1, <1>5
    <3> HIDE DEF S, bottom, kids
    <3>2. /\ whole \in Seq(S) /\ Len(whole) = Len(bottom) + Len(kids)
          /\ \A i \in 1 .. Len(bottom) : whole[i] = bottom[i]
          /\ \A i \in 1 .. Len(kids) : whole[Len(bottom) + i] = kids[i]
      BY <3>1, Joined
    <3>3. next = whole
      BY DEF kids, bottom
    <3> HIDE DEF next, whole
    <3> QED BY <3>2, <3>3 DEF S, bottom
  <2> HIDE DEF next, kids
  <2> QED BY <1>1, <2>1
<1>7. \A x \in held : x \notin done /\ \A i \in 1 .. n + 1 : stack[i] # x
  <2>1. \A x \in held : Front(x) \notin visited /\ x # <<>> /\ x \in Containers(data)
    BY <1>2
  <2>2. \A x \in held : x \notin visited /\ \A i \in 1 .. Len(stack) : stack[i] # x
    BY <2>1 DEF VisitedSoFar
  <2>3. n + 1 = Len(stack) /\ Len(stack) \in 1 .. Len(stack)
    BY <1>1
  <2> QED BY <1>1, <2>2, <2>3
<1>8. ASSUME NEW i \in 1 .. n + k
      PROVE  \/ i \in 1 .. n
             \/ i - n \in 1 .. k /\ i = n + (i - n)
  <2>1. n \in Nat /\ k \in Nat
    BY <1>5
  <2> HIDE DEF n, k
  <2> QED BY <2>1
<1>9. \A i, j \in 1 .. n + k : next[i] = next[j] => i = j
  <2> SUFFICES ASSUME NEW i \in 1 .. n + k, NEW j \in 1 .. n + k, next[i] = next[j]
               PROVE  i = j
    OBVIOUS
  <2> HIDE DEF next, kids, held, k, n, stack
  <2>0. /\ \A x, y \in 1 .. n : stack[x] = stack[y] => x = y
        /\ \A x \in 1 .. n, y \in 1 .. k : stack[x] # kids[y]
        /\ \A x, y \in 1 .. k : kids[x] = kids[y] => x = y
    <3>1. \A x \in 1 .. n : x \in 1 .. Len(stack) /\ x \in 1 .. n + 1
      BY <1>1, <1>5 DEF n
    <3> QED BY <1>4, <1>5, <1>7, <3>1 DEF VisitedSoFar, stack, k, kids
  <2>1. CASE i \in 1 .. n /\ j \in 1 .. n
    BY <1>6, <2>0, <2>1
  <2>2. CASE i \in 1 .. n /\ j - n \in 1 .. k /\ j = n + (j - n)
    BY <1>6, <2>0, <2>2
  <2>3. CASE j \in 1 .. n /\ i - n \in 1 .. k /\ i = n + (i - n)
    BY <1>6, <2>0, <2>3
  <2>4. CASE i - n \in 1 .. k /\ j - n \in 1 .. k /\ i = n + (i - n) /\ j = n + (j - n)
    <3>1. kids[i - n] = kids[j - n]
      BY <1>6, <2>4
    <3>2. i - n = j - n
      BY <2>0, <2>4, <3>1
    <3> QED BY <2>4, <3>2
  <2> QED BY <1>8, <2>1, <2>2, <2>3, <2>4
<1>10. \A i \in 1 .. n + k : next[i] \notin done
  <2> SUFFICES ASSUME NEW i \in 1 .. n + k
               PROVE  next[i] \notin done
    OBVIOUS
  <2>1. CASE i \in 1 .. n
    <3>1. i \in 1 .. Len(stack) /\ Len(stack) \in 1 .. Len(stack) /\ i # Len(stack)
      BY <1>1, <2>1
    <3>2. stack[i] \notin visited /\ stack[i] # d
      BY <1>1, <3>1 DEF VisitedSoFar
    <3> QED BY <1>6, <2>1, <3>2
  <2>2. CASE i - n \in 1 .. k /\ i = n + (i - n)
    <3>1. next[i] = kids[i - n] /\ kids[i - n] \in held
      BY <1>5, <1>6, <2>2
    <3> QED BY <1>7, <3>1
  <2> QED BY <1>8, <2>1, <2>2
<1>11. ASSUME NEW path \in Containers(data)
       PROVE  (path = <<>> \/ Front(path) \in done)
                  <=> path \in done \/ \E i \in 1 .. n + k : next[i] = path
  <2>1. (path = <<>> \/ Front(path) \in visited)
            <=> path \in visited \/ \E i \in 1 .. Len(stack) : stack[i] = path
    BY DEF VisitedSoFar
  <2>2. (\E i \in 1 .. Len(stack) : stack[i] = path)
            <=> path = d \/ \E i \in 1 .. n : stack[i] = path
    <3>1. \A i \in 1 .. Len(stack) : i = Len(stack) \/ i \in 1 .. n
      BY <1>1
    <3>2. Len(stack) \in 1 .. Len(stack) /\ \A i \in 1 .. n : i \in 1 .. Len(stack)
      BY <1>1
    <3> HIDE DEF n
    <3> QED BY <1>1, <3>1, <3>2
  <2>3. (\E i \in 1 .. n + k : next[i] = path)
            <=> path \in held \/ \E i \in 1 .. n : stack[i] = path
    <3>1. \A i \in 1 .. n : i \in 1 .. n + k
      BY <1>5
    <3>2. \A i \in 1 .. k : n + i \in 1 .. n + k
      BY <1>5
    <3>3. ASSUME NEW i \in 1 .. n + k, next[i] = path
          PROVE  path \in held \/ \E j \in 1 .. n : stack[j] = path
      <4>1. CASE i \in 1 .. n
        BY <1>6, <3>3, <4>1
      <4>2. CASE i - n \in 1 .. k /\ i = n + (i - n)
        <5>1. next[i] = kids[i - n] /\ kids[i - n] \in held
          BY <1>5, <1>6, <4>2
        <5> QED BY <3>3, <5>1
      <4> QED BY <1>8, <4>1, <4>2
    <3>4. ASSUME path \in held
          PROVE  \E i \in 1 .. n + k : next[i] = path
      <4>1. PICK i \in 1 .. k : kids[i] = path
        BY <1>4, <3>4
      <4> HIDE DEF n, k, next, kids
      <4> QED BY <1>6, <3>2, <4>1
    <3> HIDE DEF n, k, next, kids, held
    <3> QED BY <1>6, <3>1, <3>3, <3>4
  <2>4. path \in held <=> path # <<>> /\ Front(path) = d
    OBVIOUS
  <2> HIDE DEF n, k, next, kids, held, stack, d
  <2> QED BY <2>1, <2>2, <2>3, <2>4
<1>12. VisitedSoFar(data, Visit(state), done)
  <2> DEFINE after == Visit(state)
  <2>1. after.ref_stack = next /\ done \subseteq Containers(data)
    BY <1>1, <1>3 DEF VisitedSoFar
  <2> HIDE DEF n, k, next, kids, held, d, done, stack, after
  <2>2. after = [ref_stack |-> after.ref_stack,
                 new_data |-> [path \in DOMAIN data |->
                     IF path # <<>> /\ Front(path) \in done
                     THEN AsText(data[path]) ELSE data[path]]]
    BY <1>3, <2>1 DEF after
  <2>3. VisitedSoFar(data, after, done)
    BY <1>6, <1>9, <1>10, <1>11, <2>1, <2>2 DEF VisitedSoFar
  <2> QED BY <2>3 DEF after
<1> QED BY <1>1, <1>2, <1>12

-----------------------------------------------------------------------------
(* All turns                                                               *)

Turns(data) == Cardinality(DOMAIN data)

Start(data) == [ref_stack |-> << <<>> >>, new_data |-> data]

\* run gives the state of the loop after each of n turns.
IsRun(data, n, run) ==
    run = [i \in 0 .. n |-> IF i = 0 THEN Start(data) ELSE Turn(run[i - 1])]

\* The recursive function of DictTransform exists.
LEMMA RunExists ==
    ASSUME NEW data, NEW N \in Nat
    PROVE  \E run : IsRun(data, N, run)
<1> DEFINE S == {n \in 0 .. N : \E run : IsRun(data, n, run)}
<1>1. 0 \in S
  <2> DEFINE run == [i \in 0 .. 0 |-> Start(data)]
  <2>1. IsRun(data, 0, run)
    BY DEF IsRun
  <2> HIDE DEF run
  <2> QED BY <2>1
<1>2. ASSUME NEW n \in 0 .. N, n + 1 \in 0 .. N, n \in S
      PROVE  n + 1 \in S
  <2>1. PICK run : IsRun(data, n, run)
    BY <1>2
  <2> DEFINE longer == [i \in 0 .. n + 1 |-> IF i = n + 1 THEN Turn(run[n]) ELSE run[i]]
  <2>2. ASSUME NEW i \in 0 .. n + 1
        PROVE  longer[i] = IF i = 0 THEN Start(data) ELSE Turn(longer[i - 1])
    <3>1. \A j \in 0 .. n : run[j] = IF j = 0 THEN Start(data) ELSE Turn(run[j - 1])
      BY <2>1 DEF IsRun
    <3>2. CASE i = n + 1
      <4>1. i - 1 = n /\ n \in 0 .. n + 1 /\ n # n + 1 /\ i # 0
        BY <3>2
      <4> QED BY <3>2, <4>1
    <3>3. CASE i = 0
      <4>1. 0 \in 0 .. n /\ 0 # n + 1
        OBVIOUS
      <4> QED BY <3>1, <3>3, <4>1
    <3>4. CASE i # 0 /\ i # n + 1
      <4>1. i \in 0 .. n /\ i - 1 \in 0 .. n + 1 /\ i - 1 # n + 1
        BY <3>4
      <4> QED BY <3>1, <3>4, <4>1
    <3> QED BY <3>2, <3>3, <3>4
  <2>3. longer = [i \in 0 .. n + 1 |-> longer[i]]
    OBVIOUS
  <2>4. IsRun(data, n + 1, longer)
    <3> HIDE DEF longer
    <3> QED BY <2>2, <2>3 DEF IsRun
  <2> QED BY <1>2, <2>4
<1>3. \A n \in 0 .. N : n \in S
  <2> HIDE DEF S
  <2> QED BY <1>1, <1>2, UpTo
<1> QED BY <1>3

\* After as many turns as there are paths nothing is left on the stack.
LEMMA StackEmptied ==
    ASSUME NEW data, IsDocument(data), NEW run, IsRun(data, Turns(data), run)
    PROVE  \E visited : /\ VisitedSoFar(data, run[Turns(data)], visited)
                       /\ run[Turns(data)].ref_stack = <<>>
<1> DEFINE N == Turns(data)
           S == {n \in 0 .. N : \E visited :
                    /\ VisitedSoFar(data, run[n], visited)
                    /\ run[n].ref_stack # <<>> => Cardinality(visited) = n}
<1>1. N \in Nat
  BY FS_CardinalityType DEF IsDocument, Turns
<1>2. \A n \in 0 .. N : run[n] = IF n = 0 THEN Start(data) ELSE Turn(run[n - 1])
  BY DEF IsRun
<1>3. 0 \in S
  <2>1. 0 \in 0 .. N
    BY <1>1
  <2>2. VisitedSoFar(data, run[0], {})
    BY <1>2, <2>1, NothingVisited DEF Start
  <2> QED BY <2>1, <2>2, FS_EmptySet
<1>4. ASSUME NEW n \in 0 .. N, n + 1 \in 0 .. N, n \in S
      PROVE  n + 1 \in S
  <2>1. PICK visited : /\ VisitedSoFar(data, run[n], visited)
                       /\ run[n].ref_stack # <<>> => Cardinality(visited) = n
    BY <1>4
  <2>2. run[n + 1] = Turn(run[n])
    <3>1. n + 1 # 0 /\ n + 1 - 1 = n
      BY <1>1
    <3> QED BY <1>2, <1>4, <3>1
  <2>3. CASE run[n].ref_stack = <<>>
    <3>1. run[n + 1] = run[n]
      BY <2>2, <2>3 DEF Turn
    <3> QED BY <1>4, <2>1, <2>3, <3>1
  <2>4. CASE run[n].ref_stack # <<>>
    <3> DEFINE d == Last(run[n].ref_stack)
    <3>1. d \notin visited /\ VisitedSoFar(data, run[n + 1], visited \cup {d})
      <4>1. run[n + 1] = Visit(run[n])
        BY <2>2, <2>4 DEF Turn
      <4>2. /\ Last(run[n].ref_stack) \in Containers(data) \ visited
            /\ VisitedSoFar(data, Visit(run[n]), visited \cup {Last(run[n].ref_stack)})
        BY <2>1, <2>4, VisitOne
      <4> QED BY <4>1, <4>2
    <3>2. IsFiniteSet(visited)
      <4>1. visited \in SUBSET DOMAIN data
        BY <2>1 DEF VisitedSoFar, Containers
      <4> QED BY <4>1, FS_Subset DEF IsDocument
    <3>3. Cardinality(visited \cup {d}) = n + 1
      <4> HIDE DEF d
      <4> QED BY <2>1, <2>4, <3>1, <3>2, FS_AddElement
    <3> QED BY <1>4, <3>1, <3>3
  <2> QED BY <2>3, <2>4
<1>5. N \in S
  <2>1. \A n \in 0 .. N : n \in S
    <3> HIDE DEF N, S
    <3> QED BY <1>1, <1>3, <1>4, UpTo
  <2> QED BY <1>1, <2>1
<1>6. PICK visited : /\ VisitedSoFar(data, run[N], visited)
                     /\ run[N].ref_stack # <<>> => Cardinality(visited) = N
  BY <1>5
<1>7. ASSUME run[N].ref_stack # <<>>
      PROVE  FALSE
  <2>1. Cardinality(visited) = Cardinality(DOMAIN data)
    BY <1>6, <1>7 DEF Turns
  <2>2. visited \in SUBSET DOMAIN data
    BY <1>6 DEF VisitedSoFar, Containers
  <2>3. visited = DOMAIN data
    BY <2>1, <2>2, FS_Subset DEF IsDocument
  <2>4. Last(run[N].ref_stack) \in Containers(data) \ visited
    BY <1>6, <1>7, VisitOne
  <2> QED BY <2>3, <2>4 DEF Containers
<1> QED BY <1>6, <1>7

\* With an empty stack every container has been visited, by the depth of its
\* path.
LEMMA AllVisited ==
    ASSUME NEW data, IsDocument(data), NEW state, NEW visited,
           VisitedSoFar(data, state, visited), state.ref_stack = <<>>
    PROVE  visited = Containers(data)
<1>0. \A path \in Containers(data) : (path = <<>> \/ Front(path) \in visited) => path \in visited
  <2>1. Len(state.ref_stack) = 0
    BY EmptySeq
  <2>2. \A i \in 1 .. Len(state.ref_stack) : FALSE
    BY <2>1
  <2> QED BY <2>2 DEF VisitedSoFar
<1> DEFINE left == Containers(data) \ visited
           depths == {Len(path) : path \in left}
<1>1. \A path \in Containers(data) : path \in Seq(STRING) /\ Len(path) \in Nat
  BY LenProperties DEF Containers, IsDocument
<1>2. ASSUME left # {}
      PROVE  FALSE
  <2>1. depths \subseteq Nat /\ depths # {}
    BY <1>1, <1>2
  <2>2. PICK least \in depths : \A depth \in depths : least <= depth
    <3> HIDE DEF depths
    <3> QED BY <2>1, LeastNatural
  <2>3. PICK path \in left : least = Len(path)
    BY <2>2
  <2>4. path # <<>> /\ Front(path) \notin visited
    BY <1>0, <2>3
  <2>5. Front(path) \in left
    BY <2>3, <2>4 DEF Containers, IsDocument
  <2>6. Len(Front(path)) = Len(path) - 1 /\ Len(path) \in Nat
    BY <1>1, <2>3, <2>4, FrontLast
  <2>7. Len(path) <= Len(Front(path))
    BY <2>2, <2>3, <2>5
  <2> QED BY <2>6, <2>7
<1> QED BY <1>2 DEF VisitedSoFar

\* models.py:57 "this is needed since javascript number type is a float":
\* however deep a document is, every integer in it becomes text, and nothing
\* else changes.
THEOREM EveryIntegerBecomesText ==
    ASSUME NEW data, IsDocument(data)
    PROVE  DictTransform(data) = [path \in DOMAIN data |-> AsText(data[path])]
<1> DEFINE run == CHOOSE f : IsRun(data, Turns(data), f)
<1>1. DictTransform(data) = run[Turns(data)].new_data
  BY DEF DictTransform, IsRun, Turns, Start
<1>2. IsRun(data, Turns(data), run)
  <2>1. Turns(data) \in Nat
    BY FS_CardinalityType DEF IsDocument, Turns
  <2> QED BY <2>1, RunExists
<1> HIDE DEF run
<1>3. PICK visited : /\ VisitedSoFar(data, run[Turns(data)], visited)
                     /\ run[Turns(data)].ref_stack = <<>>
  BY <1>2, StackEmptied
<1>4. visited = Containers(data)
  BY <1>3, AllVisited
<1>5. run[Turns(data)].new_data =
          [path \in DOMAIN data |-> IF path # <<>> /\ Front(path) \in visited
                                    THEN AsText(data[path]) ELSE data[path]]
  BY <1>3 DEF VisitedSoFar
<1>6. ASSUME NEW path \in DOMAIN data
      PROVE  (IF path # <<>> /\ Front(path) \in visited
              THEN AsText(data[path]) ELSE data[path]) = AsText(data[path])
  <2>1. CASE path = <<>>
    BY <2>1 DEF IsDocument, AsText
  <2>2. CASE path # <<>>
    <3>1. Front(path) \in Containers(data)
      BY <2>2 DEF IsDocument, Containers
    <3> QED BY <1>4, <2>2, <3>1
  <2> QED BY <2>1, <2>2
<1> QED BY <1>1, <1>5, <1>6

-----------------------------------------------------------------------------
(* Types                                                                   *)

LEMMA RoundFacts ==
    /\ NoRound \notin Rounds
    /\ \A r \in Rounds : r \in Nat
  BY AttestedAssumption DEF Rounds, NoRound

\* Any query's rows are attestations.
LEMMA InitType == Init => TypeOK
  BY AttestedAssumption DEF Init, TypeOK, Rounds

LEMMA EndpointType ==
    ASSUME TypeOK, Endpoint
    PROVE  TypeOK'
<1>1. results \in SUBSET AttestationResult
  BY AttestedAssumption DEF TypeOK, AttestationResult, Rounds
<1>2. ASSUME answer'.endpoint \in Endpoints, answer'.text \in Text \cup {NoText},
             answer'.round \in Rounds \cup {NoRound}, answer'.status \in {200, 400},
             answer'.rows \in SUBSET results, UNCHANGED <<now, results>>
      PROVE  TypeOK'
  BY <1>1, <1>2 DEF TypeOK
<1>3. CASE V0List
  <2>1. PICK r \in Rounds \cup {NoRound} :
            Answered("v0 list", NoText, r, 200, InRound(IF r = NoRound THEN now ELSE r))
    BY <1>3 DEF V0List
  <2>2. InRound(IF r = NoRound THEN now ELSE r) \in SUBSET results
    BY DEF InRound
  <2>3. /\ answer'.endpoint = "v0 list" /\ answer'.text = NoText /\ answer'.round = r
        /\ answer'.status = 200
        /\ answer'.rows = InRound(IF r = NoRound THEN now ELSE r)
    BY <2>1 DEF Answered
  <2>4. answer'.endpoint \in Endpoints
    BY <2>3 DEF Endpoints
  <2>5. UNCHANGED <<now, results>>
    BY <1>3 DEF V0List
  <2> QED BY <1>2, <2>2, <2>3, <2>4, <2>5
<1>4. CASE V1List
  <2>1. PICK r \in Rounds : Answered("v1 list", NoText, r, 200, InRound(r))
    BY <1>4 DEF V1List
  <2>2. InRound(r) \in SUBSET results
    BY DEF InRound
  <2>3. /\ answer'.endpoint = "v1 list" /\ answer'.text = NoText /\ answer'.round = r
        /\ answer'.status = 200
        /\ answer'.rows = InRound(r)
    BY <2>1 DEF Answered
  <2>4. answer'.endpoint \in Endpoints
    BY <2>3 DEF Endpoints
  <2>5. UNCHANGED <<now, results>>
    BY <1>4 DEF V1List
  <2> QED BY <1>2, <2>2, <2>3, <2>4, <2>5
<1>5. CASE V0ProofRoundIdBytes
  <2>1. PICK text \in Text, r \in Rounds :
            Answered("v0 get-proof-round-id-bytes", text, r, Status(ThatRound(text, r)),
                     ThatRound(text, r))
    BY <1>5 DEF V0ProofRoundIdBytes
  <2>2. ThatRound(text, r) \in SUBSET results /\ Status(ThatRound(text, r)) \in {200, 400}
    BY DEF ThatRound, Matching, Status
  <2>3. /\ answer'.endpoint = "v0 get-proof-round-id-bytes" /\ answer'.text = text /\ answer'.round = r
        /\ answer'.status = Status(ThatRound(text, r))
        /\ answer'.rows = ThatRound(text, r)
    BY <2>1 DEF Answered
  <2>4. answer'.endpoint \in Endpoints
    BY <2>3 DEF Endpoints
  <2>5. UNCHANGED <<now, results>>
    BY <1>5 DEF V0ProofRoundIdBytes
  <2>6. answer'.text \in Text \cup {NoText} /\ answer'.round \in Rounds \cup {NoRound}
    BY <2>3
  <2>7. answer'.status \in {200, 400}
    BY <2>2, <2>3, Zenon
  <2>8. answer'.rows \in SUBSET results
    BY <2>2, <2>3, Zenon
  <2> QED BY <1>2, <2>4, <2>5, <2>6, <2>7, <2>8
<1>6. CASE V0ProofRoundBytes
  <2>1. PICK text \in Text :
            Answered("v0 get-proof-round-bytes", text, NoRound, 200,
                     First(MatchingExactly(text)))
    BY <1>6 DEF V0ProofRoundBytes
  <2>2. First(MatchingExactly(text)) \in SUBSET results
    BY DEF First, MatchingExactly
  <2>3. /\ answer'.endpoint = "v0 get-proof-round-bytes" /\ answer'.text = text /\ answer'.round = NoRound
        /\ answer'.status = 200
        /\ answer'.rows = First(MatchingExactly(text))
    BY <2>1 DEF Answered
  <2>4. answer'.endpoint \in Endpoints
    BY <2>3 DEF Endpoints
  <2>5. UNCHANGED <<now, results>>
    BY <1>6 DEF V0ProofRoundBytes
  <2> QED BY <1>2, <2>2, <2>3, <2>4, <2>5
<1>7. CASE V1ProofByRequestRound
  <2>1. PICK text \in Text, r \in Rounds \cup {NoRound} :
            Answered("v1 proof-by-request-round", text, r,
                     Status(First(Candidates(text, r))), First(Candidates(text, r)))
    BY <1>7 DEF V1ProofByRequestRound
  <2>2. /\ First(Candidates(text, r)) \in SUBSET results
        /\ Status(First(Candidates(text, r))) \in {200, 400}
    BY DEF First, Candidates, Matching, Status
  <2>3. /\ answer'.endpoint = "v1 proof-by-request-round" /\ answer'.text = text /\ answer'.round = r
        /\ answer'.status = Status(First(Candidates(text, r)))
        /\ answer'.rows = First(Candidates(text, r))
    BY <2>1 DEF Answered
  <2>4. answer'.endpoint \in Endpoints
    BY <2>3 DEF Endpoints
  <2>5. UNCHANGED <<now, results>>
    BY <1>7 DEF V1ProofByRequestRound
  <2>6. answer'.text \in Text \cup {NoText} /\ answer'.round \in Rounds \cup {NoRound}
    BY <2>3
  <2>7. answer'.status \in {200, 400}
    BY <2>2, <2>3, Zenon
  <2>8. answer'.rows \in SUBSET results
    BY <2>2, <2>3, Zenon
  <2> QED BY <1>2, <2>4, <2>5, <2>6, <2>7, <2>8
<1> QED BY <1>3, <1>4, <1>5, <1>6, <1>7 DEF Endpoint

LEMMA TableType ==
    ASSUME TypeOK, NextRound \/ StoreRound \/ DeleteHistory
    PROVE  TypeOK'
<1>1. now \in Nat /\ MaxRound \in Nat
  BY AttestedAssumption DEF TypeOK, Rounds
<1>2. CASE NextRound
  <2>1. now' \in Rounds /\ 0 .. now - 1 \subseteq 0 .. now' - 1
    BY <1>1, <1>2 DEF NextRound, Rounds
  <2>2. results' \in SUBSET [round : 0 .. now' - 1, request : Requests]
    BY <1>2, <2>1 DEF NextRound, TypeOK
  <2> QED BY <1>2, <2>1, <2>2 DEF NextRound, TypeOK
<1>3. CASE StoreRound
  <2>1. PICK r \in 0 .. now - 1 :
            results' = results \cup {[round |-> r, request |-> q] : q \in Attested[r]}
    BY <1>3 DEF StoreRound
  <2>2. Attested[r] \subseteq Requests
    <3>1. r \in Rounds
      BY <1>1 DEF TypeOK, Rounds
    <3> QED BY <3>1, AttestedAssumption
  <2>3. results' \in SUBSET [round : 0 .. now - 1, request : Requests]
    BY <2>1, <2>2 DEF TypeOK
  <2> QED BY <1>3, <2>3 DEF StoreRound, TypeOK
<1>4. CASE DeleteHistory
  BY <1>4 DEF DeleteHistory, TypeOK
<1> QED BY <1>2, <1>3, <1>4

\* Rows are of rounds that are over and answers of the endpoints' form.
THEOREM ViewsTypeCorrect == Spec => []TypeOK
<1>1. TypeOK /\ [Next]_vars => TypeOK'
  <2> SUFFICES ASSUME TypeOK, [Next]_vars
               PROVE  TypeOK'
    OBVIOUS
  <2>1. CASE UNCHANGED vars
    BY <2>1 DEF vars, TypeOK
  <2> QED BY <2>1, EndpointType, TableType DEF Next
<1> QED BY <1>1, InitType, PTL DEF Spec

-----------------------------------------------------------------------------
(* What is found                                                           *)

\* Both notations of a request match its rows.
LEMMA MatchingFacts ==
    ASSUME NEW text \in Text
    PROVE  Matching(text) = {row \in results : row.request = text.request}
<1>1. UnPrefix0x(text) = [request |-> text.request, notation |-> "plain"]
  BY DEF UnPrefix0x, Text
<1>2. \A row : RequestHex(row) = UnPrefix0x(text) <=> row.request = text.request
  BY <1>1 DEF RequestHex
<1> QED BY <1>2 DEF Matching

\* v1/request.py:6 and both get-proof endpoints: the answer is the row asked
\* for, of the round given or of the latest one, whichever notation is used.
THEOREM ProofsAreAsAsked == Spec => ProofAsAsked
<1> DEFINE AsAsked ==
        /\ answer'.rows = AskedFor(answer'.text, answer'.round)
        /\ answer'.status = 200 <=> answer'.rows # {}
<1>1. ASSUME answer'.status = Status(answer'.rows),
             answer'.rows = AskedFor(answer'.text, answer'.round)
      PROVE  AsAsked
  BY <1>1 DEF Status
<1>2. ASSUME TypeOK, NEW text \in Text, NEW r \in Rounds
      PROVE  ThatRound(text, r) = AskedFor(text, r)
  BY <1>2, MatchingFacts, RoundFacts DEF ThatRound, AskedFor, InRound
<1>3. ASSUME TypeOK, NEW text \in Text, NEW r \in Rounds \cup {NoRound}
      PROVE  First(Candidates(text, r)) = AskedFor(text, r)
  <2>0. \A row \in results : row.round \in Int
    BY <1>3 DEF TypeOK
  <2>1. CASE r = NoRound
    <3>1. Candidates(text, r) = {row \in results : row.request = text.request}
      BY <2>1, MatchingFacts DEF Candidates
    <3> QED BY <2>0, <2>1, <3>1 DEF First, AskedFor
  <2>2. CASE r # NoRound
    <3>1. Candidates(text, r) = {row \in results : row.request = text.request /\ row.round = r}
      BY <2>2, MatchingFacts DEF Candidates, InRound
    <3> QED BY <2>0, <2>2, <3>1 DEF First, AskedFor
  <2> QED BY <2>1, <2>2
<1>4. ASSUME TypeOK, Next, NewAnswer({"v0 get-proof-round-id-bytes", "v1 proof-by-request-round"})
      PROVE  AsAsked
  <2>1. CASE V0ProofRoundIdBytes
    <3>1. PICK text \in Text, r \in Rounds :
              Answered("v0 get-proof-round-id-bytes", text, r, Status(ThatRound(text, r)),
                       ThatRound(text, r))
      BY <2>1 DEF V0ProofRoundIdBytes
    <3>2. /\ answer'.text = text /\ answer'.round = r
          /\ answer'.rows = ThatRound(text, r) /\ answer'.status = Status(ThatRound(text, r))
      BY <3>1 DEF Answered
    <3>3. ThatRound(text, r) = AskedFor(text, r)
      BY <1>2, <1>4
    <3> QED BY <1>1, <3>2, <3>3
  <2>2. CASE V1ProofByRequestRound
    <3>1. PICK text \in Text, r \in Rounds \cup {NoRound} :
              Answered("v1 proof-by-request-round", text, r,
                       Status(First(Candidates(text, r))), First(Candidates(text, r)))
      BY <2>2 DEF V1ProofByRequestRound
    <3>2. /\ answer'.text = text /\ answer'.round = r
          /\ answer'.rows = First(Candidates(text, r))
          /\ answer'.status = Status(First(Candidates(text, r)))
      BY <3>1 DEF Answered
    <3>3. First(Candidates(text, r)) = AskedFor(text, r)
      BY <1>3, <1>4
    <3> QED BY <1>1, <3>2, <3>3
  <2>3. CASE V0List \/ V0ProofRoundBytes \/ V1List
    <3>1. answer'.endpoint \in {"v0 list", "v0 get-proof-round-bytes", "v1 list"}
      <4>1. V0List => answer'.endpoint = "v0 list"
        <5> SUFFICES ASSUME NEW r \in Rounds \cup {NoRound},
                            Answered("v0 list", NoText, r, 200,
                                     InRound(IF r = NoRound THEN now ELSE r))
                     PROVE  answer'.endpoint = "v0 list"
          BY DEF V0List
        <5> QED BY DEF Answered
      <4>2. V0ProofRoundBytes => answer'.endpoint = "v0 get-proof-round-bytes"
        <5> SUFFICES ASSUME NEW text \in Text,
                            Answered("v0 get-proof-round-bytes", text, NoRound, 200,
                                     First(MatchingExactly(text)))
                     PROVE  answer'.endpoint = "v0 get-proof-round-bytes"
          BY DEF V0ProofRoundBytes
        <5> QED BY DEF Answered
      <4>3. V1List => answer'.endpoint = "v1 list"
        <5> SUFFICES ASSUME NEW r \in Rounds,
                            Answered("v1 list", NoText, r, 200, InRound(r))
                     PROVE  answer'.endpoint = "v1 list"
          BY DEF V1List
        <5> QED BY DEF Answered
      <4> QED BY <2>3, <4>1, <4>2, <4>3
    <3> QED BY <1>4, <3>1 DEF NewAnswer
  <2>4. CASE NextRound \/ StoreRound \/ DeleteHistory
    BY <1>4, <2>4 DEF NewAnswer, NextRound, StoreRound, DeleteHistory
  <2> QED BY <1>4, <2>1, <2>2, <2>3, <2>4 DEF Next, Endpoint
<1>5. TypeOK /\ [Next]_vars =>
          [NewAnswer({"v0 get-proof-round-id-bytes", "v1 proof-by-request-round"}) => AsAsked]_vars
  BY <1>4
<1> QED BY <1>5, ViewsTypeCorrect, PTL DEF Spec, ProofAsAsked

\* The latest proof of a request is never an older one than before, for every
\* history and every order in which rounds are stored and dropped.
THEOREM LatestProofNeverGoesBack == Spec => LatestNeverGoesBack
<1>1. ASSUME TypeOK, Next, NEW text \in Text,
             NEW old \in First(Matching(text)), NEW new \in First(Matching(text))'
      PROVE  new.round >= old.round
  <2>1. /\ old \in results /\ RequestHex(old) = UnPrefix0x(text)
        /\ \A row \in results : RequestHex(row) = UnPrefix0x(text) => old.round >= row.round
    BY DEF First, Matching
  <2>2. /\ new \in results' /\ RequestHex(new) = UnPrefix0x(text)
        /\ old \in results' => new.round >= old.round
    BY <2>1 DEF First, Matching
  <2>3. CASE DeleteHistory
    <3>1. now - History \in Int
      BY <1>1, AttestedAssumption DEF TypeOK, Rounds
    <3>2. new \in results /\ new.round >= now - History
      BY <2>2, <2>3 DEF DeleteHistory, Kept
    <3>3. old.round >= new.round /\ old.round \in Int /\ new.round \in Int
      BY <1>1, <2>1, <2>2, <3>2 DEF TypeOK
    <3>4. old \in results'
      BY <2>1, <2>3, <3>1, <3>2, <3>3 DEF DeleteHistory, Kept
    <3> QED BY <2>2, <3>4
  <2>4. CASE StoreRound
    <3>1. results \subseteq results'
      BY <2>4 DEF StoreRound
    <3> QED BY <2>1, <2>2, <3>1
  <2>5. CASE Endpoint \/ NextRound
    <3>1. results' = results
      BY <2>5
      DEF Endpoint, V0List, V0ProofRoundIdBytes, V0ProofRoundBytes, V1List,
          V1ProofByRequestRound, NextRound
    <3> QED BY <2>1, <2>2, <3>1
  <2> QED BY <1>1, <2>3, <2>4, <2>5 DEF Next
<1>2. TypeOK /\ [Next]_vars =>
          [\A text \in Text : \A old \in First(Matching(text)), new \in First(Matching(text))' :
              new.round >= old.round]_vars
  BY <1>1
<1> QED BY <1>2, ViewsTypeCorrect, PTL DEF Spec, LatestNeverGoesBack

-----------------------------------------------------------------------------
(* What is sent                                                            *)

Typescript(data) == [path \in DOMAIN data |-> AsText(data[path])]

\* What an endpoint says of a row, by the version of its API.
LEMMA SaidOfARow ==
    ASSUME NEW endpoint, NEW row, row.request \in Requests
    PROVE  Serialized(endpoint, row) =
               IF endpoint \in V0 THEN Typescript(Response[row.request])
               ELSE Response[row.request]
<1>1. ResponseTs[row.request] = DictTransform(Response[row.request])
  BY DEF ResponseTs
<1>2. DictTransform(Response[row.request]) = Typescript(Response[row.request])
  BY ResponseAssumption, EveryIntegerBecomesText DEF Typescript
<1> QED BY <1>1, <1>2 DEF Serialized

\* models.py:57, over every response: version 0 sends all integers as text
\* and nothing else changed, version 1 the response itself.
THEOREM IntegersAreSentAsText == Spec => []IntegersAsText
<1> DEFINE Said == {Response[row.request] : row \in answer.rows}
           Sent == IF answer.endpoint \in V0 THEN {Typescript(data) : data \in Said} ELSE Said
<1>1. IntegersAsText <=> answer.responses = Sent
  BY DEF IntegersAsText, Typescript, AsText
<1>2. Init => answer.responses = Sent
  BY DEF Init, NoAnswer, V0
<1>3. ASSUME TypeOK', NEW endpoint \in Endpoints, NEW text, NEW r, NEW status, NEW rows,
             Answered(endpoint, text, r, status, rows)
      PROVE  (answer.responses = Sent)'
  <2>1. /\ answer'.endpoint = endpoint /\ answer'.rows = rows
        /\ answer'.responses = {Serialized(endpoint, row) : row \in rows}
    BY <1>3 DEF Answered
  <2>2. \A row \in rows : row.request \in Requests
    <3>1. endpoint # NoAnswer.endpoint
      BY DEF Endpoints, NoAnswer
    <3>2. rows \in SUBSET AttestationResult
      BY <1>3, <2>1, <3>1 DEF TypeOK
    <3> QED BY <3>2 DEF AttestationResult
  <2>3. \A row \in rows : Serialized(endpoint, row) =
            IF endpoint \in V0 THEN Typescript(Response[row.request]) ELSE Response[row.request]
    BY <2>2, SaidOfARow
  <2>4. CASE endpoint \in V0
    <3>1. answer'.responses = {Typescript(Response[row.request]) : row \in rows}
      BY <2>1, <2>3, <2>4
    <3> QED BY <2>1, <2>4, <3>1
  <2>5. CASE endpoint \notin V0
    <3>1. answer'.responses = {Response[row.request] : row \in rows}
      BY <2>1, <2>3, <2>5
    <3> QED BY <2>1, <2>5, <3>1
  <2> QED BY <2>4, <2>5
<1>4. TypeOK' /\ answer.responses = Sent /\ [Next]_vars => (answer.responses = Sent)'
  <2> SUFFICES ASSUME TypeOK', answer.responses = Sent, [Next]_vars
               PROVE  (answer.responses = Sent)'
    OBVIOUS
  <2>1. CASE Endpoint
    <3>1. PICK endpoint \in Endpoints : \E text, r, status, rows :
              Answered(endpoint, text, r, status, rows)
      BY <2>1 DEF Endpoint, Endpoints, V0List, V0ProofRoundIdBytes, V0ProofRoundBytes,
                  V1List, V1ProofByRequestRound
    <3> HIDE DEF Sent
    <3> QED BY <1>3, <3>1
  <2>2. CASE UNCHANGED answer
    BY <2>2
  <2> QED BY <2>1, <2>2 DEF Next, NextRound, StoreRound, DeleteHistory, vars
<1> QED BY <1>1, <1>2, <1>4, ViewsTypeCorrect, PTL DEF Spec

=============================================================================
