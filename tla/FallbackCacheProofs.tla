------------------------ MODULE FallbackCacheProofs ------------------------
(***************************************************************************)
(* What FallbackCache guarantees for every number of threads and all       *)
(* cooldowns, checked by TLAPS.                                            *)
(***************************************************************************)
EXTENDS FallbackCache, TLAPS

Cooldowns == MIN_COOLDOWN .. MAX_COOLDOWN
Ages == 0 .. LongAgo

\* A thread that redis has failed a while ago is still in its cooldown, which
\* is not the least one, or has been out of it.
FailedLately ==
    \A t \in Threads :
        \/ since_failure[t] > 2 * MIN_COOLDOWN
        \/ cooldown[t] >= 2 * MIN_COOLDOWN /\ elapsed[t] <= since_failure[t]

IInv == TypeOK /\ GoodCallResets /\ FailedLately

-----------------------------------------------------------------------------
(* Cooldowns and ages                                                      *)

LEMMA CooldownFacts ==
    /\ MIN_COOLDOWN \in Cooldowns
    /\ MAX_COOLDOWN \in Cooldowns
    /\ LongAgo \in Ages /\ LongAgo > 2 * MIN_COOLDOWN
    /\ 0 \in Ages
    /\ \A c \in Cooldowns : c \in Nat
    /\ \A s \in Ages : s \in Nat
  BY CooldownAssumption DEF Cooldowns, Ages, LongAgo

\* A doubled cooldown is one, and at least twice the least one.
LEMMA DoubledFacts ==
    ASSUME NEW c \in Cooldowns
    PROVE  Doubled(c) \in Cooldowns /\ Doubled(c) >= 2 * MIN_COOLDOWN
  BY CooldownAssumption DEF Cooldowns, Doubled

\* Second keeps the order of ages.
LEMMA SecondFacts ==
    ASSUME NEW s \in Ages
    PROVE  /\ Second(s) \in Ages /\ Second(s) >= s
           /\ \A r \in Ages : r <= s => Second(r) <= Second(s)
  BY CooldownAssumption DEF Ages, Second, LongAgo

-----------------------------------------------------------------------------
(* The invariant                                                           *)

LEMMA InitInv == Init => IInv
  BY CooldownFacts
  DEF Init, IInv, TypeOK, GoodCallResets, FailedLately, Cooldowns, Ages

\* A good answer, or what counts as one.
LEMMA MarkOkKeeps ==
    ASSUME IInv, NEW t \in Threads, RedisAvailable(t), MarkOk(t)
    PROVE  /\ elapsed' \in [Threads -> Ages]
           /\ cooldown' \in [Threads -> Cooldowns]
           /\ cooldown'[t] = MIN_COOLDOWN
           /\ \A u \in Threads \ {t} : cooldown'[u] = cooldown[u] /\ elapsed'[u] = elapsed[u]
           /\ since_failure[t] > 2 * MIN_COOLDOWN
<1>1. elapsed \in [Threads -> Ages] /\ cooldown \in [Threads -> Cooldowns]
  BY DEF IInv, TypeOK, Ages, Cooldowns
<1>2. since_failure[t] > 2 * MIN_COOLDOWN
  <2>1. /\ elapsed[t] \in Nat /\ cooldown[t] \in Nat /\ since_failure[t] \in Nat
        /\ MIN_COOLDOWN \in Nat /\ elapsed[t] > cooldown[t]
    BY <1>1, CooldownFacts, CooldownAssumption DEF IInv, TypeOK, RedisAvailable, Ages
  <2> QED BY <2>1 DEF IInv, FailedLately
<1> QED BY <1>1, <1>2, CooldownFacts DEF MarkOk

LEMMA GoodInv ==
    ASSUME IInv, NEW t \in Threads, RedisAnswers(t) \/ Close(t)
    PROVE  IInv'
<1>1. /\ RedisAvailable(t) /\ MarkOk(t)
      /\ UNCHANGED <<redis_up, since_failure, last_cooldown>>
      /\ failures' \in [Threads -> 0 .. 2]
      /\ \A u \in Threads \ {t} : failures'[u] = failures[u]
  BY DEF RedisAnswers, Close, IInv, TypeOK
<1>2. TypeOK'
  BY <1>1, MarkOkKeeps DEF IInv, TypeOK, Ages, Cooldowns
<1>3. GoodCallResets'
  BY <1>1, MarkOkKeeps DEF IInv, GoodCallResets
<1>4. FailedLately'
  BY <1>1, MarkOkKeeps DEF IInv, FailedLately
<1> QED BY <1>2, <1>3, <1>4 DEF IInv

LEMMA FailsInv ==
    ASSUME IInv, NEW t \in Threads, RedisFails(t)
    PROVE  IInv'
<1>1. /\ elapsed \in [Threads -> Ages] /\ cooldown \in [Threads -> Cooldowns]
      /\ since_failure \in [Threads -> Ages]
      /\ failures \in [Threads -> 0 .. 2] /\ last_cooldown \in [Threads -> Cooldowns]
      /\ redis_up \in BOOLEAN
  BY DEF IInv, TypeOK, Ages, Cooldowns
<1>2. PICK d \in Cooldowns : d = Doubled(cooldown[t]) /\ d >= 2 * MIN_COOLDOWN
  BY <1>1, DoubledFacts
<1>3. /\ elapsed' = [elapsed EXCEPT ![t] = 0]
      /\ cooldown' = [cooldown EXCEPT ![t] = d]
      /\ since_failure' = [since_failure EXCEPT ![t] = 0]
      /\ failures' = [failures EXCEPT ![t] = IF failures[t] = 0 THEN 1 ELSE 2]
      /\ last_cooldown' = [last_cooldown EXCEPT ![t] = d]
      /\ redis_up' = redis_up
  BY <1>2 DEF RedisFails, MarkFailed
<1>4. TypeOK'
  BY <1>1, <1>3, CooldownFacts DEF TypeOK, Ages, Cooldowns
<1>5. GoodCallResets'
  BY <1>1, <1>3 DEF IInv, GoodCallResets
<1>6. FailedLately'
  BY <1>1, <1>2, <1>3 DEF IInv, FailedLately
<1> QED BY <1>4, <1>5, <1>6 DEF IInv

LEMMA TickInv ==
    ASSUME IInv, Tick
    PROVE  IInv'
<1>1. /\ elapsed \in [Threads -> Ages] /\ since_failure \in [Threads -> Ages]
      /\ elapsed' = [t \in Threads |-> Second(elapsed[t])]
      /\ since_failure' = [t \in Threads |-> Second(since_failure[t])]
      /\ UNCHANGED <<redis_up, cooldown, failures, last_cooldown>>
  BY DEF Tick, IInv, TypeOK, Ages
<1>2. TypeOK'
  <2>1. elapsed' \in [Threads -> Ages] /\ since_failure' \in [Threads -> Ages]
    BY <1>1, SecondFacts
  <2> QED BY <1>1, <2>1 DEF IInv, TypeOK, Ages
<1>3. GoodCallResets'
  BY <1>1 DEF IInv, GoodCallResets
<1>4. ASSUME NEW t \in Threads
      PROVE  \/ since_failure'[t] > 2 * MIN_COOLDOWN
             \/ cooldown'[t] >= 2 * MIN_COOLDOWN /\ elapsed'[t] <= since_failure'[t]
  <2>1. PICK s \in Ages, e \in Ages : s = since_failure[t] /\ e = elapsed[t]
    BY <1>1
  <2>2. Second(s) >= s /\ (e <= s => Second(e) <= Second(s)) /\ Second(s) \in Nat /\ s \in Nat
    BY SecondFacts, CooldownFacts
  <2>3. since_failure'[t] = Second(s) /\ elapsed'[t] = Second(e) /\ cooldown'[t] = cooldown[t]
    BY <1>1, <2>1
  <2>4. s > 2 * MIN_COOLDOWN \/ (cooldown[t] >= 2 * MIN_COOLDOWN /\ e <= s)
    BY <2>1 DEF IInv, FailedLately
  <2>5. MIN_COOLDOWN \in Nat
    BY CooldownAssumption
  <2> QED BY <2>2, <2>3, <2>4, <2>5
<1> QED BY <1>2, <1>3, <1>4 DEF IInv, FailedLately

LEMMA NextInv == IInv /\ [Next]_vars => IInv'
<1> SUFFICES ASSUME IInv, [Next]_vars
             PROVE  IInv'
  OBVIOUS
<1>1. ASSUME UNCHANGED <<elapsed, cooldown, since_failure, failures, last_cooldown>>,
             redis_up' \in BOOLEAN
      PROVE  IInv'
  BY <1>1 DEF IInv, TypeOK, GoodCallResets, FailedLately
<1>2. CASE UNCHANGED vars \/ \E t \in Threads : Fallback(t)
  BY <1>1, <1>2 DEF Fallback, vars, IInv, TypeOK
<1>3. CASE RedisGoesDown \/ RedisComesUp
  BY <1>1, <1>3 DEF RedisGoesDown, RedisComesUp
<1> QED BY <1>2, <1>3, GoodInv, FailsInv, TickInv DEF Next, Call

LEMMA SpecInv == Spec => []IInv
  BY InitInv, NextInv, PTL DEF Spec

-----------------------------------------------------------------------------
(* Theorems                                                                *)

\* The cooldown of every thread stays between two seconds and five minutes
\* (cache.py:7-8), also after any number of failures.
THEOREM CooldownWithinBounds == Spec => []TypeOK
<1>1. IInv => TypeOK
  BY DEF IInv
<1> QED BY <1>1, SpecInv, PTL

\* cache.py:21-22: after a good call nothing is left of the failures before it.
THEOREM GoodCallsReset == Spec => []GoodCallResets
<1>1. IInv => GoodCallResets
  BY DEF IInv
<1> QED BY <1>1, SpecInv, PTL

\* Though Close resets the cooldown without asking redis, a thread tries a
\* redis that has failed it no sooner than twice the least cooldown later.
THEOREM FailuresAreSpaced == Spec => FailuresSpaced
<1>1. IInv => \A t \in Threads : RedisAvailable(t) => since_failure[t] > 2 * MIN_COOLDOWN
  <2> SUFFICES ASSUME IInv, NEW t \in Threads, RedisAvailable(t)
               PROVE  since_failure[t] > 2 * MIN_COOLDOWN
    OBVIOUS
  <2>1. /\ elapsed[t] \in Ages /\ cooldown[t] \in Cooldowns /\ since_failure[t] \in Ages
        /\ elapsed[t] > cooldown[t]
    BY DEF IInv, TypeOK, RedisAvailable, Ages, Cooldowns
  <2>2. /\ elapsed[t] \in Nat /\ cooldown[t] \in Nat /\ since_failure[t] \in Nat
        /\ MIN_COOLDOWN \in Nat
    BY <2>1, CooldownFacts, CooldownAssumption
  <2> QED BY <2>1, <2>2 DEF IInv, FailedLately
<1>2. IInv => [\A t \in Threads : RedisFails(t) => since_failure[t] > 2 * MIN_COOLDOWN]_vars
  BY <1>1 DEF RedisFails
<1> QED BY <1>2, SpecInv, PTL DEF FailuresSpaced

=============================================================================
