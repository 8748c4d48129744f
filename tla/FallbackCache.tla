--------------------------- MODULE FallbackCache ---------------------------
(***************************************************************************)
(* FallbackCache (src/project/cache.py): every thread of a web worker has  *)
(* one, and stops calling redis for a while after redis has failed.        *)
(*                                                                         *)
(* What is stored is left out: the module is about when redis is tried.    *)
(* Time is counted in seconds since the last failure; it saturates one     *)
(* second past the longest cooldown, where it also starts (_last_fail_time *)
(* is 0, and the monotonic clock is far past it).                          *)
(***************************************************************************)
EXTENDS Integers

CONSTANTS
    Threads,               \* the threads that serve requests
    MIN_COOLDOWN,          \* 2 s
    MAX_COOLDOWN           \* 300 s

ASSUME CooldownAssumption ==
    /\ MIN_COOLDOWN \in Nat \ {0}
    /\ MAX_COOLDOWN \in Nat
    /\ 2 * MIN_COOLDOWN <= MAX_COOLDOWN

VARIABLES
    redis_up,              \* whether redis answers
    elapsed,               \* time.monotonic() - _last_fail_time
    cooldown,              \* _cooldown
    since_failure,         \* history: seconds since redis last failed a call
    failures,              \* history: failed calls since the last good one
    last_cooldown          \* history: the cooldown set by the last failure

vars == <<redis_up, elapsed, cooldown, since_failure, failures, last_cooldown>>

LongAgo == MAX_COOLDOWN + 1

TypeOK ==
    /\ redis_up \in BOOLEAN
    /\ elapsed \in [Threads -> 0 .. LongAgo]
    /\ cooldown \in [Threads -> MIN_COOLDOWN .. MAX_COOLDOWN]
    /\ since_failure \in [Threads -> 0 .. LongAgo]
    /\ failures \in [Threads -> 0 .. 2]
    /\ last_cooldown \in [Threads -> MIN_COOLDOWN .. MAX_COOLDOWN]

Init ==
    /\ redis_up \in BOOLEAN
    /\ elapsed = [t \in Threads |-> LongAgo]
    /\ cooldown = [t \in Threads |-> MIN_COOLDOWN]
    /\ since_failure = [t \in Threads |-> LongAgo]
    /\ failures = [t \in Threads |-> 0]
    /\ last_cooldown = [t \in Threads |-> MIN_COOLDOWN]

\* Mutant: available one second early.
AvailableEarly(t) == elapsed[t] >= cooldown[t]

RedisAvailable(t) == elapsed[t] > cooldown[t]

\* Mutant: no cap.
DoubledUncapped(c) == 2 * c

Doubled(c) == IF 2 * c < MAX_COOLDOWN THEN 2 * c ELSE MAX_COOLDOWN

MarkFailed(t) ==
    /\ elapsed' = [elapsed EXCEPT ![t] = 0]
    /\ cooldown' = [cooldown EXCEPT ![t] = Doubled(@)]

\* Mutant: the next failure doubles a cooldown from before the good call.
MarkOkKeepsCooldown(t) ==
    /\ elapsed' = [elapsed EXCEPT ![t] = LongAgo]
    /\ UNCHANGED cooldown

\* When the cooldown is the least one, no failure is remembered either.
MarkOk(t) ==
    IF cooldown[t] # MIN_COOLDOWN
    THEN /\ cooldown' = [cooldown EXCEPT ![t] = MIN_COOLDOWN]
         /\ elapsed' = [elapsed EXCEPT ![t] = LongAgo]
    ELSE UNCHANGED <<elapsed, cooldown>>

\* _call of get, set, add, delete, ...: redis answers.
RedisAnswers(t) ==
    /\ RedisAvailable(t)
    /\ redis_up
    /\ MarkOk(t)
    /\ failures' = [failures EXCEPT ![t] = 0]
    /\ UNCHANGED <<redis_up, since_failure, last_cooldown>>

\* The same, and redis raises a RedisError; the fallback answers.  failures
\* tells a first failure from a later one and saturates.
RedisFails(t) ==
    /\ RedisAvailable(t)
    /\ ~redis_up
    /\ MarkFailed(t)
    /\ since_failure' = [since_failure EXCEPT ![t] = 0]
    /\ failures' = [failures EXCEPT ![t] = IF @ = 0 THEN 1 ELSE 2]
    /\ last_cooldown' = [last_cooldown EXCEPT ![t] = Doubled(cooldown[t])]
    /\ UNCHANGED redis_up

\* Mutant: a call during the cooldown prolongs it.
FallbackProlongs(t) ==
    /\ ~RedisAvailable(t)
    /\ elapsed' = [elapsed EXCEPT ![t] = 0]
    /\ UNCHANGED <<redis_up, cooldown, since_failure, failures, last_cooldown>>

\* _call during the cooldown: only the fallback is asked.
Fallback(t) ==
    /\ ~RedisAvailable(t)
    /\ UNCHANGED vars

\* _call("close"), which Django makes at the end of every request.  The close
\* of RedisCache does not talk to redis and never fails, so _call takes it for
\* a good answer.
Close(t) ==
    /\ RedisAvailable(t)
    /\ MarkOk(t)
    /\ UNCHANGED <<redis_up, since_failure, failures, last_cooldown>>

Second(s) == IF s = LongAgo THEN s ELSE s + 1

Tick ==
    /\ \E t \in Threads : elapsed[t] # LongAgo \/ since_failure[t] # LongAgo
    /\ elapsed' = [t \in Threads |-> Second(elapsed[t])]
    /\ since_failure' = [t \in Threads |-> Second(since_failure[t])]
    /\ UNCHANGED <<redis_up, cooldown, failures, last_cooldown>>

RedisGoesDown ==
    /\ redis_up
    /\ redis_up' = FALSE
    /\ UNCHANGED <<elapsed, cooldown, since_failure, failures, last_cooldown>>

RedisComesUp ==
    /\ ~redis_up
    /\ redis_up' = TRUE
    /\ UNCHANGED <<elapsed, cooldown, since_failure, failures, last_cooldown>>

Call(t) == RedisAnswers(t) \/ RedisFails(t) \/ Fallback(t)

Next ==
    \/ \E t \in Threads : Call(t) \/ Close(t)
    \/ Tick
    \/ RedisGoesDown
    \/ RedisComesUp

Spec == Init /\ [][Next]_vars

\* Time passes, and every thread keeps being called.
FairSpec ==
    /\ Spec
    /\ WF_vars(Tick)
    /\ \A t \in Threads : WF_vars(RedisAnswers(t))

-----------------------------------------------------------------------------

\* A thread that redis has failed does not try it again for twice the least
\* cooldown, whatever closes and other calls come between: a request pays for
\* redis' socket timeout at most that often.
FailuresSpaced ==
    [][\A t \in Threads : RedisFails(t) => since_failure[t] > 2 * MIN_COOLDOWN]_vars

\* cache.py:21-22 "a successful redis call resets the backoff immediately".
GoodCallResets ==
    \A t \in Threads : failures[t] = 0 => cooldown[t] = MIN_COOLDOWN

\* Once redis stays up, every thread comes back to it.
RedisUsedAgain ==
    \A t \in Threads : <>[]redis_up => <>[](failures[t] = 0)

\* cache.py:20-21 "after each consecutive failure the cooldown doubles": a
\* second failure, with no good redis call since the first, doubles what the
\* first one set.
CooldownDoubles ==
    [][\A t \in Threads :
          RedisFails(t) /\ failures[t] > 0
              => last_cooldown'[t] = Doubled(last_cooldown[t])]_vars

=============================================================================
