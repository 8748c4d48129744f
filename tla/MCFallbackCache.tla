-------------------------- MODULE MCFallbackCache --------------------------
(* FallbackCache with two threads of one worker and short cooldowns: the   *)
(* second doubling already meets the cap.                                  *)
EXTENDS FallbackCache

CONSTANTS t1, t2

MCThreads == {t1, t2}

=============================================================================
