---------------------------- MODULE MCStatusPage ----------------------------
(* StatusPage with one thread in each of two workers, as gunicorn runs by  *)
(* default.                                                                *)
EXTENDS StatusPage, TLC

CONSTANTS w1, w2

WorkersAlike == Permutations({w1, w2})

=============================================================================
