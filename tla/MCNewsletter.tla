---------------------------- MODULE MCNewsletter ----------------------------
(* Instances of Newsletter: the cron helper and one or two of the panel's.   *)
EXTENDS Newsletter, TLC

CONSTANTS w1, w2, c1, c2, s1, s2
=============================================================================
