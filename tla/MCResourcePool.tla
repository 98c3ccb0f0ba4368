---------------------------- MODULE MCResourcePool ----------------------------
(* A small instance of ResourcePool. *)
EXTENDS ResourcePool

CONSTANTS t1, t2, t3, k1, k2, s1, s2, s3, s4
===============================================================================
