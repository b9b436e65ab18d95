------------------------------- MODULE MCRate -------------------------------
(***************************************************************************)
(* A small instance of RateLimiter: two clients with two requests at the   *)
(* same time; a bucket of two attempts that fills up in three seconds.     *)
(***************************************************************************)
EXTENDS RateLimiter

MCLimiters == 1..(Cardinality(Keys) + Cardinality(Requests))
=============================================================================
