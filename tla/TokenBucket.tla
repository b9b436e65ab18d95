---------------------------- MODULE TokenBucket ----------------------------
(***************************************************************************)
(* What the login rate limiter promises to each key: a bucket of its own   *)
(* that holds MaxAttempts attempts, fills up in Window seconds, and lets   *)
(* an attempt pass when it holds one.  Nothing is ever forgotten here.     *)
(*                                                                         *)
(* A bucket is counted in parts: an attempt is Window parts, a second      *)
(* brings MaxAttempts parts.                                               *)
(***************************************************************************)
EXTENDS Naturals

CONSTANTS Keys,         \* client addresses
          MaxAttempts,
          Window        \* in seconds

VARIABLE bucket

Full == MaxAttempts * Window

Refilled(parts) == IF parts + MaxAttempts > Full THEN Full ELSE parts + MaxAttempts

Enough(parts) == parts >= Window

BucketInit == bucket = [k \in Keys |-> Full]

Pass(k) == /\ Enough(bucket[k])
           /\ bucket' = [bucket EXCEPT ![k] = @ - Window]

Second == bucket' = [k \in Keys |-> Refilled(bucket[k])]

BucketNext == Second \/ \E k \in Keys : Pass(k)

BucketSpec == BucketInit /\ [][BucketNext]_bucket
=============================================================================
