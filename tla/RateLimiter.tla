---------------------------- MODULE RateLimiter ----------------------------
(***************************************************************************)
(* LoginRateLimiter (internal/middleware/ratelimit.go): a map from client  *)
(* addresses to limiters, made on demand under a mutex and evicted by a    *)
(* goroutine when they were not asked for in two windows.  A request takes *)
(* the pointer from the map and calls Allow on it after the mutex is       *)
(* given back: other requests and the eviction come in between.            *)
(*                                                                         *)
(* Time goes in seconds.  What the code keeps as a time is an age here,    *)
(* counted up to the point where a greater one makes no difference, so the *)
(* clock has no bound.  A limiter (golang.org/x/time/rate, external) is    *)
(* the bucket of module TokenBucket, filled as time passes; its Allow is   *)
(* atomic.  Requests that are not POSTs do not come here.  A request slot  *)
(* is used again when its request is through.                              *)
(***************************************************************************)
EXTENDS Naturals, FiniteSets

CONSTANTS Keys, MaxAttempts, Window,
          Requests,   \* slots: requests at the same time
          Limiters,   \* bound: memory for rate.Limiter objects
          None,       \* no pointer
          MaxDelay    \* bound: seconds a request may rest before Allow

ASSUME RateAssumption ==
    /\ MaxAttempts \in Nat \ {0}
    /\ Window \in Nat \ {0}
    /\ MaxDelay \in Nat
    /\ MaxDelay <= Window
    /\ Keys # {}
    /\ None \notin Limiters
    /\ Limiters \subseteq Nat

VARIABLES limiters,   \* the map: the limiter of each key, or None
          idle,       \* seconds since lastSeen of each entry
          parts,      \* the fill of each limiter
          holds,      \* the limiter a request is about to ask, or None
          key,        \* the address of the request
          rests,      \* for how long it has rested
          accepted    \* history: attempts let through in the last a seconds, for each a

vars == <<limiters, idle, parts, holds, key, rests, accepted>>

Full == MaxAttempts * Window

(* The bucket of each key: full while the map has none. *)
Buckets == [k \in Keys |-> IF limiters[k] = None THEN Full ELSE parts[limiters[k]]]

(* What a key is promised *)
Promise == INSTANCE TokenBucket WITH bucket <- Buckets

(* Eviction asks whether an entry is older than this. *)
Stale == 2 * Window

TypeOK ==
    /\ limiters \in [Keys -> Limiters \cup {None}]
    /\ idle \in [Keys -> 0..(Stale + 1)]
    /\ parts \in [Limiters -> 0..Full]
    /\ holds \in [Requests -> Limiters \cup {None}]
    /\ key \in [Requests -> Keys]
    /\ rests \in [Requests -> 0..MaxDelay]
    /\ accepted \in [Keys -> [1..Window -> Nat]]

Init ==
    /\ limiters = [k \in Keys |-> None]
    /\ idle = [k \in Keys |-> 0]
    /\ parts = [l \in Limiters |-> Full]
    /\ holds = [r \in Requests |-> None]
    /\ key \in [Requests -> {CHOOSE k \in Keys : TRUE}]
    /\ rests = [r \in Requests |-> 0]
    /\ accepted = [k \in Keys |-> [a \in 1..Window |-> 0]]

(* Memory that neither the map nor a request points to. *)
Free == {l \in Limiters : /\ \A k \in Keys : limiters[k] # l
                          /\ \A r \in Requests : holds[r] # l}

(* Which memory a new limiter gets makes no difference: the first free. *)
NewLimiter == {l \in Free : \A m \in Free : l <= m}

-----------------------------------------------------------------------------
(* Mutant of Entry: every request makes a limiter. *)
EntryAlwaysNew(k) == NewLimiter

(* The entry of the map for a key, made when there is none. *)
Entry(k) == IF limiters[k] = None THEN NewLimiter ELSE {limiters[k]}

GetLimiter(r, k) ==
    /\ holds[r] = None
    /\ \E l \in Entry(k) :
          /\ limiters' = [limiters EXCEPT ![k] = l]
          /\ parts' = [parts EXCEPT ![l] = IF l \in Free THEN Full ELSE @]
          /\ holds' = [holds EXCEPT ![r] = l]
    /\ idle' = [idle EXCEPT ![k] = 0]
    /\ key' = [key EXCEPT ![r] = k]
    /\ UNCHANGED <<rests, accepted>>

(* The request is through with the limiter. *)
Through(r) == /\ holds' = [holds EXCEPT ![r] = None]
              /\ rests' = [rests EXCEPT ![r] = 0]
              /\ key' = [key EXCEPT ![r] = CHOOSE k \in Keys : TRUE]
              /\ UNCHANGED <<limiters, idle>>

(* Allow says yes and the login handler is called. *)
Accept(r) ==
    /\ holds[r] # None
    /\ parts[holds[r]] >= Window
    /\ parts' = [parts EXCEPT ![holds[r]] = @ - Window]
    /\ accepted' = [accepted EXCEPT ![key[r]] = [a \in 1..Window |-> accepted[key[r]][a] + 1]]
    /\ Through(r)

(* Mutant of Refuse: an attempt that is refused is charged as well. *)
RefuseCharged(r) ==
    /\ holds[r] # None
    /\ parts[holds[r]] < Window
    /\ parts' = [parts EXCEPT ![holds[r]] = 0]
    /\ Through(r)
    /\ UNCHANGED accepted

(* 429 *)
Refuse(r) ==
    /\ holds[r] # None
    /\ parts[holds[r]] < Window
    /\ Through(r)
    /\ UNCHANGED <<parts, accepted>>

(* Mutant of Expired: what was not asked for in one second is evicted. *)
ExpiredSoon(k) == limiters[k] # None /\ idle[k] > 0

(* Mutant of Expired: the comparison is the wrong way round. *)
ExpiredNever(k) == limiters[k] # None /\ idle[k] > Stale + 1

Expired(k) == limiters[k] # None /\ idle[k] > Stale

(* The ticker fires once in a window; the goroutine may come late. *)
Cleanup ==
    /\ \E k \in Keys : Expired(k)
    /\ limiters' = [k \in Keys |-> IF Expired(k) THEN None ELSE limiters[k]]
    /\ idle' = [k \in Keys |-> IF Expired(k) THEN 0 ELSE idle[k]]
    /\ UNCHANGED <<parts, holds, key, rests, accepted>>

Older(age) == IF age > Stale THEN age ELSE age + 1

(* Mutant of Refilled: no brim. *)
RefilledUncapped(n) == n + MaxAttempts

Refilled(n) == IF n + MaxAttempts > Full THEN Full ELSE n + MaxAttempts

(* A second passes; no request rests for longer than MaxDelay. *)
Tick ==
    /\ \A r \in Requests : holds[r] # None => rests[r] < MaxDelay
    /\ rests' = [r \in Requests |-> IF holds[r] = None THEN 0 ELSE rests[r] + 1]
    /\ idle' = [k \in Keys |-> IF limiters[k] = None THEN 0 ELSE Older(idle[k])]
    /\ parts' = [l \in Limiters |-> IF l \in Free THEN Full ELSE Refilled(parts[l])]
    /\ accepted' = [k \in Keys |-> [a \in 1..Window |->
                       IF a = 1 THEN 0 ELSE accepted[k][a - 1]]]
    /\ UNCHANGED <<limiters, holds, key>>

Next ==
    \/ \E r \in Requests :
          \/ \E k \in Keys : GetLimiter(r, k)
          \/ Accept(r)
          \/ Refuse(r)
    \/ Cleanup
    \/ Tick

Spec == Init /\ [][Next]_vars

(* Time passes, goroutines run. *)
FairSpec == /\ Spec
            /\ WF_vars(Tick)
            /\ WF_vars(Cleanup)
            /\ \A r \in Requests : WF_vars(Accept(r) \/ Refuse(r))

-----------------------------------------------------------------------------
(* Each key has the bucket it was promised: that limiters are made on      *)
(* demand by racing requests, forgotten and made anew, and asked outside   *)
(* the mutex makes no difference (ratelimit.go:34-55).                     *)
ImplementsTokenBucket == Promise!BucketSpec

(* Nobody is refused who had less than MaxAttempts attempts let through in *)
(* the last window, whatever the other keys do and whatever of his was     *)
(* refused (ratelimit.go:61).                                              *)
RefusedRightly ==
    [][\A r \in Requests :
          Refuse(r) => accepted[key[r]][Window] >= MaxAttempts]_vars

(* A request that is about to ask a limiter holds the one in the map: an   *)
(* eviction never takes it away underneath (ratelimit.go:37, 61).          *)
HoldsCurrent == \A r \in Requests :
    holds[r] # None => limiters[key[r]] = holds[r]

Unshared == \A k, j \in Keys : limiters[k] # None /\ limiters[k] = limiters[j] => k = j

(* An entry is as fresh as the requests that rest with its limiter ...     *)
FreshWhileHeld == \A r \in Requests : holds[r] # None => idle[key[r]] <= rests[r]

(* ... and after that its limiter has filled up for as long as it idles.   *)
FilledWhileIdle == \A k \in Keys :
    limiters[k] # None =>
        \/ parts[limiters[k]] = Full
        \/ idle[k] <= MaxDelay
        \/ parts[limiters[k]] >= MaxAttempts * (idle[k] - MaxDelay)

(* Keys do not share a limiter, nobody is left with a limiter that was     *)
(* evicted, and what is evicted has filled up, so that making it anew gives*)
(* nothing away.                                                           *)
MapSound == TypeOK /\ HoldsCurrent /\ Unshared /\ FreshWhileHeld /\ FilledWhileIdle

(* What a bucket lacks was let through: over the last a seconds it got its *)
(* refill, and nothing but attempts that passed drew on it.                *)
Accounted == \A k \in Keys : \A a \in 1..Window :
    Buckets[k] + Window * accepted[k][a] >= MaxAttempts * a

(* The invariant that every step preserves. *)
IInv == MapSound /\ Accounted

(* A key that stays away does not stay in the map (ratelimit.go:34-42). *)
Forgotten == \A k \in Keys :
    limiters[k] # None ~> limiters[k] = None \/ idle[k] = 0
=============================================================================
