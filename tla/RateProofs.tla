----------------------------- MODULE RateProofs -----------------------------
(***************************************************************************)
(* Proofs about RateLimiter: its inductive invariant, and that it gives    *)
(* each key the bucket of module TokenBucket, for any number of keys and   *)
(* requests, any MaxAttempts and any Window.                               *)
(***************************************************************************)
EXTENDS RateLimiter, TLAPS

USE RateAssumption

(* Products of naturals *)
LEMMA Products ==
    ASSUME NEW a \in Nat, NEW b \in Nat, NEW c \in Nat
    PROVE  /\ a * b \in Nat
           /\ a * (b + 1) = a * b + a
           /\ b <= c => a * b <= a * c
<1>1. a * b \in Nat
  OBVIOUS
<1>2. a * (b + 1) = a * b + a
  OBVIOUS
<1>3. b <= c => a * b <= a * c
  OBVIOUS
<1> QED
  BY <1>1, <1>2, <1>3

LEMMA FullNat == Full \in Nat
BY Products DEF Full

LEMMA RefilledType ==
    ASSUME NEW n \in 0..Full
    PROVE  /\ Refilled(n) \in 0..Full
           /\ Refilled(n) = Full \/ Refilled(n) = n + MaxAttempts
BY FullNat DEF Refilled

(* What a request may find as its limiter *)
LEMMA EntryIs ==
    ASSUME TypeOK, Unshared, NEW k \in Keys, NEW l \in Entry(k)
    PROVE  /\ l \in Limiters /\ l # None
           /\ limiters[k] = None => l \in Free
           /\ limiters[k] # None => l = limiters[k] /\ l \notin Free
           /\ \A j \in Keys : limiters[j] = l => j = k
BY DEF Entry, NewLimiter, Free, TypeOK, Unshared

LEMMA MapInit == Init => MapSound
<1> SUFFICES ASSUME Init PROVE MapSound
  OBVIOUS
<1>1. TypeOK
  BY FullNat DEF Init, TypeOK, Stale
<1> QED
  BY <1>1 DEF Init, MapSound, HoldsCurrent, Unshared, FreshWhileHeld, FilledWhileIdle

-----------------------------------------------------------------------------
(* Each action preserves the invariant. *)

LEMMA GetKeepsIInv ==
    ASSUME MapSound, NEW r \in Requests, NEW k \in Keys, GetLimiter(r, k)
    PROVE  MapSound'
<1> USE DEF MapSound
<1>1. PICK l \in Entry(k) :
         /\ limiters' = [limiters EXCEPT ![k] = l]
         /\ parts' = [parts EXCEPT ![l] = IF l \in Free THEN Full ELSE @]
         /\ holds' = [holds EXCEPT ![r] = l]
  BY DEF GetLimiter
<1>2. /\ idle' = [idle EXCEPT ![k] = 0]
      /\ key' = [key EXCEPT ![r] = k]
      /\ holds[r] = None
      /\ UNCHANGED <<rests, accepted>>
  BY DEF GetLimiter
<1>3. /\ l \in Limiters /\ l # None
      /\ limiters[k] # None => l = limiters[k] /\ l \notin Free
      /\ \A j \in Keys : limiters[j] = l => j = k
  BY EntryIs
<1>4. TypeOK'
  <2>1. 0 \in 0..(Stale + 1)
    BY DEF Stale
  <2>2. idle' \in [Keys -> 0..(Stale + 1)]
    BY <1>2, <2>1 DEF TypeOK
  <2>3. (IF l \in Free THEN Full ELSE parts[l]) \in 0..Full
    BY <1>3, FullNat DEF TypeOK
  <2>4. parts' \in [Limiters -> 0..Full]
    BY <1>1, <2>3 DEF TypeOK
  <2>5. /\ limiters' \in [Keys -> Limiters \cup {None}]
        /\ holds' \in [Requests -> Limiters \cup {None}]
        /\ key' \in [Requests -> Keys]
    BY <1>1, <1>2, <1>3 DEF TypeOK
  <2> QED
    BY <1>2, <2>2, <2>4, <2>5 DEF TypeOK
<1>5. HoldsCurrent'
  <2> SUFFICES ASSUME NEW q \in Requests, holds'[q] # None
               PROVE  limiters'[key'[q]] = holds'[q]
    BY DEF HoldsCurrent
  <2>1. CASE q = r
    BY <1>1, <1>2, <2>1 DEF TypeOK
  <2>2. CASE q # r
    <3>1. holds'[q] = holds[q] /\ key'[q] = key[q] /\ limiters[key[q]] = holds[q]
      BY <1>1, <1>2, <2>2 DEF TypeOK, HoldsCurrent
    <3>2. CASE key[q] = k
      BY <1>1, <1>2, <1>3, <3>1, <3>2 DEF TypeOK
    <3>3. CASE key[q] # k
      BY <1>1, <3>1, <3>3 DEF TypeOK
    <3> QED
      BY <3>2, <3>3
  <2> QED
    BY <2>1, <2>2
<1>6. Unshared'
  BY <1>1, <1>3 DEF Unshared, TypeOK
<1>7. FreshWhileHeld'
  <2> SUFFICES ASSUME NEW q \in Requests, holds'[q] # None
               PROVE  idle'[key'[q]] <= rests'[q]
    BY DEF FreshWhileHeld
  <2>1. rests'[q] = rests[q] /\ rests[q] \in Nat
    BY <1>2 DEF TypeOK
  <2>2. CASE key'[q] = k
    <3>1. idle'[k] = 0
      BY <1>2 DEF TypeOK
    <3> QED
      BY <2>1, <2>2, <3>1
  <2>3. CASE key'[q] # k
    <3>1. q # r
      BY <1>2, <2>3 DEF TypeOK
    <3> QED
      BY <1>1, <1>2, <2>1, <2>3, <3>1 DEF TypeOK, FreshWhileHeld
  <2> QED
    BY <2>2, <2>3
<1>8. FilledWhileIdle'
  <2> SUFFICES ASSUME NEW j \in Keys, limiters'[j] # None
               PROVE  \/ parts'[limiters'[j]] = Full
                      \/ idle'[j] <= MaxDelay
                      \/ parts'[limiters'[j]] >= MaxAttempts * (idle'[j] - MaxDelay)
    BY DEF FilledWhileIdle
  <2>1. CASE j = k
    BY <1>2, <2>1 DEF TypeOK
  <2>2. CASE j # k
    <3>1. limiters'[j] = limiters[j] /\ limiters[j] # l /\ idle'[j] = idle[j]
      BY <1>1, <1>2, <1>3, <2>2 DEF TypeOK
    <3>2. limiters[j] \in Limiters /\ limiters[j] # None
      BY <3>1 DEF TypeOK
    <3>3. parts'[limiters[j]] = parts[limiters[j]]
      BY <1>1, <1>3, <3>1, <3>2 DEF TypeOK
    <3> QED
      BY <3>1, <3>2, <3>3 DEF FilledWhileIdle
  <2> QED
    BY <2>1, <2>2
<1> QED
  BY <1>4, <1>5, <1>6, <1>7, <1>8

LEMMA ThroughKeepsIInv ==
    ASSUME MapSound, NEW r \in Requests, holds[r] # None, Through(r),
           Accept(r) \/ Refuse(r)
    PROVE  MapSound'
<1> USE DEF MapSound
<1> DEFINE k == key[r]
           m == holds[r]
<1>1. /\ holds' = [holds EXCEPT ![r] = None]
      /\ rests' = [rests EXCEPT ![r] = 0]
      /\ key' = [key EXCEPT ![r] = CHOOSE x \in Keys : TRUE]
      /\ UNCHANGED <<limiters, idle>>
  BY DEF Through
<1>2. m \in Limiters /\ k \in Keys /\ limiters[k] = m
  BY DEF TypeOK, HoldsCurrent
<1>3. /\ parts' \in [Limiters -> 0..Full]
      /\ \A l \in Limiters \ {m} : parts'[l] = parts[l]
      /\ accepted' \in [Keys -> [1..Window -> Nat]]
  <2>1. CASE Accept(r)
    <3>1. /\ parts[m] >= Window /\ parts[m] \in 0..Full
          /\ parts' = [parts EXCEPT ![m] = @ - Window]
          /\ accepted' = [accepted EXCEPT ![k] = [a \in 1..Window |-> accepted[k][a] + 1]]
      BY <1>2, <2>1 DEF Accept, TypeOK
    <3>2. parts[m] - Window \in 0..Full
      BY <3>1, FullNat
    <3>3. accepted' \in [Keys -> [1..Window -> Nat]]
      <4>1. accepted \in [Keys -> [1..Window -> Nat]]
        BY DEF TypeOK
      <4>2. [a \in 1..Window |-> accepted[k][a] + 1] \in [1..Window -> Nat]
        BY <1>2, <4>1
      <4> QED
        BY <1>2, <3>1, <4>1, <4>2
    <3> QED
      BY <3>1, <3>2, <3>3 DEF TypeOK
  <2>2. CASE Refuse(r)
    BY <2>2 DEF Refuse, TypeOK
  <2> QED
    BY <2>1, <2>2
<1>4. TypeOK'
  <2>1. (CHOOSE x \in Keys : TRUE) \in Keys
    OBVIOUS
  <2>2. 0 \in 0..MaxDelay
    OBVIOUS
  <2> QED
    BY <1>1, <1>3, <2>1, <2>2 DEF TypeOK
<1>5. HoldsCurrent' /\ FreshWhileHeld'
  BY <1>1 DEF HoldsCurrent, FreshWhileHeld, TypeOK
<1>6. Unshared'
  BY <1>1 DEF Unshared
<1>7. FilledWhileIdle'
  <2> SUFFICES ASSUME NEW j \in Keys, limiters[j] # None
               PROVE  \/ parts'[limiters[j]] = Full
                      \/ idle[j] <= MaxDelay
                      \/ parts'[limiters[j]] >= MaxAttempts * (idle[j] - MaxDelay)
    BY <1>1 DEF FilledWhileIdle
  <2>1. CASE j = k
    <3>1. idle[k] <= rests[r] /\ rests[r] <= MaxDelay
      BY <1>2 DEF FreshWhileHeld, TypeOK
    <3> QED
      BY <1>2, <2>1, <3>1 DEF TypeOK
  <2>2. CASE j # k
    <3>1. limiters[j] \in Limiters \ {m}
      BY <1>2, <2>2 DEF TypeOK, Unshared
    <3> QED
      BY <1>3, <3>1 DEF FilledWhileIdle
  <2> QED
    BY <2>1, <2>2
<1> QED
  BY <1>4, <1>5, <1>6, <1>7

(* What is evicted has filled up. *)
LEMMA EvictedFull ==
    ASSUME MapSound, NEW k \in Keys, Expired(k)
    PROVE  /\ parts[limiters[k]] = Full
           /\ \A r \in Requests : holds[r] # None => key[r] # k
<1> USE DEF MapSound
<1>1. limiters[k] \in Limiters /\ limiters[k] # None /\ idle[k] > 2 * Window
      /\ idle[k] \in Nat /\ parts[limiters[k]] \in 0..Full
  <2>1. /\ idle[k] \in 0..(Stale + 1) /\ limiters[k] \in Limiters /\ limiters[k] # None
        /\ idle[k] > Stale
    BY DEF TypeOK, Expired
  <2>2. parts[limiters[k]] \in 0..Full
    BY <2>1 DEF TypeOK
  <2> QED
    BY <2>1, <2>2 DEF Stale
<1>2. idle[k] - MaxDelay \in Nat /\ Window <= idle[k] - MaxDelay /\ ~ (idle[k] <= MaxDelay)
  BY <1>1
<1>3. MaxAttempts * Window <= MaxAttempts * (idle[k] - MaxDelay)
  BY <1>2, Products
<1>4. parts[limiters[k]] = Full
  <2>1. CASE parts[limiters[k]] >= MaxAttempts * (idle[k] - MaxDelay)
    <3>1. MaxAttempts * (idle[k] - MaxDelay) \in Nat
      BY <1>2, Products
    <3> QED
      BY <1>1, <1>3, <2>1, <3>1, FullNat DEF Full
  <2> QED
    BY <1>1, <1>2, <2>1 DEF FilledWhileIdle
<1>5. ASSUME NEW r \in Requests, holds[r] # None, key[r] = k
      PROVE  FALSE
  <2>1. idle[k] <= rests[r] /\ rests[r] \in 0..MaxDelay
    BY <1>5 DEF FreshWhileHeld, TypeOK
  <2> QED
    BY <1>1, <1>2, <2>1
<1> QED
  BY <1>4, <1>5

LEMMA CleanupKeepsIInv ==
    ASSUME MapSound, Cleanup
    PROVE  MapSound'
<1> USE DEF MapSound
<1>1. /\ limiters' = [k \in Keys |-> IF Expired(k) THEN None ELSE limiters[k]]
      /\ idle' = [k \in Keys |-> IF Expired(k) THEN 0 ELSE idle[k]]
      /\ UNCHANGED <<parts, holds, key, rests, accepted>>
  BY DEF Cleanup
<1>2. TypeOK'
  <2>1. 0 \in 0..(Stale + 1)
    BY DEF Stale
  <2> QED
    BY <1>1, <2>1 DEF TypeOK
<1>3. HoldsCurrent' /\ FreshWhileHeld'
  <2> SUFFICES ASSUME NEW r \in Requests, holds[r] # None
               PROVE  limiters'[key[r]] = holds[r] /\ idle'[key[r]] <= rests[r]
    BY <1>1 DEF HoldsCurrent, FreshWhileHeld
  <2>1. key[r] \in Keys /\ ~ Expired(key[r])
    BY EvictedFull DEF TypeOK
  <2> QED
    BY <1>1, <2>1 DEF HoldsCurrent, FreshWhileHeld
<1>4. Unshared'
  BY <1>1 DEF Unshared
<1>5. FilledWhileIdle'
  <2> SUFFICES ASSUME NEW j \in Keys, limiters'[j] # None
               PROVE  \/ parts[limiters'[j]] = Full
                      \/ idle'[j] <= MaxDelay
                      \/ parts[limiters'[j]] >= MaxAttempts * (idle'[j] - MaxDelay)
    BY <1>1 DEF FilledWhileIdle
  <2>1. limiters'[j] = limiters[j] /\ idle'[j] = idle[j]
    BY <1>1
  <2> QED
    BY <2>1 DEF FilledWhileIdle
<1> QED
  BY <1>2, <1>3, <1>4, <1>5

LEMMA TickKeepsIInv ==
    ASSUME MapSound, Tick
    PROVE  MapSound'
<1> USE DEF MapSound
<1>1. /\ \A r \in Requests : holds[r] # None => rests[r] < MaxDelay
      /\ rests' = [r \in Requests |-> IF holds[r] = None THEN 0 ELSE rests[r] + 1]
      /\ idle' = [k \in Keys |-> IF limiters[k] = None THEN 0 ELSE Older(idle[k])]
      /\ parts' = [l \in Limiters |-> IF l \in Free THEN Full ELSE Refilled(parts[l])]
      /\ accepted' = [k \in Keys |-> [a \in 1..Window |->
                         IF a = 1 THEN 0 ELSE accepted[k][a - 1]]]
      /\ UNCHANGED <<limiters, holds, key>>
  BY DEF Tick
<1>2. TypeOK'
  <2>1. rests' \in [Requests -> 0..MaxDelay]
    <3>1. \A r \in Requests : rests[r] \in 0..MaxDelay
      BY DEF TypeOK
    <3>2. \A r \in Requests : (IF holds[r] = None THEN 0 ELSE rests[r] + 1) \in 0..MaxDelay
      BY <1>1, <3>1
    <3> QED
      BY <1>1, <3>2
  <2>2. idle' \in [Keys -> 0..(Stale + 1)]
    BY <1>1 DEF TypeOK, Older, Stale
  <2>3. parts' \in [Limiters -> 0..Full]
    BY <1>1, FullNat, RefilledType DEF TypeOK
  <2>4. accepted' \in [Keys -> [1..Window -> Nat]]
    <3>1. \A k \in Keys, a \in 1..Window :
             (IF a = 1 THEN 0 ELSE accepted[k][a - 1]) \in Nat
      BY DEF TypeOK
    <3> QED
      BY <1>1, <3>1
  <2> QED
    BY <1>1, <2>1, <2>2, <2>3, <2>4 DEF TypeOK
<1>3. HoldsCurrent' /\ Unshared'
  BY <1>1 DEF HoldsCurrent, Unshared
<1>4. FreshWhileHeld'
  <2> SUFFICES ASSUME NEW r \in Requests, holds[r] # None
               PROVE  idle'[key[r]] <= rests'[r]
    BY <1>1 DEF FreshWhileHeld
  <2>1. key[r] \in Keys /\ idle[key[r]] \in Nat /\ rests[r] \in Nat
        /\ idle[key[r]] <= rests[r]
    BY DEF TypeOK, FreshWhileHeld
  <2> QED
    BY <1>1, <2>1 DEF Older
<1>5. FilledWhileIdle'
  <2> SUFFICES ASSUME NEW j \in Keys, limiters[j] # None
               PROVE  \/ parts'[limiters[j]] = Full
                      \/ idle'[j] <= MaxDelay
                      \/ parts'[limiters[j]] >= MaxAttempts * (idle'[j] - MaxDelay)
    BY <1>1 DEF FilledWhileIdle
  <2> DEFINE l == limiters[j]
             i == idle[j]
             p == parts[l]
  <2>1. l \in Limiters /\ l \notin Free /\ i \in Nat /\ p \in 0..Full
    <3>1. l \in Limiters /\ l \notin Free
      BY DEF TypeOK, Free
    <3>2. i \in 0..(Stale + 1) /\ p \in 0..Full
      BY <3>1 DEF TypeOK
    <3> QED
      BY <3>1, <3>2
  <2>2. parts'[l] = Refilled(p) /\ idle'[j] \in {i, i + 1} /\ idle'[j] \in Nat
    BY <1>1, <2>1 DEF Older
  <2>3. CASE Refilled(p) = Full
    BY <2>2, <2>3
  <2>4. CASE Refilled(p) = p + MaxAttempts /\ i <= MaxDelay /\ idle'[j] > MaxDelay
    <3>1. idle'[j] - MaxDelay = 1
      BY <2>1, <2>2, <2>4
    <3>2. MaxAttempts * (idle'[j] - MaxDelay) = MaxAttempts
      BY <3>1
    <3> QED
      BY <2>1, <2>2, <2>4, <3>2
  <2>5. CASE Refilled(p) = p + MaxAttempts /\ i > MaxDelay
    <3>1. CASE p = Full
      <4>1. Refilled(p) = Full
        BY <3>1, FullNat DEF Refilled
      <4> QED
        BY <2>2, <4>1
    <3>2. CASE p >= MaxAttempts * (i - MaxDelay)
      <4>1. i - MaxDelay \in Nat
        BY <2>1, <2>5
      <4>2. /\ MaxAttempts * (i - MaxDelay) \in Nat
            /\ MaxAttempts * ((i - MaxDelay) + 1) = MaxAttempts * (i - MaxDelay) + MaxAttempts
        BY <4>1, Products
      <4>3. idle'[j] - MaxDelay = i - MaxDelay \/ idle'[j] - MaxDelay = (i - MaxDelay) + 1
        BY <2>1, <2>2
      <4> QED
        BY <2>1, <2>2, <2>5, <3>2, <4>1, <4>2, <4>3
    <3> QED
      BY <2>1, <2>5, <3>1, <3>2 DEF FilledWhileIdle
  <2> QED
    BY <2>1, <2>2, <2>3, <2>4, <2>5, RefilledType
<1> QED
  BY <1>2, <1>3, <1>4, <1>5

LEMMA MapStep == MapSound /\ [Next]_vars => MapSound'
<1> SUFFICES ASSUME MapSound, [Next]_vars PROVE MapSound'
  OBVIOUS
<1>1. ASSUME NEW r \in Requests, NEW k \in Keys, GetLimiter(r, k) PROVE MapSound'
  BY <1>1, GetKeepsIInv
<1>2. ASSUME NEW r \in Requests, Accept(r) \/ Refuse(r) PROVE MapSound'
  <2>1. holds[r] # None /\ Through(r)
    BY <1>2 DEF Accept, Refuse
  <2> QED
    BY <1>2, <2>1, ThroughKeepsIInv
<1>3. CASE Cleanup
  BY <1>3, CleanupKeepsIInv
<1>4. CASE Tick
  BY <1>4, TickKeepsIInv
<1>5. CASE UNCHANGED vars
  BY <1>5 DEF vars, MapSound, TypeOK, HoldsCurrent, Unshared, FreshWhileHeld, FilledWhileIdle
<1> QED
  BY <1>1, <1>2, <1>3, <1>4, <1>5 DEF Next

-----------------------------------------------------------------------------
(* Each action is a step of the token bucket or leaves it as it is. *)

LEMMA GetStutters ==
    ASSUME MapSound, NEW r \in Requests, NEW k \in Keys, GetLimiter(r, k)
    PROVE  Buckets' = Buckets
<1> USE DEF MapSound
<1>1. PICK l \in Entry(k) :
         /\ limiters' = [limiters EXCEPT ![k] = l]
         /\ parts' = [parts EXCEPT ![l] = IF l \in Free THEN Full ELSE @]
  BY DEF GetLimiter
<1>2. /\ l \in Limiters /\ l # None
      /\ limiters[k] = None => l \in Free
      /\ limiters[k] # None => l = limiters[k] /\ l \notin Free
      /\ \A j \in Keys : limiters[j] = l => j = k
  BY EntryIs
<1>3. ASSUME NEW j \in Keys
      PROVE  (IF limiters'[j] = None THEN Full ELSE parts'[limiters'[j]])
                = IF limiters[j] = None THEN Full ELSE parts[limiters[j]]
  <2>1. CASE j = k
    BY <1>1, <1>2, <2>1 DEF TypeOK
  <2>2. CASE j # k
    <3>1. limiters'[j] = limiters[j] /\ limiters[j] # l
      BY <1>1, <1>2, <2>2 DEF TypeOK
    <3>2. limiters[j] # None => parts'[limiters[j]] = parts[limiters[j]]
      BY <1>1, <1>2, <3>1 DEF TypeOK
    <3> QED
      BY <3>1, <3>2
  <2> QED
    BY <2>1, <2>2
<1> QED
  BY <1>3 DEF Buckets

LEMMA AcceptPasses ==
    ASSUME MapSound, NEW r \in Requests, Accept(r)
    PROVE  Promise!Pass(key[r])
<1> USE DEF MapSound
<1> DEFINE k == key[r]
           m == holds[r]
<1>1. /\ m # None /\ parts[m] >= Window
      /\ parts' = [parts EXCEPT ![m] = @ - Window]
      /\ limiters' = limiters
  BY DEF Accept, Through
<1>2. k \in Keys /\ m \in Limiters /\ limiters[k] = m
  BY <1>1 DEF TypeOK, HoldsCurrent
<1>3. Buckets[k] = parts[m]
  BY <1>1, <1>2 DEF Buckets
<1>4. ASSUME NEW j \in Keys, j # k
      PROVE  limiters[j] # None => parts'[limiters[j]] = parts[limiters[j]]
  <2>1. limiters[j] # None => limiters[j] \in Limiters \ {m}
    BY <1>1, <1>2, <1>4 DEF Unshared, TypeOK
  <2> QED
    BY <1>1, <2>1 DEF TypeOK
<1>5. parts'[m] = parts[m] - Window
  BY <1>1, <1>2 DEF TypeOK
<1>6. Buckets' = [Buckets EXCEPT ![k] = @ - Window]
  BY <1>1, <1>2, <1>3, <1>4, <1>5 DEF Buckets
<1> QED
  BY <1>1, <1>3, <1>6 DEF Promise!Pass, Promise!Enough

LEMMA CleanupStutters ==
    ASSUME MapSound, Cleanup
    PROVE  Buckets' = Buckets
<1>1. /\ limiters' = [k \in Keys |-> IF Expired(k) THEN None ELSE limiters[k]]
      /\ parts' = parts
  BY DEF Cleanup
<1>2. \A k \in Keys : Expired(k) => limiters[k] # None /\ parts[limiters[k]] = Full
  BY EvictedFull DEF Expired
<1> QED
  BY <1>1, <1>2 DEF Buckets

LEMMA RefuseStutters ==
    ASSUME NEW r \in Requests, Refuse(r)
    PROVE  Buckets' = Buckets
BY DEF Refuse, Through, Buckets

LEMMA TickFills ==
    ASSUME MapSound, Tick
    PROVE  Promise!Second
<1> USE DEF MapSound
<1>1. /\ parts' = [l \in Limiters |-> IF l \in Free THEN Full ELSE Refilled(parts[l])]
      /\ limiters' = limiters
  BY DEF Tick
<1>2. ASSUME NEW k \in Keys
      PROVE  (IF limiters[k] = None THEN Full ELSE parts'[limiters[k]])
                = Refilled(IF limiters[k] = None THEN Full ELSE parts[limiters[k]])
  <2>1. CASE limiters[k] = None
    BY <2>1, FullNat DEF Refilled
  <2>2. CASE limiters[k] # None
    <3>1. limiters[k] \in Limiters /\ limiters[k] \notin Free
      BY <2>2 DEF TypeOK, Free
    <3> QED
      BY <1>1, <2>2, <3>1
  <2> QED
    BY <2>1, <2>2
<1>3. Buckets' = [k \in Keys |-> Refilled(Buckets[k])]
  BY <1>1, <1>2 DEF Buckets
<1>4. \A n : Promise!Refilled(n) = Refilled(n)
  BY DEF Promise!Refilled, Promise!Full, Refilled, Full
<1> QED
  BY <1>3, <1>4 DEF Promise!Second

LEMMA MapImplements == MapSound /\ [Next]_vars => [Promise!BucketNext]_Buckets
<1> SUFFICES ASSUME MapSound, [Next]_vars PROVE [Promise!BucketNext]_Buckets
  OBVIOUS
<1>1. ASSUME NEW r \in Requests, NEW k \in Keys, GetLimiter(r, k)
      PROVE  Buckets' = Buckets
  BY <1>1, GetStutters
<1>2. ASSUME NEW r \in Requests, Accept(r) PROVE Promise!BucketNext
  <2>1. key[r] \in Keys
    BY DEF MapSound, TypeOK
  <2> QED
    BY <1>2, <2>1, AcceptPasses DEF Promise!BucketNext
<1>3. ASSUME NEW r \in Requests, Refuse(r) PROVE Buckets' = Buckets
  BY <1>3, RefuseStutters
<1>4. CASE Cleanup
  BY <1>4, CleanupStutters
<1>5. CASE Tick
  BY <1>5, TickFills DEF Promise!BucketNext
<1>6. CASE UNCHANGED vars
  BY <1>6 DEF vars, Buckets
<1> QED
  BY <1>1, <1>2, <1>3, <1>4, <1>5, <1>6 DEF Next

-----------------------------------------------------------------------------
(* What a bucket lacks was let through. *)

LEMMA BucketsType == ASSUME MapSound, NEW k \in Keys PROVE Buckets[k] \in 0..Full
<1>1. parts \in [Limiters -> 0..Full] /\ limiters \in [Keys -> Limiters \cup {None}]
  BY DEF MapSound, TypeOK
<1>2. Buckets[k] = IF limiters[k] = None THEN Full ELSE parts[limiters[k]]
  BY DEF Buckets
<1>3. CASE limiters[k] = None
  BY <1>2, <1>3, FullNat
<1>4. CASE limiters[k] # None
  <2>1. limiters[k] \in Limiters
    BY <1>1, <1>4
  <2>2. parts[limiters[k]] \in 0..Full
    BY <1>1, <2>1
  <2> QED
    BY <1>2, <1>4, <2>2
<1> QED
  BY <1>3, <1>4

(* No more parts are owed over a seconds than a bucket holds. *)
LEMMA RefillFits ==
    ASSUME NEW a \in 1..Window
    PROVE  MaxAttempts * a \in Nat /\ MaxAttempts * a <= Full
<1>1. a \in Nat /\ a <= Window
  OBVIOUS
<1> QED
  BY <1>1, Products DEF Full

LEMMA AccountedInit == Init => Accounted
<1> SUFFICES ASSUME Init, NEW k \in Keys, NEW a \in 1..Window
             PROVE  Buckets[k] + Window * accepted[k][a] >= MaxAttempts * a
  BY DEF Accounted
<1>1. Buckets[k] = Full /\ accepted[k][a] = 0
  BY DEF Init, Buckets
<1> QED
  BY <1>1, FullNat, RefillFits

LEMMA AcceptAccounted ==
    ASSUME MapSound, Accounted, NEW r \in Requests, Accept(r)
    PROVE  Accounted'
<1> SUFFICES ASSUME NEW k \in Keys, NEW a \in 1..Window
             PROVE  Buckets'[k] + Window * accepted'[k][a] >= MaxAttempts * a
  BY DEF Accounted
<1>1. Buckets[k] + Window * accepted[k][a] >= MaxAttempts * a
  BY DEF Accounted
<1>2. /\ Buckets' = [Buckets EXCEPT ![key[r]] = @ - Window]
      /\ accepted' = [accepted EXCEPT ![key[r]] = [x \in 1..Window |-> accepted[key[r]][x] + 1]]
  BY AcceptPasses DEF Promise!Pass, Accept
<1>3. /\ accepted \in [Keys -> [1..Window -> Nat]] /\ accepted[k][a] \in Nat
      /\ DOMAIN Buckets = Keys /\ Buckets[k] \in Nat
  <2>1. accepted \in [Keys -> [1..Window -> Nat]]
    BY DEF MapSound, TypeOK
  <2>2. DOMAIN Buckets = Keys
    BY DEF Buckets
  <2> QED
    BY <2>1, <2>2, BucketsType, FullNat
<1>4. CASE k # key[r]
  BY <1>1, <1>2, <1>3, <1>4
<1>5. CASE k = key[r]
  <2>1. Buckets'[k] = Buckets[k] - Window /\ accepted'[k][a] = accepted[k][a] + 1
    BY <1>2, <1>3, <1>5
  <2>2. /\ Window * (accepted[k][a] + 1) = Window * accepted[k][a] + Window
        /\ Window * accepted[k][a] \in Nat
    BY <1>3, Products
  <2> QED
    BY <1>1, <1>3, <2>1, <2>2, RefillFits
<1> QED
  BY <1>4, <1>5

LEMMA TickAccounted ==
    ASSUME MapSound, Accounted, Tick
    PROVE  Accounted'
<1> SUFFICES ASSUME NEW k \in Keys, NEW a \in 1..Window
             PROVE  Buckets'[k] + Window * accepted'[k][a] >= MaxAttempts * a
  BY DEF Accounted
<1>1. /\ Buckets'[k] = Refilled(Buckets[k])
      /\ accepted'[k][a] = IF a = 1 THEN 0 ELSE accepted[k][a - 1]
  <2>1. Buckets' = [j \in Keys |-> Promise!Refilled(Buckets[j])]
    BY TickFills DEF Promise!Second
  <2>2. Promise!Refilled(Buckets[k]) = Refilled(Buckets[k])
    BY DEF Promise!Refilled, Promise!Full, Refilled, Full
  <2> QED
    BY <2>1, <2>2 DEF Tick
<1>2. Buckets[k] \in 0..Full
  BY BucketsType
<1>3. accepted'[k][a] \in Nat /\ Window * accepted'[k][a] \in Nat
  <2>1. accepted'[k][a] \in Nat
    BY <1>1 DEF MapSound, TypeOK
  <2> QED
    BY <2>1, Products
<1>4. CASE Refilled(Buckets[k]) = Full
  <2>1. Buckets'[k] = Full
    BY <1>1, <1>4
  <2>2. MaxAttempts * a \in Nat /\ MaxAttempts * a <= Full
    BY RefillFits
  <2> QED
    BY <1>3, <2>1, <2>2, FullNat
<1>5. CASE Refilled(Buckets[k]) = Buckets[k] + MaxAttempts /\ a = 1
  BY <1>1, <1>2, <1>3, <1>5, FullNat
<1>6. CASE Refilled(Buckets[k]) = Buckets[k] + MaxAttempts /\ a # 1
  <2>1. a - 1 \in 1..Window /\ a - 1 \in Nat /\ (a - 1) + 1 = a
    BY <1>6
  <2>2. Buckets[k] + Window * accepted[k][a - 1] >= MaxAttempts * (a - 1)
    BY <2>1 DEF Accounted
  <2>3. accepted[k][a - 1] \in Nat /\ Window * accepted[k][a - 1] \in Nat
    <3>1. accepted[k][a - 1] \in Nat
      BY <2>1 DEF MapSound, TypeOK
    <3> QED
      BY <3>1, Products
  <2>4. MaxAttempts * a = MaxAttempts * (a - 1) + MaxAttempts /\ MaxAttempts * (a - 1) \in Nat
    BY <2>1, Products
  <2>5. Buckets'[k] = Buckets[k] + MaxAttempts /\ accepted'[k][a] = accepted[k][a - 1]
    BY <1>1, <1>6
  <2> QED
    BY <1>2, <2>2, <2>3, <2>4, <2>5, FullNat
<1> QED
  BY <1>2, <1>4, <1>5, <1>6, RefilledType

LEMMA AccountedStep == IInv /\ [Next]_vars => Accounted'
<1> SUFFICES ASSUME MapSound, Accounted, [Next]_vars PROVE Accounted'
  BY DEF IInv
<1>1. ASSUME Buckets' = Buckets, accepted' = accepted PROVE Accounted'
  BY <1>1 DEF Accounted
<1>2. ASSUME NEW r \in Requests, NEW k \in Keys, GetLimiter(r, k) PROVE Accounted'
  BY <1>1, <1>2, GetStutters DEF GetLimiter
<1>3. ASSUME NEW r \in Requests, Accept(r) PROVE Accounted'
  BY <1>3, AcceptAccounted
<1>4. ASSUME NEW r \in Requests, Refuse(r) PROVE Accounted'
  BY <1>1, <1>4, RefuseStutters DEF Refuse
<1>5. CASE Cleanup
  BY <1>1, <1>5, CleanupStutters DEF Cleanup
<1>6. CASE Tick
  BY <1>6, TickAccounted
<1>7. CASE UNCHANGED vars
  <2>1. Buckets' = Buckets
    BY <1>7 DEF vars, Buckets
  <2> QED
    BY <1>1, <1>7, <2>1 DEF vars
<1> QED
  BY <1>2, <1>3, <1>4, <1>5, <1>6, <1>7 DEF Next

-----------------------------------------------------------------------------
(* What the invariant is for *)

(* The map is sound and every bucket accounted for, for any number of keys *)
(* and requests (ratelimit.go:34-55).                                      *)
THEOREM RateInvariant == Spec => []IInv
<1>1. Init => IInv
  BY MapInit, AccountedInit DEF IInv
<1>2. IInv /\ [Next]_vars => IInv'
  BY MapStep, AccountedStep DEF IInv
<1> QED
  BY <1>1, <1>2, PTL DEF Spec

(* The map of limiters, made on demand and evicted, asked outside the      *)
(* mutex, gives every key the bucket it was promised (ratelimit.go:34-61). *)
THEOREM RateImplements == Spec => ImplementsTokenBucket
<1>1. Init => Promise!BucketInit
  BY DEF Init, Promise!BucketInit, Promise!Full, Buckets, Full
<1>2. IInv /\ [Next]_vars => [Promise!BucketNext]_Buckets
  BY MapImplements DEF IInv
<1> QED
  BY <1>1, <1>2, RateInvariant, PTL DEF Spec, ImplementsTokenBucket, Promise!BucketSpec

(* A 429 goes to nobody who had less than MaxAttempts attempts let through *)
(* in the last window (ratelimit.go:61): his bucket would hold one.        *)
THEOREM RefusedCorrect == Spec => RefusedRightly
<1>1. IInv /\ [Next]_vars =>
         [\A r \in Requests :
             Refuse(r) => accepted[key[r]][Window] >= MaxAttempts]_vars
  <2> SUFFICES ASSUME MapSound, Accounted, NEW r \in Requests, Refuse(r)
               PROVE  accepted[key[r]][Window] >= MaxAttempts
    BY DEF IInv
  <2>1. PICK k \in Keys, n \in Nat, b \in Nat :
           k = key[r] /\ n = accepted[k][Window] /\ b = Buckets[k]
    <3>1. key[r] \in Keys /\ accepted[key[r]][Window] \in Nat
      BY DEF MapSound, TypeOK
    <3> QED
      BY <3>1, BucketsType, FullNat
  <2>2. b < Window
    BY <2>1 DEF Refuse, Buckets, MapSound, HoldsCurrent
  <2>3. b + Window * n >= MaxAttempts * Window
    BY <2>1 DEF Accounted
  <2>4. CASE n < MaxAttempts
    <3>1. n + 1 \in Nat /\ n + 1 <= MaxAttempts
      BY <2>4
    <3>2. Window * (n + 1) = Window * n + Window /\ Window * (n + 1) <= Window * MaxAttempts
      BY <3>1, Products
    <3>3. Window * MaxAttempts = MaxAttempts * Window
      OBVIOUS
    <3>4. Window * n \in Nat /\ MaxAttempts * Window \in Nat
      BY Products
    <3> QED
      BY <2>2, <2>3, <3>2, <3>3, <3>4
  <2> QED
    BY <2>1, <2>4
<1> QED
  BY <1>1, RateInvariant, PTL DEF Spec, RefusedRightly
=============================================================================
