---------------------------- MODULE RateLimiter ----------------------------
(***************************************************************************)
(* The fixed-window rate limiter of the HTTPS transport                    *)
(* (src/lib/rate-limit.js) under the calls the request pipeline makes      *)
(* (src/lib/http-handler.js): a request without a bearer is charged to its *)
(* address at once; a request with one holds a slot while its token is     *)
(* introspected, and the hold is committed when authentication fails and   *)
(* given back when it succeeds.  The limiter of verified principals is the *)
(* same code under check alone.                                            *)
(*                                                                         *)
(* A bucket keeps the time left in its window in place of the absolute     *)
(* resetAt: a window is over when none is left.                            *)
(***************************************************************************)
EXTENDS Naturals, FiniteSets

CONSTANTS
  Keys,      \* client addresses
  Bearers,   \* requests that can be in introspection at once: bounds the model
  Limit,     \* requests per window and key
  Cap,       \* maxKeys
  Window,    \* windowMs, in ticks of the clock
  Overflow,  \* OVERFLOW_KEY
  None

ASSUME LimiterAssumption ==
  /\ IsFiniteSet(Keys) /\ IsFiniteSet(Bearers)
  /\ Limit \in Nat \ {0} /\ Cap \in Nat \ {0} /\ Window \in Nat \ {0}
  /\ Overflow \notin Keys /\ None \notin Keys \cup {Overflow}
  /\ None \notin [count : 0..Limit, left : 0..Window]

VARIABLES
  buckets,   \* key -> its bucket, or None
  overflow,  \* the bucket shared by keys that found the map full, or None
  held,      \* inflight: target -> holds not settled yet
  hold       \* each bearer request: the key it came with and the target held

vars == <<buckets, overflow, held, hold>>

Targets == Keys \cup {Overflow}

Bucket == [count : 0..Limit, left : 0..Window]

Fresh == [count |-> 0, left |-> Window]

Live(b) == b # None /\ b.left > 0

Tracked(bs) == {k \in Keys : bs[k] # None}

Full(bs) == Cardinality(Tracked(bs)) >= Cap

---------------------------------------------------------------------------
(* bucketFor *)

PrunedM1 == [k \in Keys |-> IF Live(buckets[k]) THEN buckets[k] ELSE None]

\* prune: an expired bucket goes, unless holds keep it.
Pruned ==
  [k \in Keys |-> IF Live(buckets[k]) \/ held[k] > 0 THEN buckets[k] ELSE None]

\* A key with no bucket prunes a full map, unless the overflow bucket is live.
Room(key) ==
  IF key \notin Tracked(buckets) /\ ~Live(overflow) /\ Full(buckets)
  THEN Pruned ELSE buckets

SharesM1(key) == key \notin Tracked(buckets) /\ Full(Room(key))

\* Such a key is charged to the overflow bucket while that is live, or when
\* pruning left no room.
Shares(key) ==
  key \notin Tracked(buckets) /\ (Live(overflow) \/ Full(Room(key)))

TargetOf(key) == IF Shares(key) THEN Overflow ELSE key

Renewed(b) == IF Live(b) THEN b ELSE Fresh

\* The bucket a request is counted in: rolled in place when it has expired.
Located(key) == Renewed(IF Shares(key) THEN overflow ELSE buckets[key])

\* Store the bucket found for a key.
Store(key, b) ==
  IF Shares(key)
  THEN overflow' = b /\ buckets' = Room(key)
  ELSE buckets' = [Room(key) EXCEPT ![key] = b] /\ UNCHANGED overflow

Charged(b) == [b EXCEPT !.count = @ + 1]

HasSlotM1(b, target) == b.count < Limit

HasSlotM2(b, target) == b.count + held[target] <= Limit

HasSlot(b, target) == b.count + held[target] < Limit

---------------------------------------------------------------------------
(* The operations *)

\* A request without a bearer.
Check(key) ==
  /\ LET b == Located(key) IN
       Store(key, IF HasSlot(b, TargetOf(key)) THEN Charged(b) ELSE b)
  /\ UNCHANGED <<held, hold>>

\* A request with a bearer, before its introspection: refused here,
ReserveRefused(key) ==
  /\ ~HasSlot(Located(key), TargetOf(key))
  /\ Store(key, Located(key))
  /\ UNCHANGED <<held, hold>>

\* or it holds a slot while it awaits the issuer.
Reserve(q, key) ==
  /\ hold[q].target = None
  /\ HasSlot(Located(key), TargetOf(key))
  /\ Store(key, Located(key))
  /\ held' = [held EXCEPT ![TargetOf(key)] = @ + 1]
  /\ hold' = [hold EXCEPT ![q] = [key |-> key, target |-> TargetOf(key)]]

Settle(q) ==
  /\ held' = [held EXCEPT ![hold[q].target] = @ - 1]
  /\ hold' = [hold EXCEPT ![q] = [key |-> None, target |-> None]]

\* The bucket a committed hold charges: its target's, in that target's current
\* window.  consume is asked again, with the hold already settled.
Committed(q) ==
  LET b == IF hold[q].target = Overflow THEN Renewed(overflow) ELSE Located(hold[q].key)
  IN IF b.count + held[hold[q].target] - 1 < Limit THEN Charged(b) ELSE b

\* Authentication failed: the hold becomes a charge.
Commit(q) ==
  /\ hold[q].target # None
  /\ IF hold[q].target = Overflow
     THEN overflow' = Committed(q) /\ UNCHANGED buckets
     ELSE Store(hold[q].key, Committed(q))
  /\ Settle(q)

ReleasedM1(key) == buckets

\* release drops a bucket nothing was charged to and nobody else holds.
Released(key) ==
  [buckets EXCEPT ![key] = IF @.count = 0 /\ held[key] = 1 THEN None ELSE @]

\* Authentication succeeded.
Release(q) ==
  /\ hold[q].target # None
  /\ buckets' = IF hold[q].target = Overflow THEN buckets ELSE Released(hold[q].key)
  /\ Settle(q)
  /\ UNCHANGED overflow

\* peek: looks a key up, pruning a full map on the way.
Peek(key) ==
  /\ buckets' = Room(key)
  /\ UNCHANGED <<overflow, held, hold>>

Aged(b) == IF Live(b) THEN [b EXCEPT !.left = @ - 1] ELSE b

Tick ==
  /\ buckets' = [k \in Keys |-> Aged(buckets[k])]
  /\ overflow' = Aged(overflow)
  /\ UNCHANGED <<held, hold>>

---------------------------------------------------------------------------
(* Specification *)

Init ==
  /\ buckets = [k \in Keys |-> None]
  /\ overflow = None
  /\ held = [t \in Targets |-> 0]
  /\ hold = [q \in Bearers |-> [key |-> None, target |-> None]]

Next ==
  \/ \E key \in Keys : Check(key) \/ ReserveRefused(key) \/ Peek(key)
  \/ \E q \in Bearers, key \in Keys : Reserve(q, key)
  \/ \E q \in Bearers : Commit(q) \/ Release(q)
  \/ Tick

Spec == Init /\ [][Next]_vars

---------------------------------------------------------------------------
(* Properties *)

TypeOK ==
  /\ buckets \in [Keys -> Bucket \cup {None}]
  /\ overflow \in Bucket \cup {None}
  /\ held \in [Targets -> Nat]
  /\ hold \in [Bearers -> [key : Keys \cup {None}, target : Targets \cup {None}]]

\* What a target has been charged and what is held on it never exceed the
\* limit together, also when a window rolls under open holds: a concurrent
\* burst of bearers cannot all observe a free bucket, and a failed
\* authentication always finds a slot to be charged to.
WithinLimit ==
  /\ \A k \in Tracked(buckets) : buckets[k].count + held[k] <= Limit
  /\ held[Overflow] + (IF overflow = None THEN 0 ELSE overflow.count) <= Limit

\* The map never outgrows its cap, whatever addresses are sprayed, and an open
\* hold has its bucket, so the in-flight map stays within the cap too.
BoundedState ==
  /\ Cardinality(Tracked(buckets)) <= Cap
  /\ \A k \in Keys : held[k] > 0 => k \in Tracked(buckets)
  /\ held[Overflow] > 0 => overflow # None

\* A verified bearer leaves no trace: a tracked key was charged, or has a hold
\* open.  So verified addresses cannot fill the map.
OnlyChargedKeysAreKept ==
  \A k \in Tracked(buckets) : buckets[k].count > 0 \/ held[k] > 0

\* The count a key is judged by, for a window that still runs.
Exhausted(key) ==
  IF key \in Tracked(buckets)
  THEN Live(buckets[key]) /\ buckets[key].count = Limit
  ELSE Live(overflow) /\ overflow.count = Limit

WindowOf(key) == IF key \in Tracked(buckets) THEN buckets[key] ELSE overflow

\* A key that was charged its whole window is denied until that window ends:
\* neither a spray of other keys, nor room that an expired bucket makes, nor a released
\* hold hands it a fresh quota.
DeniedUntilReset ==
  [][\A key \in Keys :
       Exhausted(key) => Exhausted(key)' \/ WindowOf(key).left = 1]_vars

============================================================================
