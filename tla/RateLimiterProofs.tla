------------------------- MODULE RateLimiterProofs -------------------------
(***************************************************************************)
(* The bounds of the rate limiter, for every limit, cap, window, set of    *)
(* keys and number of requests in introspection.                           *)
(*                                                                         *)
(* The inductive invariant LimiterInv adds to the properties what a settle *)
(* relies on: the in-flight counter of a target is the number of holds     *)
(* taken on it, and a hold is on its own key or on the overflow bucket.    *)
(* So a hold that settles is counted, and its bucket is still there.       *)
(***************************************************************************)
EXTENDS RateLimiter, FiniteSetTheorems, TLAPS

HoldsOn(t) == {q \in Bearers : hold[q].target = t}

HeldIsCounted == \A t \in Targets : held[t] = Cardinality(HoldsOn(t))

HoldsOnOwnKey ==
  \A q \in Bearers : hold[q].target # None =>
    hold[q].key \in Keys /\ hold[q].target \in {hold[q].key, Overflow}

LimiterInv ==
  /\ TypeOK
  /\ HeldIsCounted
  /\ HoldsOnOwnKey
  /\ WithinLimit
  /\ BoundedState
  /\ OnlyChargedKeysAreKept

---------------------------------------------------------------------------
(* Operators *)

\* The parameters are positive numbers.
LEMMA Limits == Limit \in Nat /\ Limit > 0 /\ Cap \in Nat /\ Cap > 0 /\ Window \in Nat /\ Window > 0
BY LimiterAssumption DEF LimiterAssumption

\* A new bucket is one, with nothing charged.
LEMMA FreshIsBucket == Fresh \in Bucket /\ Fresh.count = 0 /\ Fresh # None
BY LimiterAssumption DEF LimiterAssumption, Fresh, Bucket

\* What Room keeps of the map.
LEMMA RoomKeeps ==
  ASSUME TypeOK, NEW key \in Keys
  PROVE  /\ Room(key) \in [Keys -> Bucket \cup {None}]
         /\ \A k \in Keys : Room(key)[k] \in {buckets[k], None}
         /\ \A k \in Keys : held[k] > 0 => Room(key)[k] = buckets[k]
         /\ key \in Tracked(buckets) => Room(key) = buckets
BY DEF TypeOK, Room, Pruned, Targets

\* The bucket found for a key: no fuller than before, and holds still fit.
LEMMA LocatedFits ==
  ASSUME LimiterInv, NEW key \in Keys
  PROVE  /\ TargetOf(key) \in Targets
         /\ TargetOf(key) = IF Shares(key) THEN Overflow ELSE key
         /\ Located(key) \in Bucket
         /\ Located(key).count + held[TargetOf(key)] <= Limit
<1> USE DEF LimiterInv
<1>1. TargetOf(key) = IF Shares(key) THEN Overflow ELSE key
  BY DEF TargetOf
<1>2. TargetOf(key) \in Targets
  BY <1>1 DEF Targets
<1>3. CASE Shares(key)
  <2>1. overflow \in Bucket \cup {None} /\ held[Overflow] \in Nat /\ held[Overflow] <= Limit
    BY Limits DEF TypeOK, WithinLimit, Targets, Bucket
  <2>2. Located(key) = IF Live(overflow) THEN overflow ELSE Fresh
    BY <1>3 DEF Located, Renewed
  <2>3. overflow # None => overflow.count + held[Overflow] <= Limit
    BY <2>1 DEF WithinLimit, Bucket
  <2> QED BY <1>1, <1>2, <1>3, <2>1, <2>2, <2>3, FreshIsBucket, Limits DEF Live
<1>4. CASE ~Shares(key)
  <2>1. buckets[key] \in Bucket \cup {None} /\ held[key] \in Nat
    BY DEF TypeOK, Targets
  <2>2. Located(key) = IF Live(buckets[key]) THEN buckets[key] ELSE Fresh
    BY <1>4 DEF Located, Renewed
  <2>3. buckets[key] # None => buckets[key].count + held[key] <= Limit
    BY DEF WithinLimit, Tracked
  <2>4. buckets[key] = None => held[key] = 0
    BY <2>1 DEF BoundedState, Tracked
  <2>5. held[key] <= Limit
    BY <2>1, <2>3, <2>4, Limits DEF Bucket
  <2> QED BY <1>1, <1>2, <1>4, <2>1, <2>2, <2>3, <2>5, FreshIsBucket, Limits DEF Live
<1> QED BY <1>3, <1>4

\* The part of the invariant that reads buckets and in-flight counters.
BucketsFit ==
  /\ buckets \in [Keys -> Bucket \cup {None}]
  /\ overflow \in Bucket \cup {None}
  /\ WithinLimit
  /\ BoundedState
  /\ OnlyChargedKeysAreKept

\* Storing a bucket for a key keeps every bound, whatever happens to the
\* in-flight counter of its target, as long as the two still fit.
LEMMA StoreFits ==
  ASSUME LimiterInv, NEW key \in Keys, NEW b \in Bucket, Store(key, b),
         held' \in [Targets -> Nat],
         \A t \in Targets : t # TargetOf(key) => held'[t] = held[t],
         b.count + held'[TargetOf(key)] <= Limit,
         b.count > 0 \/ held'[TargetOf(key)] > 0
  PROVE  BucketsFit'
<1> USE DEF LimiterInv
<1>k. Overflow \notin Keys /\ None \notin Bucket /\ IsFiniteSet(Keys)
  BY LimiterAssumption DEF LimiterAssumption, Bucket
<1>t. /\ buckets \in [Keys -> Bucket \cup {None}] /\ overflow \in Bucket \cup {None}
      /\ held \in [Targets -> Nat]
  BY DEF TypeOK
<1>0. IsFiniteSet(Tracked(buckets)) /\ Tracked(buckets) \subseteq Keys
  BY <1>k, FS_Subset DEF Tracked
<1>1. /\ Room(key) \in [Keys -> Bucket \cup {None}]
      /\ \A k \in Keys : Room(key)[k] \in {buckets[k], None}
      /\ \A k \in Keys : held[k] > 0 => Room(key)[k] = buckets[k]
      /\ key \in Tracked(buckets) => Room(key) = buckets
  BY RoomKeeps
<1>2. Tracked(Room(key)) \subseteq Tracked(buckets)
  BY <1>1 DEF Tracked
<1>3. /\ IsFiniteSet(Tracked(Room(key)))
      /\ Cardinality(Tracked(Room(key))) \in Nat
      /\ Cardinality(Tracked(Room(key))) <= Cap
  <2>1. Cardinality(Tracked(buckets)) <= Cap /\ Cardinality(Tracked(buckets)) \in Nat
    BY <1>0, FS_CardinalityType DEF BoundedState
  <2>2. /\ IsFiniteSet(Tracked(Room(key)))
        /\ Cardinality(Tracked(Room(key))) <= Cardinality(Tracked(buckets))
    BY <1>0, <1>2, FS_Subset
  <2>3. Cardinality(Tracked(Room(key))) \in Nat
    BY <2>2, FS_CardinalityType
  <2> QED BY <2>1, <2>2, <2>3, Limits
<1>4. CASE Shares(key)
  <2>1. /\ TargetOf(key) = Overflow
        /\ overflow' = b /\ buckets' = Room(key)
    BY <1>4 DEF TargetOf, Store
  <2>2. \A k \in Keys : held'[k] = held[k]
    BY <1>k, <2>1 DEF Targets
  <2>3. WithinLimit'
    <3>1. \A k \in Tracked(buckets') : buckets'[k].count + held'[k] <= Limit
      BY <1>1, <2>1, <2>2 DEF WithinLimit, Tracked
    <3>2. overflow' # None /\ overflow'.count \in Nat /\ held'[Overflow] \in Nat
      BY <1>k, <2>1, Limits DEF Bucket, Targets
    <3>3. overflow'.count + held'[Overflow] <= Limit
      BY <2>1
    <3> QED BY <3>1, <3>2, <3>3 DEF WithinLimit
  <2>4. BoundedState'
    BY <1>1, <1>3, <1>k, <2>1, <2>2 DEF BoundedState, Tracked
  <2>5. OnlyChargedKeysAreKept'
    BY <1>1, <1>2, <2>1, <2>2 DEF OnlyChargedKeysAreKept, Tracked
  <2> QED BY <1>1, <2>1, <2>3, <2>4, <2>5 DEF BucketsFit
<1>5. CASE ~Shares(key)
  <2>1. /\ TargetOf(key) = key
        /\ overflow' = overflow /\ buckets' = [Room(key) EXCEPT ![key] = b]
    BY <1>5 DEF TargetOf, Store
  <2>2. /\ buckets'[key] = b
        /\ \A k \in Keys \ {key} : buckets'[k] = Room(key)[k]
        /\ buckets' \in [Keys -> Bucket \cup {None}]
    BY <1>1, <2>1
  <2>3. held'[Overflow] = held[Overflow] /\ \A k \in Keys \ {key} : held'[k] = held[k]
    BY <1>k, <2>1 DEF Targets
  <2>4. Tracked(buckets') = Tracked(Room(key)) \cup {key}
    BY <1>k, <2>2 DEF Tracked
  <2>5. Cardinality(Tracked(buckets')) <= Cap
    <3>1. CASE key \in Tracked(buckets)
      <4>1. Tracked(buckets') = Tracked(Room(key))
        BY <1>1, <2>4, <3>1
      <4> QED BY <1>3, <4>1
    <3>2. CASE key \notin Tracked(buckets)
      <4>1. Cardinality(Tracked(Room(key))) < Cap
        BY <1>3, <1>5, <3>2, Limits DEF Shares, Full
      <4>2. Cardinality(Tracked(Room(key)) \cup {key}) \in
              {Cardinality(Tracked(Room(key))), Cardinality(Tracked(Room(key))) + 1}
        BY <1>3, FS_AddElement
      <4> QED BY <1>3, <2>4, <4>1, <4>2, Limits
    <3> QED BY <3>1, <3>2
  <2>6. WithinLimit'
    <3>1. ASSUME NEW k \in Tracked(buckets') PROVE buckets'[k].count + held'[k] <= Limit
      <4>1. CASE k = key
        BY <2>1, <2>2, <4>1
      <4>2. CASE k # key
        BY <1>1, <2>2, <2>3, <3>1, <4>2 DEF WithinLimit, Tracked
      <4> QED BY <4>1, <4>2
    <3> QED BY <2>1, <2>3, <3>1 DEF WithinLimit
  <2>7. BoundedState'
    <3>1. ASSUME NEW k \in Keys, held'[k] > 0 PROVE k \in Tracked(buckets')
      BY <1>1, <2>3, <2>4, <3>1 DEF BoundedState, Tracked
    <3> QED BY <2>1, <2>3, <2>5, <3>1 DEF BoundedState
  <2>8. OnlyChargedKeysAreKept'
    <3>1. ASSUME NEW k \in Tracked(buckets') PROVE buckets'[k].count > 0 \/ held'[k] > 0
      <4>1. CASE k = key
        BY <2>1, <2>2, <4>1
      <4>2. CASE k # key
        BY <1>1, <2>2, <2>3, <3>1, <4>2 DEF OnlyChargedKeysAreKept, Tracked
      <4> QED BY <4>1, <4>2
    <3> QED BY <3>1 DEF OnlyChargedKeysAreKept
  <2> QED BY <1>t, <2>1, <2>2, <2>6, <2>7, <2>8 DEF BucketsFit
<1> QED BY <1>4, <1>5

---------------------------------------------------------------------------
(* Steps *)

Slot == [key : Keys \cup {None}, target : Targets \cup {None}]

\* The bookkeeping part of the invariant.
HoldsFit ==
  /\ held \in [Targets -> Nat]
  /\ hold \in [Bearers -> Slot]
  /\ HeldIsCounted
  /\ HoldsOnOwnKey

\* The invariant splits into what is said of the buckets and of the holds.
LEMMA InvParts ==
  /\ LimiterInv <=> BucketsFit /\ HoldsFit
  /\ LimiterInv' <=> BucketsFit' /\ HoldsFit'
BY DEF LimiterInv, BucketsFit, HoldsFit, TypeOK, Slot

\* A hold that settles was counted.
LEMMA SettleCounts ==
  ASSUME LimiterInv, NEW q \in Bearers, hold[q].target # None, Settle(q)
  PROVE  /\ hold[q].target \in Targets /\ held[hold[q].target] > 0
         /\ held'[hold[q].target] = held[hold[q].target] - 1
         /\ \A t \in Targets : t # hold[q].target => held'[t] = held[t]
         /\ HoldsFit'
<1> DEFINE target == hold[q].target
<1> USE DEF LimiterInv
<1>1. target \in Targets /\ held[target] \in Nat /\ held \in [Targets -> Nat]
  BY DEF TypeOK
<1>2. IsFiniteSet(HoldsOn(target)) /\ q \in HoldsOn(target)
  BY LimiterAssumption, FS_Subset DEF LimiterAssumption, HoldsOn
<1>3. /\ Cardinality(HoldsOn(target)) = held[target]
      /\ Cardinality(HoldsOn(target)) # 0
      /\ Cardinality(HoldsOn(target) \ {q}) = held[target] - 1
  BY <1>1, <1>2, FS_EmptySet, FS_RemoveElement DEF HeldIsCounted
<1>4. held[target] > 0
  BY <1>1, <1>3
<1>5. /\ held' = [held EXCEPT ![target] = @ - 1]
      /\ hold' = [hold EXCEPT ![q] = [key |-> None, target |-> None]]
  BY DEF Settle
<1>6. \A x \in Bearers : hold'[x] = IF x = q THEN [key |-> None, target |-> None] ELSE hold[x]
  BY <1>5 DEF TypeOK
<1>n. None \notin Targets
  BY LimiterAssumption DEF LimiterAssumption, Targets
<1> HIDE DEF target
<1>7. /\ held'[target] = held[target] - 1
      /\ \A t \in Targets : t # target => held'[t] = held[t]
      /\ held' \in [Targets -> Nat]
  BY <1>1, <1>4, <1>5
<1>8. \A t \in Targets : HoldsOn(t)' = IF t = target THEN HoldsOn(t) \ {q} ELSE HoldsOn(t)
  BY <1>6, <1>n DEF HoldsOn, target
<1>9. HeldIsCounted'
  <2> SUFFICES ASSUME NEW t \in Targets PROVE held'[t] = Cardinality(HoldsOn(t)')
    BY DEF HeldIsCounted
  <2>1. CASE t = target
    BY <1>3, <1>7, <1>8, <2>1
  <2>2. CASE t # target
    BY <1>7, <1>8, <2>2 DEF HeldIsCounted
  <2> QED BY <2>1, <2>2
<1>10. HoldsOnOwnKey'
  BY <1>6 DEF HoldsOnOwnKey
<1>11. hold' \in [Bearers -> Slot]
  BY <1>5 DEF TypeOK, Slot
<1> QED BY <1>1, <1>4, <1>7, <1>9, <1>10, <1>11 DEF HoldsFit, target

\* A step that leaves the holds alone.
LEMMA SameHolds ==
  ASSUME LimiterInv, UNCHANGED <<held, hold>>
  PROVE  HoldsFit'
<1>1. \A t \in Targets : HoldsOn(t)' = HoldsOn(t)
  BY DEF HoldsOn
<1> QED BY <1>1, InvParts DEF HoldsFit, HeldIsCounted, HoldsOnOwnKey

\* check: an unauthenticated request is counted, or refused.
LEMMA CheckStep ==
  ASSUME LimiterInv, NEW key \in Keys, Check(key)
  PROVE  LimiterInv'
<1> DEFINE b == Located(key)
           target == TargetOf(key)
<1>1. /\ b \in Bucket /\ b.count \in Nat /\ target \in Targets
      /\ held \in [Targets -> Nat] /\ held[target] \in Nat
      /\ b.count + held[target] <= Limit
  BY LocatedFits, Limits DEF LimiterInv, TypeOK, Bucket
<1>2. held' = held
  BY DEF Check
<1>3. CASE HasSlot(b, target)
  <2>1. b.count + held[target] < Limit
    BY <1>3 DEF HasSlot
  <2>2. Charged(b) \in Bucket /\ Charged(b).count = b.count + 1
    <3> HIDE DEF b
    <3> QED BY <1>1, <2>1, Limits DEF Charged, Bucket
  <2>3. Store(key, Charged(b))
    BY <1>3 DEF Check
  <2>4. Charged(b).count + held'[target] <= Limit /\ Charged(b).count > 0
    BY <1>1, <1>2, <2>1, <2>2, Limits
  <2> HIDE DEF b
  <2>5. BucketsFit'
    BY <1>1, <1>2, <2>2, <2>3, <2>4, StoreFits
  <2> QED BY <2>5, SameHolds, InvParts DEF Check
<1>4. CASE ~HasSlot(b, target)
  <2>1. b.count > 0 \/ held[target] > 0
    BY <1>1, <1>4, Limits DEF HasSlot
  <2>2. Store(key, b)
    BY <1>4 DEF Check
  <2> HIDE DEF b
  <2>3. BucketsFit'
    BY <1>1, <1>2, <2>1, <2>2, StoreFits
  <2> QED BY <2>3, SameHolds, InvParts DEF Check
<1> QED BY <1>3, <1>4

\* reserve, refused: it stores the bucket it found and holds nothing.
LEMMA ReserveRefusedStep ==
  ASSUME LimiterInv, NEW key \in Keys, ReserveRefused(key)
  PROVE  LimiterInv'
<1>1. /\ Located(key) \in Bucket /\ Located(key).count \in Nat
      /\ held \in [Targets -> Nat] /\ held[TargetOf(key)] \in Nat
      /\ Located(key).count + held[TargetOf(key)] <= Limit
  BY LocatedFits, Limits DEF LimiterInv, TypeOK, Bucket
<1>2. Located(key).count > 0 \/ held[TargetOf(key)] > 0
  BY <1>1, Limits DEF ReserveRefused, HasSlot
<1>3. BucketsFit'
  BY <1>1, <1>2, StoreFits DEF ReserveRefused
<1> QED BY <1>3, SameHolds, InvParts DEF ReserveRefused

\* reserve, granted: the slot it takes was free next to the other holds.
LEMMA ReserveStep ==
  ASSUME LimiterInv, NEW q \in Bearers, NEW key \in Keys, Reserve(q, key)
  PROVE  LimiterInv'
<1> DEFINE target == TargetOf(key)
<1>1. /\ Located(key) \in Bucket /\ Located(key).count \in Nat
      /\ target \in Targets /\ target \in {key, Overflow}
      /\ held \in [Targets -> Nat] /\ held[target] \in Nat
      /\ hold \in [Bearers -> Slot]
  BY LocatedFits, Limits DEF LimiterInv, TypeOK, Bucket, Slot
<1>2. /\ held' = [held EXCEPT ![target] = @ + 1]
      /\ hold' = [hold EXCEPT ![q] = [key |-> key, target |-> target]]
      /\ Store(key, Located(key))
      /\ Located(key).count + held[target] < Limit
      /\ hold[q].target = None
  BY DEF Reserve, HasSlot
<1>n. None \notin Targets
  BY LimiterAssumption DEF LimiterAssumption, Targets
<1>3. /\ held' \in [Targets -> Nat]
      /\ held'[target] = held[target] + 1
      /\ \A t \in Targets : t # target => held'[t] = held[t]
  <2> HIDE DEF target
  <2> QED BY <1>1, <1>2
<1>4. BucketsFit'
  <2>1. Located(key).count + held'[target] <= Limit /\ held'[target] > 0
    BY <1>1, <1>2, <1>3, Limits
  <2> QED BY <1>1, <1>2, <1>3, <2>1, StoreFits
<1>5. HoldsFit'
  <2>1. \A x \in Bearers : hold'[x] = IF x = q THEN [key |-> key, target |-> target] ELSE hold[x]
    BY <1>1, <1>2
  <2>2. hold' \in [Bearers -> Slot]
    BY <1>1, <1>2 DEF Slot
  <2>3. \A t \in Targets : HoldsOn(t)' = IF t = target THEN HoldsOn(t) \cup {q} ELSE HoldsOn(t)
    BY <1>2, <1>n, <2>1 DEF HoldsOn
  <2>4. IsFiniteSet(HoldsOn(target)) /\ q \notin HoldsOn(target)
    BY <1>1, <1>2, <1>n, LimiterAssumption, FS_Subset DEF LimiterAssumption, HoldsOn
  <2>5. Cardinality(HoldsOn(target) \cup {q}) = held[target] + 1
    BY <1>1, <2>4, FS_AddElement DEF LimiterInv, HeldIsCounted
  <2>6. HeldIsCounted'
    <3> SUFFICES ASSUME NEW t \in Targets PROVE held'[t] = Cardinality(HoldsOn(t)')
      BY DEF HeldIsCounted
    <3>1. CASE t = target
      BY <1>3, <2>3, <2>5, <3>1
    <3>2. CASE t # target
      BY <1>3, <2>3, <3>2 DEF LimiterInv, HeldIsCounted
    <3> QED BY <3>1, <3>2
  <2>7. HoldsOnOwnKey'
    BY <1>1, <2>1 DEF LimiterInv, HoldsOnOwnKey
  <2> QED BY <1>3, <2>2, <2>6, <2>7 DEF HoldsFit
<1> QED BY <1>4, <1>5, InvParts

\* A step that changes in-flight counters and the overflow bucket alone.
LEMMA OverflowFits ==
  ASSUME LimiterInv, held' \in [Targets -> Nat], buckets' = buckets,
         \A t \in Targets : t # Overflow => held'[t] = held[t],
         overflow' \in Bucket, overflow'.count + held'[Overflow] <= Limit
  PROVE  BucketsFit'
<1>1. \A k \in Keys : held'[k] = held[k]
  BY LimiterAssumption DEF LimiterAssumption, Targets
<1>2. overflow' # None /\ overflow'.count \in Nat /\ held'[Overflow] \in Nat
  BY LimiterAssumption, Limits DEF LimiterAssumption, Bucket, Targets
<1>3. Tracked(buckets') = Tracked(buckets) /\ Tracked(buckets) \subseteq Keys
  BY DEF Tracked
<1> QED
  BY <1>1, <1>2, <1>3
     DEF BucketsFit, LimiterInv, TypeOK, WithinLimit, BoundedState, OnlyChargedKeysAreKept

\* commit: the hold it settles leaves room for the charge it makes.
LEMMA CommitStep ==
  ASSUME LimiterInv, NEW q \in Bearers, Commit(q)
  PROVE  LimiterInv'
<1> DEFINE target == hold[q].target
           key == hold[q].key
<1>1. /\ target \in Targets /\ held[target] > 0
      /\ held'[target] = held[target] - 1
      /\ \A t \in Targets : t # target => held'[t] = held[t]
      /\ HoldsFit'
  BY SettleCounts DEF Commit
<1>2. held \in [Targets -> Nat] /\ held[target] \in Nat /\ held' \in [Targets -> Nat]
  BY <1>1 DEF LimiterInv, TypeOK, HoldsFit
<1>3. key \in Keys /\ target \in {key, Overflow}
  BY DEF Commit, LimiterInv, HoldsOnOwnKey
<1>4. ASSUME NEW b \in Bucket, b.count + held[target] <= Limit
      PROVE  /\ b.count \in Nat
             /\ b.count + held[target] - 1 < Limit
             /\ Charged(b) \in Bucket
             /\ Charged(b).count > 0
             /\ Charged(b).count + held'[target] <= Limit
  <2> HIDE DEF target
  <2>1. b.count \in Nat
    BY Limits DEF Bucket
  <2>2. b.count + held[target] - 1 < Limit /\ b.count + 1 <= Limit
    BY <1>1, <1>2, <1>4, <2>1, Limits
  <2>3. Charged(b).count = b.count + 1 /\ Charged(b) \in Bucket
    BY <2>1, <2>2, Limits DEF Charged, Bucket
  <2> QED BY <1>1, <1>2, <1>4, <2>1, <2>2, <2>3, Limits
<1>5. CASE target = Overflow
  <2>1. Renewed(overflow) \in Bucket /\ Renewed(overflow).count + held[target] <= Limit
    <3>1. overflow \in Bucket \cup {None}
      BY DEF LimiterInv, TypeOK
    <3>2. held[target] + (IF overflow = None THEN 0 ELSE overflow.count) <= Limit
      BY <1>5 DEF LimiterInv, WithinLimit
    <3>3. overflow # None => overflow.count \in Nat
      BY <3>1, Limits DEF Bucket
    <3>4. Renewed(overflow) = IF Live(overflow) THEN overflow ELSE Fresh
      BY DEF Renewed
    <3>5. CASE Live(overflow)
      <4>1. overflow # None
        BY <3>5 DEF Live
      <4>2. Renewed(overflow) = overflow
        BY <3>4, <3>5
      <4> HIDE DEF target
      <4> QED BY <1>2, <3>1, <3>2, <3>3, <4>1, <4>2, Limits
    <3>6. CASE ~Live(overflow)
      <4>1. Renewed(overflow) = Fresh
        BY <3>4, <3>6
      <4> HIDE DEF target
      <4> QED BY <1>2, <3>1, <3>2, <3>3, <4>1, FreshIsBucket, Limits
    <3> QED BY <3>5, <3>6
  <2>2. overflow' = Charged(Renewed(overflow)) /\ buckets' = buckets
    BY <1>4, <1>5, <2>1 DEF Commit, Committed
  <2>3. overflow' \in Bucket /\ overflow'.count + held'[Overflow] <= Limit
    BY <1>4, <1>5, <2>1, <2>2
  <2>4. BucketsFit'
    BY <1>1, <1>2, <1>5, <2>2, <2>3, OverflowFits
  <2> QED BY <1>1, <2>4, InvParts
<1>6. CASE target # Overflow
  <2>1. target = key
    BY <1>3, <1>6
  <2>2. key \in Tracked(buckets)
    BY <1>1, <1>3, <2>1 DEF LimiterInv, BoundedState
  <2>3. TargetOf(key) = key
    BY <2>2 DEF TargetOf, Shares
  <2>4. Located(key) \in Bucket /\ Located(key).count + held[target] <= Limit
    BY <1>3, <2>1, <2>3, LocatedFits
  <2>5. Store(key, Charged(Located(key)))
    BY <1>4, <1>6, <2>4 DEF Commit, Committed
  <2>6. /\ Charged(Located(key)) \in Bucket
        /\ Charged(Located(key)).count > 0
        /\ Charged(Located(key)).count + held'[TargetOf(key)] <= Limit
    BY <1>4, <2>1, <2>3, <2>4
  <2>7. \A t \in Targets : t # TargetOf(key) => held'[t] = held[t]
    BY <1>1, <2>1, <2>3
  <2> HIDE DEF target, key
  <2>8. BucketsFit'
    BY <1>2, <1>3, <2>5, <2>6, <2>7, StoreFits
  <2> QED BY <1>1, <2>8, InvParts
<1> QED BY <1>5, <1>6

\* A step that only drops buckets: none that is held, none of another bucket.
LEMMA DropFits ==
  ASSUME LimiterInv, held' \in [Targets -> Nat], overflow' = overflow,
         buckets' \in [Keys -> Bucket \cup {None}],
         \A k \in Keys : buckets'[k] \in {buckets[k], None},
         \A t \in Targets : held'[t] <= held[t],
         \A k \in Keys : held'[k] > 0 => buckets'[k] = buckets[k],
         \A k \in Tracked(buckets') : buckets'[k].count > 0 \/ held'[k] > 0
  PROVE  BucketsFit'
<1> USE DEF LimiterInv
<1>k. Overflow \in Targets /\ Keys \subseteq Targets /\ IsFiniteSet(Keys)
  BY LimiterAssumption DEF LimiterAssumption, Targets
<1>t. /\ buckets \in [Keys -> Bucket \cup {None}] /\ overflow \in Bucket \cup {None}
      /\ held \in [Targets -> Nat]
  BY DEF TypeOK
<1>1. /\ Tracked(buckets') \subseteq Tracked(buckets)
      /\ \A k \in Tracked(buckets') : buckets'[k] = buckets[k]
  BY DEF Tracked
<1>2. Cardinality(Tracked(buckets')) <= Cap
  <2>1. IsFiniteSet(Tracked(buckets))
    BY <1>k, FS_Subset DEF Tracked
  <2>2. Cardinality(Tracked(buckets')) <= Cardinality(Tracked(buckets))
    BY <1>1, <2>1, FS_Subset
  <2>3. /\ Cardinality(Tracked(buckets')) \in Nat
        /\ Cardinality(Tracked(buckets)) \in Nat
    BY <1>1, <2>1, FS_Subset, FS_CardinalityType
  <2> QED BY <2>2, <2>3, Limits DEF BoundedState
<1>3. WithinLimit'
  <2>1. ASSUME NEW k \in Tracked(buckets') PROVE buckets'[k].count + held'[k] <= Limit
    <3>1. k \in Keys /\ k \in Tracked(buckets) /\ buckets'[k] = buckets[k]
      BY <1>1, <2>1 DEF Tracked
    <3>2. buckets[k].count \in Nat /\ held[k] \in Nat /\ held'[k] \in Nat
      BY <1>k, <1>t, <3>1, Limits DEF Tracked, Bucket
    <3>3. buckets[k].count + held[k] <= Limit /\ held'[k] <= held[k]
      BY <1>k, <3>1 DEF WithinLimit
    <3> QED BY <3>1, <3>2, <3>3, Limits
  <2>2. held'[Overflow] + (IF overflow' = None THEN 0 ELSE overflow'.count) <= Limit
    <3>1. overflow = None \/ overflow.count \in Nat
      BY <1>t, Limits DEF Bucket
    <3>2. /\ held[Overflow] + (IF overflow = None THEN 0 ELSE overflow.count) <= Limit
          /\ held'[Overflow] <= held[Overflow]
          /\ held[Overflow] \in Nat /\ held'[Overflow] \in Nat
      BY <1>k, <1>t DEF WithinLimit
    <3> QED BY <3>1, <3>2, Limits
  <2> QED BY <2>1, <2>2 DEF WithinLimit
<1>4. BoundedState'
  <2>1. \A t \in Targets : held'[t] > 0 => held[t] > 0
    BY <1>t
  <2>2. \A k \in Keys : held'[k] > 0 => k \in Tracked(buckets')
    BY <1>k, <2>1 DEF BoundedState, Tracked
  <2>3. held'[Overflow] > 0 => overflow' # None
    BY <1>k, <2>1 DEF BoundedState
  <2> QED BY <1>2, <2>2, <2>3 DEF BoundedState
<1>5. OnlyChargedKeysAreKept'
  BY DEF OnlyChargedKeysAreKept
<1> QED BY <1>t, <1>3, <1>4, <1>5 DEF BucketsFit

\* release: the bucket it drops has no charge and no other hold.
LEMMA ReleaseStep ==
  ASSUME LimiterInv, NEW q \in Bearers, Release(q)
  PROVE  LimiterInv'
<1> DEFINE target == hold[q].target
           key == hold[q].key
<1>1. /\ target \in Targets /\ held[target] > 0
      /\ held'[target] = held[target] - 1
      /\ \A t \in Targets : t # target => held'[t] = held[t]
      /\ HoldsFit'
  BY SettleCounts DEF Release
<1>2. held \in [Targets -> Nat] /\ buckets \in [Keys -> Bucket \cup {None}]
  BY DEF LimiterInv, TypeOK
<1>2h. held' \in [Targets -> Nat]
  BY <1>1 DEF HoldsFit
<1>3. key \in Keys /\ target \in {key, Overflow} /\ overflow' = overflow
  BY DEF Release, LimiterInv, HoldsOnOwnKey
<1>4. /\ \A t \in Targets : held'[t] <= held[t]
      /\ \A k \in Keys : k # target => held'[k] = held[k]
  <2> HIDE DEF target
  <2>1. Keys \subseteq Targets
    BY DEF Targets
  <2> QED BY <1>1, <1>2, <2>1
<1>n. Overflow \notin Keys
  BY LimiterAssumption DEF LimiterAssumption
<1>5. CASE target = Overflow
  <2>1. buckets' = buckets
    BY <1>5 DEF Release
  <2>2. \A k \in Keys : held'[k] = held[k]
    BY <1>4, <1>5, <1>n
  <2> HIDE DEF target, key
  <2>3. \A k \in Tracked(buckets') : buckets'[k].count > 0 \/ held'[k] > 0
    BY <2>1, <2>2 DEF LimiterInv, OnlyChargedKeysAreKept, Tracked
  <2>4. BucketsFit'
    BY <1>2, <1>2h, <1>3, <1>4, <2>1, <2>3, DropFits
  <2> QED BY <1>1, <2>4, InvParts
<1>6. CASE target # Overflow
  <2>1. target = key /\ buckets' = Released(key)
    BY <1>3, <1>6 DEF Release
  <2>2. buckets[key] \in Bucket /\ buckets[key].count \in Nat
    <3>1. key \in Tracked(buckets)
      BY <1>1, <1>3, <2>1 DEF LimiterInv, BoundedState
    <3> QED BY <1>2, <1>3, <3>1, Limits DEF Tracked, Bucket
  <2> HIDE DEF target, key
  <2>3. /\ buckets' \in [Keys -> Bucket \cup {None}]
        /\ \A k \in Keys : buckets'[k] \in {buckets[k], None}
        /\ \A k \in Keys : k # key => buckets'[k] = buckets[k]
        /\ buckets'[key] = IF buckets[key].count = 0 /\ held[key] = 1 THEN None ELSE buckets[key]
    BY <1>2, <1>3, <2>1 DEF Released
  <2>4. \A k \in Keys : held'[k] > 0 => buckets'[k] = buckets[k]
    BY <1>1, <2>1, <2>3
  <2>5. \A k \in Tracked(buckets') : buckets'[k].count > 0 \/ held'[k] > 0
    <3> SUFFICES ASSUME NEW k \in Keys, buckets'[k] # None, held'[k] = 0
                 PROVE  buckets'[k].count > 0
      BY <1>2h DEF Tracked, Targets
    <3>1. CASE k = key
      BY <1>1, <1>2, <1>3, <2>1, <2>2, <2>3, <3>1
    <3>2. CASE k # key
      BY <1>2, <1>4, <2>1, <2>3, <3>2
         DEF LimiterInv, OnlyChargedKeysAreKept, Tracked, Targets
    <3> QED BY <3>1, <3>2
  <2>6. BucketsFit'
    BY <1>2, <1>2h, <1>3, <1>4, <2>3, <2>4, <2>5, DropFits
  <2> QED BY <1>1, <2>6, InvParts
<1> QED BY <1>5, <1>6

\* peek: pruning drops no bucket that a hold keeps.
LEMMA PeekStep ==
  ASSUME LimiterInv, NEW key \in Keys, Peek(key)
  PROVE  LimiterInv'
<1>1. /\ buckets' \in [Keys -> Bucket \cup {None}]
      /\ \A k \in Keys : buckets'[k] \in {buckets[k], None}
      /\ \A k \in Keys : held[k] > 0 => buckets'[k] = buckets[k]
      /\ UNCHANGED <<overflow, held, hold>>
  BY RoomKeeps DEF Peek, LimiterInv
<1>2. held \in [Targets -> Nat]
  BY DEF LimiterInv, TypeOK
<1>3. \A t \in Targets : held'[t] <= held[t]
  BY <1>1, <1>2
<1>4. \A k \in Tracked(buckets') : buckets'[k].count > 0 \/ held'[k] > 0
  BY <1>1 DEF LimiterInv, OnlyChargedKeysAreKept, Tracked
<1>5. BucketsFit'
  BY <1>1, <1>2, <1>3, <1>4, DropFits
<1> QED BY <1>1, <1>5, SameHolds, InvParts

\* Time empties no bucket and adds no charge.
LEMMA AgedKeeps ==
  ASSUME NEW b \in Bucket \cup {None}
  PROVE  /\ Aged(b) \in Bucket \cup {None}
         /\ Aged(b) = None <=> b = None
         /\ b # None => Aged(b).count = b.count
<1>n. None \notin Bucket
  BY LimiterAssumption DEF LimiterAssumption, Bucket
<1>1. CASE Live(b)
  BY <1>1, <1>n, Limits DEF Aged, Live, Bucket
<1>2. CASE ~Live(b)
  BY <1>2 DEF Aged
<1> QED BY <1>1, <1>2

\* Time charges nothing.
LEMMA TickStep ==
  ASSUME LimiterInv, Tick
  PROVE  LimiterInv'
<1>1. /\ \A k \in Keys : buckets[k] \in Bucket \cup {None} /\ buckets'[k] = Aged(buckets[k])
      /\ buckets' = [k \in Keys |-> Aged(buckets[k])]
      /\ overflow \in Bucket \cup {None} /\ overflow' = Aged(overflow)
      /\ UNCHANGED <<held, hold>>
  BY DEF Tick, LimiterInv, TypeOK
<1>2. /\ buckets' \in [Keys -> Bucket \cup {None}] /\ overflow' \in Bucket \cup {None}
      /\ Tracked(buckets') = Tracked(buckets)
      /\ \A k \in Tracked(buckets) : buckets'[k].count = buckets[k].count
      /\ overflow' = None <=> overflow = None
      /\ overflow # None => overflow'.count = overflow.count
  BY <1>1, AgedKeeps DEF Tracked
<1>3. BucketsFit'
  BY <1>1, <1>2
     DEF BucketsFit, LimiterInv, WithinLimit, BoundedState, OnlyChargedKeysAreKept
<1> QED BY <1>1, <1>3, SameHolds, InvParts

\* An empty limiter satisfies the invariant.
LEMMA LimiterInit == Init => LimiterInv
<1> SUFFICES ASSUME Init PROVE LimiterInv
  OBVIOUS
<1>1. TypeOK
  BY DEF Init, TypeOK, Targets
<1>2. Tracked(buckets) = {}
  BY DEF Init, Tracked
<1>3. \A t \in Targets : held[t] = 0
  BY DEF Init
<1>4. HeldIsCounted
  <2>1. \A t \in Targets : HoldsOn(t) = {}
    BY LimiterAssumption DEF Init, HoldsOn, LimiterAssumption, Targets
  <2> QED BY <1>3, <2>1, FS_EmptySet DEF HeldIsCounted
<1>5. HoldsOnOwnKey
  BY DEF Init, HoldsOnOwnKey
<1>6. WithinLimit
  BY <1>2, <1>3, Limits DEF WithinLimit, Init, Targets
<1>7. BoundedState
  BY <1>2, <1>3, FS_EmptySet, Limits DEF BoundedState, Targets
<1>8. OnlyChargedKeysAreKept
  BY <1>2 DEF OnlyChargedKeysAreKept
<1> QED BY <1>1, <1>4, <1>5, <1>6, <1>7, <1>8 DEF LimiterInv

\* Every operation of the limiter keeps the invariant.
LEMMA LimiterStep == LimiterInv /\ [Next]_vars => LimiterInv'
<1> SUFFICES ASSUME LimiterInv, [Next]_vars PROVE LimiterInv'
  OBVIOUS
<1>1. ASSUME NEW key \in Keys, Check(key) \/ ReserveRefused(key) \/ Peek(key)
      PROVE  LimiterInv'
  BY <1>1, CheckStep, ReserveRefusedStep, PeekStep
<1>2. ASSUME NEW q \in Bearers, NEW key \in Keys, Reserve(q, key)
      PROVE  LimiterInv'
  BY <1>2, ReserveStep
<1>3. ASSUME NEW q \in Bearers, Commit(q) \/ Release(q)
      PROVE  LimiterInv'
  BY <1>3, CommitStep, ReleaseStep
<1>4. CASE Tick
  BY <1>4, TickStep
<1>5. CASE UNCHANGED vars
  BY <1>5
     DEF vars, LimiterInv, TypeOK, HeldIsCounted, HoldsOn, HoldsOnOwnKey,
         WithinLimit, BoundedState, OnlyChargedKeysAreKept
<1> QED BY <1>1, <1>2, <1>3, <1>4, <1>5 DEF Next

---------------------------------------------------------------------------
(* What follows for the code *)

\* The inductive invariant holds in every interleaving of the requests.
THEOREM LimiterInvariant == Spec => []LimiterInv
<1>1. LimiterInv /\ [Next]_vars => LimiterInv'
  BY LimiterStep
<1> QED BY <1>1, LimiterInit, PTL DEF Spec

\* The limiter's variables always have their types.
THEOREM LimiterTypeCorrect == Spec => []TypeOK
<1>1. LimiterInv => TypeOK
  BY DEF LimiterInv
<1> QED BY <1>1, LimiterInvariant, PTL

\* Charges and open holds together never exceed the limit, for any burst of
\* concurrent bearers and any order of their answers.
THEOREM HoldsStayWithinLimit == Spec => []WithinLimit
<1>1. LimiterInv => WithinLimit
  BY DEF LimiterInv
<1> QED BY <1>1, LimiterInvariant, PTL

\* Neither the buckets nor the in-flight counters outgrow maxKeys.
THEOREM LimiterStateStaysBounded == Spec => []BoundedState
<1>1. LimiterInv => BoundedState
  BY DEF LimiterInv
<1> QED BY <1>1, LimiterInvariant, PTL

\* A verified bearer leaves no bucket behind.
THEOREM VerifiedKeysLeaveNoTrace == Spec => []OnlyChargedKeysAreKept
<1>1. LimiterInv => OnlyChargedKeysAreKept
  BY DEF LimiterInv
<1> QED BY <1>1, LimiterInvariant, PTL

---------------------------------------------------------------------------
(* A denied key stays denied *)

\* Storing a bucket for one key leaves every exhausted key exhausted, as long
\* as the store charges no exhausted bucket.
LEMMA ExhaustedStore ==
  ASSUME LimiterInv, NEW key \in Keys, NEW other \in Keys, NEW b,
         Exhausted(key), Store(other, b),
         Located(other).count = Limit => b = Located(other)
  PROVE  Exhausted(key)'
<1>t. /\ buckets \in [Keys -> Bucket \cup {None}] /\ overflow \in Bucket \cup {None}
      /\ Room(other) \in [Keys -> Bucket \cup {None}]
  BY RoomKeeps DEF LimiterInv, TypeOK
<1>1. Live(buckets[key]) => Room(other)[key] = buckets[key]
  BY DEF Room, Pruned
<1>2. buckets[key] = None => Room(other)[key] = None
  BY RoomKeeps DEF LimiterInv
<1>3. CASE key \in Tracked(buckets)
  <2>1. Live(buckets[key]) /\ buckets[key].count = Limit /\ buckets[key] # None
    BY <1>3 DEF Exhausted, Tracked
  <2>2. buckets'[key] = buckets[key]
    <3>1. CASE other = key
      <4>1. ~Shares(key) /\ Located(key) = buckets[key]
        BY <1>3, <2>1 DEF Shares, Located, Renewed
      <4> QED BY <1>t, <2>1, <3>1, <4>1 DEF Store
    <3>2. CASE other # key
      BY <1>t, <1>1, <2>1, <3>2 DEF Store
    <3> QED BY <3>1, <3>2
  <2> QED BY <2>1, <2>2 DEF Exhausted, Tracked, Live
<1>4. CASE key \notin Tracked(buckets)
  <2>1. Live(overflow) /\ overflow.count = Limit /\ buckets[key] = None
    BY <1>4 DEF Exhausted, Tracked
  <2>2. overflow' = overflow /\ buckets'[key] = None
    <3>1. CASE Shares(other)
      <4>1. Located(other) = overflow
        BY <2>1, <3>1 DEF Located, Renewed
      <4> QED BY <1>2, <2>1, <3>1, <4>1 DEF Store
    <3>2. CASE ~Shares(other)
      <4>1. other # key
        BY <1>4, <2>1, <3>2 DEF Shares
      <4> QED BY <1>t, <1>2, <2>1, <3>2, <4>1 DEF Store
    <3> QED BY <3>1, <3>2
  <2> QED BY <2>1, <2>2 DEF Exhausted, Tracked, Live
<1> QED BY <1>3, <1>4

\* Every operation leaves an exhausted key exhausted until its window ends.
LEMMA ExhaustedStep ==
  ASSUME LimiterInv, Next, NEW key \in Keys, Exhausted(key)
  PROVE  Exhausted(key)' \/ WindowOf(key).left = 1
<1>t. /\ buckets \in [Keys -> Bucket \cup {None}] /\ overflow \in Bucket \cup {None}
      /\ held \in [Targets -> Nat]
  BY DEF LimiterInv, TypeOK
<1>n. None \notin Bucket /\ Overflow \notin Keys
  BY LimiterAssumption DEF LimiterAssumption, Bucket
<1>f. ASSUME NEW other \in Keys
      PROVE  /\ Located(other).count \in Nat /\ held[TargetOf(other)] \in Nat
             /\ HasSlot(Located(other), TargetOf(other)) => Located(other).count # Limit
  BY <1>t, LocatedFits, Limits DEF HasSlot, Bucket
<1>1. ASSUME NEW other \in Keys, Check(other) PROVE Exhausted(key)'
  BY <1>1, <1>f, ExhaustedStore DEF Check
<1>2. ASSUME NEW other \in Keys, ReserveRefused(other) PROVE Exhausted(key)'
  BY <1>2, ExhaustedStore DEF ReserveRefused
<1>3. ASSUME NEW q \in Bearers, NEW other \in Keys, Reserve(q, other)
      PROVE  Exhausted(key)'
  BY <1>3, ExhaustedStore DEF Reserve
<1>4. ASSUME NEW other \in Keys, Peek(other) PROVE Exhausted(key)'
  <2>1. Live(buckets[key]) => buckets'[key] = buckets[key]
    BY <1>4 DEF Peek, Room, Pruned
  <2>2. buckets[key] = None => buckets'[key] = None
    BY <1>4, RoomKeeps DEF Peek, LimiterInv
  <2>3. overflow' = overflow
    BY <1>4 DEF Peek
  <2> QED BY <1>n, <2>1, <2>2, <2>3 DEF Exhausted, Tracked, Live
<1>5. ASSUME NEW q \in Bearers, Commit(q) PROVE Exhausted(key)'
  <2>1. /\ hold[q].target \in Targets /\ held[hold[q].target] > 0
        /\ hold[q].key \in Keys /\ hold[q].target \in {hold[q].key, Overflow}
    BY <1>5, SettleCounts DEF Commit, LimiterInv, HoldsOnOwnKey
  <2>2. CASE hold[q].target = Overflow
    <3>1. buckets' = buckets
      BY <1>5, <2>2 DEF Commit
    <3>2. key \in Tracked(buckets)
      <4>1. overflow # None => overflow.count + held[Overflow] <= Limit /\ overflow.count \in Nat
        BY <1>t, <2>1, <2>2, Limits DEF LimiterInv, WithinLimit, Bucket
      <4>2. held[Overflow] \in Nat /\ held[Overflow] > 0
        BY <1>t, <2>1, <2>2
      <4>3. overflow # None => overflow.count # Limit
        BY <4>1, <4>2, Limits
      <4> QED BY <4>3 DEF Exhausted, Live
    <3> QED BY <3>1, <3>2 DEF Exhausted, Tracked, Live
  <2>3. CASE hold[q].target # Overflow
    <3> DEFINE other == hold[q].key
    <3>1. hold[q].target = other /\ other \in Tracked(buckets)
      BY <2>1, <2>3 DEF LimiterInv, BoundedState
    <3>2. TargetOf(other) = other
      BY <3>1 DEF TargetOf, Shares
    <3>3. /\ Located(other).count \in Nat /\ held[other] \in Nat /\ held[other] > 0
          /\ Located(other).count + held[other] <= Limit
      BY <1>f, <2>1, <3>1, <3>2, LocatedFits
    <3>4. Located(other).count # Limit
      BY <3>3, Limits
    <3>5. Store(other, Committed(q))
      BY <1>5, <2>3 DEF Commit
    <3> HIDE DEF other
    <3>6. other \in Keys
      BY <2>1 DEF other
    <3> QED BY <3>4, <3>5, <3>6, ExhaustedStore
  <2> QED BY <2>2, <2>3
<1>6. ASSUME NEW q \in Bearers, Release(q) PROVE Exhausted(key)'
  <2>1. overflow' = overflow
    BY <1>6 DEF Release
  <2>2. buckets[key] = None => buckets'[key] = None
    <3>1. /\ hold[q].target \in Targets /\ held[hold[q].target] > 0
          /\ hold[q].key \in Keys /\ hold[q].target \in {hold[q].key, Overflow}
      BY <1>6, SettleCounts DEF Release, LimiterInv, HoldsOnOwnKey
    <3>2. CASE hold[q].target = Overflow
      BY <1>6, <3>2 DEF Release
    <3>3. CASE hold[q].target # Overflow
      <4>1. buckets[hold[q].key] # None
        BY <3>1, <3>3 DEF LimiterInv, BoundedState, Tracked
      <4> QED BY <1>6, <1>t, <3>1, <3>3, <4>1 DEF Release, Released
    <3> QED BY <3>2, <3>3
  <2>3. buckets[key] # None /\ buckets[key].count = Limit => buckets'[key] = buckets[key]
    BY <1>6, <1>t, Limits DEF Release, Released
  <2> QED BY <2>1, <2>2, <2>3 DEF Exhausted, Tracked, Live
<1>7. CASE Tick
  <2>1. ASSUME NEW b \in Bucket, Live(b), b.left # 1
        PROVE  Live(Aged(b)) /\ Aged(b).count = b.count /\ Aged(b) # None
    <3>1. b.left \in Nat /\ b.left > 1
      BY <2>1, Limits DEF Live, Bucket
    <3>2. Aged(b) = [b EXCEPT !.left = b.left - 1]
      BY <2>1 DEF Aged
    <3>3. Aged(b).left = b.left - 1 /\ Aged(b).count = b.count /\ Aged(b) \in Bucket
      BY <3>1, <3>2, Limits DEF Bucket
    <3> QED BY <1>n, <3>1, <3>3 DEF Live
  <2>2. buckets'[key] = Aged(buckets[key]) /\ overflow' = Aged(overflow)
    BY <1>7 DEF Tick
  <2>3. CASE key \in Tracked(buckets)
    <3>1. buckets[key] \in Bucket /\ Live(buckets[key]) /\ buckets[key].count = Limit
      BY <1>t, <2>3 DEF Exhausted, Tracked
    <3>2. WindowOf(key) = buckets[key]
      BY <2>3 DEF WindowOf
    <3> QED BY <2>1, <2>2, <3>1, <3>2 DEF Exhausted, Tracked
  <2>4. CASE key \notin Tracked(buckets)
    <3>1. overflow \in Bucket /\ Live(overflow) /\ overflow.count = Limit
      BY <1>t, <2>4 DEF Exhausted, Live
    <3>2. WindowOf(key) = overflow
      BY <2>4 DEF WindowOf
    <3>3. buckets'[key] = None
      BY <2>2, <2>4 DEF Tracked, Aged, Live
    <3> QED BY <2>1, <2>2, <3>1, <3>2, <3>3 DEF Exhausted, Tracked
  <2> QED BY <2>3, <2>4
<1> QED BY <1>1, <1>2, <1>3, <1>4, <1>5, <1>6, <1>7 DEF Next

\* "A key spray can neither exhaust memory nor reset an already-denied key".
THEOREM DeniedKeysStayDenied == Spec => DeniedUntilReset
<1>1. LimiterInv /\ [Next]_vars =>
        [\A key \in Keys :
           Exhausted(key) => Exhausted(key)' \/ WindowOf(key).left = 1]_vars
  BY ExhaustedStep
<1> QED BY <1>1, LimiterInvariant, PTL DEF Spec, DeniedUntilReset

============================================================================
