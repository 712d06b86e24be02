--------------------------- MODULE CatalogProofs ---------------------------
(***************************************************************************)
(* What one drop of the source's sessions does to the calls of a process,  *)
(* and what a client that lists knows of the catalog, for any number of    *)
(* callers, clients, calls, walks, tokens and sessions kept.               *)
(*                                                                         *)
(* A key has a session in the table or a handshake under way, never both.  *)
(* So while nothing has been dropped, a call that holds a session finds no *)
(* handshake beside it, unless the cap has pushed that session out; and a  *)
(* handshake that is answered later is answered by the source as it is     *)
(* after the drop.                                                         *)
(*                                                                         *)
(* A client's last answer is measured by what stands for its principal:    *)
(* the entry, or while a walk runs, what the walk will compare its result  *)
(* with.  Every step that moves what stands tells of it, or moves it to    *)
(* nothing, from where whatever is enabled comes back as a change.         *)
(*                                                                         *)
(* An operator's check is green because of what each of its answers proves *)
(* from the moment it is noted; a config write of the verifier is a call   *)
(* that nothing else the process does can move.                            *)
(***************************************************************************)
EXTENDS OperatorChecks, SequenceTheorems, TLAPS

\* A sequence, of whatever it holds.
IsSeq(t) == t \in Seq({t[i] : i \in 1..Len(t)})
DistinctKeys(t) == \A i, j \in 1..Len(t) : t[i].key = t[j].key => i = j

\* A sequence over some set is one over its own elements.
LEMMA SeqIsSeq ==
  ASSUME NEW S, NEW t \in Seq(S)
  PROVE  IsSeq(t)
<1> DEFINE R == {t[i] : i \in 1..Len(t)}
<1>1. Len(t) \in Nat /\ t \in [1..Len(t) -> S]
  BY LenProperties
<1>2. t \in [1..Len(t) -> R]
  BY <1>1
<1> QED BY <1>1, <1>2, SeqDef DEF IsSeq

\* An element that is taken out is gone, and no other.
LEMMA RemoveAtFacts ==
  ASSUME NEW t, IsSeq(t), DistinctKeys(t), NEW k \in 1..Len(t)
  PROVE  LET w == RemoveAt(t, k)
         IN  /\ IsSeq(w) /\ DistinctKeys(w)
             /\ \A i \in 1..Len(w) : /\ w[i].key # t[k].key
                                     /\ \E j \in 1..Len(t) : w[i] = t[j]
<1> DEFINE w == RemoveAt(t, k)
           S == {t[i] : i \in 1..Len(t)}
           before == SubSeq(t, 1, k - 1)
           after == SubSeq(t, k + 1, Len(t))
<1>1. w = before \o after
  BY DEF RemoveAt
<1>2. t \in Seq(S) /\ Len(t) \in Nat
  BY LenProperties DEF IsSeq
<1> HIDE DEF S
<1>3. /\ before \in Seq(S) /\ Len(before) = k - 1
      /\ \A i \in 1..k - 1 : before[i] = t[i]
  BY <1>2, SubSeqProperties
<1>4. /\ after \in Seq(S) /\ Len(after) = Len(t) - k
      /\ \A i \in 1..Len(t) - k : after[i] = t[k + i]
  BY <1>2, SubSeqProperties
<1> HIDE DEF w, before, after
<1>5. before \in Seq(S) /\ after \in Seq(S)
  BY <1>3, <1>4
<1>6. /\ w \in Seq(S) /\ Len(w) = Len(before) + Len(after)
       /\ \A i \in 1..Len(before) + Len(after) :
            w[i] = IF i <= Len(before) THEN before[i] ELSE after[i - Len(before)]
  BY <1>1, <1>5, ConcatProperties
<1>7. Len(before) = k - 1 /\ Len(after) = Len(t) - k
  BY <1>3, <1>4
<1>8. w \in Seq(S) /\ Len(w) = Len(t) - 1
  BY <1>2, <1>6, <1>7
<1>9. \A i \in 1..Len(w) : w[i] = IF i < k THEN t[i] ELSE t[i + 1]
  <2>1. ASSUME NEW i \in 1..Len(w) PROVE w[i] = IF i < k THEN t[i] ELSE t[i + 1]
    <3>1. CASE i < k
      <4>1. i <= Len(before) /\ i \in 1..k - 1 /\ i \in 1..Len(before) + Len(after)
        BY <1>2, <1>8, <1>7, <3>1
      <4> QED BY <1>3, <1>6, <3>1, <4>1
    <3>2. CASE ~(i < k)
      <4>1. /\ i - (k - 1) \in 1..Len(t) - k /\ k + (i - (k - 1)) = i + 1
            /\ i \in 1..Len(before) + Len(after) /\ ~(i <= Len(before))
            /\ Len(before) = k - 1
        BY <1>2, <1>8, <1>7, <3>2
      <4>2. w[i] = after[i - (k - 1)]
        BY <1>6, <4>1
      <4>3. after[i - (k - 1)] = t[k + (i - (k - 1))]
        BY <1>4, <4>1
      <4> QED BY <3>2, <4>1, <4>2, <4>3
    <3> QED BY <3>1, <3>2
  <2> QED BY <2>1
<1>10. ASSUME NEW i \in 1..Len(w)
      PROVE  w[i].key # t[k].key /\ \E j \in 1..Len(t) : w[i] = t[j]
  <2>1. CASE i < k
    <3>1. i \in 1..Len(t) /\ w[i] = t[i] /\ i # k
      BY <1>2, <1>8, <1>9, <2>1
    <3> QED BY <3>1 DEF DistinctKeys
  <2>2. CASE i >= k
    <3>1. i + 1 \in 1..Len(t) /\ w[i] = t[i + 1] /\ i + 1 # k
      BY <1>2, <1>8, <1>9, <2>2
    <3> QED BY <3>1 DEF DistinctKeys
  <2> QED BY <2>1, <2>2
<1>11. DistinctKeys(w)
  <2>1. ASSUME NEW i \in 1..Len(w), NEW j \in 1..Len(w), w[i].key = w[j].key PROVE i = j
    <3> DEFINE a == IF i < k THEN i ELSE i + 1
               b == IF j < k THEN j ELSE j + 1
    <3>1. a \in 1..Len(t) /\ b \in 1..Len(t) /\ (a = b => i = j)
      BY <1>2, <1>8
    <3>2. w[i] = t[a] /\ w[j] = t[b]
      BY <1>9
    <3> HIDE DEF a, b
    <3> QED BY <2>1, <3>1, <3>2 DEF DistinctKeys
  <2> QED BY <2>1 DEF DistinctKeys
<1> QED BY <1>8, <1>10, <1>11, SeqIsSeq DEF w

\* A key that is deleted from the table is gone, and no other.
LEMMA WithoutFacts ==
  ASSUME NEW t, IsSeq(t), DistinctKeys(t), NEW key
  PROVE  LET w == Without(t, key)
         IN  /\ IsSeq(w) /\ DistinctKeys(w)
             /\ \A i \in 1..Len(w) : w[i].key # key /\ \E j \in 1..Len(t) : w[i] = t[j]
<1>1. CASE ~\E i \in 1..Len(t) : t[i].key = key
  <2>1. Without(t, key) = t
    BY <1>1 DEF Without, RemoveFirstMatch
  <2> QED BY <2>1, <1>1
<1>2. CASE \E i \in 1..Len(t) : t[i].key = key
  <2>1. PICK k \in 1..Len(t) : t[k].key = key
    BY <1>2
  <2>2. {i \in 1..Len(t) : t[i].key = key} = {k}
    BY <2>1 DEF DistinctKeys
  <2>3. Min({k}) = k
    BY DEF Min
  <2>4. Without(t, key) = RemoveAt(t, k)
    BY <1>2, <2>2, <2>3 DEF Without, RemoveFirstMatch, SelectInSeq
  <2> QED BY <2>1, <2>4, RemoveAtFacts
<1> QED BY <1>1, <1>2

\* A row of a new key is appended.
LEMMA AppendFacts ==
  ASSUME NEW t, IsSeq(t), DistinctKeys(t), NEW row, \A i \in 1..Len(t) : t[i].key # row.key
  PROVE  LET w == Append(t, row)
         IN  /\ IsSeq(w) /\ DistinctKeys(w) /\ Len(w) = Len(t) + 1 /\ w[Len(w)] = row
             /\ \A i \in 1..Len(t) : w[i] = t[i]
             /\ \A i \in 1..Len(w) : w[i] = row \/ \E j \in 1..Len(t) : w[i] = t[j]
<1> DEFINE S == {t[i] : i \in 1..Len(t)} \cup {row}
           w == Append(t, row)
<1>1. t \in Seq({t[i] : i \in 1..Len(t)})
  BY DEF IsSeq
<1>2. t \in Seq(S) /\ row \in S
  BY <1>1
<1> HIDE DEF S
<1>3. /\ w \in Seq(S) /\ Len(w) = Len(t) + 1 /\ w[Len(w)] = row /\ Len(t) \in Nat
      /\ \A i \in 1..Len(t) : w[i] = t[i]
  BY <1>2, AppendProperties
<1> HIDE DEF w
<1>4. DistinctKeys(w)
  BY <1>3 DEF DistinctKeys
<1>5. \A i \in 1..Len(w) : w[i] = row \/ \E j \in 1..Len(t) : w[i] = t[j]
  BY <1>3
<1>6. IsSeq(w)
  BY <1>3, SeqIsSeq
<1> QED BY <1>3, <1>4, <1>5, <1>6 DEF w

---------------------------------------------------------------------------
(* The invariant *)

CallFields == {"who", "retry", "pc", "key", "sid", "res", "value", "refreshed", "reinited", "ran"}
Pcs == {"idle", "joining", "sent", "back", "done"}

\* A call is a record of these fields; it has done nothing at the source while it
\* has not been answered, or was answered that it must be sent again.
CallShape(q) ==
  /\ DOMAIN q = CallFields /\ q.pc \in Pcs /\ q.reinited \in BOOLEAN
  /\ q.ran \in 0..1
  /\ q.pc \in {"idle", "joining", "sent"} => q.ran = 0
  /\ q.pc = "back" /\ q.res \in {"expired", "unauthorized"} => q.ran = 0

ShakeFields == {"key", "sid", "refreshed"}

\* A key has one session, or one handshake, or neither.
Keyed ==
  /\ IsSeq(table) /\ DistinctKeys(table) /\ IsSeq(shakes) /\ DistinctKeys(shakes)
  /\ \A i \in 1..Len(table), j \in 1..Len(shakes) : table[i].key # shakes[j].key
  /\ \A j \in 1..Len(shakes) : DOMAIN shakes[j] = ShakeFields

InUse(q) == q.pc \in {"sent", "back"}
GotExpired(q) == q.pc = "back" /\ q.res = "expired"
\* No handshake of this key has been answered with a session that is gone.
ShakesAlive(key) ==
  \A j \in 1..Len(shakes) : shakes[j].key = key => shakes[j].sid \in {0} \cup alive
HasRow(key) == \E i \in 1..Len(table) : table[i].key = key

\* A call that has been replayed has a session from after the drop, or will get one.
Replayed(q) ==
  /\ InUse(q) => q.sid \in alive /\ ~GotExpired(q)
  /\ q.pc = "joining" => ShakesAlive(q.key)

Failed(q) == q.pc = "done" /\ q.res = "expired" /\ q.retry

\* Before the first drop every session is alive, and the table has the session of
\* every call that uses one, unless it was pushed out.  After one drop a call that
\* uses a session sees no handshake from before the drop.
CallHolds(q) ==
  /\ CallShape(q)
  /\ drops = 0 => /\ ~q.reinited
                  /\ InUse(q) => q.sid \in alive /\ ~GotExpired(q)
                  /\ InUse(q) /\ q.key \notin evicted => HasRow(q.key)
  /\ drops = 1 /\ q.key \notin evicted => /\ InUse(q) => ShakesAlive(q.key)
                                          /\ q.reinited => Replayed(q)
  /\ Failed(q) => drops >= 2 \/ q.key \in evicted
RowsAlive ==
  drops = 0 => /\ \A i \in 1..Len(table) : table[i].sid \in alive
               /\ \A j \in 1..Len(shakes) : shakes[j].sid \in {0} \cup alive

DropInv ==
  /\ DOMAIN call = Calls /\ Keyed /\ drops \in Nat /\ RowsAlive
  /\ \A c \in Calls : CallHolds(call[c])

\* Nothing that the invariant speaks of changes.
LEMMA SessionsStandStill ==
  ASSUME DropInv, UNCHANGED <<table, shakes, alive, drops, evicted, call>>
  PROVE  DropInv'
BY DEF DropInv, CallHolds, CallShape, Keyed, RowsAlive, InUse, GotExpired, ShakesAlive,
       HasRow, Replayed, Failed

---------------------------------------------------------------------------
(* A call that has its session *)

\* What became of a call is kept in the same session: it is answered, sent again
\* or given up.
GoesOn(q, p) ==
  /\ CallShape(q) /\ q.key = p.key /\ q.sid = p.sid /\ q.reinited = p.reinited
  /\ q.pc # "joining" /\ (InUse(q) => InUse(p))
  /\ GotExpired(q) => q.sid \notin alive
  /\ Failed(q) => GotExpired(p) /\ p.reinited

\* A call that goes on keeps the invariant: after one drop it can be told a second
\* time that its session has expired only if a session of its key was pushed out.
LEMMA GoingOnKeeps ==
  ASSUME DropInv, NEW c \in Calls, NEW q, GoesOn(q, call[c]), call' = [call EXCEPT ![c] = q],
         UNCHANGED <<table, shakes, alive, drops, evicted>>
  PROVE  DropInv'
<1>1. DOMAIN call = Calls /\ Keyed /\ drops \in Nat /\ RowsAlive
  BY DEF DropInv
<1>2. \A d \in Calls : CallHolds(call[d])
  BY DEF DropInv
<1> DEFINE p == call[c]
<1>3. CallHolds(q)
  <2>1. CallHolds(p)
    BY <1>2
  <2> HIDE DEF p
  <2> QED BY <2>1, <1>1 DEF p, CallHolds, GoesOn, Failed, Replayed, InUse, GotExpired
<1>4. \A d \in Calls : CallHolds(call'[d])
  BY <1>1, <1>2, <1>3
<1>5. \A d \in Calls : CallHolds(call[d])'
  BY <1>4 DEF CallHolds, CallShape, InUse, GotExpired, ShakesAlive, HasRow, Replayed, Failed
<1>6. DOMAIN call' = Calls /\ Keyed' /\ drops' \in Nat /\ RowsAlive'
  BY <1>1 DEF Keyed, RowsAlive
<1> QED BY <1>5, <1>6 DEF DropInv

\* The source answers a call that was sent to it.
ComesBack(q, p) ==
  /\ DOMAIN q = CallFields /\ q.pc = "back" /\ q.key = p.key /\ q.sid = p.sid
  /\ q.reinited = p.reinited /\ q.ran \in 0..1
  /\ q.res \in {"expired", "unauthorized"} => q.ran = 0
  /\ q.res = "expired" => p.sid \notin alive

\* Every step of a call that stays in its session is of this kind.
LEMMA CallSteps ==
  ASSUME DropInv, NEW c \in Calls,
         Refresh(c) \/ Finish(c) \/ Abort(c) \/ \E value : Serve(c, value)
  PROVE  DropInv'
<1> DEFINE p == call[c]
<1>1. CallHolds(p) /\ DOMAIN call = Calls
  BY DEF DropInv
<1>2. ASSUME NEW q, GoesOn(q, p), call' = [call EXCEPT ![c] = q],
             UNCHANGED <<table, shakes, alive, drops, evicted>>
      PROVE  DropInv'
  BY <1>2, GoingOnKeeps
<1> HIDE DEF p
<1>3. CASE Refresh(c)
  <2> DEFINE q == [p EXCEPT !.pc = "sent", !.refreshed = TRUE]
  <2>1. /\ call' = [call EXCEPT ![c] = q] /\ p.pc = "back" /\ p.res = "unauthorized"
        /\ UNCHANGED <<table, shakes, alive, drops, evicted>>
    BY <1>3, <1>1 DEF Refresh, MayRefresh, p
  <2>2. GoesOn(q, p)
    BY <2>1, <1>1 DEF GoesOn, CallHolds, CallShape, CallFields, Pcs, InUse, GotExpired, Failed
  <2> HIDE DEF q
  <2> QED BY <2>1, <2>2, <1>2
<1>4. CASE Finish(c)
  <2> DEFINE q == [p EXCEPT !.pc = "done"]
  <2>1. /\ call' = [call EXCEPT ![c] = q] /\ p.pc = "back" /\ ~MayReinit(p)
        /\ UNCHANGED <<table, shakes, alive, drops, evicted>>
    BY <1>4, <1>1 DEF Finish, p
  <2>2. GoesOn(q, p)
    BY <2>1, <1>1 DEF GoesOn, CallHolds, CallShape, CallFields, Pcs, InUse, GotExpired, Failed, MayReinit
  <2> HIDE DEF q
  <2> QED BY <2>1, <2>2, <1>2
<1>5. CASE Abort(c)
  <2> DEFINE q == [p EXCEPT !.pc = "done", !.res = "failed"]
  <2>1. /\ call' = [call EXCEPT ![c] = q] /\ p.pc \in {"joining", "sent", "back"}
        /\ UNCHANGED <<table, shakes, alive, drops, evicted>>
    BY <1>5, <1>1 DEF Abort, p
  <2>2. GoesOn(q, p)
    BY <2>1, <1>1 DEF GoesOn, CallHolds, CallShape, CallFields, Pcs, InUse, GotExpired, Failed
  <2> HIDE DEF q
  <2> QED BY <2>1, <2>2, <1>2
<1>6. ASSUME NEW value, Serve(c, value) PROVE DropInv'
  <2>1. p.pc = "sent" /\ p.ran = 0 /\ UNCHANGED <<table, shakes, alive, drops, evicted>>
    BY <1>6, <1>1 DEF Serve, CallHolds, CallShape, p
  <2>2. ASSUME NEW q, ComesBack(q, p), call' = [call EXCEPT ![c] = q]
        PROVE  DropInv'
    <3>1. GoesOn(q, p)
      BY <2>1, <2>2, <1>1 DEF ComesBack, GoesOn, CallHolds, CallShape, Pcs, InUse, GotExpired, Failed
    <3> QED BY <2>1, <2>2, <3>1, <1>2
  <2>3. DOMAIN p = CallFields
    BY <1>1 DEF CallHolds, CallShape
  <2>4. CASE /\ call[c].sid \notin alive
             /\ call' = [call EXCEPT ![c].pc = "back", ![c].res = "expired"]
    <3> DEFINE q == [p EXCEPT !.pc = "back", !.res = "expired"]
    <3>1. call' = [call EXCEPT ![c] = q]
      BY <2>4, <1>1 DEF p
    <3>2. p.sid \notin alive
      BY <2>4 DEF p
    <3>3. ComesBack(q, p)
      BY <2>1, <2>3, <3>2 DEF ComesBack, CallFields
    <3> HIDE DEF q
    <3> QED BY <3>1, <3>3, <2>2
  <2>5. CASE call' = [call EXCEPT ![c].pc = "back", ![c].res = "ok", ![c].value = value,
                                  ![c].ran = @ + 1]
    <3> DEFINE q == [p EXCEPT !.pc = "back", !.res = "ok", !.value = value, !.ran = @ + 1]
    <3>1. call' = [call EXCEPT ![c] = q]
      BY <2>5, <1>1 DEF p
    <3>2. ComesBack(q, p)
      BY <2>1, <2>3 DEF ComesBack, CallFields
    <3> HIDE DEF q
    <3> QED BY <3>1, <3>2, <2>2
  <2>6. CASE call' = [call EXCEPT ![c].pc = "back", ![c].res = "unauthorized"]
    <3> DEFINE q == [p EXCEPT !.pc = "back", !.res = "unauthorized"]
    <3>1. call' = [call EXCEPT ![c] = q]
      BY <2>6, <1>1 DEF p
    <3>2. ComesBack(q, p)
      BY <2>1, <2>3 DEF ComesBack, CallFields
    <3> HIDE DEF q
    <3> QED BY <3>1, <3>2, <2>2
  <2>7. ASSUME NEW ran \in {0, 1},
               call' = [call EXCEPT ![c].pc = "back", ![c].res = "failed", ![c].ran = @ + ran]
        PROVE  DropInv'
    <3> DEFINE q == [p EXCEPT !.pc = "back", !.res = "failed", !.ran = @ + ran]
    <3>1. call' = [call EXCEPT ![c] = q]
      BY <2>7, <1>1 DEF p
    <3>2. ComesBack(q, p)
      BY <2>1, <2>3 DEF ComesBack, CallFields
    <3> HIDE DEF q
    <3> QED BY <3>1, <3>2, <2>2
  <2> QED BY <1>6, <2>4, <2>5, <2>6, <2>7 DEF Serve
<1> QED BY <1>3, <1>4, <1>5, <1>6

---------------------------------------------------------------------------
(* A call that needs a session *)

\* A call has the session of its key, or waits for a handshake.
Settles(q, t) ==
  \/ q.pc = "sent" /\ \E i \in 1..Len(t) : t[i].key = q.key /\ q.sid = t[i].sid
  \/ q.pc = "joining" /\ \A i \in 1..Len(t) : t[i].key # q.key

\* ensureSession settles a call, and changes nothing else of it.
LEMMA EnsuredSettles ==
  ASSUME NEW t, IsSeq(t), NEW c, NEW p, DOMAIN p = CallFields
  PROVE  LET q == Ensured(c, p, t)
         IN  /\ DOMAIN q = CallFields /\ Settles(q, t)
             /\ \A f \in CallFields \ {"pc", "sid"} : q[f] = p[f]
<1> DEFINE q == Ensured(c, p, t)
           cached == {i \in DOMAIN t : t[i].key = p.key}
<1>1. DOMAIN t = 1..Len(t)
  BY LenProperties DEF IsSeq
<1>2. CASE cached # {}
  <2> DEFINE i == CHOOSE i \in cached : TRUE
  <2>1. i \in cached
    BY <1>2
  <2>2. q = [p EXCEPT !.pc = "sent", !.sid = t[i].sid]
    BY <1>2 DEF Ensured
  <2>3. i \in 1..Len(t) /\ t[i].key = p.key
    BY <2>1, <1>1
  <2> HIDE DEF i, q
  <2> QED BY <2>2, <2>3 DEF Settles, CallFields, q
<1>3. CASE cached = {}
  <2>1. q = [p EXCEPT !.pc = "joining"]
    BY <1>3 DEF Ensured
  <2> HIDE DEF q
  <2> QED BY <2>1, <1>1, <1>3 DEF Settles, CallFields, q
<1> QED BY <1>2, <1>3

\* A handshake starts if the call waits for one and there is none of its key.
LEMMA ShakingFacts ==
  ASSUME IsSeq(shakes), DistinctKeys(shakes), NEW q, NEW s, s = Shaking(q)
  PROVE  /\ IsSeq(s) /\ DistinctKeys(s)
         /\ \A i \in 1..Len(s) : \/ \E j \in 1..Len(shakes) : s[i] = shakes[j]
                                 \/ /\ q.pc = "joining" /\ s[i].key = q.key /\ s[i].sid = 0
                                    /\ DOMAIN s[i] = ShakeFields
<1> DEFINE row == [key |-> q.key, sid |-> 0, refreshed |-> FALSE]
<1>1. DOMAIN shakes = 1..Len(shakes)
  BY LenProperties DEF IsSeq
<1>2. CASE s = shakes
  BY <1>2
<1>3. CASE s # shakes
  <2>1. s = Append(shakes, row) /\ q.pc = "joining" /\ \A i \in 1..Len(shakes) : shakes[i].key # q.key
    BY <1>1, <1>3 DEF Shaking
  <2>2. row.key = q.key /\ row.sid = 0 /\ DOMAIN row = ShakeFields
    BY DEF ShakeFields
  <2> HIDE DEF row
  <2> QED BY <2>1, <2>2, AppendFacts
<1> QED BY <1>2, <1>3

\* Handshakes that have not been answered do not disturb a call.
LEMMA NewShakesAreQuiet ==
  ASSUME NEW key, ShakesAlive(key), alive' = alive,
         \A i \in 1..Len(shakes') : \/ \E j \in 1..Len(shakes) : shakes'[i] = shakes[j]
                                    \/ shakes'[i].sid = 0
  PROVE  ShakesAlive(key)'
BY DEF ShakesAlive

\* A call begins: it is given the session of its key, or waits.
LEMMA BeginKeeps ==
  ASSUME DropInv, NEW c, NEW who, NEW retry, call' = [call EXCEPT ![c] = Begun(c, who, retry)],
         shakes' = Shaking(Begun(c, who, retry)), UNCHANGED <<table, alive, drops, evicted>>
  PROVE  DropInv'
<1> DEFINE p == [NewCall EXCEPT !.who = who, !.retry = retry, !.key = <<who, token>>]
           q == Begun(c, who, retry)
<1>1. /\ DOMAIN call = Calls /\ Keyed /\ drops \in Nat /\ RowsAlive
      /\ \A d \in Calls : CallHolds(call[d])
  BY DEF DropInv
<1>2. DOMAIN p = CallFields /\ ~p.reinited /\ p.ran = 0 /\ p.reinited \in BOOLEAN
  BY DEF NewCall, CallFields
<1>3. q = Ensured(c, p, table)
  BY DEF Begun
<1> HIDE DEF p
<1>4. /\ DOMAIN q = CallFields /\ Settles(q, table) /\ ~q.reinited /\ q.ran = 0 /\ q.reinited \in BOOLEAN
  BY <1>1, <1>2, <1>3, EnsuredSettles DEF Keyed, CallFields
<1> HIDE DEF q
<1>5. /\ IsSeq(shakes') /\ DistinctKeys(shakes')
      /\ \A i \in 1..Len(shakes') :
           \/ \E j \in 1..Len(shakes) : shakes'[i] = shakes[j]
           \/ /\ q.pc = "joining" /\ shakes'[i].key = q.key /\ shakes'[i].sid = 0
              /\ DOMAIN shakes'[i] = ShakeFields
  BY <1>1, ShakingFacts DEF Keyed, q
<1>6. Keyed'
  <2>1. \A j \in 1..Len(shakes') : DOMAIN shakes'[j] = ShakeFields
    BY <1>1, <1>5 DEF Keyed
  <2>2. ASSUME NEW i \in 1..Len(table), NEW j \in 1..Len(shakes')
        PROVE  table[i].key # shakes'[j].key
    <3>1. CASE \E k \in 1..Len(shakes) : shakes'[j] = shakes[k]
      BY <1>1, <3>1 DEF Keyed
    <3>2. CASE q.pc = "joining" /\ shakes'[j].key = q.key
      BY <1>4, <3>2 DEF Settles
    <3> QED BY <1>5, <3>1, <3>2
  <2> QED BY <1>1, <1>5, <2>1, <2>2 DEF Keyed
<1>7. RowsAlive'
  BY <1>1, <1>5 DEF RowsAlive
<1>8. ASSUME NEW d \in Calls, call'[d] = call[d] PROVE CallHolds(call[d])'
  <2>1. CallHolds(call[d])
    BY <1>1
  <2>2. \A key : ShakesAlive(key) => ShakesAlive(key)'
    BY <1>5, NewShakesAreQuiet
  <2> QED BY <1>8, <2>1, <2>2 DEF CallHolds, CallShape, InUse, GotExpired, HasRow, Replayed, Failed
<1>9. ASSUME NEW d \in Calls, call'[d] = q PROVE CallHolds(call[d])'
  <2>1. CallShape(q) /\ ~GotExpired(q) /\ ~Failed(q)
    BY <1>4 DEF CallShape, Settles, Pcs, GotExpired, Failed
  <2>2. InUse(q) => HasRow(q.key) /\ (drops = 0 => q.sid \in alive)
    BY <1>1, <1>4 DEF InUse, Settles, HasRow, RowsAlive
  <2>3. InUse(q) => \A i \in 1..Len(shakes') : shakes'[i].key # q.key
    BY <1>1, <1>4, <1>5 DEF InUse, Settles, Keyed
  <2> QED BY <1>4, <1>9, <2>1, <2>2, <2>3
      DEF CallHolds, CallShape, InUse, GotExpired, HasRow, Replayed, Failed, ShakesAlive
<1>10. \A d \in Calls : call'[d] = call[d] \/ call'[d] = q
  BY <1>1 DEF q
<1>11. DOMAIN call' = Calls /\ drops' \in Nat
  BY <1>1
<1> QED BY <1>6, <1>7, <1>8, <1>9, <1>10, <1>11 DEF DropInv

\* A call that found its session expired drops the one of its key, and waits.  The
\* handshake it finds was not answered before the drop.
LEMMA ReinitKeeps ==
  ASSUME DropInv, NEW c \in Calls, Reinit(c)
  PROVE  DropInv'
<1> DEFINE p == [call[c] EXCEPT !.reinited = TRUE]
           t == Without(table, call[c].key)
           q == Ensured(c, p, t)
<1>1. /\ DOMAIN call = Calls /\ Keyed /\ drops \in Nat /\ RowsAlive
      /\ \A d \in Calls : CallHolds(call[d])
  BY DEF DropInv
<1>2. /\ call[c].pc = "back" /\ call[c].res = "expired" /\ table' = t /\ call' = [call EXCEPT ![c] = q]
      /\ shakes' = Shaking(q) /\ UNCHANGED <<alive, drops, evicted>>
  BY DEF Reinit, MayReinit, DropSession
<1>3. /\ IsSeq(t) /\ DistinctKeys(t)
      /\ \A i \in 1..Len(t) : t[i].key # call[c].key /\ \E j \in 1..Len(table) : t[i] = table[j]
  BY <1>1, WithoutFacts DEF Keyed
<1>4. DOMAIN p = CallFields /\ p.reinited \in BOOLEAN /\ p.ran = 0 /\ p.key = call[c].key
  BY <1>1, <1>2 DEF CallHolds, CallShape, CallFields
<1> HIDE DEF p, t
<1>5. /\ DOMAIN q = CallFields /\ Settles(q, t) /\ q.reinited \in BOOLEAN /\ q.ran = 0
      /\ q.key = call[c].key
  BY <1>3, <1>4, EnsuredSettles DEF CallFields
<1> HIDE DEF q
<1>6. q.pc = "joining"
  BY <1>3, <1>5 DEF Settles
<1>7. /\ IsSeq(shakes') /\ DistinctKeys(shakes')
      /\ \A i \in 1..Len(shakes') :
           \/ \E j \in 1..Len(shakes) : shakes'[i] = shakes[j]
           \/ /\ q.pc = "joining" /\ shakes'[i].key = q.key /\ shakes'[i].sid = 0
              /\ DOMAIN shakes'[i] = ShakeFields
  BY <1>1, <1>2, ShakingFacts DEF Keyed
<1>8. drops # 0
  BY <1>1, <1>2 DEF CallHolds, InUse, GotExpired
<1>9. Keyed' /\ RowsAlive'
  <2>1. \A j \in 1..Len(shakes') : DOMAIN shakes'[j] = ShakeFields
    BY <1>1, <1>7 DEF Keyed
  <2>2. ASSUME NEW m \in 1..Len(table'), NEW j \in 1..Len(shakes')
        PROVE  table'[m].key # shakes'[j].key
    <3>1. table'[m].key # q.key /\ \E k \in 1..Len(table) : table'[m] = table[k]
      BY <1>2, <1>3, <1>5
    <3>2. PICK k \in 1..Len(table) : table'[m] = table[k]
      BY <3>1
    <3> QED BY <1>1, <1>7, <3>1, <3>2 DEF Keyed
  <2>3. RowsAlive'
    BY <1>2, <1>8 DEF RowsAlive
  <2> QED BY <1>2, <1>3, <1>7, <2>1, <2>2, <2>3 DEF Keyed
<1>10. ASSUME NEW d \in Calls, call'[d] = call[d] PROVE CallHolds(call[d])'
  <2>1. CallHolds(call[d])
    BY <1>1
  <2>2. \A key : ShakesAlive(key) => ShakesAlive(key)'
    BY <1>2, <1>7, NewShakesAreQuiet
  <2> QED BY <1>2, <1>8, <1>10, <2>1, <2>2 DEF CallHolds, CallShape, InUse, GotExpired, Replayed, Failed
<1>11. ASSUME call'[c] = q PROVE CallHolds(call[c])'
  <2> DEFINE safe == \A i \in 1..Len(shakes') :
                       shakes'[i].key = q.key => shakes'[i].sid \in {0} \cup alive
  <2>1. ASSUME drops = 1, q.key \notin evicted PROVE safe
    <3>1. ShakesAlive(q.key)
      BY <1>1, <1>2, <1>5, <2>1 DEF CallHolds, InUse
    <3> QED BY <3>1, <1>7 DEF ShakesAlive
  <2>2. call[c]' = q
    BY <1>11
  <2>3. CallShape(q) /\ ~InUse(q) /\ ~GotExpired(q) /\ ~Failed(q)
    BY <1>5, <1>6 DEF CallShape, Pcs, InUse, GotExpired, Failed
  <2>4. CallShape(call[c])' /\ ~InUse(call[c])' /\ ~GotExpired(call[c])' /\ ~Failed(call[c])'
    BY <2>2, <2>3 DEF CallShape, InUse, GotExpired, Failed
  <2>5. drops' = 1 /\ call'[c].key \notin evicted' => ShakesAlive(call[c].key)'
    BY <1>2, <2>1, <2>2 DEF ShakesAlive
  <2> QED BY <1>2, <1>8, <2>4, <2>5 DEF CallHolds, Replayed
<1>12. \A d \in Calls : call'[d] = call[d] \/ (d = c /\ call'[d] = q)
  BY <1>1, <1>2
<1>13. DOMAIN call' = Calls /\ drops' \in Nat
  BY <1>1, <1>2
<1> QED BY <1>9, <1>10, <1>11, <1>12, <1>13 DEF DropInv

---------------------------------------------------------------------------
(* Handshakes, and what the source does *)

\* A handshake is answered, or its token refreshed: the table and the calls stay.
LEMMA ShakeAnswered ==
  ASSUME DropInv, NEW i \in DOMAIN shakes, Issue(i) \/ ShakeRefused(i)
  PROVE  DropInv'
<1>1. /\ DOMAIN call = Calls /\ Keyed /\ drops \in Nat /\ RowsAlive
      /\ \A d \in Calls : CallHolds(call[d])
  BY DEF DropInv
<1> DEFINE S == {shakes[j] : j \in 1..Len(shakes)}
<1>2. shakes \in Seq(S) /\ DOMAIN shakes = 1..Len(shakes) /\ Len(shakes) \in Nat
  BY <1>1, LenProperties DEF Keyed, IsSeq
<1>3. PICK row : /\ shakes' = [shakes EXCEPT ![i] = row] /\ row.key = shakes[i].key
                 /\ DOMAIN row = ShakeFields
                 /\ row.sid = shakes[i].sid \/ row.sid \in alive'
                 /\ alive \subseteq alive'
                 /\ UNCHANGED <<table, drops, evicted, call>>
  <2>1. CASE Issue(i)
    <3>1. PICK sid : /\ shakes' = [shakes EXCEPT ![i].sid = sid] /\ alive' = alive \cup {sid}
                     /\ UNCHANGED <<table, drops, evicted, call>>
      BY <2>1 DEF Issue
    <3> QED BY <3>1, <1>1, <1>2 DEF Keyed, ShakeFields
  <2>2. CASE ShakeRefused(i)
    <3>1. /\ shakes' = [shakes EXCEPT ![i].refreshed = TRUE] /\ alive' = alive
          /\ UNCHANGED <<table, drops, evicted, call>>
      BY <2>2 DEF ShakeRefused
    <3> QED BY <3>1, <1>1, <1>2 DEF Keyed, ShakeFields
  <2> QED BY <2>1, <2>2
<1>4. /\ Len(shakes') = Len(shakes) /\ IsSeq(shakes')
      /\ \A j \in 1..Len(shakes) :
           /\ shakes'[j].key = shakes[j].key /\ DOMAIN shakes'[j] = ShakeFields
           /\ shakes'[j].sid = shakes[j].sid \/ shakes'[j].sid \in alive'
  <2>1. shakes' \in Seq(S \cup {row}) /\ Len(shakes') = Len(shakes)
    <3> HIDE DEF S
    <3> QED BY <1>2, <1>3, ExceptSeq
  <2>2. IsSeq(shakes')
    BY <2>1, SeqIsSeq
  <2> QED BY <2>1, <2>2, <1>1, <1>2, <1>3 DEF Keyed
<1>5. Keyed' /\ RowsAlive'
  BY <1>1, <1>3, <1>4 DEF Keyed, RowsAlive, DistinctKeys
<1>6. ASSUME NEW d \in Calls PROVE CallHolds(call[d])'
  <2>1. CallHolds(call[d])
    BY <1>1
  <2>2. ShakesAlive(call[d].key) => ShakesAlive(call[d].key)'
    BY <1>3, <1>4 DEF ShakesAlive
  <2> QED BY <1>3, <2>1, <2>2
      DEF CallHolds, CallShape, InUse, GotExpired, HasRow, Replayed, Failed
<1> QED BY <1>1, <1>3, <1>5, <1>6 DEF DropInv

\* The source drops its sessions.  No handshake that was answered before the first
\* drop is of a key that a call has a session of: the table would have had it.
LEMMA DropKeeps ==
  ASSUME DropInv, SourceDrops
  PROVE  DropInv'
<1>1. /\ DOMAIN call = Calls /\ Keyed /\ drops \in Nat
      /\ \A d \in Calls : CallHolds(call[d])
  BY DEF DropInv
<1>2. drops' = drops + 1 /\ UNCHANGED <<table, shakes, evicted, call>>
  BY DEF SourceDrops
<1>3. Keyed' /\ RowsAlive'
  BY <1>1, <1>2 DEF Keyed, RowsAlive
<1>4. ASSUME NEW d \in Calls PROVE CallHolds(call[d])'
  <2>1. CallHolds(call[d])
    BY <1>1
  <2>2. ASSUME drops = 0, InUse(call[d]), call[d].key \notin evicted
        PROVE  \A j \in 1..Len(shakes) : shakes[j].key # call[d].key
    BY <1>1, <2>1, <2>2 DEF CallHolds, HasRow, Keyed
  <2>3. drops' = 1 => drops = 0
    BY <1>1, <1>2
  <2>4. drops' # 0 /\ (drops >= 2 => drops' >= 2)
    BY <1>1, <1>2
  <2> QED BY <1>2, <2>1, <2>2, <2>3, <2>4
      DEF CallHolds, CallShape, InUse, GotExpired, ShakesAlive, Failed
<1> QED BY <1>1, <1>2, <1>3, <1>4 DEF DropInv

\* A handshake ends, and its key has none.
LEMMA ShakeEnds ==
  ASSUME Keyed, NEW i \in DOMAIN shakes, shakes' = RemoveAt(shakes, i)
  PROVE  /\ IsSeq(shakes') /\ DistinctKeys(shakes')
         /\ \A j \in 1..Len(shakes') : /\ shakes'[j].key # shakes[i].key
                                       /\ \E k \in 1..Len(shakes) : shakes'[j] = shakes[k]
<1>1. i \in 1..Len(shakes)
  BY LenProperties DEF Keyed, IsSeq
<1> QED BY <1>1, RemoveAtFacts DEF Keyed

\* A handshake fails, and with it the calls that wait for it.
LEMMA ShakeFailsKeeps ==
  ASSUME DropInv, NEW i \in DOMAIN shakes, ShakeFails(i)
  PROVE  DropInv'
<1>1. /\ DOMAIN call = Calls /\ Keyed /\ drops \in Nat /\ RowsAlive
      /\ \A d \in Calls : CallHolds(call[d])
  BY DEF DropInv
<1>2. /\ shakes' = RemoveAt(shakes, i) /\ UNCHANGED <<table, alive, drops, evicted>>
      /\ call' = [c \in Calls |-> IF c \in Joined(shakes[i].key)
                                  THEN [call[c] EXCEPT !.pc = "done", !.res = "no_session"] ELSE call[c]]
  BY DEF ShakeFails
<1>3. /\ IsSeq(shakes') /\ DistinctKeys(shakes')
      /\ \A j \in 1..Len(shakes') : /\ shakes'[j].key # shakes[i].key
                                    /\ \E k \in 1..Len(shakes) : shakes'[j] = shakes[k]
  BY <1>1, <1>2, ShakeEnds
<1>4. Keyed' /\ RowsAlive'
  <2>1. \A j \in 1..Len(shakes') : DOMAIN shakes'[j] = ShakeFields
    BY <1>1, <1>3 DEF Keyed
  <2>2. ASSUME NEW m \in 1..Len(table'), NEW j \in 1..Len(shakes')
        PROVE  table'[m].key # shakes'[j].key
    <3>1. PICK k \in 1..Len(shakes) : shakes'[j] = shakes[k]
      BY <1>3
    <3> QED BY <1>1, <1>2, <3>1 DEF Keyed
  <2>3. RowsAlive'
    BY <1>1, <1>2, <1>3 DEF RowsAlive
  <2> QED BY <1>1, <1>2, <1>3, <2>1, <2>2, <2>3 DEF Keyed
<1>5. ASSUME NEW d \in Calls PROVE CallHolds(call[d])'
  <2>1. CallHolds(call[d])
    BY <1>1
  <2>2. \A key : ShakesAlive(key) => ShakesAlive(key)'
    BY <1>2, <1>3, NewShakesAreQuiet
  <2>3. CASE d \notin Joined(shakes[i].key)
    <3>1. call'[d] = call[d] /\ UNCHANGED <<table, alive, drops, evicted>>
      BY <1>2, <2>3
    <3> QED BY <2>1, <2>2, <3>1
        DEF CallHolds, CallShape, InUse, GotExpired, HasRow, Replayed, Failed
  <2>4. CASE d \in Joined(shakes[i].key)
    <3> DEFINE q == [call[d] EXCEPT !.pc = "done", !.res = "no_session"]
    <3>1. call'[d] = q
      BY <1>2, <2>4
    <3>2. /\ DOMAIN q = CallFields /\ q.pc = "done" /\ q.res = "no_session" /\ q.ran \in 0..1
          /\ q.reinited \in BOOLEAN /\ (drops = 0 => ~q.reinited)
      BY <2>1 DEF CallHolds, CallShape, CallFields
    <3> HIDE DEF q
    <3> QED BY <1>2, <3>1, <3>2 DEF CallHolds, CallShape, Pcs, InUse, GotExpired, Replayed, Failed
  <2> QED BY <2>3, <2>4
<1> QED BY <1>1, <1>2, <1>4, <1>5 DEF DropInv

\* The oldest row makes room.
LEMMA KeptFacts ==
  ASSUME IsSeq(table), DistinctKeys(table), NEW kept,
         kept = IF Len(table) >= SessionCap THEN Tail(table) ELSE table
  PROVE  /\ IsSeq(kept) /\ DistinctKeys(kept)
         /\ \A m \in 1..Len(kept) : \E k \in 1..Len(table) : kept[m] = table[k]
         /\ \A k \in 1..Len(table) :
              \/ \E m \in 1..Len(kept) : kept[m] = table[k]
              \/ Len(table) >= SessionCap /\ table[k].key = Head(table).key
<1> DEFINE S == {table[k] : k \in 1..Len(table)}
<1>1. table \in Seq(S) /\ Len(table) \in Nat
  BY LenProperties DEF IsSeq
<1>2. CASE Len(table) >= SessionCap
  <2>1. table # <<>>
    BY <1>1, <1>2, SessionAssumption, EmptySeq
  <2> HIDE DEF S
  <2>2. /\ kept \in Seq(S) /\ Len(kept) = Len(table) - 1 /\ Head(table) = table[1]
        /\ \A m \in 1..Len(kept) : kept[m] = table[m + 1]
    BY <1>1, <1>2, <2>1, HeadTailProperties
  <2>3. IsSeq(kept)
    BY <2>2, SeqIsSeq
  <2>4. DistinctKeys(kept) /\ \A m \in 1..Len(kept) : \E k \in 1..Len(table) : kept[m] = table[k]
    BY <1>1, <2>2 DEF DistinctKeys
  <2>5. ASSUME NEW k \in 1..Len(table), k # 1 PROVE \E m \in 1..Len(kept) : kept[m] = table[k]
    <3>1. k - 1 \in 1..Len(kept) /\ (k - 1) + 1 = k
      BY <1>1, <2>2, <2>5
    <3> QED BY <2>2, <3>1
  <2> QED BY <1>2, <2>2, <2>3, <2>4, <2>5
<1>3. CASE ~(Len(table) >= SessionCap)
  BY <1>3
<1> QED BY <1>2, <1>3

\* A handshake ends with a session: the table has it, and the calls that waited
\* for it go on with it.
LEMMA EstablishKeeps ==
  ASSUME DropInv, NEW i \in DOMAIN shakes, Establish(i)
  PROVE  DropInv'
<1> DEFINE key == shakes[i].key
           full == Len(table) >= SessionCap
           kept == IF full THEN Tail(table) ELSE table
           row == [key |-> key, sid |-> shakes[i].sid]
<1>1. /\ DOMAIN call = Calls /\ Keyed /\ drops \in Nat /\ RowsAlive
      /\ \A d \in Calls : CallHolds(call[d])
  BY DEF DropInv
<1>2. /\ i \in 1..Len(shakes) /\ shakes[i].sid # 0
      /\ shakes' = RemoveAt(shakes, i) /\ UNCHANGED <<alive, drops>>
      /\ table' = IF \E j \in DOMAIN kept : kept[j].key = key
                  THEN [j \in DOMAIN kept |-> IF kept[j].key = key THEN row ELSE kept[j]]
                  ELSE Append(kept, row)
      /\ evicted' = IF full THEN evicted \cup {Head(table).key} ELSE evicted
      /\ call' = [c \in Calls |-> IF c \in Joined(key)
                                  THEN [call[c] EXCEPT !.pc = "sent", !.sid = row.sid] ELSE call[c]]
  BY <1>1, LenProperties DEF Establish, Keyed, IsSeq
<1>3. /\ IsSeq(shakes') /\ DistinctKeys(shakes')
      /\ \A j \in 1..Len(shakes') : /\ shakes'[j].key # key
                                    /\ \E k \in 1..Len(shakes) : shakes'[j] = shakes[k]
  BY <1>1, <1>2, ShakeEnds
<1>4. /\ IsSeq(kept) /\ DistinctKeys(kept)
      /\ \A m \in 1..Len(kept) : \E k \in 1..Len(table) : kept[m] = table[k]
      /\ \A k \in 1..Len(table) :
           (\E m \in 1..Len(kept) : kept[m] = table[k]) \/ table[k].key \in evicted'
  <2>1. IsSeq(table) /\ DistinctKeys(table)
    BY <1>1 DEF Keyed
  <2>2. full => Head(table).key \in evicted'
    BY <1>2
  <2>3. kept = IF Len(table) >= SessionCap THEN Tail(table) ELSE table
    OBVIOUS
  <2> HIDE DEF kept
  <2>4. /\ IsSeq(kept) /\ DistinctKeys(kept)
        /\ \A m \in 1..Len(kept) : \E k \in 1..Len(table) : kept[m] = table[k]
        /\ \A k \in 1..Len(table) :
             \/ \E m \in 1..Len(kept) : kept[m] = table[k]
             \/ Len(table) >= SessionCap /\ table[k].key = Head(table).key
    BY <2>1, <2>3, KeptFacts
  <2> QED BY <2>2, <2>4
<1>5. DOMAIN kept = 1..Len(kept) /\ Len(kept) \in Nat
  BY <1>4, LenProperties DEF IsSeq
<1> HIDE DEF kept
<1>6. \A m \in 1..Len(kept) : kept[m].key # key
  <2>1. \A k \in 1..Len(table) : table[k].key # key
    BY <1>1, <1>2 DEF Keyed
  <2> QED BY <1>4, <2>1
<1>7. row.key = key /\ row.sid = shakes[i].sid
  OBVIOUS
<1> HIDE DEF row
<1>8. table' = Append(kept, row)
  BY <1>2, <1>5, <1>6
<1>9. /\ IsSeq(table') /\ DistinctKeys(table') /\ Len(table') = Len(kept) + 1 /\ table'[Len(table')] = row
      /\ \A m \in 1..Len(kept) : table'[m] = kept[m]
      /\ \A m \in 1..Len(table') : table'[m] = row \/ \E k \in 1..Len(kept) : table'[m] = kept[k]
  BY <1>4, <1>6, <1>7, <1>8, AppendFacts
<1>10. \A m \in 1..Len(table') : table'[m] = row \/ \E k \in 1..Len(table) : table'[m] = table[k]
  <2>1. SUFFICES ASSUME NEW m \in 1..Len(table'), table'[m] # row
                 PROVE  \E k \in 1..Len(table) : table'[m] = table[k]
    OBVIOUS
  <2>2. PICK n \in 1..Len(kept) : table'[m] = kept[n]
    BY <1>9, <2>1
  <2> QED BY <1>4, <2>2
<1> HIDE DEF full
<1>11. Keyed'
  <2>1. \A j \in 1..Len(shakes') : DOMAIN shakes'[j] = ShakeFields
    BY <1>1, <1>3 DEF Keyed
  <2>2. ASSUME NEW m \in 1..Len(table'), NEW j \in 1..Len(shakes')
        PROVE  table'[m].key # shakes'[j].key
    <3>1. PICK k \in 1..Len(shakes) : shakes'[j] = shakes[k]
      BY <1>3
    <3>2. shakes'[j].key # key /\ \A n \in 1..Len(table) : table[n].key # shakes'[j].key
      BY <1>1, <1>3, <3>1 DEF Keyed
    <3>3. CASE table'[m] = row
      BY <1>7, <3>2, <3>3
    <3>4. CASE \E n \in 1..Len(table) : table'[m] = table[n]
      BY <3>2, <3>4
    <3> QED BY <1>10, <3>3, <3>4
  <2> QED BY <1>3, <1>9, <2>1, <2>2 DEF Keyed
<1>12. RowsAlive'
  <2> SUFFICES ASSUME drops = 0
               PROVE  /\ \A m \in 1..Len(table') : table'[m].sid \in alive
                      /\ \A j \in 1..Len(shakes') : shakes'[j].sid \in {0} \cup alive
    BY <1>2 DEF RowsAlive
  <2>1. /\ \A k \in 1..Len(table) : table[k].sid \in alive
        /\ \A k \in 1..Len(shakes) : shakes[k].sid \in {0} \cup alive
    BY <1>1 DEF RowsAlive
  <2>2. row.sid \in alive
    BY <1>2, <1>7, <2>1
  <2>3. ASSUME NEW m \in 1..Len(table') PROVE table'[m].sid \in alive
    BY <1>10, <2>1, <2>2
  <2>4. ASSUME NEW j \in 1..Len(shakes') PROVE shakes'[j].sid \in {0} \cup alive
    BY <1>3, <2>1
  <2> QED BY <2>3, <2>4
<1>13. drops' = drops /\ alive' = alive /\ evicted \subseteq evicted'
  BY <1>2
<1>14. ASSUME NEW d \in Calls, call'[d] = call[d] PROVE CallHolds(call[d])'
  <2>1. CallHolds(call[d])
    BY <1>1
  <2>2. ShakesAlive(call[d].key) => ShakesAlive(call[d].key)'
    <3>1. \A k : ShakesAlive(k) => ShakesAlive(k)'
      BY <1>2, <1>3, NewShakesAreQuiet
    <3> QED BY <3>1, <1>14
  <2>3. evicted \subseteq evicted'
    BY <1>2
  <2>4. ASSUME HasRow(call[d].key), call[d].key \notin evicted' PROVE HasRow(call[d].key)'
    <3>1. PICK k \in 1..Len(table) : table[k].key = call[d].key
      BY <2>4 DEF HasRow
    <3>2. PICK m \in 1..Len(kept) : kept[m] = table[k]
      BY <1>4, <2>4, <3>1
    <3>3. m \in 1..Len(table') /\ table'[m].key = call'[d].key
      BY <1>5, <1>9, <1>14, <3>1, <3>2
    <3> QED BY <3>3 DEF HasRow
  <2>5. CallShape(call[d])' /\ (Failed(call[d])' => drops' >= 2 \/ call'[d].key \in evicted')
    BY <1>2, <1>14, <2>1, <2>3 DEF CallHolds, CallShape, Failed
  <2>6. drops' = 0 => /\ ~call'[d].reinited
                      /\ InUse(call[d])' => call'[d].sid \in alive' /\ ~GotExpired(call[d])'
                      /\ InUse(call[d])' /\ call'[d].key \notin evicted' => HasRow(call[d].key)'
    BY <1>14, <1>13, <2>1, <2>3, <2>4 DEF CallHolds, InUse, GotExpired
  <2>7. drops' = 1 /\ call'[d].key \notin evicted' =>
          /\ InUse(call[d])' => ShakesAlive(call[d].key)'
          /\ call'[d].reinited => Replayed(call[d])'
    BY <1>14, <1>13, <2>1, <2>2, <2>3 DEF CallHolds, InUse, GotExpired, Replayed
  <2> QED BY <2>5, <2>6, <2>7 DEF CallHolds
<1>15. ASSUME NEW d \in Joined(key) PROVE CallHolds(call[d])'
  <2> DEFINE q == [call[d] EXCEPT !.pc = "sent", !.sid = row.sid]
  <2>1. d \in Calls /\ call[d].pc = "joining" /\ call[d].key = key /\ CallHolds(call[d])
    BY <1>1 DEF Joined
  <2>2. call'[d] = q
    BY <1>2, <2>1
  <2>3. /\ DOMAIN q = CallFields /\ q.pc = "sent" /\ q.sid = row.sid /\ q.key = key
        /\ q.ran = 0 /\ q.reinited \in BOOLEAN /\ q.reinited = call[d].reinited
    BY <2>1 DEF CallHolds, CallShape, CallFields
  <2>4. drops = 0 => ~q.reinited /\ row.sid \in alive
    BY <1>1, <1>2, <1>7, <2>1, <2>3 DEF CallHolds, RowsAlive
  <2>5. drops = 1 /\ key \notin evicted' /\ q.reinited => row.sid \in alive
    BY <1>2, <1>7, <2>1, <2>3 DEF CallHolds, Replayed, ShakesAlive
  <2>6. \E m \in 1..Len(table') : table'[m].key = key
    BY <1>5, <1>7, <1>9
  <2> HIDE DEF q, key
  <2>7. CallShape(q) /\ ~GotExpired(q) /\ ~Failed(q)
    BY <2>3 DEF CallShape, Pcs, GotExpired, Failed
  <2>8. CallShape(call[d])' /\ ~GotExpired(call[d])' /\ ~Failed(call[d])'
    BY <2>2, <2>7 DEF CallShape, GotExpired, Failed
  <2>9. call'[d].key = key /\ ShakesAlive(call[d].key)'
    BY <1>3, <2>2, <2>3 DEF ShakesAlive
  <2>10. HasRow(call[d].key)'
    BY <2>6, <2>9 DEF HasRow
  <2>11. call'[d].sid = row.sid /\ call'[d].reinited = q.reinited /\ call'[d].pc = "sent"
    BY <2>2, <2>3
  <2>12. drops' = 0 => ~call'[d].reinited /\ call'[d].sid \in alive'
    BY <1>13, <2>4, <2>11
  <2>13. drops' = 1 /\ call'[d].key \notin evicted' /\ call'[d].reinited => Replayed(call[d])'
    BY <1>13, <2>5, <2>8, <2>9, <2>11 DEF Replayed
  <2> QED BY <2>8, <2>9, <2>10, <2>12, <2>13 DEF CallHolds
<1>16. \A d \in Calls : call'[d] = call[d] \/ d \in Joined(key)
  BY <1>2
<1>17. DOMAIN call' = Calls /\ drops' \in Nat
  BY <1>1, <1>2
<1> QED BY <1>11, <1>12, <1>14, <1>15, <1>16, <1>17 DEF DropInv

---------------------------------------------------------------------------
(* The theorem *)

\* Nothing has happened yet.
LEMMA InitHolds ==
  ASSUME SessionsInit
  PROVE  DropInv
<1>1. /\ table = <<>> /\ shakes = <<>> /\ drops = 0 /\ call = [c \in Calls |-> NewCall]
  BY DEF SessionsInit
<1>2. <<>> \in Seq({}) /\ Len(<<>>) = 0
  BY EmptySeq
<1>3. IsSeq(<<>>) /\ DistinctKeys(<<>>)
  <2>1. 1..0 = {}
    OBVIOUS
  <2> QED BY <1>2, <2>1, SeqIsSeq DEF DistinctKeys
<1>4. Keyed /\ RowsAlive
  BY <1>1, <1>2, <1>3 DEF Keyed, RowsAlive
<1>5. /\ NewCall.pc = "idle" /\ NewCall.ran = 0 /\ ~NewCall.reinited
      /\ NewCall.reinited \in BOOLEAN /\ DOMAIN NewCall = CallFields
  BY DEF NewCall, CallFields
<1>6. CallHolds(NewCall)
  <2>1. /\ CallShape(NewCall) /\ ~InUse(NewCall) /\ ~GotExpired(NewCall) /\ ~Failed(NewCall)
        /\ drops # 1
    BY <1>1, <1>5 DEF CallShape, Pcs, InUse, GotExpired, Failed
  <2> QED BY <1>5, <2>1 DEF CallHolds
<1>7. DOMAIN call = Calls /\ \A c \in Calls : CallHolds(call[c])
  <2>1. DOMAIN call = Calls /\ \A c \in Calls : call[c] = NewCall
    BY <1>1
  <2> QED BY <1>6, <2>1
<1> QED BY <1>1, <1>4, <1>7 DEF DropInv

\* A request is answered, also one that is nobody's.
LEMMA ServeKeeps ==
  ASSUME DropInv, NEW c, NEW value, Serve(c, value)
  PROVE  DropInv'
<1>1. CASE c \in Calls
  BY <1>1, CallSteps
<1>2. CASE c \notin Calls
  <2>1. /\ DOMAIN call = Calls /\ Keyed /\ drops \in Nat /\ RowsAlive
        /\ \A d \in Calls : CallHolds(call[d])
    BY DEF DropInv
  <2>2. UNCHANGED <<table, shakes, alive, drops, evicted>>
    BY DEF Serve
  <2>3. DOMAIN call' = Calls /\ \A d \in Calls : call'[d] = call[d]
    BY <1>2, <2>1 DEF Serve
  <2>4. Keyed' /\ RowsAlive' /\ drops' \in Nat
    BY <2>1, <2>2 DEF Keyed, RowsAlive
  <2>5. ASSUME NEW d \in Calls PROVE CallHolds(call[d])'
    BY <2>1, <2>2, <2>3
       DEF CallHolds, CallShape, InUse, GotExpired, ShakesAlive, HasRow, Replayed, Failed
  <2> QED BY <2>3, <2>4, <2>5 DEF DropInv
<1> QED BY <1>1, <1>2

\* What the sessions do, and nothing else.
LEMMA SessionStepKeeps ==
  ASSUME DropInv, SessionStep
  PROVE  DropInv'
<1>1. ASSUME NEW i \in DOMAIN shakes, Issue(i) \/ ShakeRefused(i) \/ Establish(i) \/ ShakeFails(i)
      PROVE  DropInv'
  BY <1>1, ShakeAnswered, EstablishKeeps, ShakeFailsKeeps
<1>2. CASE SourceDrops
  BY <1>2, DropKeeps
<1>3. ASSUME NEW c \in Calls, Refresh(c) \/ Finish(c) PROVE DropInv'
  BY <1>3, CallSteps
<1> QED BY <1>1, <1>2, <1>3 DEF SessionStep

\* A step of the connector, of its clients or of the source.
LEMMA NextKeeps ==
  ASSUME DropInv, Next
  PROVE  DropInv'
<1>1. ASSUME UNCHANGED sessionVars PROVE DropInv'
  BY <1>1, SessionsStandStill DEF sessionVars
<1>2. ASSUME NEW c \in setup.clients,
             Prefetch(c) \/ GiveUp(c) \/ \E kind \in Kinds : List(c, kind)
      PROVE  DropInv'
  BY <1>1, <1>2 DEF Prefetch, GiveUp, List
<1>3. ASSUME NEW w \in DOMAIN walks, Governed(w) \/ ToolsIn(w) \/ PromptsIn(w) \/ WalkFails(w)
      PROVE  DropInv'
  BY <1>1, <1>3 DEF Governed, ToolsIn, PromptsIn, WalkFails
<1>4. ASSUME NEW w, NEW hop, Send(w, hop) PROVE DropInv'
  BY <1>4, BeginKeeps DEF Send
<1>5. ASSUME NEW c, NEW p, NEW retry, Invoke(c, p, retry) PROVE DropInv'
  BY <1>5, BeginKeeps DEF Invoke
<1>6. ASSUME NEW p, Expire(p) PROVE DropInv'
  BY <1>1, <1>6 DEF Expire
<1>7. CASE Advertise \/ Flush \/ Shutdown
  BY <1>1, <1>7 DEF Advertise, Flush, Shutdown
<1>8. ASSUME NEW c \in Calls, Abort(c) \/ Expired(c) PROVE DropInv'
  BY <1>8, CallSteps, ReinitKeeps DEF Expired
<1>9. ASSUME NEW c, Serve(c, advert) PROVE DropInv'
  BY <1>9, ServeKeeps
<1>10. CASE SessionStep
  BY <1>10, SessionStepKeeps
<1> QED BY <1>2, <1>3, <1>4, <1>5, <1>6, <1>7, <1>8, <1>9, <1>10 DEF Next

\* A step of an operator's check.
LEMMA OperatorKeeps ==
  ASSUME DropInv, OperatorStep
  PROVE  DropInv'
<1>1. ASSUME UNCHANGED sessionVars PROVE DropInv'
  BY <1>1, SessionsStandStill DEF sessionVars
<1>2. PICK step : \/ Answer(step) \/ Fails(step) \/ Throttled(step) \/ TokenDies \/ Hear(step)
                  \/ Dial(step) \/ Decide(step)
  BY DEF OperatorStep
<1>3. CASE Answer(step) \/ Fails(step) \/ Throttled(step) \/ TokenDies \/ Hear(step)
  BY <1>1, <1>3 DEF Answer, Fails, Throttled, TokenDies, Hear
<1>4. CASE Dial(step)
  BY <1>4, BeginKeeps DEF Dial
<1>5. CASE Decide(step)
  BY <1>5, ServeKeeps DEF Decide
<1> QED BY <1>2, <1>3, <1>4, <1>5

\* server-tools.js:598-650.  A key has one session or one handshake; before the
\* first drop the table has every session in use that was not pushed out, and after
\* it no call that uses a session sees a handshake that was answered before it.
THEOREM SourceInvariant == Spec => []DropInv
<1>1. SessionsInit => DropInv
  BY InitHolds
<1>2. DropInv /\ [OperatorNext]_opVars => DropInv'
  <2> SUFFICES ASSUME DropInv, [OperatorNext]_opVars PROVE DropInv'
    OBVIOUS
  <2>1. CASE OperatorStep
    BY <2>1, OperatorKeeps
  <2>2. CASE Next
    BY <2>2, NextKeeps
  <2>3. CASE UNCHANGED opVars
    BY <2>3, SessionsStandStill DEF opVars, sessionVars
  <2> QED BY <2>1, <2>2, <2>3 DEF OperatorNext
<1> QED BY <1>1, <1>2, PTL DEF Spec

\* server-tools.js:608.  One drop of the source's sessions fails no call that may be
\* replayed, unless the cap pushed out a session of its key; no call is run twice.
THEOREM OneDropIsSurvived == Spec => []OneExpiryIsSurvived
<1>1. DropInv => OneExpiryIsSurvived
  BY DEF DropInv, CallHolds, CallShape, Failed, OneExpiryIsSurvived
<1> QED BY <1>1, SourceInvariant, PTL

---------------------------------------------------------------------------
(* The listings: the invariant *)

EntryFields == {"kept", "fresh", "ok", "complete", "tools", "prompts"}
WalkFields == {"who", "pc", "prev"}
ClientFields == {"for", "on", "seen", "told", "excused"}

\* An entry that is no catalog has nothing in it, and one that a listing of a kind
\* is answered from has something of that kind, if it is enabled at all.
EntryHolds(e, surface) ==
  /\ DOMAIN e = EntryFields /\ e.ok \in BOOLEAN /\ e.kept \in BOOLEAN
  /\ e.ok => e.kept
  /\ ~e.ok => e.tools = None /\ e.prompts = None
  /\ \A k \in Kinds : k \notin surface => e[k] = None
  /\ \A k \in Kinds : k \in surface /\ Satisfies(e, k) => e[k] # None

Early(q) == q.pc \in {"gov", "tools"}
Runs(q) == Early(q) \/ q.pc = "prompts"

\* A walk that runs is the one its principal has.
WalkHolds(w) ==
  /\ DOMAIN walks[w] = WalkFields /\ walks[w].who \in Principals
  /\ EntryHolds(walks[w].prev, setup.surface)
  /\ walks[w].pc \in {"gov", "tools", "prompts", "failed", "done"}
  /\ Runs(walks[w]) => inflight[walks[w].who] = w
  /\ walks[w].pc = "prompts" => Back(w, "tools")

\* The entry beside a walk (q, which found the tools): the one it started from, then
\* the one it stored.
Beside(e, q, found) ==
  /\ e.kept /\ Early(q) =>
       /\ e.ok = q.prev.ok /\ e.complete = q.prev.complete
       /\ e.tools = q.prev.tools /\ e.prompts = q.prev.prompts
  /\ e.kept /\ ~Early(q) => e.ok /\ e.tools = found /\ e.prompts = q.prev.prompts

SiteHolds(p) ==
  /\ EntryHolds(cache[p], setup.surface)
  /\ LET w == inflight[p]
     IN  w # 0 => /\ w \in 1..Len(walks) /\ walks[w].who = p /\ Runs(walks[w])
                  /\ ~down => Beside(cache[p], walks[w], Value(w, "tools"))

\* What a change of the catalog will be measured by: the entry, or while a walk (w,
\* q) runs, what it will compare its result with.
StandsBy(w, e, q, found, k) ==
  IF w = 0 THEN AdvertisedIn(e, k)
  ELSE IF Early(q) THEN AdvertisedIn(q.prev, k)
  ELSE IF e.kept THEN e[k]
  ELSE IF ~q.prev.ok THEN None
  ELSE IF k = "tools" THEN found ELSE q.prev.prompts
Stands(p, k) == StandsBy(inflight[p], cache[p], walks[inflight[p]], Value(inflight[p], "tools"), k)

\* What is enabled is never empty at the source: whatever follows None is a change.
Fits(seen, k, v, surface) == seen = "never" \/ seen = v \/ (v = None /\ k \in surface)

\* A client (q) asks, was or will be told, or its last answer is what stands (v).
Knows(q, k, v, soon, surface) ==
  \/ q.for = k
  \/ k \in soon \/ k \in q.told \/ k \in q.excused
  \/ Fits(q.seen[k], k, v, surface)

\* A listing waits for the walk of its principal (w, r) and not for what is kept (e).
Waits(q, w, e, r, closed) ==
  q.for # None => /\ w # 0 /\ q.on = w
                /\ (~closed /\ e.kept /\ ~Early(r) => ~Satisfies(e, q.for))

ClientShape(q, surface) ==
  /\ DOMAIN q = ClientFields /\ q.for \in Kinds \cup {None} /\ DOMAIN q.seen = Kinds
  /\ \A k \in Kinds : k \notin surface => q.seen[k] \in {"never", None}

ClientHolds(c) ==
  LET q == client[c]
      p == PrincipalOf[c]
  IN  /\ ClientShape(q, setup.surface)
      /\ Waits(q, inflight[p], cache[p], walks[inflight[p]], down)
      /\ c \in setup.reach /\ ~down =>
           \A k \in Kinds : Knows(q, k, Stands(p, k), pending, setup.surface)

HopHolds(q) == q.res = "ok" => q.value # None

ListingInv ==
  /\ setup.surface \subseteq Kinds /\ setup.clients \subseteq Clients
  /\ DOMAIN cache = Principals /\ DOMAIN inflight = Principals /\ DOMAIN client = Clients
  /\ IsSeq(walks) /\ Len(walks) <= MaxWalks
  /\ advert # None /\ \A w \in 1..MaxWalks, hop \in Kinds : HopHolds(call[<<w, hop>>])
  /\ \A w \in 1..Len(walks) : WalkHolds(w)
  /\ \A p \in Principals : SiteHolds(p)
  /\ \A c \in Clients : ClientHolds(c)

\* The one text that is empty is not one of the others.
LEMMA NoneIsNothing == None \notin Kinds /\ None # "v1" /\ None # "v2" /\ None # "never"
BY Zenon DEF None, Kinds

---------------------------------------------------------------------------
(* The calls of the walks *)

\* A hop that is over stays as it is, and one that was answered has a value.
HopsGoOn ==
  \A w \in 1..MaxWalks, hop \in Kinds :
    /\ call[<<w, hop>>].pc = "done" => call'[<<w, hop>>] = call[<<w, hop>>]
    /\ HopHolds(call'[<<w, hop>>])

\* What a walk has found it has found.
LEMMA FoundStays ==
  ASSUME HopsGoOn, setup' = setup, setup.surface \subseteq Kinds, NEW w \in 1..MaxWalks,
         NEW hop \in Kinds, Back(w, hop)
  PROVE  Back(w, hop)' /\ Value(w, hop)' = Value(w, hop)
<1>1. CASE hop \in setup.surface
  <2>1. call[<<w, hop>>].pc = "done" /\ call[<<w, hop>>].res = "ok"
    BY <1>1 DEF Back
  <2>2. call'[<<w, hop>>] = call[<<w, hop>>]
    BY <2>1 DEF HopsGoOn
  <2> QED BY <1>1, <2>1, <2>2 DEF Back, Value
<1>2. CASE hop \notin setup.surface
  BY <1>2 DEF Back, Value
<1> QED BY <1>1, <1>2

\* A hop that went well has a value, if there is one to be had.
LEMMA FoundHolds ==
  ASSUME \A w \in 1..MaxWalks, hop \in Kinds : HopHolds(call[<<w, hop>>]),
         NEW w \in 1..MaxWalks, NEW hop \in Kinds, Back(w, hop)
  PROVE  /\ hop \in setup.surface => Value(w, hop) # None
         /\ hop \notin setup.surface => Value(w, hop) = None
BY DEF Back, Value, HopHolds

---------------------------------------------------------------------------
(* The sequence of the walks *)

\* A walk goes on, and the others stay.
LEMMA GoesFacts ==
  ASSUME IsSeq(walks), NEW w \in 1..Len(walks), NEW pc, Goes(w, pc)
  PROVE  /\ IsSeq(walks') /\ Len(walks') = Len(walks)
         /\ walks'[w] = [walks[w] EXCEPT !.pc = pc]
         /\ \A x \in 1..Len(walks) : x # w => walks'[x] = walks[x]
<1> DEFINE S == {walks[i] : i \in 1..Len(walks)}
           q == [walks[w] EXCEPT !.pc = pc]
           R == S \cup {q}
<1>1. walks \in Seq(S) /\ Len(walks) \in Nat /\ walks \in [1..Len(walks) -> S]
  BY LenProperties DEF IsSeq
<1>2. walks' = [walks EXCEPT ![w] = q]
  BY DEF Goes
<1> HIDE DEF q
<1>3. walks' \in [1..Len(walks) -> R]
  BY <1>1, <1>2
<1> HIDE DEF S
<1>4. walks' \in Seq(R)
  BY <1>1, <1>3, SeqDef
<1>5. Len(walks') = Len(walks)
  BY <1>1, <1>3, <1>4, LenProperties
<1>6. IsSeq(walks')
  BY <1>4, SeqIsSeq
<1> QED BY <1>1, <1>2, <1>5, <1>6 DEF q

\* A walk is added, and the others stay.
LEMMA AppendWalk ==
  ASSUME IsSeq(walks), NEW q, walks' = Append(walks, q)
  PROVE  /\ IsSeq(walks') /\ Len(walks) \in Nat /\ Len(walks') = Len(walks) + 1
         /\ walks'[Len(walks')] = q
         /\ \A x \in 1..Len(walks) : walks'[x] = walks[x]
<1> DEFINE R == {walks[i] : i \in 1..Len(walks)} \cup {q}
<1>1. Len(walks) \in Nat /\ walks \in Seq(R)
  <2>1. Len(walks) \in Nat /\ walks \in [1..Len(walks) -> {walks[i] : i \in 1..Len(walks)}]
    BY LenProperties DEF IsSeq
  <2>2. walks \in [1..Len(walks) -> R]
    BY <2>1
  <2> QED BY <2>1, <2>2, SeqDef
<1> HIDE DEF R
<1>2. q \in R
  BY DEF R
<1>3. walks' \in Seq(R)
  BY <1>1, <1>2, AppendProperties
<1>4. Len(walks') = Len(walks) + 1 /\ walks'[Len(walks) + 1] = q
  BY <1>1, <1>2, AppendProperties
<1>5. \A x \in 1..Len(walks) : walks'[x] = walks[x]
  BY <1>1, <1>2, AppendProperties
<1> QED BY <1>1, <1>3, <1>4, <1>5, SeqIsSeq

---------------------------------------------------------------------------
(* What a client knows *)

\* What a client knows follows what stands, if it is told of a change.
LEMMA KnowsMoves ==
  ASSUME NEW q, NEW k, NEW v, NEW w, NEW soon, NEW later, NEW surface,
         Knows(q, k, v, soon, surface), soon \subseteq later,
         w = v \/ k \in later \/ (w = None /\ k \in surface)
  PROVE  Knows(q, k, w, later, surface)
BY DEF Knows, Fits

\* A listing is over.
LEMMA AnsweredFacts ==
  ASSUME NEW surface, NEW q, ClientShape(q, surface), q.for \in Kinds,
         NEW e, EntryHolds(e, surface)
  PROVE  /\ ClientShape(Answered(q, e), surface)
         /\ Answered(q, e).for = None /\ Answered(q, e).told = q.told
         /\ Answered(q, e).excused = q.excused \ {q.for}
         /\ Answered(q, e).seen[q.for] = AdvertisedIn(e, q.for)
         /\ \A k \in Kinds : k # q.for => Answered(q, e).seen[k] = q.seen[k]
<1> DEFINE a == Answered(q, e)
<1>1. DOMAIN q = ClientFields /\ DOMAIN q.seen = Kinds
  BY DEF ClientShape
<1>2. /\ DOMAIN a = ClientFields /\ a.for = None /\ a.told = q.told /\ a.excused = q.excused \ {q.for}
      /\ a.seen = [q.seen EXCEPT ![q.for] = AdvertisedIn(e, q.for)]
  BY <1>1 DEF Answered, ClientFields
<1>3. /\ DOMAIN a.seen = Kinds /\ a.seen[q.for] = AdvertisedIn(e, q.for)
      /\ \A k \in Kinds : k # q.for => a.seen[k] = q.seen[k]
  BY <1>1, <1>2
<1> HIDE DEF a
<1>4. ASSUME NEW k \in Kinds, k \notin surface PROVE a.seen[k] \in {"never", None}
  BY <1>3, <1>4 DEF ClientShape, EntryHolds, AdvertisedIn
<1> QED BY <1>2, <1>3, <1>4 DEF ClientShape, a

\* A client that was answered knows what stands, if that is the answer, or a change
\* from it will be told.
LEMMA AnsweredKnows ==
  ASSUME NEW surface, NEW q, ClientShape(q, surface), q.for \in Kinds,
         NEW e, EntryHolds(e, surface), NEW a, a = Answered(q, e),
         NEW k \in Kinds, NEW v, NEW soon,
         k # q.for => Knows(q, k, v, soon, surface),
         k = q.for => Fits(AdvertisedIn(e, k), k, v, surface)
  PROVE  Knows(a, k, v, soon, surface)
<1>1. /\ a.for = None /\ a.told = q.told /\ a.excused = q.excused \ {q.for}
      /\ a.seen[q.for] = AdvertisedIn(e, q.for)
      /\ \A x \in Kinds : x # q.for => a.seen[x] = q.seen[x]
  BY AnsweredFacts
<1>2. CASE k = q.for
  BY <1>1, <1>2 DEF Knows
<1>3. CASE k # q.for
  BY <1>1, <1>3 DEF Knows
<1> QED BY <1>2, <1>3

---------------------------------------------------------------------------
(* What a step leaves alone *)

\* The process goes on as before.
SameProcess ==
  /\ setup' = setup /\ down' = down /\ pending \subseteq pending'
  /\ advert' # None /\ HopsGoOn
  /\ DOMAIN cache' = Principals /\ DOMAIN inflight' = Principals /\ DOMAIN client' = Clients
  /\ IsSeq(walks') /\ Len(walks) <= Len(walks') /\ Len(walks') <= MaxWalks

\* Nothing happens to the catalog of a principal.
SameSite(p) ==
  /\ cache'[p] = cache[p] /\ inflight'[p] = inflight[p]
  /\ inflight[p] # 0 => walks'[inflight[p]] = walks[inflight[p]]

\* What is known of the walk of a principal.
LEMMA WalkOf ==
  ASSUME ListingInv, NEW p \in Principals, inflight[p] # 0
  PROVE  /\ inflight[p] \in 1..Len(walks) /\ inflight[p] \in 1..MaxWalks
         /\ walks[inflight[p]].who = p /\ Runs(walks[inflight[p]])
         /\ ~Early(walks[inflight[p]]) => Back(inflight[p], "tools")
         /\ EntryHolds(walks[inflight[p]].prev, setup.surface)
<1>1. SiteHolds(p) /\ (\A w \in 1..Len(walks) : WalkHolds(w)) /\ Len(walks) <= MaxWalks
  BY DEF ListingInv
<1>2. Len(walks) \in Nat
  BY LenProperties DEF ListingInv, IsSeq
<1>3. inflight[p] \in 1..Len(walks) /\ WalkHolds(inflight[p])
  BY <1>1 DEF SiteHolds
<1>4. inflight[p] \in 1..MaxWalks
  BY <1>1, <1>2, <1>3, CatalogAssumption
<1> QED BY <1>1, <1>3, <1>4 DEF SiteHolds, WalkHolds, Runs

\* What a running walk has found stays found.
LEMMA FoundOf ==
  ASSUME ListingInv, SameProcess, NEW p \in Principals, inflight[p] # 0,
         ~Early(walks[inflight[p]]), inflight'[p] = inflight[p]
  PROVE  Value(inflight[p], "tools")' = Value(inflight[p], "tools")
<1>1. PICK w \in 1..MaxWalks : w = inflight[p]
  BY WalkOf
<1>2. Back(w, "tools")
  BY <1>1, WalkOf
<1>3. "tools" \in Kinds
  BY DEF Kinds
<1>4. Value(w, "tools")' = Value(w, "tools")
  BY <1>2, <1>3, FoundStays DEF SameProcess, ListingInv
<1> QED BY <1>1, <1>4

\* A site to which nothing happens is as it was, and so is what stands for it.
LEMMA SameSiteHolds ==
  ASSUME ListingInv, SameProcess, NEW p \in Principals, SameSite(p)
  PROVE  SiteHolds(p)' /\ \A k \in Kinds : Stands(p, k)' = Stands(p, k)
<1>1. SiteHolds(p) /\ setup' = setup /\ down' = down /\ SameSite(p)
  BY DEF ListingInv, SameProcess
<1>2. EntryHolds(cache'[p], setup'.surface)
  BY <1>1 DEF SiteHolds, SameSite
<1>3. CASE inflight[p] = 0
  BY <1>1, <1>2, <1>3 DEF SiteHolds, SameSite, Stands, StandsBy
<1>4. CASE inflight[p] # 0
  <2>1. /\ inflight'[p] = inflight[p] /\ cache'[p] = cache[p]
        /\ walks'[inflight'[p]] = walks[inflight[p]]
    BY <1>4 DEF SameSite
  <2>2. inflight[p] \in 1..Len(walks') /\ walks[inflight[p]].who = p /\ Runs(walks[inflight[p]])
    <3>1. Len(walks) \in Nat /\ Len(walks') \in Nat /\ Len(walks) <= Len(walks')
      BY LenProperties DEF ListingInv, SameProcess, IsSeq
    <3> QED BY <1>4, <3>1, WalkOf
  <2>3. CASE Early(walks[inflight[p]])
    <3>1. SiteHolds(p)'
      <4>1. ~down => Beside(cache[p], walks[inflight[p]], Value(inflight[p], "tools"))
        BY <1>1, <1>4 DEF SiteHolds
      <4>2. ~down' => Beside(cache'[p], walks'[inflight'[p]], Value(inflight[p], "tools")')
        BY <1>1, <2>1, <2>3, <4>1 DEF Beside
      <4> QED BY <1>2, <2>1, <2>2, <4>2 DEF SiteHolds
    <3>2. ASSUME NEW k \in Kinds PROVE Stands(p, k)' = Stands(p, k)
      BY <1>4, <2>1, <2>3 DEF Stands, StandsBy
    <3> QED BY <3>1, <3>2
  <2>4. CASE ~Early(walks[inflight[p]])
    <3>1. Value(inflight[p], "tools")' = Value(inflight[p], "tools")
      BY <1>4, <2>1, <2>4, FoundOf
    <3>2. SiteHolds(p)'
      BY <1>1, <1>2, <1>4, <2>1, <2>2, <3>1 DEF SiteHolds
    <3>3. ASSUME NEW k \in Kinds PROVE Stands(p, k)' = Stands(p, k)
      BY <1>4, <2>1, <3>1 DEF Stands
    <3> QED BY <3>2, <3>3
  <2> QED BY <2>3, <2>4
<1> QED BY <1>3, <1>4

\* A client to whom and to whose site nothing happens knows what it knew.
LEMMA SameClientHolds ==
  ASSUME ListingInv, SameProcess, NEW c \in Clients, SameSite(PrincipalOf[c]), client'[c] = client[c]
  PROVE  ClientHolds(c)'
<1> DEFINE p == PrincipalOf[c]
<1>1. p \in Principals
  BY CatalogAssumption
<1>2. /\ ClientHolds(c) /\ SameSite(p) /\ client'[c] = client[c]
      /\ setup' = setup /\ down' = down /\ pending \subseteq pending'
  BY DEF ListingInv, SameProcess
<1>3. \A k \in Kinds : Stands(p, k)' = Stands(p, k)
  BY <1>1, SameSiteHolds
<1> HIDE DEF p
<1>4. Waits(client'[c], inflight'[p], cache'[p], walks'[inflight'[p]], down')
  <2>1. Waits(client[c], inflight[p], cache[p], walks[inflight[p]], down)
    BY <1>2 DEF ClientHolds, p
  <2>2. CASE inflight[p] = 0
    BY <1>2, <2>1, <2>2 DEF Waits, SameSite
  <2>3. CASE inflight[p] # 0
    BY <1>2, <2>1, <2>3 DEF SameSite
  <2> QED BY <2>2, <2>3
<1>5. ASSUME NEW k \in Kinds, c \in setup'.reach, ~down'
      PROVE  Knows(client'[c], k, Stands(p, k)', pending', setup'.surface)
  <2>1. Knows(client[c], k, Stands(p, k), pending, setup.surface)
    BY <1>2, <1>5 DEF ClientHolds, p
  <2> QED BY <1>2, <1>3, <2>1 DEF Knows
<1>6. ClientShape(client'[c], setup'.surface)
  BY <1>2 DEF ClientHolds
<1> QED BY <1>4, <1>5, <1>6 DEF ClientHolds, p

\* A walk to which nothing happens.
LEMMA SameWalkHolds ==
  ASSUME ListingInv, SameProcess, NEW w \in 1..Len(walks), walks'[w] = walks[w],
         Runs(walks[w]) => inflight'[walks[w].who] = w
  PROVE  WalkHolds(w)'
<1>1. WalkHolds(w) /\ setup' = setup /\ Len(walks) <= MaxWalks
  BY DEF ListingInv, SameProcess
<1>2. ASSUME Back(w, "tools") PROVE Back(w, "tools")'
  <2>1. w \in 1..MaxWalks
    <3>1. Len(walks) \in Nat
      BY LenProperties DEF ListingInv, IsSeq
    <3> QED BY <1>1, <3>1, CatalogAssumption
  <2>2. "tools" \in Kinds
    BY DEF Kinds
  <2> QED BY <1>2, <2>1, <2>2, FoundStays DEF SameProcess, ListingInv
<1> QED BY <1>1, <1>2 DEF WalkHolds

\* A step that keeps every part keeps the invariant.
LEMMA PartsKeep ==
  ASSUME ListingInv, SameProcess,
         \A w \in 1..Len(walks') : WalkHolds(w)',
         \A p \in Principals : SiteHolds(p)',
         \A c \in Clients : ClientHolds(c)'
  PROVE  ListingInv'
<1>1. /\ setup.surface \subseteq Kinds /\ setup.clients \subseteq Clients /\ setup' = setup
      /\ DOMAIN cache' = Principals /\ DOMAIN inflight' = Principals /\ DOMAIN client' = Clients
      /\ IsSeq(walks') /\ Len(walks') <= MaxWalks /\ advert' # None
  BY DEF ListingInv, SameProcess
<1>2. \A w \in 1..MaxWalks, hop \in Kinds : HopHolds(call'[<<w, hop>>])
  BY DEF SameProcess, HopsGoOn
<1> QED BY <1>1, <1>2 DEF ListingInv, HopHolds

\* A step that changes the catalog of one principal, its walk and its clients.
OnlySite(p) ==
  /\ \A x \in Principals : x # p => cache'[x] = cache[x] /\ inflight'[x] = inflight[x]
  /\ \A w \in 1..Len(walks) : w # inflight[p] => walks'[w] = walks[w]
  /\ \A c \in Clients : PrincipalOf[c] # p => client'[c] = client[c]

\* It keeps the invariant if it keeps what is said of them.
LEMMA OneSiteKeeps ==
  ASSUME ListingInv, SameProcess, NEW p \in Principals, OnlySite(p),
         \A w \in 1..Len(walks') : w = inflight[p] \/ w > Len(walks) => WalkHolds(w)',
         SiteHolds(p)',
         \A c \in Clients : PrincipalOf[c] = p => ClientHolds(c)'
  PROVE  ListingInv'
<1>1. /\ \A x \in Principals : SiteHolds(x)
      /\ \A w \in 1..Len(walks) : WalkHolds(w)
      /\ Len(walks) \in Nat /\ Len(walks') \in Nat
  BY LenProperties DEF ListingInv, SameProcess, IsSeq
<1>2. ASSUME NEW x \in Principals, x # p PROVE SameSite(x)
  <2>1. cache'[x] = cache[x] /\ inflight'[x] = inflight[x]
    BY <1>2 DEF OnlySite
  <2>2. ASSUME inflight[x] # 0 PROVE walks'[inflight[x]] = walks[inflight[x]]
    <3>1. inflight[x] \in 1..Len(walks) /\ walks[inflight[x]].who = x
      BY <2>2, WalkOf
    <3>2. ASSUME inflight[x] = inflight[p] PROVE FALSE
      <4>1. walks[inflight[p]].who = p
        BY <2>2, <3>2, WalkOf
      <4> QED BY <1>2, <3>1, <3>2, <4>1
    <3> QED BY <3>1, <3>2 DEF OnlySite
  <2> QED BY <2>1, <2>2 DEF SameSite
<1>3. ASSUME NEW x \in Principals PROVE SiteHolds(x)'
  BY <1>2, SameSiteHolds
<1>4. ASSUME NEW c \in Clients PROVE ClientHolds(c)'
  <2>1. CASE PrincipalOf[c] = p
    BY <2>1
  <2>2. CASE PrincipalOf[c] # p
    <3>1. PrincipalOf[c] \in Principals
      BY CatalogAssumption
    <3>2. SameSite(PrincipalOf[c]) /\ client'[c] = client[c]
      BY <1>2, <2>2, <3>1 DEF OnlySite
    <3> QED BY <3>2, SameClientHolds
  <2> QED BY <2>1, <2>2
<1>5. ASSUME NEW w \in 1..Len(walks') PROVE WalkHolds(w)'
  <2>1. CASE w = inflight[p] \/ w > Len(walks)
    BY <2>1
  <2>2. CASE ~(w = inflight[p] \/ w > Len(walks))
    <3>1. w \in 1..Len(walks) /\ walks'[w] = walks[w] /\ WalkHolds(w)
      BY <1>1, <2>2 DEF OnlySite
    <3>2. ASSUME Runs(walks[w]) PROVE inflight'[walks[w].who] = w
      <4>1. inflight[walks[w].who] = w /\ walks[w].who \in Principals
        BY <3>1, <3>2 DEF WalkHolds
      <4> QED BY <2>2, <4>1 DEF OnlySite
    <3> QED BY <3>1, <3>2, SameWalkHolds
  <2> QED BY <2>1, <2>2
<1> QED BY <1>3, <1>4, <1>5, PartsKeep

\* A step during which no hop is touched.
LEMMA HopsStay ==
  ASSUME ListingInv, UNCHANGED call
  PROVE  HopsGoOn
BY DEF ListingInv, HopsGoOn

\* What stood for a principal stands, or a change of it will be told.
Follows(p) ==
  \A k \in Kinds :
    \/ Stands(p, k)' = Stands(p, k) \/ k \in pending'
    \/ Stands(p, k)' = None /\ k \in setup.surface

\* A client that is not answered follows the change.
LEMMA ClientStays ==
  ASSUME ListingInv, SameProcess, NEW c \in Clients, NEW p \in Principals, p = PrincipalOf[c],
         ~down => Follows(p), client'[c] = client[c],
         Waits(client[c], inflight'[p], cache'[p], walks'[inflight'[p]], down)
  PROVE  ClientHolds(c)'
<1>1. /\ ClientShape(client[c], setup.surface) /\ setup' = setup /\ down' = down
      /\ pending \subseteq pending'
  BY DEF ListingInv, SameProcess, ClientHolds
<1>2. ASSUME NEW k \in Kinds, c \in setup.reach, ~down
      PROVE  Knows(client[c], k, Stands(p, k)', pending', setup.surface)
  <2>1. Knows(client[c], k, Stands(p, k), pending, setup.surface)
    BY <1>2 DEF ListingInv, ClientHolds
  <2>2. \/ Stands(p, k)' = Stands(p, k) \/ k \in pending'
        \/ Stands(p, k)' = None /\ k \in setup.surface
    BY <1>2 DEF Follows
  <2> QED BY <1>1, <2>1, <2>2, KnowsMoves
<1> QED BY <1>1, <1>2 DEF ClientHolds

\* A client of the site follows the change, whether it is answered (with e) or not.
LEMMA ClientFollows ==
  ASSUME ListingInv, SameProcess, NEW c \in Clients, NEW p \in Principals, p = PrincipalOf[c],
         NEW e, EntryHolds(e, setup.surface),
         ~down => Follows(p),
         ~down => \A k \in Kinds : Fits(AdvertisedIn(e, k), k, Stands(p, k)', setup.surface),
         \/ client'[c] = client[c] /\ Waits(client[c], inflight'[p], cache'[p], walks'[inflight'[p]], down)
         \/ client[c].for \in Kinds /\ client'[c] = Answered(client[c], e)
  PROVE  ClientHolds(c)'
<1>1. /\ ClientShape(client[c], setup.surface) /\ setup' = setup /\ down' = down
      /\ pending \subseteq pending'
  BY DEF ListingInv, SameProcess, ClientHolds
<1>2. ASSUME NEW k \in Kinds, c \in setup.reach, ~down
      PROVE  Knows(client[c], k, Stands(p, k)', pending', setup.surface)
  <2>1. Knows(client[c], k, Stands(p, k), pending, setup.surface)
    BY <1>2 DEF ListingInv, ClientHolds
  <2>2. \/ Stands(p, k)' = Stands(p, k) \/ k \in pending'
        \/ Stands(p, k)' = None /\ k \in setup.surface
    BY <1>2 DEF Follows
  <2> QED BY <1>1, <2>1, <2>2, KnowsMoves
<1>3. CASE client'[c] = client[c] /\ Waits(client[c], inflight'[p], cache'[p], walks'[inflight'[p]], down)
  BY <1>3, ClientStays
<1>4. CASE client[c].for \in Kinds /\ client'[c] = Answered(client[c], e)
  <2>1. ClientShape(client'[c], setup.surface) /\ client'[c].for = None
    BY <1>1, <1>4, AnsweredFacts
  <2>2. ASSUME NEW k \in Kinds, c \in setup.reach, ~down
        PROVE  Knows(client'[c], k, Stands(p, k)', pending', setup.surface)
    <3>1. Fits(AdvertisedIn(e, k), k, Stands(p, k)', setup.surface)
      BY <2>2
    <3>2. PICK v, soon : v = Stands(p, k)' /\ soon = pending'
      OBVIOUS
    <3>3. Knows(client[c], k, v, soon, setup.surface) /\ Fits(AdvertisedIn(e, k), k, v, setup.surface)
      BY <1>2, <2>2, <3>1, <3>2
    <3>4. Knows(Answered(client[c], e), k, v, soon, setup.surface)
      BY <1>1, <1>4, <3>3, AnsweredKnows
    <3> QED BY <1>4, <3>2, <3>4
  <2>3. Waits(client'[c], inflight'[p], cache'[p], walks'[inflight'[p]], down')
    BY <2>1 DEF Waits
  <2> QED BY <1>1, <2>1, <2>2, <2>3 DEF ClientHolds
<1> QED BY <1>3, <1>4

\* A walk that runs.
LEMMA RunningWalk ==
  ASSUME ListingInv, NEW w \in DOMAIN walks, Runs(walks[w])
  PROVE  /\ w \in 1..Len(walks) /\ w \in 1..MaxWalks /\ w # 0
         /\ walks[w].who \in Principals /\ inflight[walks[w].who] = w
         /\ WalkHolds(w) /\ SiteHolds(walks[w].who)
<1>1. DOMAIN walks = 1..Len(walks) /\ Len(walks) \in Nat
  BY LenProperties DEF ListingInv, IsSeq
<1>2. w \in 1..Len(walks) /\ WalkHolds(w)
  BY <1>1 DEF ListingInv
<1>3. w \in 1..MaxWalks /\ w # 0
  BY <1>1, <1>2, CatalogAssumption DEF ListingInv
<1> QED BY <1>2, <1>3 DEF WalkHolds, ListingInv

\* A step of a walk leaves the sequence of the walks and the hops in order.
LEMMA WalkProcess ==
  ASSUME ListingInv, NEW w \in 1..Len(walks), NEW pc, Goes(w, pc),
         UNCHANGED <<setup, sessionVars, advert, down>>, pending \subseteq pending',
         DOMAIN cache' = Principals, DOMAIN inflight' = Principals, DOMAIN client' = Clients
  PROVE  /\ SameProcess /\ Len(walks') = Len(walks)
         /\ walks'[w] = [walks[w] EXCEPT !.pc = pc]
         /\ \A x \in 1..Len(walks) : x # w => walks'[x] = walks[x]
<1>1. /\ IsSeq(walks') /\ Len(walks') = Len(walks)
      /\ walks'[w] = [walks[w] EXCEPT !.pc = pc]
      /\ \A x \in 1..Len(walks) : x # w => walks'[x] = walks[x]
  BY GoesFacts DEF ListingInv
<1>2. HopsGoOn
  BY HopsStay DEF sessionVars
<1>3. Len(walks) \in Nat
  BY LenProperties DEF ListingInv, IsSeq
<1> QED BY <1>1, <1>2, <1>3 DEF ListingInv, SameProcess

---------------------------------------------------------------------------
(* The steps of a walk *)

\* Governance is proven.
LEMMA GovernedKeeps ==
  ASSUME ListingInv, NEW w \in DOMAIN walks, Governed(w)
  PROVE  ListingInv'
<1>1. /\ walks[w].pc = "gov" /\ Goes(w, "tools")
      /\ UNCHANGED <<setup, sessionVars, cache, inflight, client, pending, advert, down>>
  BY DEF Governed
<1>2. PICK p \in Principals : p = walks[w].who /\ inflight[p] = w
  BY <1>1, RunningWalk DEF Runs, Early
<1>3. w \in 1..Len(walks) /\ w # 0 /\ WalkHolds(w) /\ SiteHolds(p)
  BY <1>1, <1>2, RunningWalk DEF Runs, Early
<1>4. /\ SameProcess /\ Len(walks') = Len(walks)
      /\ walks'[w] = [walks[w] EXCEPT !.pc = "tools"]
      /\ \A x \in 1..Len(walks) : x # w => walks'[x] = walks[x]
  BY <1>1, <1>3, WalkProcess DEF ListingInv
<1>5. /\ walks'[w].who = p /\ walks'[w].prev = walks[w].prev /\ walks'[w].pc = "tools"
      /\ DOMAIN walks'[w] = WalkFields
  BY <1>2, <1>3, <1>4 DEF WalkHolds, WalkFields
<1>6. OnlySite(p)
  BY <1>1, <1>2, <1>4 DEF OnlySite
<1>7. Early(walks[w]) /\ Early(walks'[w])
  BY <1>1, <1>5 DEF Early
<1>8. WalkHolds(w)'
  BY <1>1, <1>2, <1>3, <1>5, <1>7 DEF WalkHolds
<1>9. SiteHolds(p)'
  <2>1. EntryHolds(cache'[p], setup'.surface)
    BY <1>1, <1>3 DEF SiteHolds
  <2>2. ~down => Beside(cache[p], walks[w], Value(w, "tools"))
    BY <1>2, <1>3 DEF SiteHolds
  <2>3. PICK x : x = Value(w, "tools")'
    OBVIOUS
  <2>4. ~down' => Beside(cache'[p], walks'[w], x)
    BY <1>1, <1>5, <1>7, <2>2 DEF Beside
  <2> QED BY <1>1, <1>2, <1>3, <1>4, <1>5, <1>7, <2>1, <2>3, <2>4 DEF SiteHolds, Runs
<1>10. \A k \in Kinds : Stands(p, k)' = Stands(p, k)
  BY <1>1, <1>2, <1>3, <1>5, <1>7 DEF Stands, StandsBy
<1>11. ASSUME NEW c \in Clients, PrincipalOf[c] = p PROVE ClientHolds(c)'
  <2>1. Waits(client[c], inflight[p], cache[p], walks[w], down)
    BY <1>2, <1>11 DEF ListingInv, ClientHolds
  <2>2. Waits(client'[c], inflight'[p], cache'[p], walks'[w], down')
    BY <1>1, <1>7, <2>1 DEF Waits
  <2>3. /\ ClientShape(client'[c], setup'.surface)
        /\ c \in setup'.reach /\ ~down' =>
             \A k \in Kinds : Knows(client'[c], k, Stands(p, k)', pending', setup'.surface)
    BY <1>1, <1>10, <1>11 DEF ListingInv, ClientHolds
  <2> QED BY <1>1, <1>2, <1>11, <2>2, <2>3 DEF ClientHolds
<1>12. \A x \in 1..Len(walks') : x = inflight[p] \/ x > Len(walks) => WalkHolds(x)'
  <2>1. Len(walks) \in Nat
    BY LenProperties DEF ListingInv, IsSeq
  <2> QED BY <1>2, <1>4, <1>8, <2>1
<1> QED BY <1>4, <1>6, <1>9, <1>11, <1>12, OneSiteKeeps

\* The tools are in.
LEMMA ToolsInKeeps ==
  ASSUME ListingInv, NEW w \in DOMAIN walks, ToolsIn(w)
  PROVE  ListingInv'
<1>1. PICK p, e :
        /\ p = walks[w].who
        /\ e = [kept |-> TRUE, fresh |-> TRUE, ok |-> TRUE, complete |-> "prompts" \notin setup.surface,
                tools |-> Value(w, "tools"), prompts |-> walks[w].prev.prompts]
  OBVIOUS
<1>2. /\ walks[w].pc = "tools" /\ Back(w, "tools") /\ Goes(w, "prompts")
      /\ UNCHANGED <<setup, sessionVars, inflight, advert, down>>
      /\ down => UNCHANGED <<cache, pending, client>>
      /\ ~down => Store(p, e, walks[w].prev) /\ client' = Notified(p, e)
  BY <1>1, Zenon DEF ToolsIn
<1>3. /\ Runs(walks[w]) /\ Early(walks[w]) /\ w \in 1..Len(walks) /\ w \in 1..MaxWalks /\ w # 0
      /\ p \in Principals /\ inflight[p] = w /\ WalkHolds(w) /\ SiteHolds(p)
  BY <1>1, <1>2, RunningWalk DEF Runs, Early
<1>4. /\ ~down => cache' = [cache EXCEPT ![p] = e] /\ pending' = pending \cup Changed(walks[w].prev, e)
      /\ DOMAIN cache' = Principals /\ DOMAIN inflight' = Principals /\ DOMAIN client' = Clients
      /\ pending \subseteq pending'
  BY <1>2, <1>3 DEF Store, Notified, ListingInv
<1>5. /\ SameProcess /\ Len(walks') = Len(walks)
      /\ walks'[w] = [walks[w] EXCEPT !.pc = "prompts"]
      /\ \A x \in 1..Len(walks) : x # w => walks'[x] = walks[x]
  BY <1>2, <1>3, <1>4, WalkProcess
<1>6. /\ walks'[w].who = p /\ walks'[w].prev = walks[w].prev /\ walks'[w].pc = "prompts"
      /\ DOMAIN walks'[w] = WalkFields
  BY <1>1, <1>3, <1>5 DEF WalkHolds, WalkFields
<1>7. ~Early(walks'[w]) /\ Runs(walks'[w])
  BY <1>6 DEF Early, Runs
<1>8. Value(w, "tools")' = Value(w, "tools") /\ Back(w, "tools")'
  BY <1>2 DEF Value, Back, sessionVars
<1>9. /\ DOMAIN e = EntryFields /\ e.ok /\ e.kept /\ e.complete = ("prompts" \notin setup.surface)
      /\ e.tools = Value(w, "tools") /\ e.prompts = walks[w].prev.prompts
      /\ e.ok \in BOOLEAN /\ e.kept \in BOOLEAN
  BY <1>1 DEF EntryFields
<1>10. EntryHolds(e, setup.surface)
  <2>1. /\ "tools" \in setup.surface => Value(w, "tools") # None
        /\ "tools" \notin setup.surface => Value(w, "tools") = None
    BY <1>2, <1>3, FoundHolds DEF ListingInv, Kinds
  <2>2. "prompts" \notin setup.surface => walks[w].prev.prompts = None
    BY <1>3 DEF WalkHolds, EntryHolds, Kinds
  <2>3. Satisfies(e, "prompts") => "prompts" \notin setup.surface
    BY <1>9 DEF Satisfies
  <2> QED BY <1>9, <2>1, <2>2, <2>3 DEF EntryHolds, Kinds
<1>11. OnlySite(p)
  <2>1. \A c \in Clients : PrincipalOf[c] # p => client'[c] = client[c]
    BY <1>2 DEF Notified, Waiting
  <2> QED BY <1>2, <1>3, <1>4, <1>5, <2>1 DEF OnlySite
<1>12. WalkHolds(w)'
  BY <1>2, <1>3, <1>6, <1>8 DEF WalkHolds
<1>13. ~down => cache'[p] = e
  BY <1>3, <1>4 DEF ListingInv
<1>14. SiteHolds(p)'
  <2>1. EntryHolds(cache'[p], setup'.surface)
    BY <1>2, <1>3, <1>10, <1>13 DEF SiteHolds
  <2>2. ~down' => Beside(cache'[p], walks'[w], Value(w, "tools"))
    BY <1>2, <1>6, <1>7, <1>9, <1>13 DEF Beside
  <2> QED BY <1>2, <1>3, <1>5, <1>6, <1>7, <1>8, <2>1, <2>2 DEF SiteHolds
<1>15. ASSUME ~down, NEW k \in Kinds
       PROVE  Stands(p, k)' = AdvertisedIn(e, k) /\ Stands(p, k) = AdvertisedIn(walks[w].prev, k)
  BY <1>2, <1>3, <1>7, <1>9, <1>13, <1>15 DEF Stands, StandsBy, AdvertisedIn
<1>16. ~down => Follows(p)
  BY <1>4, <1>15 DEF Follows, Changed
<1>17. ~down => \A k \in Kinds : Fits(AdvertisedIn(e, k), k, Stands(p, k)', setup.surface)
  BY <1>15 DEF Fits
<1>18. ASSUME NEW c \in Clients, PrincipalOf[c] = p PROVE ClientHolds(c)'
  <2>1. ClientShape(client[c], setup.surface) /\ Waits(client[c], w, cache[p], walks[w], down)
    BY <1>3, <1>18 DEF ListingInv, ClientHolds
  <2>2. CASE ~down /\ c \in Waiting(p) /\ Satisfies(e, client[c].for)
    <3>1. client'[c] = Answered(client[c], e) /\ client[c].for \in Kinds
      BY <1>2, <2>1, <2>2 DEF Notified, Waiting, ClientShape
    <3> QED BY <1>3, <1>5, <1>10, <1>16, <1>17, <1>18, <3>1, ClientFollows
  <2>3. CASE ~(~down /\ c \in Waiting(p) /\ Satisfies(e, client[c].for))
    <3>1. client'[c] = client[c]
      BY <1>2, <2>3 DEF Notified
    <3>2. Waits(client[c], inflight'[p], cache'[p], walks'[inflight'[p]], down)
      BY <1>2, <1>3, <1>13, <1>18, <2>1, <2>3 DEF Waits, Waiting
    <3> QED BY <1>3, <1>5, <1>10, <1>16, <1>17, <1>18, <3>1, <3>2, ClientFollows
  <2> QED BY <2>2, <2>3
<1>19. \A x \in 1..Len(walks') : x = inflight[p] \/ x > Len(walks) => WalkHolds(x)'
  <2>1. Len(walks) \in Nat
    BY LenProperties DEF ListingInv, IsSeq
  <2> QED BY <1>3, <1>5, <1>12, <2>1
<1> QED BY <1>3, <1>5, <1>11, <1>14, <1>18, <1>19, OneSiteKeeps

\* A walk ends: everybody who waits for it is answered (with e), and what is kept
\* follows what stood.
LEMMA WalkEnds ==
  ASSUME ListingInv, NEW w \in DOMAIN walks, Runs(walks[w]), NEW p, p = walks[w].who,
         NEW pc \in {"done", "failed"}, Goes(w, pc), Ended(w),
         UNCHANGED <<setup, sessionVars, advert, down>>, pending \subseteq pending',
         NEW e, EntryHolds(e, setup.surface), client' = Settled(p, e),
         DOMAIN cache' = Principals, \A x \in Principals : x # p => cache'[x] = cache[x],
         EntryHolds(cache'[p], setup.surface),
         ~down => \A k \in Kinds :
           /\ \/ AdvertisedIn(cache'[p], k) = Stands(p, k) \/ k \in pending'
              \/ AdvertisedIn(cache'[p], k) = None /\ k \in setup.surface
           /\ Fits(AdvertisedIn(e, k), k, AdvertisedIn(cache'[p], k), setup.surface)
  PROVE  ListingInv'
<1>1. /\ w \in 1..Len(walks) /\ p \in Principals /\ inflight[p] = w /\ w # 0
      /\ WalkHolds(w) /\ DOMAIN inflight = Principals
  BY RunningWalk DEF ListingInv
<1>2. /\ DOMAIN inflight' = Principals /\ inflight'[p] = 0 /\ DOMAIN client' = Clients
      /\ \A x \in Principals : x # p => inflight'[x] = inflight[x]
  BY <1>1 DEF Ended, Settled
<1>3. /\ SameProcess /\ Len(walks') = Len(walks)
      /\ walks'[w] = [walks[w] EXCEPT !.pc = pc]
      /\ \A x \in 1..Len(walks) : x # w => walks'[x] = walks[x]
  BY <1>1, <1>2, WalkProcess
<1>4. /\ walks'[w].who = p /\ walks'[w].prev = walks[w].prev /\ walks'[w].pc \in {"done", "failed"}
      /\ DOMAIN walks'[w] = WalkFields
  BY <1>1, <1>3 DEF WalkHolds, WalkFields
<1>5. OnlySite(p)
  <2>1. \A c \in Clients : PrincipalOf[c] # p => client'[c] = client[c]
    BY DEF Settled, Waiting
  <2> QED BY <1>1, <1>2, <1>3, <2>1 DEF OnlySite
<1>6. WalkHolds(w)'
  BY <1>1, <1>4 DEF WalkHolds, Runs, Early
<1>7. SiteHolds(p)'
  BY <1>2 DEF SiteHolds
<1>8. \A k \in Kinds : Stands(p, k)' = AdvertisedIn(cache'[p], k)
  BY <1>2 DEF Stands, StandsBy
<1>9. /\ ~down => Follows(p)
      /\ ~down => \A k \in Kinds : Fits(AdvertisedIn(e, k), k, Stands(p, k)', setup.surface)
  BY <1>8 DEF Follows
<1>10. ASSUME NEW c \in Clients, PrincipalOf[c] = p PROVE ClientHolds(c)'
  <2>1. ClientShape(client[c], setup.surface)
    BY DEF ListingInv, ClientHolds
  <2>2. CASE c \in Waiting(p)
    <3>1. client'[c] = Answered(client[c], e) /\ client[c].for \in Kinds
      BY <2>1, <2>2 DEF Settled, Waiting, ClientShape
    <3> QED BY <1>1, <1>3, <1>9, <1>10, <3>1, ClientFollows
  <2>3. CASE c \notin Waiting(p)
    <3>1. client'[c] = client[c] /\ client[c].for = None
      BY <1>10, <2>3 DEF Settled, Waiting
    <3>2. Waits(client[c], inflight'[p], cache'[p], walks'[inflight'[p]], down)
      BY <3>1 DEF Waits
    <3> QED BY <1>1, <1>3, <1>9, <1>10, <3>1, <3>2, ClientFollows
  <2> QED BY <2>2, <2>3
<1>11. \A x \in 1..Len(walks') : x = inflight[p] \/ x > Len(walks) => WalkHolds(x)'
  <2>1. Len(walks) \in Nat
    BY LenProperties DEF ListingInv, IsSeq
  <2> QED BY <1>1, <1>3, <1>6, <2>1
<1> QED BY <1>1, <1>3, <1>5, <1>7, <1>10, <1>11, OneSiteKeeps

\* An entry that is no catalog.
LEMMA NoCatalogHolds ==
  ASSUME NEW e, e = Nothing \/ e = [Nothing EXCEPT !.kept = TRUE, !.fresh = TRUE], NEW surface
  PROVE  EntryHolds(e, surface) /\ \A k \in Kinds : AdvertisedIn(e, k) = None
<1>1. /\ DOMAIN Nothing = EntryFields /\ Nothing.ok = FALSE /\ Nothing.kept = FALSE
      /\ Nothing.tools = None /\ Nothing.prompts = None
  BY DEF Nothing, EntryFields
<1>2. CASE e = Nothing
  BY <1>1, <1>2 DEF EntryHolds, AdvertisedIn, Satisfies, Kinds
<1>3. CASE e = [Nothing EXCEPT !.kept = TRUE, !.fresh = TRUE]
  <2>1. /\ DOMAIN e = EntryFields /\ e.ok = FALSE /\ e.kept = TRUE
        /\ e.tools = None /\ e.prompts = None
    BY <1>1, <1>3 DEF EntryFields
  <2> QED BY <2>1 DEF EntryHolds, AdvertisedIn, Satisfies, Kinds
<1> QED BY <1>2, <1>3

\* What stands while a walk has its tools and not yet its prompts.
LEMMA StandsLate ==
  ASSUME ListingInv, NEW p \in Principals, inflight[p] # 0, walks[inflight[p]].pc = "prompts", ~down,
         NEW k \in Kinds
  PROVE  LET w == inflight[p]
             found == IF k = "tools" THEN Value(w, "tools") ELSE walks[w].prev.prompts
         IN  /\ cache[p].kept => cache[p].ok /\ cache[p][k] = found
             /\ Stands(p, k) = IF cache[p].kept \/ walks[w].prev.ok THEN found ELSE None
<1>1. Beside(cache[p], walks[inflight[p]], Value(inflight[p], "tools"))
  BY DEF ListingInv, SiteHolds
<1>2. ~Early(walks[inflight[p]])
  BY DEF Early
<1> QED BY <1>1, <1>2 DEF Beside, Stands, StandsBy, Kinds

\* The prompts are in.
LEMMA PromptsInKeeps ==
  ASSUME ListingInv, NEW w \in DOMAIN walks, PromptsIn(w)
  PROVE  ListingInv'
<1>1. PICK p, e :
        /\ p = walks[w].who
        /\ e = [kept |-> TRUE, fresh |-> TRUE, ok |-> TRUE, complete |-> TRUE,
                tools |-> Value(w, "tools"), prompts |-> Value(w, "prompts")]
  OBVIOUS
<1>2. /\ walks[w].pc = "prompts" /\ Back(w, "prompts") /\ Goes(w, "done") /\ Ended(w)
      /\ UNCHANGED <<setup, sessionVars, advert, down>>
      /\ down => client' = Settled(p, Nothing) /\ UNCHANGED <<cache, pending>>
      /\ ~down => /\ Store(p, e, IF cache[p].kept THEN cache[p] ELSE walks[w].prev)
                  /\ client' = Settled(p, e)
  BY <1>1, Zenon DEF PromptsIn
<1>3. /\ Runs(walks[w]) /\ w \in 1..Len(walks) /\ w \in 1..MaxWalks /\ w # 0
      /\ p \in Principals /\ inflight[p] = w /\ WalkHolds(w) /\ SiteHolds(p)
  BY <1>1, <1>2, RunningWalk DEF Runs
<1>4. DOMAIN cache = Principals
  BY DEF ListingInv
<1>5. CASE down
  <2>1. PICK none : none = Nothing
    OBVIOUS
  <2>2. EntryHolds(none, setup.surface)
    BY <2>1, NoCatalogHolds
  <2>3. EntryHolds(cache'[p], setup.surface)
    BY <1>2, <1>3, <1>5 DEF SiteHolds
  <2> QED BY <1>1, <1>2, <1>3, <1>4, <1>5, <2>1, <2>2, <2>3, WalkEnds
<1>6. CASE ~down
  <2>1. /\ DOMAIN e = EntryFields /\ e.ok /\ e.kept /\ e.complete
        /\ e.tools = Value(w, "tools") /\ e.prompts = Value(w, "prompts")
        /\ e.ok \in BOOLEAN /\ e.kept \in BOOLEAN
    BY <1>1 DEF EntryFields
  <2>2. Back(w, "tools")
    BY <1>2, <1>3 DEF WalkHolds
  <2>3. \A k \in Kinds : /\ k \in setup.surface => e[k] # None
                         /\ k \notin setup.surface => e[k] = None
    BY <1>2, <1>3, <2>1, <2>2, FoundHolds DEF ListingInv, Kinds
  <2>4. EntryHolds(e, setup.surface)
    BY <2>1, <2>3 DEF EntryHolds
  <2>5. PICK last : last = IF cache[p].kept THEN cache[p] ELSE walks[w].prev
    OBVIOUS
  <2>6. cache' = [cache EXCEPT ![p] = e] /\ pending' = pending \cup Changed(last, e)
    BY <1>2, <1>6, <2>5 DEF Store
  <2>7. cache'[p] = e /\ DOMAIN cache' = Principals /\ \A x \in Principals : x # p => cache'[x] = cache[x]
    BY <1>3, <1>4, <2>6
  <2>8. ASSUME NEW k \in Kinds
        PROVE  /\ \/ AdvertisedIn(e, k) = Stands(p, k) \/ k \in pending'
                  \/ AdvertisedIn(e, k) = None /\ k \in setup.surface
               /\ Fits(AdvertisedIn(e, k), k, AdvertisedIn(e, k), setup.surface)
    <3>1. AdvertisedIn(e, k) # AdvertisedIn(last, k) => k \in pending'
      BY <2>6 DEF Changed
    <3>2. PICK found : found = IF k = "tools" THEN Value(w, "tools") ELSE walks[w].prev.prompts
      OBVIOUS
    <3>3. /\ cache[p].kept => cache[p].ok /\ cache[p][k] = found
          /\ Stands(p, k) = IF cache[p].kept \/ walks[w].prev.ok THEN found ELSE None
      BY <1>2, <1>3, <1>6, <3>2, StandsLate
    <3>4. AdvertisedIn(e, k) = e[k]
      BY <2>1 DEF AdvertisedIn
    <3>5. CASE cache[p].kept
      BY <2>5, <3>1, <3>3, <3>5 DEF AdvertisedIn, Fits
    <3>6. CASE ~cache[p].kept /\ walks[w].prev.ok
      <4>1. k = "tools" => AdvertisedIn(e, k) = Stands(p, k)
        BY <2>1, <3>2, <3>3, <3>4, <3>6
      <4>2. k = "prompts" => AdvertisedIn(last, k) = Stands(p, k)
        BY <2>5, <3>2, <3>3, <3>6 DEF AdvertisedIn
      <4> QED BY <3>1, <4>1, <4>2 DEF Kinds, Fits
    <3>7. CASE ~cache[p].kept /\ ~walks[w].prev.ok
      <4>1. AdvertisedIn(last, k) = None /\ Stands(p, k) = None
        BY <2>5, <3>3, <3>7 DEF AdvertisedIn
      <4> QED BY <3>1, <4>1 DEF Fits
    <3> QED BY <3>5, <3>6, <3>7
  <2>9. /\ pending \subseteq pending' /\ client' = Settled(p, e) /\ EntryHolds(cache'[p], setup.surface)
        /\ \A k \in Kinds :
             /\ \/ AdvertisedIn(cache'[p], k) = Stands(p, k) \/ k \in pending'
                \/ AdvertisedIn(cache'[p], k) = None /\ k \in setup.surface
             /\ Fits(AdvertisedIn(e, k), k, AdvertisedIn(cache'[p], k), setup.surface)
    BY <1>2, <1>6, <2>4, <2>6, <2>7, <2>8
  <2> QED BY <1>1, <1>2, <1>3, <2>4, <2>7, <2>9, WalkEnds
<1> QED BY <1>5, <1>6

\* The walk fails.
LEMMA WalkFailsKeeps ==
  ASSUME ListingInv, NEW w \in DOMAIN walks, WalkFails(w)
  PROVE  ListingInv'
<1>1. PICK p, latest, e :
        /\ p = walks[w].who
        /\ latest = IF cache[p].kept THEN cache[p] ELSE walks[w].prev
        /\ e = [Nothing EXCEPT !.kept = TRUE, !.fresh = TRUE]
  OBVIOUS
<1>2. /\ Goes(w, IF walks[w].pc = "gov" THEN "done" ELSE "failed") /\ Ended(w)
      /\ UNCHANGED <<setup, sessionVars, advert, down>>
      /\ latest.ok => client' = Settled(p, latest) /\ UNCHANGED <<cache, pending>>
      /\ ~latest.ok => Store(p, e, walks[w].prev) /\ client' = Settled(p, e)
  BY <1>1, Zenon DEF WalkFails
<1>3. Runs(walks[w])
  BY DEF WalkFails, ListingInv, Kinds, Runs, Early
<1>4. /\ p \in Principals /\ inflight[p] = w /\ w # 0 /\ WalkHolds(w) /\ SiteHolds(p)
      /\ DOMAIN cache = Principals
  BY <1>1, <1>3, RunningWalk DEF ListingInv
<1>5. PICK pc \in {"done", "failed"} : Goes(w, pc)
  BY <1>2
<1>6. EntryHolds(latest, setup.surface) /\ EntryHolds(cache[p], setup.surface)
  BY <1>1, <1>4 DEF WalkHolds, SiteHolds
<1>7. EntryHolds(e, setup.surface) /\ \A k \in Kinds : AdvertisedIn(e, k) = None
  BY <1>1, NoCatalogHolds
<1>8. ASSUME NEW k \in Kinds, k \notin setup.surface, ~down
      PROVE  Stands(p, k) = None /\ AdvertisedIn(latest, k) = None /\ AdvertisedIn(cache[p], k) = None
  <2>1. walks[w].prev[k] = None /\ cache[p][k] = None /\ latest[k] = None
    BY <1>4, <1>6, <1>8 DEF WalkHolds, EntryHolds
  <2>2. CASE Early(walks[w])
    BY <1>4, <2>1, <2>2 DEF Stands, StandsBy, AdvertisedIn
  <2>3. CASE ~Early(walks[w])
    <3>1. Value(w, "tools") = None \/ k # "tools"
      BY <1>8 DEF Value
    <3> QED BY <1>4, <2>1, <2>3, <3>1 DEF Stands, StandsBy, AdvertisedIn, Kinds
  <2> QED BY <2>2, <2>3
<1>9. CASE cache[p].ok
  <2>1. latest = cache[p] /\ latest.ok /\ cache' = cache /\ pending' = pending /\ cache[p].kept
    BY <1>1, <1>2, <1>6, <1>9 DEF EntryHolds
  <2>2. ASSUME NEW k \in Kinds, ~down PROVE AdvertisedIn(cache[p], k) = Stands(p, k)
    <3>1. Beside(cache[p], walks[w], Value(w, "tools"))
      BY <1>4, <2>2 DEF SiteHolds
    <3> QED BY <1>4, <1>9, <2>1, <3>1 DEF Beside, Stands, StandsBy, AdvertisedIn, Kinds
  <2>3. client' = Settled(p, latest) /\ cache'[p] = latest
    BY <1>2, <2>1
  <2>4. ~down => \A k \in Kinds :
           /\ \/ AdvertisedIn(cache'[p], k) = Stands(p, k) \/ k \in pending'
              \/ AdvertisedIn(cache'[p], k) = None /\ k \in setup.surface
           /\ Fits(AdvertisedIn(latest, k), k, AdvertisedIn(cache'[p], k), setup.surface)
    BY <2>1, <2>2 DEF Fits
  <2> QED BY <1>1, <1>2, <1>3, <1>4, <1>5, <1>6, <2>1, <2>3, <2>4, WalkEnds
<1>10. CASE ~cache[p].ok /\ latest.ok
  <2>1. cache' = cache /\ pending' = pending /\ client' = Settled(p, latest)
    BY <1>2, <1>10
  <2>2. ~down => \A k \in Kinds :
           /\ \/ AdvertisedIn(cache'[p], k) = Stands(p, k) \/ k \in pending'
              \/ AdvertisedIn(cache'[p], k) = None /\ k \in setup.surface
           /\ Fits(AdvertisedIn(latest, k), k, AdvertisedIn(cache'[p], k), setup.surface)
    <3>1. ASSUME NEW k \in Kinds PROVE AdvertisedIn(cache'[p], k) = None
      BY <1>10, <2>1 DEF AdvertisedIn
    <3> QED BY <1>8, <3>1 DEF Fits
  <2> QED BY <1>1, <1>2, <1>3, <1>4, <1>5, <1>6, <2>1, <2>2, WalkEnds
<1>11. CASE ~latest.ok
  <2>1. cache' = [cache EXCEPT ![p] = e] /\ pending \subseteq pending' /\ client' = Settled(p, e)
    BY <1>2, <1>11 DEF Store
  <2>2. cache'[p] = e /\ DOMAIN cache' = Principals /\ \A x \in Principals : x # p => cache'[x] = cache[x]
    BY <1>4, <2>1
  <2>3. ~down => \A k \in Kinds :
           /\ \/ AdvertisedIn(cache'[p], k) = Stands(p, k) \/ k \in pending'
              \/ AdvertisedIn(cache'[p], k) = None /\ k \in setup.surface
           /\ Fits(AdvertisedIn(e, k), k, AdvertisedIn(cache'[p], k), setup.surface)
    BY <1>7, <1>8, <2>2 DEF Fits
  <2> QED BY <1>1, <1>2, <1>3, <1>4, <1>5, <1>7, <2>1, <2>2, <2>3, WalkEnds
<1> QED BY <1>9, <1>10, <1>11

---------------------------------------------------------------------------
(* Steps that leave the walks that run alone *)

\* The walks go on: every site is as it was, or holds with its clients.
LEMMA SitesKeep ==
  ASSUME ListingInv, SameProcess, UNCHANGED <<walks, inflight>>,
         \A p \in Principals :
           \/ SameSite(p) /\ \A c \in Clients : PrincipalOf[c] = p =>
                client'[c] = client[c] \/ ClientHolds(c)'
           \/ SiteHolds(p)' /\ \A c \in Clients : PrincipalOf[c] = p => ClientHolds(c)'
  PROVE  ListingInv'
<1>1. \A w \in 1..Len(walks) : WalkHolds(w)
  BY DEF ListingInv
<1>2. ASSUME NEW w \in 1..Len(walks') PROVE WalkHolds(w)'
  BY <1>1, SameWalkHolds DEF WalkHolds
<1>3. ASSUME NEW p \in Principals PROVE SiteHolds(p)'
  BY SameSiteHolds
<1>4. ASSUME NEW c \in Clients PROVE ClientHolds(c)'
  <2>1. PICK p \in Principals : p = PrincipalOf[c]
    BY CatalogAssumption
  <2>2. CASE SameSite(p) /\ client'[c] = client[c]
    BY <2>1, <2>2, SameClientHolds
  <2> QED BY <2>1, <2>2
<1> QED BY <1>2, <1>3, <1>4, PartsKeep

\* A step that touches only calls.
LEMMA CallsKeep ==
  ASSUME ListingInv, HopsGoOn, UNCHANGED <<setup, catalogVars>>
  PROVE  ListingInv'
<1>1. SameProcess
  BY DEF ListingInv, SameProcess, catalogVars
<1>2. \A p \in Principals : SameSite(p)
  BY DEF SameSite, catalogVars
<1> QED BY <1>1, <1>2, SitesKeep DEF catalogVars

\* What is kept is what stands.
LEMMA StandsKept ==
  ASSUME ListingInv, NEW p \in Principals, ~down, inflight[p] = 0 \/ cache[p].kept, NEW k \in Kinds
  PROVE  Stands(p, k) = AdvertisedIn(cache[p], k)
<1>1. CASE inflight[p] = 0
  BY <1>1 DEF Stands, StandsBy
<1>2. CASE inflight[p] # 0
  <2>1. Beside(cache[p], walks[inflight[p]], Value(inflight[p], "tools")) /\ cache[p].kept
    BY <1>2 DEF ListingInv, SiteHolds
  <2>2. k = "tools" \/ k = "prompts"
    BY DEF Kinds
  <2>3. CASE Early(walks[inflight[p]])
    BY <1>2, <2>1, <2>2, <2>3 DEF Beside, Stands, StandsBy, AdvertisedIn
  <2>4. CASE ~Early(walks[inflight[p]])
    BY <1>2, <2>1, <2>2, <2>4 DEF Beside, Stands, StandsBy, AdvertisedIn
  <2> QED BY <2>3, <2>4
<1> QED BY <1>1, <1>2

\* Nothing stands of a kind that is not enabled.
LEMMA StandsOff ==
  ASSUME ListingInv, NEW p \in Principals, NEW k \in Kinds, k \notin setup.surface
  PROVE  Stands(p, k) = None
<1>1. cache[p][k] = None
  BY DEF ListingInv, SiteHolds, EntryHolds
<1>2. CASE inflight[p] = 0
  BY <1>1, <1>2 DEF Stands, StandsBy, AdvertisedIn
<1>3. CASE inflight[p] # 0
  <2>1. walks[inflight[p]].prev[k] = None
    BY <1>3, WalkOf DEF EntryHolds
  <2>2. Value(inflight[p], "tools") = None \/ k # "tools"
    BY DEF Value
  <2> QED BY <1>1, <1>3, <2>1, <2>2 DEF Stands, StandsBy, AdvertisedIn, Kinds
<1> QED BY <1>2, <1>3

\* An entry ages.
LEMMA ExpireKeeps ==
  ASSUME ListingInv, NEW p \in Principals, Expire(p)
  PROVE  ListingInv'
<1>1. /\ cache' = [cache EXCEPT ![p].fresh = FALSE]
      /\ UNCHANGED <<setup, sessionVars, inflight, walks, client, pending, advert, down>>
  BY DEF Expire
<1>2. /\ DOMAIN cache = Principals /\ SiteHolds(p) /\ EntryHolds(cache[p], setup.surface)
  BY DEF ListingInv, SiteHolds
<1>3. /\ DOMAIN cache' = Principals /\ \A x \in Principals : x # p => cache'[x] = cache[x]
      /\ cache'[p] = [cache[p] EXCEPT !.fresh = FALSE]
  BY <1>1, <1>2
<1>4. /\ DOMAIN cache'[p] = EntryFields /\ cache'[p].kept = cache[p].kept /\ cache'[p].ok = cache[p].ok
      /\ cache'[p].complete = cache[p].complete
      /\ cache'[p].tools = cache[p].tools /\ cache'[p].prompts = cache[p].prompts
  BY <1>2, <1>3 DEF EntryHolds, EntryFields
<1>5. SameProcess
  BY <1>1, <1>3, HopsStay DEF ListingInv, SameProcess, sessionVars
<1>6. EntryHolds(cache'[p], setup.surface)
  BY <1>2, <1>4 DEF EntryHolds, Satisfies, Kinds
<1>7. SiteHolds(p)'
  BY <1>1, <1>2, <1>4, <1>6 DEF SiteHolds, Beside, Value, sessionVars
<1>8. \A k \in Kinds : Stands(p, k)' = Stands(p, k)
  BY <1>1, <1>4 DEF Stands, StandsBy, AdvertisedIn, Value, Kinds, sessionVars
<1>9. ASSUME NEW c \in Clients, PrincipalOf[c] = p PROVE ClientHolds(c)'
  <2>1. Waits(client[c], inflight[p], cache[p], walks[inflight[p]], down)
    BY <1>9 DEF ListingInv, ClientHolds
  <2>2. Waits(client[c], inflight'[p], cache'[p], walks'[inflight'[p]], down)
    BY <1>1, <1>4, <2>1 DEF Waits, Satisfies
  <2>3. Follows(p)
    BY <1>8 DEF Follows
  <2> QED BY <1>1, <1>5, <1>9, <2>2, <2>3, ClientStays
<1>10. \A x \in Principals : x # p => SameSite(x)
  BY <1>1, <1>3 DEF SameSite
<1> QED BY <1>1, <1>5, <1>7, <1>9, <1>10, SitesKeep

\* An expired session is found: the entries of the site and principal are dropped,
\* and the walk that runs goes on.
LEMMA InvalidatedKeeps ==
  ASSUME ListingInv, HopsGoOn, NEW key, cache' = Invalidated(key),
         UNCHANGED <<setup, inflight, walks, client, pending, advert, down>>
  PROVE  ListingInv'
<1>1. DOMAIN cache' = Principals /\ SameProcess
  BY DEF Invalidated, ListingInv, SameProcess
<1>2. \A x \in Principals : x # key => SameSite(x)
  BY DEF Invalidated, SameSite
<1>3. CASE key \notin Principals
  BY <1>1, <1>2, <1>3, SitesKeep
<1>4. CASE key \in Principals
  <2>1. PICK p \in Principals : p = key
    BY <1>4
  <2>2. cache'[p] = Nothing
    BY <2>1 DEF Invalidated
  <2>3. ~cache'[p].kept /\ ~cache'[p].ok
    BY <2>2 DEF Nothing
  <2>4. EntryHolds(cache'[p], setup.surface)
    BY <2>2, NoCatalogHolds
  <2>5. PICK x : x = Value(inflight[p], "tools")'
    OBVIOUS
  <2>6. SiteHolds(p)'
    <3>1. SiteHolds(p)
      BY DEF ListingInv
    <3>2. Beside(cache'[p], walks'[inflight'[p]], x)
      BY <2>3 DEF Beside
    <3> QED BY <2>4, <2>5, <3>1, <3>2 DEF SiteHolds
  <2>7. ASSUME ~down PROVE Follows(p)
    <3> SUFFICES ASSUME NEW k \in Kinds PROVE Stands(p, k)' \in {Stands(p, k), None}
      <4>1. ASSUME NEW k \in Kinds, k \notin setup.surface PROVE Stands(p, k) = None
        BY <4>1, StandsOff
      <4> QED BY <4>1 DEF Follows
    <3>1. CASE inflight[p] = 0
      BY <2>3, <3>1 DEF Stands, StandsBy, AdvertisedIn
    <3>2. CASE inflight[p] # 0 /\ Early(walks[inflight[p]])
      BY <3>2 DEF Stands, StandsBy
    <3>3. CASE inflight[p] # 0 /\ ~Early(walks[inflight[p]])
      <4>1. PICK w : w = inflight[p]
        OBVIOUS
      <4>2. Value(w, "tools")' = Value(w, "tools") /\ walks[w].pc = "prompts"
        BY <1>1, <3>3, <4>1, WalkOf, FoundOf DEF Runs
      <4>3. Stands(p, k)' = IF ~walks[w].prev.ok THEN None
                            ELSE IF k = "tools" THEN Value(w, "tools") ELSE walks[w].prev.prompts
        BY <2>3, <3>3, <4>1, <4>2 DEF Stands, StandsBy
      <4>4. CASE ~cache[p].kept
        BY <3>3, <4>1, <4>3, <4>4 DEF Stands, StandsBy
      <4>5. CASE cache[p].kept /\ ~down
        <5>1. Beside(cache[p], walks[w], Value(w, "tools"))
          BY <3>3, <4>1, <4>5 DEF ListingInv, SiteHolds
        <5> QED BY <3>3, <4>1, <4>3, <4>5, <5>1 DEF Stands, StandsBy, Beside, Kinds
      <4> QED BY <2>7, <4>4, <4>5
    <3> QED BY <3>1, <3>2, <3>3
  <2>8. ASSUME NEW c \in Clients, PrincipalOf[c] = p PROVE ClientHolds(c)'
    <3>1. Waits(client[c], inflight[p], cache[p], walks[inflight[p]], down)
      BY <2>8 DEF ListingInv, ClientHolds
    <3>2. Waits(client[c], inflight'[p], cache'[p], walks'[inflight'[p]], down)
      BY <2>3, <3>1 DEF Waits
    <3> QED BY <1>1, <2>7, <2>8, <3>2, ClientStays
  <2> QED BY <1>1, <1>2, <2>1, <2>6, <2>8, SitesKeep
<1> QED BY <1>3, <1>4

\* The debounce timer: what was pending is told.
LEMMA FlushKeeps ==
  ASSUME ListingInv, Flush
  PROVE  ListingInv'
<1>1. /\ pending' = {}
      /\ client' = [c \in Clients |-> IF c \in setup.reach THEN [client[c] EXCEPT !.told = @ \cup pending]
                                      ELSE client[c]]
      /\ UNCHANGED <<setup, sessionVars, cache, inflight, walks, advert, down>>
  BY DEF Flush
<1>2. UNCHANGED call
  BY <1>1 DEF sessionVars
<1>3. \A w \in 1..Len(walks) : WalkHolds(w)'
  BY <1>1, <1>2 DEF ListingInv, WalkHolds, Back
<1>4. \A p \in Principals : SiteHolds(p)'
  BY <1>1, <1>2 DEF ListingInv, SiteHolds, Value
<1>5. ASSUME NEW c \in Clients PROVE ClientHolds(c)'
  <2>1. PICK p : p = PrincipalOf[c]
    OBVIOUS
  <2>2. ClientHolds(c)
    BY DEF ListingInv
  <2>3. \A k \in Kinds : Stands(p, k)' = Stands(p, k)
    BY <1>1, <1>2 DEF Stands, Value
  <2>4. CASE c \notin setup.reach
    BY <1>1, <2>2, <2>4 DEF ClientHolds
  <2>5. CASE c \in setup.reach
    <3>1. client'[c] = [client[c] EXCEPT !.told = @ \cup pending]
      BY <1>1, <2>5
    <3>2. DOMAIN client[c] = ClientFields
      BY <2>2 DEF ClientHolds, ClientShape
    <3>3. /\ DOMAIN client'[c] = ClientFields /\ client'[c].for = client[c].for
          /\ client'[c].on = client[c].on /\ client'[c].seen = client[c].seen
          /\ client'[c].excused = client[c].excused /\ client'[c].told = client[c].told \cup pending
      BY <3>1, <3>2 DEF ClientFields
    <3>4. ClientShape(client'[c], setup'.surface)
      BY <1>1, <2>2, <3>3 DEF ClientHolds, ClientShape
    <3>5. Waits(client'[c], inflight'[p], cache'[p], walks'[inflight'[p]], down')
      BY <1>1, <2>1, <2>2, <3>3 DEF ClientHolds, Waits
    <3>6. ASSUME NEW k \in Kinds, ~down'
          PROVE  Knows(client'[c], k, Stands(p, k)', pending', setup'.surface)
      <4>1. Knows(client[c], k, Stands(p, k), pending, setup.surface)
        BY <1>1, <2>1, <2>2, <2>5, <3>6 DEF ClientHolds
      <4> QED BY <1>1, <2>3, <3>3, <4>1 DEF Knows
    <3> QED BY <2>1, <3>4, <3>5, <3>6 DEF ClientHolds
  <2> QED BY <2>4, <2>5
<1>6. DOMAIN client' = Clients
  BY <1>1
<1> QED BY <1>1, <1>2, <1>3, <1>4, <1>5, <1>6 DEF ListingInv

\* The process goes down: nobody is promised anything any more.
LEMMA ShutdownKeeps ==
  ASSUME ListingInv, Shutdown
  PROVE  ListingInv'
<1>1. down' /\ UNCHANGED <<setup, call, cache, inflight, walks, client, pending, advert>>
  BY DEF Shutdown, sessionVars
<1>2. \A w \in 1..Len(walks) : WalkHolds(w)'
  BY <1>1 DEF ListingInv, WalkHolds, Back
<1>3. \A p \in Principals : SiteHolds(p)'
  BY <1>1 DEF ListingInv, SiteHolds
<1>4. \A c \in Clients : ClientHolds(c)'
  BY <1>1 DEF ListingInv, ClientHolds, Waits
<1> QED BY <1>1, <1>2, <1>3, <1>4 DEF ListingInv

\* The source changes what it advertises: a later answer of it has the new text.
LEMMA AdvertiseKeeps ==
  ASSUME ListingInv, Advertise
  PROVE  ListingInv'
<1>1. advert' = "v2" /\ UNCHANGED <<setup, call, cache, inflight, walks, client, pending, down>>
  BY DEF Advertise, sessionVars
<1>2. SameProcess
  BY <1>1, HopsStay, NoneIsNothing DEF ListingInv, SameProcess
<1>3. \A p \in Principals : SameSite(p)
  BY <1>1 DEF SameSite
<1> QED BY <1>1, <1>2, <1>3, SitesKeep

---------------------------------------------------------------------------
(* The calls of the walks, step by step *)

\* One call goes on.
LEMMA OneCallGoesOn ==
  ASSUME DropInv, ListingInv, NEW c, NEW q, call' = [call EXCEPT ![c] = q],
         \A w \in 1..MaxWalks, hop \in Kinds :
           c = <<w, hop>> => call[c].pc # "done" /\ (HopHolds(call[c]) => HopHolds(q))
  PROVE  HopsGoOn
<1>1. SUFFICES ASSUME NEW w \in 1..MaxWalks, NEW hop \in Kinds
               PROVE  /\ call[<<w, hop>>].pc = "done" => call'[<<w, hop>>] = call[<<w, hop>>]
                      /\ HopHolds(call'[<<w, hop>>])
  BY DEF HopsGoOn
<1>2. PICK h : h = <<w, hop>>
  OBVIOUS
<1>3. h \in Calls /\ DOMAIN call = Calls
  BY <1>2, CatalogAssumption DEF DropInv, Kinds
<1>4. HopHolds(call[h])
  BY <1>2 DEF ListingInv
<1>5. CASE h = c
  <2>1. call[c].pc # "done" /\ HopHolds(q) /\ call'[h] = q
    BY <1>2, <1>3, <1>4, <1>5
  <2> QED BY <1>2, <1>5, <2>1
<1>6. CASE h # c
  <2>1. call'[h] = call[h]
    BY <1>3, <1>6
  <2> QED BY <1>2, <1>4, <2>1
<1> QED BY <1>5, <1>6

\* A call begins with no answer.
LEMMA BegunHops ==
  ASSUME DropInv, ListingInv, NEW c, call[c].pc = "idle", NEW p, NEW retry,
         call' = [call EXCEPT ![c] = Begun(c, p, retry)]
  PROVE  HopsGoOn
<1> DEFINE n == [NewCall EXCEPT !.who = p, !.retry = retry, !.key = <<p, token>>]
<1>1. IsSeq(table)
  BY DEF DropInv, Keyed
<1>2. DOMAIN n = CallFields /\ n.res = "none"
  BY DEF NewCall, CallFields
<1>3. Begun(c, p, retry) = Ensured(c, n, table)
  BY DEF Begun
<1> HIDE DEF n
<1>4. Ensured(c, n, table).res = "none"
  BY <1>1, <1>2, EnsuredSettles DEF CallFields
<1>5. HopHolds(Begun(c, p, retry))
  BY <1>3, <1>4 DEF HopHolds
<1> QED BY <1>5, OneCallGoesOn

\* A call that was told of its expired session is no answer.
LEMMA ReinitHops ==
  ASSUME DropInv, ListingInv, NEW c \in Calls, Reinit(c)
  PROVE  HopsGoOn
<1> DEFINE n == [call[c] EXCEPT !.reinited = TRUE]
           q == Ensured(c, n, DropSession(call[c].key))
<1>1. call[c].pc = "back" /\ call[c].res = "expired" /\ call' = [call EXCEPT ![c] = q]
  BY DEF Reinit, MayReinit
<1>2. IsSeq(DropSession(call[c].key))
  BY WithoutFacts DEF DropInv, Keyed, DropSession
<1>3. DOMAIN n = CallFields /\ n.res = "expired"
  BY <1>1 DEF DropInv, CallHolds, CallShape, CallFields
<1> HIDE DEF n
<1>4. q.res = "expired"
  BY <1>2, <1>3, EnsuredSettles DEF CallFields
<1> HIDE DEF q
<1>5. HopHolds(q)
  BY <1>4 DEF HopHolds
<1> QED BY <1>1, <1>5, OneCallGoesOn

\* The source answers with what it advertises, or no hop is answered.
LEMMA ServeHops ==
  ASSUME DropInv, ListingInv, NEW c, NEW value, Serve(c, value),
         value # None \/ \A w \in 1..MaxWalks, hop \in Kinds : c # <<w, hop>>
  PROVE  HopsGoOn
<1>1. call[c].pc = "sent"
  BY DEF Serve
<1>2. CASE \A w \in 1..MaxWalks, hop \in Kinds : c # <<w, hop>>
  <2>1. PICK q : call' = [call EXCEPT ![c] = q]
    BY DEF Serve
  <2> QED BY <1>2, <2>1, OneCallGoesOn
<1>3. CASE c \in Calls /\ value # None
  <2>1. DOMAIN call[c] = CallFields
    BY <1>3 DEF DropInv, CallHolds, CallShape
  <2>2. PICK q : call' = [call EXCEPT ![c] = q] /\ HopHolds(q)
    <3>1. CASE call' = [call EXCEPT ![c].pc = "back", ![c].res = "expired"]
      <4>1. PICK q : q = [call[c] EXCEPT !.pc = "back", !.res = "expired"]
        OBVIOUS
      <4>2. HopHolds(q)
        BY <2>1, <4>1 DEF HopHolds, CallFields
      <4> QED BY <3>1, <4>1, <4>2
    <3>2. CASE call' = [call EXCEPT ![c].pc = "back", ![c].res = "ok", ![c].value = value, ![c].ran = @ + 1]
      <4>1. PICK q : q = [call[c] EXCEPT !.pc = "back", !.res = "ok", !.value = value, !.ran = @ + 1]
        OBVIOUS
      <4>2. HopHolds(q)
        BY <1>3, <2>1, <4>1 DEF HopHolds, CallFields
      <4> QED BY <3>2, <4>1, <4>2
    <3>3. CASE call' = [call EXCEPT ![c].pc = "back", ![c].res = "unauthorized"]
      <4>1. PICK q : q = [call[c] EXCEPT !.pc = "back", !.res = "unauthorized"]
        OBVIOUS
      <4>2. HopHolds(q)
        BY <2>1, <4>1 DEF HopHolds, CallFields
      <4> QED BY <3>3, <4>1, <4>2
    <3>4. CASE \E ran \in {0, 1} :
                 call' = [call EXCEPT ![c].pc = "back", ![c].res = "failed", ![c].ran = @ + ran]
      <4>1. PICK ran \in {0, 1} :
                 call' = [call EXCEPT ![c].pc = "back", ![c].res = "failed", ![c].ran = @ + ran]
        BY <3>4
      <4>2. PICK q : q = [call[c] EXCEPT !.pc = "back", !.res = "failed", !.ran = @ + ran]
        OBVIOUS
      <4>3. HopHolds(q)
        BY <2>1, <4>2 DEF HopHolds, CallFields
      <4> QED BY <4>1, <4>2, <4>3
    <3> QED BY <3>1, <3>2, <3>3, <3>4 DEF Serve
  <2> QED BY <1>1, <2>2, OneCallGoesOn
<1>4. \A w \in 1..MaxWalks, hop \in Kinds : <<w, hop>> \in Calls
  BY CatalogAssumption DEF Kinds
<1> QED BY <1>2, <1>3, <1>4

\* A call is sent again, ends, or is given up.
LEMMA OtherHops ==
  ASSUME DropInv, ListingInv, NEW c \in Calls, Refresh(c) \/ Finish(c) \/ Abort(c)
  PROVE  HopsGoOn
<1>1. DOMAIN call[c] = CallFields /\ call[c].pc # "done"
  BY DEF DropInv, CallHolds, CallShape, Refresh, Finish, Abort
<1>2. CASE Refresh(c)
  <2>1. PICK q : q = [call[c] EXCEPT !.pc = "sent", !.refreshed = TRUE]
    OBVIOUS
  <2>2. call[c].res = "unauthorized" /\ call' = [call EXCEPT ![c] = q]
    BY <1>2, <2>1 DEF Refresh, MayRefresh
  <2>3. HopHolds(q)
    BY <1>1, <2>1, <2>2 DEF HopHolds, CallFields
  <2> QED BY <1>1, <2>2, <2>3, OneCallGoesOn
<1>3. CASE Finish(c)
  <2>1. PICK q : q = [call[c] EXCEPT !.pc = "done"]
    OBVIOUS
  <2>2. call' = [call EXCEPT ![c] = q]
    BY <1>3, <2>1 DEF Finish
  <2>3. q.res = call[c].res /\ q.value = call[c].value
    BY <1>1, <2>1 DEF CallFields
  <2>4. HopHolds(call[c]) => HopHolds(q)
    BY <2>3 DEF HopHolds
  <2> QED BY <1>1, <2>2, <2>4, OneCallGoesOn
<1>4. CASE Abort(c)
  <2>1. PICK q : q = [call[c] EXCEPT !.pc = "done", !.res = "failed"]
    OBVIOUS
  <2>2. call' = [call EXCEPT ![c] = q]
    BY <1>4, <2>1 DEF Abort
  <2>3. HopHolds(q)
    BY <1>1, <2>1 DEF HopHolds, CallFields
  <2> QED BY <1>1, <2>2, <2>3, OneCallGoesOn
<1> QED BY <1>2, <1>3, <1>4

\* A handshake ends, and the calls that waited for it go on or fail.
LEMMA ShakeHops ==
  ASSUME DropInv, ListingInv, NEW i, Establish(i) \/ ShakeFails(i)
  PROVE  HopsGoOn
<1>1. SUFFICES ASSUME NEW w \in 1..MaxWalks, NEW hop \in Kinds
               PROVE  /\ call[<<w, hop>>].pc = "done" => call'[<<w, hop>>] = call[<<w, hop>>]
                      /\ HopHolds(call'[<<w, hop>>])
  BY DEF HopsGoOn
<1>2. PICK h : h = <<w, hop>>
  OBVIOUS
<1>3. h \in Calls
  BY <1>2, CatalogAssumption DEF Kinds
<1>4. HopHolds(call[h]) /\ DOMAIN call[h] = CallFields
  BY <1>2, <1>3 DEF ListingInv, DropInv, CallHolds, CallShape
<1>5. \/ call'[h] = call[h]
      \/ /\ call[h].pc = "joining"
         /\ \/ \E sid : call'[h] = [call[h] EXCEPT !.pc = "sent", !.sid = sid]
            \/ call'[h] = [call[h] EXCEPT !.pc = "done", !.res = "no_session"]
  BY <1>3 DEF Establish, ShakeFails, Joined
<1>6. HopHolds(call'[h])
  <2>1. CASE call'[h] = call[h]
    BY <1>4, <2>1
  <2>2. CASE \E sid : call'[h] = [call[h] EXCEPT !.pc = "sent", !.sid = sid]
    <3>1. PICK sid : call'[h] = [call[h] EXCEPT !.pc = "sent", !.sid = sid]
      BY <2>2
    <3>2. call'[h].res = call[h].res /\ call'[h].value = call[h].value
      BY <1>4, <3>1 DEF CallFields
    <3> QED BY <1>4, <3>2 DEF HopHolds
  <2>3. CASE call'[h] = [call[h] EXCEPT !.pc = "done", !.res = "no_session"]
    <3>1. call'[h].res = "no_session"
      BY <1>4, <2>3 DEF CallFields
    <3> QED BY <3>1 DEF HopHolds
  <2> QED BY <1>5, <2>1, <2>2, <2>3
<1> QED BY <1>2, <1>5, <1>6

\* What the sessions do.
LEMMA SessionStepHops ==
  ASSUME DropInv, ListingInv, SessionStep
  PROVE  HopsGoOn
<1>1. ASSUME NEW i, Issue(i) \/ ShakeRefused(i) \/ Establish(i) \/ ShakeFails(i) PROVE HopsGoOn
  <2>1. CASE Issue(i) \/ ShakeRefused(i)
    BY <2>1, HopsStay DEF Issue, ShakeRefused
  <2>2. CASE Establish(i) \/ ShakeFails(i)
    BY <2>2, ShakeHops
  <2> QED BY <1>1, <2>1, <2>2
<1>2. CASE SourceDrops
  BY <1>2, HopsStay DEF SourceDrops
<1>3. ASSUME NEW c \in Calls, Refresh(c) \/ Finish(c) PROVE HopsGoOn
  BY <1>3, OtherHops
<1> QED BY <1>1, <1>2, <1>3 DEF SessionStep

---------------------------------------------------------------------------
(* Listings *)

\* A walk is started or not, for a client: its site stands as it did.
LEMMA LoadFacts ==
  ASSUME ListingInv, NEW p \in Principals, NEW kind, Load(p, kind),
         UNCHANGED <<setup, sessionVars, cache, pending, advert, down>>, DOMAIN client' = Clients
  PROVE  /\ SameProcess /\ SiteHolds(p)' /\ \A k \in Kinds : Stands(p, k)' = Stands(p, k)
         /\ \A x \in Principals : x # p => inflight'[x] = inflight[x]
         /\ \A w \in 1..Len(walks) : walks'[w] = walks[w]
         /\ \A w \in 1..Len(walks') : w = inflight[p] \/ w > Len(walks) => WalkHolds(w)'
         /\ inflight[p] # 0 => SameSite(p)
         /\ inflight'[p] # 0 => inflight'[p] = inflight[p] \/ Early(walks'[inflight'[p]])
         /\ inflight'[p] = 0 => inflight[p] = 0 /\ ~Starts(p, kind)
<1>1. /\ Len(walks) \in Nat /\ MaxWalks \in Nat /\ IsSeq(walks) /\ Len(walks) <= MaxWalks
      /\ DOMAIN cache = Principals /\ DOMAIN inflight = Principals
  BY LenProperties, CatalogAssumption DEF ListingInv, IsSeq
<1>2. HopsGoOn
  BY HopsStay DEF sessionVars
<1>3. CASE Starts(p, kind)
  <2>1. PICK n, q : n = Len(walks) + 1 /\ q = NewWalk(p)
    OBVIOUS
  <2>2. /\ Len(walks) < MaxWalks /\ walks' = Append(walks, q) /\ inflight[p] = 0
        /\ inflight' = [inflight EXCEPT ![p] = n]
    BY <1>3, <2>1 DEF Load, Starts
  <2>3. /\ IsSeq(walks') /\ Len(walks') = n /\ walks'[n] = q
        /\ \A x \in 1..Len(walks) : walks'[x] = walks[x]
    BY <1>1, <2>1, <2>2, AppendWalk
  <2>4. /\ q.who = p /\ q.pc = "gov" /\ q.prev = cache[p] /\ DOMAIN q = WalkFields /\ Early(q)
    BY <2>1 DEF NewWalk, WalkFields, Early
  <2>5. inflight'[p] = n /\ DOMAIN inflight' = Principals /\ n # 0 /\ n \in 1..Len(walks')
    BY <1>1, <2>1, <2>2, <2>3
  <2>6. SameProcess
    BY <1>1, <1>2, <2>1, <2>2, <2>3, <2>5 DEF ListingInv, SameProcess
  <2>7. EntryHolds(cache[p], setup.surface)
    BY DEF ListingInv, SiteHolds
  <2>8. WalkHolds(n)'
    BY <2>3, <2>4, <2>5, <2>7 DEF WalkHolds
  <2>9. SiteHolds(p)'
    <3>1. PICK x : x = Value(n, "tools")'
      OBVIOUS
    <3>2. Beside(cache'[p], walks'[n], x)
      BY <2>3, <2>4 DEF Beside
    <3> QED BY <2>3, <2>4, <2>5, <2>7, <3>1, <3>2 DEF SiteHolds, Runs
  <2>10. ASSUME NEW k \in Kinds PROVE Stands(p, k)' = Stands(p, k)
    BY <2>2, <2>3, <2>4, <2>5 DEF Stands, StandsBy
  <2>11. \A w \in 1..Len(walks') : w = inflight[p] \/ w > Len(walks) => WalkHolds(w)'
    BY <1>1, <2>1, <2>2, <2>3, <2>8
  <2> QED BY <1>1, <2>2, <2>3, <2>4, <2>5, <2>6, <2>9, <2>10, <2>11
<1>4. CASE ~Starts(p, kind)
  <2>1. UNCHANGED <<walks, inflight>>
    BY <1>4 DEF Load
  <2>2. SameProcess
    BY <1>1, <1>2, <2>1 DEF ListingInv, SameProcess
  <2>3. SameSite(p)
    BY <2>1 DEF SameSite
  <2>4. SiteHolds(p)' /\ \A k \in Kinds : Stands(p, k)' = Stands(p, k)
    BY <2>2, <2>3, SameSiteHolds
  <2>5. ASSUME NEW w \in 1..Len(walks') PROVE WalkHolds(w)'
    <3>1. w \in 1..Len(walks) /\ WalkHolds(w)
      BY <2>1 DEF ListingInv
    <3> QED BY <2>1, <2>2, <3>1, SameWalkHolds DEF WalkHolds
  <2> QED BY <1>4, <2>1, <2>2, <2>3, <2>4, <2>5
<1> QED BY <1>3, <1>4

\* A walk is started or not: the clients but one go on.
LEMMA LoadKeeps ==
  ASSUME ListingInv, NEW p \in Principals, NEW kind, Load(p, kind),
         UNCHANGED <<setup, sessionVars, cache, pending, advert, down>>, DOMAIN client' = Clients,
         \A c \in Clients : client'[c] = client[c] \/ (PrincipalOf[c] = p /\ ClientHolds(c)')
  PROVE  ListingInv'
<1>1. /\ SameProcess /\ SiteHolds(p)' /\ \A k \in Kinds : Stands(p, k)' = Stands(p, k)
      /\ \A x \in Principals : x # p => inflight'[x] = inflight[x]
      /\ \A w \in 1..Len(walks) : walks'[w] = walks[w]
      /\ \A w \in 1..Len(walks') : w = inflight[p] \/ w > Len(walks) => WalkHolds(w)'
      /\ inflight[p] # 0 => SameSite(p)
  BY LoadFacts
<1>2. OnlySite(p)
  BY <1>1 DEF OnlySite
<1>3. ASSUME NEW c \in Clients, PrincipalOf[c] = p PROVE ClientHolds(c)'
  <2>1. CASE client'[c] = client[c] /\ inflight[p] # 0
    BY <1>1, <1>3, <2>1, SameClientHolds
  <2>2. CASE client'[c] = client[c] /\ inflight[p] = 0
    <3>1. Waits(client[c], inflight[p], cache[p], walks[inflight[p]], down)
      BY <1>3 DEF ListingInv, ClientHolds
    <3>2. Waits(client[c], inflight'[p], cache'[p], walks'[inflight'[p]], down)
      BY <2>2, <3>1 DEF Waits
    <3>3. Follows(p)
      BY <1>1 DEF Follows
    <3> QED BY <1>1, <1>3, <2>2, <3>2, <3>3, ClientStays
  <2> QED BY <2>1, <2>2
<1> QED BY <1>1, <1>2, <1>3, OneSiteKeeps

\* initialize warms the catalog.
LEMMA PrefetchKeeps ==
  ASSUME ListingInv, NEW c \in Clients, Prefetch(c)
  PROVE  ListingInv'
<1>1. PICK p \in Principals : p = PrincipalOf[c]
  BY CatalogAssumption
<1>2. Load(p, "tools") /\ UNCHANGED <<setup, sessionVars, cache, client, pending, advert, down>>
  BY <1>1 DEF Prefetch
<1>3. DOMAIN client' = Clients
  BY <1>2 DEF ListingInv
<1> QED BY <1>2, <1>3, LoadKeeps

\* A client lists: it is answered from what is kept, with nothing, or waits.
LEMMA ListKeeps ==
  ASSUME ListingInv, NEW c \in Clients, NEW kind \in Kinds, List(c, kind)
  PROVE  ListingInv'
<1>1. PICK p \in Principals : p = PrincipalOf[c]
  BY CatalogAssumption
<1>2. PICK w : w = inflight'[p]
  OBVIOUS
<1>3. PICK q : q = [client[c] EXCEPT !.for = kind, !.told = @ \ {kind}, !.on = w]
  OBVIOUS
<1>4. /\ client[c].for = None /\ Load(p, kind)
      /\ client' = [client EXCEPT ![c] = IF Served(cache[p], kind) THEN Answered(q, cache[p])
                                         ELSE IF w = 0 THEN Answered(q, Nothing) ELSE q]
      /\ UNCHANGED <<setup, sessionVars, cache, pending, advert, down>>
  BY <1>1, <1>2, <1>3 DEF List
<1>5. /\ DOMAIN client = Clients /\ ClientHolds(c) /\ ClientShape(client[c], setup.surface)
      /\ EntryHolds(cache[p], setup.surface)
  BY DEF ListingInv, ClientHolds, SiteHolds
<1>6. DOMAIN client' = Clients /\ \A d \in Clients : d # c => client'[d] = client[d]
  BY <1>4, <1>5
<1>7. /\ SameProcess /\ \A k \in Kinds : Stands(p, k)' = Stands(p, k)
      /\ inflight'[p] # 0 => inflight'[p] = inflight[p] \/ Early(walks'[inflight'[p]])
      /\ inflight'[p] = 0 => inflight[p] = 0 /\ ~Starts(p, kind)
      /\ inflight[p] # 0 => SameSite(p)
  BY <1>4, <1>6, LoadFacts
<1>8. /\ DOMAIN q = ClientFields /\ q.for = kind /\ q.on = w /\ q.told = client[c].told \ {kind}
      /\ q.seen = client[c].seen /\ q.excused = client[c].excused
  BY <1>3, <1>5 DEF ClientShape, ClientFields
<1>9. ClientShape(q, setup.surface)
  BY <1>5, <1>8 DEF ClientShape
<1>10. ASSUME NEW k \in Kinds, c \in setup.reach, ~down
       PROVE  Knows(q, k, Stands(p, k), pending, setup.surface)
  <2>1. Knows(client[c], k, Stands(p, k), pending, setup.surface)
    BY <1>1, <1>5, <1>10 DEF ClientHolds
  <2> QED BY <1>4, <1>8, <2>1, NoneIsNothing DEF Knows
<1>11. ASSUME NEW e, EntryHolds(e, setup.surface), client'[c] = Answered(q, e),
              ~down => Fits(AdvertisedIn(e, kind), kind, Stands(p, kind), setup.surface)
       PROVE  ClientHolds(c)'
  <2>1. ClientShape(client'[c], setup.surface) /\ client'[c].for = None
    BY <1>8, <1>9, <1>11, AnsweredFacts
  <2>2. ASSUME NEW k \in Kinds, c \in setup.reach, ~down
        PROVE  Knows(client'[c], k, Stands(p, k)', pending', setup.surface)
    <3>1. PICK v : v = Stands(p, k)
      OBVIOUS
    <3>2. Knows(q, k, v, pending, setup.surface)
      BY <1>10, <2>2, <3>1
    <3>3. k = q.for => Fits(AdvertisedIn(e, k), k, v, setup.surface)
      BY <1>8, <1>11, <2>2, <3>1
    <3>4. Knows(Answered(q, e), k, v, pending, setup.surface)
      BY <1>8, <1>9, <1>11, <3>2, <3>3, AnsweredKnows
    <3> QED BY <1>4, <1>7, <1>11, <3>1, <3>4
  <2>3. Waits(client'[c], inflight'[p], cache'[p], walks'[inflight'[p]], down')
    BY <2>1 DEF Waits
  <2> QED BY <1>1, <1>4, <2>1, <2>2, <2>3 DEF ClientHolds
<1>12. CASE Served(cache[p], kind)
  <2>1. client'[c] = Answered(q, cache[p])
    BY <1>4, <1>5, <1>12
  <2>2. cache[p].kept
    BY <1>12 DEF Served
  <2>3. ~down => Stands(p, kind) = AdvertisedIn(cache[p], kind)
    BY <2>2, StandsKept
  <2>4. ~down => Fits(AdvertisedIn(cache[p], kind), kind, Stands(p, kind), setup.surface)
    BY <2>3 DEF Fits
  <2>5. PICK e : e = cache[p]
    OBVIOUS
  <2>6. ClientHolds(c)'
    BY <1>5, <1>11, <2>1, <2>4, <2>5
  <2> QED BY <1>1, <1>4, <1>6, <2>6, LoadKeeps
<1>13. CASE ~Served(cache[p], kind) /\ w = 0
  <2>1. client'[c] = Answered(q, Nothing)
    BY <1>4, <1>5, <1>13
  <2>2. Needed(cache[p], kind)
    BY <1>13 DEF Served, Needed
  <2>3. inflight[p] = 0 /\ (~down => setup.surface = {})
    BY <1>2, <1>7, <1>13, <2>2 DEF Starts, Idle
  <2>4. PICK none : none = Nothing
    OBVIOUS
  <2>5. EntryHolds(none, setup.surface) /\ AdvertisedIn(none, kind) = None
    BY <2>4, NoCatalogHolds
  <2>6. ~down => Stands(p, kind) = None
    BY <2>3, StandsOff
  <2>7. ~down => Fits(AdvertisedIn(none, kind), kind, Stands(p, kind), setup.surface)
    BY <2>5, <2>6 DEF Fits
  <2>8. ClientHolds(c)'
    BY <1>11, <2>1, <2>4, <2>5, <2>7
  <2> QED BY <1>1, <1>4, <1>6, <2>8, LoadKeeps
<1>14. CASE ~Served(cache[p], kind) /\ w # 0
  <2>1. client'[c] = q
    BY <1>4, <1>5, <1>14
  <2>2. Waits(q, inflight'[p], cache'[p], walks'[inflight'[p]], down')
    <3>1. ~down /\ cache[p].kept => ~Satisfies(cache[p], kind)
      BY <1>14 DEF Served
    <3> QED BY <1>2, <1>4, <1>8, <1>14, <3>1 DEF Waits
  <2>3. ASSUME NEW k \in Kinds, c \in setup'.reach, ~down'
        PROVE  Knows(q, k, Stands(p, k)', pending', setup'.surface)
    BY <1>4, <1>7, <1>10, <2>3
  <2>4. ClientHolds(c)'
    BY <1>1, <1>4, <1>9, <2>1, <2>2, <2>3 DEF ClientHolds
  <2> QED BY <1>1, <1>4, <1>6, <2>4, LoadKeeps
<1> QED BY <1>12, <1>13, <1>14

\* A listing gives up.
LEMMA GiveUpKeeps ==
  ASSUME ListingInv, NEW c \in Clients, GiveUp(c)
  PROVE  ListingInv'
<1>1. PICK p \in Principals : p = PrincipalOf[c]
  BY CatalogAssumption
<1>2. PICK q, a : q = client[c] /\ a = Answered(q, Nothing)
  OBVIOUS
<1>3. PICK b : b = [a EXCEPT !.excused = IF walks[q.on].prev.ok THEN @ \cup {q.for} ELSE @]
  OBVIOUS
<1>4. /\ q.for # None /\ client' = [client EXCEPT ![c] = b]
      /\ UNCHANGED <<setup, sessionVars, cache, inflight, walks, pending, advert, down>>
  BY <1>2, <1>3 DEF GiveUp
<1>5. /\ DOMAIN client = Clients /\ ClientHolds(c) /\ ClientShape(q, setup.surface)
      /\ EntryHolds(cache[p], setup.surface)
  BY <1>2 DEF ListingInv, ClientHolds, SiteHolds
<1>6. /\ DOMAIN client' = Clients /\ client'[c] = b /\ \A d \in Clients : d # c => client'[d] = client[d]
  BY <1>4, <1>5
<1>7. PICK w : w = inflight[p]
  OBVIOUS
<1>8. w # 0 /\ q.on = w /\ (~down /\ cache[p].kept /\ ~Early(walks[w]) => ~Satisfies(cache[p], q.for))
  BY <1>1, <1>2, <1>4, <1>5, <1>7 DEF ClientHolds, Waits
<1>9. q.for \in Kinds
  BY <1>4, <1>5 DEF ClientShape
<1>10. PICK none : none = Nothing
  OBVIOUS
<1>11. EntryHolds(none, setup.surface) /\ \A k \in Kinds : AdvertisedIn(none, k) = None
  BY <1>10, NoCatalogHolds
<1>12. /\ ClientShape(a, setup.surface) /\ a.for = None /\ a.told = q.told
       /\ a.excused = q.excused \ {q.for} /\ a.seen[q.for] = None
       /\ \A k \in Kinds : k # q.for => a.seen[k] = q.seen[k]
  BY <1>2, <1>5, <1>9, <1>10, <1>11, AnsweredFacts
<1>13. /\ DOMAIN b = ClientFields /\ b.for = None /\ b.told = q.told /\ b.seen = a.seen
       /\ b.excused = IF walks[w].prev.ok THEN a.excused \cup {q.for} ELSE a.excused
  BY <1>3, <1>8, <1>12 DEF ClientShape, ClientFields
<1>14. ClientShape(b, setup.surface)
  BY <1>12, <1>13 DEF ClientShape
<1>15. ASSUME ~down, ~walks[w].prev.ok PROVE Stands(p, q.for) = None
  <2>1. /\ Beside(cache[p], walks[w], Value(w, "tools")) /\ EntryHolds(walks[w].prev, setup.surface)
    BY <1>7, <1>8, <1>15, WalkOf DEF ListingInv, SiteHolds
  <2>2. walks[w].prev.prompts = None
    BY <1>15, <2>1 DEF EntryHolds
  <2>3. CASE Early(walks[w]) \/ ~cache[p].kept
    BY <1>7, <1>8, <1>15, <2>3 DEF Stands, StandsBy, AdvertisedIn
  <2>4. CASE ~Early(walks[w]) /\ cache[p].kept
    <3>1. cache[p].ok /\ cache[p].prompts = None
      BY <2>1, <2>2, <2>4 DEF Beside
    <3>2. q.for = "prompts"
      BY <1>8, <1>9, <1>15, <2>4, <3>1 DEF Satisfies, Kinds
    <3> QED BY <1>7, <1>8, <2>4, <3>1, <3>2 DEF Stands, StandsBy
  <2> QED BY <2>3, <2>4
<1>16. ASSUME NEW k \in Kinds, c \in setup.reach, ~down
       PROVE  Knows(b, k, Stands(p, k), pending, setup.surface)
  <2>1. Knows(q, k, Stands(p, k), pending, setup.surface)
    BY <1>1, <1>2, <1>5, <1>16 DEF ClientHolds
  <2>2. CASE k # q.for
    BY <1>12, <1>13, <2>1, <2>2 DEF Knows
  <2>3. CASE k = q.for /\ walks[w].prev.ok
    BY <1>13, <2>3 DEF Knows
  <2>4. CASE k = q.for /\ ~walks[w].prev.ok
    BY <1>12, <1>13, <1>15, <1>16, <2>4 DEF Knows, Fits
  <2> QED BY <2>2, <2>3, <2>4
<1>17. SameProcess
  BY <1>4, <1>6, HopsStay DEF ListingInv, SameProcess, sessionVars
<1>18. \A x \in Principals : SameSite(x)
  BY <1>4 DEF SameSite
<1>19. ClientHolds(c)'
  <2>1. \A k \in Kinds : Stands(p, k)' = Stands(p, k)
    BY <1>17, <1>18, SameSiteHolds
  <2>2. Waits(b, inflight'[p], cache'[p], walks'[inflight'[p]], down')
    BY <1>13 DEF Waits
  <2>3. ASSUME NEW k \in Kinds, c \in setup'.reach, ~down'
        PROVE  Knows(b, k, Stands(p, k)', pending', setup'.surface)
    BY <1>4, <1>16, <2>1, <2>3
  <2> QED BY <1>1, <1>4, <1>6, <1>14, <2>2, <2>3 DEF ClientHolds
<1> QED BY <1>4, <1>6, <1>17, <1>18, <1>19, SitesKeep

---------------------------------------------------------------------------
(* The listings: the theorem *)

\* Nothing has been listed yet.
LEMMA ListingInit ==
  ASSUME SessionsInit, CatalogInit
  PROVE  ListingInv
<1>1. /\ cache = [p \in Principals |-> Nothing] /\ inflight = [p \in Principals |-> 0]
      /\ walks = <<>> /\ advert = "v1" /\ client = [c \in Clients |-> NewClient]
      /\ setup.surface \subseteq Kinds /\ setup.clients \subseteq Clients
      /\ call = [c \in Calls |-> NewCall]
  BY DEF SessionsInit, CatalogInit
<1>2. Len(walks) = 0 /\ IsSeq(walks) /\ MaxWalks \in Nat
  BY <1>1, EmptySeq, SeqIsSeq, CatalogAssumption
<1>3. \A w \in 1..MaxWalks, hop \in Kinds : HopHolds(call[<<w, hop>>])
  <2>1. \A h \in Calls : call[h].res = "none"
    BY <1>1 DEF NewCall
  <2>2. \A w \in 1..MaxWalks, hop \in Kinds : <<w, hop>> \in Calls
    BY CatalogAssumption DEF Kinds
  <2> QED BY <2>1, <2>2 DEF HopHolds
<1>4. \A e : e = Nothing => EntryHolds(e, setup.surface) /\ \A k \in Kinds : AdvertisedIn(e, k) = None
  BY NoCatalogHolds
<1>5. \A p \in Principals : SiteHolds(p)
  BY <1>1, <1>4 DEF SiteHolds
<1>6. /\ DOMAIN NewClient = ClientFields /\ NewClient.for = None
      /\ NewClient.seen = [k \in Kinds |-> "never"]
  BY DEF NewClient, ClientFields
<1>7. ASSUME NEW c \in Clients PROVE ClientHolds(c)
  <2>1. client[c] = NewClient
    BY <1>1
  <2>2. ClientShape(client[c], setup.surface)
    BY <1>6, <2>1 DEF ClientShape
  <2>3. \A k \in Kinds : client[c].seen[k] = "never"
    BY <1>6, <2>1
  <2> QED BY <1>6, <2>1, <2>2, <2>3 DEF ClientHolds, Waits, Knows, Fits
<1>8. advert # None
  BY <1>1, NoneIsNothing
<1>9. \A w \in 1..Len(walks) : WalkHolds(w)
  BY <1>2
<1> QED BY <1>1, <1>2, <1>3, <1>5, <1>7, <1>8, <1>9 DEF ListingInv

\* A step of the connector, of its clients or of the source.
LEMMA NextListings ==
  ASSUME DropInv, ListingInv, Next
  PROVE  ListingInv'
<1>1. /\ setup.surface \subseteq Kinds /\ setup.clients \subseteq Clients /\ advert # None
  BY DEF ListingInv
<1>2. ASSUME NEW c \in setup.clients,
             Prefetch(c) \/ GiveUp(c) \/ \E kind \in Kinds : List(c, kind)
      PROVE  ListingInv'
  <2>1. c \in Clients
    BY <1>1
  <2> QED BY <1>2, <2>1, PrefetchKeeps, GiveUpKeeps, ListKeeps
<1>3. ASSUME NEW w \in DOMAIN walks, Governed(w) \/ ToolsIn(w) \/ PromptsIn(w) \/ WalkFails(w)
      PROVE  ListingInv'
  BY <1>3, GovernedKeeps, ToolsInKeeps, PromptsInKeeps, WalkFailsKeeps
<1>4. ASSUME NEW w, NEW hop, Send(w, hop) PROVE ListingInv'
  <2>1. PICK c : c = <<w, hop>>
    OBVIOUS
  <2>2. /\ call[c].pc = "idle" /\ call' = [call EXCEPT ![c] = Begun(c, walks[w].who, TRUE)]
        /\ UNCHANGED <<setup, catalogVars>>
    BY <1>4, <2>1 DEF Send
  <2>3. HopsGoOn
    BY <2>2, BegunHops
  <2> QED BY <2>2, <2>3, CallsKeep
<1>5. ASSUME NEW c, NEW p, NEW retry, Invoke(c, p, retry) PROVE ListingInv'
  <2>1. /\ call[c].pc = "idle" /\ call' = [call EXCEPT ![c] = Begun(c, p, retry)]
        /\ UNCHANGED <<setup, catalogVars>>
    BY <1>5 DEF Invoke
  <2>2. HopsGoOn
    BY <2>1, BegunHops
  <2> QED BY <2>1, <2>2, CallsKeep
<1>6. ASSUME NEW p \in Principals, Expire(p) PROVE ListingInv'
  BY <1>6, ExpireKeeps
<1>7. CASE Advertise \/ Flush \/ Shutdown
  BY <1>7, AdvertiseKeeps, FlushKeeps, ShutdownKeeps
<1>8. ASSUME NEW c \in Calls, Abort(c) PROVE ListingInv'
  <2>1. HopsGoOn
    BY <1>8, OtherHops
  <2> QED BY <1>8, <2>1, CallsKeep DEF Abort
<1>9. ASSUME NEW c \in Calls, Expired(c) PROVE ListingInv'
  <2>1. HopsGoOn
    BY <1>9, ReinitHops DEF Expired
  <2>2. PICK key : key = BudgetKey[call[c].who]
    OBVIOUS
  <2>3. cache' = Invalidated(key) /\ UNCHANGED <<setup, inflight, walks, client, pending, advert, down>>
    BY <1>9, <2>2 DEF Expired, Reinit
  <2> QED BY <2>1, <2>3, InvalidatedKeeps
<1>10. ASSUME NEW c, Serve(c, advert), UNCHANGED catalogVars PROVE ListingInv'
  <2>1. HopsGoOn
    BY <1>1, <1>10, ServeHops
  <2> QED BY <1>10, <2>1, CallsKeep DEF Serve
<1>11. CASE SessionStep /\ UNCHANGED catalogVars
  <2>1. HopsGoOn /\ setup' = setup
    BY <1>11, SessionStepHops
       DEF SessionStep, Issue, ShakeRefused, Establish, ShakeFails, SourceDrops, Refresh, Finish
  <2> QED BY <1>11, <2>1, CallsKeep
<1> QED BY <1>2, <1>3, <1>4, <1>5, <1>6, <1>7, <1>8, <1>9, <1>10, <1>11 DEF Next

\* A step of an operator's check: its calls are no hops of a walk.
LEMMA OperatorListings ==
  ASSUME DropInv, ListingInv, OperatorStep
  PROVE  ListingInv'
<1>1. PICK step : \/ Answer(step) \/ Fails(step) \/ Throttled(step) \/ TokenDies \/ Hear(step)
                  \/ Dial(step) \/ Decide(step)
  BY DEF OperatorStep
<1>2. CASE Answer(step) \/ Fails(step) \/ Throttled(step) \/ TokenDies \/ Hear(step)
  <2>1. UNCHANGED <<setup, sessionVars, catalogVars>>
    BY <1>2 DEF Answer, Fails, Throttled, TokenDies, Hear
  <2>2. HopsGoOn
    BY <2>1, HopsStay DEF sessionVars
  <2> QED BY <2>1, <2>2, CallsKeep
<1>3. CASE Dial(step)
  <2>1. PICK c : c = CallOf(step)
    OBVIOUS
  <2>2. /\ call[c].pc = "idle" /\ call' = [call EXCEPT ![c] = Begun(c, "local", TRUE)]
        /\ UNCHANGED <<setup, catalogVars>>
    BY <1>3, <2>1 DEF Dial
  <2>3. HopsGoOn
    BY <2>2, BegunHops
  <2> QED BY <2>2, <2>3, CallsKeep
<1>4. CASE Decide(step)
  <2>1. PICK value : Serve(CallOf(step), value) /\ UNCHANGED catalogVars
    BY <1>4 DEF Decide
  <2>2. \A w \in 1..MaxWalks, hop \in Kinds : CallOf(step) # <<w, hop>>
    BY CatalogAssumption DEF CallOf
  <2>3. HopsGoOn
    BY <2>1, <2>2, ServeHops
  <2> QED BY <2>1, <2>3, CallsKeep DEF Serve
<1> QED BY <1>1, <1>2, <1>3, <1>4

\* site-catalog.js:451-634.  A client asks, was or will be told of a change, or was
\* last answered what stands: the entry of its principal, or what the walk that runs
\* will compare its result with.
THEOREM ListingInvariant == Spec => []ListingInv
<1>1. SessionsInit /\ CatalogInit => ListingInv
  BY ListingInit
<1>2. DropInv /\ ListingInv /\ [OperatorNext]_opVars => ListingInv'
  <2> SUFFICES ASSUME DropInv, ListingInv, [OperatorNext]_opVars PROVE ListingInv'
    OBVIOUS
  <2>1. CASE OperatorStep
    BY <2>1, OperatorListings
  <2>2. CASE Next
    BY <2>2, NextListings
  <2>3. CASE UNCHANGED opVars
    <3>1. UNCHANGED <<setup, call, catalogVars>>
      BY <2>3 DEF opVars, sessionVars
    <3>2. HopsGoOn
      BY <3>1, HopsStay
    <3> QED BY <3>1, <3>2, CallsKeep
  <2> QED BY <2>1, <2>2, <2>3 DEF OperatorNext
<1> QED BY <1>1, <1>2, SourceInvariant, PTL DEF Spec

\* site-catalog.js:514.  Once nothing is under way, every client that notifications
\* reach was last answered what the catalog advertises, or was told of a change
\* since, but for the listings that gave up on a walk with something to compare with.
THEOREM ChangesAreAnnounced == Spec => []ListedOrTold
<1>1. ASSUME ListingInv, Quiet, NEW c \in setup.reach \cap setup.clients, NEW kind \in Kinds,
             Satisfies(cache[PrincipalOf[c]], kind), client[c].seen[kind] # "never", client[c].for # kind
      PROVE  \/ client[c].seen[kind] = cache[PrincipalOf[c]][kind]
             \/ kind \in client[c].told \/ kind \in client[c].excused
  <2>1. c \in Clients /\ c \in setup.reach
    BY <1>1 DEF ListingInv
  <2>2. PICK p \in Principals : p = PrincipalOf[c]
    BY <2>1, CatalogAssumption
  <2>3. ~down /\ pending = {} /\ inflight[p] = 0
    BY <1>1 DEF Quiet
  <2>4. Knows(client[c], kind, Stands(p, kind), {}, setup.surface)
    BY <1>1, <2>1, <2>2, <2>3 DEF ListingInv, ClientHolds
  <2>5. cache[p].ok /\ Stands(p, kind) = cache[p][kind]
    BY <1>1, <2>2, <2>3 DEF Satisfies, Stands, StandsBy, AdvertisedIn
  <2>6. kind \in setup.surface => cache[p][kind] # None
    BY <1>1, <2>2 DEF ListingInv, SiteHolds, EntryHolds
  <2> QED BY <1>1, <2>2, <2>4, <2>5, <2>6 DEF Knows, Fits
<1>2. ListingInv => ListedOrTold
  BY <1>1 DEF ListedOrTold
<1> QED BY <1>2, ListingInvariant, PTL

---------------------------------------------------------------------------
(* The operator's checks: the invariant *)

CheckFields == {"subject", "holds", "tool", "listed", "live", "seen", "held", "faults", "tries"}

\* How the call of a bridged step is answered, or given up.
Came == {"ok", "expired", "unauthorized", "failed"}
CameShape(q) ==
  /\ q.pc = "back" => q.res \in Came
  /\ q.pc = "done" => q.res \in Came \cup {"no_session"}
  /\ q.res = "ok" => q.pc \in {"back", "done"}

\* A config write that was heard of is over; one that may have run was due, under the
\* name that the catalog told, and came back with what the source makes of it.
BridgeHolds(step) ==
  LET q == call[CallOf(step)]
  IN  /\ CameShape(q)
      /\ step \in DOMAIN op.seen => /\ q.pc = "done" /\ op.seen[step] = Heard(q)
                                    /\ op.held[step] = (V!Step("write") \in op.holds)
      /\ (q.ran > 0 \/ q.res = "ok") /\ step # V!Step("catalog") =>
           /\ setup.check = "verify" /\ V!ProbesConfig(Subject) /\ V!Step("catalog") \in DOMAIN op.seen
           /\ q.ran > 0 => q.res \in {"ok", "failed"} /\ q.pc \in {"back", "done"}
           /\ q.res = "ok" => q.value \in Replies(step)
           /\ step = V!Step("write2") => ~V!Advertised(op.seen)

\* The answers that only a target gives which does as it should.
VerifyProves(name, answer) ==
  \/ name = "mint" /\ answer = "token"
  \/ name = "anonymous" /\ answer \in {"401", "403", "429", "4xx+code"}
  \/ name \in {"readiness", "context"} /\ answer = "200"
  \/ name = "mass" /\ answer \in {"403", "4xx+code", "fewer"}
  \/ name = "edit" /\ answer = "403"
DoctorProves(name, answer) ==
  \/ name = "authed" /\ answer \notin {"none", "401", "404", "500"}
  \/ name = "readiness" /\ answer \in {"ready", "ready+skew"}
HostedProves(o, seen, step) ==
  step[2] # "gates" /\ H!AnsweredAsExpected(o, seen, step) /\ seen[step] \notin H!Mistaken(step)

Proves(step) ==
  \/ setup.check = "verify" /\ VerifyProves(step[2], op.seen[step])
  \/ setup.check = "doctor" /\ DoctorProves(step[2], op.seen[step])
  \/ setup.check = "hosted" /\ HostedProves(Subject, op.seen, step)

\* A page that shows the gates of its client was given where they are.
ShowsGates(step) == setup.check = "hosted" /\ step[2] = "accept" /\ op.seen[step] = "login+gated"

AnswerHolds(step) ==
  /\ Proves(step) => op.held[step]
  /\ ShowsGates(step) => H!Probe("gates", step[3]) \in op.holds

OpInv ==
  /\ setup.check \in {"none", "verify", "doctor", "hosted"}
  /\ DOMAIN op = CheckFields /\ DOMAIN op.held = DOMAIN op.seen
  /\ \A step \in Bridged : BridgeHolds(step)
  /\ \A step \in DOMAIN op.seen \ Bridged : AnswerHolds(step)

---------------------------------------------------------------------------
(* What an answer proves *)

\* The names of the steps tell them apart.
LEMMA StepNames ==
  /\ \A n : V!Step(n)[2] = n /\ D!Gate(n)[2] = n
  /\ \A n, m : V!Step(n) = V!Step(m) => n = m
  /\ \A n, m : V!Step(n) # D!Gate(m)
  /\ \A f, w : H!Probe(f, w)[2] = f /\ H!Probe(f, w)[3] = w
  /\ \A n, f, w : V!Step(n) # H!Probe(f, w)
BY DEF V!Step, D!Gate, H!Probe

\* A target that does not do as it should gives the verifier none of these answers.
LEMMA VerifyAnswersProve ==
  ASSUME NEW step, NEW holds, NEW live, NEW s, NEW seen,
         NEW answer \in V!VerifyAnswers(step, holds, live, s, seen), VerifyProves(step[2], answer)
  PROVE  step \in holds
<1>1. CASE step[2] = "mint" /\ answer = "token"
  BY <1>1 DEF V!VerifyAnswers
<1>2. CASE step[2] = "anonymous" /\ answer \in {"401", "403", "429", "4xx+code"}
  BY <1>2 DEF V!VerifyAnswers
<1>3. CASE step[2] \in {"readiness", "context"} /\ answer = "200"
  BY <1>3 DEF V!VerifyAnswers
<1>4. CASE step[2] = "mass" /\ answer \in {"403", "4xx+code", "fewer"}
  BY <1>4 DEF V!VerifyAnswers
<1>5. CASE step[2] = "edit" /\ answer = "403"
  BY <1>5 DEF V!VerifyAnswers
<1> QED BY <1>1, <1>2, <1>3, <1>4, <1>5 DEF VerifyProves

\* The same of the doctor.
LEMMA DoctorAnswersProve ==
  ASSUME NEW step, NEW holds, NEW live, NEW s, NEW seen,
         NEW answer \in D!DoctorAnswers(step, holds, live, s, seen), DoctorProves(step[2], answer)
  PROVE  step \in holds
<1>1. CASE step[2] = "authed"
  BY <1>1 DEF D!DoctorAnswers, DoctorProves
<1>2. CASE step[2] = "readiness"
  BY <1>2 DEF D!DoctorAnswers, DoctorProves
<1> QED BY <1>1, <1>2 DEF DoctorProves

\* What the inventory expects of a client is one of three pages.
LEMMA ExpectedPages ==
  ASSUME NEW step, step[2] \in H!Authorizes, NEW provisioned
  PROVE  /\ H!Expected(step, provisioned) \in {"login", "invalid_redirect", "client_not_found"}
         /\ step[2] = "accept" => H!Expected(step, provisioned) \in {"login", "client_not_found"}
BY DEF H!Expected, H!Authorizes

\* The same of the acceptance probe.
LEMMA HostedAnswersProve ==
  ASSUME NEW step, NEW holds, NEW live, NEW o, NEW seen, NEW noted,
         noted[step] \in H!HostedAnswers(step, holds, live, o, seen), HostedProves(o, noted, step)
  PROVE  step \in holds
<1> SUFFICES ASSUME step \notin holds PROVE FALSE
  OBVIOUS
<1>1. CASE step[2] \in H!Authorizes
  <2>1. noted[step] \in H!OtherPages(H!Expected(step, o.provisioned))
    BY <1>1 DEF H!HostedAnswers, H!Authorizes
  <2>2. noted[step] \in H!PagesOf(H!Expected(step, o.provisioned))
    BY <1>1 DEF HostedProves, H!AnsweredAsExpected, H!AuthorizedAsExpected, H!Authorizes, H!Guarded
  <2> QED BY <1>1, <2>1, <2>2, ExpectedPages DEF H!OtherPages, H!PagesOf, H!LoginPages
<1>2. CASE step[2] = "exchange"
  BY <1>2 DEF H!HostedAnswers, HostedProves, H!AnsweredAsExpected, H!Authorizes, H!Guarded
<1>3. CASE step[2] = "signed in"
  BY <1>3 DEF H!HostedAnswers, HostedProves, H!AnsweredAsExpected, H!Authorizes, H!Guarded
<1>4. CASE step[2] = "deny token"
  BY <1>4 DEF H!HostedAnswers, HostedProves, H!AnsweredAsExpected, H!Authorizes, H!Guarded,
              H!RefusedAsExpected, H!Mistaken
<1>5. CASE step[2] \notin H!Authorizes \cup {"exchange", "signed in", "deny token"}
  <2>1. noted[step] = "other"
    BY <1>5 DEF H!HostedAnswers, H!Authorizes
  <2> QED BY <1>5, <2>1 DEF HostedProves, H!AnsweredAsExpected, H!Authorizes, H!Guarded, H!RefusedAsExpected
<1> QED BY <1>1, <1>2, <1>3, <1>4, <1>5

\* A login page shows the gates only where they are.
LEMMA GatesAreShown ==
  ASSUME NEW step, step[2] = "accept", NEW holds, NEW live, NEW o, NEW seen,
         "login+gated" \in H!HostedAnswers(step, holds, live, o, seen)
  PROVE  H!Probe("gates", step[3]) \in holds
<1>1. step[2] \in H!Authorizes
  BY DEF H!Authorizes
<1>2. H!Expected(step, o.provisioned) \in {"login", "client_not_found"}
  BY <1>1, ExpectedPages
<1>3. CASE step \in holds
  <2>1. "login+gated" \in H!Shown(H!Expected(step, o.provisioned), H!Probe("gates", step[3]) \in holds)
    BY <1>1, <1>3 DEF H!HostedAnswers, H!Authorizes
  <2> QED BY <2>1 DEF H!Shown
<1>4. CASE step \notin holds
  <2>1. "login+gated" \in H!OtherPages(H!Expected(step, o.provisioned))
    BY <1>1, <1>4 DEF H!HostedAnswers, H!Authorizes
  <2> QED BY <2>1 DEF H!OtherPages
<1> QED BY <1>3, <1>4

\* A request that failed or was throttled to the end proves nothing.
LEMMA FailuresProveNothing ==
  ASSUME NEW step, NEW o, NEW seen
  PROVE  /\ seen[step] \in {"none", "500"} =>
              ~VerifyProves(step[2], seen[step]) /\ ~DoctorProves(step[2], seen[step])
         /\ seen[step] \in {"none", "500", "429"} => ~HostedProves(o, seen, step)
<1>1. ASSUME seen[step] \in {"none", "500"}
      PROVE  ~VerifyProves(step[2], seen[step]) /\ ~DoctorProves(step[2], seen[step])
  BY <1>1 DEF VerifyProves, DoctorProves
<1>2. ASSUME seen[step] \in {"none", "500", "429"} PROVE ~HostedProves(o, seen, step)
  <2>1. CASE step[2] \in H!Authorizes
    <3>1. PICK page : page = H!Expected(step, o.provisioned)
      OBVIOUS
    <3>2. page \in {"login", "invalid_redirect", "client_not_found"}
      BY <2>1, <3>1, ExpectedPages
    <3>3. seen[step] \notin H!PagesOf(page)
      BY <1>2, <3>2 DEF H!PagesOf, H!LoginPages
    <3> QED BY <2>1, <3>1, <3>3
        DEF HostedProves, H!AnsweredAsExpected, H!AuthorizedAsExpected, H!Authorizes, H!Guarded
  <2>2. CASE step[2] \notin H!Authorizes
    BY <1>2, <2>2 DEF HostedProves, H!AnsweredAsExpected, H!RefusedAsExpected, H!Guarded
  <2> QED BY <2>1, <2>2
<1> QED BY <1>1, <1>2

---------------------------------------------------------------------------
(* The calls of the bridge *)

\* What becomes of such a call while the source does not take it: nothing that was
\* done is undone, and nothing more is done.
Quiets(q, p) ==
  /\ p.pc = "done" => q = p
  /\ CameShape(q)
  /\ q.ran > 0 => p.ran > 0 /\ q.pc \in {"back", "done"} /\ q.res \in {p.res, "failed"}
  /\ q.res = "ok" => p.res = "ok" /\ q.value = p.value

\* Calls whose shape is known, and whose answer is one of those there are.
CallsKnown == \A c \in Calls : CallShape(call[c])

LEMMA KnownCalls ==
  ASSUME DropInv
  PROVE  CallsKnown /\ DOMAIN call = Calls
BY DEF DropInv, CallHolds, CallsKnown

\* A call that nothing happens to.
LEMMA StillIsQuiet ==
  ASSUME NEW p, CallShape(p), CameShape(p)
  PROVE  Quiets(p, p)
BY DEF Quiets, CallShape, CameShape, Pcs

\* A call that has no result yet, or must be sent again, has done nothing.
LEMMA NothingDone ==
  ASSUME NEW p, NEW q, p.pc # "done", q.pc \in {"joining", "sent"}, q.ran = 0, q.res # "ok"
  PROVE  Quiets(q, p)
BY DEF Quiets, CameShape

\* A step of one call is quiet for every other.
LEMMA OneCallQuiet ==
  ASSUME DropInv, NEW c \in Calls, CameShape(call[c]), NEW d, NEW q, call' = [call EXCEPT ![d] = q],
         c = d => Quiets(q, call[c])
  PROVE  Quiets(call'[c], call[c])
<1>1. CallShape(call[c]) /\ DOMAIN call = Calls
  BY KnownCalls DEF CallsKnown
<1>2. CASE c = d
  <2>1. call'[c] = q
    BY <1>1, <1>2
  <2> QED BY <1>2, <2>1
<1>3. CASE c # d
  <2>1. call'[c] = call[c]
    BY <1>1, <1>3
  <2> QED BY <1>1, <2>1, StillIsQuiet
<1> QED BY <1>2, <1>3

\* A call begins.
LEMMA BegunQuiet ==
  ASSUME DropInv, NEW c \in Calls, CameShape(call[c]), NEW d, call[d].pc = "idle", NEW who, NEW retry,
         call' = [call EXCEPT ![d] = Begun(d, who, retry)]
  PROVE  Quiets(call'[c], call[c])
<1> DEFINE n == [NewCall EXCEPT !.who = who, !.retry = retry, !.key = <<who, token>>]
<1>1. IsSeq(table)
  BY DEF DropInv, Keyed
<1>2. DOMAIN n = CallFields /\ n.res = "none" /\ n.ran = 0
  BY DEF NewCall, CallFields
<1>3. Begun(d, who, retry) = Ensured(d, n, table)
  BY DEF Begun
<1> HIDE DEF n
<1>4. PICK q : q = Begun(d, who, retry)
  OBVIOUS
<1>5. q.pc \in {"joining", "sent"} /\ q.ran = 0 /\ q.res = "none"
  BY <1>1, <1>2, <1>3, <1>4, EnsuredSettles DEF CallFields, Settles
<1>6. c = d => Quiets(q, call[c])
  BY <1>5, NothingDone
<1> QED BY <1>4, <1>6, OneCallQuiet

\* A call is sent again, ends, or is given up.
LEMMA OthersQuiet ==
  ASSUME DropInv, NEW c \in Calls, CameShape(call[c]), NEW d \in Calls, Refresh(d) \/ Finish(d) \/ Abort(d)
  PROVE  Quiets(call'[c], call[c])
<1>1. CallShape(call[d]) /\ DOMAIN call[d] = CallFields
  BY KnownCalls DEF CallsKnown, CallShape
<1>2. CASE Refresh(d)
  <2>1. PICK q : q = [call[d] EXCEPT !.pc = "sent", !.refreshed = TRUE]
    OBVIOUS
  <2>2. /\ call[d].pc = "back" /\ call[d].res = "unauthorized" /\ call' = [call EXCEPT ![d] = q]
    BY <1>2, <2>1 DEF Refresh, MayRefresh
  <2>3. q.pc = "sent" /\ q.res = "unauthorized" /\ q.ran = 0
    BY <1>1, <2>1, <2>2 DEF CallShape, CallFields
  <2>4. c = d => Quiets(q, call[c])
    BY <2>2, <2>3, NothingDone
  <2> QED BY <2>2, <2>4, OneCallQuiet
<1>3. CASE Finish(d)
  <2>1. PICK q : q = [call[d] EXCEPT !.pc = "done"]
    OBVIOUS
  <2>2. call[d].pc = "back" /\ call' = [call EXCEPT ![d] = q]
    BY <1>3, <2>1 DEF Finish
  <2>3. q.pc = "done" /\ q.res = call[d].res /\ q.value = call[d].value /\ q.ran = call[d].ran
    BY <1>1, <2>1 DEF CallFields
  <2>4. c = d => Quiets(q, call[c])
    BY <2>2, <2>3 DEF Quiets, CameShape
  <2> QED BY <2>2, <2>4, OneCallQuiet
<1>4. CASE Abort(d)
  <2>1. PICK q : q = [call[d] EXCEPT !.pc = "done", !.res = "failed"]
    OBVIOUS
  <2>2. call[d].pc # "done" /\ call' = [call EXCEPT ![d] = q]
    BY <1>4, <2>1 DEF Abort
  <2>3. q.pc = "done" /\ q.res = "failed" /\ q.ran = call[d].ran
    BY <1>1, <2>1 DEF CallFields
  <2>4. c = d => Quiets(q, call[c])
    BY <2>2, <2>3 DEF Quiets, CameShape, Came
  <2> QED BY <2>2, <2>4, OneCallQuiet
<1> QED BY <1>2, <1>3, <1>4

\* A call finds its session expired.
LEMMA ReinitQuiet ==
  ASSUME DropInv, NEW c \in Calls, CameShape(call[c]), NEW d \in Calls, Reinit(d)
  PROVE  Quiets(call'[c], call[c])
<1> DEFINE n == [call[d] EXCEPT !.reinited = TRUE]
<1>1. call[d].pc = "back" /\ call[d].res = "expired"
      /\ call' = [call EXCEPT ![d] = Ensured(d, n, DropSession(call[d].key))]
  BY DEF Reinit, MayReinit
<1>2. IsSeq(DropSession(call[d].key))
  BY WithoutFacts DEF DropInv, Keyed, DropSession
<1>3. CallShape(call[d])
  BY KnownCalls DEF CallsKnown
<1>4. DOMAIN n = CallFields /\ n.res = "expired" /\ n.ran = 0
  BY <1>1, <1>3 DEF CallShape, CallFields
<1> HIDE DEF n
<1>5. PICK q : q = Ensured(d, n, DropSession(call[d].key))
  OBVIOUS
<1>6. q.pc \in {"joining", "sent"} /\ q.ran = 0 /\ q.res = "expired"
  BY <1>2, <1>4, <1>5, EnsuredSettles DEF CallFields, Settles
<1>7. c = d => Quiets(q, call[c])
  BY <1>1, <1>6, NothingDone
<1> QED BY <1>1, <1>5, <1>7, OneCallQuiet

\* A handshake ends.
LEMMA ShakeQuiet ==
  ASSUME DropInv, NEW c \in Calls, CameShape(call[c]), NEW i, Establish(i) \/ ShakeFails(i)
  PROVE  Quiets(call'[c], call[c])
<1>1. CallShape(call[c]) /\ DOMAIN call[c] = CallFields
  BY KnownCalls DEF CallsKnown, CallShape
<1>2. \/ call'[c] = call[c]
      \/ /\ call[c].pc = "joining"
         /\ \/ \E sid : call'[c] = [call[c] EXCEPT !.pc = "sent", !.sid = sid]
            \/ call'[c] = [call[c] EXCEPT !.pc = "done", !.res = "no_session"]
  BY DEF Establish, ShakeFails, Joined
<1>3. CASE call'[c] = call[c]
  BY <1>1, <1>3, StillIsQuiet
<1>4. ASSUME call[c].pc = "joining", NEW sid, call'[c] = [call[c] EXCEPT !.pc = "sent", !.sid = sid]
      PROVE  Quiets(call'[c], call[c])
  <2>1. call'[c].pc = "sent" /\ call'[c].res = call[c].res /\ call'[c].ran = 0
    BY <1>1, <1>4 DEF CallShape, CallFields
  <2>2. call[c].res # "ok"
    BY <1>4 DEF CameShape
  <2> QED BY <1>4, <2>1, <2>2, NothingDone
<1>5. ASSUME call[c].pc = "joining", call'[c] = [call[c] EXCEPT !.pc = "done", !.res = "no_session"]
      PROVE  Quiets(call'[c], call[c])
  <2>1. call'[c].pc = "done" /\ call'[c].res = "no_session" /\ call'[c].ran = 0
    BY <1>1, <1>5 DEF CallShape, CallFields
  <2> QED BY <1>5, <2>1 DEF Quiets, CameShape
<1> QED BY <1>2, <1>3, <1>4, <1>5

\* Another call is answered.
LEMMA ServeQuiet ==
  ASSUME DropInv, NEW c \in Calls, CameShape(call[c]), NEW d, d # c, NEW value, Serve(d, value)
  PROVE  Quiets(call'[c], call[c])
<1>1. PICK q : call' = [call EXCEPT ![d] = q]
  BY DEF Serve
<1> QED BY <1>1, OneCallQuiet

\* The calls of the bridge are no hops of a walk, and nobody's invocations.
LEMMA BridgedCalls ==
  ASSUME NEW step \in Bridged
  PROVE  CallOf(step) \in Calls \ CatalogCalls
<1>1. CallOf(step) \in {0} \X {"catalog", "write", "write2"}
  BY StepNames DEF Bridged, CallOf
<1>2. CallOf(step) \in Calls /\ CallOf(step) \notin Direct
  BY <1>1, OperatorAssumption
<1>3. CallOf(step) \notin (1..MaxWalks) \X {"tools", "prompts"}
  BY <1>1, CatalogAssumption
<1> QED BY <1>2, <1>3 DEF CatalogCalls

\* Whatever the process does, the calls of the bridge are quiet.
LEMMA NextQuiet ==
  ASSUME DropInv, Next, NEW c \in Calls \ CatalogCalls, CameShape(call[c])
  PROVE  setup' = setup /\ Quiets(call'[c], call[c])
<1>1. CallShape(call[c])
  BY KnownCalls DEF CallsKnown
<1>2. ASSUME UNCHANGED <<setup, sessionVars>> PROVE setup' = setup /\ Quiets(call'[c], call[c])
  BY <1>1, <1>2, StillIsQuiet DEF sessionVars
<1>3. ASSUME NEW d \in setup.clients,
             Prefetch(d) \/ GiveUp(d) \/ \E kind \in Kinds : List(d, kind)
      PROVE  setup' = setup /\ Quiets(call'[c], call[c])
  BY <1>2, <1>3 DEF Prefetch, GiveUp, List
<1>4. ASSUME NEW w \in DOMAIN walks, Governed(w) \/ ToolsIn(w) \/ PromptsIn(w) \/ WalkFails(w)
      PROVE  setup' = setup /\ Quiets(call'[c], call[c])
  BY <1>2, <1>4 DEF Governed, ToolsIn, PromptsIn, WalkFails
<1>5. ASSUME NEW w, NEW hop, Send(w, hop) PROVE setup' = setup /\ Quiets(call'[c], call[c])
  <2>1. PICK d : d = <<w, hop>>
    OBVIOUS
  <2>2. /\ call[d].pc = "idle" /\ call' = [call EXCEPT ![d] = Begun(d, walks[w].who, TRUE)]
        /\ setup' = setup
    BY <1>5, <2>1 DEF Send
  <2> QED BY <2>2, BegunQuiet
<1>6. ASSUME NEW d, NEW p, NEW retry, Invoke(d, p, retry) PROVE setup' = setup /\ Quiets(call'[c], call[c])
  <2>1. call[d].pc = "idle" /\ call' = [call EXCEPT ![d] = Begun(d, p, retry)] /\ setup' = setup
    BY <1>6 DEF Invoke
  <2> QED BY <2>1, BegunQuiet
<1>7. ASSUME NEW p \in Principals, Expire(p) PROVE setup' = setup /\ Quiets(call'[c], call[c])
  BY <1>2, <1>7 DEF Expire
<1>8. CASE Advertise \/ Flush \/ Shutdown
  BY <1>2, <1>8 DEF Advertise, Flush, Shutdown
<1>9. ASSUME NEW d \in Calls, Abort(d) \/ Expired(d) PROVE setup' = setup /\ Quiets(call'[c], call[c])
  <2>1. CASE Abort(d)
    BY <2>1, OthersQuiet DEF Abort
  <2>2. CASE Expired(d)
    <3>1. Reinit(d)
      BY <2>2 DEF Expired
    <3> QED BY <3>1, ReinitQuiet DEF Reinit
  <2> QED BY <1>9, <2>1, <2>2
<1>10. ASSUME NEW d \in CatalogCalls, Serve(d, advert) PROVE setup' = setup /\ Quiets(call'[c], call[c])
  <2>1. d # c
    BY <1>10
  <2> QED BY <1>10, <2>1, ServeQuiet DEF Serve
<1>11. CASE SessionStep
  <2>1. ASSUME NEW i, Issue(i) \/ ShakeRefused(i) PROVE setup' = setup /\ Quiets(call'[c], call[c])
    <3>1. call' = call /\ setup' = setup
      BY <2>1 DEF Issue, ShakeRefused
    <3> QED BY <1>1, <3>1, StillIsQuiet
  <2>2. ASSUME NEW i, Establish(i) \/ ShakeFails(i) PROVE setup' = setup /\ Quiets(call'[c], call[c])
    <3>1. setup' = setup
      BY <2>2 DEF Establish, ShakeFails
    <3> QED BY <2>2, <3>1, ShakeQuiet
  <2>3. CASE SourceDrops
    <3>1. call' = call /\ setup' = setup
      BY <2>3 DEF SourceDrops
    <3> QED BY <1>1, <3>1, StillIsQuiet
  <2>4. ASSUME NEW d \in Calls, Refresh(d) \/ Finish(d) PROVE setup' = setup /\ Quiets(call'[c], call[c])
    <3>1. setup' = setup
      BY <2>4 DEF Refresh, Finish
    <3> QED BY <2>4, <3>1, OthersQuiet
  <2> QED BY <1>11, <2>1, <2>2, <2>3, <2>4 DEF SessionStep
<1> QED BY <1>3, <1>4, <1>5, <1>6, <1>7, <1>8, <1>9, <1>10, <1>11 DEF Next

---------------------------------------------------------------------------
(* What has been asked *)

\* Answers are added, and none is forgotten.
OpGrows ==
  /\ setup' = setup /\ DOMAIN op' = CheckFields
  /\ op'.subject = op.subject /\ op'.holds = op.holds /\ op'.tool = op.tool /\ op'.listed = op.listed
  /\ DOMAIN op'.held = DOMAIN op'.seen /\ DOMAIN op.seen \subseteq DOMAIN op'.seen
  /\ \A s \in DOMAIN op.seen : op'.seen[s] = op.seen[s] /\ op'.held[s] = op.held[s]

\* What an answer of the acceptance probe proves does not depend on the others.
LEMMA SameAnswerProves ==
  ASSUME NEW o, NEW f, NEW g, NEW step, f[step] = g[step]
  PROVE  HostedProves(o, f, step) <=> HostedProves(o, g, step)
BY DEF HostedProves, H!AnsweredAsExpected, H!AuthorizedAsExpected

\* A name that was told stays.
LEMMA CatalogStays ==
  ASSUME OpGrows, V!Step("catalog") \in DOMAIN op.seen, NEW step
  PROVE  /\ V!Advertised(op'.seen) <=> V!Advertised(op.seen)
         /\ Replies(step)' = Replies(step)
<1>1. V!Step("catalog") \in DOMAIN op'.seen /\ op'.seen[V!Step("catalog")] = op.seen[V!Step("catalog")]
  BY DEF OpGrows
<1>2. V!Advertised(op'.seen) <=> V!Advertised(op.seen)
  BY <1>1 DEF V!Advertised, V!Was
<1>3. NameOf(step)' = NameOf(step)
  BY <1>1, <1>2 DEF NameOf
<1>4. op'.holds = op.holds /\ op'.tool = op.tool /\ op'.listed = op.listed
  BY DEF OpGrows
<1> QED BY <1>2, <1>3, <1>4 DEF Replies

LEMMA SubjectStays ==
  ASSUME OpGrows
  PROVE  Subject' = Subject
BY DEF OpGrows, Subject

\* A call of the bridge that is quiet keeps what holds of it; it may be heard of.
LEMMA BridgeStays ==
  ASSUME OpGrows, NEW step \in Bridged, BridgeHolds(step),
         Quiets(call'[CallOf(step)], call[CallOf(step)]),
         step \in DOMAIN op'.seen =>
           \/ step \in DOMAIN op.seen
           \/ /\ call[CallOf(step)].pc = "done" /\ op'.seen[step] = Heard(call[CallOf(step)])
              /\ op'.held[step] = (V!Step("write") \in op.holds)
  PROVE  BridgeHolds(step)'
<1>1. PICK p : p = call[CallOf(step)]
  OBVIOUS
<1>2. PICK q : q = call'[CallOf(step)]
  OBVIOUS
<1>3. q = call[CallOf(step)]'
  BY <1>2 DEF CallOf
<1>4. Quiets(q, p)
  BY <1>1, <1>2
<1>5. CameShape(q)
  BY <1>4 DEF Quiets
<1>6. ASSUME step \in DOMAIN op'.seen
      PROVE  q.pc = "done" /\ op'.seen[step] = Heard(q) /\ op'.held[step] = (V!Step("write") \in op'.holds)
  <2>1. op'.holds = op.holds
    BY DEF OpGrows
  <2>2. CASE step \in DOMAIN op.seen
    <3>1. p.pc = "done" /\ op.seen[step] = Heard(p) /\ op.held[step] = (V!Step("write") \in op.holds)
      BY <1>1, <2>2 DEF BridgeHolds
    <3>2. q = p
      BY <1>4, <3>1 DEF Quiets
    <3>3. op'.seen[step] = op.seen[step] /\ op'.held[step] = op.held[step]
      BY <2>2 DEF OpGrows
    <3> QED BY <2>1, <3>1, <3>2, <3>3
  <2>3. CASE step \notin DOMAIN op.seen
    <3>1. /\ p.pc = "done" /\ op'.seen[step] = Heard(p)
          /\ op'.held[step] = (V!Step("write") \in op.holds)
      BY <1>1, <1>6, <2>3
    <3>2. q = p
      BY <1>4, <3>1 DEF Quiets
    <3> QED BY <2>1, <3>1, <3>2
  <2> QED BY <2>2, <2>3
<1>7. ASSUME q.ran > 0 \/ q.res = "ok", step # V!Step("catalog")
      PROVE  /\ setup.check' = "verify" /\ V!ProbesConfig(Subject') /\ V!Step("catalog") \in DOMAIN op'.seen
             /\ q.ran > 0 => q.res \in {"ok", "failed"} /\ q.pc \in {"back", "done"}
             /\ q.res = "ok" => q.value \in Replies(step)'
             /\ step = V!Step("write2") => ~V!Advertised(op'.seen)
  <2>1. p.ran > 0 \/ p.res = "ok"
    BY <1>4, <1>7 DEF Quiets
  <2>2. /\ setup.check = "verify" /\ V!ProbesConfig(Subject) /\ V!Step("catalog") \in DOMAIN op.seen
        /\ p.ran > 0 => p.res \in {"ok", "failed"} /\ p.pc \in {"back", "done"}
        /\ p.res = "ok" => p.value \in Replies(step)
        /\ step = V!Step("write2") => ~V!Advertised(op.seen)
    BY <1>1, <1>7, <2>1 DEF BridgeHolds
  <2>3. /\ V!Advertised(op'.seen) <=> V!Advertised(op.seen)
        /\ Replies(step)' = Replies(step)
    BY <2>2, CatalogStays
  <2>4. setup' = setup /\ Subject' = Subject /\ V!Step("catalog") \in DOMAIN op'.seen
    BY <2>2, SubjectStays DEF OpGrows
  <2>5. q.ran > 0 => q.res \in {"ok", "failed"} /\ q.pc \in {"back", "done"}
    BY <1>4, <2>2 DEF Quiets
  <2>6. q.res = "ok" => q.value \in Replies(step)
    BY <1>4, <2>2 DEF Quiets
  <2> QED BY <2>2, <2>3, <2>4, <2>5, <2>6
<1> QED BY <1>3, <1>5, <1>6, <1>7 DEF BridgeHolds, CameShape

\* The invariant stands if the calls of the bridge are quiet, and what is noted holds.
LEMMA GrownKeeps ==
  ASSUME OpInv, OpGrows,
         \A step \in Bridged : Quiets(call'[CallOf(step)], call[CallOf(step)]),
         \A step \in DOMAIN op'.seen \ DOMAIN op.seen :
           IF step \in Bridged
           THEN /\ call[CallOf(step)].pc = "done" /\ op'.seen[step] = Heard(call[CallOf(step)])
                /\ op'.held[step] = (V!Step("write") \in op.holds)
           ELSE AnswerHolds(step)'
  PROVE  OpInv'
<1>1. setup.check' \in {"none", "verify", "doctor", "hosted"} /\ DOMAIN op' = CheckFields
      /\ DOMAIN op'.held = DOMAIN op'.seen
  BY DEF OpInv, OpGrows
<1>2. ASSUME NEW step \in Bridged PROVE BridgeHolds(step)'
  <2>1. BridgeHolds(step)
    BY DEF OpInv
  <2> QED BY <2>1, BridgeStays
<1>3. ASSUME NEW step \in DOMAIN op'.seen \ Bridged PROVE AnswerHolds(step)'
  <2>1. CASE step \notin DOMAIN op.seen
    BY <1>3, <2>1
  <2>2. CASE step \in DOMAIN op.seen
    <3>1. AnswerHolds(step)
      BY <1>3, <2>2 DEF OpInv
    <3>2. /\ op'.seen[step] = op.seen[step] /\ op'.held[step] = op.held[step] /\ setup' = setup
          /\ op'.holds = op.holds
      BY <2>2 DEF OpGrows
    <3>3. Proves(step)' <=> Proves(step)
      <4>1. HostedProves(Subject, op'.seen, step) <=> HostedProves(Subject, op.seen, step)
        BY <3>2, SameAnswerProves
      <4>2. HostedProves(Subject, op.seen, step)' <=> HostedProves(Subject, op'.seen, step)
        BY SubjectStays DEF HostedProves, H!AnsweredAsExpected, H!AuthorizedAsExpected
      <4> QED BY <3>2, <4>1, <4>2 DEF Proves
    <3>4. ShowsGates(step)' <=> ShowsGates(step)
      BY <3>2 DEF ShowsGates
    <3> QED BY <3>1, <3>2, <3>3, <3>4 DEF AnswerHolds
  <2> QED BY <2>1, <2>2
<1> QED BY <1>1, <1>2, <1>3 DEF OpInv

\* What is noted of a step that had no answer.
LEMMA NotedFields ==
  ASSUME OpInv, NEW step, NEW answer, NEW held
  PROVE  LET o == Noted(step, answer, held)
         IN  /\ DOMAIN o = CheckFields
             /\ o.subject = op.subject /\ o.holds = op.holds /\ o.tool = op.tool /\ o.listed = op.listed
             /\ o.seen = With(op.seen, step, answer) /\ o.held = With(op.held, step, held)
BY DEF OpInv, Noted, CheckFields

LEMMA NotingGrows ==
  ASSUME OpInv, NEW step, step \notin DOMAIN op.seen, NEW answer, NEW held, NEW faults, setup' = setup,
         \/ op' = Noted(step, answer, held)
         \/ op' = [Noted(step, answer, held) EXCEPT !.faults = faults]
  PROVE  /\ OpGrows /\ DOMAIN op'.seen = DOMAIN op.seen \cup {step}
         /\ op'.seen[step] = answer /\ op'.held[step] = held
<1>1. PICK o : o = Noted(step, answer, held)
  OBVIOUS
<1>2. /\ DOMAIN o = CheckFields
      /\ o.subject = op.subject /\ o.holds = op.holds /\ o.tool = op.tool /\ o.listed = op.listed
      /\ o.seen = With(op.seen, step, answer) /\ o.held = With(op.held, step, held)
  BY <1>1, NotedFields
<1>3. op' = o \/ op' = [o EXCEPT !.faults = faults]
  BY <1>1
<1>4. /\ DOMAIN op' = CheckFields
      /\ op'.subject = op.subject /\ op'.holds = op.holds /\ op'.tool = op.tool /\ op'.listed = op.listed
      /\ op'.seen = With(op.seen, step, answer) /\ op'.held = With(op.held, step, held)
  BY <1>2, <1>3 DEF CheckFields
<1>5. DOMAIN op.held = DOMAIN op.seen
  BY DEF OpInv
<1> QED BY <1>4, <1>5 DEF OpGrows, With

---------------------------------------------------------------------------
(* The plans *)

\* A sequence in three parts.
LEMMA ThreeParts ==
  ASSUME NEW A, NEW B, NEW C, NEW a \in Seq(A), NEW b \in Seq(B), NEW c \in Seq(C),
         NEW p, p = a \o b \o c
  PROVE  /\ DOMAIN p = 1..(Len(a) + Len(b) + Len(c))
         /\ \A i \in 1..Len(b) : p[Len(a) + i] = b[i]
         /\ \A i \in DOMAIN p : p[i] \in A \cup B \cup C
<1> DEFINE S == A \cup B \cup C
<1>a. a \in Seq(S) /\ b \in Seq(S) /\ c \in Seq(S)
  BY SeqDef
<1> HIDE DEF S
<1>1. Len(a) \in Nat /\ Len(b) \in Nat /\ Len(c) \in Nat
  BY <1>a, LenProperties
<1>2. PICK f : f = a \o b
  OBVIOUS
<1>3. /\ f \in Seq(S) /\ Len(f) = Len(a) + Len(b)
      /\ \A i \in 1..(Len(a) + Len(b)) : f[i] = IF i <= Len(a) THEN a[i] ELSE b[i - Len(a)]
  BY <1>a, <1>2, ConcatProperties
<1>4. /\ p \in Seq(S) /\ Len(p) = Len(f) + Len(c)
      /\ \A i \in 1..(Len(f) + Len(c)) : p[i] = IF i <= Len(f) THEN f[i] ELSE c[i - Len(f)]
  <2>1. p = f \o c /\ f \in Seq(S)
    BY <1>2, <1>3
  <2>2. /\ f \o c \in Seq(S) /\ Len(f \o c) = Len(f) + Len(c)
        /\ \A i \in 1..(Len(f) + Len(c)) : (f \o c)[i] = IF i <= Len(f) THEN f[i] ELSE c[i - Len(f)]
    BY <1>a, <2>1, ConcatProperties
  <2> QED BY <2>1, <2>2
<1>5. DOMAIN p = 1..(Len(a) + Len(b) + Len(c))
  BY <1>3, <1>4, LenProperties
<1>6. ASSUME NEW i \in 1..Len(b) PROVE p[Len(a) + i] = b[i]
  <2>1. /\ Len(a) + i \in 1..(Len(a) + Len(b)) /\ Len(a) + i \in 1..(Len(f) + Len(c))
        /\ Len(a) + i <= Len(f) /\ ~(Len(a) + i <= Len(a)) /\ (Len(a) + i) - Len(a) = i
    BY <1>1, <1>3
  <2>2. p[Len(a) + i] = f[Len(a) + i]
    BY <1>4, <2>1
  <2>3. f[Len(a) + i] = b[(Len(a) + i) - Len(a)]
    BY <1>3, <2>1
  <2> QED BY <2>1, <2>2, <2>3
<1>7. \A i \in DOMAIN p : p[i] \in S
  BY <1>4, LenProperties
<1> QED BY <1>5, <1>6, <1>7 DEF S

\* The steps of the clients, one after the other, five each.
LEMMA ClientPlanFacts ==
  LET plan == H!ClientPlan(ClientOrder)
      n == 5 * Len(ClientOrder)
  IN  /\ plan \in [1..n -> {plan[i] : i \in 1..n}] /\ n \in Nat
      /\ \A k \in 1..n : \E f, w : plan[k] = H!Probe(f, w)
      /\ \A k \in 1..n : plan[k][2] = "gates" =>
           \E j \in 1..n : plan[j] = H!Probe("accept", plan[k][3])
<1> DEFINE plan == H!ClientPlan(ClientOrder)
           n == 5 * Len(ClientOrder)
<1>1. Len(ClientOrder) \in Nat /\ n \in Nat
  BY OperatorAssumption, LenProperties
<1>2. DOMAIN plan = 1..n /\ plan \in [1..n -> {plan[i] : i \in 1..n}]
  BY DEF H!ClientPlan
<1>3. ASSUME NEW i \in 1..n
      PROVE  plan[i] = H!Probe(H!ClientSteps[((i - 1) % 5) + 1], ClientOrder[((i - 1) \div 5) + 1])
  BY DEF H!ClientPlan
<1>4. /\ H!ClientSteps[1] = "accept" /\ H!ClientSteps[2] = "reject" /\ H!ClientSteps[3] = "cimd accept"
      /\ H!ClientSteps[4] = "cimd reject" /\ H!ClientSteps[5] = "gates"
  BY DEF H!ClientSteps
<1> HIDE DEF plan, n
<1>5. ASSUME NEW k \in 1..n, plan[k][2] = "gates"
      PROVE  \E j \in 1..n : plan[j] = H!Probe("accept", plan[k][3])
  <2>1. PICK m, d : m = (k - 1) % 5 /\ d = (k - 1) \div 5
    OBVIOUS
  <2>2. plan[k] = H!Probe(H!ClientSteps[m + 1], ClientOrder[d + 1])
    BY <1>3, <2>1
  <2>3. plan[k][2] = H!ClientSteps[m + 1] /\ plan[k][3] = ClientOrder[d + 1]
    BY <2>2, StepNames
  <2>4. k \in Nat /\ k >= 1 /\ m \in {0, 1, 2, 3, 4}
    BY <1>1, <2>1
  <2>5. m = 4
    <3>1. m = 0 => m + 1 = 1
      OBVIOUS
    <3>2. m = 1 => m + 1 = 2
      OBVIOUS
    <3>3. m = 2 => m + 1 = 3
      OBVIOUS
    <3>4. m = 3 => m + 1 = 4
      OBVIOUS
    <3>5. H!ClientSteps[m + 1] = "gates"
      BY <1>5, <2>3
    <3>6. m # 0 /\ m # 1 /\ m # 2 /\ m # 3
      BY <1>4, <3>1, <3>2, <3>3, <3>4, <3>5
    <3> QED BY <2>4, <3>6
  <2>6. k - 4 \in 1..n /\ ((k - 4) - 1) % 5 = 0 /\ ((k - 4) - 1) \div 5 = d
    BY <1>1, <2>1, <2>4, <2>5
  <2>7. plan[k - 4] = H!Probe(H!ClientSteps[0 + 1], ClientOrder[d + 1])
    BY <1>3, <2>6
  <2>8. 0 + 1 = 1
    OBVIOUS
  <2>9. plan[k - 4] = H!Probe("accept", plan[k][3])
    BY <1>4, <2>3, <2>7, <2>8
  <2> QED BY <2>6, <2>9
<1>6. ASSUME NEW k \in 1..n PROVE \E f, w : plan[k] = H!Probe(f, w)
  BY <1>3
<1> QED BY <1>1, <1>2, <1>5, <1>6 DEF plan, n

\* The steps of the acceptance probe; a client whose gates are read has its first page.
LEMMA HostedPlanFacts ==
  LET plan == H!HostedPlan(ClientOrder)
  IN  /\ \A i \in DOMAIN plan : \E f, w : plan[i] = H!Probe(f, w)
      /\ \A i \in DOMAIN plan : plan[i][2] = "gates" =>
           \E j \in DOMAIN plan : plan[j] = H!Probe("accept", plan[i][3])
<1> DEFINE first == <<H!Probe("health", ""), H!Probe("protected resource", ""), H!Probe("as metadata", ""),
                      H!Probe("no token", ""), H!Probe("junk token", ""), H!Probe("allowed origin", ""),
                      H!Probe("allowed preflight", ""), H!Probe("denied origin", ""),
                      H!Probe("denied preflight", "")>>
           clients == H!ClientPlan(ClientOrder)
           last == <<H!Probe("dcr", ""), H!Probe("grok cimd", ""), H!Probe("exchange", ""),
                     H!Probe("signed in", "initialize"), H!Probe("signed in", "tools/list"),
                     H!Probe("signed in", "tools/call"), H!Probe("deny token", "wrong-audience"),
                     H!Probe("deny token", "expired"), H!Probe("deny token", "insufficient-scope")>>
           n == 5 * Len(ClientOrder)
           Middle == {clients[i] : i \in 1..n}
           Opening == {H!Probe("health", ""), H!Probe("protected resource", ""), H!Probe("as metadata", ""),
                       H!Probe("no token", ""), H!Probe("junk token", ""), H!Probe("allowed origin", ""),
                       H!Probe("allowed preflight", ""), H!Probe("denied origin", ""),
                       H!Probe("denied preflight", "")}
           Closing == {H!Probe("dcr", ""), H!Probe("grok cimd", ""), H!Probe("exchange", ""),
                       H!Probe("signed in", "initialize"), H!Probe("signed in", "tools/list"),
                       H!Probe("signed in", "tools/call"), H!Probe("deny token", "wrong-audience"),
                       H!Probe("deny token", "expired"), H!Probe("deny token", "insufficient-scope")}
           plan == H!HostedPlan(ClientOrder)
<1>1. plan = first \o clients \o last
  BY DEF H!HostedPlan
<1>2. first \in Seq(Opening)
  OBVIOUS
<1>3. last \in Seq(Closing)
  OBVIOUS
<1>4. /\ clients \in [1..n -> Middle] /\ n \in Nat
      /\ \A k \in 1..n : \E f, w : clients[k] = H!Probe(f, w)
      /\ \A k \in 1..n : clients[k][2] = "gates" =>
           \E j \in 1..n : clients[j] = H!Probe("accept", clients[k][3])
  BY ClientPlanFacts
<1>5. \A s \in Opening : s[2] # "gates" /\ \E f, w : s = H!Probe(f, w)
  <2>1. \A f, w : f # "gates" => H!Probe(f, w)[2] # "gates"
    BY DEF H!Probe
  <2>2. \A s \in Opening : s[2] # "gates"
    BY <2>1
  <2> QED BY <2>2
<1>6. \A s \in Closing : s[2] # "gates" /\ \E f, w : s = H!Probe(f, w)
  <2>1. \A f, w : f # "gates" => H!Probe(f, w)[2] # "gates"
    BY DEF H!Probe
  <2>2. \A s \in Closing : s[2] # "gates"
    BY <2>1
  <2> QED BY <2>2
<1> HIDE DEF first, clients, last, Middle, Opening, Closing, n, plan
<1>7. clients \in Seq(Middle) /\ Len(clients) = n
  BY <1>4, SeqDef, LenProperties
<1>8. PICK l, m : l = Len(first) /\ m = Len(last)
  OBVIOUS
<1>9. l \in Nat /\ m \in Nat
  BY <1>2, <1>3, <1>8, LenProperties
<1>10. /\ \A i \in 1..n : l + i \in DOMAIN plan /\ plan[l + i] = clients[i]
       /\ \A i \in DOMAIN plan : plan[i] \in Opening \cup Middle \cup Closing
  <2>1. /\ DOMAIN plan = 1..(Len(first) + Len(clients) + Len(last))
        /\ \A i \in 1..Len(clients) : plan[Len(first) + i] = clients[i]
        /\ \A i \in DOMAIN plan : plan[i] \in Opening \cup Middle \cup Closing
    <3>1. /\ first \in Seq(Opening) /\ clients \in Seq(Middle) /\ last \in Seq(Closing)
          /\ plan = first \o clients \o last
      BY <1>1, <1>2, <1>3, <1>7
    <3>2. DOMAIN plan = 1..(Len(first) + Len(clients) + Len(last))
      BY <3>1, ThreeParts
    <3>3. \A i \in 1..Len(clients) : plan[Len(first) + i] = clients[i]
      BY <3>1, ThreeParts
    <3>4. \A i \in DOMAIN plan : plan[i] \in Opening \cup Middle \cup Closing
      BY <3>1, ThreeParts
    <3> QED BY <3>2, <3>3, <3>4
  <2>2. DOMAIN plan = 1..(l + n + m) /\ \A i \in 1..n : plan[l + i] = clients[i]
    BY <1>7, <1>8, <2>1
  <2>3. \A i \in 1..n : l + i \in 1..(l + n + m)
    BY <1>4, <1>9
  <2> QED BY <2>1, <2>2, <2>3
<1>a. \A s \in Middle : \E k \in 1..n : s = clients[k]
  BY DEF Middle
<1>11. ASSUME NEW i \in DOMAIN plan PROVE \E f, w : plan[i] = H!Probe(f, w)
  <2>1. CASE plan[i] \in Opening
    BY <1>5, <2>1
  <2>2. CASE plan[i] \in Closing
    BY <1>6, <2>2
  <2>3. CASE plan[i] \in Middle
    BY <1>4, <1>a, <2>3
  <2> QED BY <1>10, <2>1, <2>2, <2>3
<1>12. ASSUME NEW i \in DOMAIN plan, plan[i][2] = "gates"
       PROVE  \E j \in DOMAIN plan : plan[j] = H!Probe("accept", plan[i][3])
  <2>1. plan[i] \in Middle
    BY <1>5, <1>6, <1>10, <1>12
  <2>2. PICK k \in 1..n : plan[i] = clients[k]
    BY <1>a, <2>1
  <2>3. PICK j \in 1..n : clients[j] = H!Probe("accept", clients[k][3])
    BY <1>4, <1>12, <2>2
  <2> QED BY <1>10, <2>2, <2>3
<1> QED BY <1>11, <1>12 DEF plan

---------------------------------------------------------------------------
(* A step of a check keeps the invariant *)

\* The step whose turn it is has no answer yet; those before it have one, or are not made.
LEMMA DueFacts ==
  ASSUME NEW step \in Due
  PROVE  /\ ~Thrown /\ step \notin DOMAIN op.seen /\ Asks(step)
         /\ \E i \in DOMAIN Plan :
              /\ step = Plan[i]
              /\ \A j \in DOMAIN Plan : ~(i <= j) => Plan[j] \in DOMAIN op.seen \/ ~Asks(Plan[j])
<1>1. ~Thrown /\ step \in {Plan[i] : i \in {k \in Open : \A j \in Open : k <= j}}
  BY DEF Due
<1>2. PICK i \in Open : step = Plan[i] /\ \A j \in Open : i <= j
  BY <1>1
<1> QED BY <1>1, <1>2 DEF Open

\* A config write is due in a verification, once the catalog was asked.
LEMMA DueWrites ==
  ASSUME OpInv, Running, NEW step \in Due \cap {V!Step("write"), V!Step("write2")}
  PROVE  /\ setup.check = "verify" /\ V!ProbesConfig(Subject) /\ V!Step("catalog") \in DOMAIN op.seen
         /\ step = V!Step("write2") => ~V!Advertised(op.seen)
<1>1. PICK i \in DOMAIN Plan :
        /\ step = Plan[i]
        /\ \A j \in DOMAIN Plan : ~(i <= j) => Plan[j] \in DOMAIN op.seen \/ ~Asks(Plan[j])
  BY DueFacts
<1>2. Asks(step) /\ step \notin DOMAIN op.seen
  BY DueFacts
<1>3. setup.check # "doctor"
  <2> SUFFICES ASSUME setup.check = "doctor" PROVE FALSE
    OBVIOUS
  <2>1. Plan = D!DoctorPlan
    BY DEF Plan
  <2>2. \A k \in DOMAIN D!DoctorPlan : \E n : D!DoctorPlan[k] = D!Gate(n)
    <3>1. DOMAIN D!DoctorPlan = 1..6
      BY DEF D!DoctorPlan
    <3>2. \A k \in 1..6 : k = 1 \/ k = 2 \/ k = 3 \/ k = 4 \/ k = 5 \/ k = 6
      OBVIOUS
    <3>3. /\ D!DoctorPlan[1] = D!Gate("jsonapi") /\ D!DoctorPlan[2] = D!Gate("origin")
          /\ D!DoctorPlan[3] = D!Gate("token") /\ D!DoctorPlan[4] = D!Gate("authed")
          /\ D!DoctorPlan[5] = D!Gate("token again") /\ D!DoctorPlan[6] = D!Gate("readiness")
      BY DEF D!DoctorPlan
    <3>4. ASSUME NEW k \in 1..6 PROVE \E n : D!DoctorPlan[k] = D!Gate(n)
      <4>1. D!DoctorPlan[k] \in {D!Gate(n) : n \in {"jsonapi", "origin", "token", "authed", "token again", "readiness"}}
        BY <3>2, <3>3
      <4> QED BY <4>1
    <3> QED BY <3>1, <3>4
  <2> QED BY <1>1, <2>1, <2>2, StepNames
<1>4. setup.check # "hosted"
  <2> SUFFICES ASSUME setup.check = "hosted" PROVE FALSE
    OBVIOUS
  <2>1. Plan = H!HostedPlan(ClientOrder)
    BY DEF Plan
  <2>2. \E f, w : step = H!Probe(f, w)
    BY <1>1, <2>1, HostedPlanFacts
  <2> QED BY <2>2, StepNames
<1>5. setup.check = "verify"
  BY <1>3, <1>4 DEF OpInv, Running
<1>6. Plan = V!VerifyPlan
  BY <1>5 DEF Plan
<1>7. /\ DOMAIN Plan = 1..10 /\ Plan[5] = V!Step("catalog")
      /\ \A k \in 1..5 : Plan[k] \notin {V!Step("write"), V!Step("write2")}
  <2>1. DOMAIN V!VerifyPlan = 1..10
    BY DEF V!VerifyPlan
  <2>2. /\ V!VerifyPlan[1] = V!Step("health") /\ V!VerifyPlan[2] = V!Step("mint")
        /\ V!VerifyPlan[3] = V!Step("anonymous") /\ V!VerifyPlan[4] = V!Step("readiness")
        /\ V!VerifyPlan[5] = V!Step("catalog")
    BY DEF V!VerifyPlan
  <2>3. \A k \in 1..5 : k = 1 \/ k = 2 \/ k = 3 \/ k = 4 \/ k = 5
    OBVIOUS
  <2>4. \A n \in {"health", "mint", "anonymous", "readiness", "catalog"} :
          V!Step(n) \notin {V!Step("write"), V!Step("write2")}
    BY DEF V!Step
  <2>5. \A k \in 1..5 : V!VerifyPlan[k] \in {V!Step(n) : n \in {"health", "mint", "anonymous", "readiness", "catalog"}}
    BY <2>2, <2>3
  <2> QED BY <1>6, <2>1, <2>2, <2>4, <2>5
<1>8. V!VerifyAsks(Subject, op.seen, step)
  BY <1>2, <1>5 DEF Asks
<1>9. /\ ~V!NoToken(Subject, op.seen) /\ V!ProbesConfig(Subject)
      /\ step = V!Step("write2") => ~V!Advertised(op.seen)
  <2>1. \/ step[2] = "write" /\ step # V!Step("write2")
        \/ step[2] = "write2"
    BY StepNames
  <2> QED BY <1>8, <2>1 DEF V!VerifyAsks
<1>10. Asks(Plan[5])
  <2>1. Plan[5][2] = "catalog"
    BY <1>7, StepNames
  <2>2. V!VerifyAsks(Subject, op.seen, Plan[5])
    BY <1>9, <2>1 DEF V!VerifyAsks
  <2> QED BY <1>5, <2>2 DEF Asks
<1>11. 5 \in DOMAIN Plan /\ i \in 1..10 /\ ~(i \in 1..5)
  BY <1>1, <1>7
<1>12. ~(i <= 5)
  BY <1>11
<1>13. V!Step("catalog") \in DOMAIN op.seen
  BY <1>1, <1>7, <1>10, <1>11, <1>12
<1> QED BY <1>5, <1>9, <1>13

\* The calls of the bridge when nothing happens to them.
LEMMA BridgeStands ==
  ASSUME DropInv, OpInv, call' = call, NEW step \in Bridged
  PROVE  Quiets(call'[CallOf(step)], call[CallOf(step)])
<1>1. CallShape(call[CallOf(step)])
  BY BridgedCalls, KnownCalls DEF CallsKnown
<1>2. CameShape(call[CallOf(step)])
  BY DEF OpInv, BridgeHolds
<1> QED BY <1>1, <1>2, StillIsQuiet

\* A request is answered.
LEMMA AnswerKeeps ==
  ASSUME DropInv, OpInv, NEW step \in Due, Answer(step)
  PROVE  OpInv'
<1>1. PICK answer \in Answers(step) : op' = Noted(step, answer, step \in op.holds)
  BY DEF Answer
<1>2. /\ setup' = setup /\ call' = call /\ step \notin Bridged /\ step \notin DOMAIN op.seen
      /\ Asks(step)
  BY DueFacts DEF Answer, sessionVars
<1>3. /\ OpGrows /\ DOMAIN op'.seen = DOMAIN op.seen \cup {step}
      /\ op'.seen[step] = answer /\ op'.held[step] = (step \in op.holds)
  BY <1>1, <1>2, NotingGrows
<1>4. Subject' = Subject /\ op'.holds = op.holds
  BY <1>3, SubjectStays DEF OpGrows
<1>5. Proves(step)' => step \in op.holds
  <2> SUFFICES ASSUME Proves(step)' PROVE step \in op.holds
    OBVIOUS
  <2>1. CASE setup.check = "verify"
    <3>1. answer \in V!VerifyAnswers(step, op.holds, op.live, Subject, op.seen)
      BY <1>1, <2>1 DEF Answers
    <3>2. VerifyProves(step[2], answer)
      BY <1>2, <1>3, <2>1 DEF Proves
    <3> QED BY <3>1, <3>2, VerifyAnswersProve
  <2>2. CASE setup.check = "doctor"
    <3>1. answer \in D!DoctorAnswers(step, op.holds, op.live, Subject, op.seen)
      BY <1>1, <2>2 DEF Answers
    <3>2. DoctorProves(step[2], answer)
      BY <1>2, <1>3, <2>2 DEF Proves
    <3> QED BY <3>1, <3>2, DoctorAnswersProve
  <2>3. CASE setup.check = "hosted"
    <3>1. op'.seen[step] \in H!HostedAnswers(step, op.holds, op.live, Subject, op.seen)
      BY <1>1, <1>3, <2>3 DEF Answers
    <3>2. HostedProves(Subject, op'.seen, step)
      <4>1. HostedProves(Subject, op.seen, step)'
        BY <1>2, <2>3 DEF Proves
      <4> QED BY <1>4, <4>1 DEF HostedProves, H!AnsweredAsExpected, H!AuthorizedAsExpected
    <3>3. PICK noted : noted = op'.seen
      OBVIOUS
    <3> QED BY <3>1, <3>2, <3>3, HostedAnswersProve
  <2> QED BY <1>2, <2>1, <2>2, <2>3 DEF Proves
<1>6. ShowsGates(step)' => H!Probe("gates", step[3]) \in op'.holds
  <2> SUFFICES ASSUME ShowsGates(step)' PROVE H!Probe("gates", step[3]) \in op.holds
    BY <1>4
  <2>1. setup.check = "hosted" /\ step[2] = "accept" /\ answer = "login+gated"
    BY <1>2, <1>3 DEF ShowsGates
  <2>2. "login+gated" \in H!HostedAnswers(step, op.holds, op.live, Subject, op.seen)
    BY <1>1, <2>1 DEF Answers
  <2> QED BY <2>1, <2>2, GatesAreShown
<1>7. AnswerHolds(step)'
  BY <1>3, <1>5, <1>6 DEF AnswerHolds
<1>8. \A s \in Bridged : Quiets(call'[CallOf(s)], call[CallOf(s)])
  BY <1>2, BridgeStands
<1> QED BY <1>2, <1>3, <1>7, <1>8, GrownKeeps

\* A request fails, or is given up: what is noted proves nothing.
LEMMA NothingProvenKeeps ==
  ASSUME DropInv, OpInv, NEW step \in Due, step \notin Bridged, NEW answer, NEW faults,
         \/ answer \in {"none", "500"}
         \/ answer = "429" /\ setup.check = "hosted",
         setup' = setup, call' = call,
         op' = [Noted(step, answer, FALSE) EXCEPT !.faults = faults]
  PROVE  OpInv'
<1>1. step \notin DOMAIN op.seen
  BY DueFacts
<1>2. /\ OpGrows /\ DOMAIN op'.seen = DOMAIN op.seen \cup {step}
      /\ op'.seen[step] = answer /\ op'.held[step] = FALSE
  BY <1>1, NotingGrows
<1>3. ~Proves(step)' /\ ~ShowsGates(step)'
  <2>1. PICK seen : seen = op'.seen
    OBVIOUS
  <2>2. \/ seen[step] \in {"none", "500"}
        \/ seen[step] = "429" /\ setup.check = "hosted"
    BY <1>2, <2>1
  <2>3. seen[step] \in {"none", "500"} =>
          ~VerifyProves(step[2], seen[step]) /\ ~DoctorProves(step[2], seen[step])
    BY FailuresProveNothing
  <2>4. ~HostedProves(Subject, seen, step)
    BY <2>2, FailuresProveNothing
  <2>5. ~HostedProves(Subject, op.seen, step)'
    BY <1>2, <2>1, <2>4, SubjectStays DEF HostedProves, H!AnsweredAsExpected, H!AuthorizedAsExpected
  <2>6. ~(setup.check = "verify" /\ VerifyProves(step[2], op.seen[step]))'
    BY <2>1, <2>2, <2>3
  <2>7. ~(setup.check = "doctor" /\ DoctorProves(step[2], op.seen[step]))'
    BY <2>1, <2>2, <2>3
  <2> QED BY <1>2, <2>1, <2>2, <2>5, <2>6, <2>7 DEF Proves, ShowsGates
<1>4. AnswerHolds(step)'
  BY <1>3 DEF AnswerHolds
<1>5. \A s \in Bridged : Quiets(call'[CallOf(s)], call[CallOf(s)])
  BY BridgeStands
<1> QED BY <1>2, <1>4, <1>5, GrownKeeps

\* Only the token, the attempts or the faults are counted.
LEMMA CountingKeeps ==
  ASSUME DropInv, OpInv, setup' = setup, call' = call, DOMAIN op' = CheckFields,
         op'.subject = op.subject, op'.holds = op.holds, op'.tool = op.tool, op'.listed = op.listed,
         op'.seen = op.seen, op'.held = op.held
  PROVE  OpInv'
<1>1. OpGrows
  BY DEF OpGrows, OpInv
<1>2. \A s \in Bridged : Quiets(call'[CallOf(s)], call[CallOf(s)])
  BY BridgeStands
<1>3. DOMAIN op'.seen \ DOMAIN op.seen = {}
  OBVIOUS
<1> QED BY <1>1, <1>2, <1>3, GrownKeeps

---------------------------------------------------------------------------
(* A step of the bridge keeps the invariant *)

\* A config write is dialled.
LEMMA DialKeeps ==
  ASSUME DropInv, OpInv, NEW step, Dial(step)
  PROVE  OpInv'
<1>1. /\ op' = op /\ setup' = setup /\ call[CallOf(step)].pc = "idle"
      /\ call' = [call EXCEPT ![CallOf(step)] = Begun(CallOf(step), "local", TRUE)]
  BY DEF Dial
<1>2. OpGrows
  BY <1>1 DEF OpGrows, OpInv
<1>3. ASSUME NEW s \in Bridged PROVE Quiets(call'[CallOf(s)], call[CallOf(s)])
  <2>1. CameShape(call[CallOf(s)]) /\ CallOf(s) \in Calls
    BY BridgedCalls DEF OpInv, BridgeHolds
  <2> QED BY <1>1, <2>1, BegunQuiet
<1>4. DOMAIN op'.seen \ DOMAIN op.seen = {}
  BY <1>1
<1> QED BY <1>2, <1>3, <1>4, GrownKeeps

\* The source's answer to a config write is heard.
LEMMA HearKeeps ==
  ASSUME DropInv, OpInv, NEW step \in Due, Hear(step)
  PROVE  OpInv'
<1>1. /\ op' = Noted(step, Heard(call[CallOf(step)]), V!Step("write") \in op.holds)
      /\ setup' = setup /\ call' = call /\ step \in Bridged /\ call[CallOf(step)].pc = "done"
  BY DEF Hear, sessionVars
<1>2. step \notin DOMAIN op.seen
  BY DueFacts
<1>3. /\ OpGrows /\ DOMAIN op'.seen = DOMAIN op.seen \cup {step}
      /\ op'.seen[step] = Heard(call[CallOf(step)]) /\ op'.held[step] = (V!Step("write") \in op.holds)
  BY <1>1, <1>2, NotingGrows
<1>4. \A s \in Bridged : Quiets(call'[CallOf(s)], call[CallOf(s)])
  BY <1>1, BridgeStands
<1> QED BY <1>1, <1>3, <1>4, GrownKeeps

\* What becomes of a call that the source takes.
ServedShape(q, p, value) ==
  /\ q.pc = "back" /\ q.res \in Came /\ q.value = (IF q.res = "ok" THEN value ELSE p.value)
  /\ q.ran > 0 => q.res \in {"ok", "failed"}

LEMMA ServedCall ==
  ASSUME DropInv, NEW c \in Calls, NEW value, Serve(c, value)
  PROVE  call[c].pc = "sent" /\ ServedShape(call'[c], call[c], value)
<1>1. PICK p : p = call[c]
  OBVIOUS
<1>2. CallShape(p) /\ DOMAIN p = CallFields /\ DOMAIN call = Calls
  BY <1>1, KnownCalls DEF CallsKnown, CallShape
<1>3. p.pc = "sent" /\ p.ran = 0
  BY <1>1, <1>2 DEF Serve, CallShape
<1>5. \/ call'[c] = [p EXCEPT !.pc = "back", !.res = "expired"]
      \/ call'[c] = [p EXCEPT !.pc = "back", !.res = "ok", !.value = value, !.ran = @ + 1]
      \/ call'[c] = [p EXCEPT !.pc = "back", !.res = "unauthorized"]
      \/ \E ran \in {0, 1} : call'[c] = [p EXCEPT !.pc = "back", !.res = "failed", !.ran = @ + ran]
  BY <1>1, <1>2 DEF Serve
<1>6. PICK q : q = call'[c]
  OBVIOUS
<1>7. CASE q = [p EXCEPT !.pc = "back", !.res = "expired"]
  BY <1>1, <1>2, <1>3, <1>6, <1>7 DEF ServedShape, CallFields, Came
<1>8. CASE q = [p EXCEPT !.pc = "back", !.res = "ok", !.value = value, !.ran = @ + 1]
  BY <1>1, <1>2, <1>3, <1>6, <1>8 DEF ServedShape, CallFields, Came
<1>9. CASE q = [p EXCEPT !.pc = "back", !.res = "unauthorized"]
  BY <1>1, <1>2, <1>3, <1>6, <1>9 DEF ServedShape, CallFields, Came
<1>10. ASSUME NEW ran \in {0, 1}, q = [p EXCEPT !.pc = "back", !.res = "failed", !.ran = @ + ran]
       PROVE  call[c].pc = "sent" /\ ServedShape(call'[c], call[c], value)
  BY <1>1, <1>2, <1>3, <1>6, <1>10 DEF ServedShape, CallFields, Came
<1> QED BY <1>5, <1>6, <1>7, <1>8, <1>9, <1>10

\* A config write is decided.
LEMMA DecideKeeps ==
  ASSUME DropInv, OpInv, Running, NEW step \in Due, Decide(step)
  PROVE  OpInv'
<1>1. PICK value \in Replies(step) : Serve(CallOf(step), value)
  BY DEF Decide
<1>2. op' = op /\ setup' = setup /\ step \in Bridged /\ CallOf(step) \in Calls
  BY <1>1, BridgedCalls DEF Decide, Serve
<1>3. step \notin DOMAIN op.seen
  BY DueFacts
<1>4. call[CallOf(step)].pc = "sent" /\ ServedShape(call'[CallOf(step)], call[CallOf(step)], value)
  BY <1>1, <1>2, ServedCall
<1>5. ASSUME NEW s \in Bridged, s # step PROVE BridgeHolds(s)'
  <2>1. CallOf(s) # CallOf(step) /\ CallOf(s) \in Calls
    <3>1. \A a \in Bridged : CallOf(a) = <<0, a[2]>> /\ a = V!Step(a[2])
      BY StepNames DEF CallOf, Bridged
    <3>2. CallOf(s) = <<0, s[2]>> /\ CallOf(step) = <<0, step[2]>> /\ s = V!Step(s[2]) /\ step = V!Step(step[2])
      BY <1>2, <3>1
    <3> QED BY <1>5, <3>2, BridgedCalls
  <2>2. BridgeHolds(s) /\ CameShape(call[CallOf(s)])
    BY DEF OpInv, BridgeHolds
  <2>3. Quiets(call'[CallOf(s)], call[CallOf(s)])
    BY <1>1, <2>1, <2>2, ServeQuiet
  <2>4. OpGrows
    BY <1>2 DEF OpGrows, OpInv
  <2> QED BY <1>2, <2>2, <2>3, <2>4, BridgeStays
<1>6. BridgeHolds(step)'
  <2>1. PICK q : q = call'[CallOf(step)]
    OBVIOUS
  <2>2. q = call[CallOf(step)]'
    BY <2>1 DEF CallOf
  <2>3. ServedShape(q, call[CallOf(step)], value)
    BY <1>4, <2>1
  <2>4. CameShape(q)
    BY <2>3 DEF ServedShape, CameShape
  <2>5. Replies(step)' = Replies(step) /\ Subject' = Subject /\ step \notin DOMAIN op'.seen
    BY <1>2, <1>3 DEF Replies, NameOf, Subject
  <2>6. ASSUME step # V!Step("catalog")
        PROVE  /\ setup'.check = "verify" /\ V!ProbesConfig(Subject') /\ V!Step("catalog") \in DOMAIN op'.seen
               /\ step = V!Step("write2") => ~V!Advertised(op'.seen)
    <3>1. step \in {V!Step("write"), V!Step("write2")}
      BY <1>2, <2>6 DEF Bridged
    <3>2. /\ setup.check = "verify" /\ V!ProbesConfig(Subject) /\ V!Step("catalog") \in DOMAIN op.seen
          /\ step = V!Step("write2") => ~V!Advertised(op.seen)
      BY <3>1, DueWrites
    <3> QED BY <1>2, <2>5, <3>2
  <2>7. /\ q.ran > 0 => q.res \in {"ok", "failed"} /\ q.pc \in {"back", "done"}
        /\ q.res = "ok" => q.value \in Replies(step)'
    BY <2>3, <2>5 DEF ServedShape
  <2> QED BY <2>2, <2>4, <2>5, <2>6, <2>7 DEF BridgeHolds
<1>7. ASSUME NEW s \in DOMAIN op'.seen \ Bridged PROVE AnswerHolds(s)'
  <2>1. AnswerHolds(s)
    BY <1>2 DEF OpInv
  <2> QED BY <1>2, <2>1 DEF AnswerHolds, Proves, ShowsGates, HostedProves, Subject,
                            H!AnsweredAsExpected, H!AuthorizedAsExpected
<1> QED BY <1>2, <1>5, <1>6, <1>7 DEF OpInv

\* Every step of the process, or of the check, keeps the invariant.
LEMMA ChecksKeep ==
  ASSUME DropInv, OpInv, [OperatorNext]_opVars
  PROVE  OpInv'
<1>1. CASE UNCHANGED opVars
  BY <1>1, CountingKeeps DEF opVars, sessionVars, OpInv
<1>2. CASE Next /\ UNCHANGED op
  <2>1. OpGrows
    <3>1. setup' = setup
      <4>1. PICK s \in Bridged : TRUE
        BY DEF Bridged
      <4>2. CameShape(call[CallOf(s)]) /\ CallOf(s) \in Calls \ CatalogCalls
        BY BridgedCalls DEF OpInv, BridgeHolds
      <4> QED BY <1>2, <4>2, NextQuiet
    <3> QED BY <1>2, <3>1 DEF OpGrows, OpInv
  <2>2. ASSUME NEW s \in Bridged PROVE Quiets(call'[CallOf(s)], call[CallOf(s)])
    <3>1. CameShape(call[CallOf(s)]) /\ CallOf(s) \in Calls \ CatalogCalls
      BY BridgedCalls DEF OpInv, BridgeHolds
    <3> QED BY <1>2, <3>1, NextQuiet
  <2>3. DOMAIN op'.seen \ DOMAIN op.seen = {}
    BY <1>2
  <2> QED BY <2>1, <2>2, <2>3, GrownKeeps
<1>3. ASSUME Running, NEW step \in Due,
             \/ Answer(step) \/ Fails(step) \/ Throttled(step) \/ TokenDies
             \/ Dial(step) \/ Decide(step) \/ Hear(step)
      PROVE  OpInv'
  <2>1. CASE Answer(step)
    BY <2>1, AnswerKeeps
  <2>2. CASE Fails(step)
    <3>1. PICK answer \in {"none", "500"} : op' = [Noted(step, answer, FALSE) EXCEPT !.faults = @ + 1]
      BY <2>2 DEF Fails
    <3>2. PICK faults : op' = [Noted(step, answer, FALSE) EXCEPT !.faults = faults]
      BY <3>1
    <3>3. setup' = setup /\ call' = call /\ step \notin Bridged
      BY <2>2 DEF Fails, sessionVars
    <3> QED BY <3>2, <3>3, NothingProvenKeeps
  <2>3. CASE Throttled(step) /\ step \notin Bridged
    <3>1. setup' = setup /\ call' = call /\ setup.check = "hosted"
      BY <2>3 DEF Throttled, sessionVars
    <3>2. PICK o : \/ op' = [op EXCEPT !.tries = @ + 1, !.faults = o]
                   \/ op' = [Noted(step, "429", FALSE) EXCEPT !.faults = o]
      BY <2>3 DEF Throttled
    <3>3. CASE op' = [op EXCEPT !.tries = @ + 1, !.faults = o]
      BY <3>1, <3>3, CountingKeeps DEF OpInv, CheckFields
    <3>4. CASE op' = [Noted(step, "429", FALSE) EXCEPT !.faults = o]
      BY <2>3, <3>1, <3>4, NothingProvenKeeps
    <3> QED BY <3>2, <3>3, <3>4
  <2>4. CASE Throttled(step) /\ step \in Bridged
    <3>1. setup.check = "hosted"
      BY <2>4 DEF Throttled
    <3>2. Plan = H!HostedPlan(ClientOrder)
      BY <3>1 DEF Plan
    <3>3. \E f, w : step = H!Probe(f, w)
      BY <3>2, DueFacts, HostedPlanFacts
    <3> QED BY <2>4, <3>3, StepNames DEF Bridged
  <2>5. CASE TokenDies
    BY <2>5, CountingKeeps DEF TokenDies, OpInv, CheckFields, sessionVars
  <2>6. CASE Dial(step)
    BY <2>6, DialKeeps
  <2>7. CASE Decide(step)
    BY <1>3, <2>7, DecideKeeps
  <2>8. CASE Hear(step)
    BY <2>8, HearKeeps
  <2> QED BY <1>3, <2>1, <2>2, <2>3, <2>4, <2>5, <2>6, <2>7, <2>8
<1> QED BY <1>1, <1>2, <1>3 DEF OperatorNext, OperatorStep

LEMMA ChecksBegin ==
  ASSUME SessionsInit, OperatorInit
  PROVE  OpInv
<1>1. PICK subject, holds, tool, listed : op = NewCheck(subject, holds, tool, listed)
  BY DEF OperatorInit
<1>2. DOMAIN op = CheckFields /\ op.seen = <<>> /\ op.held = <<>>
  BY <1>1 DEF NewCheck, CheckFields
<1>3. DOMAIN op.seen = {} /\ DOMAIN op.held = {}
  BY <1>2
<1>4. ASSUME NEW step \in Bridged PROVE BridgeHolds(step)
  <2>1. CallOf(step) \in Calls
    BY BridgedCalls
  <2>2. call[CallOf(step)] = NewCall
    BY <2>1 DEF SessionsInit
  <2>3. NewCall.pc = "idle" /\ NewCall.res = "none" /\ NewCall.ran = 0
    BY DEF NewCall
  <2> QED BY <1>3, <2>2, <2>3 DEF BridgeHolds, CameShape
<1> QED BY <1>2, <1>3, <1>4 DEF OpInv, OperatorInit

\* OperatorChecks: whatever the process serves or the operator checks, a config write
\* runs only where the catalog told its name, and an answer that only a target gives
\* which does as it should was given by such a target.
THEOREM OperatorInvariant == Spec => []OpInv
<1>1. Spec => SessionsInit /\ OperatorInit /\ [][OperatorNext]_opVars
  BY DEF Spec
<1>2. SessionsInit /\ OperatorInit => OpInv
  BY ChecksBegin
<1>3. DropInv /\ OpInv /\ [OperatorNext]_opVars => OpInv'
  BY ChecksKeep
<1> QED BY <1>1, <1>2, <1>3, SourceInvariant, PTL

---------------------------------------------------------------------------
(* A green check *)

\* A check that ended well was not cut short, and has made every request it had to.
LEMMA AllAsked ==
  ASSUME Done, ~Thrown, NEW i \in DOMAIN Plan, Asks(Plan[i])
  PROVE  Plan[i] \in DOMAIN op.seen
BY DEF Done, Open

\* What a live verification without a failed or skipped check has seen.
LEMMA LiveGreen ==
  ASSUME NEW s, NEW seen, V!LiveOk(s, seen)
  PROVE  /\ V!HasPrincipal(s) /\ ~V!NoToken(s, seen) /\ V!Was(seen, "mint", {"token"})
         /\ V!IsClientError(seen[V!Step("anonymous")]) /\ V!Was(seen, "context", {"200"})
         /\ s.governed => V!Was(seen, "readiness", {"200"})
         /\ V!IsMassReadRefusal(seen[V!Step("mass")]) \/ seen[V!Step("mass")] \in {"fewer", "few exist"}
         /\ V!ProbesConfig(s) => V!ConfigOutcome(seen) \notin {"served", "unexercised"}
         /\ V!MayWrite(s) => V!Was(seen, "edit", {"401", "403"})
<1>1. \A check \in {"principal_auth", "source_governance", "target_resolution", "probe_mass_read",
                    "probe_config_change", "probe_content_edit"} :
        V!LiveChecks(s, seen)[check] \in {"pass", "n/a"}
  <2>1. {"principal_auth", "source_governance", "target_resolution", "probe_mass_read",
         "probe_config_change", "probe_content_edit"} \subseteq DOMAIN V!LiveChecks(s, seen)
    BY DEF V!LiveChecks
  <2> QED BY <2>1 DEF V!LiveOk
<1>2. /\ V!PrincipalAuth(s, seen) \in {"pass", "n/a"}
      /\ V!Gated(s, seen, IF ~s.governed THEN "n/a" ELSE V!Verdict(~V!Was(seen, "readiness", {"200"}), FALSE))
           \in {"pass", "n/a"}
      /\ V!Gated(s, seen, V!Verdict(~V!Was(seen, "context", {"200"}), FALSE)) \in {"pass", "n/a"}
      /\ V!Gated(s, seen, V!MassRead(seen)) \in {"pass", "n/a"}
      /\ V!Gated(s, seen, V!ConfigChange(s, seen)) \in {"pass", "n/a"}
      /\ V!Gated(s, seen, V!ContentEdit(s, seen)) \in {"pass", "n/a"}
  BY <1>1 DEF V!LiveChecks
<1>3. /\ V!HasPrincipal(s) /\ ~V!NoToken(s, seen) /\ V!IsClientError(seen[V!Step("anonymous")])
  BY <1>2 DEF V!PrincipalAuth, V!Verdict
<1>4. V!Was(seen, "mint", {"token"})
  BY <1>3 DEF V!NoToken
<1>5. s.governed => V!Was(seen, "readiness", {"200"})
  BY <1>2, <1>3 DEF V!Gated, V!Verdict
<1>6. V!Was(seen, "context", {"200"})
  BY <1>2, <1>3 DEF V!Gated, V!Verdict
<1>7. V!IsMassReadRefusal(seen[V!Step("mass")]) \/ seen[V!Step("mass")] \in {"fewer", "few exist"}
  BY <1>2, <1>3 DEF V!Gated, V!Verdict, V!MassRead
<1>8. V!ProbesConfig(s) => V!ConfigOutcome(seen) \notin {"served", "unexercised"}
  BY <1>2, <1>3 DEF V!Gated, V!Verdict, V!ConfigChange
<1>9. V!MayWrite(s) => V!Was(seen, "edit", {"401", "403"})
  BY <1>2, <1>3 DEF V!Gated, V!Verdict, V!ContentEdit
<1> QED BY <1>3, <1>4, <1>5, <1>6, <1>7, <1>8, <1>9

\* The config write of a verification that ended well was refused.
LEMMA WriteRefused ==
  ASSUME OpInv, V!ProbesConfig(Subject), V!Step("write") \in DOMAIN op.seen,
         V!ConfigOutcome(op.seen) \notin {"served", "unexercised"}
  PROVE  /\ V!Advertised(op.seen) /\ ~V!Was(op.seen, "write", {"served"})
         /\ op.seen[V!Step("write")] \in {"tool_error", "rpc_policy", "401", "403"}
         /\ op.seen[V!Step("write")] # "401" => op.held[V!Step("write")]
<1>1. /\ V!Advertised(op.seen) /\ ~V!Written(op.seen)
      /\ op.seen[V!Step("write")] \in {"tool_error", "rpc_policy", "401", "403"}
  BY DEF V!ConfigOutcome, V!ClassifyBridgeError
<1>2. ASSUME op.seen[V!Step("write")] # "401" PROVE op.held[V!Step("write")]
  <2>1. PICK q : q = call[CallOf(V!Step("write"))]
    OBVIOUS
  <2>2. V!Step("write") \in Bridged /\ V!Step("write") # V!Step("catalog")
    BY StepNames DEF Bridged
  <2>3. BridgeHolds(V!Step("write"))
    BY <2>2 DEF OpInv
  <2>4. /\ q.pc = "done" /\ op.seen[V!Step("write")] = Heard(q) /\ q.res \in Came \cup {"no_session"}
        /\ op.held[V!Step("write")] = (V!Step("write") \in op.holds)
        /\ q.res = "ok" => q.value \in Replies(V!Step("write"))
    BY <2>1, <2>2, <2>3 DEF BridgeHolds, CameShape
  <2>5. q.res = "ok" /\ Heard(q) = q.value
    BY <1>1, <1>2, <2>4 DEF Heard, Came
  <2>6. op.seen[V!Step("write")] \in Replies(V!Step("write"))
    BY <2>4, <2>5
  <2>7. V!Step("write") \in op.holds
    BY <1>1, <2>2, <2>6 DEF Replies
  <2> QED BY <2>4, <2>7
<1> QED BY <1>1, <1>2 DEF V!Written

\* A config write that ran where nothing refuses it leaves no green verification.
LEMMA GreenChangesNothing ==
  ASSUME OpInv, setup.check = "verify" =>
           /\ V!Step("write") \in DOMAIN op.seen \/ ~V!ProbesConfig(Subject)
           /\ V!ProbesConfig(Subject) => V!ConfigOutcome(op.seen) \notin {"served", "unexercised"}
  PROVE  ~ConfigChanged
<1> SUFFICES ASSUME NEW step \in {V!Step("write"), V!Step("write2")}, NameOf(step) = op.tool,
                    V!Step("write") \notin op.holds, call[CallOf(step)].ran > 0
             PROVE  FALSE
  BY DEF ConfigChanged
<1>1. step \in Bridged /\ step # V!Step("catalog")
  BY StepNames DEF Bridged
<1>2. PICK q : q = call[CallOf(step)]
  OBVIOUS
<1>3. /\ setup.check = "verify" /\ V!ProbesConfig(Subject) /\ q.res \in {"ok", "failed"}
      /\ q.res = "ok" => q.value \in Replies(step)
      /\ step = V!Step("write2") => ~V!Advertised(op.seen)
      /\ step \in DOMAIN op.seen => op.seen[step] = Heard(q)
  <2>1. BridgeHolds(step)
    BY <1>1 DEF OpInv
  <2> QED BY <1>1, <1>2, <2>1 DEF BridgeHolds
<1>4. /\ V!Advertised(op.seen) /\ ~V!Was(op.seen, "write", {"served"})
      /\ op.seen[V!Step("write")] \in {"tool_error", "rpc_policy", "401", "403"}
      /\ V!Step("write") \in DOMAIN op.seen
  BY <1>3, WriteRefused
<1>5. step = V!Step("write") /\ op.seen[step] = Heard(q)
  BY <1>3, <1>4
<1>6. CASE q.res = "failed"
  BY <1>4, <1>5, <1>6 DEF Heard
<1>7. CASE q.res = "ok"
  <2>1. q.value = "served"
    BY <1>1, <1>3, <1>7 DEF Replies
  <2> QED BY <1>4, <1>5, <1>7, <2>1 DEF Heard
<1> QED BY <1>3, <1>6, <1>7

\* What is asked for a claim of a green report: it held, or is taken for more than it says.
Warranted(claim) ==
  /\ Source(claim) \in DOMAIN op.seen
  /\ \/ op.held[Source(claim)] /\ (claim # Source(claim) => claim \in op.holds)
     \/ op.seen[Source(claim)] \in TakenFor(claim)

\* A claim that is read from its own answer.
LEMMA AnswerWarrants ==
  ASSUME OpInv, NEW claim \in DOMAIN op.seen, Source(claim) = claim,
         \/ claim \notin Bridged /\ Proves(claim)
         \/ op.held[claim]
         \/ op.seen[claim] \in TakenFor(claim)
  PROVE  Warranted(claim)
BY DEF OpInv, AnswerHolds, Warranted

\* The verifier.
LEMMA VerifyWarrants ==
  ASSUME OpInv, setup.check = "verify", Done, Exit = 0
  PROVE  ~ConfigChanged /\ \A claim \in Claims : Warranted(claim)
<1> DEFINE s == op.subject[Site]
<1>1. Subject = s /\ ~Thrown /\ Plan = V!VerifyPlan
  BY DEF Subject, Thrown, Plan
<1>2. V!LiveOk(s, op.seen)
  BY DEF Exit, V!VerifyExit
<1> HIDE DEF s
<1>3. /\ V!HasPrincipal(s) /\ ~V!NoToken(s, op.seen) /\ V!Was(op.seen, "mint", {"token"})
      /\ V!IsClientError(op.seen[V!Step("anonymous")]) /\ V!Was(op.seen, "context", {"200"})
      /\ s.governed => V!Was(op.seen, "readiness", {"200"})
      /\ V!IsMassReadRefusal(op.seen[V!Step("mass")]) \/ op.seen[V!Step("mass")] \in {"fewer", "few exist"}
      /\ V!ProbesConfig(s) => V!ConfigOutcome(op.seen) \notin {"served", "unexercised"}
      /\ V!MayWrite(s) => V!Was(op.seen, "edit", {"401", "403"})
  BY <1>2, LiveGreen
<1>4. /\ 3 \in DOMAIN Plan /\ Plan[3] = V!Step("anonymous") /\ 6 \in DOMAIN Plan /\ Plan[6] = V!Step("write")
      /\ 9 \in DOMAIN Plan /\ Plan[9] = V!Step("mass")
  BY <1>1 DEF V!VerifyPlan
<1>5. \A step : Asks(step) <=> V!VerifyAsks(s, op.seen, step)
  BY <1>1 DEF Asks
<1>6. V!Step("anonymous") \in DOMAIN op.seen /\ V!Step("mass") \in DOMAIN op.seen
  <2>1. V!Step("anonymous")[2] = "anonymous" /\ V!Step("mass")[2] = "mass"
    BY StepNames
  <2>2. V!VerifyAsks(s, op.seen, V!Step("anonymous")) /\ V!VerifyAsks(s, op.seen, V!Step("mass"))
    BY <1>3, <2>1 DEF V!VerifyAsks
  <2> QED BY <1>1, <1>4, <1>5, <2>2, AllAsked
<1>7. V!ProbesConfig(s) => V!Step("write") \in DOMAIN op.seen
  <2> SUFFICES ASSUME V!ProbesConfig(s) PROVE V!Step("write") \in DOMAIN op.seen
    OBVIOUS
  <2>1. V!Step("write")[2] = "write"
    BY StepNames
  <2>2. V!VerifyAsks(s, op.seen, V!Step("write"))
    BY <1>3, <2>1 DEF V!VerifyAsks
  <2> QED BY <1>1, <1>4, <1>5, <2>2, AllAsked
<1>8. ~ConfigChanged
  BY <1>1, <1>3, <1>7, GreenChangesNothing
<1>9. \A n : n \notin {"catalog", "write", "write2"} => V!Step(n) \notin Bridged
  BY StepNames DEF Bridged
<1>10. \A n : Proves(V!Step(n)) <=> VerifyProves(n, op.seen[V!Step(n)])
  BY StepNames DEF Proves
<1>11. \A claim : Source(claim) = claim /\ TakenFor(claim) = V!Misread(claim)
  BY DEF Source, TakenFor
<1>12. Warranted(V!Step("mint"))
  <2>1. V!Step("mint") \in DOMAIN op.seen /\ op.seen[V!Step("mint")] = "token"
    BY <1>3 DEF V!Was
  <2> QED BY <1>9, <1>10, <1>11, <2>1, AnswerWarrants DEF VerifyProves
<1>13. Warranted(V!Step("anonymous"))
  <2>1. op.seen[V!Step("anonymous")] \in {"401", "403", "404", "429", "4xx+code"}
    BY <1>3 DEF V!IsClientError
  <2>2. V!Misread(V!Step("anonymous")) = {"404"}
    BY StepNames DEF V!Misread
  <2> QED BY <1>6, <1>9, <1>10, <1>11, <2>1, <2>2, AnswerWarrants DEF VerifyProves
<1>14. Warranted(V!Step("context"))
  <2>1. V!Step("context") \in DOMAIN op.seen /\ op.seen[V!Step("context")] = "200"
    BY <1>3 DEF V!Was
  <2> QED BY <1>9, <1>10, <1>11, <2>1, AnswerWarrants DEF VerifyProves
<1>15. Warranted(V!Step("mass"))
  <2>1. op.seen[V!Step("mass")] \in {"401", "403", "429", "4xx+code", "fewer", "few exist"}
    BY <1>3 DEF V!IsMassReadRefusal
  <2>2. V!Misread(V!Step("mass")) = {"401", "429", "few exist"}
    BY StepNames DEF V!Misread
  <2> QED BY <1>6, <1>9, <1>10, <1>11, <2>1, <2>2, AnswerWarrants DEF VerifyProves
<1>16. s.governed => Warranted(V!Step("readiness"))
  <2> SUFFICES ASSUME s.governed PROVE Warranted(V!Step("readiness"))
    OBVIOUS
  <2>1. V!Step("readiness") \in DOMAIN op.seen /\ op.seen[V!Step("readiness")] = "200"
    BY <1>3 DEF V!Was
  <2> QED BY <1>9, <1>10, <1>11, <2>1, AnswerWarrants DEF VerifyProves
<1>17. V!ProbesConfig(s) => Warranted(V!Step("write"))
  <2> SUFFICES ASSUME V!ProbesConfig(s) PROVE Warranted(V!Step("write"))
    OBVIOUS
  <2>1. op.seen[V!Step("write")] # "401" => op.held[V!Step("write")]
    BY <1>1, <1>3, <1>7, WriteRefused
  <2>2. V!Misread(V!Step("write")) = {"401"}
    BY StepNames DEF V!Misread
  <2> QED BY <1>7, <1>11, <2>1, <2>2, AnswerWarrants
<1>18. V!MayWrite(s) => Warranted(V!Step("edit"))
  <2> SUFFICES ASSUME V!MayWrite(s) PROVE Warranted(V!Step("edit"))
    OBVIOUS
  <2>1. V!Step("edit") \in DOMAIN op.seen /\ op.seen[V!Step("edit")] \in {"401", "403"}
    BY <1>3 DEF V!Was
  <2>2. V!Misread(V!Step("edit")) = {"401"}
    BY StepNames DEF V!Misread
  <2> QED BY <1>9, <1>10, <1>11, <2>1, <2>2, AnswerWarrants DEF VerifyProves
<1>19. Claims = V!VerifyClaims(s)
  BY <1>1 DEF Claims
<1> QED BY <1>8, <1>12, <1>13, <1>14, <1>15, <1>16, <1>17, <1>18, <1>19 DEF V!VerifyClaims

\* The doctor.
LEMMA DoctorWarrants ==
  ASSUME OpInv, setup.check = "doctor", Done, Exit = 0
  PROVE  ~ConfigChanged /\ \A claim \in Claims : Warranted(claim)
<1>1. ~Thrown /\ Plan = D!DoctorPlan
  BY DEF Thrown, Plan
<1>2. PICK s : s = Subject
  OBVIOUS
<1>3. \A i \in 1..6 : D!Gates(s, op.seen)[i] # "fail"
  <2>1. D!DoctorExit(s, op.seen) = 0
    BY <1>2 DEF Exit
  <2>2. DOMAIN D!Gates(s, op.seen) = 1..6
    BY DEF D!Gates
  <2> QED BY <2>1, <2>2 DEF D!DoctorExit
<1>4. D!Reachability(s, op.seen) # "fail" /\ D!Auth(s, op.seen) # "fail" /\ D!Readiness(s, op.seen) # "fail"
  BY <1>3 DEF D!Gates
<1>5. D!Reached(s, op.seen)
  BY <1>4 DEF D!Reachability
<1>6. D!Saw(op.seen, "token", {"token"}) /\ ~D!Saw(op.seen, "authed", {"none", "401", "404"})
  BY <1>4, <1>5 DEF D!Auth
<1>7. D!Gate("authed") \in DOMAIN op.seen
  <2>1. 4 \in DOMAIN Plan /\ Plan[4] = D!Gate("authed") /\ D!Gate("authed")[2] = "authed"
    <3>1. 4 \in DOMAIN D!DoctorPlan /\ D!DoctorPlan[4] = D!Gate("authed")
      BY DEF D!DoctorPlan
    <3> QED BY <1>1, <3>1, StepNames
  <2>2. Asks(D!Gate("authed"))
    BY <1>2, <1>6, <2>1 DEF Asks, D!DoctorAsks
  <2> QED BY <1>1, <2>1, <2>2, AllAsked
<1>8. \A claim : Source(claim) = claim /\ TakenFor(claim) = D!Overlooked(claim)
  BY DEF Source, TakenFor
<1>9. \A n : Proves(D!Gate(n)) <=> DoctorProves(n, op.seen[D!Gate(n)])
  BY StepNames DEF Proves
<1>10. \A n : D!Gate(n) \notin Bridged
  BY StepNames DEF Bridged
<1>11. Warranted(D!Gate("authed"))
  <2>1. op.seen[D!Gate("authed")] \notin {"none", "401", "404"}
    BY <1>6, <1>7 DEF D!Saw
  <2>2. D!Overlooked(D!Gate("authed")) = {"500"}
    BY DEF D!Overlooked
  <2> QED BY <1>7, <1>8, <1>9, <1>10, <2>1, <2>2, AnswerWarrants DEF DoctorProves
<1>12. s.governed => Warranted(D!Gate("readiness"))
  <2> SUFFICES ASSUME s.governed PROVE Warranted(D!Gate("readiness"))
    OBVIOUS
  <2>1. D!Saw(op.seen, "readiness", {"ready", "ready+skew"})
    BY <1>4, <1>5 DEF D!Readiness
  <2> QED BY <1>8, <1>9, <1>10, <2>1, AnswerWarrants DEF DoctorProves, D!Saw
<1>13. Claims = D!DoctorClaims(s)
  BY <1>2 DEF Claims
<1>14. ~ConfigChanged
  BY GreenChangesNothing
<1> QED BY <1>11, <1>12, <1>13, <1>14 DEF D!DoctorClaims

\* The acceptance probe.
LEMMA HostedWarrants ==
  ASSUME OpInv, setup.check = "hosted", Done, Exit = 0
  PROVE  ~ConfigChanged /\ \A claim \in Claims : Warranted(claim)
<1>1. PICK o : o = Subject
  OBVIOUS
<1>2. PICK rows : rows = H!Rows(o, ClientOrder)
  OBVIOUS
<1>3. /\ ~\E step \in DOMAIN op.seen : op.seen[step] = "none"
      /\ \A step \in rows : H!Finished(o, op.seen, step) # "failed"
      /\ o.require => \A step \in rows : H!IsRequiredSignedIn(step) => H!Finished(o, op.seen, step) # "skipped"
  <2>1. H!HostedExit(o, ClientOrder, op.seen) = 0
    BY <1>1 DEF Exit
  <2> QED BY <1>2, <2>1 DEF H!HostedExit
<1>4. ~Thrown /\ Plan = H!HostedPlan(ClientOrder)
  BY <1>3 DEF Thrown, Plan
<1>5. \A step \in {Plan[i] : i \in DOMAIN Plan} : Asks(step) => step \in DOMAIN op.seen
  BY <1>4, AllAsked
<1>6. \A step : /\ step \in rows => step \in {Plan[i] : i \in DOMAIN Plan}
                /\ step \in rows /\ step[2] \in {"cimd accept", "cimd reject"} => Inventory[step[3]].cimd
                /\ step \in rows /\ step[2] = "exchange" => ~o.token /\ o.secret
  BY <1>2, <1>4 DEF H!Rows
<1>7. ASSUME NEW step \in rows, step[2] # "gates", step \in DOMAIN op.seen
      PROVE  H!AnsweredAsExpected(o, op.seen, step)
  BY <1>3, <1>7 DEF H!Finished
<1>8. ASSUME NEW claim \in Claims PROVE Warranted(claim)
  <2>1. /\ claim \in rows
        /\ claim[2] = "gates" => o.require
        /\ claim[2] = "signed in" => o.require \/ o.token
        /\ claim[2] = "deny token" => claim[3] \in o.denied
    BY <1>1, <1>2, <1>8 DEF Claims, H!HostedClaims
  <2>2. \E f, w : claim = H!Probe(f, w)
    <3>1. PICK i \in DOMAIN H!HostedPlan(ClientOrder) : claim = H!HostedPlan(ClientOrder)[i]
      BY <1>4, <1>6, <2>1
    <3> QED BY <3>1, HostedPlanFacts
  <2>3. claim \notin Bridged /\ TakenFor(claim) = H!Mistaken(claim)
    BY <2>2, StepNames DEF Bridged, TakenFor
  <2>4. CASE claim[2] # "gates"
    <3>1. Source(claim) = claim
      BY <2>4 DEF Source
    <3>2. claim \in DOMAIN op.seen
      <4>1. CASE claim[2] = "signed in" /\ ~o.token
        BY <1>3, <2>1, <4>1 DEF H!IsRequiredSignedIn, H!Finished
      <4>2. CASE ~(claim[2] = "signed in" /\ ~o.token)
        <5>1. H!HostedAsks(o, op.seen, claim)
          BY <1>6, <2>1, <2>4, <4>2 DEF H!HostedAsks, H!HasToken
        <5>2. Asks(claim)
          BY <1>1, <5>1 DEF Asks
        <5> QED BY <1>5, <1>6, <2>1, <5>2
      <4> QED BY <4>1, <4>2
    <3>3. H!AnsweredAsExpected(o, op.seen, claim)
      BY <1>7, <2>1, <2>4, <3>2
    <3>4. op.seen[claim] \in H!Mistaken(claim) \/ Proves(claim)
      BY <1>1, <2>4, <3>3 DEF Proves, HostedProves
    <3> QED BY <2>3, <3>1, <3>2, <3>4, AnswerWarrants
  <2>5. CASE claim[2] = "gates"
    <3>1. PICK first : first = H!Probe("accept", claim[3])
      OBVIOUS
    <3>2. Source(claim) = first /\ first[2] = "accept" /\ first[3] = claim[3] /\ first \notin Bridged
      BY <2>5, <3>1, StepNames DEF Source, Bridged
    <3>3. first \in {Plan[i] : i \in DOMAIN Plan}
      <4>1. PICK i \in DOMAIN H!HostedPlan(ClientOrder) : claim = H!HostedPlan(ClientOrder)[i]
        BY <1>4, <1>6, <2>1
      <4>2. PICK j \in DOMAIN H!HostedPlan(ClientOrder) :
              H!HostedPlan(ClientOrder)[j] = H!Probe("accept", claim[3])
        BY <2>5, <4>1, HostedPlanFacts
      <4> QED BY <1>4, <3>1, <4>2
    <3>4. first \in DOMAIN op.seen
      <4>1. H!HostedAsks(o, op.seen, first)
        BY <3>2 DEF H!HostedAsks
      <4>2. Asks(first)
        BY <1>1, <4>1 DEF Asks
      <4> QED BY <1>5, <3>3, <4>2
    <3>5. first \in rows
      BY <1>2, <1>4, <3>2, <3>3 DEF H!Rows
    <3>6. H!AnsweredAsExpected(o, op.seen, first)
      BY <1>7, <3>2, <3>4, <3>5
    <3>7. op.seen[first] \in {"login", "login+gated", "login+consent", "login+ungated", "client_not_found"}
      <4>1. first[2] \in H!Authorizes
        BY <3>2 DEF H!Authorizes
      <4>2. H!Expected(first, o.provisioned) \in {"login", "client_not_found"}
        BY <3>2, <4>1, ExpectedPages
      <4>3. op.seen[first] \in H!PagesOf(H!Expected(first, o.provisioned))
        BY <3>2, <3>6 DEF H!AnsweredAsExpected, H!AuthorizedAsExpected, H!Authorizes, H!Guarded
      <4>4. PICK page : page = H!Expected(first, o.provisioned)
        OBVIOUS
      <4> QED BY <4>2, <4>3, <4>4 DEF H!PagesOf, H!LoginPages
    <3>8. H!GatesOf(op.seen, claim[3]) = "ok"
      <4>1. H!Finished(o, op.seen, claim) = H!GatesOf(op.seen, claim[3])
        BY <2>5 DEF H!Finished
      <4>2. H!Finished(o, op.seen, claim) \notin {"failed", "skipped"}
        BY <1>3, <2>1, <2>5 DEF H!IsRequiredSignedIn
      <4>3. H!GatesOf(op.seen, claim[3]) \in {"ok", "failed", "skipped"}
        BY DEF H!GatesOf
      <4> QED BY <4>1, <4>2, <4>3
    <3>9. op.seen[first] \in {"login+gated", "login+consent"}
      BY <3>1, <3>7, <3>8 DEF H!GatesOf
    <3>10. H!Mistaken(claim) = {"login+consent"} /\ op.seen[first] \notin H!Mistaken(first)
      BY <2>5, <3>2 DEF H!Mistaken
    <3>11. CASE op.seen[first] = "login+consent"
      BY <2>3, <3>2, <3>4, <3>10, <3>11 DEF Warranted
    <3>12. CASE op.seen[first] = "login+gated"
      <4>1. AnswerHolds(first)
        BY <3>2, <3>4 DEF OpInv
      <4>2. Proves(first) /\ ShowsGates(first)
        BY <1>1, <3>2, <3>6, <3>10, <3>12 DEF Proves, HostedProves, ShowsGates
      <4>3. claim = H!Probe("gates", first[3])
        BY <2>2, <2>5, <3>2, StepNames
      <4> QED BY <3>2, <3>4, <4>1, <4>2, <4>3 DEF AnswerHolds, Warranted
    <3> QED BY <3>9, <3>11, <3>12
  <2> QED BY <2>4, <2>5
<1>9. ~ConfigChanged
  BY GreenChangesNothing
<1> QED BY <1>8, <1>9

\* verify.js:13, "a check that cannot run is skipped, never pass": when a check ends
\* well, everything it vouches for was asked and held when it was asked, but for the
\* answers the code takes for more than they say, and its own probes changed nothing.
THEOREM GreenChecksAreProven == Spec => []GreenIsProven
<1>1. OpInv => GreenIsProven
  <2> SUFFICES ASSUME OpInv, Running, Done, Exit = 0
               PROVE  ~ConfigChanged /\ \A claim \in Claims : Warranted(claim)
    BY DEF GreenIsProven, Warranted
  <2>1. CASE setup.check = "verify"
    BY <2>1, VerifyWarrants
  <2>2. CASE setup.check = "doctor"
    BY <2>2, DoctorWarrants
  <2>3. CASE setup.check = "hosted"
    BY <2>3, HostedWarrants
  <2> QED BY <2>1, <2>2, <2>3 DEF OpInv, Running
<1> QED BY <1>1, OperatorInvariant, PTL
=============================================================================
