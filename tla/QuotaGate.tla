----------------------------- MODULE QuotaGate -----------------------------
(***************************************************************************)
(* The quota and abuse gate of the relay edge: a fixed window for each     *)
(* tenant and principal the operator gave a row, and a bounded table of    *)
(* denials that locks a principal.  The gate changes only inside a turn of *)
(* the edge, so its operations are operators over its state.               *)
(***************************************************************************)
EXTENDS Naturals, FiniteSets, Sequences, SequencesExt, TLC

CONSTANTS
  Tenants, Principals,
  KeyBound,   \* maxKeys: principals the denial table holds
  MaxTime     \* bounds the clock

ASSUME GateAssumption == KeyBound \in Nat \ {0} /\ MaxTime \in Nat

VARIABLES
  quotas,   \* the operator's table
  now,
  windows,  \* the window of each tenant and principal with a row
  denials,  \* the table, in insertion order: key, times, until (0: no lock)
  book,     \* history: the lock of each principal in a table without a bound
  signals   \* history: the denials that count, in order

gateVars == <<quotas, now, windows, denials, book, signals>>

---------------------------------------------------------------------------
(* normalizeQuotas *)

PositiveRows(rows) == \A id \in DOMAIN rows : rows[id].requests > 0 /\ rows[id].window > 0
Abusive(table) == DOMAIN table.abuse # {}
PositiveAbuse(table) ==
  Abusive(table) => table.abuse.denials > 0 /\ table.abuse.window > 0 /\ table.abuse.lock > 0

\* An unknown key or a row that is not positive makes the whole table invalid,
\* and the edge refuses to start; it is never read as no table.
Readable(table) ==
  /\ ~table.unknownKey
  /\ PositiveRows(table.tenants) /\ PositiveRows(table.principals)
  /\ PositiveAbuse(table)

Rows == quotas.tenants @@ quotas.principals
TenantsRequired == DOMAIN quotas.tenants # {}
PrincipalsRequired == DOMAIN quotas.principals # {}

NoLock == [times |-> <<>>, until |-> 0]

GateInit(table) ==
  /\ Readable(table)
  /\ quotas = table /\ now = 1
  /\ windows = [id \in DOMAIN (table.tenants @@ table.principals) |-> [count |-> 0, reset |-> 0]]
  /\ denials = <<>>
  /\ book = [k \in Principals |-> NoLock] /\ signals = <<>>

---------------------------------------------------------------------------
(* The denial table *)

\* A filter keeps some places, in their order.
Filtered(seq, places) ==
  LET Nth(m) == CHOOSE i \in places : Cardinality({j \in places : j <= i}) = m
  IN  [m \in 1..Cardinality(places) |-> seq[Nth(m)]]

Recent(times) == Filtered(times, {i \in DOMAIN times : now - times[i] < quotas.abuse.window})
Locked(e) == e.until > now
Live(e) == IF e.until # 0 THEN Locked(e) ELSE Recent(e.times) # <<>>

Tracked(ds, k) == \E i \in DOMAIN ds : ds[i].key = k
IsLocked(ds, k) == \E i \in DOMAIN ds : ds[i].key = k /\ Locked(ds[i])

\* lockState drops a lock that has ended and denials out of the window.
Aged(e) == IF e.until # 0 THEN e ELSE [e EXCEPT !.times = Recent(@)]
LockState(ds, k) ==
  LET aged == [i \in DOMAIN ds |-> IF ds[i].key = k THEN Aged(ds[i]) ELSE ds[i]]
  IN  Filtered(aged, {i \in DOMAIN aged : aged[i].key = k => Live(aged[i])})

\* At the bound, entries that are over go; if that is not enough the oldest go,
\* locked or not.
Prune(ds) ==
  LET alive == Filtered(ds, {i \in DOMAIN ds : Live(ds[i])})
      over  == IF Len(alive) < KeyBound THEN 0 ELSE Len(alive) - KeyBound + 1
  IN  SubSeq(alive, over + 1, Len(alive))

NewEntry(k) == [key |-> k, times |-> <<>>, until |-> 0]

\* One more denial; the last one allowed locks.
Noted(e) ==
  LET times == Append(e.times, now)
  IN  [e EXCEPT !.times = times,
                !.until = IF Len(times) >= quotas.abuse.denials THEN now + quotas.abuse.lock ELSE @]

\* noteDenial.  A locked principal's denials are not counted.
NoteDenial(ds, k) ==
  LET known == LockState(ds, k)
      room  == IF Len(known) >= KeyBound THEN Prune(known) ELSE known
  IN  CASE ~Abusive(quotas) -> ds
        [] Abusive(quotas) /\ IsLocked(known, k) -> known
        [] Abusive(quotas) /\ ~IsLocked(known, k) /\ Tracked(known, k) ->
             [i \in DOMAIN known |-> IF known[i].key = k THEN Noted(known[i]) ELSE known[i]]
        [] OTHER -> Append(room, Noted(NewEntry(k)))

---------------------------------------------------------------------------
(* check *)

\* createRateLimiter with one key: a window opens at its first request.
Current(id) ==
  IF now < windows[id].reset THEN windows[id]
  ELSE [count |-> 0, reset |-> now + Rows[id].window]
HasRoom(id) == Current(id).count < Rows[id].requests
Charge(ids) ==
  [id \in DOMAIN windows |->
     IF id \in ids /\ HasRoom(id) THEN [Current(id) EXCEPT !.count = @ + 1]
     ELSE IF id \in ids THEN Current(id) ELSE windows[id]]

\* The lock is looked at first, then the tenant's window, then the principal's;
\* a window is charged even when a later one refuses.
Verdict(t, k) ==
  LET because(reason, scope) == [reason |-> reason, scope |-> scope]
  IN  IF Abusive(quotas) /\ IsLocked(denials, k) THEN because("abuse_locked", "abuse")
      ELSE IF TenantsRequired /\ t \notin DOMAIN quotas.tenants
           THEN because("not_entitled", "tenant")
      ELSE IF TenantsRequired /\ ~HasRoom(t) THEN because("quota_exceeded", "tenant")
      ELSE IF PrincipalsRequired /\ k \notin DOMAIN quotas.principals
           THEN because("not_entitled", "principal")
      ELSE IF PrincipalsRequired /\ ~HasRoom(k) THEN because("quota_exceeded", "principal")
      ELSE because("", "")

Charged(t, k) ==
  LET v == Verdict(t, k)
  IN  CASE v.scope = "abuse" \/ (v.scope = "tenant" /\ v.reason = "not_entitled") -> {}
        [] v.scope = "tenant" /\ v.reason = "quota_exceeded" -> {t}
        [] v.scope = "principal" /\ v.reason = "not_entitled" -> {t}
        [] OTHER -> {t, k}

\* What a check leaves of the denial table.
AfterCheck(k) == IF Abusive(quotas) THEN LockState(denials, k) ELSE denials

---------------------------------------------------------------------------
(* What a lock means *)

\* The lock of one principal by itself, after one more denial.
Entered(b) ==
  LET times == Append(Recent(b.times), now)
  IN  CASE Locked(b) -> b
        [] ~Locked(b) /\ Len(times) >= quotas.abuse.denials ->
             [times |-> <<>>, until |-> now + quotas.abuse.lock]
        [] OTHER -> [times |-> times, until |-> 0]

EnterBook(k) ==
  /\ book' = IF Abusive(quotas) THEN [book EXCEPT ![k] = Entered(@)] ELSE book
  /\ signals' = IF Abusive(quotas) THEN Append(signals, [key |-> k, at |-> now]) ELSE signals

\* As many other principals as the table holds were denied since k first was.
Crowded(k) ==
  \E i \in DOMAIN signals :
    /\ signals[i].key = k
    /\ Cardinality({signals[j].key : j \in i..Len(signals)} \ {k}) >= KeyBound

Tick ==
  /\ now < MaxTime
  /\ now' = now + 1
  /\ UNCHANGED <<quotas, windows, denials, book, signals>>
=============================================================================
