---------------------------- MODULE UsageLedger ----------------------------
(***************************************************************************)
(* The usage ledger of the relay edge: bounded rows of decisions and       *)
(* receipts, read one tenant at a time and reconciled into chains.         *)
(***************************************************************************)
EXTENDS QuotaGate

CONSTANTS
  Ids,      \* frame ids
  MaxRows   \* maxRecords

ASSUME LedgerAssumption == MaxRows \in Nat \ {0} /\ "" \notin Ids

VARIABLES rows, dropped

ledgerVars == <<rows, dropped>>

LedgerInit == rows = <<>> /\ dropped = 0

Decision(decision, id, tenant, key) ==
  [phase |-> "decision", is |-> decision, id |-> id, of |-> id, tenant |-> tenant, key |-> key]

\* A receipt settles the decision of its own call (of); one that nobody waited
\* for settles none.  no stands for its receiptId, which tells it from any other
\* of the same frame id; id is "" if the frame named none.
Receipt(no, outcome, id, of, tenant, key) ==
  [phase |-> "receipt", no |-> no, is |-> outcome, id |-> id, of |-> of,
   tenant |-> tenant, key |-> key]

RecordM1(row) ==
  /\ rows' = IF Len(rows) = MaxRows THEN Append(Tail(rows), row) ELSE Append(rows, row)
  /\ dropped' = dropped

\* record: the oldest row makes room, and is counted.
Record(row) ==
  /\ rows' = IF Len(rows) = MaxRows THEN Append(Tail(rows), row) ELSE Append(rows, row)
  /\ dropped' = IF Len(rows) = MaxRows THEN dropped + 1 ELSE dropped

---------------------------------------------------------------------------
(* Reading *)

\* readUsage, readEvidence: the tenant of the reader's grant that it names, or
\* the only one; "" is a refusal.
ReadTenant(granted, hint) ==
  CASE hint \in granted -> hint
    [] hint = "" /\ Cardinality(granted) = 1 -> CHOOSE t \in granted : TRUE
    [] OTHER -> ""

\* query: the places of the rows of one tenant, and of one principal if one is named.
Query(tenant, key) == {i \in DOMAIN rows : rows[i].tenant = tenant /\ key \in {"", rows[i].key}}

\* reconcileUsage, one chain of rows of one frame id.  A row without one is a
\* chain of its own that lacks its decision.
Chained(list) == {rows[i].id : i \in {j \in list : rows[j].is # "deny"}} \ {""}
ChainRows(list, id, phase) ==
  {i \in list : rows[i].is # "deny" /\ rows[i].id = id /\ rows[i].phase = phase}

Several(places) == \E i, j \in places : i # j
Agree(d, r) ==
  /\ rows[r].is # "unknown"
  /\ rows[r].tenant = rows[d].tenant /\ rows[r].of = rows[d].of

Chain(list, id) ==
  LET ds == ChainRows(list, id, "decision")
      rs == ChainRows(list, id, "receipt")
  IN  IF Several(ds) \/ Several(rs) THEN "duplicate"
      ELSE IF ds = {} \/ rs = {} THEN "missing"
      ELSE IF \E d \in ds, r \in rs : Agree(d, r) THEN "settled" ELSE "uncertain"

Truncated == dropped > 0
=============================================================================
