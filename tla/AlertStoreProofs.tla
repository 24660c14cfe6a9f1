--------------------------- MODULE AlertStoreProofs ---------------------------
(***************************************************************************)
(* Lemmas about the statements of the table `alerts`, for the proofs about *)
(* the two processes that run them.                                        *)
(***************************************************************************)
EXTENDS AlertStore, SequenceTheorems, TLAPS

-------------------------------------------------------------------------------
(* Every statement maps tables to tables. *)

(* A function on the row numbers of a table whose values are alerts is a table
   (the two UPDATEs of common/storage.py are of this form). *)
LEMMA SameLength ==
  ASSUME NEW S, NEW table \in Seq(S), NEW f, DOMAIN f = DOMAIN table,
         f = [i \in DOMAIN table |-> f[i]],
         \A i \in DOMAIN table : f[i] \in S
  PROVE  f \in Seq(S) /\ Len(f) = Len(table)
<1>1. Len(table) \in Nat /\ DOMAIN table = 1..Len(table)
  BY LenProperties
<1>2. f \in [1..Len(table) -> S]
  BY <1>1
<1>3. f \in Seq(S)
  BY <1>1, <1>2, SeqDef
<1>4. Len(f) \in Nat /\ DOMAIN f = 1..Len(f)
  BY <1>3, LenProperties
<1> QED BY <1>1, <1>3, <1>4

LEMMA AlertAddress ==
  ASSUME NEW table \in Seq(Alert)
  PROVE  \A i \in DOMAIN table : table[i] \in Alert /\ table[i].src_ip \in IPs
<1>1. \A i \in DOMAIN table : table[i] \in Alert
  BY LenProperties, ElementOfSeq
<1> QED BY <1>1 DEF Alert

LEMMA UnbannedType ==
  ASSUME NEW table \in Seq(Alert), NEW ip
  PROVE  Unbanned(table, ip) \in Seq(Alert)
<1>1. \A i \in DOMAIN table : table[i] \in Alert
  BY AlertAddress
<1>2. \A i \in DOMAIN table : Unbanned(table, ip)[i] \in Alert
  BY <1>1 DEF Unbanned, Alert
<1>3. DOMAIN Unbanned(table, ip) = DOMAIN table
      /\ Unbanned(table, ip) = [i \in DOMAIN table |-> Unbanned(table, ip)[i]]
  BY DEF Unbanned
<1> QED BY <1>2, <1>3, SameLength

LEMMA AuditType ==
  ASSUME NEW table \in Seq(Alert), NEW ip, NEW ts, NEW v \in Verdicts
  PROVE  Audit(table, ip, ts, v) \in Seq(Alert)
<1> DEFINE rows == AuditedRows(table, ip, ts)
           f == SetVerdict(table, rows, v)
<1>1. \A i \in DOMAIN table : table[i] \in Alert
  BY AlertAddress
<1> HIDE DEF rows
<1>2. \A i \in DOMAIN table : f[i] \in Alert
  BY <1>1 DEF SetVerdict, Alert
<1>3. DOMAIN f = DOMAIN table /\ f = [i \in DOMAIN table |-> f[i]]
  BY DEF SetVerdict
<1>4. f \in Seq(Alert)
  BY <1>2, <1>3, SameLength
<1> QED BY <1>4 DEF Audit, rows

-------------------------------------------------------------------------------
(* The rows of an audit *)

LEMMA TableNumbers ==
  ASSUME NEW table \in Seq(Alert)
  PROVE  \A i \in DOMAIN table : table[i].timestamp \in Nat
<1>1. \A i \in DOMAIN table : table[i] \in Alert
  BY AlertAddress
<1> QED BY <1>1 DEF Alert

(* The rows an audit of an undecided alert writes are the alert and its twins. *)
LEMMA AuditedAreTwins ==
  ASSUME NEW table \in Seq(Alert), NEW i \in DOMAIN table, table[i].timestamp > 0
  PROVE  LET rows == AuditedRows(table, table[i].src_ip, table[i].timestamp)
         IN  /\ rows \in SUBSET DOMAIN table /\ i \in rows
             /\ \A j \in rows \ {i} : Twins(table, i, j) /\ Twins(table, j, i)
<1>1. \A j \in DOMAIN table : table[j].timestamp \in Nat
  BY TableNumbers
<1>2. AuditWindow \in Nat \ {0}
  BY WindowAssumption
<1>3. \A j \in DOMAIN table :
         Near(table[j].timestamp, table[i].timestamp)
           <=> Near(table[i].timestamp, table[j].timestamp)
  BY <1>1, <1>2 DEF Near
<1>4. Near(table[i].timestamp, table[i].timestamp)
  BY <1>1, <1>2 DEF Near
<1> QED BY <1>3, <1>4 DEF AuditedRows, Twins

(* A recorded alert becomes the last row; the others stay as they are. *)
LEMMA InsertAppends ==
  ASSUME NEW table \in Seq(Alert), NEW alert \in Alert
  PROVE  LET later == Insert(table, alert)
         IN  /\ later \in Seq(Alert) /\ Len(later) = Len(table) + 1
             /\ DOMAIN later = 1..Len(table) + 1 /\ DOMAIN table = 1..Len(table)
             /\ \A i \in DOMAIN table : later[i] = table[i]
             /\ later[Len(table) + 1] = alert
  BY DEF Insert

(* A verdict leaves the rows in their places and their addresses and times alone. *)
LEMMA AuditKeepsRows ==
  ASSUME NEW table \in Seq(Alert), NEW ip, NEW ts, NEW v
  PROVE  LET later == Audit(table, ip, ts, v)
         IN  /\ DOMAIN later = DOMAIN table
             /\ \A i \in DOMAIN table :
                  later[i].src_ip = table[i].src_ip /\ later[i].timestamp = table[i].timestamp
<1> DEFINE rows == AuditedRows(table, ip, ts)
<1>1. \A i \in DOMAIN table : table[i] \in Alert
  BY AlertAddress
<1> HIDE DEF rows
<1> QED BY <1>1 DEF Audit, SetVerdict, Alert, rows

(* Nor does consuming requests. *)
LEMMA UnbannedKeepsRows ==
  ASSUME NEW table \in Seq(Alert), NEW ip
  PROVE  LET later == Unbanned(table, ip)
         IN  /\ DOMAIN later = DOMAIN table
             /\ \A i \in DOMAIN table :
                  /\ later[i].src_ip = table[i].src_ip
                  /\ later[i].timestamp = table[i].timestamp
                  /\ later[i].verdict = table[i].verdict
<1>1. \A i \in DOMAIN table : table[i] \in Alert
  BY AlertAddress
<1> QED BY <1>1 DEF Unbanned, Alert
===============================================================================
