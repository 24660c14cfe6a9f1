------------------------------ MODULE AlertStore ------------------------------
(***************************************************************************)
(* The table `alerts` of common/storage.py, and the SQL statements that    *)
(* the two processes of the system run on it: the gatekeeper process       *)
(* inserts alerts and consumes unban requests, the dashboard process       *)
(* stores audit verdicts.                                                  *)
(*                                                                         *)
(* A table is a sequence of rows in order of id (AUTOINCREMENT).  Every    *)
(* statement is one transaction of SQLite in WAL mode, so it is one        *)
(* operator from table to table (or from table to result).  Of the columns *)
(* only those that some statement reads or the properties tell apart are   *)
(* kept; audit_decision and audit_classification are folded into `verdict` *)
(* (none = both NULL, unblock = what the query of unbans() selects,        *)
(* keep = any other decision).                                             *)
(***************************************************************************)
EXTENDS Integers, Sequences

CONSTANTS
  IPs,          \* source addresses that occur in alerts
  AuditWindow   \* 0.1 s of audit(), in units of the timestamp column

ASSUME WindowAssumption == AuditWindow \in Nat \ {0}

Verdicts == {"keep", "unblock"}

Alert == [src_ip : IPs, timestamp : Nat, ttl_secs : Nat,
          verdict : Verdicts \cup {"none"}, unbanned_processed : BOOLEAN]

-------------------------------------------------------------------------------
(* record(): INSERT with NULL audit columns and unbanned_processed = 0. *)
NewAlert(ip, ts, ttl) ==
  [src_ip |-> ip, timestamp |-> ts, ttl_secs |-> ttl,
   verdict |-> "none", unbanned_processed |-> FALSE]

Insert(table, alert) == Append(table, alert)

(* UPDATE ... WHERE src_ip = ? AND ABS(timestamp - ?) < 0.1: every row of the
   address near the timestamp takes the verdict, decided or not. *)
Near(ts1, ts2) == ts1 - ts2 < AuditWindow /\ ts2 - ts1 < AuditWindow

SetVerdict(table, rows, v) ==
  [i \in DOMAIN table |->
     IF i \in rows THEN [table[i] EXCEPT !.verdict = v] ELSE table[i]]

(* The rows audit() updates: by timestamp when it has one, otherwise the most
   recent undecided row of the address. *)
AuditedRows(table, ip, ts) ==
  IF ts > 0
  THEN {i \in DOMAIN table : table[i].src_ip = ip /\ Near(table[i].timestamp, ts)}
  ELSE LET open == {i \in DOMAIN table : table[i].src_ip = ip /\ table[i].verdict = "none"}
       IN  IF open = {} THEN {}
           ELSE {CHOOSE i \in open :
                   \A j \in open : table[j].timestamp <= table[i].timestamp}

Audit(table, ip, ts, v) == SetVerdict(table, AuditedRows(table, ip, ts), v)

(* alerts(limit): ORDER BY timestamp DESC LIMIT ?.  The gatekeeper inserts alerts
   in order of time, so the newest are the last rows. *)
Newest(table, limit) == {i \in DOMAIN table : i > Len(table) - limit}

(* unbans(): the addresses with a verdict to unblock that no one has acted on. *)
Unbans_Again(table) ==
  {table[i].src_ip : i \in {j \in DOMAIN table : table[j].verdict = "unblock"}}
Unbans(table) ==
  {table[i].src_ip : i \in {j \in DOMAIN table :
     table[j].verdict = "unblock" /\ ~table[j].unbanned_processed}}

(* unbanned(): UPDATE ... SET unbanned_processed = 1 WHERE src_ip = ?.  It marks
   every row of the address, whatever its verdict. *)
Unbanned_Newest(table, ip) ==
  [i \in DOMAIN table |->
     IF table[i].src_ip = ip /\ \A j \in DOMAIN table : table[j].src_ip = ip => j <= i
     THEN [table[i] EXCEPT !.unbanned_processed = TRUE]
     ELSE table[i]]
Unbanned(table, ip) ==
  [i \in DOMAIN table |->
     IF table[i].src_ip = ip
     THEN [table[i] EXCEPT !.unbanned_processed = TRUE]
     ELSE table[i]]
-------------------------------------------------------------------------------
(* Two alerts of one address within audit()'s window of each other: the verdict
   on one overwrites the verdict on the other. *)
Twins(table, i, j) ==
  i # j /\ table[i].src_ip = table[j].src_ip /\ Near(table[i].timestamp, table[j].timestamp)

(* The address has a verdict to unblock that no one has acted on, or had one
   that the verdict on a twin has overwritten. *)
Requested(table, ip) ==
  \E i \in DOMAIN table :
    /\ table[i].src_ip = ip /\ ~table[i].unbanned_processed
    /\ table[i].verdict = "unblock" \/ \E j \in DOMAIN table : Twins(table, i, j)
===============================================================================
