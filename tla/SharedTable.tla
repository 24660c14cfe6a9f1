------------------------------ MODULE SharedTable ------------------------------
(***************************************************************************)
(* What the two processes do to the table `alerts` they share, seen from   *)
(* the table: the abstract specification that Enforcer and Auditor each    *)
(* implement, and on which each relies for what the other does.            *)
(*                                                                         *)
(* No lock and no transaction spans more than one statement, so nothing    *)
(* but the code of the callers keeps the processes to these three steps.   *)
(***************************************************************************)
EXTENDS AlertStore

VARIABLE table

Init == table = <<>>

(* Alerts are appended undecided and in order of time: the last rows are the
   newest ones, which is how the queries with a LIMIT find them. *)
Recorded ==
  /\ Len(table') = Len(table) + 1
  /\ \A i \in DOMAIN table : table'[i] = table[i]
  /\ LET new == table'[Len(table) + 1]
     IN  /\ new \in Alert
         /\ new = NewAlert(new.src_ip, new.timestamp, new.ttl_secs)
         /\ \A i \in DOMAIN table : table[i].timestamp <= new.timestamp

(* A verdict goes to an alert that has none, and otherwise to alerts of the same
   address and the same moment only. *)
Decided ==
  \E i \in DOMAIN table, v \in Verdicts, rows \in SUBSET DOMAIN table :
    /\ table[i].verdict = "none" /\ i \in rows
    /\ \A j \in rows \ {i} : Twins(table, i, j)
    /\ table' = SetVerdict(table, rows, v)

(* The requests of an address are consumed only while there is one. *)
Consumed ==
  \E ip \in IPs : Requested(table, ip) /\ table' = Unbanned(table, ip)

Next == Recorded \/ Decided \/ Consumed

Spec == Init /\ [][Next]_table
===============================================================================
