---------------------------- MODULE EnforcerProofs ----------------------------
(***************************************************************************)
(* Proofs about Enforcer, for every set of addresses, every table of ban   *)
(* durations and every interleaving of the two threads with the dashboard, *)
(* with storage faults and restarts.                                       *)
(***************************************************************************)
EXTENDS Enforcer, AlertStoreProofs, FiniteSetTheorems

-------------------------------------------------------------------------------
(* Type correctness *)

(* TypeOK is not inductive: a stored alert has an address because block_ip
   handles one whenever it is not idle. *)
TypeInv == TypeOK /\ (gpc # "idle" => gip \in IPs)

LEMMA TermIsNat == \A count \in Nat \ {0} : Ttl(count) \in Terms
<1>1. Len(BAN_TTL) \in Nat /\ DOMAIN BAN_TTL = 1..Len(BAN_TTL)
  BY TtlAssumption, LenProperties
<1> QED BY <1>1, TtlAssumption DEF Ttl, Terms

LEMMA TermsAreNat == Terms \subseteq Nat
  BY TtlAssumption, LenProperties, ElementOfSeq DEF Terms

LEMMA TypeInit == Init => TypeInv
<1> SUFFICES ASSUME Init PROVE TypeInv
  OBVIOUS
<1>1. alerts \in Seq(Alert)
  BY EmptySeq DEF Init
<1> QED BY <1>1 DEF Init, TypeInv, TypeOK, NoBans, OptionalIP

LEMMA TypeGate ==
  ASSUME TypeInv, Gatekeeper PROVE TypeInv'
<1> USE DEF TypeInv, TypeOK, OptionalIP, vars, bans, gate, manager, round
<1>1. ASSUME NEW ip \in IPs, GFlow(ip) PROVE TypeInv'
  BY <1>1 DEF GFlow
<1>2. CASE GBlocked
  BY <1>2 DEF GBlocked
<1>3. CASE GOffense
  <2>1. gip \in IPs /\ NextCount(gip) \in Nat \ {0}
    BY <1>3 DEF GOffense, NextCount
  <2>2. offense_counts' \in [IPs -> Nat]
    BY <1>3, <2>1 DEF GOffense
  <2>3. offense_history' \in [IPs -> Nat]
    <3> DEFINE others == {j \in IPs \ {gip} : Remembered(j)}
               oldest == {j \in others : \A k \in others : offense_history[j] <= offense_history[k]}
               kept == [offense_history EXCEPT ![gip] = clock]
               dropped(j) == [offense_history EXCEPT ![gip] = clock, ![j] = 0]
    <3>1. kept \in [IPs -> Nat] /\ \A j \in IPs : dropped(j) \in [IPs -> Nat]
      BY <2>1
    <3>2. HistoryAfter(gip) =
            IF Cardinality(others) < HistoryCapacity
            THEN {kept} ELSE {dropped(j) : j \in oldest}
      BY Zenon DEF HistoryAfter
    <3>3. oldest \subseteq IPs
      OBVIOUS
    <3> HIDE DEF others, oldest, kept, dropped
    <3>4. {kept} \subseteq [IPs -> Nat] /\ {dropped(j) : j \in oldest} \subseteq [IPs -> Nat]
      BY <3>1, <3>3
    <3>5. HistoryAfter(gip) \subseteq [IPs -> Nat]
      BY <3>2, <3>4
    <3> QED BY <1>3, <3>5 DEF GOffense
  <2>4. gttl' \in Terms \cup {0}
    BY <1>3, <2>1, TermIsNat DEF GOffense
  <2>5. Terms' = Terms
    BY DEF Terms
  <2> QED BY <1>3, <2>1, <2>2, <2>3, <2>4, <2>5 DEF GOffense
<1>4. CASE GInsert
  <2>1. blacklist' \subseteq IPs
    BY <1>4 DEF GInsert, MapAfter
  <2> QED BY <1>4, <2>1 DEF GInsert
<1>5. CASE GInsertFails
  BY <1>5 DEF GInsertFails
<1>6. CASE GRegister
  BY <1>6, TermsAreNat DEF GRegister
<1>7. CASE GRecord
  <2>1. NewAlert(gip, gnow, gttl) \in Alert
    BY <1>7, TermsAreNat DEF GRecord, GDone, NewAlert, Alert
  <2>2. alerts' \in Seq(Alert)
    BY <1>7, <2>1 DEF GRecord, Insert
  <2> QED BY <1>7, <2>2 DEF GRecord, GDone
<1>8. CASE GRecordFails
  BY <1>8 DEF GRecordFails, GDone
<1> QED BY <1>1, <1>2, <1>3, <1>4, <1>5, <1>6, <1>7, <1>8 DEF Gatekeeper

LEMMA TypeManager ==
  ASSUME TypeInv, Manager PROVE TypeInv'
<1> USE DEF TypeInv, TypeOK, OptionalIP, vars, bans, gate, manager, round
<1>1. CASE MWake
  BY <1>1 DEF MWake
<1>2. CASE MRead
  <2>1. \A i \in DOMAIN alerts : alerts[i].src_ip \in IPs
    BY AlertAddress
  <2>2. Unbans(alerts) \subseteq IPs
    BY <2>1 DEF Unbans
  <2>3. items' \subseteq IPs
    BY <1>2, <2>2 DEF MRead
  <2> QED BY <1>2, <2>3 DEF MRead
<1>3. CASE MSplit
  BY <1>3 DEF MSplit
<1>4. ASSUME NEW ip \in IPs, MDelete(ip) \/ MDeleteFails(ip) PROVE TypeInv'
  BY <1>4 DEF MDelete, MDeleteFails
<1>5. CASE MPop
  BY <1>5 DEF MPop
<1>6. CASE MMark
  BY <1>6, UnbannedType DEF MMark
<1>7. ASSUME NEW ip \in IPs, MMarkStale(ip) PROVE TypeInv'
  BY <1>7, UnbannedType DEF MMarkStale
<1>8. CASE MExpired
  BY <1>8 DEF MExpired, Over
<1>9. CASE MReadFails \/ MMarkFails \/ MDone
  BY <1>9 DEF MReadFails, MMarkFails, MDone, EndRound
<1> QED BY <1>1, <1>2, <1>3, <1>4, <1>5, <1>6, <1>7, <1>8, <1>9 DEF Manager

LEMMA TypeNext ==
  ASSUME TypeInv, [Next]_vars PROVE TypeInv'
<1> USE DEF TypeInv, TypeOK, OptionalIP, vars, bans, gate, manager, round
<1>1. CASE Tick
  BY <1>1 DEF Tick
<1>2. CASE Gatekeeper
  BY <1>2, TypeGate
<1>3. CASE Manager
  BY <1>3, TypeManager
<1>4. ASSUME NEW i \in DOMAIN alerts, NEW v \in AuditVerdicts, AuditAlert(i, v)
      PROVE  TypeInv'
  <2>1. alerts' \in Seq(Alert)
    BY <1>4, AuditType, AuditAssumption DEF AuditAlert
  <2> QED BY <1>4, <2>1 DEF AuditAlert
<1>5. CASE Restart
  BY <1>5 DEF Restart, NoBans
<1>6. CASE UNCHANGED vars
  BY <1>6
<1> QED BY <1>1, <1>2, <1>3, <1>4, <1>5, <1>6 DEF Next, Dashboard

(* Type correctness of Enforcer: among others every alert that block_ip records
   has an address and one of the terms of BAN_TTL. *)
THEOREM TypeCorrect == Spec => []TypeOK
<1>1. TypeInv => TypeOK
  BY DEF TypeInv
<1> QED BY <1>1, TypeInit, TypeNext, PTL DEF Spec

-------------------------------------------------------------------------------
(* The registry and the map *)

(* A map with room for every address evicts none. *)
LEMMA RoomForAll ==
  ASSUME IsFiniteSet(IPs), Cardinality(IPs) <= Capacity,
         TypeInv, NEW ip \in IPs, NEW m \in MapAfter(ip)
  PROVE  /\ blacklist \subseteq m
         /\ ip \in Loopback => m = blacklist
         /\ ip \notin Loopback => m = blacklist \cup {ip}
<1>1. CASE ip \in Loopback
  BY <1>1 DEF MapAfter
<1>2. CASE ip \notin Loopback /\ ip \in blacklist
  BY <1>2 DEF MapAfter
<1>3. CASE ip \notin Loopback /\ ip \notin blacklist
  <2>1. blacklist \in SUBSET (IPs \ {ip})
    BY <1>3 DEF TypeInv, TypeOK
  <2>2. IsFiniteSet(IPs \ {ip}) /\ Cardinality(IPs \ {ip}) = Cardinality(IPs) - 1
    BY FS_RemoveElement
  <2>3. IsFiniteSet(blacklist) /\ Cardinality(blacklist) <= Cardinality(IPs \ {ip})
    BY <2>1, <2>2, FS_Subset
  <2>4. Cardinality(IPs) \in Nat /\ Cardinality(blacklist) \in Nat
    BY <2>3, FS_CardinalityType
  <2>5. Cardinality(blacklist) < Capacity
    BY <2>2, <2>3, <2>4, CapacityAssumption
  <2> QED BY <1>3, <2>5 DEF MapAfter
<1> QED BY <1>1, <1>2, <1>3

(* RegistryEnforced is inductive together with what block_ip has reached when it
   is about to register: between its two steps under the lock only the first
   half of unban_ip can interfere. *)
EnforcedInv ==
  /\ RegistryEnforced
  /\ gpc = "register" /\ gip \notin Loopback => gip \in blacklist \/ InGap(gip)

LEMMA EnforcedInit == Init => EnforcedInv
  BY DEF Init, EnforcedInv, RegistryEnforced, NoBans

LEMMA EnforcedNext ==
  ASSUME IsFiniteSet(IPs), Cardinality(IPs) <= Capacity,
         TypeInv, EnforcedInv, [Next]_vars
  PROVE  EnforcedInv'
<1> USE DEF EnforcedInv, RegistryEnforced, InGap, LockFree,
            vars, bans, gate, manager, round
<1>0. ban_registry \in [IPs -> Nat] /\ (gpc # "idle" => gip \in IPs)
  BY DEF TypeInv, TypeOK
<1>1. CASE Tick
  BY <1>1 DEF Tick
<1>2. CASE Gatekeeper
  <2>1. ASSUME NEW ip \in IPs, GFlow(ip) PROVE EnforcedInv'
    BY <2>1 DEF GFlow
  <2>2. CASE GBlocked
    BY <2>2 DEF GBlocked
  <2>3. CASE GOffense
    BY <2>3 DEF GOffense
  <2>4. CASE GInsert
    <3>1. blacklist \subseteq blacklist' /\ (gip \notin Loopback => gip \in blacklist')
      BY <1>0, <2>4, RoomForAll DEF GInsert
    <3> QED BY <2>4, <3>1 DEF GInsert
  <2>5. CASE GInsertFails
    BY <2>5 DEF GInsertFails
  <2>6. CASE GRegister
    BY <1>0, <2>6 DEF GRegister
  <2>7. CASE GRecord \/ GRecordFails
    BY <2>7 DEF GRecord, GRecordFails, GDone
  <2> QED BY <1>2, <2>1, <2>2, <2>3, <2>4, <2>5, <2>6, <2>7 DEF Gatekeeper
<1>3. CASE Manager
  <2>1. CASE MWake \/ MRead \/ MSplit \/ MExpired
    BY <2>1 DEF MWake, MRead, MSplit, MExpired
  <2>2. ASSUME NEW ip \in IPs, MDelete(ip) \/ MDeleteFails(ip) PROVE EnforcedInv'
    BY <2>2 DEF MDelete, MDeleteFails
  <2>3. CASE MPop
    BY <1>0, <2>3 DEF MPop
  <2>4. CASE MMark
    BY <2>4 DEF MMark
  <2>5. ASSUME NEW ip \in IPs, MMarkStale(ip) PROVE EnforcedInv'
    BY <2>5 DEF MMarkStale
  <2>6. CASE MReadFails \/ MMarkFails \/ MDone
    BY <2>6 DEF MReadFails, MMarkFails, MDone, EndRound
  <2> QED BY <1>3, <2>1, <2>2, <2>3, <2>4, <2>5, <2>6 DEF Manager
<1>4. CASE Dashboard
  BY <1>4 DEF Dashboard, AuditAlert
<1>5. CASE Restart
  BY <1>5 DEF Restart, NoBans
<1>6. CASE UNCHANGED vars
  BY <1>6
<1> QED BY <1>1, <1>2, <1>3, <1>4, <1>5, <1>6 DEF Next

(* With room for every address in the map, a ban the registry knows of is always
   enforced by the data plane, but for the gap inside unban_ip. *)
THEOREM RegistryIsEnforced ==
  ASSUME IsFiniteSet(IPs), Cardinality(IPs) <= Capacity
  PROVE  Spec => []RegistryEnforced
<1>1. TypeInv /\ EnforcedInv /\ [Next]_vars => (TypeInv /\ EnforcedInv)'
  BY TypeNext, EnforcedNext
<1>2. EnforcedInv => RegistryEnforced
  BY DEF EnforcedInv
<1> QED BY <1>1, <1>2, TypeInit, EnforcedInit, PTL DEF Spec

-------------------------------------------------------------------------------
(* Requests *)

(* What a later table has kept of an earlier one, as far as the requests of an
   address go. *)
Keeps(table, later, ip) ==
  \A i \in DOMAIN table :
    /\ i \in DOMAIN later
    /\ later[i].src_ip = table[i].src_ip /\ later[i].timestamp = table[i].timestamp
    /\ table[i].src_ip = ip =>
         /\ later[i].unbanned_processed = table[i].unbanned_processed
         /\ table[i].verdict = "unblock" =>
              later[i].verdict = "unblock" \/ \E j \in DOMAIN table : Twins(table, i, j)

LEMMA RequestKept ==
  ASSUME NEW table, NEW later, NEW ip, Keeps(table, later, ip), Requested(table, ip)
  PROVE  Requested(later, ip)
<1>1. \A i \in DOMAIN table, j \in DOMAIN table : Twins(table, i, j) => Twins(later, i, j)
  BY DEF Keeps, Twins
<1>2. PICK i \in DOMAIN table :
        /\ table[i].src_ip = ip /\ ~table[i].unbanned_processed
        /\ table[i].verdict = "unblock" \/ \E j \in DOMAIN table : Twins(table, i, j)
  BY DEF Requested
<1>3. /\ i \in DOMAIN later
      /\ later[i].src_ip = ip /\ ~later[i].unbanned_processed
  BY <1>2 DEF Keeps
<1>4. later[i].verdict = "unblock" \/ \E j \in DOMAIN later : Twins(later, i, j)
  BY <1>1, <1>2 DEF Keeps
<1> QED BY <1>3, <1>4 DEF Requested

LEMMA InsertKeeps ==
  ASSUME NEW table \in Seq(Alert), NEW alert \in Alert, NEW ip
  PROVE  Keeps(table, Insert(table, alert), ip)
  BY DEF Keeps, Insert

(* Consuming the requests of one address leaves those of the others. *)
LEMMA UnbannedKeeps ==
  ASSUME NEW table \in Seq(Alert), NEW other, NEW ip, ip # other
  PROVE  Keeps(table, Unbanned(table, other), ip)
<1>1. \A i \in DOMAIN table : table[i] \in Alert
  BY AlertAddress
<1> QED BY <1>1 DEF Keeps, Unbanned, Alert

LEMMA AuditKeeps ==
  ASSUME NEW table \in Seq(Alert), NEW i \in DOMAIN table, NEW v, NEW ip,
         table[i].timestamp > 0, table[i].verdict = "none"
  PROVE  Keeps(table, Audit(table, table[i].src_ip, table[i].timestamp, v), ip)
<1> DEFINE rows == AuditedRows(table, table[i].src_ip, table[i].timestamp)
<1>1. \A j \in DOMAIN table : table[j] \in Alert
  BY AlertAddress
<1>2. \A j \in rows \ {i} : Twins(table, j, i)
  BY AuditedAreTwins
<1> HIDE DEF rows
<1>3. Keeps(table, SetVerdict(table, rows, v), ip)
  BY <1>1, <1>2 DEF Keeps, SetVerdict, Alert
<1> QED BY <1>3 DEF Audit, rows

(* What the lists of a round rest on: every address of the first three has a
   request still to be consumed, and no address is on two of them.  Alerts carry
   a time that has been, and the one block_ip is about to record is the newest. *)
RequestInv ==
  /\ \A ip \in items \cup need_unban \cup stale : Requested(alerts, ip)
  /\ need_unban \cap stale = {}
  /\ items # {} => mpc = "split"
  /\ mpc \in {"sleep", "read", "split"} => need_unban = {} /\ stale = {}
  /\ mpc = "mark" => mip \in need_unban
  /\ clock > 0
  /\ gpc \in {"insert", "register", "record"} => gnow > 0 /\ gnow <= clock
  /\ \A i \in DOMAIN alerts :
       /\ alerts[i].timestamp > 0 /\ alerts[i].timestamp <= clock
       /\ gpc \in {"insert", "register", "record"} => alerts[i].timestamp <= gnow

LEMMA RequestInit == Init => RequestInv
  BY DEF Init, RequestInv

(* What block_ip is about to record. *)
LEMMA RecordedAlert ==
  ASSUME TypeInv, gpc # "idle" PROVE NewAlert(gip, gnow, gttl) \in Alert
<1>1. gip \in IPs /\ gnow \in Nat /\ gttl \in Nat
  BY TermsAreNat DEF TypeInv, TypeOK
<1> QED BY <1>1 DEF NewAlert, Alert

LEMMA RequestGate ==
  ASSUME TypeInv, RequestInv, Gatekeeper PROVE RequestInv'
<1> USE DEF RequestInv, vars, bans, gate, manager, round
<1>0. /\ alerts \in Seq(Alert) /\ clock \in Nat /\ gnow \in Nat /\ (gpc # "idle" => gip \in IPs)
      /\ \A i \in DOMAIN alerts : alerts[i].timestamp \in Nat
  BY TableNumbers DEF TypeInv, TypeOK
<1>1. ASSUME NEW ip \in IPs, GFlow(ip) PROVE RequestInv'
  BY <1>1 DEF GFlow
<1>2. CASE GBlocked
  BY <1>2 DEF GBlocked
<1>3. CASE GOffense
  BY <1>0, <1>3 DEF GOffense
<1>4. CASE GInsert
  BY <1>4 DEF GInsert
<1>5. CASE GInsertFails
  BY <1>5 DEF GInsertFails
<1>6. CASE GRegister
  BY <1>6 DEF GRegister
<1>7. CASE GRecord
  <2> DEFINE new == NewAlert(gip, gnow, gttl)
  <2>1. new \in Alert
    BY <1>7, RecordedAlert DEF GRecord, GDone
  <2>2. new.timestamp = gnow
    BY DEF NewAlert
  <2> HIDE DEF new
  <2>3. alerts' = Append(alerts, new)
    BY <1>7 DEF GRecord, Insert, new
  <2>4. \A ip : Keeps(alerts, alerts', ip)
    BY <1>0, <2>1, <2>3, InsertKeeps DEF Insert
  <2>5. \A ip \in items \cup need_unban \cup stale : Requested(alerts', ip)
    BY <2>4, RequestKept
  <2>6. \A i \in DOMAIN alerts' : alerts'[i].timestamp > 0 /\ alerts'[i].timestamp <= clock
    BY <1>0, <1>7, <2>1, <2>2, <2>3 DEF GRecord, GDone
  <2> QED BY <1>7, <2>5, <2>6 DEF GRecord, GDone
<1>8. CASE GRecordFails
  BY <1>8 DEF GRecordFails, GDone
<1> QED BY <1>1, <1>2, <1>3, <1>4, <1>5, <1>6, <1>7, <1>8 DEF Gatekeeper

LEMMA RequestManager ==
  ASSUME TypeInv, RequestInv, Manager PROVE RequestInv'
<1> USE DEF RequestInv, vars, bans, gate, manager, round
<1>0. alerts \in Seq(Alert) /\ clock \in Nat
  BY DEF TypeInv, TypeOK
<1>1. CASE MWake
  BY <1>1 DEF MWake
<1>2. CASE MRead
  <2>1. \A ip \in items' : Requested(alerts, ip)
    BY <1>2 DEF MRead, Unbans, Requested
  <2> QED BY <1>2, <2>1 DEF MRead
<1>3. CASE MSplit
  BY <1>3 DEF MSplit
<1>4. ASSUME NEW ip \in IPs, MDelete(ip) \/ MDeleteFails(ip) PROVE RequestInv'
  BY <1>4 DEF MDelete, MDeleteFails
<1>5. CASE MPop
  BY <1>5 DEF MPop
<1>6. CASE MMark
  <2>1. \A ip \in (items \cup need_unban \cup stale) \ {mip} : Requested(alerts', ip)
    BY <1>0, <1>6, UnbannedKeeps, RequestKept DEF MMark
  <2>2. mip \notin items' \cup need_unban' \cup stale'
    BY <1>6 DEF MMark
  <2> QED BY <1>0, <1>6, <2>1, <2>2, UnbannedKeepsRows DEF MMark
<1>7. ASSUME NEW ip \in IPs, MMarkStale(ip) PROVE RequestInv'
  <2>1. \A j \in (items \cup need_unban \cup stale) \ {ip} : Requested(alerts', j)
    BY <1>0, <1>7, UnbannedKeeps, RequestKept DEF MMarkStale
  <2>2. ip \notin items' \cup need_unban' \cup stale'
    BY <1>7 DEF MMarkStale
  <2> QED BY <1>0, <1>7, <2>1, <2>2, UnbannedKeepsRows DEF MMarkStale
<1>8. CASE MExpired
  BY <1>8 DEF MExpired
<1>9. CASE MReadFails \/ MMarkFails \/ MDone
  BY <1>9 DEF MReadFails, MMarkFails, MDone, EndRound
<1> QED BY <1>1, <1>2, <1>3, <1>4, <1>5, <1>6, <1>7, <1>8, <1>9 DEF Manager

LEMMA RequestNext ==
  ASSUME TypeInv, RequestInv, [Next]_vars PROVE RequestInv'
<1> USE DEF RequestInv, vars, bans, gate, manager, round
<1>0. /\ alerts \in Seq(Alert) /\ clock \in Nat
      /\ \A i \in DOMAIN alerts : alerts[i].timestamp \in Nat
  BY TableNumbers DEF TypeInv, TypeOK
<1>1. CASE Tick
  BY <1>0, <1>1 DEF Tick, TypeInv, TypeOK
<1>2. CASE Gatekeeper
  BY <1>2, RequestGate
<1>3. CASE Manager
  BY <1>3, RequestManager
<1>4. CASE Dashboard
  <2>1. PICK i \in DOMAIN alerts, v \in AuditVerdicts : AuditAlert(i, v)
    BY <1>4 DEF Dashboard
  <2>2. \A ip : Keeps(alerts, alerts', ip)
    BY <1>0, <2>1, AuditKeeps DEF AuditAlert
  <2>3. \A ip \in items \cup need_unban \cup stale : Requested(alerts', ip)
    BY <2>2, RequestKept
  <2>4. DOMAIN alerts' = DOMAIN alerts
    BY <2>1 DEF AuditAlert, Audit, SetVerdict
  <2>5. \A j \in DOMAIN alerts : alerts'[j].timestamp = alerts[j].timestamp
    BY <2>2 DEF Keeps
  <2> QED BY <2>1, <2>3, <2>4, <2>5 DEF AuditAlert
<1>5. CASE Restart
  BY <1>0, <1>5 DEF Restart
<1>6. CASE UNCHANGED vars
  BY <1>6
<1> QED BY <1>1, <1>2, <1>3, <1>4, <1>5, <1>6 DEF Next

-------------------------------------------------------------------------------
(* The contract of the table *)

(* SharedTable speaks of the same statements of the storage. *)
LEMMA SharedStatements ==
  /\ Shared!Verdicts = Verdicts /\ Shared!Alert = Alert
  /\ \A ip, ts, ttl : Shared!NewAlert(ip, ts, ttl) = NewAlert(ip, ts, ttl)
  /\ \A table, rows, v : Shared!SetVerdict(table, rows, v) = SetVerdict(table, rows, v)
  /\ \A table, ip : Shared!Unbanned(table, ip) = Unbanned(table, ip)
  /\ \A table, i, j : Shared!Twins(table, i, j) <=> Twins(table, i, j)
  /\ \A table, ip : Shared!Requested(table, ip) <=> Requested(table, ip)
<1>1. \A ts1, ts2 : Shared!Near(ts1, ts2) <=> Near(ts1, ts2)
  BY DEF Shared!Near, Near
<1>2. \A table, i, j : Shared!Twins(table, i, j) <=> Twins(table, i, j)
  BY <1>1 DEF Shared!Twins, Twins
<1>3. \A table, ip : Shared!Requested(table, ip) <=> Requested(table, ip)
  BY <1>2 DEF Shared!Requested, Requested
<1>4. Shared!Verdicts = Verdicts
  BY DEF Shared!Verdicts, Verdicts
<1>5. Shared!Alert = Alert
  BY <1>4 DEF Shared!Alert, Alert
<1>6. \A ip, ts, ttl : Shared!NewAlert(ip, ts, ttl) = NewAlert(ip, ts, ttl)
  BY DEF Shared!NewAlert, NewAlert
<1>7. \A table, rows, v : Shared!SetVerdict(table, rows, v) = SetVerdict(table, rows, v)
  BY DEF Shared!SetVerdict, SetVerdict
<1>8. \A table, ip : Shared!Unbanned(table, ip) = Unbanned(table, ip)
  BY DEF Shared!Unbanned, Unbanned
<1> QED BY <1>2, <1>3, <1>4, <1>5, <1>6, <1>7, <1>8

LEMMA ContractInit == Init => Shared!Init
  BY DEF Init, Shared!Init

(* Of the steps of the gatekeeper process only two write the table, and the
   dashboard's verdicts are the third kind of write. *)
LEMMA ContractStep ==
  ASSUME TypeInv, RequestInv, [Next]_vars
  PROVE  [Shared!Next]_alerts
<1> USE DEF vars, bans, gate, manager, round
<1>0. alerts \in Seq(Alert) /\ (gpc # "idle" => gip \in IPs) /\ mip \in OptionalIP
  BY DEF TypeInv, TypeOK
<1>1. CASE GRecord
  <2> DEFINE new == NewAlert(gip, gnow, gttl)
  <2>1. new \in Alert
    BY <1>1, RecordedAlert DEF GRecord, GDone
  <2>2. new = NewAlert(new.src_ip, new.timestamp, new.ttl_secs) /\ new.timestamp = gnow
    BY DEF NewAlert
  <2>3. \A i \in DOMAIN alerts : alerts[i].timestamp <= new.timestamp
    BY <1>1, <2>2 DEF GRecord, GDone, RequestInv
  <2> HIDE DEF new
  <2>4. alerts' = Append(alerts, new)
    BY <1>1 DEF GRecord, Insert, new
  <2>5. /\ Len(alerts') = Len(alerts) + 1
        /\ \A i \in DOMAIN alerts : alerts'[i] = alerts[i]
        /\ alerts'[Len(alerts) + 1] = new
    BY <1>0, <2>1, <2>4
  <2> QED BY <2>1, <2>2, <2>3, <2>5, SharedStatements DEF Shared!Next, Shared!Recorded
<1>2. CASE MMark
  <2>1. Requested(alerts, mip)
    BY <1>2 DEF MMark, RequestInv
  <2>2. mip \in IPs
    BY <1>2 DEF MMark, RequestInv, TypeInv, TypeOK
  <2> QED BY <1>2, <2>1, <2>2, SharedStatements DEF MMark, Shared!Next, Shared!Consumed
<1>3. ASSUME NEW ip \in IPs, MMarkStale(ip) PROVE Shared!Next
  <2>1. Requested(alerts, ip)
    BY <1>3 DEF MMarkStale, RequestInv
  <2> QED BY <1>3, <2>1, SharedStatements DEF MMarkStale, Shared!Next, Shared!Consumed
<1>4. ASSUME NEW i \in DOMAIN alerts, NEW v \in AuditVerdicts, AuditAlert(i, v)
      PROVE  Shared!Next
  <2> DEFINE rows == AuditedRows(alerts, alerts[i].src_ip, alerts[i].timestamp)
  <2>1. alerts[i].verdict = "none" /\ alerts' = SetVerdict(alerts, rows, v)
    BY <1>4 DEF AuditAlert, Audit
  <2>2. /\ rows \in SUBSET DOMAIN alerts /\ i \in rows
        /\ \A j \in rows \ {i} : Twins(alerts, i, j)
    BY <1>0, AuditedAreTwins DEF RequestInv
  <2>3. v \in Verdicts
    BY AuditAssumption
  <2> HIDE DEF rows
  <2> QED BY <2>1, <2>2, <2>3, SharedStatements DEF Shared!Next, Shared!Decided
<1>5. CASE Gatekeeper /\ ~GRecord
  BY <1>5 DEF Gatekeeper, GFlow, GBlocked, GOffense, GInsert, GInsertFails, GRegister,
              GRecordFails
<1>6. CASE Manager /\ ~MMark /\ ~ \E ip \in IPs : MMarkStale(ip)
  BY <1>6 DEF Manager, MWake, MRead, MReadFails, MSplit, MDelete, MDeleteFails, MPop,
              MMarkFails, MExpired, MDone, EndRound
<1>7. CASE Tick \/ Restart \/ UNCHANGED vars
  BY <1>7 DEF Tick, Restart
<1> QED BY <1>1, <1>2, <1>3, <1>4, <1>5, <1>6, <1>7 DEF Next, Dashboard

(* The gatekeeper process, with the dashboard's verdicts coming in at any time,
   implements SharedTable: for any number of addresses, alerts, restarts and
   storage faults. *)
THEOREM EnforcerImplementsTable == Spec => TableContract
<1>1. TypeInv /\ RequestInv /\ [Next]_vars => (TypeInv /\ RequestInv)'
  BY TypeNext, RequestNext
<1>2. TypeInv /\ RequestInv /\ [Next]_vars => [Shared!Next]_alerts
  BY ContractStep
<1>3. Spec => Shared!Init /\ [][Shared!Next]_alerts
  BY <1>1, <1>2, TypeInit, RequestInit, ContractInit, PTL DEF Spec
<1> QED BY <1>3 DEF TableContract, Shared!Spec

-------------------------------------------------------------------------------
(* No ban is lifted early *)

(* What justifies the last list of a round: the term of an expired address was
   over at the start of the round and is still the one registered, for block_ip
   cannot renew it before the manager has deleted it. *)
LiftInv ==
  /\ blacklist \cap Loopback = {}
  /\ mnow <= clock
  /\ expired # {} => need_unban = {} /\ mpc \in {"expire", "pop"}
  /\ \A ip \in expired \ Loopback :
       \/ InGap(ip)
       \/ /\ ban_registry[ip] # 0 /\ ban_registry[ip] <= mnow
          /\ ~(gpc \in {"insert", "register"} /\ gip = ip)

LEMMA LiftInit == Init => LiftInv
  BY DEF Init, LiftInv

LEMMA LiftGate ==
  ASSUME IsFiniteSet(IPs), Cardinality(IPs) <= Capacity, "map_lookup" \notin Faults,
         TypeInv, EnforcedInv, LiftInv, Gatekeeper
  PROVE  LiftInv' /\ blacklist \subseteq blacklist'
<1> USE DEF LiftInv, InGap, vars, bans, gate, manager, round
<1>0. /\ ban_registry \in [IPs -> Nat] /\ (gpc # "idle" => gip \in IPs)
      /\ expired \subseteq IPs /\ alerts \in Seq(Alert)
      /\ clock \in Nat /\ mnow \in Nat
  BY DEF TypeInv, TypeOK
<1> DEFINE Goal == LiftInv' /\ blacklist \subseteq blacklist'
<1>1. ASSUME NEW ip \in IPs, GFlow(ip) PROVE Goal
  BY <1>1 DEF GFlow
<1>2. CASE GBlocked
  BY <1>2 DEF GBlocked
<1>3. CASE GOffense
  BY <1>0, <1>3 DEF GOffense, MayPass, EnforcedInv, RegistryEnforced
<1>4. CASE GInsert
  <2>1. blacklist \subseteq blacklist' /\ blacklist' \cap Loopback = {}
    BY <1>0, <1>4, RoomForAll DEF GInsert
  <2> QED BY <1>4, <2>1 DEF GInsert
<1>5. CASE GInsertFails
  BY <1>5 DEF GInsertFails
<1>6. CASE GRegister
  BY <1>0, <1>6 DEF GRegister
<1>7. CASE GRecord
  BY <1>7 DEF GRecord, GDone
<1>8. CASE GRecordFails
  BY <1>8 DEF GRecordFails, GDone
<1> QED BY <1>1, <1>2, <1>3, <1>4, <1>5, <1>6, <1>7, <1>8 DEF Gatekeeper

LEMMA LiftManager ==
  ASSUME TypeInv, EnforcedInv, LiftInv, Manager
  PROVE  LiftInv'
<1> USE DEF LiftInv, InGap, LockFree, vars, bans, gate, manager, round
<1>0. /\ ban_registry \in [IPs -> Nat] /\ alerts \in Seq(Alert)
      /\ clock \in Nat /\ mnow \in Nat /\ expired \subseteq IPs
  BY DEF TypeInv, TypeOK
<1>1. CASE MWake
  BY <1>0, <1>1 DEF MWake
<1>2. CASE MRead
  BY <1>2 DEF MRead
<1>3. CASE MSplit
  BY <1>3 DEF MSplit
<1>4. ASSUME NEW ip \in IPs, MDelete(ip) \/ MDeleteFails(ip) PROVE LiftInv'
  BY <1>4 DEF MDelete, MDeleteFails
<1>5. CASE MPop
  BY <1>0, <1>5 DEF MPop
<1>6. CASE MMark
  BY <1>6 DEF MMark
<1>7. ASSUME NEW ip \in IPs, MMarkStale(ip) PROVE LiftInv'
  BY <1>7 DEF MMarkStale
<1>8. CASE MExpired
  BY <1>0, <1>8 DEF MExpired, Over
<1>9. CASE MReadFails \/ MMarkFails \/ MDone
  BY <1>0, <1>9 DEF MReadFails, MMarkFails, MDone, EndRound
<1> QED BY <1>1, <1>2, <1>3, <1>4, <1>5, <1>6, <1>7, <1>8, <1>9 DEF Manager

LEMMA LiftNext ==
  ASSUME IsFiniteSet(IPs), Cardinality(IPs) <= Capacity, "map_lookup" \notin Faults,
         TypeInv, EnforcedInv, LiftInv, [Next]_vars
  PROVE  LiftInv'
<1> USE DEF LiftInv, InGap, vars, bans, gate, manager, round
<1>1. CASE Tick
  BY <1>1 DEF Tick, TypeInv, TypeOK
<1>2. CASE Gatekeeper
  BY <1>2, LiftGate
<1>3. CASE Manager
  BY <1>3, LiftManager
<1>4. CASE Dashboard
  BY <1>4 DEF Dashboard, AuditAlert
<1>5. CASE Restart
  BY <1>5 DEF Restart, TypeInv, TypeOK
<1>6. CASE UNCHANGED vars
  BY <1>6
<1> QED BY <1>1, <1>2, <1>3, <1>4, <1>5, <1>6 DEF Next

(* What leaves the map of a running process is on a list of the manager: its term
   is over, or it was in answer to a request. *)
LEMMA LiftOrigin ==
  ASSUME IsFiniteSet(IPs), Cardinality(IPs) <= Capacity, "map_lookup" \notin Faults,
         TypeInv, EnforcedInv, LiftInv, [Next]_vars, restarts' = restarts
  PROVE  \A ip \in blacklist \ blacklist' :
           \/ ban_registry[ip] # 0 /\ ban_registry[ip] <= clock
           \/ ip \in need_unban
<1> USE DEF vars, bans, gate, manager, round
<1> DEFINE Origin == \A ip \in blacklist \ blacklist' :
                       \/ ban_registry[ip] # 0 /\ ban_registry[ip] <= clock
                       \/ ip \in need_unban
<1>1. CASE Gatekeeper
  BY <1>1, LiftGate
<1>2. ASSUME NEW ip \in IPs, MDelete(ip) PROVE Origin
  <2>1. /\ ban_registry \in [IPs -> Nat] /\ clock \in Nat /\ mnow \in Nat
        /\ blacklist \subseteq IPs
    BY DEF TypeInv, TypeOK
  <2>2. blacklist \ blacklist' \subseteq {ip}
    BY <1>2 DEF MDelete
  <2>3. CASE mpc = "lift" /\ ip \in need_unban
    BY <2>2, <2>3
  <2>4. CASE mpc = "expire" /\ ip \in expired
    BY <2>1, <2>2, <2>4 DEF LiftInv, InGap
  <2> QED BY <1>2, <2>3, <2>4 DEF MDelete
<1>3. CASE Manager /\ ~ \E ip \in IPs : MDelete(ip)
  BY <1>3 DEF Manager, MWake, MRead, MReadFails, MSplit, MDeleteFails, MPop, MMark,
              MMarkFails, MMarkStale, MExpired, MDone, EndRound
<1>4. CASE Restart
  BY <1>4 DEF Restart, TypeInv, TypeOK
<1>5. CASE Tick \/ Dashboard \/ UNCHANGED vars
  BY <1>5 DEF Tick, Dashboard, AuditAlert
<1> QED BY <1>1, <1>2, <1>3, <1>4, <1>5 DEF Next

LEMMA LiftStep ==
  ASSUME IsFiniteSet(IPs), Cardinality(IPs) <= Capacity, "map_lookup" \notin Faults,
         TypeInv, EnforcedInv, LiftInv, RequestInv, [Next]_vars, restarts' = restarts
  PROVE  LiftJustified
  BY LiftOrigin DEF LiftJustified, RequestInv

(* However old the lists of a round are when they are worked off, and whatever
   verdicts come in meanwhile, no ban is lifted before its term but on a request
   of its address that is still open.  The map has room for every address, and its
   look-ups do not fail: one that did would renew the ban of a listed address. *)
THEOREM NoBanLiftedEarly ==
  ASSUME IsFiniteSet(IPs), Cardinality(IPs) <= Capacity, "map_lookup" \notin Faults
  PROVE  Spec => NoEarlyLift
<1> DEFINE Inv == TypeInv /\ EnforcedInv /\ LiftInv /\ RequestInv
<1>1. Init => Inv
  BY TypeInit, EnforcedInit, LiftInit, RequestInit
<1>2. Inv /\ [Next]_vars => Inv'
  BY TypeNext, EnforcedNext, LiftNext, RequestNext
<1>3. Inv /\ [Next]_vars => [restarts' = restarts => LiftJustified]_vars
  BY LiftStep
<1> HIDE DEF Inv
<1>4. Spec => [][restarts' = restarts => LiftJustified]_vars
  BY <1>1, <1>2, <1>3, PTL DEF Spec
<1> QED BY <1>4 DEF NoEarlyLift

-------------------------------------------------------------------------------
(* Bans without a term *)

(* What must not come in the way of unban_ip: block_ip enters an address whose key
   has just been deleted, and whose registration is about to be popped; *)
GapUndisturbed == gpc = "insert" => ~InGap(gip)

(* or the key is not deleted at all, and unban_ip goes on. *)
DeletesSucceed == ~ \E ip \in IPs : MDeleteFails(ip)

(* What unban_ip has deleted stays deleted until the registration is gone. *)
TermInv == NoOrphanBan /\ \A ip \in IPs : InGap(ip) => ip \notin blacklist

LEMMA TermInit == Init => TermInv
  BY DEF Init, TermInv, NoOrphanBan, InGap

(* A map, full or not, gets no key but the one of the update. *)
LEMMA MapGains == \A ip, m : m \in MapAfter(ip) => m \subseteq blacklist \cup {ip}
  BY DEF MapAfter

LEMMA TermNext ==
  ASSUME TypeInv, RequestInv, TermInv, GapUndisturbed, [DeletesSucceed]_vars, [Next]_vars
  PROVE  TermInv'
<1> USE DEF TermInv, NoOrphanBan, InGap, LockFree, vars, bans, gate, manager, round
<1>0. /\ ban_registry \in [IPs -> Nat] /\ blacklist \subseteq IPs
      /\ gpc # "idle" => gip \in IPs
  BY DEF TypeInv, TypeOK
<1>1. ASSUME NEW ip \in IPs, GFlow(ip) PROVE TermInv'
  BY <1>1 DEF GFlow
<1>2. CASE GBlocked \/ GOffense \/ GInsertFails \/ GRecord \/ GRecordFails
  BY <1>2 DEF GBlocked, GOffense, GInsertFails, GRecord, GRecordFails, GDone
<1>3. CASE GInsert
  <2>1. blacklist' \subseteq blacklist \cup {gip}
    BY <1>3, MapGains DEF GInsert
  <2> QED BY <1>3, <2>1 DEF GInsert, GapUndisturbed
<1>4. CASE GRegister
  <2>1. gnow + gttl # 0
    BY <1>4, TermsAreNat DEF GRegister, RequestInv, TypeInv, TypeOK
  <2> QED BY <1>0, <1>4, <2>1 DEF GRegister
<1>5. ASSUME NEW ip \in IPs, MDelete(ip) PROVE TermInv'
  BY <1>5 DEF MDelete
<1>6. CASE MPop
  BY <1>0, <1>6 DEF MPop
<1>7. CASE Manager /\ ~MPop /\ ~ \E ip \in IPs : MDelete(ip) \/ MDeleteFails(ip)
  BY <1>7 DEF Manager, MWake, MRead, MReadFails, MSplit, MMark, MMarkFails, MMarkStale,
              MExpired, MDone, EndRound
<1>8. CASE Restart
  BY <1>8 DEF Restart
<1>9. CASE Tick \/ Dashboard \/ UNCHANGED vars
  BY <1>9 DEF Tick, Dashboard, AuditAlert
<1>10. ~ \E ip \in IPs : MDeleteFails(ip)
  BY DEF DeletesSucceed, MDeleteFails
<1> QED BY <1>1, <1>2, <1>3, <1>4, <1>5, <1>6, <1>7, <1>8, <1>9, <1>10
        DEF Next, Gatekeeper, Manager

(* A ban loses its term in two ways and in no other: an offence of the address is
   entered between the two halves of unban_ip (the finding that run EnforcerOrphan
   shows), or unban_ip fails to delete the key and pops the registration all the
   same.  Where neither happens, every address in the map has a term from which its
   ban will end: failing look-ups, updates and storage calls, evictions, restarts
   and late verdicts do not make an orphan. *)
THEOREM OrphansHaveTwoSources ==
  Spec /\ []GapUndisturbed /\ [][DeletesSucceed]_vars => []NoOrphanBan
<1> DEFINE Inv == TypeInv /\ RequestInv /\ TermInv
<1>1. Init => Inv
  BY TypeInit, RequestInit, TermInit
<1>2. Inv /\ GapUndisturbed /\ [DeletesSucceed]_vars /\ [Next]_vars => Inv'
  BY TypeNext, RequestNext, TermNext
<1>3. Inv => NoOrphanBan
  BY DEF TermInv
<1> HIDE DEF Inv
<1> QED BY <1>1, <1>2, <1>3, PTL DEF Spec

-------------------------------------------------------------------------------
(* Bans as one *)

(* Two things an abstract step rests on: the key block_ip is about to enter is not
   in the map, where it has looked under the lock (a look-up that fails would break
   that); and every address on a list of
   the round is still registered, since only the manager pops registrations. *)
AsOneInv ==
  /\ gpc = "insert" => gip \notin blacklist
  /\ \A ip \in need_unban \cup expired :
       ban_registry[ip] # 0 \/ (mpc = "mark" /\ mip = ip)

LEMMA AsOneInit == Init => AsOneInv
  BY DEF Init, AsOneInv

LEMMA AsOneNext ==
  ASSUME "map_lookup" \notin Faults, TypeInv, RequestInv, LiftInv, AsOneInv, [Next]_vars
  PROVE  AsOneInv'
<1> USE DEF AsOneInv, LockFree, vars, bans, gate, manager, round
<1>0. /\ ban_registry \in [IPs -> Nat] /\ need_unban \subseteq IPs /\ expired \subseteq IPs
      /\ gpc # "idle" => gip \in IPs
  BY DEF TypeInv, TypeOK
<1>1. ASSUME NEW ip \in IPs, GFlow(ip) PROVE AsOneInv'
  BY <1>1 DEF GFlow
<1>2. CASE GBlocked \/ GOffense \/ GInsert \/ GInsertFails \/ GRecord \/ GRecordFails
  BY <1>2 DEF GBlocked, GOffense, MayPass, GInsert, GInsertFails, GRecord, GRecordFails, GDone
<1>3. CASE GRegister
  <2>1. gnow + gttl # 0
    BY <1>3, TermsAreNat DEF GRegister, RequestInv, TypeInv, TypeOK
  <2> QED BY <1>0, <1>3, <2>1 DEF GRegister
<1>4. ASSUME NEW ip \in IPs, MDelete(ip) \/ MDeleteFails(ip) PROVE AsOneInv'
  BY <1>4 DEF MDelete, MDeleteFails
<1>5. CASE MPop
  <2>1. \A ip \in (need_unban \cup expired) \ {mip} : ban_registry'[ip] # 0
    BY <1>0, <1>5 DEF MPop
  <2> QED BY <1>5, <2>1 DEF MPop
<1>6. CASE MMark
  <2>1. need_unban # {} => expired = {}
    BY DEF LiftInv
  <2> QED BY <1>6, <2>1 DEF MMark, RequestInv
<1>7. ASSUME NEW ip \in IPs, MMarkStale(ip) PROVE AsOneInv'
  BY <1>7 DEF MMarkStale
<1>8. CASE MSplit \/ MExpired
  BY <1>0, <1>8 DEF MSplit, MExpired, Over, LiftInv
<1>9. CASE MWake \/ MRead \/ MReadFails \/ MMarkFails \/ MDone
  BY <1>9 DEF MWake, MRead, MReadFails, MMarkFails, MDone, EndRound
<1>10. CASE Restart
  BY <1>10 DEF Restart
<1>11. CASE Tick \/ Dashboard \/ UNCHANGED vars
  BY <1>11 DEF Tick, Dashboard, AuditAlert
<1> QED BY <1>1, <1>2, <1>3, <1>4, <1>5, <1>6, <1>7, <1>8, <1>9, <1>10, <1>11
        DEF Next, Gatekeeper, Manager

LEMMA OutsideInit == Init => Outside!Init
  BY DEF Init, Outside!Init, Banned, NoBans

(* block_ip imposes a ban when it enters the key.  In the gap of unban_ip the ban of
   a loopback address, which has no key, is given up already. *)
LEMMA InsertImposes ==
  ASSUME IsFiniteSet(IPs), Cardinality(IPs) <= Capacity,
         TypeInv, AsOneInv, GInsert
  PROVE  Outside!Imposed(gip) \/ UNCHANGED <<Banned, blacklist>>
<1>1. /\ gip \in IPs /\ gip \notin blacklist /\ gpc = "insert"
      /\ gpc' = "register" /\ gip' = gip
      /\ UNCHANGED <<ban_registry, mpc, mip>>
  BY DEF GInsert, AsOneInv, TypeInv, TypeOK, bans, manager
<1>2. blacklist' = blacklist \cup ({gip} \ Loopback)
  BY <1>1, RoomForAll DEF GInsert
<1>3. \A ip \in IPs \ {gip} : ip \in Banned' <=> ip \in Banned
  BY <1>1, <1>2 DEF Banned, InGap
<1>4. gip \in Banned' <=> (InGap(gip) => gip \in blacklist')
  BY <1>1 DEF Banned, InGap
<1>5. Banned \subseteq IPs /\ Banned' \subseteq IPs
  BY DEF Banned
<1>6. CASE InGap(gip) /\ gip \in Loopback
  <2>1. gip \notin Banned /\ gip \notin Banned'
    BY <1>1, <1>2, <1>4, <1>6 DEF Banned
  <2> QED BY <1>2, <1>3, <1>5, <1>6, <2>1
<1>7. CASE ~(InGap(gip) /\ gip \in Loopback)
  <2>1. Banned' = Banned \cup {gip}
    BY <1>1, <1>2, <1>3, <1>4, <1>5, <1>7
  <2> QED BY <1>1, <1>2, <2>1 DEF Outside!Imposed
<1> QED BY <1>6, <1>7

(* unban_ip lifts a ban when it deletes the key. *)
LEMMA DeleteLifts ==
  ASSUME TypeInv, AsOneInv, NEW ip \in IPs, MDelete(ip)
  PROVE  Outside!Lifted(ip)
<1>1. /\ mpc \in {"lift", "expire"} /\ ip \in need_unban \cup expired
      /\ blacklist' = blacklist \ {ip} /\ mpc' = "pop" /\ mip' = ip
      /\ UNCHANGED <<ban_registry, gpc, gip>>
  BY DEF MDelete, bans, gate
<1>2. ip \in Banned
  BY <1>1 DEF Banned, InGap, AsOneInv
<1>3. Banned' = Banned \ {ip}
  BY <1>1 DEF Banned, InGap
<1> QED BY <1>1, <1>2, <1>3 DEF Outside!Lifted

(* A failing deletion changes neither of the two. *)
LEMMA FailedDeleteKeeps ==
  ASSUME NEW ip \in IPs, MDeleteFails(ip)
  PROVE  UNCHANGED <<Banned, blacklist>>
<1>1. /\ mpc # "pop" /\ ip \in blacklist /\ mpc' = "pop" /\ mip' = ip
      /\ UNCHANGED <<blacklist, ban_registry, gpc, gip>>
  BY DEF MDeleteFails, bans, gate
<1> QED BY <1>1 DEF Banned, InGap

(* The second half of unban_ip changes nothing any more, unless block_ip has entered
   the key anew, or it was not deleted. *)
LEMMA PopForgets ==
  ASSUME TypeInv, MPop
  PROVE  \/ UNCHANGED <<Banned, blacklist>>
         \/ mip \in IPs \cap blacklist /\ Outside!Orphaned(mip)
<1>1. /\ mpc = "pop" /\ mpc' # "pop" /\ gpc # "register"
      /\ ban_registry \in [IPs -> Nat]
      /\ ban_registry' = [ban_registry EXCEPT ![mip] = 0]
      /\ UNCHANGED <<blacklist, gpc, gip>>
  BY DEF MPop, LockFree, TypeInv, TypeOK, gate
<1>2. Banned' = Banned \ {mip}
  BY <1>1 DEF Banned, InGap
<1>3. mip \in Banned => mip \in IPs \cap blacklist
  BY <1>1 DEF Banned, InGap
<1> QED BY <1>1, <1>2, <1>3 DEF Outside!Orphaned

LEMMA OutsideStep ==
  ASSUME IsFiniteSet(IPs), Cardinality(IPs) <= Capacity,
         TypeInv, RequestInv, AsOneInv, [Next]_vars
  PROVE  \/ [Outside!Whole]_<<Banned, blacklist>>
         \/ InGap(mip) /\ mip \in IPs \cap blacklist /\ Outside!Orphaned(mip)
<1> DEFINE Same == UNCHANGED <<Banned, blacklist>>
<1> USE DEF vars, bans, gate, manager, round
<1>1. ASSUME NEW ip \in IPs, GFlow(ip) PROVE Same
  BY <1>1 DEF GFlow, Banned, InGap
<1>2. CASE GBlocked \/ GOffense \/ GInsertFails \/ GRecord \/ GRecordFails
  BY <1>2 DEF GBlocked, GOffense, GInsertFails, GRecord, GRecordFails, GDone, Banned, InGap
<1>3. CASE GInsert
  <2>1. gip \in IPs
    BY <1>3 DEF GInsert, TypeInv
  <2> QED BY <1>3, <2>1, InsertImposes DEF Outside!Whole
<1>4. CASE GRegister
  <2>1. /\ gnow + gttl # 0 /\ gip \in IPs /\ ban_registry \in [IPs -> Nat]
    BY <1>4, TermsAreNat DEF GRegister, RequestInv, TypeInv, TypeOK
  <2>2. Same
    BY <1>4, <2>1 DEF GRegister, Banned, InGap
  <2> QED BY <2>2
<1>5. ASSUME NEW ip \in IPs, MDelete(ip) PROVE Outside!Whole
  BY <1>5, DeleteLifts DEF Outside!Whole
<1>10. ASSUME NEW ip \in IPs, MDeleteFails(ip) PROVE Same
  BY <1>10, FailedDeleteKeeps
<1>6. CASE MPop
  BY <1>6, PopForgets DEF InGap, MPop
<1>7. CASE Manager /\ ~MPop /\ ~ \E ip \in IPs : MDelete(ip) \/ MDeleteFails(ip)
  <2>1. mpc # "pop" /\ mpc' # "pop" /\ UNCHANGED <<ban_registry, blacklist, gpc, gip>>
    BY <1>7 DEF Manager, MWake, MRead, MReadFails, MSplit, MMark, MMarkFails, MMarkStale,
                MExpired, MDone, EndRound
  <2>2. Same
    BY <2>1 DEF Banned, InGap
  <2> QED BY <2>2
<1>8. CASE Restart
  <2>1. Banned' = {} /\ blacklist' = {}
    BY <1>8 DEF Restart, NoBans, Banned
  <2> QED BY <2>1 DEF Outside!Whole, Outside!Reset
<1>9. CASE Tick \/ Dashboard \/ UNCHANGED vars
  <2>1. Same
    BY <1>9 DEF Tick, Dashboard, AuditAlert, Banned, InGap
  <2> QED BY <2>1
<1> HIDE DEF Same
<1> QED BY <1>1, <1>2, <1>3, <1>4, <1>5, <1>6, <1>7, <1>8, <1>9, <1>10
        DEF Next, Gatekeeper, Manager, Same

(* The two threads, the lock that covers one half of the work and the lists of the
   manager are invisible from outside: with room in the map and look-ups that do not
   fail, bans are imposed and lifted in one step each, and come apart only by being
   orphaned. *)
THEOREM BansActAsOne ==
  ASSUME IsFiniteSet(IPs), Cardinality(IPs) <= Capacity, "map_lookup" \notin Faults
  PROVE  Spec => BanContract
<1> DEFINE Inv == TypeInv /\ EnforcedInv /\ LiftInv /\ RequestInv /\ AsOneInv
<1>1. Init => Inv
  BY TypeInit, EnforcedInit, LiftInit, RequestInit, AsOneInit
<1>2. Inv /\ [Next]_vars => Inv'
  BY TypeNext, EnforcedNext, LiftNext, RequestNext, AsOneNext
<1>3. Inv /\ [Next]_vars => [Outside!Next]_<<Banned, blacklist>>
  BY OutsideStep DEF Outside!Next
<1> HIDE DEF Inv
<1>4. Spec => Outside!Init /\ [][Outside!Next]_<<Banned, blacklist>>
  BY <1>1, <1>2, <1>3, OutsideInit, PTL DEF Spec
<1> QED BY <1>4 DEF BanContract, Outside!Spec

(* And not even that, as long as no offence of an address is entered while its ban
   is being lifted and no deletion of a key fails. *)
THEOREM BansStayWhole ==
  ASSUME IsFiniteSet(IPs), Cardinality(IPs) <= Capacity, "map_lookup" \notin Faults
  PROVE  Spec /\ []GapUndisturbed /\ [][DeletesSucceed]_vars => Outside!WholeSpec
<1> DEFINE Inv == TypeInv /\ EnforcedInv /\ LiftInv /\ RequestInv /\ AsOneInv /\ TermInv
<1>1. Init => Inv
  BY TypeInit, EnforcedInit, LiftInit, RequestInit, AsOneInit, TermInit
<1>2. Inv /\ GapUndisturbed /\ [DeletesSucceed]_vars /\ [Next]_vars => Inv'
  BY TypeNext, EnforcedNext, LiftNext, RequestNext, AsOneNext, TermNext
<1>3. Inv /\ [Next]_vars => [Outside!Whole]_<<Banned, blacklist>>
  BY OutsideStep DEF TermInv
<1> HIDE DEF Inv
<1>4. Spec /\ []GapUndisturbed /\ [][DeletesSucceed]_vars
        => Outside!Init /\ [][Outside!Whole]_<<Banned, blacklist>>
  BY <1>1, <1>2, <1>3, OutsideInit, PTL DEF Spec
<1> QED BY <1>4 DEF Outside!WholeSpec

-------------------------------------------------------------------------------
(* Bans and their alerts *)

(* The registry holds the very sum that the alert of the ban gives, from the two
   locals block_ip uses for both. *)
AuditableInv ==
  \A ip \in IPs : ban_registry[ip] # 0 =>
    \/ gpc = "record" /\ gip = ip /\ ban_registry[ip] = gnow + gttl
    \/ \E i \in DOMAIN alerts : alerts[i].src_ip = ip /\ InForce(i)

(* A table that keeps its rows, and their addresses and terms, keeps the alerts of
   the bans. *)
LEMMA AlertsKept ==
  ASSUME AuditableInv, DOMAIN alerts \subseteq DOMAIN alerts',
         \A i \in DOMAIN alerts :
           /\ alerts'[i].src_ip = alerts[i].src_ip
           /\ alerts'[i].timestamp = alerts[i].timestamp
           /\ alerts'[i].ttl_secs = alerts[i].ttl_secs,
         NEW ip \in IPs, ban_registry'[ip] = ban_registry[ip], ban_registry[ip] # 0,
         ~(gpc = "record" /\ gip = ip)
  PROVE  \E i \in DOMAIN alerts' : alerts'[i].src_ip = ip /\ InForce(i)'
<1>1. PICK i \in DOMAIN alerts : alerts[i].src_ip = ip /\ InForce(i)
  BY DEF AuditableInv
<1>2. alerts'[i].src_ip = ip /\ InForce(i)'
  BY <1>1 DEF InForce
<1> QED BY <1>1, <1>2

LEMMA AuditableNext ==
  ASSUME "db_write" \notin Faults, TypeInv, AuditableInv, [Next]_vars
  PROVE  AuditableInv'
<1> USE DEF vars, bans, gate, manager, round
<1>0. /\ ban_registry \in [IPs -> Nat] /\ alerts \in Seq(Alert)
      /\ gnow \in Nat /\ gttl \in Nat /\ (gpc # "idle" => gip \in IPs)
  BY TermsAreNat DEF TypeInv, TypeOK
<1>1. CASE GRegister
  <2>1. \A ip \in IPs \ {gip} : ban_registry'[ip] = ban_registry[ip]
    BY <1>0, <1>1 DEF GRegister
  <2>2. ban_registry'[gip] = gnow + gttl /\ gpc' = "record" /\ gpc = "register"
        /\ UNCHANGED <<gip, gnow, gttl, alerts>>
    BY <1>0, <1>1 DEF GRegister
  <2>3. ASSUME NEW ip \in IPs \ {gip}, ban_registry'[ip] # 0
        PROVE  \E i \in DOMAIN alerts' : alerts'[i].src_ip = ip /\ InForce(i)'
    BY <2>1, <2>2, <2>3, AlertsKept
  <2> QED BY <2>2, <2>3 DEF AuditableInv
<1>2. CASE GRecord
  <2> DEFINE new == NewAlert(gip, gnow, gttl)
  <2>1. /\ new \in Alert /\ new.src_ip = gip
        /\ new.timestamp = gnow /\ new.ttl_secs = gttl
    BY <1>0, <1>2 DEF GRecord, GDone, NewAlert, Alert
  <2>2. alerts' = Insert(alerts, new) /\ UNCHANGED bans
    BY <1>2 DEF GRecord, GDone
  <2> HIDE DEF new
  <2>3. /\ Len(alerts) + 1 \in 1..Len(alerts) + 1
        /\ 1..Len(alerts) \subseteq 1..Len(alerts) + 1
    BY <1>0, LenProperties
  <2>4. /\ DOMAIN alerts \subseteq DOMAIN alerts'
        /\ \A i \in DOMAIN alerts : alerts'[i] = alerts[i]
        /\ Len(alerts) + 1 \in DOMAIN alerts' /\ alerts'[Len(alerts) + 1] = new
    BY <1>0, <2>1, <2>2, <2>3, InsertAppends
  <2>5. ASSUME NEW ip \in IPs, ban_registry[ip] # 0
        PROVE  \E i \in DOMAIN alerts' : alerts'[i].src_ip = ip /\ InForce(i)'
    <3>1. CASE ip = gip /\ ban_registry[ip] = gnow + gttl
      BY <2>1, <2>2, <2>4, <3>1 DEF InForce
    <3>2. CASE \E i \in DOMAIN alerts : alerts[i].src_ip = ip /\ InForce(i)
      BY <2>2, <2>4, <3>2 DEF InForce
    <3> QED BY <2>5, <3>1, <3>2 DEF AuditableInv
  <2> QED BY <2>2, <2>5 DEF AuditableInv
<1>3. CASE GBlocked \/ GOffense \/ GInsert \/ GInsertFails
  BY <1>3 DEF GBlocked, GOffense, GInsert, GInsertFails, AuditableInv, InForce
<1>4. CASE MPop
  <2>1. /\ \A ip \in IPs : ban_registry'[ip] = ban_registry[ip] \/ ban_registry'[ip] = 0
        /\ UNCHANGED <<alerts, gate>>
    BY <1>0, <1>4 DEF MPop
  <2> QED BY <2>1 DEF AuditableInv, InForce
<1>5. ASSUME alerts' = Unbanned(alerts, mip) \/ (\E ip \in IPs : alerts' = Unbanned(alerts, ip))
                \/ Dashboard,
             UNCHANGED <<gate, bans>>
      PROVE  AuditableInv'
  <2>1. \A i \in DOMAIN alerts : alerts[i] \in Alert
    BY <1>0, AlertAddress
  <2> DEFINE Kept == /\ DOMAIN alerts \subseteq DOMAIN alerts'
                     /\ \A i \in DOMAIN alerts :
                          /\ alerts'[i].src_ip = alerts[i].src_ip
                          /\ alerts'[i].timestamp = alerts[i].timestamp
                          /\ alerts'[i].ttl_secs = alerts[i].ttl_secs
  <2>2. Kept
    <3>1. ASSUME NEW ip, alerts' = Unbanned(alerts, ip) PROVE Kept
      BY <2>1, <3>1 DEF Unbanned, Alert
    <3>2. CASE Dashboard
      <4>1. PICK j \in DOMAIN alerts, v \in AuditVerdicts : AuditAlert(j, v)
        BY <3>2 DEF Dashboard
      <4> DEFINE rows == AuditedRows(alerts, alerts[j].src_ip, alerts[j].timestamp)
      <4>2. alerts' = SetVerdict(alerts, rows, v)
        BY <4>1 DEF AuditAlert, Audit
      <4> HIDE DEF rows
      <4> QED BY <2>1, <4>2 DEF SetVerdict, Alert
    <3> QED BY <1>5, <3>1, <3>2
  <2>3. UNCHANGED <<ban_registry, gpc, gip, gnow, gttl>>
    BY <1>5
  <2> HIDE DEF Kept
  <2> SUFFICES ASSUME NEW ip \in IPs, ban_registry'[ip] # 0
               PROVE  \/ gpc' = "record" /\ gip' = ip /\ ban_registry'[ip] = gnow' + gttl'
                      \/ \E i \in DOMAIN alerts' : alerts'[i].src_ip = ip /\ InForce(i)'
    BY DEF AuditableInv
  <2>4. CASE gpc = "record" /\ gip = ip /\ ban_registry[ip] = gnow + gttl
    BY <2>3, <2>4
  <2>5. CASE \E i \in DOMAIN alerts : alerts[i].src_ip = ip /\ InForce(i)
    <3>1. PICK i \in DOMAIN alerts : alerts[i].src_ip = ip /\ InForce(i)
      BY <2>5
    <3>2. i \in DOMAIN alerts' /\ alerts'[i].src_ip = ip /\ InForce(i)'
      BY <2>2, <2>3, <3>1 DEF InForce, Kept
    <3> QED BY <3>2
  <2> QED BY <2>3, <2>4, <2>5 DEF AuditableInv
<1>6. CASE UNCHANGED <<gate, bans, alerts>>
  BY <1>6 DEF AuditableInv, InForce
<1>7. CASE Restart
  BY <1>7 DEF Restart, NoBans, AuditableInv
<1>8. CASE Gatekeeper
  <2>1. ASSUME NEW ip \in IPs, GFlow(ip) PROVE AuditableInv'
    BY <2>1 DEF GFlow, AuditableInv, InForce
  <2>2. ~GRecordFails
    BY DEF GRecordFails
  <2> QED BY <1>1, <1>2, <1>3, <1>8, <2>1, <2>2 DEF Gatekeeper
<1>9. CASE Manager
  <2>1. CASE MMark
    BY <1>5, <2>1 DEF MMark
  <2>2. ASSUME NEW ip \in IPs, MMarkStale(ip) PROVE AuditableInv'
    BY <1>5, <2>2 DEF MMarkStale
  <2>3. CASE MWake \/ MRead \/ MReadFails \/ MSplit \/ MMarkFails
             \/ (\E ip \in IPs : MDelete(ip) \/ MDeleteFails(ip)) \/ MExpired \/ MDone
    BY <1>6, <2>3 DEF MWake, MRead, MReadFails, MSplit, MDelete, MDeleteFails, MMarkFails,
                      MExpired, MDone, EndRound
  <2> QED BY <1>4, <1>9, <2>1, <2>2, <2>3 DEF Manager
<1>10. CASE Dashboard
  BY <1>5, <1>10 DEF Dashboard, AuditAlert
<1> QED BY <1>6, <1>7, <1>8, <1>9, <1>10 DEF Next, Tick

(* As long as record() does not fail, every ban in force has the alert from which
   the dashboard can audit it, the next step of block_ip at the latest. *)
THEOREM BansAreAuditable ==
  ASSUME "db_write" \notin Faults
  PROVE  Spec => []BanIsAuditable
<1>1. Init => AuditableInv
  BY DEF Init, NoBans, AuditableInv
<1>2. TypeInv /\ AuditableInv /\ [Next]_vars => (TypeInv /\ AuditableInv)'
  BY TypeNext, AuditableNext
<1>3. AuditableInv => BanIsAuditable
  BY DEF AuditableInv, BanIsAuditable
<1> QED BY <1>1, <1>2, <1>3, TypeInit, PTL DEF Spec

-------------------------------------------------------------------------------
(* Escalation *)

(* Without a dashboard bans end by their term alone. *)
Undecided ==
  /\ \A i \in DOMAIN alerts : alerts[i].verdict = "none"
  /\ items = {} /\ need_unban = {}

LEMMA UndecidedNext ==
  ASSUME AuditVerdicts = {}, TypeInv, Undecided, [Next]_vars
  PROVE  Undecided'
<1> USE DEF Undecided, vars, bans, gate, manager, round
<1>0. alerts \in Seq(Alert) /\ (gpc # "idle" => gip \in IPs)
  BY DEF TypeInv, TypeOK
<1>1. CASE GRecord
  <2> DEFINE new == NewAlert(gip, gnow, gttl)
  <2>1. new \in Alert /\ new.verdict = "none"
    BY <1>1, RecordedAlert DEF GRecord, GDone, NewAlert
  <2>2. alerts' = Insert(alerts, new) /\ UNCHANGED <<items, need_unban>>
    BY <1>1 DEF GRecord, GDone
  <2> HIDE DEF new
  <2>3. /\ DOMAIN alerts' = 1..Len(alerts) + 1 /\ DOMAIN alerts = 1..Len(alerts)
        /\ \A i \in DOMAIN alerts : alerts'[i] = alerts[i]
        /\ alerts'[Len(alerts) + 1] = new
    BY <1>0, <2>1, <2>2, InsertAppends
  <2>4. Len(alerts) \in Nat
    BY <1>0, LenProperties
  <2>5. \A i \in DOMAIN alerts' : i \in DOMAIN alerts \/ i = Len(alerts) + 1
    BY <2>3, <2>4
  <2>6. \A i \in DOMAIN alerts' : alerts'[i].verdict = "none"
    BY <2>1, <2>3, <2>5
  <2> QED BY <2>2, <2>6
<1>2. CASE Gatekeeper /\ ~GRecord
  BY <1>2 DEF Gatekeeper, GFlow, GBlocked, GOffense, GInsert, GInsertFails, GRegister,
              GRecordFails, GDone
<1>3. ASSUME NEW ip, alerts' = Unbanned(alerts, ip), items' = items, need_unban' \subseteq need_unban
      PROVE  Undecided'
  <2>1. \A i \in DOMAIN alerts : alerts[i] \in Alert
    BY <1>0, AlertAddress
  <2> QED BY <1>3, <2>1 DEF Unbanned, Alert
<1>4. CASE Manager
  <2>1. CASE MRead
    <3>1. Unbans(alerts) = {}
      BY DEF Unbans
    <3> QED BY <2>1, <3>1 DEF MRead
  <2>2. CASE MMark
    BY <1>3, <2>2 DEF MMark
  <2>3. ASSUME NEW ip \in IPs, MMarkStale(ip) PROVE Undecided'
    BY <1>3, <2>3 DEF MMarkStale
  <2>4. CASE MSplit
    BY <2>4 DEF MSplit
  <2>5. CASE MWake \/ MReadFails \/ (\E ip \in IPs : MDelete(ip) \/ MDeleteFails(ip)) \/ MPop
             \/ MMarkFails \/ MExpired \/ MDone
    BY <2>5 DEF MWake, MReadFails, MDelete, MDeleteFails, MPop, MMarkFails, MExpired, MDone,
                EndRound
  <2> QED BY <1>4, <2>1, <2>2, <2>3, <2>4, <2>5 DEF Manager
<1>5. CASE Tick \/ Dashboard \/ Restart \/ UNCHANGED vars
  BY <1>5 DEF Tick, Dashboard, Restart
<1> QED BY <1>1, <1>2, <1>4, <1>5 DEF Next

LastTerm == BAN_TTL[Len(BAN_TTL)]

(* An address that has reached the last tier, and whose offence is remembered, is
   about to be blacklisted or is blacklisted; its term, if it has one, ends when
   the offence is forgotten. *)
Top(ip) == offense_counts[ip] = Len(BAN_TTL) /\ Remembered(ip)

Serving(ip) ==
  IF gpc \in {"insert", "register"} /\ gip = ip
  THEN gnow = offense_history[ip] /\ gttl = LastTerm
  ELSE /\ ip \in blacklist
       /\ ban_registry[ip] # 0 => ban_registry[ip] = offense_history[ip] + LastTerm

EscalationInv ==
  /\ EscalationBounded
  /\ gpc = "register" /\ gip \notin Loopback => gip \in blacklist
  /\ \A ip \in IPs \ Loopback : Top(ip) => Serving(ip)

LEMMA EscalationInit == Init => EscalationInv
<1> SUFFICES ASSUME Init PROVE EscalationInv
  OBVIOUS
<1>1. Len(BAN_TTL) \in Nat \ {0}
  BY TtlAssumption, LenProperties
<1> QED BY <1>1 DEF Init, NoBans, EscalationInv, EscalationBounded, Top

(* A new count is within the tiers, since the address is not blacklisted. *)
LEMMA CountStays ==
  ASSUME "map_lookup" \notin Faults, TypeInv, EscalationInv, GOffense, gip \notin Loopback
  PROVE  NextCount(gip) \in 1..Len(BAN_TTL)
<1>1. Len(BAN_TTL) \in Nat \ {0} /\ gip \in IPs \ Loopback
  BY TtlAssumption, LenProperties DEF GOffense, TypeInv, TypeOK
<1>2. offense_counts[gip] \in Nat /\ offense_counts[gip] <= Len(BAN_TTL)
  BY <1>1 DEF TypeInv, TypeOK, EscalationInv, EscalationBounded
<1>3. Remembered(gip) => offense_counts[gip] # Len(BAN_TTL)
  BY <1>1 DEF EscalationInv, Top, Serving, GOffense, MayPass
<1> QED BY <1>1, <1>2, <1>3 DEF NextCount

(* The offences of the other addresses are at most forgotten. *)
LEMMA HistoryKept ==
  ASSUME NEW ip \in IPs, offense_history \in [IPs -> Nat], NEW h \in HistoryAfter(ip)
  PROVE  /\ \A j \in IPs \ {ip} : h[j] \in {offense_history[j], 0}
         /\ h[ip] = clock
<1> DEFINE others == {j \in IPs \ {ip} : Remembered(j)}
           oldest == {j \in others : \A k \in others : offense_history[j] <= offense_history[k]}
<1>1. \/ h = [offense_history EXCEPT ![ip] = clock]
      \/ \E j \in oldest : h = [offense_history EXCEPT ![ip] = clock, ![j] = 0]
  BY Zenon DEF HistoryAfter
<1>2. oldest \subseteq IPs \ {ip}
  OBVIOUS
<1> HIDE DEF oldest
<1> QED BY <1>1, <1>2

LEMMA EscalationGate ==
  ASSUME IsFiniteSet(IPs), Cardinality(IPs) <= Capacity, "map_lookup" \notin Faults,
         "map_update" \notin Faults,
         TypeInv, EscalationInv, Gatekeeper
  PROVE  EscalationInv'
<1> USE DEF EscalationInv, EscalationBounded, Top, Serving, Remembered,
            vars, bans, gate, manager, round
<1>0. /\ ban_registry \in [IPs -> Nat] /\ offense_history \in [IPs -> Nat]
      /\ offense_counts \in [IPs -> Nat] /\ clock \in Nat /\ (gpc # "idle" => gip \in IPs)
  BY DEF TypeInv, TypeOK
<1>1. ASSUME NEW ip \in IPs, GFlow(ip) PROVE EscalationInv'
  BY <1>1 DEF GFlow
<1>2. CASE GBlocked
  BY <1>2 DEF GBlocked
<1>3. CASE GOffense
  <2>1. /\ \A j \in IPs \ {gip} : /\ offense_history'[j] \in {offense_history[j], 0}
                                 /\ offense_counts'[j] = offense_counts[j]
        /\ offense_history'[gip] = clock /\ offense_counts'[gip] = NextCount(gip)
    BY <1>0, <1>3, HistoryKept DEF GOffense
  <2>2. /\ gpc = "lock" /\ gpc' = "insert" /\ gip' = gip /\ gnow' = clock
        /\ gttl' = Ttl(NextCount(gip))
        /\ UNCHANGED <<clock, blacklist, ban_registry>>
    BY <1>3 DEF GOffense
  <2>3. gip \notin Loopback => NextCount(gip) \in 1..Len(BAN_TTL)
    BY <1>3, CountStays
  <2>4. NextCount(gip) = Len(BAN_TTL) => gttl' = LastTerm
    BY <2>2, TtlAssumption, LenProperties DEF Ttl, LastTerm
  <2>5. ASSUME NEW ip \in IPs \ Loopback
        PROVE  offense_counts'[ip] <= Len(BAN_TTL) /\ (Top(ip)' => Serving(ip)')
    <3>1. CASE ip = gip
      BY <2>1, <2>2, <2>3, <2>4, <3>1, TtlAssumption, LenProperties
    <3>2. CASE ip # gip
      BY <2>1, <2>2, <3>2
    <3> QED BY <3>1, <3>2
  <2> QED BY <2>2, <2>5
<1>4. CASE GInsert
  <2>1. blacklist \subseteq blacklist' /\ (gip \notin Loopback => gip \in blacklist')
    BY <1>0, <1>4, RoomForAll DEF GInsert
  <2> QED BY <1>4, <2>1 DEF GInsert
<1>5. CASE GRegister
  <2>1. /\ gpc = "register" /\ gpc' = "record" /\ UNCHANGED <<clock, blacklist>>
        /\ UNCHANGED <<offense_counts, offense_history, gip, gnow, gttl>>
        /\ \A ip \in IPs : ban_registry'[ip] = IF ip = gip THEN gnow + gttl ELSE ban_registry[ip]
    BY <1>0, <1>5 DEF GRegister
  <2>2. ASSUME NEW ip \in IPs \ Loopback, Top(ip) PROVE Serving(ip)'
    <3>1. CASE ip = gip
      <4>1. ip \in blacklist
        BY <2>1, <3>1
      <4>2. gnow = offense_history[ip] /\ gttl = LastTerm
        BY <1>0, <2>1, <2>2, <3>1
      <4> QED BY <2>1, <3>1, <4>1, <4>2
    <3>2. CASE ip # gip
      BY <2>1, <2>2, <3>2
    <3> QED BY <3>1, <3>2
  <2> QED BY <2>1, <2>2
<1>6. CASE GRecord \/ GRecordFails
  BY <1>6 DEF GRecord, GRecordFails, GDone
<1>7. ~GInsertFails
  BY DEF GInsertFails
<1> QED BY <1>1, <1>2, <1>3, <1>4, <1>5, <1>6, <1>7 DEF Gatekeeper

(* The term of the last tier is over only when the offence is forgotten, so the
   manager takes none out of the map whose count the next offence would raise. *)
LEMMA EscalationManager ==
  ASSUME LastTerm >= OffenseWindow, TypeInv, LiftInv, Undecided, EscalationInv, Manager
  PROVE  EscalationInv'
<1> USE DEF EscalationInv, EscalationBounded, vars, bans, gate, manager, round
<1>0. /\ ban_registry \in [IPs -> Nat] /\ offense_history \in [IPs -> Nat]
      /\ clock \in Nat /\ mnow \in Nat /\ LastTerm \in Nat /\ OffenseWindow \in Nat
  BY TtlAssumption, LenProperties, OffenseAssumption DEF TypeInv, TypeOK, LastTerm
<1>1. ASSUME NEW ip \in IPs, MDelete(ip) PROVE EscalationInv'
  <2>1. /\ mpc = "expire" /\ ip \in expired
        /\ blacklist' = blacklist \ {ip} /\ UNCHANGED <<clock, bans, gate>>
    BY <1>1 DEF MDelete, Undecided
  <2>2. ip \notin Loopback =>
          /\ ban_registry[ip] # 0 /\ ban_registry[ip] <= mnow /\ mnow <= clock
          /\ ~(gpc \in {"insert", "register"} /\ gip = ip)
    BY <2>1 DEF LiftInv, InGap
  <2>3. ASSUME NEW j \in IPs \ Loopback, Top(j) PROVE Serving(j)'
    <3>1. Serving(j)
      BY <2>3
    <3>2. CASE j = ip
      <4>1. ban_registry[ip] = offense_history[ip] + LastTerm
        BY <2>2, <3>1, <3>2 DEF Serving
      <4>2. clock - offense_history[ip] < OffenseWindow
        BY <2>3, <3>2 DEF Top, Remembered
      <4> QED BY <1>0, <2>2, <3>2, <4>1, <4>2
    <3>3. CASE j # ip
      BY <2>1, <3>1, <3>3 DEF Serving
    <3> QED BY <3>2, <3>3
  <2>4. \A j \in IPs : Top(j)' => Top(j)
    BY <2>1 DEF Top, Remembered
  <2> QED BY <2>1, <2>2, <2>3, <2>4
<1>2. CASE MPop
  <2>1. /\ gpc \notin {"insert", "register"} /\ UNCHANGED <<clock, blacklist, gate>>
        /\ UNCHANGED <<offense_counts, offense_history>>
        /\ \A j \in IPs : ban_registry'[j] \in {ban_registry[j], 0}
    BY <1>0, <1>2 DEF MPop, LockFree
  <2> QED BY <2>1 DEF Top, Remembered, Serving
<1>3. CASE UNCHANGED <<clock, blacklist, bans, gate>>
  BY <1>3 DEF Top, Remembered, Serving
<1> QED BY <1>1, <1>2, <1>3 DEF Manager, MWake, MRead, MReadFails, MSplit, MDeleteFails,
                                MMark, MMarkFails, MMarkStale, MExpired, MDone, EndRound

LEMMA EscalationNext ==
  ASSUME IsFiniteSet(IPs), Cardinality(IPs) <= Capacity, "map_lookup" \notin Faults,
         "map_update" \notin Faults,
         LastTerm >= OffenseWindow, TypeInv, LiftInv, Undecided, EscalationInv, [Next]_vars
  PROVE  EscalationInv'
<1> USE DEF EscalationInv, EscalationBounded, vars, bans, gate, manager, round
<1>1. CASE Tick
  <2>1. \A ip \in IPs : Top(ip)' => Top(ip)
    BY <1>1, OffenseAssumption DEF Tick, Top, Remembered, TypeInv, TypeOK
  <2> QED BY <1>1, <2>1 DEF Tick, Serving
<1>2. CASE Gatekeeper
  BY <1>2, EscalationGate
<1>3. CASE Manager
  BY <1>3, EscalationManager
<1>4. CASE Dashboard \/ UNCHANGED vars
  BY <1>4 DEF Dashboard, AuditAlert, Top, Remembered, Serving
<1>5. CASE Restart
  <2>1. Len(BAN_TTL) \in Nat \ {0}
    BY TtlAssumption, LenProperties
  <2> QED BY <1>5, <2>1 DEF Restart, NoBans, Top, Remembered
<1> QED BY <1>1, <1>2, <1>3, <1>4, <1>5 DEF Next

(* No address outside the loopback range is counted beyond the tiers, when the
   last term is at least as long as the memory of offences, bans end by their
   term alone, the map has room and its look-ups and updates do not fail: ttl_index needs its
   clamp for the loopback range only. *)
THEOREM EscalationIsBounded ==
  ASSUME IsFiniteSet(IPs), Cardinality(IPs) <= Capacity, "map_lookup" \notin Faults,
         "map_update" \notin Faults, AuditVerdicts = {}, LastTerm >= OffenseWindow
  PROVE  Spec => []EscalationBounded
<1> DEFINE Inv == TypeInv /\ EnforcedInv /\ LiftInv /\ Undecided /\ EscalationInv
<1>1. Init => Inv
  BY TypeInit, EnforcedInit, LiftInit, EscalationInit DEF Init, Undecided
<1>2. Inv /\ [Next]_vars => Inv'
  BY TypeNext, EnforcedNext, LiftNext, UndecidedNext, EscalationNext
<1>3. Inv => EscalationBounded
  BY DEF EscalationInv
<1> HIDE DEF Inv
<1> QED BY <1>1, <1>2, <1>3, PTL DEF Spec
===============================================================================
