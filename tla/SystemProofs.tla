----------------------------- MODULE SystemProofs -----------------------------
(***************************************************************************)
(* Proofs about System: each process is to the other what the module about *)
(* the other assumes, for any number of addresses, alerts and restarts of  *)
(* either, and what the two achieve together.                              *)
(***************************************************************************)
EXTENDS System, EnforcerProofs

-------------------------------------------------------------------------------
(* The statements are the same seen from Auditor. *)
LEMMA AuditorStatements ==
  /\ \A ip, ts, ttl : A!NewAlert(ip, ts, ttl) = NewAlert(ip, ts, ttl)
  /\ \A table, alert : A!Insert(table, alert) = Insert(table, alert)
  /\ \A table, ip, ts, v : A!Audit(table, ip, ts, v) = Audit(table, ip, ts, v)
  /\ \A table, ip : A!Requested(table, ip) <=> Requested(table, ip)
  /\ \A table, ip : A!Unbanned(table, ip) = Unbanned(table, ip)
  /\ A!Verdicts = Verdicts
<1>1. \A ip, ts, ttl : A!NewAlert(ip, ts, ttl) = NewAlert(ip, ts, ttl)
  BY DEF A!NewAlert, NewAlert
<1>2. \A table, alert : A!Insert(table, alert) = Insert(table, alert)
  BY DEF A!Insert, Insert
<1>3. \A ts1, ts2 : A!Near(ts1, ts2) <=> Near(ts1, ts2)
  BY DEF A!Near, Near
<1>4. \A table, ip, ts : A!AuditedRows(table, ip, ts) = AuditedRows(table, ip, ts)
  BY <1>3 DEF A!AuditedRows, AuditedRows
<1>5. \A table, rows, v : A!SetVerdict(table, rows, v) = SetVerdict(table, rows, v)
  BY DEF A!SetVerdict, SetVerdict
<1>6. \A table, ip, ts, v : A!Audit(table, ip, ts, v) = Audit(table, ip, ts, v)
  BY <1>4, <1>5 DEF A!Audit, Audit
<1>7. \A table, i, j : A!Twins(table, i, j) <=> Twins(table, i, j)
  BY <1>3 DEF A!Twins, Twins
<1>8. \A table, ip : A!Requested(table, ip) <=> Requested(table, ip)
  BY <1>7 DEF A!Requested, Requested
<1>9. \A table, ip : A!Unbanned(table, ip) = Unbanned(table, ip)
  BY DEF A!Unbanned, Unbanned
<1>10. A!Verdicts = Verdicts
  BY DEF A!Verdicts, Verdicts
<1> QED BY <1>1, <1>2, <1>6, <1>8, <1>9, <1>10
-------------------------------------------------------------------------------
(* The gatekeeper process, as far as its alerts go: what block_ip will record fits
   in the table and has one of the terms. *)
EntryInv ==
  /\ clock <= MaxTime
  /\ Len(alerts) <= MaxAlerts
  /\ gpc # "idle" => Len(alerts) < MaxAlerts
  /\ gpc \in {"insert", "register", "record"} => gttl \in Terms

LEMMA EntryInit == Init => EntryInv
<1>1. MaxTime \in Nat /\ MaxTime > 0 /\ MaxAlerts \in Nat
  BY BoundAssumption, AuditorAssumption
<1> QED BY <1>1, EmptySeq DEF Init, EntryInv

(* Neither the verdicts nor the manager add a row. *)
LEMMA NoRowAdded ==
  ASSUME TypeInv, Manager \/ Dashboard
  PROVE  Len(alerts') = Len(alerts)
<1>0. alerts \in Seq(Alert) /\ alerts' \in Seq(Alert)
  <2>1. [Next]_vars
    BY DEF Next
  <2> QED BY <2>1, TypeNext DEF TypeInv, TypeOK
<1>1. DOMAIN alerts' = DOMAIN alerts
  <2>1. CASE Dashboard
    BY <1>0, <2>1, AuditKeepsRows DEF Dashboard, AuditAlert
  <2>2. CASE MMark \/ \E ip \in IPs : MMarkStale(ip)
    BY <1>0, <2>2, UnbannedKeepsRows DEF MMark, MMarkStale
  <2>3. CASE Manager /\ ~MMark /\ ~ \E ip \in IPs : MMarkStale(ip)
    BY <2>3 DEF Manager, MWake, MRead, MReadFails, MSplit, MDelete, MDeleteFails, MPop,
                MMarkFails, MExpired, MDone, EndRound
  <2> QED BY <2>1, <2>2, <2>3
<1> QED BY <1>0, <1>1, LenProperties

LEMMA EntryNext ==
  ASSUME TypeInv, EntryInv, [Next]_vars
  PROVE  EntryInv'
<1> USE DEF EntryInv, vars, bans, gate, manager, round
<1>0. /\ clock \in Nat /\ MaxTime \in Nat /\ MaxAlerts \in Nat /\ Terms' = Terms
      /\ alerts \in Seq(Alert) /\ Len(alerts) \in Nat
  BY BoundAssumption, LenProperties DEF TypeInv, TypeOK, Terms
<1>1. ASSUME NEW ip \in IPs, GFlow(ip) PROVE EntryInv'
  BY <1>1 DEF GFlow
<1>2. CASE GOffense
  <2>1. NextCount(gip) \in Nat \ {0}
    BY <1>2 DEF GOffense, NextCount, TypeInv, TypeOK
  <2>2. gttl' \in Terms
    BY <1>2, <2>1, TermIsNat DEF GOffense
  <2> QED BY <1>0, <1>2, <2>2 DEF GOffense
<1>3. CASE GBlocked \/ GInsert \/ GInsertFails \/ GRegister \/ GRecordFails
  BY <1>0, <1>3 DEF GBlocked, GInsert, GInsertFails, GRegister, GRecordFails, GDone
<1>7. CASE GRecord
  <2>1. NewAlert(gip, gnow, gttl) \in Alert
    BY <1>7, RecordedAlert DEF GRecord, GDone
  <2>2. Len(alerts') = Len(alerts) + 1
    BY <1>0, <1>7, <2>1, InsertAppends DEF GRecord
  <2> QED BY <1>0, <1>7, <2>2 DEF GRecord, GDone
<1>4. CASE Manager \/ Dashboard
  <2>1. UNCHANGED <<clock, gate>>
    BY <1>4 DEF Manager, Dashboard, AuditAlert, MWake, MRead, MReadFails, MSplit, MDelete,
                MDeleteFails, MPop, MMark, MMarkFails, MMarkStale, MExpired, MDone, EndRound
  <2> QED BY <1>0, <1>4, <2>1, NoRowAdded
<1>5. CASE Tick \/ Restart
  BY <1>0, <1>5 DEF Tick, Restart
<1>6. CASE UNCHANGED vars
  BY <1>0, <1>6
<1> QED BY <1>1, <1>2, <1>3, <1>4, <1>5, <1>6, <1>7 DEF Next, Gatekeeper

-------------------------------------------------------------------------------
(* The dashboard process, as far as its verdicts go: while it handles a row there is
   such a row, and what it stores is a verdict, on an alert that has none. *)
AuditInv ==
  /\ low \in Nat \ {0} /\ cur \in Nat /\ cur <= Len(alerts)
  /\ apc \in {"lookup", "inquiry", "store", "write"} => cur \in DOMAIN alerts
  /\ apc \in {"store", "write"} => res \in Verdicts
  /\ apc = "write" => alerts[cur].verdict = "none"
  /\ sig_cache = [s \in Signatures |-> sig_cache[s]]
  /\ \A s \in Signatures : sig_cache[s].time # 0 => sig_cache[s].verdict \in Verdicts

LEMMA AuditInvInit == SysInit => AuditInv
<1> SUFFICES ASSUME SysInit PROVE AuditInv
  OBVIOUS
<1>1. alerts = <<>> /\ Len(alerts) = 0
  BY EmptySeq DEF SysInit, Init
<1> QED BY <1>1 DEF SysInit, A!Init, AuditInv, A!NoVerdict

(* The row at hand has a signature. *)
LEMMA RowSigned ==
  ASSUME TypeInv, EntryInv, cur \in DOMAIN alerts
  PROVE  A!Sig(cur) \in Signatures
<1>1. cur \in 1..MaxAlerts
  BY LenProperties, BoundAssumption DEF TypeInv, TypeOK, EntryInv
<1> QED BY <1>1, AuditorAssumption DEF A!Sig

LEMMA TableGrows ==
  ASSUME TypeInv, TypeInv', [Next]_vars
  PROVE  DOMAIN alerts \subseteq DOMAIN alerts' /\ Len(alerts) <= Len(alerts')
<1>0. /\ alerts \in Seq(Alert) /\ alerts' \in Seq(Alert)
      /\ Len(alerts) \in Nat /\ Len(alerts') \in Nat
      /\ DOMAIN alerts = 1..Len(alerts) /\ DOMAIN alerts' = 1..Len(alerts')
  BY LenProperties DEF TypeInv, TypeOK
<1>1. CASE GRecord
  <2>1. NewAlert(gip, gnow, gttl) \in Alert
    BY <1>1, RecordedAlert DEF GRecord, GDone
  <2>2. Len(alerts') = Len(alerts) + 1
    BY <1>0, <1>1, <2>1, InsertAppends DEF GRecord
  <2> QED BY <1>0, <2>2
<1>2. CASE Manager \/ Dashboard
  <2>1. Len(alerts') = Len(alerts)
    BY <1>2, NoRowAdded
  <2> QED BY <1>0, <2>1
<1>3. CASE UNCHANGED alerts
  BY <1>0, <1>3
<1> QED BY <1>1, <1>2, <1>3
        DEF Next, Tick, Gatekeeper, GFlow, GBlocked, GOffense, GInsert, GInsertFails, GRegister,
            GRecordFails, Restart, vars

(* The rows of a table keep their address, and no verdict appears but of an audit. *)
LEMMA RowsKept ==
  ASSUME TypeInv, Gatekeeper \/ Manager
  PROVE  /\ DOMAIN alerts \subseteq DOMAIN alerts'
         /\ \A i \in DOMAIN alerts :
              alerts'[i].src_ip = alerts[i].src_ip /\ alerts'[i].verdict = alerts[i].verdict
         /\ \A i \in DOMAIN alerts' \ DOMAIN alerts : alerts'[i].verdict = "none"
<1>0. /\ alerts \in Seq(Alert) /\ Len(alerts) \in Nat
      /\ DOMAIN alerts = 1..Len(alerts)
      /\ \A i \in DOMAIN alerts : alerts[i] \in Alert
  BY LenProperties, AlertAddress DEF TypeInv, TypeOK
<1>1. CASE GRecord
  <2> DEFINE new == NewAlert(gip, gnow, gttl)
  <2>1. new \in Alert /\ new.verdict = "none" /\ alerts' = Insert(alerts, new)
    BY <1>1, RecordedAlert DEF GRecord, GDone, NewAlert
  <2> HIDE DEF new
  <2>2. /\ DOMAIN alerts' = 1..Len(alerts) + 1
        /\ \A i \in DOMAIN alerts : alerts'[i] = alerts[i]
        /\ alerts'[Len(alerts) + 1] = new
    BY <1>0, <2>1, InsertAppends
  <2> QED BY <1>0, <2>1, <2>2
<1>2. ASSUME NEW ip, alerts' = Unbanned(alerts, ip)
      PROVE  /\ DOMAIN alerts' = DOMAIN alerts
             /\ \A i \in DOMAIN alerts : /\ alerts'[i].src_ip = alerts[i].src_ip
                                         /\ alerts'[i].verdict = alerts[i].verdict
  BY <1>0, <1>2 DEF Unbanned, Alert
<1>3. CASE MMark \/ \E ip \in IPs : MMarkStale(ip)
  BY <1>2, <1>3 DEF MMark, MMarkStale
<1>4. CASE UNCHANGED alerts
  BY <1>4
<1> QED BY <1>1, <1>3, <1>4
        DEF Gatekeeper, Manager, GFlow, GBlocked, GOffense, GInsert, GInsertFails, GRegister,
            GRecordFails, MWake, MRead, MReadFails, MSplit, MDelete, MDeleteFails, MPop, MMarkFails,
            MExpired, MDone, EndRound

LEMMA AuditInvNext ==
  ASSUME TypeInv, TypeInv', EntryInv, AuditInv, [Next]_vars, [SysNext]_sysvars
  PROVE  AuditInv'
<1> USE DEF AuditInv, auditor, A!caches, A!local
<1>0. /\ alerts \in Seq(Alert) /\ Len(alerts) \in Nat /\ Len(alerts') \in Nat
      /\ DOMAIN alerts = 1..Len(alerts)
      /\ DOMAIN alerts \subseteq DOMAIN alerts' /\ Len(alerts) <= Len(alerts')
  BY TableGrows, LenProperties DEF TypeInv, TypeOK
<1>01. Limit \in Nat \ {0}
  BY AuditorAssumption
<1>1. CASE GatekeeperProcess /\ ~Restart
  <2>1. \A i \in DOMAIN alerts : alerts'[i].verdict = alerts[i].verdict
    BY <1>1, RowsKept DEF GatekeeperProcess
  <2> QED BY <1>0, <1>1, <2>1 DEF GatekeeperProcess
<1>8. CASE UNCHANGED <<alerts, auditor>>
  BY <1>0, <1>8
<1>2. CASE A!Read \/ A!Done \/ A!Serve \/ A!Restart
  BY <1>0, <1>01, <1>2
     DEF A!Read, A!Done, A!Serve, A!Restart, A!EndRound, A!GetAlerts, A!NoVerdict
<1>3. CASE A!Skip \/ A!InquiryFails \/ A!LookAgain \/ A!Store \/ A!StoreFails
  BY <1>0, <1>3 DEF A!Skip, A!InquiryFails, A!LookAgain, A!Store, A!StoreFails, A!NextEntry
<1>4. CASE A!Claim
  BY <1>0, <1>4 DEF A!Claim, A!EndRound
<1>5. CASE A!Miss
  BY <1>0, <1>5 DEF A!Miss
<1>6. CASE A!Hit
  <2>1. A!Sig(cur) \in Signatures
    BY <1>6, RowSigned DEF A!Hit
  <2>2. res' \in Verdicts
    BY <1>6, <2>1 DEF A!Hit, A!Fresh
  <2> QED BY <1>0, <1>6, <2>2 DEF A!Hit
<1>7. ASSUME NEW v \in Verdicts, A!Answer(v) PROVE AuditInv'
  <2>1. A!Sig(cur) \in Signatures
    BY <1>7, RowSigned DEF A!Answer
  <2>2. /\ sig_cache' = [s \in Signatures |-> sig_cache'[s]]
        /\ \A s \in Signatures : sig_cache'[s].time # 0 => sig_cache'[s].verdict \in Verdicts
    BY <1>7, <2>1 DEF A!Answer
  <2> QED BY <1>0, <1>7, <2>2 DEF A!Answer
<1> QED BY <1>1, <1>2, <1>3, <1>4, <1>5, <1>6, <1>7, <1>8
        DEF SysNext, Tick, GatekeeperProcess, Restart, DashboardProcess, Judge, Audits, sysvars,
            vars

-------------------------------------------------------------------------------
(* Each process as the other sees it *)

Inv == TypeInv /\ RequestInv /\ EntryInv /\ AuditInv

(* A step of the auditor leaves Enforcer's state alone but for the verdict it stores
   on an undecided alert. *)
LEMMA AsEnforcerStep ==
  ASSUME Inv, [SysNext]_sysvars
  PROVE  [Next]_vars
<1> USE DEF enforcer, A!caches, A!local
<1>1. CASE Tick \/ GatekeeperProcess
  BY <1>1 DEF Next, GatekeeperProcess
<1>2. CASE A!Store /\ UNCHANGED enforcer
  <2>1. cur \in DOMAIN alerts /\ res \in AuditVerdicts /\ alerts[cur].verdict = "none"
    BY <1>2, VerdictAssumption DEF A!Store, Inv, AuditInv
  <2>2. AuditAlert(cur, res)
    BY <1>2, <2>1, AuditorStatements DEF A!Store, AuditAlert
  <2> QED BY <2>1, <2>2 DEF Next, Dashboard
<1>3. CASE DashboardProcess /\ ~A!Store
  <2>1. UNCHANGED <<clock, alerts>>
    BY <1>3 DEF DashboardProcess, Judge, Audits, A!Answer, A!Serve, A!Restart, A!Read, A!Done,
                A!Skip, A!Claim, A!Hit, A!Miss, A!InquiryFails, A!LookAgain, A!StoreFails
  <2> QED BY <1>3, <2>1 DEF DashboardProcess, vars
<1>4. CASE UNCHANGED sysvars
  BY <1>4 DEF sysvars
<1> QED BY <1>1, <1>2, <1>3, <1>4 DEF SysNext, DashboardProcess

(* A step of the gatekeeper process is, to the auditor, a new alert, a request acted
   on, some time that passes, or nothing. *)
LEMMA AsAuditorStep ==
  ASSUME Inv, [SysNext]_sysvars
  PROVE  [A!Next]_(A!vars)
<1> USE DEF auditor, A!caches, A!local, A!vars
<1>1. CASE DashboardProcess
  BY <1>1, AuditorStatements DEF DashboardProcess, Judge, Audits, A!Next, A!Loop
<1>2. CASE Tick /\ UNCHANGED auditor
  <2>1. A!Tick
    BY <1>2 DEF Tick, A!Tick
  <2> QED BY <2>1 DEF A!Next
<1>3. CASE Restart /\ UNCHANGED auditor
  <2>1. A!Tick
    BY <1>3 DEF Restart, A!Tick
  <2> QED BY <2>1 DEF A!Next
<1>4. CASE GRecord /\ UNCHANGED auditor
  <2>1. gip \in IPs /\ gnow \in 1..clock /\ gttl \in Terms
    BY <1>4 DEF GRecord, GDone, Inv, TypeInv, TypeOK, RequestInv, EntryInv
  <2>2. A!Record(gip, gnow, gttl)
    BY <1>4, AuditorStatements DEF GRecord, GDone, A!Record, Inv, RequestInv, EntryInv
  <2> QED BY <2>1, <2>2 DEF A!Next
<1>5. ASSUME NEW ip \in IPs, MMarkStale(ip), UNCHANGED auditor PROVE A!Next
  <2>1. Requested(alerts, ip)
    BY <1>5 DEF MMarkStale, Inv, RequestInv
  <2>2. A!Consume(ip)
    BY <1>5, <2>1, AuditorStatements DEF MMarkStale, A!Consume
  <2> QED BY <2>2 DEF A!Next
<1>6. CASE MMark /\ UNCHANGED auditor
  <2>1. mip \in IPs /\ Requested(alerts, mip)
    BY <1>6 DEF MMark, Inv, RequestInv, TypeInv, TypeOK
  <2>2. A!Consume(mip)
    BY <1>6, <2>1, AuditorStatements DEF MMark, A!Consume
  <2> QED BY <2>1, <2>2 DEF A!Next
<1>7. CASE UNCHANGED <<clock, alerts, auditor>>
  BY <1>7
<1>8. CASE UNCHANGED sysvars
  BY <1>8 DEF sysvars, vars
<1> QED BY <1>1, <1>2, <1>3, <1>4, <1>5, <1>6, <1>7, <1>8
        DEF SysNext, GatekeeperProcess, Gatekeeper, Manager, GFlow, GBlocked, GOffense, GInsert,
            GInsertFails, GRegister, GRecordFails, GDone, MWake, MRead, MReadFails, MSplit,
            MDelete, MDeleteFails, MPop, MMarkFails, MExpired, MDone, EndRound

LEMMA InvInit == SysInit => Inv
  BY TypeInit, RequestInit, EntryInit, AuditInvInit DEF SysInit, Inv

LEMMA InvNext ==
  ASSUME Inv, [SysNext]_sysvars
  PROVE  Inv' /\ [Next]_vars
<1>1. [Next]_vars
  BY AsEnforcerStep
<1>2. TypeInv' /\ RequestInv' /\ EntryInv'
  BY <1>1, TypeNext, RequestNext, EntryNext DEF Inv
<1>3. AuditInv'
  BY <1>1, <1>2, AuditInvNext DEF Inv
<1> QED BY <1>1, <1>2, <1>3 DEF Inv

(* The dashboard process stores what it read, claimed and cached long ago, and does
   it to the table as Enforcer expects of it: a verdict on an alert that has none.
   So all that is proved of Enforcer holds of the two processes together. *)
THEOREM SystemServesEnforcer == SysSpec => EnforcerServed
<1>1. SysInit => Init
  BY DEF SysInit
<1>2. Inv /\ [SysNext]_sysvars => Inv' /\ [Next]_vars
  BY InvNext
<1>3. SysSpec => Init /\ [][Next]_vars
  BY <1>1, <1>2, InvInit, PTL DEF SysSpec
<1> QED BY <1>3 DEF EnforcerServed, Spec

(* The gatekeeper process dies at any step, writes an alert late, and works its
   lists off when they are old, and does to the table as Auditor expects of it:
   alerts in order of time, and requests acted on only if there are any. *)
THEOREM SystemServesAuditor == SysSpec => AuditorServed
<1>1. SysInit => A!Init
  BY DEF SysInit
<1>2. Inv /\ [SysNext]_sysvars => Inv' /\ [A!Next]_(A!vars)
  BY InvNext, AsAuditorStep
<1>3. SysSpec => A!Init /\ [][A!Next]_(A!vars)
  BY <1>1, <1>2, InvInit, PTL DEF SysSpec
<1> QED BY <1>3 DEF AuditorServed, A!Spec

-------------------------------------------------------------------------------
(* From the agent's answer to the lifting of the ban *)

(* Whoever holds a verdict to unblock got it, over however many copies, from an
   answer of the agent about that signature: the cache and the auditor between claim
   and store for the signature itself, the table and the lists of the manager's round
   for an address, one of whose alerts has it.  A verdict on an alert may be one on
   its twin. *)
PardonInv ==
  /\ \A s \in Signatures :
       sig_cache[s].time # 0 /\ sig_cache[s].verdict = "unblock" => s \in pardoned
  /\ apc \in {"store", "write"} /\ res = "unblock" => A!Sig(cur) \in pardoned
  /\ \A i \in DOMAIN alerts :
       alerts[i].verdict = "unblock" => Pardoned(alerts[i].src_ip)
  /\ \A ip \in items \cup need_unban \cup stale : Pardoned(ip)

LEMMA PardonInit == SysInit => PardonInv
  BY EmptySeq DEF SysInit, Init, A!Init, A!NoVerdict, PardonInv

(* What the agent has said stays said of an address as long as its alerts exist. *)
LEMMA PardonedKept ==
  ASSUME DOMAIN alerts \subseteq DOMAIN alerts', pardoned \subseteq pardoned',
         \A i \in DOMAIN alerts : alerts'[i].src_ip = alerts[i].src_ip
  PROVE  \A ip : Pardoned(ip) => Pardoned(ip)'
BY DEF Pardoned

(* The lists of a round come from the verdicts in the table. *)
LEMMA ListsPardoned ==
  ASSUME PardonInv, Gatekeeper \/ Manager \/ Restart
  PROVE  \A ip \in (items \cup need_unban \cup stale)' : Pardoned(ip)
<1> USE DEF PardonInv, gate, manager, round
<1>1. CASE MRead
  <2>1. \A ip \in Unbans(alerts) : Pardoned(ip)
    BY DEF Unbans
  <2> QED BY <1>1, <2>1 DEF MRead
<1>2. CASE Restart
  BY <1>2 DEF Restart
<1>3. CASE (Gatekeeper \/ Manager) /\ ~MRead
  <2>1. (items \cup need_unban \cup stale)' \subseteq items \cup need_unban \cup stale
    BY <1>3 DEF Gatekeeper, Manager, GFlow, GBlocked, GOffense, GInsert, GInsertFails,
                GRegister, GRecord, GRecordFails, GDone, MWake, MReadFails, MSplit, MDelete,
                MDeleteFails, MPop, MMark, MMarkFails, MMarkStale, MExpired, MDone, EndRound
  <2> QED BY <2>1
<1> QED BY <1>1, <1>2, <1>3

LEMMA PardonNext ==
  ASSUME Inv, PardonInv, [SysNext]_sysvars
  PROVE  PardonInv'
<1> USE DEF PardonInv, enforcer, auditor, A!caches, A!local, bans, gate, manager, round
<1>0. /\ TypeInv /\ EntryInv /\ AuditInv /\ alerts \in Seq(Alert)
      /\ \A i \in DOMAIN alerts : alerts[i] \in Alert
  BY AlertAddress DEF Inv, TypeInv, TypeOK
<1>01. ASSUME alerts' = alerts, pardoned \subseteq pardoned'
       PROVE  \A ip : Pardoned(ip) => Pardoned(ip)'
  BY <1>01 DEF Pardoned
<1>1. CASE GatekeeperProcess /\ ~Restart
  <2>1. /\ DOMAIN alerts \subseteq DOMAIN alerts'
        /\ \A i \in DOMAIN alerts :
             alerts'[i].src_ip = alerts[i].src_ip /\ alerts'[i].verdict = alerts[i].verdict
        /\ \A i \in DOMAIN alerts' \ DOMAIN alerts : alerts'[i].verdict = "none"
    BY <1>0, <1>1, RowsKept DEF GatekeeperProcess
  <2>2. \A ip : Pardoned(ip) => Pardoned(ip)'
    BY <1>1, <2>1, PardonedKept DEF GatekeeperProcess
  <2>3. (\A i \in DOMAIN alerts : alerts[i].verdict = "unblock" => Pardoned(alerts[i].src_ip))'
    BY <2>1, <2>2
  <2>4. \A ip \in (items \cup need_unban \cup stale)' : Pardoned(ip)'
    BY <1>1, <2>2, ListsPardoned DEF GatekeeperProcess
  <2> QED BY <1>1, <2>3, <2>4 DEF GatekeeperProcess, A!Sig
<1>2. CASE GatekeeperProcess /\ Restart
  BY <1>01, <1>2 DEF GatekeeperProcess, Restart, A!Sig
<1>3. ASSUME NEW v \in Verdicts, Judge(v), UNCHANGED enforcer PROVE PardonInv'
  <2>1. A!Sig(cur) \in Signatures /\ A!Sig(cur)' = A!Sig(cur)
    BY <1>0, <1>3, RowSigned DEF Judge, A!Answer, AuditInv, A!Sig
  <2>2. /\ \A s \in Signatures : s # A!Sig(cur) => sig_cache'[s] = sig_cache[s]
        /\ sig_cache'[A!Sig(cur)].verdict = v
        /\ res' = v /\ apc' = "store" /\ UNCHANGED alerts
    BY <1>0, <1>3, <2>1 DEF Judge, A!Answer, AuditInv
  <2>3. pardoned \subseteq pardoned' /\ (v = "unblock" => A!Sig(cur) \in pardoned')
    BY <1>3 DEF Judge
  <2> QED BY <1>01, <1>3, <2>1, <2>2, <2>3
<1>4. CASE A!Hit /\ UNCHANGED <<enforcer, pardoned>>
  <2>1. A!Sig(cur) \in Signatures /\ A!Sig(cur)' = A!Sig(cur)
    BY <1>0, <1>4, RowSigned DEF A!Hit, AuditInv, A!Sig
  <2> QED BY <1>01, <1>4, <2>1 DEF A!Hit, A!Fresh
<1>5. CASE A!Store /\ UNCHANGED <<enforcer, pardoned>>
  <2> DEFINE rows == AuditedRows(alerts, alerts[cur].src_ip, alerts[cur].timestamp)
  <2>1. cur \in DOMAIN alerts /\ alerts[cur].timestamp > 0
    BY <1>0, <1>5 DEF A!Store, AuditInv, Inv, RequestInv
  <2>2. \A i \in rows : alerts[i].src_ip = alerts[cur].src_ip
    BY <2>1 DEF AuditedRows
  <2> HIDE DEF rows
  <2>3. alerts' = SetVerdict(alerts, rows, res)
    BY <1>5, AuditorStatements DEF A!Store, Audit, rows
  <2>4. \A i \in DOMAIN alerts' :
          /\ i \in DOMAIN alerts /\ alerts'[i].src_ip = alerts[i].src_ip
          /\ \/ alerts'[i].verdict = alerts[i].verdict
             \/ i \in rows /\ alerts'[i].verdict = res
    BY <1>0, <2>3 DEF SetVerdict, Alert
  <2>5. \A ip : Pardoned(ip) => Pardoned(ip)'
    <3>1. DOMAIN alerts \subseteq DOMAIN alerts'
      BY <2>3 DEF SetVerdict
    <3> QED BY <1>5, <2>4, <3>1, PardonedKept
  <2>6. res = "unblock" => Pardoned(alerts[cur].src_ip)
    BY <1>5, <2>1 DEF A!Store, A!Sig, Pardoned
  <2>7. (\A i \in DOMAIN alerts : alerts[i].verdict = "unblock" => Pardoned(alerts[i].src_ip))'
    BY <2>2, <2>4, <2>5, <2>6
  <2> QED BY <1>5, <2>5, <2>7 DEF A!Store, A!NextEntry
<1>6. CASE A!Restart /\ UNCHANGED <<enforcer, pardoned>>
  BY <1>01, <1>6 DEF A!Restart, A!EndRound, A!NoVerdict
<1>7. CASE A!Serve /\ UNCHANGED <<enforcer, pardoned>>
  BY <1>01, <1>7 DEF A!Serve, A!GetAlerts, A!Sig
<1>11. CASE A!LookAgain /\ UNCHANGED <<enforcer, pardoned>>
  <2>1. UNCHANGED <<alerts, sig_cache>> /\ (apc' = "entry" \/ UNCHANGED <<cur, res>>)
        /\ apc = "store"
    BY <1>11 DEF A!LookAgain, A!NextEntry
  <2>2. apc' \in {"entry", "write"}
    BY <1>11 DEF A!LookAgain, A!NextEntry
  <2> QED BY <1>01, <1>11, <2>1, <2>2 DEF A!Sig
<1>8. CASE /\ UNCHANGED <<enforcer, pardoned>>
           /\ A!Read \/ A!Done \/ A!Skip \/ A!Claim \/ A!Miss \/ A!InquiryFails \/ A!StoreFails
  <2>1. UNCHANGED <<alerts, sig_cache>> /\ apc' \notin {"store", "write"}
    BY <1>8 DEF A!Read, A!Done, A!Skip, A!Claim, A!Miss, A!InquiryFails, A!StoreFails,
                A!NextEntry, A!EndRound, A!GetAlerts
  <2> QED BY <1>01, <1>8, <2>1
<1>9. CASE Tick /\ UNCHANGED <<auditor, pardoned>>
  BY <1>01, <1>9 DEF Tick, A!Sig
<1>10. CASE UNCHANGED sysvars
  BY <1>01, <1>10 DEF sysvars, vars, A!Sig
<1> QED BY <1>1, <1>2, <1>3, <1>4, <1>5, <1>6, <1>7, <1>8, <1>9, <1>10, <1>11
        DEF SysNext, DashboardProcess, Audits

(* However long a verdict stays in the caches of the dashboard, in the table and in
   the lists of the manager, whichever process dies meanwhile and whatever fails, no
   ban is lifted before its term unless the agent has said so of a signature of one
   of the address's alerts.
   The map has room for every address, and looking one up in it does not fail. *)
THEOREM JudgedEndToEnd ==
  ASSUME IsFiniteSet(IPs), Cardinality(IPs) <= Capacity, "map_lookup" \notin Faults
  PROVE  SysSpec => EarlyLiftsJudged
<1> DEFINE Judged == restarts' = restarts =>
                       \A ip \in blacklist \ blacklist' :
                         \/ ban_registry[ip] # 0 /\ ban_registry[ip] <= clock
                         \/ Pardoned(ip)
           All == Inv /\ EnforcedInv /\ LiftInv /\ PardonInv
<1>1. SysInit => All
  BY InvInit, EnforcedInit, LiftInit, PardonInit DEF SysInit
<1>2. All /\ [SysNext]_sysvars => All'
  BY InvNext, EnforcedNext, LiftNext, PardonNext DEF Inv
<1>3. All /\ [SysNext]_sysvars => [Judged]_sysvars
  <2> SUFFICES ASSUME All, [SysNext]_sysvars, restarts' = restarts,
                      NEW ip \in blacklist \ blacklist'
               PROVE  \/ ban_registry[ip] # 0 /\ ban_registry[ip] <= clock
                      \/ Pardoned(ip)
    OBVIOUS
  <2>1. [Next]_vars
    BY InvNext
  <2>2. \/ ban_registry[ip] # 0 /\ ban_registry[ip] <= clock
        \/ ip \in need_unban
    BY <2>1, LiftOrigin DEF Inv
  <2> QED BY <2>2 DEF PardonInv
<1> HIDE DEF All
<1>4. SysSpec => [][Judged]_sysvars
  BY <1>1, <1>2, <1>3, PTL DEF SysSpec
<1> QED BY <1>4 DEF EarlyLiftsJudged
===============================================================================
