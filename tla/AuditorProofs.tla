---------------------------- MODULE AuditorProofs ----------------------------
(***************************************************************************)
(* Proofs about Auditor, for any number of alerts, addresses, signatures   *)
(* and restarts, any lifetimes of the caches and any size of a round.      *)
(***************************************************************************)
EXTENDS Auditor, AlertStoreProofs

-------------------------------------------------------------------------------
(* Type correctness *)

(* A cluster hit has a verdict to store because an entry of SIG_CACHE has one. *)
TypeInv ==
  /\ TypeOK
  /\ \A s \in Signatures : sig_cache[s].time # 0 => sig_cache[s].verdict # "none"

LEMMA RowOfAlert == TypeOK => DOMAIN alerts = 1..Len(alerts) /\ DOMAIN alerts \subseteq Rows
<1> SUFFICES ASSUME TypeOK PROVE DOMAIN alerts = 1..Len(alerts) /\ DOMAIN alerts \subseteq Rows
  OBVIOUS
<1>1. alerts \in Seq(Alert) /\ Len(alerts) <= MaxAlerts /\ MaxAlerts \in Nat
  BY BoundAssumption DEF TypeOK
<1> QED BY <1>1, LenProperties DEF Rows

LEMMA SigOfRow ==
  TypeOK => \A i \in DOMAIN alerts : alerts[i] \in Alert /\ Sig(i) \in Signatures
<1> SUFFICES ASSUME TypeOK, NEW i \in DOMAIN alerts
             PROVE  alerts[i] \in Alert /\ Sig(i) \in Signatures
  OBVIOUS
<1>1. alerts[i] \in Alert /\ i \in 1..MaxAlerts
  BY AlertAddress, RowOfAlert DEF TypeOK, Rows
<1> QED BY <1>1, SignatureAssumption DEF Sig

LEMMA TypeInit == Init => TypeInv
<1> SUFFICES ASSUME Init PROVE TypeInv
  OBVIOUS
<1>1. alerts \in Seq(Alert) /\ Len(alerts) = 0
  BY EmptySeq DEF Init
<1> QED BY <1>1, BoundAssumption DEF Init, TypeInv, TypeOK, NoVerdict

(* get_alerts puts nothing but verdicts and the time into the caches. *)
LEMMA CacheTypes ==
  ASSUME TypeOK, NEW limit, GetAlerts(limit)
  PROVE  /\ audit_cache' \in [Rows -> Verdicts \cup {"none"}]
         /\ audit_keys' \in [Rows -> Nat]
<1> DEFINE rows == Decided(Newest(alerts, limit))
<1>1. \A i \in rows : alerts[i].verdict \in Verdicts \cup {"none"}
  BY SigOfRow DEF Decided, Newest, Alert
<1>2. /\ audit_cache' = [i \in Rows |-> IF i \in rows THEN alerts[i].verdict ELSE audit_cache[i]]
      /\ audit_keys' = [i \in Rows |-> IF i \in rows THEN clock ELSE audit_keys[i]]
  BY DEF GetAlerts
<1> HIDE DEF rows
<1> QED BY <1>1, <1>2 DEF TypeOK

LEMMA TypeNext == TypeInv /\ [Next]_vars => TypeInv'
<1> SUFFICES ASSUME TypeInv, [Next]_vars PROVE TypeInv'
  OBVIOUS
<1> USE DEF TypeInv, TypeOK, caches, local, vars
<1>0. DOMAIN alerts = 1..Len(alerts) /\ DOMAIN alerts \subseteq Rows
  BY RowOfAlert
<1>1. CASE Tick
  BY <1>1 DEF Tick
<1>2. CASE Serve
  BY <1>2, CacheTypes DEF Serve, GetAlerts
<1>3. ASSUME NEW ip \in IPs, NEW ts \in 1..clock, NEW ttl \in Ttls, Record(ip, ts, ttl)
      PROVE  TypeInv'
  <2>1. NewAlert(ip, ts, ttl) \in Alert
    BY TtlAssumption DEF NewAlert, Alert
  <2>2. /\ alerts' \in Seq(Alert) /\ Len(alerts') = Len(alerts) + 1
        /\ DOMAIN alerts \subseteq DOMAIN alerts'
    BY <1>3, <2>1, InsertAppends DEF Record
  <2>3. Len(alerts) \in Nat /\ Len(alerts') <= MaxAlerts
    BY <1>3, <2>2, BoundAssumption, LenProperties DEF Record
  <2> QED BY <1>0, <1>3, <2>2, <2>3 DEF Record
<1>4. CASE Read
  <2>1. /\ Len(alerts) \in Nat
        /\ low' \in Nat \ {0}
        /\ cur' = Len(alerts) /\ seen' \subseteq DOMAIN alerts
    BY <1>4, LimitAssumption, LenProperties DEF Read, Audited, Decided, Newest
  <2> QED BY <1>4, <2>1, CacheTypes DEF Read, GetAlerts
<1>5. CASE Done
  BY <1>5 DEF Done, EndRound
<1>6. CASE Skip
  BY <1>6 DEF Skip, NextEntry
<1>7. CASE Claim
  <2>1. pc = "entry" /\ cur >= low
    BY <1>7 DEF Claim
  <2>2. cur \in DOMAIN alerts
    BY <1>0, <2>1
  <2>3. CASE KeysHaveAdd
    BY <1>7, <2>2, <2>3 DEF Claim
  <2>4. CASE ~KeysHaveAdd
    BY <1>7, <2>4 DEF Claim, EndRound
  <2> QED BY <2>3, <2>4
<1>8. CASE Hit
  <2>1. Sig(cur) \in Signatures
    BY <1>8, SigOfRow DEF Hit
  <2>2. res' \in Verdicts
    BY <1>8, <2>1 DEF Hit, Fresh
  <2>3. "none" \notin Verdicts
    BY DEF Verdicts
  <2>4. cur \in Rows /\ audit_cache' = [audit_cache EXCEPT ![cur] = res']
    BY <1>0, <1>8 DEF Hit
  <2>5. audit_cache' \in [Rows -> Verdicts \cup {"none"}]
    BY <2>2, <2>4
  <2> QED BY <1>8, <2>2, <2>3, <2>5 DEF Hit
<1>9. CASE Miss
  BY <1>9 DEF Miss
<1>10. ASSUME NEW v \in Verdicts, Answer(v) PROVE TypeInv'
  <2>1. Sig(cur) \in Signatures
    BY <1>10, SigOfRow DEF Answer
  <2>2. v # "none"
    BY DEF Verdicts
  <2>3. audit_cache' \in [Rows -> Verdicts \cup {"none"}]
    BY <1>10 DEF Answer
  <2>4. now \in Nat
    BY <1>10 DEF Answer
  <2>5. /\ sig_cache' \in [Signatures -> [verdict : Verdicts \cup {"none"}, time : Nat]]
        /\ \A s \in Signatures : sig_cache'[s].time # 0 => sig_cache'[s].verdict # "none"
    BY <1>10, <2>1, <2>2, <2>4 DEF Answer
  <2> QED BY <1>10, <2>2, <2>3, <2>5 DEF Answer
<1>11. CASE InquiryFails
  BY <1>11 DEF InquiryFails, NextEntry
<1>12. CASE Store
  <2>1. alerts' \in Seq(Alert) /\ DOMAIN alerts' = DOMAIN alerts
    BY <1>12, AuditType, AuditKeepsRows DEF Store
  <2>2. Len(alerts') = Len(alerts)
    BY <2>1, LenProperties
  <2> QED BY <1>12, <2>1, <2>2 DEF Store, NextEntry
<1>13. CASE LookAgain \/ StoreFails
  BY <1>13 DEF LookAgain, StoreFails, NextEntry
<1>14. CASE Restart
  BY <1>14, BoundAssumption DEF Restart, EndRound, NoVerdict
<1>15. ASSUME NEW ip \in IPs, Consume(ip) PROVE TypeInv'
  <2>1. alerts' \in Seq(Alert) /\ DOMAIN alerts' = DOMAIN alerts
    BY <1>15, UnbannedType, UnbannedKeepsRows DEF Consume
  <2>2. Len(alerts') = Len(alerts)
    BY <2>1, LenProperties
  <2> QED BY <1>15, <2>1, <2>2 DEF Consume
<1>16. CASE UNCHANGED vars
  BY <1>16
<1> QED BY <1>1, <1>2, <1>3, <1>4, <1>5, <1>6, <1>7, <1>8, <1>9, <1>10, <1>11, <1>12,
           <1>13, <1>14, <1>15, <1>16 DEF Next, Loop

(* The state of run_auditor is well typed; in particular a verdict is at hand
   exactly when it is about to be stored, and for an alert that exists. *)
THEOREM TypeCorrect == Spec => []TypeOK
<1>1. TypeInv => TypeOK
  BY DEF TypeInv
<1> QED BY <1>1, TypeInit, TypeNext, PTL DEF Spec

-------------------------------------------------------------------------------
(* Claims and inherited verdicts *)

(* A row the agent was asked about is claimed from that moment at least, and what
   SIG_CACHE holds of a signature is no younger than the last inquiry about some
   alert of the signature. *)
ClaimInv ==
  /\ \A i \in Rows : asked[i] <= audit_keys[i] /\ audit_keys[i] <= clock
  /\ pc \in {"lookup", "inquiry"} => now <= audit_keys[cur]
  /\ pc = "lookup" /\ asked[cur] # 0 => now - asked[cur] >= KeyTTL
  /\ pc = "inquiry" => asked[cur] = now
  /\ \A s \in Signatures :
       sig_cache[s].time # 0 =>
         \E i \in DOMAIN alerts : Sig(i) = s /\ sig_cache[s].time <= asked[i]

LEMMA ClaimInit == Init => ClaimInv
  BY DEF Init, ClaimInv, NoVerdict

(* A row keeps its signature, so an inquiry stays one about its signature as long
   as no later one of the process replaces it. *)
LEMMA SourcesKept ==
  ASSUME TypeInv, ClaimInv, NEW S \in SUBSET Signatures,
         DOMAIN alerts \subseteq DOMAIN alerts',
         \A i \in DOMAIN alerts : asked[i] <= asked'[i] /\ asked'[i] \in Nat,
         \A s \in S : sig_cache'[s].time = sig_cache[s].time
  PROVE  \A s \in S :
           sig_cache'[s].time # 0 =>
             \E i \in DOMAIN alerts' : Sig(i)' = s /\ sig_cache'[s].time <= asked'[i]
<1> SUFFICES ASSUME NEW s \in S, sig_cache[s].time # 0
             PROVE  \E i \in DOMAIN alerts' : Sig(i)' = s /\ sig_cache[s].time <= asked'[i]
  OBVIOUS
<1>1. PICK i \in DOMAIN alerts : Sig(i) = s /\ sig_cache[s].time <= asked[i]
  BY DEF ClaimInv
<1>2. Sig(i)' = s
  BY <1>1 DEF Sig
<1>3. sig_cache[s].time \in Nat /\ asked[i] \in Nat
  BY RowOfAlert DEF TypeInv, TypeOK
<1>4. sig_cache[s].time <= asked'[i]
  BY <1>1, <1>3
<1> QED BY <1>2, <1>4

(* get_alerts only renews claims. *)
LEMMA ClaimsRenewed ==
  ASSUME TypeInv, ClaimInv, NEW limit, GetAlerts(limit), asked' = asked, clock' = clock
  PROVE  \A i \in Rows : /\ asked'[i] <= audit_keys'[i] /\ audit_keys'[i] <= clock'
                         /\ audit_keys[i] <= audit_keys'[i]
<1>1. \A i \in Rows : asked[i] \in Nat /\ audit_keys[i] \in Nat /\ clock \in Nat
  BY DEF TypeInv, TypeOK
<1>2. \A i \in Rows : audit_keys'[i] \in {audit_keys[i], clock}
  BY DEF GetAlerts
<1> QED BY <1>1, <1>2 DEF ClaimInv

LEMMA ClaimNext == TypeInv /\ ClaimInv /\ [Next]_vars => ClaimInv'
<1> SUFFICES ASSUME TypeInv, ClaimInv, [Next]_vars PROVE ClaimInv'
  OBVIOUS
<1> USE DEF caches, local, vars
<1> DEFINE Sources(S) ==
             \A s \in S : sig_cache[s].time # 0 =>
               \E i \in DOMAIN alerts : Sig(i) = s /\ sig_cache[s].time <= asked[i]
           Claims == /\ \A i \in Rows : asked[i] <= audit_keys[i] /\ audit_keys[i] <= clock
                     /\ pc \in {"lookup", "inquiry"} => now <= audit_keys[cur]
                     /\ pc = "lookup" /\ asked[cur] # 0 => now - asked[cur] >= KeyTTL
                     /\ pc = "inquiry" => asked[cur] = now
<1>0. /\ DOMAIN alerts \subseteq Rows /\ alerts \in Seq(Alert)
      /\ asked \in [Rows -> Nat] /\ audit_keys \in [Rows -> Nat]
      /\ clock \in Nat \ {0} /\ now \in Nat
      /\ pc \in {"lookup", "inquiry", "write"} => cur \in Rows /\ cur \in DOMAIN alerts
  BY RowOfAlert DEF TypeInv, TypeOK
<1>01. KeyTTL \in Nat \ {0}
  BY LifetimeAssumption
<1>02. Claims
  BY DEF ClaimInv
<1>03. ASSUME alerts' = alerts, asked' = asked, sig_cache' = sig_cache
       PROVE  Sources(Signatures)'
  BY <1>03 DEF ClaimInv, Sig
<1>1. CASE Tick
  <2>1. Claims'
    BY <1>0, <1>02, <1>1 DEF Tick
  <2> QED BY <1>03, <1>1, <2>1 DEF Tick, ClaimInv
<1>2. CASE Serve
  <2>1. \A i \in Rows : /\ asked'[i] <= audit_keys'[i] /\ audit_keys'[i] <= clock'
                        /\ audit_keys[i] <= audit_keys'[i] /\ audit_keys'[i] \in Nat
    BY <1>2, ClaimsRenewed, TypeNext DEF Serve, TypeInv, TypeOK
  <2>2. Claims'
    BY <1>0, <1>02, <1>2, <2>1 DEF Serve
  <2> QED BY <1>03, <1>2, <2>2 DEF Serve, GetAlerts, ClaimInv
<1>3. ASSUME NEW ip \in IPs, NEW ts \in 1..clock, NEW ttl \in Ttls, Record(ip, ts, ttl)
      PROVE  ClaimInv'
  <2> DEFINE new == NewAlert(ip, ts, ttl)
  <2>1. new \in Alert /\ alerts' = Insert(alerts, new)
    BY <1>0, <1>3, TtlAssumption DEF Record, NewAlert, Alert
  <2> HIDE DEF new
  <2>2. DOMAIN alerts \subseteq DOMAIN alerts'
    <3>1. Len(alerts) \in Nat /\ 1..Len(alerts) \subseteq 1..Len(alerts) + 1
      BY <1>0, LenProperties
    <3> QED BY <1>0, <2>1, <3>1, InsertAppends
  <2>3. Sources(Signatures)'
    BY <1>0, <1>3, <2>2, SourcesKept DEF Record
  <2>4. Claims'
    BY <1>02, <1>3 DEF Record
  <2> QED BY <2>3, <2>4 DEF ClaimInv
<1>4. CASE Read
  <2>1. Claims'
    BY <1>0, <1>02, <1>4, ClaimsRenewed DEF Read
  <2> QED BY <1>03, <1>4, <2>1 DEF Read, GetAlerts, ClaimInv
<1>5. CASE Done \/ Skip \/ InquiryFails \/ LookAgain \/ StoreFails
  <2>1. Claims'
    BY <1>02, <1>5 DEF Done, EndRound, Skip, InquiryFails, LookAgain, StoreFails, NextEntry
  <2> QED BY <1>03, <1>5, <2>1
          DEF Done, Skip, InquiryFails, LookAgain, StoreFails, ClaimInv
<1>6. CASE Claim
  <2>1. cur \in Rows /\ ~Claimed(cur)
    BY <1>6, RowOfAlert DEF Claim, TypeInv, TypeOK
  <2>2. CASE KeysHaveAdd
    <3>1. asked[cur] # 0 => clock - asked[cur] >= KeyTTL
      BY <1>0, <1>01, <1>02, <2>1 DEF Claimed
    <3>2. Claims'
      BY <1>0, <1>02, <1>6, <2>1, <2>2, <3>1 DEF Claim
    <3> QED BY <1>03, <1>6, <2>2, <3>2 DEF Claim, ClaimInv
  <2>3. CASE ~KeysHaveAdd
    <3>1. Claims'
      BY <1>02, <1>6, <2>3 DEF Claim, EndRound
    <3> QED BY <1>03, <1>6, <2>3, <3>1 DEF Claim, ClaimInv
  <2> QED BY <2>2, <2>3
<1>7. CASE Hit
  <2>1. Claims'
    BY <1>02, <1>7 DEF Hit
  <2> QED BY <1>03, <1>7, <2>1 DEF Hit, ClaimInv
<1>8. CASE Miss
  <2>1. \A i \in Rows : asked[i] <= asked'[i] /\ asked'[i] \in Nat
    BY <1>0, <1>01, <1>02, <1>8 DEF Miss
  <2>2. Claims'
    BY <1>0, <1>02, <1>8 DEF Miss
  <2>3. Sources(Signatures)'
    BY <1>0, <1>8, <2>1, SourcesKept DEF Miss
  <2> QED BY <2>2, <2>3 DEF ClaimInv
<1>9. ASSUME NEW v \in Verdicts, Answer(v) PROVE ClaimInv'
  <2>1. Claims'
    BY <1>02, <1>9 DEF Answer
  <2> DEFINE others == Signatures \ {Sig(cur)}
  <2>2. \A s \in others : sig_cache'[s] = sig_cache[s]
    BY <1>9 DEF Answer, TypeInv, TypeOK
  <2>3. \A s \in others : sig_cache'[s].time # 0 =>
          \E i \in DOMAIN alerts' : Sig(i)' = s /\ sig_cache'[s].time <= asked'[i]
    <3>1. /\ DOMAIN alerts \subseteq DOMAIN alerts'
          /\ \A i \in DOMAIN alerts : asked[i] <= asked'[i] /\ asked'[i] \in Nat
          /\ \A s \in others : sig_cache'[s].time = sig_cache[s].time
      BY <1>0, <1>9, <2>2 DEF Answer
    <3>2. others \in SUBSET Signatures
      OBVIOUS
    <3> HIDE DEF others
    <3> QED BY <3>1, <3>2, SourcesKept
  <2>4. /\ sig_cache'[Sig(cur)].time = now /\ asked'[cur] = now
        /\ alerts' = alerts /\ cur \in DOMAIN alerts
    BY <1>0, <1>02, <1>9, SigOfRow DEF Answer, TypeInv, TypeOK
  <2>5. \E i \in DOMAIN alerts' : Sig(i)' = Sig(cur) /\ sig_cache'[Sig(cur)].time <= asked'[i]
    BY <1>0, <2>4 DEF Sig
  <2>6. \A s \in Signatures : s \in others \/ s = Sig(cur)
    OBVIOUS
  <2> HIDE DEF others
  <2>7. Sources(Signatures)'
    BY <2>3, <2>5, <2>6 DEF Sig
  <2> QED BY <2>1, <2>7 DEF ClaimInv
<1>10. CASE Store
  <2>1. DOMAIN alerts' = DOMAIN alerts
    BY <1>0, <1>10, AuditKeepsRows DEF Store
  <2>2. Sources(Signatures)'
    BY <1>0, <1>10, <2>1, SourcesKept DEF Store
  <2>3. Claims'
    BY <1>02, <1>10 DEF Store, NextEntry
  <2> QED BY <2>2, <2>3 DEF ClaimInv
<1>11. CASE Restart
  BY <1>0, <1>11 DEF Restart, EndRound, NoVerdict, ClaimInv
<1>12. ASSUME NEW ip \in IPs, Consume(ip) PROVE ClaimInv'
  <2>1. DOMAIN alerts' = DOMAIN alerts
    BY <1>0, <1>12, UnbannedKeepsRows DEF Consume
  <2>2. Sources(Signatures)'
    BY <1>0, <1>12, <2>1, SourcesKept DEF Consume
  <2>3. Claims'
    BY <1>02, <1>12 DEF Consume
  <2> QED BY <2>2, <2>3 DEF ClaimInv
<1>13. CASE UNCHANGED vars
  <2>1. Claims'
    BY <1>02, <1>13
  <2> QED BY <1>03, <1>13, <2>1 DEF ClaimInv
<1> QED BY <1>1, <1>2, <1>3, <1>4, <1>5, <1>6, <1>7, <1>8, <1>9, <1>10, <1>11, <1>12, <1>13
        DEF Next, Loop

(* A cluster hit inherits a verdict that is younger than SigTTL, counted from the
   claim of an alert of the same signature the agent was asked about: run_auditor
   judges by the time it took before the look-up, and never renews an entry. *)
THEOREM InheritedIsYoung == Spec => InheritanceBounded
<1> DEFINE Young == pc = "lookup" /\ pc' = "store" =>
                      \E i \in DOMAIN alerts :
                        Sig(i) = Sig(cur) /\ asked[i] # 0 /\ now - asked[i] < SigTTL
<1>1. TypeInv /\ ClaimInv /\ [Next]_vars => [Young]_vars
  <2> SUFFICES ASSUME TypeInv, ClaimInv, Next, pc = "lookup", pc' = "store"
               PROVE  Young
    OBVIOUS
  <2>1. Hit
    BY DEF Next, Loop, Tick, Serve, Record, Consume, Read, Done, EndRound, Skip, NextEntry,
           Claim, Miss, Answer, InquiryFails, LookAgain, Store, StoreFails, Restart, local
  <2>2. Sig(cur) \in Signatures
    BY SigOfRow DEF TypeInv, TypeOK
  <2>3. sig_cache[Sig(cur)].time \in Nat \ {0} /\ now - sig_cache[Sig(cur)].time < SigTTL
    BY <2>1, <2>2 DEF Hit, Fresh, TypeInv, TypeOK
  <2>4. PICK i \in DOMAIN alerts : Sig(i) = Sig(cur) /\ sig_cache[Sig(cur)].time <= asked[i]
    BY <2>2, <2>3 DEF ClaimInv
  <2>5. asked[i] \in Nat /\ now \in Nat /\ SigTTL \in Nat
    BY RowOfAlert, LifetimeAssumption DEF TypeInv, TypeOK
  <2>6. asked[i] # 0 /\ now - asked[i] < SigTTL
    BY <2>3, <2>4, <2>5
  <2> QED BY <2>4, <2>6
<1>2. TypeInv /\ ClaimInv /\ [Next]_vars => (TypeInv /\ ClaimInv)'
  BY TypeNext, ClaimNext
<1>3. Spec => [][Young]_vars
  BY <1>1, <1>2, TypeInit, ClaimInit, PTL DEF Spec
<1> QED BY <1>3 DEF InheritanceBounded

(* The agent is asked about an alert at most once per lifetime of its claim: a
   claim survives the failure of the inquiry and of the storage, and the handlers
   that read alerts only renew it. *)
THEOREM AskedOnce == Spec => AskedOncePerClaim
<1> DEFINE Once == restarts' = restarts =>
                     \A i \in Rows : asked[i] # 0 /\ asked'[i] # asked[i]
                                       => asked'[i] - asked[i] >= KeyTTL
<1>1. TypeInv /\ ClaimInv /\ [Next]_vars => [Once]_vars
  <2> SUFFICES ASSUME TypeInv, ClaimInv, Next, restarts' = restarts, asked' # asked
               PROVE  Once
    OBVIOUS
  <2>1. restarts \in Nat
    BY BoundAssumption DEF TypeInv, TypeOK
  <2>2. Miss
    BY <2>1 DEF Next, Loop, Tick, Serve, Record, Consume, Read, Done, Skip, Claim, Hit, Answer,
                InquiryFails, LookAgain, Store, StoreFails, Restart
  <2>3. asked' = [asked EXCEPT ![cur] = now] /\ pc = "lookup"
    BY <2>2 DEF Miss
  <2>4. \A i \in Rows : asked'[i] # asked[i] => i = cur /\ asked'[i] = now
    BY <2>3 DEF TypeInv, TypeOK
  <2> QED BY <2>3, <2>4 DEF ClaimInv
<1>2. TypeInv /\ ClaimInv /\ [Next]_vars => (TypeInv /\ ClaimInv)'
  BY TypeNext, ClaimNext
<1>3. Spec => [][Once]_vars
  BY <1>1, <1>2, TypeInit, ClaimInit, PTL DEF Spec
<1> QED BY <1>3 DEF AskedOncePerClaim

-------------------------------------------------------------------------------
(* The auditor implements SharedTable *)

LEMMA SharedStatements ==
  /\ Shared!Verdicts = Verdicts /\ Shared!Alert = Alert
  /\ \A ip, ts, ttl : Shared!NewAlert(ip, ts, ttl) = NewAlert(ip, ts, ttl)
  /\ \A table, rows, v : Shared!SetVerdict(table, rows, v) = SetVerdict(table, rows, v)
  /\ \A table, i, j : Shared!Twins(table, i, j) <=> Twins(table, i, j)
  /\ \A table, ip : Shared!Requested(table, ip) <=> Requested(table, ip)
  /\ \A table, ip : Shared!Unbanned(table, ip) = Unbanned(table, ip)
<1>1. Shared!Verdicts = Verdicts
  BY DEF Shared!Verdicts, Verdicts
<1>2. Shared!Alert = Alert
  BY <1>1 DEF Shared!Alert, Alert
<1>3. \A ip, ts, ttl : Shared!NewAlert(ip, ts, ttl) = NewAlert(ip, ts, ttl)
  BY DEF Shared!NewAlert, NewAlert
<1>4. \A table, rows, v : Shared!SetVerdict(table, rows, v) = SetVerdict(table, rows, v)
  BY DEF Shared!SetVerdict, SetVerdict
<1>5. \A ts1, ts2 : Shared!Near(ts1, ts2) <=> Near(ts1, ts2)
  BY DEF Shared!Near, Near
<1>6. \A table, i, j : Shared!Twins(table, i, j) <=> Twins(table, i, j)
  BY <1>5 DEF Shared!Twins, Twins
<1>7. \A table, ip : Shared!Requested(table, ip) <=> Requested(table, ip)
  BY <1>6 DEF Shared!Requested, Requested
<1>8. \A table, ip : Shared!Unbanned(table, ip) = Unbanned(table, ip)
  BY DEF Shared!Unbanned, Unbanned
<1> QED BY <1>1, <1>2, <1>3, <1>4, <1>6, <1>7, <1>8

(* Alerts carry a time that has been: audit() finds them by it.  And what the auditor
   found undecided still is when it writes, as nobody else decides. *)
TableInv ==
  /\ \A i \in DOMAIN alerts : 0 < alerts[i].timestamp /\ alerts[i].timestamp <= clock
  /\ pc = "write" => alerts[cur].verdict = "none"

LEMMA TableInit == Init => TableInv
  BY DEF Init, TableInv

LEMMA Recording ==
  ASSUME TypeInv, NEW ip \in IPs, NEW ts \in 1..clock, NEW ttl \in Ttls, Record(ip, ts, ttl)
  PROVE  LET new == NewAlert(ip, ts, ttl)
         IN  /\ new \in Alert /\ new.timestamp = ts
             /\ new = NewAlert(new.src_ip, new.timestamp, new.ttl_secs)
             /\ Len(alerts') = Len(alerts) + 1
             /\ DOMAIN alerts' = 1..Len(alerts) + 1 /\ DOMAIN alerts = 1..Len(alerts)
             /\ \A i \in DOMAIN alerts : alerts'[i] = alerts[i]
             /\ alerts'[Len(alerts) + 1] = new
<1> DEFINE new == NewAlert(ip, ts, ttl)
<1>1. new \in Alert /\ new.timestamp = ts
      /\ new = NewAlert(new.src_ip, new.timestamp, new.ttl_secs)
  BY TtlAssumption DEF NewAlert, Alert, TypeInv, TypeOK
<1>2. alerts' = Insert(alerts, new) /\ alerts \in Seq(Alert)
  BY DEF Record, TypeInv, TypeOK
<1> HIDE DEF new
<1>3. /\ Len(alerts') = Len(alerts) + 1
      /\ DOMAIN alerts' = 1..Len(alerts) + 1 /\ DOMAIN alerts = 1..Len(alerts)
      /\ \A i \in DOMAIN alerts : alerts'[i] = alerts[i]
      /\ alerts'[Len(alerts) + 1] = new
  BY <1>1, <1>2, InsertAppends
<1> QED BY <1>1, <1>3 DEF new

LEMMA TableNext == TypeInv /\ TableInv /\ [Next]_vars => TableInv'
<1> SUFFICES ASSUME TypeInv, TableInv, [Next]_vars PROVE TableInv'
  OBVIOUS
<1> USE DEF local
<1>0. /\ alerts \in Seq(Alert) /\ clock \in Nat \ {0}
      /\ \A i \in DOMAIN alerts : alerts[i].timestamp \in Nat
      /\ pc = "write" => cur \in DOMAIN alerts
  BY TableNumbers DEF TypeInv, TypeOK
<1>1. ASSUME NEW ip \in IPs, NEW ts \in 1..clock, NEW ttl \in Ttls, Record(ip, ts, ttl)
      PROVE  TableInv'
  <2>1. Len(alerts) \in Nat /\ UNCHANGED <<clock, pc, cur>>
    BY <1>0, <1>1, LenProperties DEF Record
  <2>2. \A i \in DOMAIN alerts' : i \in DOMAIN alerts \/ alerts'[i].timestamp = ts
    BY <1>1, <2>1, Recording
  <2>3. \A i \in DOMAIN alerts : alerts'[i] = alerts[i]
    BY <1>1, Recording
  <2> QED BY <1>0, <2>1, <2>2, <2>3 DEF TableInv
<1>2. CASE Store
  <2>1. /\ DOMAIN alerts' = DOMAIN alerts /\ clock' = clock
        /\ \A i \in DOMAIN alerts : alerts'[i].timestamp = alerts[i].timestamp
    BY <1>0, <1>2, AuditKeepsRows DEF Store
  <2> QED BY <1>2, <2>1 DEF Store, NextEntry, TableInv
<1>3. CASE Tick
  BY <1>0, <1>3 DEF Tick, TableInv
<1>4. ASSUME NEW ip \in IPs, Consume(ip) PROVE TableInv'
  <2>1. /\ DOMAIN alerts' = DOMAIN alerts /\ UNCHANGED <<clock, pc, cur>>
        /\ \A i \in DOMAIN alerts : /\ alerts'[i].timestamp = alerts[i].timestamp
                                    /\ alerts'[i].verdict = alerts[i].verdict
    BY <1>0, <1>4, UnbannedKeepsRows DEF Consume
  <2> QED BY <1>0, <2>1 DEF TableInv
<1>5. CASE LookAgain
  BY <1>5 DEF LookAgain, NextEntry, TableInv
<1>6. CASE UNCHANGED <<alerts, clock>> /\ (pc' # "write" \/ UNCHANGED <<pc, cur>>)
  BY <1>6 DEF TableInv
<1> QED BY <1>1, <1>2, <1>3, <1>4, <1>5, <1>6
        DEF Next, Loop, Serve, Read, Done, EndRound, Skip, NextEntry, Claim, Hit, Miss, Answer,
            InquiryFails, StoreFails, Restart, vars

LEMMA ContractStep ==
  ASSUME TypeInv, TableInv, [Next]_vars
  PROVE  [Shared!Next]_alerts
<1>0. alerts \in Seq(Alert)
  BY DEF TypeInv, TypeOK
<1>1. ASSUME NEW ip \in IPs, NEW ts \in 1..clock, NEW ttl \in Ttls, Record(ip, ts, ttl)
      PROVE  Shared!Next
  <2> DEFINE new == NewAlert(ip, ts, ttl)
  <2>1. /\ new \in Alert /\ new.timestamp = ts
        /\ new = NewAlert(new.src_ip, new.timestamp, new.ttl_secs)
        /\ Len(alerts') = Len(alerts) + 1
        /\ \A i \in DOMAIN alerts : alerts'[i] = alerts[i]
        /\ alerts'[Len(alerts) + 1] = new
    BY <1>1, Recording
  <2> HIDE DEF new
  <2>2. \A i \in DOMAIN alerts : alerts[i].timestamp <= new.timestamp
    BY <1>1, <2>1 DEF Record
  <2> QED BY <2>1, <2>2, SharedStatements DEF Shared!Next, Shared!Recorded
<1>2. CASE Store
  <2> DEFINE rows == AuditedRows(alerts, alerts[cur].src_ip, alerts[cur].timestamp)
  <2>1. cur \in DOMAIN alerts /\ res \in Verdicts /\ alerts[cur].verdict = "none"
    BY <1>2 DEF Store, TypeInv, TypeOK, TableInv
  <2>2. alerts' = SetVerdict(alerts, rows, res)
    BY <1>2 DEF Store, Audit
  <2>3. /\ rows \in SUBSET DOMAIN alerts /\ cur \in rows
        /\ \A j \in rows \ {cur} : Twins(alerts, cur, j)
    BY <1>0, <2>1, AuditedAreTwins DEF TableInv
  <2> HIDE DEF rows
  <2> QED BY <2>1, <2>2, <2>3, SharedStatements DEF Shared!Next, Shared!Decided
<1>3. ASSUME NEW ip \in IPs, Consume(ip) PROVE Shared!Next
  BY <1>3, SharedStatements DEF Consume, Shared!Next, Shared!Consumed
<1>4. CASE UNCHANGED alerts
  BY <1>4
<1> QED BY <1>1, <1>2, <1>3, <1>4
        DEF Next, Loop, Tick, Serve, Read, Done, Skip, Claim, Hit, Miss, Answer,
            InquiryFails, LookAgain, StoreFails, Restart, vars

(* The dashboard process, with the gatekeeper's alerts coming in at any time,
   implements SharedTable: whatever it has cached, claimed and lost. *)
THEOREM AuditorImplementsTable == Spec => TableContract
<1>1. TypeInv /\ TableInv /\ [Next]_vars => (TypeInv /\ TableInv)'
  BY TypeNext, TableNext
<1>2. TypeInv /\ TableInv /\ [Next]_vars => [Shared!Next]_alerts
  BY ContractStep
<1>3. Init => Shared!Init
  BY DEF Init, Shared!Init
<1>4. Spec => Shared!Init /\ [][Shared!Next]_alerts
  BY <1>1, <1>2, <1>3, TypeInit, TableInit, PTL DEF Spec
<1> QED BY <1>4 DEF TableContract, Shared!Spec
===============================================================================
