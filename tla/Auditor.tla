------------------------------- MODULE Auditor -------------------------------
(***************************************************************************)
(* The audit loop of the dashboard process (ui/dashboard.py): every two    *)
(* seconds run_auditor reads the newest alerts, newest first, claims the   *)
(* ones nobody has looked at in AUDIT_KEYS, gets a verdict for each (the   *)
(* one cached for its signature, or one from an inquiry of the agent) and  *)
(* stores it in the table.  HTTP handlers read the same alerts and caches; *)
(* the gatekeeper process inserts alerts and consumes requests meanwhile;  *)
(* the dashboard process may be restarted, which empties its caches.       *)
(*                                                                         *)
(* An alert is identified by its row: the key f"{ip}_{timestamp}" tells    *)
(* two alerts of one address apart by their time.                          *)
(***************************************************************************)
EXTENDS AlertStore

CONSTANTS
  Ttls,          \* durations of the bans the gatekeeper imposes
  Signatures,
  SigOf,         \* the signature of each row: the protocol, port, size and reason of the
                 \* flow, which may differ from alert to alert of one address
  Limit,         \* alerts read per round (50 in run_auditor)
  SigTTL,        \* how long a verdict is inherited (600 s)
  KeyTTL,        \* ttl of AUDIT_KEYS (3600 s)
  KeysHaveAdd,   \* whether the object AUDIT_KEYS has the method add
  Faults,        \* what can fail: "llm" (the inquiry), "db_write" (update_alerts)
  MaxTime,       \* bound: last tick of the clock
  LastAlert,     \* bound: last tick at which alerts are inserted
  LastFault,     \* bound: last tick at which anything fails
  MaxAlerts,     \* bound: rows of the table
  MaxRestarts    \* bound: restarts of the dashboard process

ASSUME TtlAssumption == Ttls \subseteq Nat
ASSUME SignatureAssumption == SigOf \in [1..MaxAlerts -> Signatures]
ASSUME LimitAssumption == Limit \in Nat \ {0}
ASSUME LifetimeAssumption == SigTTL \in Nat \ {0} /\ KeyTTL \in Nat \ {0}
ASSUME KeysAssumption == KeysHaveAdd \in BOOLEAN
ASSUME BoundAssumption ==
  /\ MaxTime \in Nat /\ LastAlert \in Nat /\ LastFault \in Nat
  /\ MaxAlerts \in Nat /\ MaxRestarts \in Nat

VARIABLES
  clock,
  alerts,        \* the table of common/storage.py
  audit_cache,   \* AUDIT_CACHE: row -> verdict, none: not a key
  audit_keys,    \* AUDIT_KEYS: row -> time it was added, 0: not a key
  sig_cache,     \* SIG_CACHE: signature -> [verdict, time], time 0: not a key
  pc,            \* where run_auditor is
  seen,          \* rows of the round's records that carry an audit
  cur, low,      \* current row of the round, and its last one (newest first)
  now, res,      \* locals of the loop body
  restarts,
  asked          \* history: time of the claim under which the agent was last asked
                 \* about a row, 0: never by this process

local == <<pc, seen, cur, low, now, res>>
caches == <<audit_cache, audit_keys, sig_cache>>
vars == <<clock, alerts, caches, local, restarts, asked>>

Rows == 1..MaxAlerts

-------------------------------------------------------------------------------
(* Helpers *)

Sig(row) == SigOf[row]

(* A TTLCache forgets a key ttl seconds after it was last set. *)
Claimed_Forever(row) == audit_keys[row] # 0
Claimed(row) == audit_keys[row] # 0 /\ clock - audit_keys[row] < KeyTTL

Fresh_Unset(sig) == now - sig_cache[sig].time < SigTTL
Fresh(sig) == sig_cache[sig].time # 0 /\ now - sig_cache[sig].time < SigTTL

Decided(rows) == {i \in rows : alerts[i].verdict # "none"}

(* get_alerts attaches the verdict of the table, else the one of AUDIT_CACHE. *)
Audited(rows) == Decided(rows) \cup {i \in rows : audit_cache[i] # "none"}

(* get_alerts copies the verdicts it reads into the caches.  (Where add raises no
   alert ever has a verdict, and this copies nothing.) *)
GetAlerts(limit) ==
  LET rows == Decided(Newest(alerts, limit))
  IN  /\ audit_cache' = [i \in Rows |-> IF i \in rows THEN alerts[i].verdict ELSE audit_cache[i]]
      /\ audit_keys' = [i \in Rows |-> IF i \in rows THEN clock ELSE audit_keys[i]]
      /\ UNCHANGED sig_cache

MayFail(fault) == fault \in Faults /\ clock <= LastFault

NoVerdict == [verdict |-> "none", time |-> 0]

-------------------------------------------------------------------------------
Init ==
  /\ clock = 1 /\ alerts = <<>>
  /\ audit_cache = [i \in Rows |-> "none"]
  /\ audit_keys = [i \in Rows |-> 0]
  /\ sig_cache = [s \in Signatures |-> NoVerdict]
  /\ pc = "sleep" /\ seen = {} /\ cur = 0 /\ low = 1 /\ now = 0 /\ res = "none"
  /\ restarts = 0
  /\ asked = [i \in Rows |-> 0]

Tick ==
  /\ clock < MaxTime
  /\ clock' = clock + 1
  /\ UNCHANGED <<alerts, caches, local, restarts, asked>>

(* The gatekeeper process records a ban, at the time it has noted under its lock.
   Nothing keeps two bans of an address apart: a ban lifted on a late verdict may be
   imposed again in the same tick. *)
Record(ip, ts, ttl) ==
  /\ Len(alerts) < MaxAlerts /\ clock <= LastAlert
  /\ \A i \in DOMAIN alerts : alerts[i].timestamp <= ts
  /\ alerts' = Insert(alerts, NewAlert(ip, ts, ttl))
  /\ UNCHANGED <<clock, caches, local, restarts, asked>>

(* It acts on the requests of an address. *)
Consume(ip) ==
  /\ Requested(alerts, ip)
  /\ alerts' = Unbanned(alerts, ip)
  /\ UNCHANGED <<clock, caches, local, restarts, asked>>

(* A handler of the dashboard serves /api/alerts or /api/metrics: it reads up to
   1000 alerts, here all of them. *)
Serve ==
  /\ GetAlerts(MaxAlerts)
  /\ UNCHANGED <<clock, alerts, local, restarts, asked>>

-------------------------------------------------------------------------------
(* run_auditor *)

NextEntry == cur' = cur - 1 /\ pc' = "entry" /\ now' = 0 /\ res' = "none"

EndRound == /\ pc' = "sleep" /\ seen' = {} /\ cur' = 0 /\ low' = 1
            /\ now' = 0 /\ res' = "none"

(* records = get_alerts(limit=50).  There is an engine: without one (its imports
   fail) a round does nothing. *)
Read ==
  /\ pc = "sleep"
  /\ alerts # <<>>
  /\ GetAlerts(Limit)
  /\ LET rows == Newest(alerts, Limit)
     IN  /\ seen' = Audited(rows)
         /\ cur' = Len(alerts)
         /\ low' = IF Len(alerts) > Limit THEN Len(alerts) - Limit + 1 ELSE 1
  /\ pc' = "entry"
  /\ UNCHANGED <<clock, alerts, now, res, restarts, asked>>

Done ==
  /\ pc = "entry" /\ cur < low
  /\ EndRound
  /\ UNCHANGED <<clock, alerts, caches, restarts, asked>>

(* The entry has a verdict or someone has claimed it. *)
Skip ==
  /\ pc = "entry" /\ cur >= low
  /\ cur \in seen \/ Claimed(cur)
  /\ NextEntry
  /\ UNCHANGED <<clock, alerts, caches, seen, low, restarts, asked>>

(* AUDIT_KEYS.add(key), then look the signature up at time now.  Where there is
   no add the exception leaves the loop over the records. *)
Claim ==
  /\ pc = "entry" /\ cur >= low /\ cur \notin seen /\ ~Claimed(cur)
  /\ IF KeysHaveAdd
     THEN /\ audit_keys' = [audit_keys EXCEPT ![cur] = clock]
          /\ now' = clock /\ pc' = "lookup" /\ UNCHANGED <<seen, cur, low, res>>
     ELSE EndRound /\ UNCHANGED audit_keys
  /\ UNCHANGED <<clock, alerts, audit_cache, sig_cache, restarts, asked>>

(* Cluster hit: the alert inherits the verdict. *)
Hit_Renewed ==
  /\ pc = "lookup" /\ Fresh(Sig(cur))
  /\ res' = sig_cache[Sig(cur)].verdict
  /\ audit_cache' = [audit_cache EXCEPT ![cur] = res']
  /\ sig_cache' = [sig_cache EXCEPT ![Sig(cur)].time = now]
  /\ pc' = "store"
  /\ UNCHANGED <<clock, alerts, audit_keys, seen, cur, low, now, restarts, asked>>
Hit ==
  /\ pc = "lookup" /\ Fresh(Sig(cur))
  /\ res' = sig_cache[Sig(cur)].verdict
  /\ audit_cache' = [audit_cache EXCEPT ![cur] = res']
  /\ pc' = "store"
  /\ UNCHANGED <<clock, alerts, audit_keys, sig_cache, seen, cur, low, now, restarts, asked>>

(* Cluster miss: eng.react(entry) is called, and takes its time. *)
Miss ==
  /\ pc = "lookup" /\ ~Fresh(Sig(cur))
  /\ pc' = "inquiry" /\ asked' = [asked EXCEPT ![cur] = now]
  /\ UNCHANGED <<clock, alerts, caches, seen, cur, low, now, res, restarts>>

Answer(v) ==
  /\ pc = "inquiry"
  /\ res' = v
  /\ sig_cache' = [sig_cache EXCEPT ![Sig(cur)] = [verdict |-> v, time |-> now]]
  /\ audit_cache' = [audit_cache EXCEPT ![cur] = v]
  /\ pc' = "store"
  /\ UNCHANGED <<clock, alerts, audit_keys, seen, cur, low, now, restarts, asked>>

(* react raises: the entry is given up, and stays claimed. *)
InquiryFails_Released ==
  /\ pc = "inquiry" /\ MayFail("llm")
  /\ NextEntry
  /\ audit_keys' = [audit_keys EXCEPT ![cur] = 0]
  /\ UNCHANGED <<clock, alerts, audit_cache, sig_cache, seen, low, restarts, asked>>
InquiryFails_Lenient ==
  /\ pc = "inquiry" /\ MayFail("llm")
  /\ res' = "unblock" /\ pc' = "store"
  /\ UNCHANGED <<clock, alerts, caches, seen, cur, low, now, restarts, asked>>
InquiryFails ==
  /\ pc = "inquiry" /\ MayFail("llm")
  /\ NextEntry
  /\ UNCHANGED <<clock, alerts, caches, seen, low, restarts, asked>>

(* update_alerts first looks whether the row has a verdict by now. *)
LookAgain_Ignored ==
  /\ pc = "store"
  /\ pc' = "write"
  /\ UNCHANGED <<clock, alerts, caches, seen, cur, low, now, res, restarts, asked>>
LookAgain ==
  /\ pc = "store"
  /\ IF alerts[cur].verdict # "none" THEN NextEntry ELSE pc' = "write" /\ UNCHANGED <<cur, now, res>>
  /\ UNCHANGED <<clock, alerts, caches, seen, low, restarts, asked>>

(* A second statement writes the verdict, whatever the row holds then. *)
Store ==
  /\ pc = "write"
  /\ alerts' = Audit(alerts, alerts[cur].src_ip, alerts[cur].timestamp, res)
  /\ NextEntry
  /\ UNCHANGED <<clock, caches, seen, low, restarts, asked>>

(* Either statement raises, which update_alerts swallows. *)
StoreFails ==
  /\ pc \in {"store", "write"} /\ MayFail("db_write")
  /\ NextEntry
  /\ UNCHANGED <<clock, alerts, caches, seen, low, restarts, asked>>

(* The dashboard process is restarted. *)
Restart ==
  /\ restarts < MaxRestarts
  /\ restarts' = restarts + 1
  /\ audit_cache' = [i \in Rows |-> "none"]
  /\ audit_keys' = [i \in Rows |-> 0]
  /\ sig_cache' = [s \in Signatures |-> NoVerdict]
  /\ asked' = [i \in Rows |-> 0]
  /\ EndRound
  /\ UNCHANGED <<clock, alerts>>

-------------------------------------------------------------------------------
Loop ==
  \/ Read \/ Done \/ Skip \/ Claim \/ Hit \/ Miss
  \/ \E v \in Verdicts : Answer(v)
  \/ InquiryFails \/ LookAgain \/ Store \/ StoreFails

Next ==
  \/ Tick \/ Serve \/ Loop \/ Restart
  \/ \E ip \in IPs, ts \in 1..clock, ttl \in Ttls : Record(ip, ts, ttl)
  \/ \E ip \in IPs : Consume(ip)

Spec == Init /\ [][Next]_vars

(* The loop never stops and has an engine, time passes, an inquiry ends (React). *)
FairSpec == Spec /\ WF_vars(Tick) /\ WF_vars(Loop)

-------------------------------------------------------------------------------
(* Properties *)

TypeOK ==
  /\ clock \in Nat \ {0} /\ restarts \in 0..MaxRestarts
  /\ alerts \in Seq(Alert) /\ Len(alerts) <= MaxAlerts
  /\ audit_cache \in [Rows -> Verdicts \cup {"none"}]
  /\ audit_keys \in [Rows -> Nat] /\ asked \in [Rows -> Nat]
  /\ sig_cache \in [Signatures -> [verdict : Verdicts \cup {"none"}, time : Nat]]
  /\ pc \in {"sleep", "entry", "lookup", "inquiry", "store", "write"}
  /\ now \in Nat
  /\ pc \in {"lookup", "inquiry", "store", "write"} => cur \in DOMAIN alerts /\ now # 0
  /\ seen \subseteq DOMAIN alerts /\ cur \in 0..Len(alerts) /\ low \in Nat \ {0}
  /\ res \in Verdicts \cup {"none"} /\ (pc \in {"store", "write"} <=> res # "none")

(* A verdict is inherited only while it is young: the alert of a cluster hit was
   claimed less than SigTTL after one of the same signature about which the agent
   was really asked.  Inheriting never prolongs a verdict's life. *)
InheritanceBounded ==
  [][pc = "lookup" /\ pc' = "store" =>
       \E i \in DOMAIN alerts :
         Sig(i) = Sig(cur) /\ asked[i] # 0 /\ now - asked[i] < SigTTL]_vars

(* The agent is asked about an alert at most once per lifetime of its claim, even
   if the inquiry fails, the storage fails or the alert stays undecided: this is
   what bounds the load on the LLM. *)
AskedOncePerClaim ==
  [][restarts' = restarts =>
       \A i \in Rows : asked[i] # 0 /\ asked'[i] # asked[i]
                         => asked'[i] - asked[i] >= KeyTTL]_vars

(* The dashboard process keeps to its part of SharedTable: whatever it has read,
   cached and claimed, and however old that is when it stores, a verdict goes to
   an alert that has none and to alerts of the same address and moment only. *)
Shared == INSTANCE SharedTable WITH table <- alerts
TableContract == Shared!Spec

HasVerdict(i) == i \in DOMAIN alerts /\ alerts[i].verdict # "none"

(* A round reads only the newest Limit alerts. *)
Overtaken(i) == Len(alerts) >= i + Limit

(* update_alerts lost the verdict to an error of the storage: the dashboard shows
   it from AUDIT_CACHE, which also keeps the auditor from trying again. *)
Lost(i) == audit_cache[i] # "none" /\ ~(pc \in {"store", "write"} /\ cur = i)

(* Failed inquiries, restarts and stale claims only delay the audit of an alert:
   it ends in the table, unless Limit newer alerts come first or the write of its
   verdict fails. *)
EveryAlertSettled ==
  \A i \in Rows : i \in DOMAIN alerts ~> HasVerdict(i) \/ Overtaken(i) \/ Lost(i)

(* README:66: the agent consumes the alert stream; every alert gets a verdict. *)
EveryAlertAudited ==
  \A i \in Rows : i \in DOMAIN alerts ~> HasVerdict(i)
===============================================================================
