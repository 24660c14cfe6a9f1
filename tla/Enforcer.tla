------------------------------- MODULE Enforcer -------------------------------
(***************************************************************************)
(* The ban life cycle: class Enforcer of prevent/enforcer.py and the BPF   *)
(* map `blacklist` of prevent/xdp.c it maintains.                          *)
(*                                                                         *)
(* Three actors interleave.                                                *)
(*   - the gatekeeper thread (pc gpc) calls block_ip for attack flows;     *)
(*   - the daemon thread _memory_manager (pc mpc) lifts the bans that are  *)
(*     over and those the auditor wants lifted, in rounds;                 *)
(*   - the dashboard process stores verdicts in the table `alerts`.        *)
(* The two threads share ban_registry under self.lock, but the BPF map is  *)
(* deleted from outside it, and the table is not covered by it.            *)
(*                                                                         *)
(* One tick of the clock is at least 0.1 s, so that audit()'s window joins *)
(* exactly the alerts of one tick (AuditWindow = 1).                       *)
(***************************************************************************)
EXTENDS AlertStore, FiniteSets

CONSTANTS
  NoIP,             \* no address is being handled
  Loopback,         \* addresses 127.*, which block_ip keeps out of the map
  Capacity,         \* max_entries of the LRU map (500000 in xdp.c)
  BAN_TTL,          \* ban durations by offence
  OffenseWindow,    \* ttl of offense_history (86400 s)
  HistoryCapacity,  \* maxsize of offense_history (100_000)
  AuditVerdicts,    \* verdicts the dashboard stores ({}: it is not running)
  CallerChecks,     \* whether block_ip's caller skips blacklisted addresses
  Faults,           \* which calls can fail: "map_lookup", "map_update", "map_delete",
                    \* "db_read", "db_write"
  MaxTime,          \* bound: last tick of the clock
  LastFlow,         \* bound: last tick at which attack flows arrive
  MaxAlerts,        \* bound: rows of the table
  MaxOffenses,      \* bound: offence count
  MaxRestarts       \* bound: restarts of the gatekeeper process

ASSUME AddressAssumption == NoIP \notin IPs /\ Loopback \subseteq IPs
ASSUME CapacityAssumption == Capacity \in Nat \ {0} /\ HistoryCapacity \in Nat \ {0}
ASSUME TtlAssumption == BAN_TTL \in Seq(Nat \ {0}) /\ Len(BAN_TTL) > 0
ASSUME OffenseAssumption == OffenseWindow \in Nat \ {0}
ASSUME AuditAssumption == AuditVerdicts \subseteq Verdicts /\ CallerChecks \in BOOLEAN
ASSUME BoundAssumption ==
  /\ MaxTime \in Nat /\ LastFlow \in Nat /\ MaxAlerts \in Nat
  /\ MaxOffenses \in Nat /\ MaxRestarts \in Nat

VARIABLES
  clock,            \* time.time()
  blacklist,        \* keys of the BPF map; xdp() drops the packets of these
  ban_registry,     \* expiry of the bans in force, 0: not a key
  offense_counts,   \* _offense_counts, 0: not a key
  offense_history,  \* time of the last offence, 0: not a key
  alerts,           \* the table of common/storage.py
  gpc, gip,         \* gatekeeper: where block_ip is, and for which address
  gnow, gttl,       \*   its locals now and ttl_secs
  mpc, mip,         \* memory manager: where the round is, address it lifts
  mnow, items,      \*   its locals now and items
  need_unban, stale, expired,   \*   and what is left of its three lists
  restarts

bans    == <<ban_registry, offense_counts, offense_history>>
gate    == <<gpc, gip, gnow, gttl>>
round   == <<mnow, items, need_unban, stale, expired>>
manager == <<mpc, mip, round>>
vars    == <<clock, blacklist, bans, alerts, gate, manager, restarts>>

NoBans == [ip \in IPs |-> 0]

(* self.lock: block_ip holds it from its check to the registration; the
   manager's critical sections are single steps of its own. *)
LockFree == gpc \notin {"insert", "register"}

-------------------------------------------------------------------------------
(* Helpers of block_ip and _memory_manager *)

(* check_blacklist can answer False: the key is not in the map, or the look-up
   fails, whatever the map holds. *)
MayPass(ip) == ip \notin blacklist \/ "map_lookup" \in Faults

Remembered_Closed(ip) ==
  offense_history[ip] # 0 /\ clock - offense_history[ip] <= OffenseWindow
Remembered(ip) == offense_history[ip] # 0 /\ clock - offense_history[ip] < OffenseWindow

NextCount(ip) == IF Remembered(ip) THEN offense_counts[ip] + 1 ELSE 1

Ttl_Multiple(count) == BAN_TTL[Len(BAN_TTL)] * count
Ttl(count) == BAN_TTL[IF count < Len(BAN_TTL) THEN count ELSE Len(BAN_TTL)]

(* offense_history[ip] = now: a full TTLCache drops the entry set first. *)
HistoryAfter(ip) ==
  LET others == {j \in IPs \ {ip} : Remembered(j)}
      oldest == {j \in others : \A k \in others : offense_history[j] <= offense_history[k]}
  IN  IF Cardinality(others) < HistoryCapacity
      THEN {[offense_history EXCEPT ![ip] = clock]}
      ELSE {[offense_history EXCEPT ![ip] = clock, ![j] = 0] : j \in oldest}

(* blacklist_map[key] = leaf: a full LRU map makes room by evicting another key. *)
MapAfter_Loopback(ip) ==
  IF ip \in blacklist \/ Cardinality(blacklist) < Capacity THEN {blacklist \cup {ip}}
  ELSE {(blacklist \ {j}) \cup {ip} : j \in blacklist}
MapAfter(ip) ==
  IF ip \in Loopback THEN {blacklist}
  ELSE IF ip \in blacklist \/ Cardinality(blacklist) < Capacity THEN {blacklist \cup {ip}}
  ELSE {(blacklist \ {j}) \cup {ip} : j \in blacklist}

Over_Early(now) == {ip \in IPs : ban_registry[ip] # 0 /\ ban_registry[ip] <= now + 1}
Over_Stored(now) == {ip \in blacklist : ban_registry[ip] # 0 /\ ban_registry[ip] <= now}
Over(now) == {ip \in IPs : ban_registry[ip] # 0 /\ ban_registry[ip] <= now}

-------------------------------------------------------------------------------
Init ==
  /\ clock = 1
  /\ blacklist = {}
  /\ ban_registry = NoBans /\ offense_counts = NoBans /\ offense_history = NoBans
  /\ alerts = <<>>
  /\ gpc = "idle" /\ gip = NoIP /\ gnow = 0 /\ gttl = 0
  /\ mpc = "sleep" /\ mip = NoIP /\ mnow = 0
  /\ items = {} /\ need_unban = {} /\ stale = {} /\ expired = {}
  /\ restarts = 0

Tick ==
  /\ clock < MaxTime
  /\ clock' = clock + 1
  /\ UNCHANGED <<blacklist, bans, alerts, gate, manager, restarts>>

-------------------------------------------------------------------------------
(* block_ip *)

(* The gatekeeper calls block_ip for an attack flow.  It skips the flows of
   blacklisted addresses; block_ip itself does not rely on that. *)
GFlow(ip) ==
  /\ gpc = "idle" /\ (CallerChecks => MayPass(ip))
  /\ clock <= LastFlow /\ Len(alerts) < MaxAlerts /\ NextCount(ip) <= MaxOffenses
  /\ gpc' = "lock" /\ gip' = ip
  /\ UNCHANGED <<clock, blacklist, bans, alerts, gnow, gttl, manager, restarts>>

(* The lock is taken and the address is blacklisted already: return 0, 0. *)
GBlocked ==
  /\ gpc = "lock" /\ gip \in blacklist
  /\ gpc' = "idle" /\ gip' = NoIP
  /\ UNCHANGED <<clock, blacklist, bans, alerts, gnow, gttl, manager, restarts>>

(* The lock is taken, and the address is not blacklisted or the look-up fails: count
   the offence and choose the duration. *)
GOffense ==
  /\ gpc = "lock" /\ MayPass(gip)
  /\ offense_counts' = [offense_counts EXCEPT ![gip] = NextCount(gip)]
  /\ offense_history' \in HistoryAfter(gip)
  /\ gnow' = clock /\ gttl' = Ttl(NextCount(gip))
  /\ gpc' = "insert"
  /\ UNCHANGED <<clock, blacklist, ban_registry, alerts, gip, manager, restarts>>

GInsert ==
  /\ gpc = "insert"
  /\ blacklist' \in MapAfter(gip)
  /\ gpc' = "register"
  /\ UNCHANGED <<clock, bans, alerts, gip, gnow, gttl, manager, restarts>>

(* The update of the map raises: the lock is released, the flow is given up and
   the offence stays counted. *)
GInsertFails_Swallowed ==
  /\ "map_update" \in Faults
  /\ gpc = "insert" /\ gip \notin Loopback
  /\ gpc' = "register"
  /\ UNCHANGED <<clock, blacklist, bans, alerts, gip, gnow, gttl, manager, restarts>>
GInsertFails ==
  /\ "map_update" \in Faults
  /\ gpc = "insert" /\ gip \notin Loopback
  /\ gpc' = "idle" /\ gip' = NoIP /\ gnow' = 0 /\ gttl' = 0
  /\ UNCHANGED <<clock, blacklist, bans, alerts, manager, restarts>>

(* Register the expiry and release the lock. *)
GRegister ==
  /\ gpc = "register"
  /\ ban_registry' = [ban_registry EXCEPT ![gip] = gnow + gttl]
  /\ gpc' = "record"
  /\ UNCHANGED <<clock, blacklist, offense_counts, offense_history, alerts,
                 gip, gnow, gttl, manager, restarts>>

GDone ==
  /\ gpc = "record"
  /\ gpc' = "idle" /\ gip' = NoIP /\ gnow' = 0 /\ gttl' = 0
  /\ UNCHANGED <<clock, blacklist, bans, manager, restarts>>

GRecord_Now == GDone /\ alerts' = Insert(alerts, NewAlert(gip, clock, gttl))
GRecord == GDone /\ alerts' = Insert(alerts, NewAlert(gip, gnow, gttl))

(* record() raises, which block_ip ignores: the ban has no alert. *)
GRecordFails == "db_write" \in Faults /\ GDone /\ UNCHANGED alerts

-------------------------------------------------------------------------------
(* _memory_manager *)

MWake ==
  /\ mpc = "sleep"
  /\ mpc' = "read" /\ mnow' = clock
  /\ UNCHANGED <<clock, blacklist, bans, alerts, gate, mip, items, need_unban,
                 stale, expired, restarts>>

MRead ==
  /\ mpc = "read"
  /\ items' = Unbans(alerts)
  /\ mpc' = "split"
  /\ UNCHANGED <<clock, blacklist, bans, alerts, gate, mip, mnow, need_unban,
                 stale, expired, restarts>>

MSplit_Twice ==
  /\ mpc = "split" /\ LockFree
  /\ need_unban' = {ip \in items : ban_registry[ip] # 0}
  /\ stale' = items
  /\ items' = {}
  /\ mpc' = "lift"
  /\ UNCHANGED <<clock, blacklist, bans, alerts, gate, mip, mnow, expired, restarts>>
MSplit ==
  /\ mpc = "split" /\ LockFree
  /\ need_unban' = {ip \in items : ban_registry[ip] # 0}
  /\ stale' = {ip \in items : ban_registry[ip] = 0}
  /\ items' = {}
  /\ mpc' = "lift"
  /\ UNCHANGED <<clock, blacklist, bans, alerts, gate, mip, mnow, expired, restarts>>

(* unban_ip, first part, without the lock: del blacklist_map[key].  It runs in
   the loop over need_unban and in the loop over expired. *)
MDelete(ip) ==
  /\ \/ mpc = "lift" /\ ip \in need_unban
     \/ mpc = "expire" /\ ip \in expired
  /\ blacklist' = blacklist \ {ip}
  /\ mpc' = "pop" /\ mip' = ip
  /\ UNCHANGED <<clock, bans, alerts, gate, round, restarts>>

(* The deletion of the key fails, which unban_ip ignores: the address stays in the
   map.  (A key that is not there is MDelete, with the same outcome.) *)
MDeleteFails(ip) ==
  /\ "map_delete" \in Faults
  /\ \/ mpc = "lift" /\ ip \in need_unban
     \/ mpc = "expire" /\ ip \in expired
  /\ ip \in blacklist
  /\ mpc' = "pop" /\ mip' = ip
  /\ UNCHANGED <<clock, blacklist, bans, alerts, gate, round, restarts>>

(* unban_ip, second part, under the lock: ban_registry.pop(ip, None). *)
MPop ==
  /\ mpc = "pop" /\ LockFree
  /\ ban_registry' = [ban_registry EXCEPT ![mip] = 0]
  /\ IF mip \in need_unban
     THEN mpc' = "mark" /\ UNCHANGED <<mip, expired>>
     ELSE mpc' = "expire" /\ mip' = NoIP /\ expired' = expired \ {mip}
  /\ UNCHANGED <<clock, blacklist, offense_counts, offense_history, alerts, gate,
                 mnow, items, need_unban, stale, restarts>>

(* unbanned(ip), after the ban is lifted or because there is none to lift. *)
MMark ==
  /\ mpc = "mark"
  /\ alerts' = Unbanned(alerts, mip)
  /\ need_unban' = need_unban \ {mip}
  /\ mpc' = "lift" /\ mip' = NoIP
  /\ UNCHANGED <<clock, blacklist, bans, gate, mnow, items, stale, expired, restarts>>

MMarkStale(ip) ==
  /\ mpc = "lift" /\ need_unban = {} /\ ip \in stale
  /\ alerts' = Unbanned(alerts, ip)
  /\ stale' = stale \ {ip}
  /\ UNCHANGED <<clock, blacklist, bans, gate, mpc, mip, mnow, items, need_unban,
                 expired, restarts>>

MExpired ==
  /\ mpc = "lift" /\ need_unban = {} /\ stale = {} /\ LockFree
  /\ expired' = Over(mnow)
  /\ mpc' = "expire"
  /\ UNCHANGED <<clock, blacklist, bans, alerts, gate, mip, mnow, items,
                 need_unban, stale, restarts>>

EndRound ==
  /\ mpc' = "sleep" /\ mip' = NoIP /\ mnow' = 0
  /\ items' = {} /\ need_unban' = {} /\ stale' = {} /\ expired' = {}
  /\ UNCHANGED <<clock, blacklist, bans, alerts, gate, restarts>>

MDone == mpc = "expire" /\ expired = {} /\ EndRound

(* A call to the storage raises: the except clause ends the round. *)
MReadFails == "db_read" \in Faults /\ mpc = "read" /\ EndRound

MMarkFails ==
  /\ "db_write" \in Faults
  /\ \/ mpc = "mark"
     \/ mpc = "lift" /\ need_unban = {} /\ stale # {}
  /\ EndRound

-------------------------------------------------------------------------------
(* The dashboard stores the verdict on an undecided alert: after an inquiry of the
   agent, or at once if the alert inherits it. *)
AuditAlert(i, v) ==
  /\ alerts[i].verdict = "none"
  /\ alerts' = Audit(alerts, alerts[i].src_ip, alerts[i].timestamp, v)
  /\ UNCHANGED <<clock, blacklist, bans, gate, manager, restarts>>

(* The gatekeeper process dies and is started again: the program is loaded anew,
   with empty maps, and only the table survives.  It takes at least a tick. *)
Restart ==
  /\ restarts < MaxRestarts /\ clock < MaxTime
  /\ restarts' = restarts + 1 /\ clock' = clock + 1
  /\ blacklist' = {}
  /\ ban_registry' = NoBans /\ offense_counts' = NoBans /\ offense_history' = NoBans
  /\ gpc' = "idle" /\ gip' = NoIP /\ gnow' = 0 /\ gttl' = 0
  /\ mpc' = "sleep" /\ mip' = NoIP /\ mnow' = 0
  /\ items' = {} /\ need_unban' = {} /\ stale' = {} /\ expired' = {}
  /\ UNCHANGED alerts

-------------------------------------------------------------------------------
Gatekeeper ==
  \/ \E ip \in IPs : GFlow(ip)
  \/ GBlocked \/ GOffense \/ GInsert \/ GInsertFails
  \/ GRegister \/ GRecord \/ GRecordFails

Manager ==
  \/ MWake \/ MRead \/ MReadFails \/ MSplit
  \/ \E ip \in IPs : MDelete(ip)
  \/ \E ip \in IPs : MDeleteFails(ip)
  \/ MPop \/ MMark \/ MMarkFails
  \/ \E ip \in IPs : MMarkStale(ip)
  \/ MExpired \/ MDone

Dashboard == \E i \in DOMAIN alerts, v \in AuditVerdicts : AuditAlert(i, v)

Next == Tick \/ Gatekeeper \/ Manager \/ Dashboard \/ Restart

Spec == Init /\ [][Next]_vars

(* Threads that can run do run, time passes, and a storage that is tried again
   and again is not down every time.  SQLite waits up to 10 s for its lock and
   the manager comes back every 2 s. *)
Fairness ==
  /\ WF_vars(Tick)
  /\ WF_vars(GBlocked \/ GOffense \/ GInsert \/ GInsertFails \/ GRegister \/ GRecord \/ GRecordFails)
  /\ WF_vars(Manager)
  /\ SF_vars(MRead) /\ SF_vars(MMark) /\ SF_vars(\E ip \in IPs : MMarkStale(ip))

FairSpec == Spec /\ Fairness

-------------------------------------------------------------------------------
(* Properties *)

Terms == {BAN_TTL[i] : i \in DOMAIN BAN_TTL}
OptionalIP == IPs \cup {NoIP}

TypeOK ==
  /\ clock \in Nat /\ restarts \in Nat
  /\ blacklist \subseteq IPs
  /\ ban_registry \in [IPs -> Nat] /\ offense_counts \in [IPs -> Nat]
  /\ offense_history \in [IPs -> Nat]
  /\ alerts \in Seq(Alert)
  /\ gpc \in {"idle", "lock", "insert", "register", "record"} /\ gip \in OptionalIP
  /\ gnow \in Nat /\ gttl \in Terms \cup {0}
  /\ mpc \in {"sleep", "read", "split", "lift", "pop", "mark", "expire"}
  /\ mip \in OptionalIP /\ mnow \in Nat
  /\ items \subseteq IPs /\ need_unban \subseteq IPs
  /\ stale \subseteq IPs /\ expired \subseteq IPs

(* unban_ip has deleted the key, or failed to, and waits for the lock. *)
InGap(ip) == mpc = "pop" /\ mip = ip

(* A ban the registry knows of is in the map: whatever the dashboard shows as
   banned is really dropped, except while unban_ip is between its two halves.
   It needs a map that never evicts. *)
RegistryEnforced ==
  \A ip \in IPs \ Loopback : ban_registry[ip] # 0 => ip \in blacklist \/ InGap(ip)

LiftJustified ==
  \A ip \in blacklist \ blacklist' :
    \/ ban_registry[ip] # 0 /\ ban_registry[ip] <= clock
    \/ Requested(alerts, ip)

(* An address leaves the map of a running gatekeeper only when its term is over
   or on a verdict to unblock nobody has acted on before, however old the lists
   of the round are when they are worked off.  Look-ups must not fail: one that
   does lets block_ip renew the ban of a listed address. *)
NoEarlyLift == [][restarts' = restarts => LiftJustified]_vars

(* Recording alerts and consuming requests, with the dashboard's verdicts coming
   in between any two steps, the gatekeeper process keeps to its part of
   SharedTable: alerts in order of time, requests consumed only if there are any. *)
Shared == INSTANCE SharedTable WITH table <- alerts
TableContract == Shared!Spec

(* The addresses whose bans are known: block_ip enters one with its key in the map,
   unban_ip gives it up with the key, not with the registration. *)
Banned ==
  {ip \in IPs : /\ ban_registry[ip] # 0 \/ (gpc = "register" /\ gip = ip)
                /\ InGap(ip) => ip \in blacklist}

(* Both operations take several steps, interleave, and are worked off from lists
   that grow old, and yet each looks like one step at the insertion or deletion of
   the key: bans are imposed on addresses that are not dropped, lifted together
   with their key, and come apart in the one way that Bans names: the registration
   is popped while the key is in the map, because it has come back in the gap or
   its deletion has failed.  Look-ups must not fail. *)
Outside == INSTANCE Bans WITH banned <- Banned, dropped <- blacklist
BanContract == Outside!Spec

(* The last duration is as long as the memory of offences (24 h both), so a
   served ban of the last tier is forgotten: no address is counted beyond the
   tiers and the clamp of ttl_index is for loopback addresses only. *)
EscalationBounded == \A ip \in IPs \ Loopback : offense_counts[ip] <= Len(BAN_TTL)

InForce(i) == ban_registry[alerts[i].src_ip] = alerts[i].timestamp + alerts[i].ttl_secs

(* Every ban in force has the alert that explains it, from which the dashboard
   can audit it; only the caller's last step is owed. *)
BanIsAuditable ==
  \A ip \in IPs : ban_registry[ip] # 0 =>
    \/ gpc = "record" /\ gip = ip
    \/ \E i \in DOMAIN alerts : alerts[i].src_ip = ip /\ InForce(i)

(* A ban whose expiry comes (within the modelled time) is taken out of the
   registry in the end, unless a new offence renews it. *)
Expires(ip) == ban_registry[ip] # 0 /\ ban_registry[ip] <= MaxTime
RegistryDrains == \A ip \in IPs : Expires(ip) ~> ~Expires(ip)

(* Every verdict to unblock is acted on in the end, also when the ban is gone
   already, the storage fails now and then, or the process restarts. *)
Pending(i) ==
  i \in DOMAIN alerts /\ alerts[i].verdict = "unblock" /\ ~alerts[i].unbanned_processed
VerdictHandled == \A i \in 1..MaxAlerts : Pending(i) ~> ~Pending(i)

(* README:40 gives every ban a term of 5m, 1h or 24h: a blacklisted address is
   in the registry, from which alone its ban can end, or block_ip is about to
   enter it. *)
NoOrphanBan ==
  \A ip \in blacklist : ban_registry[ip] # 0 \/ (gpc = "register" /\ gip = ip)

(* README:66: a false-positive block is reversed when the agent says so.  An alert
   whose ban is in force and has the verdict to unblock still has its request, so
   that the manager's next round lifts the ban. *)
NoRequestLost ==
  \A i \in DOMAIN alerts :
    alerts[i].verdict = "unblock" /\ InForce(i) => ~alerts[i].unbanned_processed
===============================================================================
