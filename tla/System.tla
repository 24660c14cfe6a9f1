-------------------------------- MODULE System --------------------------------
(***************************************************************************)
(* The two processes together: Enforcer with the dashboard process of      *)
(* Auditor in the place of the verdicts it takes for granted, and Auditor  *)
(* with the gatekeeper process of Enforcer in the place of its alerts.     *)
(* They have a clock and the table in common, and nothing else.            *)
(***************************************************************************)
EXTENDS Enforcer

CONSTANTS
  Signatures, SigOf, Limit, SigTTL, KeyTTL, KeysHaveAdd,   \* as in Auditor
  AuditorFaults,        \* its Faults
  LastFault,            \* bound: as in Auditor
  MaxAuditorRestarts    \* bound: restarts of the dashboard process

VARIABLES
  audit_cache, audit_keys, sig_cache, seen, cur, low, res, asked,   \* as in Auditor
  apc, anow, arestarts,                                  \* its pc, now and restarts
  pardoned    \* history: signatures about which the agent has said to unblock

A == INSTANCE Auditor WITH
       Ttls <- Terms, LastAlert <- MaxTime, MaxRestarts <- MaxAuditorRestarts,
       Faults <- AuditorFaults, pc <- apc, now <- anow, restarts <- arestarts

ASSUME VerdictAssumption == AuditVerdicts = Verdicts
ASSUME AuditorAssumption ==
  /\ SigOf \in [1..MaxAlerts -> Signatures] /\ Limit \in Nat \ {0}
  /\ SigTTL \in Nat \ {0} /\ KeyTTL \in Nat \ {0} /\ KeysHaveAdd \in BOOLEAN
  /\ LastFault \in Nat /\ MaxAuditorRestarts \in Nat /\ MaxTime > 0

enforcer == <<blacklist, bans, gate, manager, restarts>>
auditor  == <<audit_cache, audit_keys, sig_cache, seen, cur, low, res, asked,
              apc, anow, arestarts>>
sysvars  == <<vars, auditor, pardoned>>

-------------------------------------------------------------------------------
SysInit == Init /\ A!Init /\ pardoned = {}

GatekeeperProcess ==
  /\ Gatekeeper \/ Manager \/ Restart
  /\ UNCHANGED <<auditor, pardoned>>

Judge(v) ==
  /\ A!Answer(v)
  /\ pardoned' = IF v = "unblock" THEN pardoned \cup {A!Sig(cur)} ELSE pardoned

Audits ==
  \/ A!Read \/ A!Done \/ A!Skip \/ A!Claim \/ A!Hit \/ A!Miss
  \/ A!InquiryFails \/ A!LookAgain \/ A!Store \/ A!StoreFails

DashboardProcess ==
  /\ UNCHANGED enforcer
  /\ \/ \E v \in Verdicts : Judge(v)
     \/ (A!Serve \/ Audits \/ A!Restart) /\ UNCHANGED pardoned

SysNext ==
  \/ Tick /\ UNCHANGED <<auditor, pardoned>>
  \/ GatekeeperProcess
  \/ DashboardProcess

SysSpec == SysInit /\ [][SysNext]_sysvars

-------------------------------------------------------------------------------
(* Properties *)

(* The auditor does to the table what Enforcer expects of a dashboard, so that all
   that is shown of Enforcer holds of the system. *)
EnforcerServed == Spec

(* The gatekeeper process does to the table what Auditor expects, however late it
   writes an alert and whatever it is doing when it dies. *)
AuditorServed == A!Spec

(* An alert of the address has a signature about which the agent has said so. *)
Pardoned(ip) == \E i \in DOMAIN alerts : alerts[i].src_ip = ip /\ SigOf[i] \in pardoned

(* From end to end: an address leaves the map of a running gatekeeper before its
   term is over only if the agent has said to unblock the signature of one of its
   alerts, though maybe when asked about an alert of another address.
   Claims, caches, the table, unbans() and the lists of a round are in between, each
   with copies that outlive what they were made from, and failing calls. *)
EarlyLiftsJudged ==
  [][restarts' = restarts =>
       \A ip \in blacklist \ blacklist' :
         \/ ban_registry[ip] # 0 /\ ban_registry[ip] <= clock
         \/ Pardoned(ip)]_sysvars
===============================================================================
