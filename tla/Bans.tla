--------------------------------- MODULE Bans ---------------------------------
(***************************************************************************)
(* What a ban is, seen from outside the gatekeeper process: an address     *)
(* that the process knows to be banned and an address whose packets the    *)
(* interface drops, imposed and lifted as one.  Enforcer implements Spec   *)
(* with two threads, a lock and a map of the kernel, and WholeSpec as long *)
(* as nothing comes in the way of unban_ip.                                *)
(***************************************************************************)
CONSTANTS
  IPs,
  Loopback     \* addresses that are banned in name only

VARIABLES
  banned,      \* addresses whose ban the process knows of, and will lift
  dropped      \* addresses the interface drops

Init == banned = {} /\ dropped = {}

(* Only an address that is not dropped yet is banned. *)
Imposed(ip) ==
  /\ ip \notin dropped
  /\ banned' = banned \cup {ip}
  /\ dropped' = dropped \cup ({ip} \ Loopback)

(* Only a ban that is known of is lifted. *)
Lifted(ip) ==
  /\ ip \in banned
  /\ banned' = banned \ {ip}
  /\ dropped' = dropped \ {ip}

(* The process is started again, and its program with empty maps takes the place of
   the earlier one. *)
Reset == banned' = {} /\ dropped' = {}

Whole == (\E ip \in IPs : Imposed(ip) \/ Lifted(ip)) \/ Reset

(* The one way for the two to part: the process forgets a ban that goes on. *)
Orphaned(ip) ==
  /\ ip \in banned /\ ip \in dropped
  /\ banned' = banned \ {ip}
  /\ UNCHANGED dropped

Next == Whole \/ \E ip \in IPs : Orphaned(ip)

Spec == Init /\ [][Next]_<<banned, dropped>>

(* Bans as they should be. *)
WholeSpec == Init /\ [][Whole]_<<banned, dropped>>
===============================================================================
