------------------------------ MODULE Gatekeeper ------------------------------
(***************************************************************************)
(* The life of the gatekeeper process: main of detect/gatekeeper.py with   *)
(* load_xdp, load_whitelist and detach_xdp of prevent/enforcer.py, and the *)
(* kernel's side of it, the program of prevent/xdp.c on the interface.     *)
(*                                                                         *)
(* The program and its maps belong to the interface: they outlive a        *)
(* process that ends without detaching, until a later one attaches its own *)
(* program, with empty maps, in their place.  The maps of the attached     *)
(* program are the only ones modelled, for a process fills its own after   *)
(* it has attached.                                                        *)
(*                                                                         *)
(* Terms, offences, alerts and the rounds of the memory manager are in the *)
(* module Enforcer; here the map has room.                                 *)
(***************************************************************************)
EXTENDS Integers, FiniteSets

CONSTANTS
  IPs,           \* source addresses of flows and packets
  V6,            \* the IPv6 addresses among them
  Loopback,      \* the addresses 127.* among them
  Localhost,     \* 127.0.0.1
  Host,          \* the addresses of the interface
  OnLoopback,    \* whether the interface is lo
  Prefixes,      \* entries of the lists, networks in CIDR notation
  Malformed,     \* those that are not
  Covers,        \* the addresses of each network
  Downloads,     \* what load_whitelist fetches: three lists, and names to resolve
  Listed,        \* the entries of each of them
  Fallback,      \* what is taken in place of each that cannot be fetched
  Static,        \* the networks written in load_whitelist and _resolve_ips
  TrieSize,      \* max_entries of whitelist_map (2000)
  MaxLives       \* bound: number of processes

ASSUME AddressAssumption ==
  /\ V6 \subseteq IPs /\ Loopback \subseteq IPs \ V6 /\ Host \subseteq IPs \ V6
  /\ Localhost \in Loopback
  /\ OnLoopback \in BOOLEAN
ASSUME PrefixAssumption ==
  /\ Covers \in [Prefixes -> SUBSET (IPs \ V6)] /\ Static \subseteq Prefixes
  /\ Listed \in [Downloads -> SUBSET Prefixes]
  /\ Fallback \in [Downloads -> SUBSET Prefixes]
ASSUME BoundAssumption == TrieSize \in Nat /\ MaxLives \in Nat

VARIABLES
  pc,            \* where main is; "down": there is no process
  life,          \* number of the current or last process
  program,       \* the process whose program is attached to the interface, 0: none
  trie,          \* whitelist_map of the attached program
  blacklist,     \* blacklist_map of the attached program
  cidrs,         \* entries load_whitelist has still to enter
  py_whitelist,  \* the list check_whitelist looks in
  local_ips,     \* what get_ips found
  banned,        \* keys of ban_registry
  lifting,       \* the address unban_ip is between its two halves with, if any: a set
  abandoned      \* history: processes that were killed, interrupted in their end, or
                 \* could not detach

kernel == <<program, trie, blacklist>>
lists  == <<cidrs, py_whitelist, local_ips>>
bans   == <<banned, lifting>>
vars   == <<pc, life, kernel, lists, bans, abandoned>>

(* The steps of main before its try statement. *)
StartUp_Wide == {"load", "attach", "tables", "fetch", "fill", "models", "ips", "loop"}
StartUp == {"load", "attach", "tables", "fetch", "fill", "models", "ips"}

-------------------------------------------------------------------------------
(* xdp(): only packets of IPv4 are looked at, and the whitelist comes first. *)
Covered(nets, ip) == \E p \in nets : ip \in Covers[p]
Drops(ip) ==
  program # 0 /\ ip \notin V6 /\ ~Covered(trie, ip) /\ ip \in blacklist

(* The entries load_whitelist has when the downloads of ok have worked. *)
Wanted_NoFallback(ok) == Static \cup (UNION {Listed[d] : d \in ok})
Wanted(ok) ==
  Static \cup (UNION {IF d \in ok THEN Listed[d] ELSE Fallback[d] : d \in Downloads})

(* The classifier names an attack, or the isolation forest finds the flow deep
   in anomaly and its rates are those of a flood. *)
IsAttack(named, deep, flood) == named \/ (deep /\ flood)

-------------------------------------------------------------------------------
Init ==
  /\ pc = "down" /\ life = 0
  /\ program = 0 /\ trie = {} /\ blacklist = {}
  /\ cidrs = {} /\ py_whitelist = {} /\ local_ips = {}
  /\ banned = {} /\ lifting = {} /\ abandoned = {}

(* Enforcer(): a new process with empty lists. *)
Start ==
  /\ pc = "down" /\ life < MaxLives
  /\ pc' = "load" /\ life' = life + 1
  /\ cidrs' = {} /\ py_whitelist' = {} /\ local_ips' = {} /\ banned' = {} /\ lifting' = {}
  /\ UNCHANGED <<kernel, abandoned>>

Advance(from, to) == pc = from /\ pc' = to /\ UNCHANGED <<life, abandoned>>

(* load_xdp: compile, attach in native or else in generic mode, in the place of
   any other program, and look the maps up. *)
Compile == Advance("load", "attach") /\ UNCHANGED <<kernel, lists, bans>>
Attach ==
  /\ Advance("attach", "tables")
  /\ program' = life /\ trie' = {} /\ blacklist' = {}
  /\ UNCHANGED <<lists, bans>>
Tables == Advance("tables", "fetch") /\ UNCHANGED <<kernel, lists, bans>>

(* Any of it may raise: load_xdp returns False and main returns, without
   detaching what may be attached already. *)
LoadFails ==
  /\ \E s \in {"load", "attach", "tables"} : Advance(s, "down")
  /\ UNCHANGED <<kernel, lists, bans>>

-------------------------------------------------------------------------------
(* load_whitelist: any of the downloads may fail.  The entries are entered in
   some order (the code's is fixed). *)
Fetch ==
  /\ Advance("fetch", "fill")
  /\ \E ok \in SUBSET Downloads : cidrs' = Wanted(ok)
  /\ UNCHANGED <<kernel, py_whitelist, local_ips, bans>>

(* The next entry goes into the trie and then into the list, or into neither if
   it is malformed or the trie is full. *)
Accepted(p) == p \notin Malformed /\ Cardinality(trie) < TrieSize

Enter(p) ==
  /\ pc = "fill" /\ p \in cidrs
  /\ cidrs' = cidrs \ {p}
  /\ IF Accepted(p)
     THEN trie' = trie \cup {p} /\ py_whitelist' = py_whitelist \cup {p}
     ELSE UNCHANGED <<trie, py_whitelist>>
  /\ UNCHANGED <<pc, life, program, blacklist, local_ips, bans, abandoned>>

Filled == cidrs = {} /\ Advance("fill", "models") /\ UNCHANGED <<kernel, lists, bans>>

-------------------------------------------------------------------------------
(* load_models, which leaves through sys.exit when a file is missing *)
Models == Advance("models", "ips") /\ UNCHANGED <<kernel, lists, bans>>
ModelsMissing == Advance("models", "down") /\ UNCHANGED <<kernel, lists, bans>>

(* get_ips finds what `ip addr` prints, one address by ioctl, or none, and adds
   127.0.0.1. *)
GetIps ==
  /\ Advance("ips", "loop")
  /\ \E found \in {Host, {}} \cup {{h} : h \in Host} : local_ips' = found \cup {Localhost}
  /\ UNCHANGED <<kernel, cidrs, py_whitelist, bans>>

(* One flow that gets through all the filters of the loop, and is blocked.  (The
   others change nothing, and neither does one whose handling raises.)  block_ip
   holds the lock from the look-up in the map to the registry.  It finds the address
   in the map and returns, or does not find it, or the look-up fails: then it blocks
   an address that is blocked already. *)
Flow_Unchecked(ip, named, deep, flood) ==
  /\ pc = "loop"
  /\ ip \notin V6
  /\ OnLoopback \/ ip \notin local_ips
  /\ IsAttack(named, deep, flood)
  /\ blacklist' = blacklist \cup ({ip} \ Loopback)
  /\ banned' = banned \cup {ip}
  /\ UNCHANGED <<pc, life, program, trie, lists, lifting, abandoned>>
Flow_AnyKey(ip, named, deep, flood) ==
  /\ pc = "loop"
  /\ ip \notin V6
  /\ OnLoopback \/ ip \notin local_ips
  /\ IsAttack(named, deep, flood)
  /\ ~Covered(py_whitelist, ip)
  /\ blacklist' = blacklist \cup {ip}
  /\ banned' = banned \cup {ip}
  /\ UNCHANGED <<pc, life, program, trie, lists, lifting, abandoned>>
Flow(ip, named, deep, flood) ==
  /\ pc = "loop"
  /\ ip \notin V6
  /\ OnLoopback \/ ip \notin local_ips
  /\ IsAttack(named, deep, flood)
  /\ ~Covered(py_whitelist, ip)
  /\ blacklist' = blacklist \cup ({ip} \ Loopback)
  /\ banned' = banned \cup {ip}
  /\ UNCHANGED <<pc, life, program, trie, lists, lifting, abandoned>>

(* The memory manager, a thread of the process, lifts a ban: unban_ip deletes the
   key without the lock, which may fail unnoticed, ... *)
Unban(ip) ==
  /\ pc # "down" /\ ip \in banned /\ lifting = {}
  /\ blacklist' \in {blacklist \ {ip}, blacklist}
  /\ lifting' = {ip}
  /\ UNCHANGED <<pc, life, program, trie, lists, banned, abandoned>>

(* ... and then takes the lock for the registry. *)
Unregister ==
  /\ pc # "down" /\ lifting # {}
  /\ banned' = banned \ lifting
  /\ lifting' = {}
  /\ UNCHANGED <<pc, life, kernel, lists, abandoned>>

-------------------------------------------------------------------------------
(* Ways out *)

(* An interrupt, an error of the streamer or the end of its flows. *)
Stop == Advance("loop", "finally") /\ UNCHANGED <<kernel, lists, bans>>

(* detach_xdp, in whichever mode the program is attached. *)
Detach ==
  /\ Advance("finally", "down")
  /\ program' = 0 /\ trie' = {} /\ blacklist' = {}
  /\ UNCHANGED <<lists, bans>>

(* remove_xdp raises in both modes, which is ignored. *)
DetachFails ==
  /\ pc = "finally" /\ pc' = "down"
  /\ abandoned' = abandoned \cup {life}
  /\ UNCHANGED <<life, kernel, lists, bans>>

(* Another interrupt while main cleans up: it leaves the finally clause, for
   detach_xdp passes over nothing but Exception. *)
SecondInterrupt ==
  /\ pc = "finally" /\ pc' = "down"
  /\ abandoned' = abandoned \cup {life}
  /\ UNCHANGED <<life, kernel, lists, bans>>

(* An interrupt before the try statement of main. *)
Interrupt ==
  /\ pc \in StartUp /\ pc' = "down"
  /\ UNCHANGED <<life, kernel, lists, bans, abandoned>>

(* A signal Python has no handler for: no finally clause is run. *)
Kill ==
  /\ pc # "down" /\ pc' = "down"
  /\ abandoned' = abandoned \cup {life}
  /\ UNCHANGED <<life, kernel, lists, bans>>

-------------------------------------------------------------------------------
Next ==
  \/ Start \/ Compile \/ Attach \/ Tables \/ LoadFails
  \/ Fetch \/ (\E p \in Prefixes : Enter(p)) \/ Filled
  \/ Models \/ ModelsMissing \/ GetIps
  \/ \E ip \in IPs, named, deep, flood \in BOOLEAN : Flow(ip, named, deep, flood)
  \/ (\E ip \in IPs : Unban(ip)) \/ Unregister
  \/ Stop \/ Detach \/ DetachFails \/ SecondInterrupt \/ Interrupt \/ Kill

Spec == Init /\ [][Next]_vars

-------------------------------------------------------------------------------
(* Properties *)

TypeOK ==
  /\ pc \in StartUp \cup {"down", "loop", "finally"}
  /\ life \in 0..MaxLives /\ program \in 0..life /\ abandoned \subseteq 1..life
  /\ trie \subseteq Prefixes \ Malformed /\ py_whitelist \subseteq Prefixes \ Malformed
  /\ blacklist \subseteq IPs \ (V6 \cup Loopback)
  /\ cidrs \subseteq Prefixes
  /\ local_ips \subseteq Host \cup {Localhost}
  /\ banned \subseteq IPs \ V6 /\ lifting \subseteq banned

(* A ban the process has registered, and is not just lifting, takes effect on the
   interface: the program in place is its own, and its whitelist, which is looked
   at first, does not shadow the ban.  The whitelist is kept twice, and filled from
   lists that may be fetched in part or not fit. *)
BannedIsDropped ==
  pc = "loop" => \A ip \in banned \ (Loopback \cup lifting) : Drops(ip)

(* Whatever the interface drops, a program drops whose process serves the loop or
   is about to detach it: a process that fails in its start-up, is interrupted there,
   or takes the place of another one, leaves no address dropped behind.  Only one
   that is killed, interrupted a second time, or cannot remove its program does.
   (Whether the process still knows of the ban is a question for Enforcer.) *)
DropsAreOwned ==
  \A ip \in IPs : Drops(ip) =>
    \/ program \in abandoned
    \/ program = life /\ pc \in {"loop", "finally"}

(* The addresses that are whitelisted whatever downloads fail. *)
Essential ==
  {ip \in IPs : \/ Covered(Static \ Malformed, ip)
                \/ \E d \in Downloads : /\ Covered(Listed[d] \ Malformed, ip)
                                         /\ Covered(Fallback[d] \ Malformed, ip)}

(* The addresses load_whitelist enters in any case, itself or by the fallback of
   a download (enforcer.py:392-412: Fastly, Google's front ends, the metadata
   server), are never dropped, not even by a program without a process.  The
   trie must have room for the lists. *)
EssentialsPass == \A ip \in Essential : ~Drops(ip)
===============================================================================
