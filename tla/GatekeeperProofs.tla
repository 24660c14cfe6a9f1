--------------------------- MODULE GatekeeperProofs ---------------------------
(* Proofs about Gatekeeper, for every set of addresses, networks and downloads,
   every size of the trie and any number of processes. *)
EXTENDS Gatekeeper, FiniteSetTheorems, TLAPS

Running == {"tables", "fetch", "fill", "models", "ips", "loop", "finally"}
Serving == {"loop", "finally"}

(* What ties the process to the kernel.  Once it has attached, the program in
   place is its own and the two whitelists are one; the bans it has registered, but
   for the one it is lifting, are on the blacklist, and none is whitelisted; and
   where no process serves the loop only an abandoned program drops anything. *)
Tied ==
  /\ pc # "down" => life > 0 /\ life \notin abandoned
  /\ pc \in Running => program = life /\ trie = py_whitelist
  /\ pc \in {"load", "attach"} => py_whitelist = {}
  /\ pc \in StartUp => banned = {}
  /\ pc \in Serving => banned \ Loopback \subseteq blacklist \cup lifting
  /\ pc = "loop" => \A ip \in banned : ~Covered(py_whitelist, ip)
  /\ \/ blacklist = {}
     \/ program \in abandoned
     \/ program = life /\ pc \in Serving

Inv == TypeOK /\ Tied

-------------------------------------------------------------------------------
LEMMA WantedType == \A ok \in SUBSET Downloads : Wanted(ok) \subseteq Prefixes
  BY PrefixAssumption DEF Wanted

LEMMA InvInit == Init => Inv
  BY BoundAssumption DEF Init, Inv, TypeOK, Tied, Running, Serving, StartUp

LEMMA InvNext == Inv /\ [Next]_vars => Inv'
<1> SUFFICES ASSUME Inv, [Next]_vars PROVE Inv'
  OBVIOUS
<1> USE BoundAssumption
    DEF Inv, TypeOK, Tied, Running, Serving, StartUp, Advance, kernel, lists, bans, vars
<1>1. CASE Start
  BY <1>1 DEF Start
<1>2. CASE Compile \/ Tables \/ Filled \/ Models
  BY <1>2 DEF Compile, Tables, Filled, Models
<1>3. CASE Attach
  BY <1>3 DEF Attach
<1>4. CASE LoadFails \/ ModelsMissing \/ Interrupt
  BY <1>4 DEF LoadFails, ModelsMissing, Interrupt
<1>5. CASE Fetch
  <2>1. cidrs' \subseteq Prefixes
    BY <1>5, WantedType DEF Fetch
  <2> QED BY <1>5, <2>1 DEF Fetch
<1>6. ASSUME NEW p \in Prefixes, Enter(p) PROVE Inv'
  BY <1>6 DEF Enter, Accepted
<1>7. CASE GetIps
  <2>1. local_ips' \subseteq Host \cup {Localhost}
    BY <1>7 DEF GetIps
  <2>2. pc = "ips" /\ pc' = "loop" /\ UNCHANGED <<life, abandoned, kernel, cidrs, py_whitelist, bans>>
    BY <1>7 DEF GetIps
  <2>3. TypeOK'
    BY <2>1, <2>2
  <2>4. Tied'
    BY <2>2 DEF Covered
  <2> QED BY <2>3, <2>4
<1>8. ASSUME NEW ip \in IPs, NEW named \in BOOLEAN, NEW deep \in BOOLEAN,
             NEW flood \in BOOLEAN, Flow(ip, named, deep, flood)
      PROVE  Inv'
  BY <1>8 DEF Flow, Covered
<1>9. ASSUME NEW ip \in IPs, Unban(ip) PROVE Inv'
  BY <1>9 DEF Unban, Covered
<1>14. CASE Unregister
  BY <1>14 DEF Unregister, Covered
<1>10. CASE Stop
  BY <1>10 DEF Stop
<1>11. CASE Detach
  BY <1>11 DEF Detach
<1>12. CASE DetachFails \/ SecondInterrupt \/ Kill
  <2>1. pc' = "down" /\ abandoned' = abandoned \cup {life} /\ life > 0
    BY <1>12 DEF DetachFails, SecondInterrupt, Kill
  <2>2. UNCHANGED <<life, kernel, lists, bans>>
    BY <1>12 DEF DetachFails, SecondInterrupt, Kill
  <2>3. abandoned' \subseteq 1..life'
    BY <2>1, <2>2
  <2>4. blacklist' = {} \/ program' \in abandoned'
    BY <2>1, <2>2
  <2> QED BY <2>1, <2>2, <2>3, <2>4
<1>13. CASE UNCHANGED vars
  BY <1>13 DEF Covered
<1> QED BY <1>1, <1>2, <1>3, <1>4, <1>5, <1>6, <1>7, <1>8, <1>9, <1>10, <1>11,
           <1>12, <1>13, <1>14 DEF Next

LEMMA InvHolds == Spec => []Inv
  BY InvInit, InvNext, PTL DEF Spec

(* The state of the process and of the kernel is well typed; in particular the
   blacklist never holds an address the XDP program could not drop. *)
THEOREM TypeCorrect == Spec => []TypeOK
<1>1. Inv => TypeOK
  BY DEF Inv
<1> QED BY <1>1, InvHolds, PTL

(* A registered ban takes effect on the interface, however small the trie is and
   whatever the downloads give. *)
THEOREM BansAgree == Spec => []BannedIsDropped
<1>1. Inv => BannedIsDropped
  <2> SUFFICES ASSUME Inv, pc = "loop",
                      NEW ip \in banned \ (Loopback \cup lifting)
               PROVE  Drops(ip)
    BY DEF BannedIsDropped
  <2>1. program # 0 /\ ip \notin V6 /\ ip \in blacklist
    BY DEF Inv, TypeOK, Tied, Running, Serving
  <2>2. ~Covered(trie, ip)
    BY DEF Inv, Tied, Running
  <2> QED BY <2>1, <2>2 DEF Drops
<1> QED BY <1>1, InvHolds, PTL

(* Whatever the interface drops, it drops for a process that serves the loop or is
   about to detach, or it was left by a process that was killed, interrupted a second
   time, or could not remove its program. *)
THEOREM NoDropLeftBehind == Spec => []DropsAreOwned
<1>1. Inv => DropsAreOwned
  BY DEF Inv, Tied, DropsAreOwned, Drops, Serving
<1> QED BY <1>1, InvHolds, PTL

-------------------------------------------------------------------------------
(* A trie with room for every network refuses no new one. *)
LEMMA RoomForAll ==
  ASSUME IsFiniteSet(Prefixes), Cardinality(Prefixes) <= TrieSize,
         TypeOK, NEW p \in Prefixes \ Malformed, p \notin trie
  PROVE  Accepted(p)
<1>1. trie \in SUBSET (Prefixes \ {p})
  BY DEF TypeOK
<1>2. IsFiniteSet(Prefixes \ {p}) /\ Cardinality(Prefixes \ {p}) = Cardinality(Prefixes) - 1
  BY FS_RemoveElement
<1>3. IsFiniteSet(trie) /\ Cardinality(trie) <= Cardinality(Prefixes \ {p})
  BY <1>1, <1>2, FS_Subset
<1>4. Cardinality(Prefixes) \in Nat /\ Cardinality(trie) \in Nat
  BY <1>3, FS_CardinalityType
<1> QED BY <1>2, <1>3, <1>4, BoundAssumption DEF Accepted

(* No essential address is blacklisted, by whatever process, because from the
   download on each of them is covered by what is entered or still to be. *)
Guarded ==
  /\ blacklist \cap Essential = {}
  /\ pc \in {"fill", "models", "ips", "loop"} =>
       \A ip \in Essential : Covered((cidrs \ Malformed) \cup trie, ip)
  /\ pc \in {"models", "ips", "loop"} => cidrs = {}

LEMMA EssentialIsWanted ==
  \A ok \in SUBSET Downloads : \A ip \in Essential : Covered(Wanted(ok) \ Malformed, ip)
  BY DEF Essential, Covered, Wanted

LEMMA GuardedInit == Init => Guarded
  BY DEF Init, Guarded

LEMMA GuardedNext ==
  ASSUME IsFiniteSet(Prefixes), Cardinality(Prefixes) <= TrieSize,
         Inv, Guarded, [Next]_vars
  PROVE  Guarded'
<1> USE DEF Guarded, Advance, kernel, lists, bans, vars
<1>0. Essential' = Essential
  BY DEF Essential, Covered
<1>1. CASE Start \/ Compile \/ Tables \/ Attach \/ LoadFails
  BY <1>0, <1>1 DEF Start, Compile, Tables, Attach, LoadFails
<1>2. CASE Fetch
  <2>1. \A ip \in Essential : Covered(cidrs' \ Malformed, ip)
    BY <1>2, EssentialIsWanted DEF Fetch
  <2> QED BY <1>0, <1>2, <2>1 DEF Fetch, Covered
<1>3. ASSUME NEW p \in Prefixes, Enter(p) PROVE Guarded'
  <2>1. (cidrs \ Malformed) \cup trie \subseteq (cidrs' \ Malformed) \cup trie'
    BY <1>3, RoomForAll DEF Enter, Inv
  <2>2. \A ip \in Essential : Covered((cidrs' \ Malformed) \cup trie', ip)
    BY <1>3, <2>1 DEF Enter, Covered
  <2> QED BY <1>0, <1>3, <2>2 DEF Enter, Covered
<1>4. CASE Filled \/ Models \/ ModelsMissing \/ GetIps
  BY <1>0, <1>4 DEF Filled, Models, ModelsMissing, GetIps, Covered
<1>5. ASSUME NEW ip \in IPs, NEW named \in BOOLEAN, NEW deep \in BOOLEAN,
             NEW flood \in BOOLEAN, Flow(ip, named, deep, flood)
      PROVE  Guarded'
  <2>1. pc = "loop" /\ ~Covered(py_whitelist, ip) /\ trie = py_whitelist /\ cidrs = {}
    BY <1>5 DEF Flow, Inv, Tied, Running
  <2>2. ip \notin Essential
    BY <2>1 DEF Covered
  <2> QED BY <1>0, <1>5, <2>2 DEF Flow, Covered
<1>6. CASE Unregister \/ \E ip \in IPs : Unban(ip)
  BY <1>0, <1>6 DEF Unregister, Unban, Covered
<1>7. CASE Stop \/ Detach \/ DetachFails \/ SecondInterrupt \/ Interrupt \/ Kill
  BY <1>0, <1>7 DEF Stop, Detach, DetachFails, SecondInterrupt, Interrupt, Kill
<1>8. CASE UNCHANGED vars
  BY <1>0, <1>8 DEF Covered
<1> QED BY <1>1, <1>2, <1>3, <1>4, <1>5, <1>6, <1>7, <1>8 DEF Next

(* If the trie has room for all networks, the addresses that load_whitelist enters
   in any case are never dropped, whichever downloads fail and however processes
   end. *)
THEOREM EssentialsAlwaysPass ==
  ASSUME IsFiniteSet(Prefixes), Cardinality(Prefixes) <= TrieSize
  PROVE  Spec => []EssentialsPass
<1>1. Inv /\ Guarded /\ [Next]_vars => (Inv /\ Guarded)'
  BY InvNext, GuardedNext
<1>2. Guarded => EssentialsPass
  BY DEF Guarded, EssentialsPass, Drops
<1> QED BY <1>1, <1>2, InvInit, GuardedInit, PTL DEF Spec
===============================================================================
