------------------------------- MODULE MCSystem -------------------------------
(* System with values for the constants a .cfg cannot write. *)
EXTENDS System

Ttls13 == <<1, 3>>      \* a second ban long enough to be audited while it runs

OneSignature == [i \in 1..MaxAlerts |-> CHOOSE s \in Signatures : TRUE]
===============================================================================
