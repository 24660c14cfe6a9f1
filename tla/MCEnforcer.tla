------------------------------ MODULE MCEnforcer ------------------------------
(* Enforcer with values for the constants a .cfg cannot write. *)
EXTENDS Enforcer

Ttls12  == <<1, 2>>      \* two tiers: an escalation and the last tier
Ttls13  == <<1, 3>>      \* a second ban long enough to be audited while it runs
Ttls112 == <<1, 1, 2>>   \* three tiers, as in enforcer.py:36, last tier = window
===============================================================================
