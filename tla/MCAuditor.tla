------------------------------ MODULE MCAuditor ------------------------------
(* Auditor with values for the constants a .cfg cannot write. *)
EXTENDS Auditor

OneSignature == [i \in 1..MaxAlerts |-> CHOOSE s \in Signatures : TRUE]
===============================================================================
