------------------------------ MODULE MCEvidence ------------------------------
(* Evidence with values for the constants a .cfg cannot write. *)
EXTENDS Evidence, TLC

CONSTANTS a, b, c, n1, n2

TwoNets == a :> n1 @@ b :> n1 @@ c :> n2

\* The two addresses of one network are alike.
Peers == Permutations({a, b})
===============================================================================
