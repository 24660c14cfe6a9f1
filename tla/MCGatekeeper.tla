----------------------------- MODULE MCGatekeeper -----------------------------
(* Gatekeeper with values for the constants a .cfg cannot write: one downloaded
   list with a fallback (Fastly) and one without, and a static network. *)
EXTENDS Gatekeeper

CONSTANTS out, cdn, cloud, meta, six, host, lo, lo2   \* addresses
CONSTANTS cdnNet, cloudNet, metaNet, junk        \* entries
CONSTANTS fastly, goog                           \* downloads

Networks ==
  [p \in Prefixes |-> CASE p = cdnNet -> {cdn} [] p = cloudNet -> {cloud}
                        [] p = metaNet -> {meta} [] OTHER -> {}]
Lists     == [d \in Downloads |-> IF d = fastly THEN {cdnNet} ELSE {cloudNet, junk}]
Fallbacks == [d \in Downloads |-> IF d = fastly THEN {cdnNet} ELSE {}]
===============================================================================
