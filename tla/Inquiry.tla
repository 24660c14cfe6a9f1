-------------------------------- MODULE Inquiry --------------------------------
(***************************************************************************)
(* What the auditor relies on when it asks the agent about an alert: one   *)
(* answer or one exception, in the end.  The auditor has no timeout of its *)
(* own; while an inquiry is open its loop over the alerts stands still.    *)
(* React implements this, and the actions Answer and InquiryFails of       *)
(* Auditor are its two steps.                                              *)
(***************************************************************************)
CONSTANT Answers   \* what a stored answer can mean to unbans()

VARIABLE outcome   \* "open", an answer, or "raised"

Init == outcome = "open"

Answered == outcome = "open" /\ outcome' \in Answers

Raised == outcome = "open" /\ outcome' = "raised"

Next == Answered \/ Raised

Spec == Init /\ [][Next]_outcome /\ WF_outcome(Next)
===============================================================================
