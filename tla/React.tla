-------------------------------- MODULE React --------------------------------
(***************************************************************************)
(* One inquiry of the forensic agent: Engine.react and Engine.query of     *)
(* agent/engine.py.                                                        *)
(*                                                                         *)
(* The model behind the HTTP endpoint is unconstrained: an attempt may be  *)
(* answered, refused or fail, and a reply may hold any combination of the  *)
(* parts react looks for with its regular expressions.  Of a reply are     *)
(* kept: the tool its Action line names, whether it contains               *)
(* "Final Answer:", and which decision and classification it spells.       *)
(***************************************************************************)
EXTENDS Integers

CONSTANTS
  MaxSteps,   \* steps of the loop (5)
  Attempts    \* HTTP attempts of a query (5)

ASSUME StepAssumption == MaxSteps \in Nat \ {0} /\ Attempts \in Nat \ {0}

VARIABLES
  pc,         \* "post": in query; "reply": it returned; "returned", "raised": the end
  step,       \* loop variable; MaxSteps + 1 stands for the query after the loop
  attempt,    \* attempts the current query has made
  reply,      \* what query returned
  tools,      \* Observation entries of history
  unbans,     \* calls of execute_unban
  verdict     \* the dictionary react returns

vars == <<pc, step, attempt, reply, tools, unbans, verdict>>

(* What a reply can name and spell.  "other" is any name that is no tool, or any
   other word of capitals, which the regular expressions accept as well. *)
ToolNames       == {"execute_unban", "tool", "other"}
Decisions       == {"KEEP_BLOCK", "UNBLOCK", "other"}
\* (FALSE_POSITIVE stands for BENIGN as well: unbans() treats them alike.)
Classifications == {"TRUE_POSITIVE", "FALSE_POSITIVE", "MISCLASSIFIED_ATTACK", "other"}

Replies ==
  [action : ToolNames \cup {"none"}, final : BOOLEAN,
   decision : Decisions \cup {"none"}, class : Classifications \cup {"none"},
   misclass : BOOLEAN]   \* "misclass" occurs in the reason

NoReply == [action |-> "none", final |-> FALSE, decision |-> "none",
            class |-> "none", misclass |-> FALSE]

Verdict == [decision : Decisions, class : Classifications, steps : 1..MaxSteps]
NoVerdict == [decision |-> "none", class |-> "none", steps |-> 0]

-------------------------------------------------------------------------------
(* The verdict react builds from a reply: KEEP_BLOCK unless a decision is
   spelled, the classification that goes with the decision unless one is. *)
DecisionOf_Match(r) == r.decision
DecisionOf(r) == IF r.decision = "none" THEN "KEEP_BLOCK" ELSE r.decision

DefaultClass_Match(r) == IF r.decision = "KEEP_BLOCK" THEN "TRUE_POSITIVE" ELSE "FALSE_POSITIVE"
DefaultClass(r) ==
  IF DecisionOf(r) = "KEEP_BLOCK" THEN "TRUE_POSITIVE" ELSE "FALSE_POSITIVE"

ClassOf(r) ==
  LET class == IF r.class = "none" THEN DefaultClass(r) ELSE r.class
  IN  IF r.misclass /\ class = "TRUE_POSITIVE" THEN "MISCLASSIFIED_ATTACK" ELSE class

VerdictOf(r) == [decision |-> DecisionOf(r), class |-> ClassOf(r),
                 steps |-> IF step > MaxSteps THEN MaxSteps ELSE step]

(* What unbans() of common/storage.py makes of a stored verdict. *)
Lifts(v) == v.decision = "UNBLOCK" \/ v.class = "FALSE_POSITIVE"

-------------------------------------------------------------------------------
Init ==
  /\ pc = "post" /\ step = 1 /\ attempt = 0 /\ reply = NoReply
  /\ tools = 0 /\ unbans = 0 /\ verdict = NoVerdict

(* query: an attempt is refused, or its connection fails or times out. *)
PostFails ==
  /\ pc = "post" /\ attempt < Attempts
  /\ attempt' = attempt + 1
  /\ UNCHANGED <<pc, step, reply, tools, unbans, verdict>>

(* All attempts failed: query raises, and react does not catch it. *)
QueryRaises ==
  /\ pc = "post" /\ attempt = Attempts
  /\ pc' = "raised"
  /\ UNCHANGED <<step, attempt, reply, tools, unbans, verdict>>

(* Status 200, but the body holds no choices. *)
PostEmpty ==
  /\ pc = "post" /\ attempt < Attempts
  /\ attempt' = attempt + 1 /\ pc' = "raised"
  /\ UNCHANGED <<step, reply, tools, unbans, verdict>>

Post(r) ==
  /\ pc = "post" /\ attempt < Attempts
  /\ reply' = r /\ pc' = "reply" /\ attempt' = 0
  /\ UNCHANGED <<step, tools, unbans, verdict>>

InLoop == step <= MaxSteps

Ask == step' = step + 1 /\ pc' = "post" /\ reply' = NoReply

(* The reply names an action, which goes before a final answer in it.  dispatch
   never raises: a name that is no tool, too, yields an observation. *)
Act ==
  /\ pc = "reply" /\ InLoop /\ reply.action # "none"
  /\ tools' = tools + 1
  /\ unbans' = IF reply.action = "execute_unban" THEN unbans + 1 ELSE unbans
  /\ Ask
  /\ UNCHANGED <<attempt, verdict>>

(* tools counts every observation of dispatch, one for a name that is no tool too. *)
TooEarly == tools < 2 /\ step < MaxSteps

(* A final answer before two tools is turned down; history does not record it. *)
Reject_Again ==
  /\ pc = "reply" /\ InLoop /\ reply.action = "none" /\ reply.final /\ TooEarly
  /\ pc' = "post" /\ reply' = NoReply
  /\ UNCHANGED <<step, attempt, tools, unbans, verdict>>
Reject ==
  /\ pc = "reply" /\ InLoop /\ reply.action = "none" /\ reply.final /\ TooEarly
  /\ Ask
  /\ UNCHANGED <<attempt, tools, unbans, verdict>>

(* Neither an action nor an answer. *)
Remind_Free ==
  /\ pc = "reply" /\ InLoop /\ reply.action = "none" /\ ~reply.final
  /\ pc' = "post" /\ reply' = NoReply
  /\ UNCHANGED <<step, attempt, tools, unbans, verdict>>
Remind ==
  /\ pc = "reply" /\ InLoop /\ reply.action = "none" /\ ~reply.final
  /\ Ask
  /\ UNCHANGED <<attempt, tools, unbans, verdict>>

(* The reply is taken as the answer: in the loop if it says so, after the loop
   whatever it is.  To unblock, react calls execute_unban itself. *)
Accept ==
  /\ pc = "reply"
  /\ InLoop => reply.action = "none" /\ reply.final /\ ~TooEarly
  /\ verdict' = VerdictOf(reply)
  /\ unbans' = IF DecisionOf(reply) = "UNBLOCK" THEN unbans + 1 ELSE unbans
  /\ pc' = "returned"
  /\ UNCHANGED <<step, attempt, reply, tools>>

Next ==
  \/ PostFails \/ QueryRaises \/ PostEmpty
  \/ \E r \in Replies : Post(r)
  \/ Act \/ Reject \/ Remind \/ Accept

Spec == Init /\ [][Next]_vars

(* A call of requests.post ends, so steps are taken: its timeout of 60 s bounds every
   wait for the connection and for the next bytes of a reply, and that a reply has an
   end is assumed of the endpoint. *)
FairSpec == Spec /\ WF_vars(Next)

-------------------------------------------------------------------------------
(* Properties *)

TypeOK ==
  /\ pc \in {"post", "reply", "returned", "raised"}
  /\ step \in 1..(MaxSteps + 1) /\ attempt \in 0..Attempts
  /\ reply \in Replies
  /\ tools \in 0..MaxSteps /\ unbans \in 0..(MaxSteps + 1)
  /\ verdict \in Verdict \cup {NoVerdict}
  /\ pc = "returned" <=> verdict # NoVerdict

(* A reply that spells neither a decision nor a classification keeps the block:
   only what the model has written can lift a ban. *)
SilenceKeeps ==
  pc = "returned" /\ Lifts(verdict) =>
    reply.decision \in {"UNBLOCK", "other"} \/ reply.class = "FALSE_POSITIVE"

(* The outcome of the inquiry as the auditor sees it: an answer counts for what
   unbans() of the storage will make of it. *)
Outcome ==
  CASE pc = "returned" /\ Lifts(verdict)  -> "unblock"
    [] pc = "returned" /\ ~Lifts(verdict) -> "keep"
    [] pc = "raised"                      -> "raised"
    [] OTHER                              -> "open"

(* Whatever the model replies and the network does, an inquiry ends, with one
   answer that means either to keep or to lift the ban, or with one exception:
   every reply costs a step, every failure an attempt, and after the last step
   any reply is an answer. *)
AsInquiry == INSTANCE Inquiry WITH Answers <- {"keep", "unblock"}, outcome <- Outcome
InquiryEnds == AsInquiry!Spec

(* What an inquiry still has to spend: the steps to come, each worth all attempts
   of a query and its reply, and what is left of the present one. *)
Ended == pc \in {"returned", "raised"}
StepCost == Attempts + 3
Supply ==
  IF Ended THEN 0
  ELSE (MaxSteps + 1 - step) * StepCost
         + IF pc = "reply" THEN 1 ELSE Attempts - attempt + 2

(* Whatever the model replies and the network does, every step of an inquiry uses
   up some of a finite supply, so that the auditor, which inquires about one alert
   at a time, waits for a bounded number of posts. *)
StepsAreCounted == [][Supply' \in Nat /\ Supply' < Supply]_vars

(* agent/prompt.py:50, "KEEP_BLOCK - malicious pattern confirmed", and 45: only
   UNBLOCK lifts a ban. *)
OnlyUnblockLifts == pc = "returned" /\ Lifts(verdict) => verdict.decision = "UNBLOCK"
===============================================================================
