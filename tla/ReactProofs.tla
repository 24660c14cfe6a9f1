----------------------------- MODULE ReactProofs -----------------------------
(* Proofs about React, for every number of steps and attempts. *)
EXTENDS React, TLAPS

(* A step of the loop has been spent on every observation, and an observation on
   every unban but the last; a verdict was built from the last reply. *)
Inv ==
  /\ TypeOK
  /\ tools < step
  /\ pc # "returned" => verdict = NoVerdict /\ unbans <= tools
  /\ pc = "returned" => verdict = VerdictOf(reply)

(* Every reply yields a well-formed verdict, whatever it spells. *)
LEMMA VerdictType ==
  ASSUME NEW r \in Replies, step \in 1..(MaxSteps + 1)
  PROVE  VerdictOf(r) \in Verdict
<1>1. DecisionOf(r) \in Decisions
  BY DEF DecisionOf, Replies, Decisions
<1>2. ClassOf(r) \in Classifications
  BY DEF ClassOf, DefaultClass, Replies, Classifications
<1> QED BY <1>1, <1>2, StepAssumption DEF VerdictOf, Verdict

LEMMA NoVerdictIsNone == NoVerdict \notin Verdict
  BY DEF NoVerdict, Verdict, Decisions

LEMMA NoReplyType == NoReply \in Replies
  BY DEF NoReply, Replies

LEMMA InvInit == Init => Inv
  BY NoReplyType, NoVerdictIsNone, StepAssumption DEF Init, Inv, TypeOK

LEMMA InvNext == Inv /\ [Next]_vars => Inv'
<1> SUFFICES ASSUME Inv, [Next]_vars PROVE Inv'
  OBVIOUS
<1> USE StepAssumption, NoReplyType, NoVerdictIsNone DEF Inv, TypeOK
<1>1. CASE PostFails
  BY <1>1 DEF PostFails
<1>2. CASE QueryRaises
  BY <1>2 DEF QueryRaises
<1>3. CASE PostEmpty
  BY <1>3 DEF PostEmpty
<1>4. ASSUME NEW r \in Replies, Post(r) PROVE Inv'
  BY <1>4 DEF Post
<1>5. CASE Act
  <2>1. step' \in 1..(MaxSteps + 1) /\ tools' \in 0..MaxSteps /\ tools' < step'
    BY <1>5 DEF Act, Ask, InLoop
  <2>2. unbans' \in 0..(MaxSteps + 1) /\ unbans' <= tools'
    BY <1>5, <2>1 DEF Act
  <2> QED BY <1>5, <2>1, <2>2 DEF Act, Ask
<1>6. CASE Reject
  BY <1>6 DEF Reject, Ask, InLoop
<1>7. CASE Remind
  BY <1>7 DEF Remind, Ask, InLoop
<1>8. CASE Accept
  <2>1. verdict' = VerdictOf(reply) /\ verdict' \in Verdict /\ reply' = reply
    BY <1>8, VerdictType DEF Accept
  <2>2. step' = step /\ VerdictOf(reply)' = VerdictOf(reply)
    BY <1>8 DEF Accept, VerdictOf, DecisionOf, ClassOf, DefaultClass
  <2>3. unbans' \in 0..(MaxSteps + 1)
    BY <1>8 DEF Accept, DecisionOf
  <2> QED BY <1>8, <2>1, <2>2, <2>3 DEF Accept
<1>9. CASE UNCHANGED vars
  BY <1>9 DEF vars, VerdictOf, DecisionOf, ClassOf, DefaultClass
<1> QED BY <1>1, <1>2, <1>3, <1>4, <1>5, <1>6, <1>7, <1>8, <1>9 DEF Next

(* Type correctness of an inquiry: whatever a reply spells, the verdict is one of
   the well-formed ones, and there is one exactly when react has returned. *)
THEOREM TypeCorrect == Spec => []TypeOK
<1>1. Inv => TypeOK
  BY DEF Inv
<1> QED BY <1>1, InvInit, InvNext, PTL DEF Spec

(* A reply that spells no decision and no classification never lifts a ban. *)
THEOREM SilentRepliesKeep == Spec => []SilenceKeeps
<1>1. Inv => SilenceKeeps
  <2> SUFFICES ASSUME Inv, pc = "returned", Lifts(verdict)
               PROVE  reply.decision \in {"UNBLOCK", "other"} \/ reply.class = "FALSE_POSITIVE"
    BY DEF SilenceKeeps
  <2>1. Lifts(VerdictOf(reply)) /\ reply \in Replies
    BY DEF Inv, TypeOK
  <2>2. DecisionOf(reply) = "UNBLOCK" \/ ClassOf(reply) = "FALSE_POSITIVE"
    BY <2>1 DEF Lifts, VerdictOf
  <2> QED BY <2>1, <2>2
           DEF DecisionOf, ClassOf, DefaultClass, Replies, Decisions, Classifications
<1> QED BY <1>1, InvInit, InvNext, PTL DEF Spec

-------------------------------------------------------------------------------
(* The inquiry as the auditor sees it *)

LEMMA InquiryInit == Init => AsInquiry!Init
  BY DEF Init, AsInquiry!Init, Outcome

LEMMA InquiryStep ==
  ASSUME Inv, [Next]_vars PROVE [AsInquiry!Next]_Outcome
<1> USE DEF Outcome, AsInquiry!Next, AsInquiry!Answered, AsInquiry!Raised
<1>1. CASE PostFails
  BY <1>1 DEF PostFails
<1>2. CASE QueryRaises \/ PostEmpty
  BY <1>2 DEF QueryRaises, PostEmpty
<1>3. ASSUME NEW r \in Replies, Post(r) PROVE UNCHANGED Outcome
  BY <1>3 DEF Post
<1>4. CASE Act \/ Reject \/ Remind
  BY <1>4 DEF Act, Reject, Remind, Ask
<1>5. CASE Accept
  BY <1>5 DEF Accept
<1>6. CASE UNCHANGED vars
  BY <1>6 DEF vars
<1> QED BY <1>1, <1>2, <1>3, <1>4, <1>5, <1>6 DEF Next

(* The safety half of InquiryEnds: an inquiry has one outcome and keeps it, for
   every number of steps and attempts.  That it has one in the end is left to
   the run, for it rests on fairness. *)
THEOREM OneOutcome == Spec => AsInquiry!Init /\ [][AsInquiry!Next]_Outcome
  BY InvInit, InvNext, InquiryInit, InquiryStep, PTL DEF Spec

-------------------------------------------------------------------------------
(* The end of an inquiry *)

LEMMA OneStepLess ==
  ASSUME NEW k \in Nat, NEW c \in Nat PROVE (k + 1) * c = k * c + c
  OBVIOUS

(* The next step of the loop costs more than its attempts are worth. *)
LEMMA AskSpends ==
  ASSUME Inv, pc = "reply", InLoop, Ask, UNCHANGED attempt
  PROVE  Supply' < Supply
<1> DEFINE k == MaxSteps - step
<1>1. /\ k \in Nat /\ MaxSteps + 1 - step = k + 1 /\ MaxSteps + 1 - step' = k
      /\ StepCost \in Nat /\ StepCost' = StepCost /\ attempt \in Nat
      /\ MaxSteps \in Nat /\ step \in Nat
  BY StepAssumption DEF Inv, TypeOK, InLoop, Ask, StepCost
<1>2. Supply = (k + 1) * StepCost + 1 /\ Supply' = k * StepCost + (Attempts - attempt + 2)
  BY <1>1 DEF Supply, Ended, Ask
<1>3. k * StepCost \in Nat /\ (k + 1) * StepCost = k * StepCost + StepCost
  BY <1>1, OneStepLess
<1> HIDE DEF k
<1> QED BY <1>1, <1>2, <1>3, StepAssumption DEF StepCost

(* Within a step of the loop the attempts go down, and the reply comes after them. *)
LEMMA SupplyFalls ==
  ASSUME Inv, [Next]_vars, vars' # vars
  PROVE  Supply' < Supply
<1> DEFINE rest == (MaxSteps + 1 - step) * StepCost
<1>0. /\ rest \in Nat /\ attempt \in Nat /\ attempt <= Attempts /\ Attempts \in Nat
  <2>1. MaxSteps + 1 - step \in Nat /\ StepCost \in Nat
    BY StepAssumption DEF Inv, TypeOK, StepCost
  <2> QED BY <2>1, StepAssumption DEF Inv, TypeOK
<1>1. CASE PostFails
  <2>1. rest' = rest
    BY <1>1 DEF PostFails, StepCost
  <2> HIDE DEF rest
  <2>2. Supply = rest + (Attempts - attempt + 2)
        /\ Supply' = rest + (Attempts - (attempt + 1) + 2)
    BY <1>1, <2>1 DEF PostFails, Supply, Ended, rest
  <2> QED BY <1>0, <2>2
<1>2. CASE QueryRaises \/ PostEmpty \/ Accept
  <2>1. Supply' = 0
    BY <1>2 DEF QueryRaises, PostEmpty, Accept, Supply, Ended
  <2>2. Supply = rest + 1 \/ Supply = rest + (Attempts - attempt + 2)
    BY <1>2 DEF QueryRaises, PostEmpty, Accept, Supply, Ended
  <2> HIDE DEF rest
  <2> QED BY <1>0, <2>1, <2>2
<1>3. ASSUME NEW r \in Replies, Post(r) PROVE Supply' < Supply
  <2>1. rest' = rest
    BY <1>3 DEF Post, StepCost
  <2> HIDE DEF rest
  <2>2. Supply = rest + (Attempts - attempt + 2) /\ Supply' = rest + 1
    BY <1>3, <2>1 DEF Post, Supply, Ended, rest
  <2>3. attempt < Attempts
    BY <1>3 DEF Post
  <2> QED BY <1>0, <2>2, <2>3
<1>4. CASE Act \/ Reject \/ Remind
  BY <1>4, AskSpends DEF Act, Reject, Remind
<1> QED BY <1>1, <1>2, <1>3, <1>4 DEF Next

(* A supply is a number. *)
LEMMA SupplyIsNat == Inv => Supply \in Nat
<1> SUFFICES ASSUME Inv PROVE Supply \in Nat
  OBVIOUS
<1> DEFINE rest == (MaxSteps + 1 - step) * StepCost
<1>1. MaxSteps + 1 - step \in Nat /\ StepCost \in Nat
  BY StepAssumption DEF Inv, TypeOK, StepCost
<1>2. rest \in Nat /\ Attempts - attempt + 2 \in Nat
  BY <1>1, StepAssumption DEF Inv, TypeOK
<1>3. Supply = 0 \/ Supply = rest + 1 \/ Supply = rest + (Attempts - attempt + 2)
  BY DEF Supply
<1> HIDE DEF rest
<1> QED BY <1>2, <1>3

(* Every step of an inquiry costs some of what it has to spend, for every number of
   steps and attempts: with the fairness of FairSpec, this is why it ends. *)
THEOREM InquirySpends == Spec => StepsAreCounted
<1> DEFINE Number == Supply \in Nat
           Spent  == Number' /\ Supply' < Supply
<1>1. Inv /\ [Next]_vars => [Supply' < Supply]_vars
  BY SupplyFalls
<1>2. Inv => Number
  BY SupplyIsNat
<1> HIDE DEF Number
<1>3. Number' /\ [Supply' < Supply]_vars => [Spent]_vars
  OBVIOUS
<1> HIDE DEF Spent
<1>4. Spec => [][Spent]_vars
  BY <1>1, <1>2, <1>3, InvInit, InvNext, PTL DEF Spec
<1>5. [Spent]_vars => [Supply' \in Nat /\ Supply' < Supply]_vars
  BY DEF Spent, Number
<1> QED BY <1>4, <1>5, PTL DEF StepsAreCounted
===============================================================================
