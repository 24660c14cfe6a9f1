---------------------------- MODULE EvidenceProofs ----------------------------
(***************************************************************************)
(* Proofs about Evidence, for any number of addresses and alerts, any      *)
(* limits of the tools and any failures of the two stores.                 *)
(***************************************************************************)
EXTENDS Evidence, FiniteSetTheorems, SequenceTheorems, WellFoundedInduction, TLAPS

-------------------------------------------------------------------------------
(* ORDER BY timestamp DESC LIMIT n *)

LEMMA SmallestNumber ==
  ASSUME NEW T \in SUBSET Nat, T # {}
  PROVE  \E m \in T : \A j \in T : m <= j
<1>1. PICK m \in T : \A j \in T : ~ (<<j, m>> \in OpToRel(<, Nat))
  BY NatLessThanWellFounded, WFMin
<1>2. \A j \in T : ~ (j < m)
  BY <1>1 DEF OpToRel
<1> QED BY <1>2

LEMMA LargestNumber ==
  ASSUME NEW N \in Nat, NEW T \in SUBSET (1..N), T # {}
  PROVE  \E m \in T : \A j \in T : j <= m
<1> DEFINE below == {N - j : j \in T}
<1>1. below \in SUBSET Nat /\ below # {}
  <2>1. \A j \in T : N - j \in Nat /\ N - j \in below
    OBVIOUS
  <2>2. \E j \in T : TRUE
    OBVIOUS
  <2> QED BY <2>1, <2>2
<1>2. PICK d \in below : \A e \in below : d <= e
  BY <1>1, SmallestNumber, Zenon
<1>3. PICK m \in T : d = N - m
  OBVIOUS
<1>4. \A j \in T : N - m <= N - j
  BY <1>2, <1>3
<1> QED BY <1>4

LEMMA LastOfThem == \A S, n : Last(S, n) \subseteq S
  BY DEF Last

(* An alert that is not among the n newest of its selection has n newer ones in the
   answer: the limit is used up. *)
LEMMA LastIsFull ==
  ASSUME NEW N \in Nat, NEW S \in SUBSET (1..N), NEW n \in Nat,
         NEW k \in S, k \notin Last(S, n)
  PROVE  Newer(Last(S, n), k) >= n
<1> DEFINE T == {j \in S : j > k}
           F == {j \in Last(S, n) : j > k}
<1>1. \A U \in SUBSET (1..N) : IsFiniteSet(U) /\ Cardinality(U) \in Nat
  <2>1. IsFiniteSet(1..N)
    BY FS_Interval
  <2>2. \A U \in SUBSET (1..N) : IsFiniteSet(U)
    BY <2>1, FS_Subset
  <2> QED BY <2>2, FS_CardinalityType
<1>2. T \in SUBSET (1..N) /\ F \in SUBSET T
  BY LastOfThem
<1>3. Cardinality(T) \in Nat /\ Cardinality(F) \in Nat /\ IsFiniteSet(T) /\ IsFiniteSet(F)
  BY <1>1, <1>2
<1>4. Cardinality(T) >= n
  BY <1>3 DEF Last
<1>5. SUFFICES ASSUME Cardinality(F) < n PROVE FALSE
  BY <1>3 DEF Newer
<1>6. T \ F # {} /\ T \ F \in SUBSET (1..N)
  BY <1>2, <1>3, <1>4, <1>5
<1>7. PICK m \in T \ F : \A j \in T \ F : j <= m
  BY <1>6, LargestNumber
<1> DEFINE U == {j \in S : j > m}
<1>8. m \in S /\ m \in Nat /\ k \in Nat /\ m > k
  OBVIOUS
<1>9. U \in SUBSET F
  <2> SUFFICES ASSUME NEW j \in U PROVE j \in F
    OBVIOUS
  <2>1. j \in Nat /\ j > m
    OBVIOUS
  <2>2. j \in T /\ ~ (j <= m)
    BY <1>8, <2>1
  <2> HIDE DEF T, F, U
  <2> QED BY <1>7, <2>2
<1>10. Cardinality(U) <= Cardinality(F) /\ Cardinality(U) \in Nat
  BY <1>3, <1>9, FS_Subset, FS_CardinalityType
<1>11. Cardinality(U) < n
  BY <1>3, <1>5, <1>10
<1>12. m \in Last(S, n)
  BY <1>8, <1>11 DEF Last
<1> QED BY <1>7, <1>8, <1>12

-------------------------------------------------------------------------------
(* The invariant *)

Store(name) == IF name = "table" THEN table ELSE log

(* An answer is a selection from what a store held at some moment since the call. *)
Selected ==
  tpc \in {"list", "answer"} /\ source # "none" =>
    \E S \in SUBSET Store(source) : known[source] \subseteq S /\ rows = Select(S, source)

(* A line is written only after its row; a tool keeps of what it has read only
   what it is going to answer. *)
EvidenceInv ==
  /\ TypeOK
  /\ log \subseteq table \cup 1..old
  /\ rpc = "append" => Len(alerts) \in table
  /\ known["table"] \subseteq table /\ known["log"] \subseteq log
  /\ tpc \notin {"list", "answer"} => source = "none" /\ rows = {}
  /\ tpc # "answer" => listed = {}
  /\ tpc = "list" => tool \in TwoQueries /\ source = "table"
  /\ rows \cup listed \subseteq table \cup 1..old
  /\ tpc = "answer" => rows \subseteq listed
  /\ tpc = "answer" /\ source = "none" => rows = {} \/ tool = "read_metrics"
  /\ Selected

LEMMA Limits == MaxLines \in Nat \ {0} /\ FlowLines \in Nat \ {0}
  BY LinesAssumption

LEMMA SelectsFrom == \A S, store : Select(S, store) \subseteq S
  BY LastOfThem DEF Select

LEMMA RowNumbers == TypeOK => Len(alerts) \in Nat /\ Numbers = 1..Len(alerts)
  BY LenProperties DEF TypeOK, Numbers

(* The statements of search_history and read_metrics have no LIMIT. *)
LEMMA SelectsAll ==
  ASSUME tool \in TwoQueries, NEW S, NEW T, S \subseteq T, NEW store
  PROVE  Select(S, store) \subseteq Select(T, store)
<1>1. tool # "read_alert" /\ tool # "read_flow"
  BY DEF TwoQueries
<1> QED BY <1>1 DEF Select

(* A selection depends on nothing but the addresses of the alerts selected from. *)
LEMMA SelectKept ==
  ASSUME tool' = tool, arg' = arg, NEW S, \A k \in S : alerts'[k] = alerts[k], NEW store
  PROVE  Select(S, store)' = Select(S, store)
<1> DEFINE matching == {k \in S : About(alerts[k], store)}
<1>1. \A k \in S : About(alerts[k], store)' <=> About(alerts[k], store)
  BY DEF About, InNet
<1>2. {k \in S : About(alerts[k], store)'} = matching
  BY <1>1
<1> QED BY <1>2 DEF Select, Last

LEMMA EvidenceInit == Init => EvidenceInv
<1> SUFFICES ASSUME Init PROVE EvidenceInv
  OBVIOUS
<1>1. old \in Nat /\ alerts \in Seq(IPs) /\ Len(alerts) = old
  BY BoundAssumption, LenProperties, SeqDef DEF Init
<1>2. Numbers = 1..old
  BY <1>1, LenProperties DEF Numbers
<1> QED BY <1>1, <1>2 DEF Init, EvidenceInv, TypeOK, Nothing, Selected

(* The recorder adds to the stores and leaves the call alone. *)
LEMMA RecorderStep ==
  ASSUME EvidenceInv, Recorder PROVE EvidenceInv'
<1> USE DEF EvidenceInv, TypeOK, call
<1>0. Len(alerts) \in Nat /\ Numbers = 1..Len(alerts)
  BY RowNumbers
<1>1. UNCHANGED call /\ UNCHANGED old
  BY DEF Recorder, Record, Commit, CommitFails, AppendLine, AppendFails
<1> DEFINE Longer == /\ alerts' \in Seq(IPs) /\ Len(alerts) <= Len(alerts')
                     /\ Len(alerts') \in Nat
                     /\ Numbers' = 1..Len(alerts') /\ Numbers \subseteq Numbers'
                     /\ \A k \in Numbers : alerts'[k] = alerts[k]
<1>2. Longer
  <2>1. CASE UNCHANGED alerts
    BY <1>0, <2>1 DEF Numbers
  <2>2. ASSUME NEW ip \in IPs, alerts' = Append(alerts, ip)
        PROVE  Longer
    BY <1>0, <2>2 DEF Numbers
  <2> QED BY <2>1, <2>2 DEF Recorder, Record, Commit, CommitFails, AppendLine, AppendFails
<1> DEFINE Fuller == /\ table \subseteq table' /\ table' \subseteq Numbers'
                     /\ log \subseteq log' /\ log' \subseteq Numbers'
                     /\ log' \subseteq table' \cup 1..old
                     /\ rpc' \in {"idle", "insert", "append"}
                     /\ rpc' # "idle" => Len(alerts') > 0
                     /\ rpc' = "append" => Len(alerts') \in table'
<1>3. Fuller
  <2>1. ASSUME NEW ip \in IPs, Record(ip) PROVE Fuller
    BY <1>0, <1>2, <2>1 DEF Record
  <2>2. CASE Commit
    BY <1>0, <2>2 DEF Commit, Numbers
  <2>3. CASE CommitFails
    BY <1>2, <2>3 DEF CommitFails
  <2>4. CASE AppendLine
    BY <1>0, <1>2, <2>4 DEF AppendLine
  <2>5. CASE AppendFails
    BY <1>2, <2>5 DEF AppendFails
  <2> QED BY <2>1, <2>2, <2>3, <2>4, <2>5 DEF Recorder
<1>4. Selected'
  <2> SUFFICES ASSUME tpc \in {"list", "answer"}, source # "none"
               PROVE  \E S \in SUBSET Store(source)' :
                        known[source] \subseteq S /\ rows = Select(S, source)'
    BY <1>1 DEF Selected
  <2>1. PICK S \in SUBSET Store(source) : known[source] \subseteq S /\ rows = Select(S, source)
    BY DEF Selected
  <2>2. S \in SUBSET Store(source)' /\ S \subseteq Numbers
    BY <1>1, <1>3, <2>1 DEF Store
  <2>3. Select(S, source)' = Select(S, source)
    BY <1>1, <1>2, <2>2, SelectKept
  <2> QED BY <2>1, <2>2, <2>3
<1>5. TypeOK'
  BY <1>0, <1>1, <1>2, <1>3
<1> QED BY <1>1, <1>3, <1>4, <1>5

LEMMA AgentStep ==
  ASSUME EvidenceInv, Agent PROVE EvidenceInv'
<1> USE DEF EvidenceInv, TypeOK, stores
<1>1. ASSUME NEW t \in Tools, NEW a \in Arguments(t), Call(t, a) PROVE EvidenceInv'
  <2>1. a \in IPs \cup Nets \cup {AnyIP}
    BY DEF Arguments, Tools, Limited, TwoQueries
  <2>2. Selected'
    BY <1>1 DEF Call, Selected
  <2> QED BY <1>1, <2>1, <2>2 DEF Call, Numbers
<1>2. CASE AskTable
  <2> DEFINE found == Select(table, "table")
  <2>1. found \subseteq table
    BY SelectsFrom
  <2>2. Select(table, "table")' = found
    BY <1>2, SelectKept DEF AskTable
  <2>3. CASE found # {} \/ tool = "read_metrics"
    <3>1. /\ rows' = found /\ source' = "table" /\ tpc' \in {"list", "answer"}
          /\ tpc' = "answer" => listed' = found
          /\ tpc' = "list" => tool \in TwoQueries /\ listed' = listed
      BY <1>2, <2>3 DEF AskTable
    <3>2. tpc = "table" /\ UNCHANGED <<stores, tool, arg, known>>
      BY <1>2 DEF AskTable
    <3> HIDE DEF found
    <3>3. Selected'
      BY <2>2, <3>1, <3>2 DEF Selected, Store
    <3> QED BY <2>1, <3>1, <3>2, <3>3 DEF Numbers
  <2>4. CASE ~(found # {} \/ tool = "read_metrics")
    <3>1. /\ tpc = "table" /\ tpc' = "log"
          /\ UNCHANGED <<stores, tool, arg, known, source, rows, listed>>
      BY <1>2, <2>4 DEF AskTable
    <3> QED BY <3>1 DEF Selected, Numbers
  <2> QED BY <2>3, <2>4
<1>3. CASE ListTable
  <2>1. /\ tpc = "list" /\ tpc' = "answer" /\ listed' = Select(table, "table")
        /\ UNCHANGED <<stores, tool, arg, source, rows, known>>
    BY <1>3 DEF ListTable
  <2>2. PICK S \in SUBSET table : known["table"] \subseteq S /\ rows = Select(S, "table")
    BY <2>1 DEF Selected, Store
  <2>3. Select(S, "table")' = Select(S, "table")
    BY <2>1, SelectKept
  <2>4. Selected'
    BY <2>1, <2>2, <2>3 DEF Selected, Store
  <2>5. listed' \subseteq table /\ rows \subseteq listed'
    BY <2>1, <2>2, SelectsFrom, SelectsAll
  <2> QED BY <2>1, <2>4, <2>5 DEF Numbers
<1>4. CASE TableFails
  BY <1>4 DEF TableFails, Selected, Numbers
<1>5. CASE ReadLog
  <2>1. /\ tpc = "log" /\ tpc' = "answer" /\ source' = "log"
        /\ rows' = Select(log, "log") /\ listed' = rows'
        /\ UNCHANGED <<stores, tool, arg, known>>
    BY <1>5 DEF ReadLog
  <2>2. Select(log, "log")' = Select(log, "log") /\ Select(log, "log") \subseteq log
    BY <2>1, SelectKept, SelectsFrom
  <2>3. Selected'
    BY <2>1, <2>2 DEF Selected, Store
  <2> QED BY <2>1, <2>2, <2>3 DEF Numbers
<1>6. CASE LogFails
  <2>1. rows' \subseteq log /\ listed' = rows'
    BY <1>6 DEF LogFails
  <2> QED BY <1>6, <2>1 DEF LogFails, Selected, Numbers
<1>7. CASE Answer
  BY <1>7 DEF Answer, Nothing, Selected, Numbers
<1> QED BY <1>1, <1>2, <1>3, <1>4, <1>5, <1>6, <1>7 DEF Agent

LEMMA EvidenceNext == EvidenceInv /\ [Next]_vars => EvidenceInv'
<1> SUFFICES ASSUME EvidenceInv, [Next]_vars PROVE EvidenceInv'
  OBVIOUS
<1>1. CASE UNCHANGED vars
  <2>1. UNCHANGED stores /\ UNCHANGED call
    BY <1>1 DEF vars
  <2>2. TypeOK' <=> TypeOK
    BY <2>1 DEF TypeOK, Numbers, stores, call
  <2>3. Selected' <=> Selected
    BY <2>1 DEF Selected, Store, Select, About, InNet, Last, stores, call
  <2> QED BY <2>1, <2>2, <2>3 DEF EvidenceInv, stores, call
<1> QED BY <1>1, RecorderStep, AgentStep DEF Next

LEMMA EvidenceHolds == Spec => []EvidenceInv
  BY EvidenceInit, EvidenceNext, PTL DEF Spec

(* The state of the stores and of the call is well typed. *)
THEOREM TypeCorrect == Spec => []TypeOK
<1>1. EvidenceInv => TypeOK
  BY DEF EvidenceInv
<1> QED BY <1>1, EvidenceHolds, PTL

-------------------------------------------------------------------------------
(* The answers *)

(* No tool tells the agent of an alert that the dashboard does not show, for a line
   is written after its row and never without it. *)
THEOREM AnswersAreReal == Spec => []NothingInvented
<1>1. EvidenceInv => NothingInvented
  BY DEF EvidenceInv, NothingInvented
<1> QED BY <1>1, EvidenceHolds, PTL

(* The statements of a tool see a growing table: what the first one counted, the
   later ones list. *)
THEOREM CountsFit == Spec => []CountedIsListed
<1>1. EvidenceInv => CountedIsListed
  BY DEF EvidenceInv, CountedIsListed
<1> QED BY <1>1, EvidenceHolds, PTL

(* What is promised of a tool and what it selects differ in the peers only. *)
LEMMA MeantIsAbout ==
  ASSUME NEW k, Meant(alerts[k]), ~PeerLeftOut(k), source \in {"table", "log"}
  PROVE  About(alerts[k], source)
<1>1. CASE tool # "search_subnet" \/ source = "log"
  BY <1>1 DEF Meant, About
<1>2. CASE tool = "search_subnet" /\ source = "table"
  <2>1. arg = alerts[k] \/ arg = NetOf[alerts[k]] \/ arg \in IPs
    BY <1>2 DEF Meant, InNet
  <2>2. arg = alerts[k] \/ arg = NetOf[alerts[k]]
    BY <1>2, <2>1 DEF PeerLeftOut
  <2> QED BY <1>2, <2>2 DEF About, InNet
<1> QED BY <1>1, <1>2

LEMMA DueIsSelected ==
  ASSUME EvidenceInv, tpc = "answer", source # "none"
  PROVE  \E S \in SUBSET Numbers : known[source] \subseteq S /\ rows = Select(S, source)
<1>1. PICK S \in SUBSET Store(source) : known[source] \subseteq S /\ rows = Select(S, source)
  BY DEF EvidenceInv, Selected
<1>2. S \subseteq Numbers
  BY DEF EvidenceInv, TypeOK, Store
<1> QED BY <1>1, <1>2

(* Every alert an answer should be about and that was in the store when the tool was
   called is in it, or the limit of the tool is used up by newer ones, or it is one of
   a peer that the table left out. *)
THEOREM AnswersAreComplete == Spec => []NothingMissed
<1>1. EvidenceInv => NothingMissed
  <2> SUFFICES ASSUME EvidenceInv, tpc = "answer", source # "none",
                      NEW k \in Due, k \notin rows, ~PeerLeftOut(k)
               PROVE  Newer(rows, k) >= LineLimit
    BY DEF NothingMissed
  <2>1. PICK S \in SUBSET Numbers : known[source] \subseteq S /\ rows = Select(S, source)
    BY DueIsSelected
  <2> DEFINE matching == {j \in S : About(alerts[j], source)}
  <2>2. k \in matching /\ rows = Select(S, source)
    <3>1. k \in known[source] /\ Meant(alerts[k]) /\ source \in {"table", "log"}
      BY DEF Due, EvidenceInv, TypeOK
    <3> QED BY <2>1, <3>1, MeantIsAbout
  <2>3. /\ Len(alerts) \in Nat /\ matching \in SUBSET (1..Len(alerts))
        /\ MaxLines \in Nat /\ FlowLines \in Nat
    BY RowNumbers, Limits DEF EvidenceInv
  <2>4. CASE tool = "read_alert"
    <3>1. rows = Last(matching, MaxLines)
      BY <2>2, <2>4 DEF Select
    <3> HIDE DEF matching
    <3>2. Newer(rows, k) >= MaxLines
      BY <2>2, <2>3, <3>1, LastIsFull
    <3> QED BY <2>4, <3>2 DEF LineLimit
  <2>5. CASE tool = "read_flow"
    <3>1. rows = Last(matching, FlowLines)
      BY <2>2, <2>5 DEF Select
    <3> HIDE DEF matching
    <3>2. Newer(rows, k) >= FlowLines
      BY <2>2, <2>3, <3>1, LastIsFull
    <3> QED BY <2>5, <3>2 DEF LineLimit
  <2>6. CASE tool # "read_alert" /\ tool # "read_flow"
    BY <2>2, <2>6 DEF Select
  <2> QED BY <2>4, <2>5, <2>6
<1> QED BY <1>1, EvidenceHolds, PTL
===============================================================================
