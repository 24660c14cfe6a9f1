------------------------------- MODULE Evidence -------------------------------
(***************************************************************************)
(* The evidence the agent judges an alert by: the tools of tools/read.py   *)
(* and tools/search.py, and the two stores they read, which record() of    *)
(* common/storage.py writes one after the other - the table `alerts` and   *)
(* the file alerts.log with one line per alert.                            *)
(*                                                                         *)
(* The gatekeeper process records alerts while a tool of the dashboard     *)
(* process is at work.  A tool asks the table first, some in several       *)
(* statements that are no transaction, and reads the log where the table   *)
(* fails or has nothing.                                                   *)
(*                                                                         *)
(* Alerts are numbered in order of time.  Of an alert only its address is  *)
(* kept; a tool's answer is the set of alerts it tells of.                 *)
(***************************************************************************)
EXTENDS Integers, Sequences, FiniteSets

CONSTANTS
  IPs,          \* source addresses
  Nets,         \* the /24 networks
  NetOf,        \* the network of an address
  AnyIP,        \* no argument: read_alert of all addresses, read_metrics
  NoTool,       \* no tool at work
  MaxLines,     \* alerts read_alert tells of (20)
  FlowLines,    \* alerts read_flow counts, and chooses the one it describes from (5)
  Faults,       \* what can fail: "db_write", "log_write", "db_read", "log_read"
  MaxAlerts,    \* bound: alerts
  MaxOld        \* bound: lines that are older than the table

ASSUME NetAssumption == NetOf \in [IPs -> Nets]
ASSUME NameAssumption == IPs \cap Nets = {} /\ AnyIP \notin IPs \cup Nets
ASSUME LinesAssumption == MaxLines \in Nat \ {0} /\ FlowLines \in Nat \ {0}
ASSUME BoundAssumption == MaxAlerts \in Nat /\ MaxOld \in Nat

VARIABLES
  alerts,       \* the addresses of the alerts, in order
  table,        \* numbers of the alerts that have a row
  log,          \* numbers of the alerts that have a line
  rpc,          \* record: "idle", "insert", "append"
  tool, arg,    \* the tool at work and its argument
  tpc,          \* the tool: "idle", "table", "list", "log", "answer"
  source,       \* store the answer comes from: "table", "log", "none"
  rows, listed, \* alerts the first and the second statement told of
  old,          \* the first `old` lines are older than the table
  known         \* history: what either store had when the tool was called

stores == <<alerts, table, log, rpc, old>>
call   == <<tool, arg, tpc, source, rows, listed, known>>
vars   == <<stores, call>>

-------------------------------------------------------------------------------
(* Selections *)

Limited    == {"read_alert", "read_flow"}
TwoQueries == {"search_history", "read_metrics"}
Tools      == Limited \cup TwoQueries \cup {"search_subnet"}

Arguments(t) ==
  CASE t = "read_alert"    -> IPs \cup {AnyIP}
    [] t = "search_subnet" -> IPs \cup Nets
    [] t = "read_metrics"  -> {AnyIP}
    [] OTHER               -> IPs

(* Whether search_subnet counts an alert of ip.  A bare address means itself to
   subnet() of the storage, but its /24 network where the log is read. *)
InNet(ip, store) ==
  \/ arg = ip \/ arg = NetOf[ip]
  \/ store = "log" /\ arg \in IPs /\ NetOf[arg] = NetOf[ip]

(* Whether the tool's answer from a store is about an alert of ip. *)
About(ip, store) ==
  IF tool = "search_subnet" THEN InNet(ip, store) ELSE arg = ip \/ arg = AnyIP

(* ORDER BY timestamp DESC LIMIT n, and records[-n:] *)
Last_First(S, n) == {k \in S : Cardinality({j \in S : j < k}) < n}
Last(S, n) == {k \in S : Cardinality({j \in S : j > k}) < n}

Select(S, store) ==
  LET matching == {k \in S : About(alerts[k], store)}
  IN  CASE tool = "read_alert" -> Last(matching, MaxLines)
        [] tool = "read_flow"  -> Last(matching, FlowLines)
        [] OTHER               -> matching

-------------------------------------------------------------------------------
Nothing == [table |-> {}, log |-> {}]

(* The log may be older than the table: sync(), which would import its lines, has
   no caller. *)
Init ==
  /\ old \in 0..MaxOld
  /\ alerts \in [1..old -> IPs]
  /\ table = {} /\ log = 1..old
  /\ rpc = "idle"
  /\ tool = NoTool /\ arg = AnyIP /\ tpc = "idle" /\ source = "none"
  /\ rows = {} /\ listed = {} /\ known = Nothing

-------------------------------------------------------------------------------
(* record() *)

Record(ip) ==
  /\ rpc = "idle" /\ Len(alerts) < MaxAlerts
  /\ alerts' = Append(alerts, ip)
  /\ rpc' = "insert"
  /\ UNCHANGED <<table, log, old, call>>

Commit ==
  /\ rpc = "insert"
  /\ table' = table \cup {Len(alerts)}
  /\ rpc' = "append"
  /\ UNCHANGED <<alerts, log, old, call>>

(* The statement raises, or the process dies before the commit. *)
CommitFails_Logged ==
  /\ "db_write" \in Faults /\ rpc = "insert"
  /\ rpc' = "append"
  /\ UNCHANGED <<alerts, table, log, old, call>>
CommitFails ==
  /\ "db_write" \in Faults /\ rpc = "insert"
  /\ rpc' = "idle"
  /\ UNCHANGED <<alerts, table, log, old, call>>

AppendLine ==
  /\ rpc = "append"
  /\ log' = log \cup {Len(alerts)}
  /\ rpc' = "idle"
  /\ UNCHANGED <<alerts, table, old, call>>

(* The write raises, which is ignored, or the process dies before it. *)
AppendFails ==
  /\ "log_write" \in Faults /\ rpc = "append"
  /\ rpc' = "idle"
  /\ UNCHANGED <<alerts, table, log, old, call>>

-------------------------------------------------------------------------------
(* The tools *)

Call(t, a) ==
  /\ tpc = "idle"
  /\ tool' = t /\ arg' = a /\ tpc' = "table"
  /\ known' = [table |-> table, log |-> log]
  /\ UNCHANGED <<stores, source, rows, listed>>

(* The first statement.  All tools but read_metrics turn to the log when the
   table has nothing to tell. *)
AskTable ==
  /\ tpc = "table"
  /\ LET found == Select(table, "table")
     IN  IF found # {} \/ tool = "read_metrics"
         THEN /\ rows' = found /\ source' = "table"
              /\ IF tool \in TwoQueries
                 THEN tpc' = "list" /\ UNCHANGED listed
                 ELSE tpc' = "answer" /\ listed' = found
         ELSE tpc' = "log" /\ UNCHANGED <<source, rows, listed>>
  /\ UNCHANGED <<stores, tool, arg, known>>

(* The statements that follow, each on the table as it is by then: SELECT
   DISTINCT of history, SELECT ... GROUP BY reason of read_metrics. *)
ListTable_Swapped ==
  /\ tpc = "list"
  /\ listed' = rows /\ rows' = Select(table, "table")
  /\ tpc' = "answer"
  /\ UNCHANGED <<stores, tool, arg, source, known>>
ListTable ==
  /\ tpc = "list"
  /\ listed' = Select(table, "table")
  /\ tpc' = "answer"
  /\ UNCHANGED <<stores, tool, arg, source, rows, known>>

(* A statement raises: what the first one has told is dropped. *)
TableFails_Kept ==
  /\ "db_read" \in Faults /\ tpc \in {"table", "list"}
  /\ tpc' = "log"
  /\ UNCHANGED <<stores, tool, arg, source, rows, listed, known>>
TableFails ==
  /\ "db_read" \in Faults /\ tpc \in {"table", "list"}
  /\ rows' = {} /\ source' = "none"
  /\ tpc' = "log"
  /\ UNCHANGED <<stores, tool, arg, listed, known>>

ReadLog ==
  /\ tpc = "log"
  /\ rows' = Select(log, "log") /\ listed' = rows'
  /\ source' = "log" /\ tpc' = "answer"
  /\ UNCHANGED <<stores, tool, arg, known>>

(* Reading stops at some line: the tools report an error, except read_metrics,
   which reports the lines it has read. *)
LogFails ==
  /\ "log_read" \in Faults /\ tpc = "log"
  /\ \/ rows' = {}
     \/ tool = "read_metrics" /\ \E n \in log : rows' = {k \in log : k < n}
  /\ listed' = rows'
  /\ source' = "none" /\ tpc' = "answer"
  /\ UNCHANGED <<stores, tool, arg, known>>

Answer ==
  /\ tpc = "answer"
  /\ tool' = NoTool /\ arg' = AnyIP /\ tpc' = "idle" /\ source' = "none"
  /\ rows' = {} /\ listed' = {} /\ known' = Nothing
  /\ UNCHANGED stores

-------------------------------------------------------------------------------
Recorder ==
  \/ \E ip \in IPs : Record(ip)
  \/ Commit \/ CommitFails \/ AppendLine \/ AppendFails

Agent ==
  \/ \E t \in Tools : \E a \in Arguments(t) : Call(t, a)
  \/ AskTable \/ ListTable \/ TableFails \/ ReadLog \/ LogFails \/ Answer

Next == Recorder \/ Agent

Spec == Init /\ [][Next]_vars

-------------------------------------------------------------------------------
(* Properties *)

Numbers == DOMAIN alerts

TypeOK ==
  /\ alerts \in Seq(IPs) /\ old \in Nat /\ old <= Len(alerts)
  /\ table \subseteq Numbers /\ log \subseteq Numbers
  /\ rpc \in {"idle", "insert", "append"} /\ (rpc # "idle" => Len(alerts) > 0)
  /\ tpc \in {"idle", "table", "list", "log", "answer"}
  /\ tool \in Tools \cup {NoTool} /\ arg \in IPs \cup Nets \cup {AnyIP}
  /\ source \in {"table", "log", "none"} /\ (source # "none" => tpc \in {"list", "answer"})
  /\ rows \subseteq Numbers /\ listed \subseteq Numbers
  /\ known \in [{"table", "log"} -> SUBSET Numbers]

(* The agent is told of no alert that the dashboard does not show: whatever the
   tool and the store, an alert of an answer has a row, or a line from before the
   table.  A failed insert leaves no line behind. *)
NothingInvented == tpc = "answer" => rows \cup listed \subseteq table \cup 1..old

(* What prompt.py:14 promises of search_subnet, "check /24 peers": an address means
   its network, whichever store answers. *)
Meant(ip) == IF tool = "search_subnet" THEN InNet(ip, "log") ELSE About(ip, source)

(* What the store of the answer had for the tool when it was called. *)
Due == {k \in known[source] : Meant(alerts[k])}

(* The exception: where the table has alerts of an address, the answer about its
   network leaves out its peers, for subnet() takes the address for a /32. *)
PeerLeftOut(k) ==
  tool = "search_subnet" /\ source = "table" /\ arg \in IPs /\ alerts[k] # arg

Newer(S, k) == Cardinality({j \in S : j > k})

LineLimit ==
  CASE tool = "read_alert" -> MaxLines
    [] tool = "read_flow"  -> FlowLines
    [] OTHER               -> Len(alerts)

(* An answer is complete: an alert it should be about and that the store had when
   the tool was called is in it, unless it tells of its limit of newer ones -
   although the recorder goes on between the call and each of the queries.  The peers
   of an address that the table answers for are the one exception. *)
NothingMissed ==
  tpc = "answer" /\ source # "none" =>
    \A k \in Due : k \in rows \/ Newer(rows, k) >= LineLimit \/ PeerLeftOut(k)

(* The parts of an answer are of different ages but fit: an offence that is counted
   is among those the lists of reasons and ports are made from, which then leave out
   no reason and port 0, and the distribution of read_metrics adds up to its total at
   least. *)
CountedIsListed == tpc = "answer" => rows \subseteq listed
===============================================================================
