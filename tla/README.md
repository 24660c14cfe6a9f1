# ML-DDoS verification project

TLA+ models of the ML-DDoS defence system (`src/`), TLC configurations that
check them on small instances, and proofs checked by TLAPS. Paths are relative
to `src/`; `enforcer.py:587` means `prevent/enforcer.py`, line 587, and so on.

The system detects attack flows with an XGBoost classifier and an isolation
forest, drops the source addresses in the kernel (XDP), and has a language-model
agent audit the bans afterwards. Two processes share one SQLite table:

    NIC -> XDP program (xdp.c) <- BPF map <- Enforcer (enforcer.py) <- gatekeeper.py
                                               |      ^                (process 1, root)
                                        record |      | unbans, unbanned
                                               v      |
                                        table `alerts` (storage.py, SQLite WAL)
                                               ^      |
                                         audit |      | alerts
                                               |      v
                                run_auditor (dashboard.py) -> Engine.react (engine.py)
                                     (process 2)                -> LLM endpoint, tools

## 1. Inventory

| Component | State it keeps | Operations | Interacts by | Hard behaviour | What makes it correct |
|---|---|---|---|---|---|
| **Enforcer** `prevent/enforcer.py` | `ban_registry`, `_offense_counts`, `offense_history` (TTLCache), `whitelist`; the lock `self.lock` | `block_ip`, `unban_ip`, `check_blacklist`, `_memory_manager`, `load_xdp`, `detach_xdp`, `load_whitelist`, `check_whitelist` | called by the gatekeeper's flow loop; a daemon thread of its own; BPF maps; the table | two threads, a lock that does not cover the BPF deletion, snapshots worked off later, failing map and storage calls, restart with empty maps | a registered ban is enforced; no ban is lifted before its term but on a verdict; terms escalate 5 min, 1 h, 24 h; every ban ends |
| **XDP program** `prevent/xdp.c` | `blacklist_map` (LRU hash, 500000), `whitelist_map` (LPM trie, 2000) | `xdp` per packet | maps shared with the enforcer | eviction when the map is full; whitelist before blacklist | a blacklisted, not whitelisted source is dropped |
| **Alert storage** `common/storage.py` | table `alerts`, file `alerts.log` | `record`, `audit`, `alerts`, `unbans`, `unbanned`, `by_ip`, `history`, `subnet`, `sync` | both processes, one transaction per statement | failing calls, statements that update by address and time instead of by row, a row and a log line written one after the other | alerts come in order of time; a verdict goes to an undecided alert and its twins only; requests are consumed only where there are any |
| **Auditor** `ui/dashboard.py` | `AUDIT_CACHE`, `AUDIT_KEYS`, `SIG_CACHE` | `run_auditor`, `get_alerts`, `update_alerts`, the HTTP handlers | the table; `Engine.react` | loop thread against handlers, claim before inquiry, caches ahead of the table, newest 50 only, restart | every alert gets a verdict; verdicts are inherited for 10 minutes at most; the model is asked once per claim |
| **ReAct agent** `agent/engine.py` | locals of one inquiry | `react`, `query`, `explain`, `mitigate`, `normalize`, `load_config` | LLM over HTTP, tools | five attempts that fail in different ways, replies of any form, different rules on the last step | an inquiry ends; a garbled reply keeps the block; only a verdict UNBLOCK lifts a ban |
| **Response tools** `tools/execute.py` | `ENFORCER_REF` | `execute_unban`, `execute_extend`, command allow-list | called by the agent | the reference is set in the other process only, or never | an ok answer means the map has changed |
| **Evidence tools** `tools/read.py`, `search.py`, `rag.py` | locals of one call | `read_alert`, `read_flow`, `read_metrics`, `search_history`, `search_subnet`, look-ups in a knowledge base | called by the agent; the table, then the log | several statements per answer while alerts are recorded, fall-back to the log, the two stores sort differently | an answer tells of real alerts, of all there are up to its limit, and its parts fit together |
| **Gatekeeper** `detect/gatekeeper.py` | flow features, models | `main`: start-up, flow loop, shutdown; `get_ips`, `load_models` | NFStreamer, Enforcer | order of start-up steps, `sys.exit` between attach and the `try` whose `finally` detaches | the program is attached while the loop runs and detached when the process leaves; whitelisted sources are never blocked |
| **Training pipeline** `src/parser.py`, `serializer.py`, `trainer.py` | intermediate files | batch steps | files | a present file is trusted; crash between two files | the model is trained on the data of one run |
| **Prompts** `agent/prompt.py`, **models** `models/`, **simulator** `scripts/` | - | - | - | - | - |

The hazards of this code, each at its line, are the list `hazards` of
`PROJECT.json`. The ones with the most consequence:

- `unban_ip` (enforcer.py:583-606) is two steps: the BPF key is deleted without
  the lock, the registry entry is popped under it, whether or not the deletion
  has worked.
- `_memory_manager` (608-647) works off three lists it computed earlier, while
  `block_ip` goes on, and it is told addresses (`unbans()`), not alerts.
- The auditor claims an alert before it inquires and caches a verdict before it
  stores it; whatever fails after that is not undone.
- `record` writes the table and then the log; either write may fail, and the tools
  read both, in several statements, while it goes on.
- A verdict is parsed from free text, with defaults, and a ban is lifted on the
  classification *or* the decision (storage.py:740-742).

## 2. The modules

| Module | Contents | Configurations |
|---|---|---|
| `AlertStore` | the statements of `storage.py` on the table as operators | |
| `AlertStoreProofs` | lemmas about them, used by the proof modules of the two processes | |
| `SharedTable` | abstract: what the two processes may do to the table | |
| `Bans` | abstract: a ban seen from outside the gatekeeper process, what it knows of and what the interface drops | |
| `Enforcer` | ban life cycle: gatekeeper thread, memory manager, dashboard's verdicts; extends `AlertStore`, implements `SharedTable` and `Bans` | `MCEnforcer`, Enforcer*.cfg; System.cfg |
| `EnforcerProofs` | types, registry against map, the table's contract, no early lift, orphans have two sources, bans act as one, every ban has its alert, escalation | |
| `Auditor` | audit loop, handlers, caches, restarts; extends `AlertStore`, implements `SharedTable` | `MCAuditor`, Auditor*.cfg |
| `AuditorProofs` | types, inherited verdicts, one inquiry per claim, the table's contract | |
| `System` | the two processes on one table and one clock; implements `Enforcer` and `Auditor` | `MCSystem`, System.cfg |
| `SystemProofs` | each process is what the other takes it for; early lifts go back to an answer of the agent | |
| `Inquiry` | abstract: what the auditor relies on when it asks the agent | |
| `React` | one inquiry of the agent; implements `Inquiry` | React*.cfg |
| `ReactProofs` | types, silence keeps, one outcome, a bounded number of steps | |
| `Evidence` | the tools the agent judges by, and the two stores they read | `MCEvidence`, Evidence.cfg |
| `EvidenceProofs` | types; answers are real, fit together, are complete | |
| `Gatekeeper` | the process from start to end, its whitelist with partial downloads, the packet path | `MCGatekeeper`, GatekeeperLife.cfg |
| `GatekeeperProofs` | types, registered bans take effect, no drop is left behind unowned, essential addresses pass | |
| `Pipeline` | parser, serializer, trainer: files trusted, stale, cut off; stops and reruns | Pipeline.cfg |
| `PipelineProofs` | types, label numbers agree, halves of one split, a full rerun repairs | |

### Composition and refinement

`Enforcer` and `Auditor` are the two processes, and the table is all they share.
`SharedTable` says what may happen to it in three steps: an alert is appended,
undecided and no older than the others (`Recorded`); an undecided alert gets a
verdict, and with it at most alerts of the same address and moment (`Decided`); the
requests of an address are consumed, if it has any (`Consumed`). Both specifications
implement it by the mapping `table <- alerts` (`TableContract`, a property of the runs
System and AuditorLoop, a theorem of both proof modules), and each contains the other
process's part as environment: `Enforcer!AuditAlert` is the auditor's `Decided`,
`Auditor!Record` and `Auditor!Consume` are the enforcer's `Recorded` and `Consumed`.

That what one process assumes of the other is what the other does is not left to
the eye. `System` puts the two together, with one table, one clock and nothing else
in common: its dashboard process is the loop of `Auditor` in the place of
`AuditAlert`, its gatekeeper process the threads of `Enforcer` in the place of
`Record` and `Consume`. The argument is circular in form (each process keeps to its
part as long as the other does), and is discharged by one invariant of both:
`EnforcerServed` (System implements `Enforcer!Spec`) and `AuditorServed` (it
implements `Auditor!Spec`) are properties of a run and theorems. So every property
shown of either module holds of the two processes together.
`EarlyLiftsJudged` is what only the two together achieve.

`Inquiry` is the same between auditor and agent: open, then one answer or one
exception, in the end. `React` implements it with `outcome <- Outcome`, which reads
the verdict as `unbans()` of the storage will (`InquiryEnds`); `Miss`, `Answer` and
`InquiryFails` of `Auditor` are its states and steps.

`Evidence` is the agent's side of the storage: `React` takes what a tool answers as
arbitrary, `Evidence` says what an answer may leave out.

`Bans` is the view of a ban from outside the process: it is imposed and lifted in
one step (`Imposed`, `Lifted`), all end with the process (`Reset`), and a ban may
be forgotten while the interface goes on to drop the address (`Orphaned`).
`Enforcer` implements it with two threads, a lock and a kernel map
(`BanContract`), by the mapping `banned <- Banned`: `block_ip` bans where it inserts
the key, though the registration comes a step later, and `unban_ip` lifts where it
deletes the key, though it pops the registration later still. A deletion that fails
makes an orphan, and so does an offence entered between the two halves of `unban_ip`.

`Gatekeeper` is the process around `Enforcer`. It asks what outlives a process, so it
leaves out terms, offences, alerts and the manager's rounds, and takes `block_ip`
as one step (it holds the lock from its look-up to the registration), but
`unban_ip` as the two it is, with a deletion that may fail. It does not implement
`Bans`, nor should it: a program whose process is gone drops addresses nobody knows
to be banned, and that is what it is about.

`Pipeline` shares nothing with the running system but the files in `models/`.

## 3. The modules and the code

### AlertStore: `common/storage.py`

A table is a sequence of rows in order of id. Every statement is a transaction of
its own, hence one operator: `NewAlert`/`Insert` (`record`), `Audit`
(`audit`, with `Near` for `ABS(timestamp - ?) < 0.1` and the fall-back to the
newest undecided row), `Newest` (`alerts(limit)`), `Unbans` (`unbans`),
`Unbanned` (`unbanned`). The audit columns are folded into `verdict`: `unblock`
is exactly what the WHERE clause of `unbans()` selects.

Two properties need a word for a request that survives: `Requested(table, ip)`
holds of an address with an unhandled alert that says to unblock, or that has a
twin within 0.1 s, for then the verdict on the twin may have overwritten its own.

### Enforcer: `prevent/enforcer.py`, the map of `prevent/xdp.c`

Variables have the source's names (`ban_registry`, `offense_counts`,
`offense_history`; `blacklist` is the key set of `blacklist_map`); 0 means "not
a key". `gpc` and `mpc` are the program counters of the two threads. The actions
in program order:

| Thread | Actions | Code |
|---|---|---|
| gatekeeper | `GFlow` (caller, gatekeeper.py:644-765), `GBlocked` or `GOffense`, `GInsert` or `GInsertFails`, `GRegister`, `GRecord` or `GRecordFails` | `block_ip` |
| manager | `MWake`, `MRead` or `MReadFails`, `MSplit`, then per address `MDelete` or `MDeleteFails`, `MPop`, `MMark` (or `MMarkFails`), `MMarkStale`, then `MExpired`, and per address `MDelete` or `MDeleteFails`, `MPop`; `MDone` | `_memory_manager`, `unban_ip` |
| dashboard | `AuditAlert` | interface to process 2 |
| environment | `Tick`, `Restart` | clock, process death and start |

The lock is `LockFree`: `block_ip` holds it from its check to the registration, so the
manager's critical sections (`MSplit`, `MPop`, `MExpired`), which are single steps,
wait for that; `MDelete` does not wait, because the code deletes outside the lock. Of
the three operations on the map each may fail: an update raises to the caller and the
flow is given up (`GInsertFails`); a deletion is swallowed, and the registration goes
all the same (`MDeleteFails`); a look-up answers "not blacklisted" (`MayPass`), so
that a banned address gets through the caller's filter and is counted, entered and
registered once more. The LRU map evicts an arbitrary other key when full. A TTLCache
forgets an entry a fixed time after it was set and drops its oldest entry when full.
Loopback addresses are counted, registered and recorded but never entered in the map,
as in the code.

`CallerChecks` says whether the caller skips addresses that are blacklisted
(gatekeeper.py:652). With FALSE, `block_ip` is called at will and its own check
has to do the work, a superset of the behaviours; with TRUE fewer states, used
where the question needs room elsewhere, and in the violation runs, so that a
counterexample is one of the whole program.

### Auditor: `ui/dashboard.py`

`audit_cache`, `audit_keys`, `sig_cache` are the three caches; `pc`, `cur`, `seen`,
`now`, `res` are the loop's position and locals. `Read`, `Done`, `Skip`, `Claim`,
`Hit`, `Miss`, `Answer`, `InquiryFails` are `run_auditor`; `LookAgain` and `Store` are
the two statements of `update_alerts`, the look for an earlier verdict and the write,
each of which may fail (`StoreFails`). An engine is there (`if eng:`,
dashboard.py:219): without one a round does nothing. `Serve` is a handler thread that
runs `get_alerts`, which writes two of the caches; `Record` and `Consume` are the
gatekeeper process, whose alerts may be stored later than the time they carry;
`Restart` empties the caches. `asked` is a history variable (when the agent was last
asked about a row) that no action reads.

`KeysHaveAdd` is whether `AUDIT_KEYS` has a method `add`. In the code it is a
`cachetools.TTLCache` and has none (finding AuditorNoAdd), so at this commit no
alert is ever audited. The passing runs set it to TRUE: they show what the loop
does once that call is repaired in the obvious way (`AUDIT_KEYS[key] = ...`).
For the same reason the part of `Enforcer` that depends on verdicts takes any verdict
at any time, as `storage.audit` would store it, and `System` composes it with the
repaired loop; finding EnforcerOrphan needs no verdict, EnforcerLostRequest does.

### System: both processes

All variables of `Enforcer` and `Auditor`, with `clock` and `alerts` identified; the
auditor's `pc`, `now` and `restarts` are `apc`, `anow` and `arestarts`. A step is one of
`GatekeeperProcess` (which leaves the auditor's variables alone) or of
`DashboardProcess` (which leaves the enforcer's alone); either process restarts
without the other. `pardoned` is a history variable: the signatures about which the
agent has said to unblock (`Judge`). `Enforcer!AuditAlert`, `Auditor!Record` and
`Auditor!Consume` are not steps of `System`; that its steps are covered by them is
what the properties say.

### React: `agent/engine.py`

`Engine.react` and `Engine.query`. A reply is reduced to what the regular expressions
look for: the tool of its Action line, whether it has a Final Answer, which decision
and classification it spells ("other" is any further word the expressions accept, for
the one and for the other), whether the reason says "misclass". `attempt` counts the
HTTP attempts of the current query; a query fails after `Attempts`. The model's
replies and the network are unconstrained.

### Evidence: `tools/read.py`, `tools/search.py`, the queries of `storage.py`

Alerts are numbered in order of time; `table` and `log` are the numbers that have a
row, or a line. `Record`, `Commit`, `AppendLine` and their failing forms are
`record`, in the gatekeeper process. `Call`, `AskTable`, `ListTable`, `TableFails`,
`ReadLog`, `LogFails`, `Answer` are a tool: what the first statement tells of
(`rows`), what the later ones do (`listed`), from which store. `Select` is the WHERE
and LIMIT of the tool at work, `InNet` the two readings of the argument of
`search_subnet`; `read_flow` is the alerts it chooses one from. `Meant` and `Due` are
what an answer should be about, whatever the code makes of the argument, and
`PeerLeftOut` is where it makes something else of it. `known` is a history
variable: what either store held when the tool was called. The log may be older
than the table (`old`), since `sync` has no caller.

### Gatekeeper: `detect/gatekeeper.py` main, the rest of `enforcer.py`, `xdp.c`

One process after another; the kernel's part (attached program, the maps of that
program) survives the process, the Python part (`ban_registry`, the whitelist as
a list) does not. The main thread goes through `StartUp` in order: compile,
attach, get the tables (`Compile`, `Attach`, `Tables`, or `LoadFails`), download
the address lists (`Fetch`: each download works or not), enter them in the trie
and the list (`Enter`, `Filled`), load the models or leave by `sys.exit`
(`Models`, `ModelsMissing`), read the own addresses (`GetIps`), then the flow
loop (`Flow`, with the filters and the two-model decision in `IsAttack`). `Unban`
and `Unregister` are the halves of `unban_ip` in the manager thread, with the address
it is at in `lifting`. `Stop`, `Detach`, `DetachFails` are the way out through
`finally`; `Interrupt` during start-up, `Kill`, and `SecondInterrupt` within `finally`
are the ways out without it.
`Wanted` is what `load_whitelist` enters given the downloads that worked,
`Drops` the verdict of the program on a source. `abandoned` is a history
variable: the processes that were killed, interrupted twice, or could not remove
their program.

### Pipeline: `src/parser.py`, `src/serializer.py`, `src/trainer.py`

A script is a walk over the files it handles, in the order of `After`: each is opened
(`Open`: from here until `Close` it is cut off), closed (`Close`), or gone past
(`Pass`: a cache that loads, a csv that is missing). `ParserStart` trusts a big
dataset.csv or has it removed and merged anew (`MergeChunk`, `Merged`); `Remove` is
the clean-up of `split`. `Stop` is any end of a script before its last file. Of a file
the model keeps the state of dataset.csv its rows come from, that of the labels.pkl
its labels are numbered by, whether it is complete and whether it can be read
(`closed`, `ok`). That no file holds all rows of its origin is left out on purpose:
`split` drops the rows whose label labels.pkl does not know (parser.py:383), the
trainer samples 200000 of a class and takes benign rows alone for the isolation forest
(trainer.py:93-99, 201-210). `streak` is a history variable for the last property.

## 4. What the runs check

"violation" runs each check one property that a text of the repository states
and the code does not keep; they are the findings of section 6.

| Run | Property | Says |
|---|---|---|
| System | `TypeOK` | types of the enforcer |
| | `RegistryEnforced` | a ban the registry knows of is in the map, except while `unban_ip` is between its two halves; deletions and updates of the map may fail |
| | `NoEarlyLift` | an address leaves the map only when its term is over or on a request nobody has handled yet, however old the manager's lists are and whatever verdicts come in meanwhile |
| | `TableContract` | the gatekeeper process, with the real auditor beside it, implements `SharedTable` |
| | `BanContract` | the gatekeeper process implements `Bans`: two threads, a lock and old lists, and each ban looks imposed or lifted in one step, or is orphaned |
| | `EnforcerServed` | the dashboard process does to the table no more than `Enforcer` assumes: verdicts on undecided alerts |
| | `AuditorServed` | the gatekeeper process does to the table no more than `Auditor` assumes: alerts in order, requests consumed only where there are any |
| | `EarlyLiftsJudged` | an address leaves the map before its term only if the agent has said to unblock the signature of one of its alerts, though maybe when asked about another address |
| EnforcerEscalation | `EscalationBounded` | an offence count never exceeds the number of terms for an address that can be in the map; rests on the last term being as long as the memory of offences and on which comparison is strict, and holds although the memory is full and forgets |
| | `BanIsAuditable` | every ban in force has the alert that carries its time and term, or `block_ip` is about to store it |
| EnforcerLiveness | `RegistryDrains` | a ban whose time comes leaves the registry, with look-ups, updates and deletions of the map and a storage that fail, eviction and a restart |
| | `VerdictHandled` | every verdict to unblock is acted on |
| EnforcerOrphan (violation) | `NoOrphanBan` | an address in the map has a term |
| EnforcerLostRequest (violation) | `NoRequestLost` | a ban in force whose alert says to unblock still has its request |
| AuditorLoop | `TypeOK` | types |
| | `InheritanceBounded` | a verdict is inherited only within SigTTL of a claim under which the agent was really asked |
| | `AskedOncePerClaim` | one inquiry per alert and claim, whatever fails |
| | `TableContract` | the process implements `SharedTable`: however old what it has read is when it stores, a decided alert is not decided again |
| | `EveryAlertSettled` | failed inquiries, restarts and stale claims only delay the audit: an alert gets its verdict unless `Limit` newer ones come first or the write fails |
| AuditorNoAdd (violation) | `EveryAlertAudited` | every alert gets a verdict, with the TTLCache of the code |
| ReactInquiry | `TypeOK` | types |
| | `SilenceKeeps` | a reply that spells neither decision nor classification keeps the block |
| | `InquiryEnds` | React implements `Inquiry`, fairness included: every inquiry ends with one answer or one exception |
| | `StepsAreCounted` | every step of an inquiry uses up some of a finite supply, whatever the model replies |
| ReactLifts (violation) | `OnlyUnblockLifts` | only the decision UNBLOCK lifts a ban |
| Evidence | `TypeOK` | types |
| | `NothingInvented` | no answer tells of an alert that has neither a row nor an old line: a failed insert leaves no line behind |
| | `NothingMissed` | an alert the argument means and its store had at the call is in the answer, unless the answer's limit is used up by newer ones; a bare address means its /24 (prompt.py:14), and the peers the table's answer leaves out are exempted by name |
| | `CountedIsListed` | what is counted by one statement is among what the next makes its lists of (which leave out port 0 and empty reasons) |
| GatekeeperLife | `TypeOK` | types |
| | `BannedIsDropped` | a ban the process has registered and is not just lifting takes effect: the address is dropped on the interface |
| | `DropsAreOwned` | whatever the interface drops, a program drops whose process is in the loop or about to detach it, or was killed, interrupted twice or unable to remove it: a failed start-up leaves no address dropped |
| | `EssentialsPass` | the addresses entered whichever downloads fail are never dropped |
| Pipeline | `TypeOK` | types; dataset.csv holds no chunk twice |
| | `EncodingAgrees` | every file with label numbers, the models above all, uses those of the labels.pkl in place |
| | `HalvesMatch` | a complete train.csv and a complete test.csv come from one dataset.csv |
| | `RerunRepairs` | after one run of each script to its end, both models are made from a finished split of dataset.csv and were tested on its other half, whatever stopped runs had left |

For every property of a passing run `PROJECT.json` names a mutant: a definition
of the model changed as a bug in the code would change it, under which TLC finds
the property violated. The mutated forms stand beside the originals, named
`<definition>_<what is wrong>`.

### Bounds, and why they are enough

- Time. One tick stands for any time of at least 0.1 s, so that `AuditWindow` = 1
  joins the alerts of one tick and no others, as `ABS(...) < 0.1` does. The terms
  are scaled; what is kept is their order and the equality that matters, last
  term = memory of offences (86400 s both). `Ttls12` and `Ttls13` keep two tiers,
  `Ttls112` all three. `SigTTL` < `KeyTTL` as 600 < 3600.
- `MaxTime`, `LastFlow`, `LastAlert`: flows stop one tick before the end, so that
  the last ban's fate is seen. The longest hazard, ban, verdict, re-ban, late
  lift, takes two. EnforcerEscalation runs seven, more than the memory of
  offences after the third offence.
- `MaxAlerts`, `MaxOffenses`: two alerts are what distinguishes "this ban's alert"
  from "another alert of the address"; escalation has four of each, one more than
  the tiers, so that passing the last tier would be seen.
  AuditorLoop has three: one asked, one inherited, one that comes when the verdict
  is too old, and one more than `Limit`, so that an alert is overtaken.
- Two addresses: all conflicts are between one address handled by two threads, or
  between two addresses and one slot (`Capacity` = 1 in EnforcerLiveness,
  `HistoryCapacity` = 1 there and in EnforcerEscalation). In AuditorLoop all three
  alerts are of one address, as the conflicts of `audit` are between alerts of one
  address.
- One signature: in the modules every row has its own (`SigOf`, a constant, hence any
  choice whatever in the proofs). In the runs all rows share one, since two or three
  alerts of different signatures would never inherit a verdict.
- `MaxRestarts` = 1: a restart empties everything but the table, so a second one
  starts from a state the first one can leave.
- `Faults`: which calls may fail. EnforcerEscalation has none: a failing map update
  leaves the offence counted (hazard at enforcer.py:545), and then the count does
  pass the tiers; a failing `record` leaves a ban without an alert (574).
  EnforcerLiveness has all five. System has all but the failing `record` and the
  failing look-up. With the latter `NoEarlyLift` and `BanContract` are false of the
  code: while an address is on the list of expired bans, a look-up that fails lets
  `block_ip` renew its ban, and the manager then lifts the new one.
- `LastFault` in AuditorLoop: inquiries and writes stop failing at some time; a write
  that has failed is not tried again, and `EveryAlertSettled` exempts its alert.
- System: two ticks, two alerts and one restart of each process (1,172,882 states). The
  question is how the processes interleave, and all hand-overs occur: an alert
  stored a tick late, a verdict on it, a request consumed, a ban of the address
  imposed again, lifted on the earlier verdict, audited again, by inheritance
  (`SigTTL` = 1 ends it) or by a new inquiry. One of the two addresses is a loopback
  address, which is banned as often as it sends and so makes twins. All eight
  properties are theorems for any time, number of addresses, alerts and restarts, under
  the hypotheses of section 5.
- Evidence: four alerts of three addresses, two of them of one network, with limits
  of 3 and 2 lines, so that each limit is exceeded with and without a newer alert
  coming in; one alert may be older than the table. 3,446,604 states. Alerts are
  bounded, but the tools go on, so deadlock is checked.
- React: the code's own numbers, 5 steps and 5 attempts.
- Gatekeeper: `MaxLives` = 3: one process leaves something behind, the next
  inherits it and leaves something itself, the third starts on that. `TrieSize` = 3
  is room for all networks; two downloads, one of which has a fall-back in the
  code. Processes run out, so this run does not check deadlock.
- Pipeline: `Parts` = 2 and `Big` = 1, so that dataset.csv may be too small to be
  trusted, or trusted; `MaxVersions` = 2, data of before and of now. The number of
  runs of the scripts is not bounded.

### Fairness, and what in the code justifies it

- `WF(Tick)`: time passes.
- Enforcer, `WF` of the gatekeeper's steps inside `block_ip` (the arrival of a flow
  is not fair) and of the manager: two threads of one interpreter that nothing
  blocks but the lock. The lock is held by `block_ip` for a few steps only; the
  manager is not starved of it because flows, hence offences, are bounded in the
  model and rare against the manager's 2 s in the code.
- Enforcer, `SF` of `MRead`, `MMark`, `MMarkStale`: a call to the storage that is
  tried again every 2 s and waits up to 10 s for SQLite's lock does not fail every
  time. Without it a storage that is down for good would refute everything.
- Auditor, `WF` of the whole loop, which has an engine, not of its alternatives (a
  failing inquiry may fail as long as `LastFault` lets it): it sleeps 2 s between
  rounds and never ends; an inquiry takes bounded time, which is `InquiryEnds`.
- React, `WF` of the inquiry's steps: `requests.post` waits at most 60 s for each part
  of a reply (`timeout=60`); that a reply has an end is assumed of the endpoint.

## 5. What is proved

All proofs are checked by `tlapm` for every value of the constants that meets the
named assumptions of the modules (addresses, capacities, terms and windows are
positive, and so on) and the hypotheses given here.

`EnforcerProofs` and `AuditorProofs` rest on the lemmas of **`AlertStoreProofs`**:
types of what the statements return, what an append leaves alone (`InsertAppends`),
that `audit` writes an alert and its twins only (`AuditedAreTwins`), and that neither
`audit` nor `unbanned` changes an address or a time (`AuditKeepsRows`,
`UnbannedKeepsRows`).

**`EnforcerProofs!TypeCorrect`**: `Spec => []TypeOK`. `TypeOK` is not inductive: that
a stored alert has an address needs `gip \in IPs` whenever `block_ip` is running.
`TypeInv` adds it.

**`EnforcerProofs!RegistryIsEnforced`**: `Spec => []RegistryEnforced`, if the address
set is finite and no larger than the map. The strengthening `EnforcedInv` adds
what `block_ip` has achieved between its two steps under the lock: the address is
in the map, or the manager has just deleted it and will pop the registry. The
argument is that after `GInsert` only the first half of `unban_ip` can interfere,
and that its second half, which must wait for the lock, then removes the entry;
that a sufficient map never evicts is the lemma `RoomForAll`.

**`EnforcerProofs!EnforcerImplementsTable`**: `Spec => TableContract`, without further
hypotheses. `RequestInv` says what the manager's lists rest on while they grow
old: every address of `items`, `need_unban` and `stale` is still `Requested`, for
alerts recorded and verdicts stored meanwhile keep requests (`InsertKeeps`,
`AuditKeeps`), those of other addresses survive `unbanned` (`UnbannedKeeps`), and
no address is on two lists; and the time `block_ip` took under the lock is no
older than any alert's, so that alerts come in order.

**`EnforcerProofs!NoBanLiftedEarly`**: `Spec => NoEarlyLift`, if the map has room for
every address and its look-ups do not fail; verdicts of both kinds may come in at any
time. A lift from `need_unban` is justified by `RequestInv`. For one from `expired`,
`LiftInv` says that the address still has the registry entry that was over at the
start of the round, because `block_ip` cannot renew it while it is in the map
(`EnforcedInv`). This is where the look-ups are needed: one that fails lets it.

**`EnforcerProofs!OrphansHaveTwoSources`**: `Spec /\ []GapUndisturbed /\
[][DeletesSucceed]_vars => []NoOrphanBan`, with nothing assumed of the map, the other
faults or the verdicts. `GapUndisturbed` says that `block_ip` is not about to insert an
address whose key `unban_ip` has just deleted, `DeletesSucceed` that no deletion of a
key fails. So the interleaving of finding 1 and the deletion that `unban_ip` swallows
(enforcer.py:595) are the only causes of a ban without a term: look-ups and updates
that fail, evictions, restarts and late verdicts make none.

**`EnforcerProofs!BansActAsOne`**: `Spec => BanContract`, if the map has room for
every address and its look-ups do not fail. `AsOneInv` says what makes a deletion from
an old list a lift of a known ban: only the manager takes entries out of the registry,
so an address of `expired` or `need_unban` is still registered until its own
`unban_ip` has popped it. The steps of the code map to those of `Bans` by four lemmas:
`InsertImposes`, `DeleteLifts`, `FailedDeleteKeeps`, `PopForgets`; everything else
stutters. **`BansStayWhole`** adds `[]GapUndisturbed` and `[][DeletesSucceed]_vars`
and concludes `Outside!WholeSpec`, bans that never come apart.

**`EnforcerProofs!BansAreAuditable`**: `Spec => []BanIsAuditable`, if `record` does not
fail. `AuditableInv` names the sum: the registry holds `gnow + gttl` from
`GRegister` on, and the alert that `GRecord` stores has these two numbers.

**`EnforcerProofs!EscalationIsBounded`**: `Spec => []EscalationBounded`, if the map
has room and its look-ups and updates succeed, no verdict lifts a ban, and the last
term is at least `OffenseWindow` (in the code both are 86400 s). `EscalationInv` is
about an address at the last tier whose offence is remembered: it is being blocked or
is in the map, and its term ends no earlier than the offence is forgotten. So by the
time the manager takes it out (`LiftInv`: its term was over when the round began), the
next offence starts at the first tier. The hypotheses are needed: with a failing
look-up or update (hazard at enforcer.py:545) or a ban lifted on a verdict the count
does pass the tiers, and the clamp of `ttl_index` takes effect.

**`AuditorProofs!TypeCorrect`, `InheritedIsYoung`, `AskedOnce`**: `Spec => []TypeOK`,
`InheritanceBounded`, `AskedOncePerClaim`. `ClaimInv` relates the three caches to
the history variable: a row the agent was asked about has been claimed since then
(handlers only renew claims), and the time of a cached verdict is at most that of
the last inquiry about some alert of the signature.

**`AuditorProofs!AuditorImplementsTable`**: `Spec => TableContract`. `update_alerts`
looks at the row in one statement and writes in another; `TableInv` says that a row
found undecided still is when it is written, for nobody else decides, and that
timestamps are positive, so that `audit` goes by time and writes that row and its
twins only.

**`SystemProofs!SystemServesEnforcer`, `SystemServesAuditor`**: `SysSpec =>
EnforcerServed` and `SysSpec => AuditorServed`, without further hypotheses. The
invariant `Inv` takes `TypeInv` and `RequestInv` from `EnforcerProofs` and adds what
the other process needs: `EntryInv`, the table has room for what `block_ip` is about
to record and the term is one of `BAN_TTL`; `AuditInv`, the row that the auditor
handles exists and is undecided when it is written, and what is written, fresh or
inherited, is a verdict. Each is preserved because the step is one of `Enforcer` as
long as `Inv` holds (`AsEnforcerStep`), which is how the circle is cut. A verdict that
arrives for an alert decided meanwhile is dropped by `LookAgain`, a stuttering step of
`Enforcer`.

**`SystemProofs!JudgedEndToEnd`**: `SysSpec => EarlyLiftsJudged`, if the map has room
for every address and its look-ups do not fail. `PardonInv` follows a verdict to
unblock through its copies, backwards from the lift: the manager's three lists, the
table, the auditor between inquiry and write, and the cache of verdicts hold none but
for signatures of `pardoned`, or for addresses of which some alert has such a
signature (`Pardoned`). It has to be some alert: an audit writes twins, which have the
same address but maybe another signature, and the lists hold addresses. The last step
is `LiftOrigin`, the core of `NoBanLiftedEarly`.

**`EvidenceProofs`**: `TypeCorrect`, `AnswersAreReal`, `CountsFit`, `AnswersAreComplete`,
that is `[]TypeOK` and the three properties of the run, for any number of alerts,
addresses and networks, any limits and faults. `EvidenceInv`
says what `rows` and `listed` are at each place of a tool: the selection from the
store of some moment between the call and now (`Selected`); since stores only grow,
that moment's store contains `known`. The limit is counted with `LastIsFull`: an
alert that is not among the `n` newest of a selection has `n` newer ones in it.
`MeantIsAbout` shows that what an argument means and what the code takes it for differ
by the peers that `PeerLeftOut` names, and by nothing else.

**`ReactProofs!TypeCorrect`, `SilentRepliesKeep`**: `[]TypeOK` and `[]SilenceKeeps` for
every number of steps and attempts, from an invariant that ties the verdict to the
reply it was built from. **`OneOutcome`** is the safety half
of `InquiryEnds`: React's initial states and steps map to those of `Inquiry`.
**`InquirySpends`**, `Spec => StepsAreCounted`, is what the other half rests on: the
steps to come, each worth all attempts of a query and its reply, are a natural
number that every step lowers.

**`GatekeeperProofs!TypeCorrect`, `BansAgree`, `NoDropLeftBehind`**: `[]TypeOK`,
`[]BannedIsDropped`, `[]DropsAreOwned`, for any number of processes. The
strengthening `Tied` says, phase by phase of the process, which of program, maps
and registry exist, and that the list the gatekeeper checks covers what the trie
covers, so that a registered address is never shadowed by the trie; that a
registered address is in the map or is just being lifted; and that the map of a
program is empty until its process has reached the loop, so that a process which ends
before has nothing to leave behind.

**`GatekeeperProofs!EssentialsAlwaysPass`**: `Spec => []EssentialsPass`, if the
networks are finitely many and fit in the trie. `Guarded`: once anything can be in
the blacklist of a program, its trie has been filled with every essential network.

**`PipelineProofs!PipelineTyped`, `LabelsAgree`, `SplitIsOne`**: `Spec => []TypeOK`,
`[]EncodingAgrees`, `[]HalvesMatch`. One invariant serves the last two; it adds
`LabelsFirst` (labels.pkl loads before a row is written, and cannot be loaded
while it is being written, so that nothing numbered by it exists then) and
`SplitAnew` (there is no other half when train.csv is written, and train.csv is
of the current dataset.csv when test.csv is).

**`PipelineProofs!RerunsRepair`**: `Spec => []RerunRepairs`. `StreakInv` says, script by
script, which files are made from the dataset.csv in place: train.csv once test.csv
is at hand, both once the parser has ended, the parquet files after those, the
models last (`MadeAnew`), and that the scripts of the streak follow each other
(`RunsInOrder`). `AnewPassedOn` hands it from file to file: one that is made from a
file made anew is not passed over.

Only model-checked: the liveness properties (`RegistryDrains`, `VerdictHandled`,
`EveryAlertSettled`, the fairness half of `InquiryEnds`), which the installed
provers do not reach. Of the properties of the passing runs these four are all that no
theorem states.

## 6. Findings

1. **A ban without a term** (EnforcerOrphan; enforcer.py:587-602). `unban_ip` deletes
   the map key, `block_ip` then finds the address free, inserts it and registers
   its expiry, `unban_ip` pops that registration. The address stays in the map
   and nothing ever takes it out (README:40 promises 5 min, 1 h, 24 h). It takes a
   flow of the address in the moment its ban expires. There is one other way to lose
   a term, a deletion that fails and is swallowed (section 7), and no third
   (`OrphansHaveTwoSources`).
2. **A verdict to unblock is lost** (EnforcerLostRequest; enforcer.py:625-627,
   storage.py:759-783). `unbanned(ip)` marks every alert of the address. One that
   `block_ip` records between `unban_ip(ip)` and `unbanned(ip)` is marked before it
   is audited; when the agent then says to unblock it, `unbans()` no longer selects
   it and the ban runs its full term (README:66: "reverses false-positive blocks
   in real time").
3. **No alert is ever audited** (AuditorNoAdd; dashboard.py:230).
   `AUDIT_KEYS.add(key)` on a `TTLCache` raises AttributeError outside the inner
   `try`; every round ends there.
4. **Other verdicts than UNBLOCK lift** (ReactLifts; engine.py:304-317,
   storage.py:740-742). "Final Answer: KEEP" and KEEP_BLOCK with FALSE_POSITIVE
   are both stored so that `unbans()` selects them.

## 7. Observed without a run

True of the code, and no run claims a violation. Of most of it no text of the
repository states the contrary. Where one does (prompt.py:12, 14 and 68,
engine.py:301, README:40, 112, 128 and 154), it is named, and there is no run for it:
the difference is one of a computed value or of wording that the models abstract
from, or it is plain from a line or two, and a counterexample would show no more.

- `unban_ip` swallows a deletion that fails (enforcer.py:595) and pops the registration
  all the same: the address is dropped until the program is loaded anew, like the
  orphan of finding 1 and against README:40 (`MDeleteFails`; `OrphansHaveTwoSources`).
- A look-up that fails (enforcer.py:495) says "not blacklisted": a banned address is
  counted once more, with a longer term and another alert. If that happens to an
  address on the manager's list of expired bans, the new ban is lifted at once. So
  `NoEarlyLift` and `BanContract` do not hold when look-ups fail; the run System and
  the theorems that need it say so, EnforcerLiveness has such look-ups.
- A second Ctrl-C while `main` cleans up leaves `finally`: `detach_xdp` passes over
  `Exception` only (enforcer.py:254, gatekeeper.py:777-781), and the program stays
  (`SecondInterrupt`).
- `unbans()` reports addresses, not alerts. The auditor goes newest first, so the
  verdict on an earlier, served alert may arrive after that on the running ban, and
  lifts it though the running ban's own alert is to be kept.
- `execute_unban` and `execute_extend` run in the dashboard process, where nothing
  calls `set_enforcer`: the one tries to delete an iptables rule nobody has made and
  answers "ok", the other has no map to change (execute.py:15, 38; README:112
  draws the eviction from the map). What lifts a ban is `unbans()`.
- `read_flow`, "live flow stats" in prompt.py:12, describes the *oldest* of the up to
  five newest alerts when the table answers, the newest when the log does
  (read.py:109). That it is one of the five is the limit of `read_alert`, no more.
- `search_subnet` with a bare address, "check /24 peers" in prompt.py:14, is about that
  address alone as soon as the table has an alert of it (storage.py:898);
  `NothingMissed` holds with that exception (`PeerLeftOut`).
- A flow of 0 ms counts as one second in `read_flow` and in `search_history` on the
  log, as one millisecond in `history` on the table: byte totals a factor of 1000
  apart (read.py:119-126, search.py:101-102, storage.py:808).
- README:154 buckets packet sizes by 50, rounding down; `sig_key` (dashboard.py:212)
  by 20, to the nearest.
- `update_alerts` looks for an earlier verdict among the newest 1000 alerts only.
- `AUDIT_CACHE` and `SIG_CACHE` are never pruned.
- `sync`, which would import an older log, has no caller.
- With a failing `audit` write, `AUDIT_CACHE` keeps `get_alerts` and the loop from
  ever trying again until the process restarts.
- With more new alerts than 50 between two rounds, the older ones are not audited.
- "Call at least 2 tools before Final Answer" (prompt.py:68, engine.py:301) is not
  enforced on the last step, and a name that is no tool counts as one
  (engine.py:284-299).
- A failing map update escalates the offender although no ban was served.
- README:128 lists loopback, gateways, resolvers and internal subnets as
  safeguarded by the whitelist; `load_whitelist` (enforcer.py:258-460) enters the
  networks it names or downloads (public services and the metadata server), and
  none of these. Loopback is kept out of the blacklist by `block_ip` (540), the
  host's own addresses by the flow loop; a gateway or an internal address that sends
  an attack flow is dropped like any other.
- A gatekeeper ended by SIGTERM or SIGKILL leaves its program dropping the addresses
  blacklisted so far, with no manager to lift them (`abandoned`, as above). A failed
  start-up leaves the program attached too, but with an empty blacklist.
- The host's own addresses are read once, at start-up.
- A parser killed while it writes stats.pkl or labels.pkl leaves a file that every
  later run fails to load; somebody has to delete it. (A labels.pkl of no bytes is
  written anew by the parser, and makes the trainer raise, trainer.py:318.) An
  unfinished dataset.csv of
  more than 1 GB is taken for a finished one.
- `split` drops rows whose label is not in an older labels.pkl, silently
  (parser.py:383): a model made by a full rerun need not know all labels of dataset.csv.
- Without test.csv the serializer leaves an older test.parquet beside a new
  train.parquet, and the trainer evaluates on it.
- The trainer takes label 0 for benign (trainer.py:202), the gatekeeper looks up
  the name.
- An exception in `unbans()` ends the manager's round before expiry is looked at.

## 8. Not modelled

The numerics of training and inference (a prediction is an arbitrary choice) and of
the tools (byte totals, averages); HTML and script of the dashboard and the
formatting of metrics, which make up most of `dashboard.py`; prompts; the look-ups of
`rag.py` in a static knowledge base; `execute_extend` and the command allow-list of
`execute.py`, which change no state of the system in the process that runs them;
`explain`, `mitigate` and `load_config` of the engine; `sync` and the pending query
of the storage, which nothing calls; model files and the traffic simulator. An
`os.remove` of `split` that fails. Liveness under failure of the storage for good, and
starvation of the lock, are excluded by the fairness above.
