------------------------------- MODULE Pipeline -------------------------------
(***************************************************************************)
(* The training pipeline: src/parser.py, src/serializer.py, src/trainer.py,*)
(* run by hand one after the other, and the files they hand on.            *)
(*                                                                         *)
(* Every script may end anywhere, by an exception or because it is killed, *)
(* and be run again, in any order, on the files it finds; what it finds it *)
(* may trust (dataset.csv of more than 1 GB, stats.pkl, labels.pkl),       *)
(* remove or write over.  The raw data may be replaced between two runs.   *)
(*                                                                         *)
(* Of a file are kept: the state of dataset.csv its rows come from, the    *)
(* one its labels were numbered by (that of labels.pkl), whether the csv   *)
(* file it goes back to was written to its end, and whether it can be read *)
(* at all.  A csv file that was cut off can be read, a parquet file or a   *)
(* pickle cannot.                                                          *)
(*                                                                         *)
(* No file holds all rows of its origin.  split keeps the rows whose label *)
(* labels.pkl knows, which may be older than dataset.csv (enc # data), and *)
(* the trainer takes a sample of each class for one model and benign rows  *)
(* for the other.                                                          *)
(***************************************************************************)
EXTENDS Integers

CONSTANTS
  Parts,        \* chunks of the raw data
  Big,          \* dataset.csv is beyond 1 GB when it has more chunks than this
  MaxVersions   \* bound: versions of the raw data

ASSUME PartsAssumption == Parts \in Nat \ {0} /\ Big \in Nat
ASSUME BoundAssumption == MaxVersions \in Nat \ {0}

VARIABLES
  raw,        \* version of the raw data
  dataset,    \* dataset.csv: the version its chunks are from, and their number
  file,       \* the other files
  pc,         \* what the running script does: a file it is at, or a phase
  writing,    \* the file it is at has been opened for writing
  left,       \* chunks merge has still to read
  tested,     \* data of the last evaluation
  streak      \* history: how far parser, serializer and trainer have been run to
              \* their ends in this order, the last of them and nothing else since

vars == <<raw, dataset, file, pc, writing, left, tested, streak>>

Caches  == {"stats.pkl", "labels.pkl"}
Csvs    == {"train.csv", "test.csv"}
Parquets == {"train.parquet", "test.parquet"}
Models  == {"XGBoost.pkl", "IsolationForest.pkl"}
Encoded == Csvs \cup Parquets \cup Models
Names   == Caches \cup Encoded

Data   == [ver : 0..MaxVersions, parts : 0..Parts]
NoData == [ver |-> 0, parts |-> 0]
Shipped == [ver |-> 0, parts |-> 1]      \* what the files of models/ were made from

File == [data : Data, enc : Data, closed : BOOLEAN, ok : BOOLEAN]
Absent == [data |-> NoData, enc |-> NoData, closed |-> FALSE, ok |-> FALSE]
Exists(n) == file[n] # Absent

-------------------------------------------------------------------------------
(* What a script writes into a file when it gets to the end of it. *)
CsvOf(n) == IF n = "train.parquet" THEN "train.csv" ELSE "test.csv"

Content(n) ==
  CASE n \in Caches   -> [data |-> dataset, enc |-> dataset, closed |-> TRUE, ok |-> TRUE]
    [] n \in Csvs     -> [data |-> dataset, enc |-> file["labels.pkl"].data,
                          closed |-> TRUE, ok |-> TRUE]
    [] n \in Parquets -> file[CsvOf(n)]
    [] n \in Models   -> file["train.parquet"]

(* What is there until it does. *)
Begun(n) ==
  IF n \in Csvs THEN [Content(n) EXCEPT !.closed = FALSE] ELSE [Content(n) EXCEPT !.ok = FALSE]

(* A cache is written only where there is none. *)
Wanted_Refit(n) ==
  CASE n \in Caches   -> TRUE
    [] n \in Csvs     -> TRUE
    [] n \in Parquets -> Exists(CsvOf(n))
    [] n \in Models   -> file["train.parquet"].ok
Wanted(n) ==
  CASE n \in Caches   -> ~Exists(n)
    [] n \in Csvs     -> TRUE
    [] n \in Parquets -> Exists(CsvOf(n))
    [] n \in Models   -> file["train.parquet"].ok

(* What goes on without being written: a cache that can be loaded, a parquet
   file without its csv file (serialize returns). *)
Passed_Cached(n) ==
  \/ n \in Caches /\ file[n].ok
  \/ n \in Parquets /\ (~Exists(CsvOf(n)) \/ Exists(n))
Passed(n) ==
  \/ n \in Caches /\ file[n].ok
  \/ n \in Parquets /\ ~Exists(CsvOf(n))

After ==
  [n \in Names |->
     CASE n = "stats.pkl"     -> "labels.pkl"
       [] n = "labels.pkl"    -> "remove"
       [] n = "train.csv"     -> "test.csv"
       [] n = "train.parquet" -> "test.parquet"
       [] n = "XGBoost.pkl"   -> "evaluate"
       [] n = "IsolationForest.pkl" -> "evaluate_iso"
       [] OTHER               -> "idle"]

(* The last file of the parser and of the serializer closes their run. *)
StreakAfter(n) ==
  CASE n = "test.csv"     -> "parsed"
    [] n = "test.parquet" /\ streak = "parsed" -> "serialized"
    [] OTHER              -> streak

Proceed(n) == pc' = After[n] /\ writing' = FALSE /\ streak' = StreakAfter(n)

-------------------------------------------------------------------------------
Init ==
  /\ raw = 1 /\ dataset = NoData
  /\ file = [n \in Names |-> Absent]
       \/ file = [n \in Names |->
                    IF n \in Caches \cup {"IsolationForest.pkl"}
                    THEN [data |-> Shipped, enc |-> Shipped, closed |-> TRUE, ok |-> TRUE]
                    ELSE Absent]
  /\ pc = "idle" /\ writing = FALSE /\ left = 0
  /\ tested = NoData /\ streak = "none"

(* New raw data are put into data/raw. *)
NewRaw ==
  /\ pc = "idle" /\ raw < MaxVersions
  /\ raw' = raw + 1
  /\ UNCHANGED <<dataset, file, pc, writing, left, tested, streak>>

-------------------------------------------------------------------------------
(* parser.py: main takes a big dataset.csv as it is, otherwise merge removes it
   and writes it anew. *)
ParserStart_Append ==
  /\ pc = "idle" /\ streak' = "none"
  /\ IF dataset.parts > Big
     THEN pc' = "stats.pkl" /\ UNCHANGED <<dataset, left>>
     ELSE pc' = "merge" /\ left' = Parts /\ UNCHANGED dataset
  /\ UNCHANGED <<raw, file, writing, tested>>
ParserStart ==
  /\ pc = "idle" /\ streak' = "none"
  /\ IF dataset.parts > Big
     THEN pc' = "stats.pkl" /\ UNCHANGED <<dataset, left>>
     ELSE pc' = "merge" /\ dataset' = NoData /\ left' = Parts
  /\ UNCHANGED <<raw, file, writing, tested>>

(* clean appends a chunk; files it cannot read or without the columns it needs
   are skipped. *)
MergeChunk ==
  /\ pc = "merge" /\ left > 0 /\ left' = left - 1
  /\ dataset' \in {dataset, [ver |-> raw, parts |-> dataset.parts + 1]}
  /\ UNCHANGED <<raw, file, pc, writing, tested, streak>>

Merged ==
  /\ pc = "merge" /\ left = 0 /\ dataset # NoData
  /\ pc' = "stats.pkl"
  /\ UNCHANGED <<raw, dataset, file, writing, left, tested, streak>>

(* split removes the files of an earlier split before it writes any row.  The rows
   go to files in /tmp, which become train.csv and then test.csv at the end: a move
   to another file system copies, so it too may be cut off. *)
Remove_TrainOnly ==
  /\ pc = "remove" /\ pc' = "train.csv"
  /\ file' = [file EXCEPT !["train.csv"] = Absent]
  /\ UNCHANGED <<raw, dataset, writing, left, tested, streak>>
Remove ==
  /\ pc = "remove" /\ pc' = "train.csv"
  /\ file' = [file EXCEPT !["train.csv"] = Absent, !["test.csv"] = Absent]
  /\ UNCHANGED <<raw, dataset, writing, left, tested, streak>>

-------------------------------------------------------------------------------
(* serializer.py *)
SerializerStart ==
  /\ pc = "idle" /\ pc' = "train.parquet"
  /\ streak' = IF streak = "parsed" THEN streak ELSE "none"
  /\ UNCHANGED <<raw, dataset, file, writing, left, tested>>

(* trainer.py loads labels.pkl for the number of classes, if it is there.  One of no
   bytes counts as absent, as it does for split; the trainer raises on it, which is
   a start and a stop here. *)
TrainerStart ==
  /\ pc = "idle" /\ (Exists("labels.pkl") => file["labels.pkl"].ok)
  /\ pc' = "XGBoost.pkl"
  /\ streak' = IF streak = "serialized" THEN streak ELSE "none"
  /\ UNCHANGED <<raw, dataset, file, writing, left, tested>>

(* evaluate reads test.parquet, or test.csv where that does not exist. *)
TestPath == IF Exists("test.parquet") THEN "test.parquet" ELSE "test.csv"

Evaluate ==
  /\ file[TestPath].ok /\ tested' = file[TestPath].data
  /\ \/ pc = "evaluate" /\ pc' = "IsolationForest.pkl" /\ UNCHANGED streak
     \/ /\ pc = "evaluate_iso" /\ pc' = "idle"
        /\ streak' = IF streak = "serialized" THEN "trained" ELSE "none"
  /\ UNCHANGED <<raw, dataset, file, writing, left>>

-------------------------------------------------------------------------------
(* Steps of all three scripts *)

Open(n) ==
  /\ pc = n /\ ~writing /\ Wanted(n)
  /\ file' = [file EXCEPT ![n] = Begun(n)]
  /\ writing' = TRUE
  /\ UNCHANGED <<raw, dataset, pc, left, tested, streak>>

Close(n) ==
  /\ pc = n /\ writing
  /\ file' = [file EXCEPT ![n] = Content(n)]
  /\ Proceed(n)
  /\ UNCHANGED <<raw, dataset, left, tested>>

Pass(n) ==
  /\ pc = n /\ ~writing /\ Passed(n)
  /\ Proceed(n)
  /\ UNCHANGED <<raw, dataset, file, left, tested>>

(* The script is killed, or raises: at any time, and for certain where it finds a
   file it cannot read. *)
Stop ==
  /\ pc # "idle"
  /\ pc' = "idle" /\ writing' = FALSE /\ left' = 0 /\ streak' = "none"
  /\ UNCHANGED <<raw, dataset, file, tested>>

Next ==
  \/ NewRaw \/ ParserStart \/ MergeChunk \/ Merged \/ Remove
  \/ SerializerStart \/ TrainerStart \/ Evaluate
  \/ (\E n \in Names : Open(n) \/ Close(n) \/ Pass(n))
  \/ Stop

Spec == Init /\ [][Next]_vars

-------------------------------------------------------------------------------
(* Properties *)

TypeOK ==
  /\ raw \in 1..MaxVersions /\ dataset \in Data /\ tested \in Data
  /\ file \in [Names -> File]
  /\ pc \in Names \cup {"idle", "merge", "remove", "evaluate", "evaluate_iso"}
  /\ writing \in BOOLEAN /\ (writing => pc \in Names)
  /\ left \in 0..Parts /\ dataset.parts + left <= Parts
  /\ streak \in {"none", "parsed", "serialized", "trained"}

(* The gatekeeper names a prediction by labels.pkl (detect/gatekeeper.py:606-675):
   whatever is stopped and run again, on whatever data, every file whose labels
   are numbers, the models above all, uses the numbers of the labels.pkl in place. *)
EncodingAgrees ==
  \A n \in Encoded : Exists(n) =>
    file["labels.pkl"].ok /\ file[n].enc = file["labels.pkl"].data

(* Two complete halves of the split are halves of the same data: no row is in
   both, although a run may stop between them. *)
HalvesMatch ==
  file["train.csv"].closed /\ file["test.csv"].closed =>
    file["train.csv"].data = file["test.csv"].data

(* Running the three scripts to their ends repairs whatever earlier runs have
   left behind: both models are then made from a split of the dataset.csv in place
   that was written to its end, and tested on its other half - on as many of its rows
   as labels.pkl has labels for and the samples take. *)
RerunRepairs ==
  streak = "trained" =>
    /\ tested = dataset
    /\ \A n \in Models : file[n].ok /\ file[n].closed /\ file[n].data = dataset
===============================================================================
