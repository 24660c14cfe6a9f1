---------------------------- MODULE PipelineProofs ----------------------------
(***************************************************************************)
(* Proofs about the training pipeline, for any number of chunks, any size  *)
(* at which dataset.csv is trusted and any number of versions of the data. *)
(***************************************************************************)
EXTENDS Pipeline, TLAPS

(* What the properties rest on.  Labels are loaded before a row is written; a
   labels.pkl that is being written cannot be loaded yet. *)
LabelsFirst ==
  /\ pc \in {"remove", "train.csv", "test.csv"} => file["labels.pkl"].ok
  /\ writing /\ pc = "labels.pkl" => ~file["labels.pkl"].ok

(* split works on an empty directory, and test.csv follows train.csv within a run. *)
SplitAnew ==
  /\ pc = "train.csv" => ~file["test.csv"].closed
  /\ pc = "test.csv" => file["train.csv"].data = dataset

-------------------------------------------------------------------------------
(* Which file each name stands for: no name is in two of the sets. *)
LEMMA Kinds ==
  ASSUME NEW n \in Names
  PROVE  /\ n \in Caches \/ n \in Csvs \/ n \in Parquets \/ n \in Models
         /\ n \in Encoded <=> n \notin Caches
         /\ n \in Csvs => n \notin Caches
         /\ n \in Parquets => n \notin Caches \cup Csvs
         /\ n \in Models => n \notin Caches \cup Csvs \cup Parquets
  BY DEF Names, Encoded, Caches, Csvs, Parquets, Models

(* What a script writes into a file of each kind. *)
LEMMA ContentOf ==
  ASSUME NEW n \in Names
  PROVE  /\ n \in Caches =>
              Content(n) = [data |-> dataset, enc |-> dataset, closed |-> TRUE, ok |-> TRUE]
         /\ n \in Csvs =>
              Content(n) = [data |-> dataset, enc |-> file["labels.pkl"].data,
                            closed |-> TRUE, ok |-> TRUE]
         /\ n \in Parquets => Content(n) = file[CsvOf(n)] /\ CsvOf(n) \in Csvs
         /\ n \in Models => Content(n) = file["train.parquet"]
  <1>1. CASE n \in Caches
    BY <1>1, Kinds DEF Content
  <1>2. CASE n \in Csvs
    BY <1>2, Kinds DEF Content
  <1>3. CASE n \in Parquets
    BY <1>3, Kinds DEF Content, CsvOf, Csvs
  <1>4. CASE n \in Models
    BY <1>4, Kinds DEF Content
  <1> QED BY <1>1, <1>2, <1>3, <1>4, Kinds

LEMMA ContentType ==
  ASSUME TypeOK, NEW n \in Names
  PROVE  Content(n) \in File /\ Begun(n) \in File
  <1>1. /\ \A k \in Names : file[k] \in File
        /\ "labels.pkl" \in Names /\ "train.parquet" \in Names
        /\ Csvs \subseteq Names
    BY DEF TypeOK, Names, Encoded, Caches, Csvs, Parquets, Models
  <1>2. file["labels.pkl"].data \in Data /\ dataset \in Data
    BY <1>1 DEF TypeOK, File
  <1>3. Content(n) \in File
    <2>1. CASE n \in Caches \cup Csvs
      <3>1. ASSUME NEW d \in Data, NEW e \in Data
            PROVE  [data |-> d, enc |-> e, closed |-> TRUE, ok |-> TRUE] \in File
        BY DEF File
      <3> QED BY <2>1, <3>1, <1>2, ContentOf
    <2>2. CASE n \in Parquets \cup Models
      BY <2>2, <1>1, ContentOf, Kinds
    <2> QED BY <2>1, <2>2, Kinds
  <1>4. Begun(n) \in File
    <2> DEFINE c == Content(n)
    <2>1. c \in File => [c EXCEPT !.closed = FALSE] \in File /\ [c EXCEPT !.ok = FALSE] \in File
      BY DEF File
    <2> QED BY <1>3, <2>1 DEF Begun
  <1> QED BY <1>3, <1>4

(* Until it is written to its end a file differs from its content in one mark. *)
LEMMA BegunOf ==
  ASSUME TypeOK, NEW n \in Names
  PROVE  /\ Begun(n).data = Content(n).data /\ Begun(n).enc = Content(n).enc
         /\ n \in Csvs => ~Begun(n).closed
         /\ n \notin Csvs => ~Begun(n).ok
  <1> DEFINE c == Content(n)
  <1>1. c \in File
    BY ContentType
  <1> HIDE DEF c
  <1>2. LET b == IF n \in Csvs THEN [c EXCEPT !.closed = FALSE] ELSE [c EXCEPT !.ok = FALSE]
        IN  /\ b.data = c.data /\ b.enc = c.enc
            /\ n \in Csvs => ~b.closed
            /\ n \notin Csvs => ~b.ok
    BY <1>1 DEF File
  <1> QED BY <1>2 DEF Begun, c

-------------------------------------------------------------------------------
(* The steps all three scripts share, by what they do to the files. *)
FileStep(n) == Open(n) \/ Close(n) \/ Pass(n)

LEMMA AfterOf ==
  ASSUME NEW n \in Names
  PROVE  /\ After[n] \in Names \cup {"idle", "remove", "evaluate", "evaluate_iso"}
         /\ After[n] = "remove" => n = "labels.pkl"
         /\ After[n] # "train.csv"
         /\ After[n] = "test.csv" => n = "train.csv"
         /\ After[n] = "labels.pkl" => n = "stats.pkl"
  BY DEF After, Names, Encoded, Caches, Csvs, Parquets, Models

LEMMA DataParts ==
  /\ \A d \in Data : d.parts \in 0..Parts
  /\ NoData \in Data /\ NoData.parts = 0
  BY PartsAssumption, BoundAssumption DEF Data, NoData

LEMMA TypeInit == Init => TypeOK
  <1> SUFFICES ASSUME Init PROVE TypeOK
    OBVIOUS
  <1>1. NoData \in Data /\ Shipped \in Data
    BY PartsAssumption, BoundAssumption DEF NoData, Shipped, Data
  <1>2. /\ Absent \in File
        /\ [data |-> Shipped, enc |-> Shipped, closed |-> TRUE, ok |-> TRUE] \in File
    BY <1>1 DEF Absent, File
  <1>3. file \in [Names -> File]
    BY <1>2 DEF Init
  <1>4. raw \in 1..MaxVersions /\ dataset.parts + left <= Parts /\ left \in 0..Parts
    BY DataParts, PartsAssumption, BoundAssumption DEF Init
  <1> QED BY <1>1, <1>3, <1>4, DataParts DEF Init, TypeOK

LEMMA TypeStep == TypeOK /\ [Next]_vars => TypeOK'
  <1> SUFFICES ASSUME TypeOK, [Next]_vars PROVE TypeOK'
    OBVIOUS
  <1> USE PartsAssumption, BoundAssumption
  <1>1. CASE NewRaw
    BY <1>1 DEF TypeOK, NewRaw
  <1>2. CASE ParserStart
    <2>1. CASE dataset.parts > Big
      BY <1>2, <2>1 DEF TypeOK, ParserStart, Names, Caches
    <2>2. CASE ~(dataset.parts > Big)
      <3>1. left' \in 0..Parts /\ dataset' \in Data /\ dataset'.parts + left' <= Parts
        BY <1>2, <2>2, DataParts DEF ParserStart
      <3>2. ~writing
        BY <1>2 DEF TypeOK, ParserStart, Names, Encoded, Caches, Csvs, Parquets, Models
      <3> QED BY <1>2, <2>2, <3>1, <3>2 DEF TypeOK, ParserStart
    <2> QED BY <2>1, <2>2
  <1>3. CASE MergeChunk
    <2>1. dataset' \in Data /\ dataset'.parts + left' <= Parts /\ left' \in 0..Parts
      BY <1>3 DEF TypeOK, MergeChunk, Data
    <2> QED BY <1>3, <2>1 DEF TypeOK, MergeChunk
  <1>4. CASE Merged
    BY <1>4 DEF TypeOK, Merged, Names, Caches
  <1>5. CASE Remove
    <2>1. Absent \in File
      BY DEF Absent, File, NoData, Data
    <2> QED BY <1>5, <2>1 DEF TypeOK, Remove, Names, Encoded, Csvs
  <1>6. CASE SerializerStart
    BY <1>6 DEF TypeOK, SerializerStart, Names, Encoded, Parquets
  <1>7. CASE TrainerStart
    BY <1>7 DEF TypeOK, TrainerStart, Names, Encoded, Models
  <1>8. CASE Evaluate
    <2>1. TestPath \in Names /\ "IsolationForest.pkl" \in Names
      BY DEF TestPath, Names, Encoded, Csvs, Parquets, Models
    <2>2. file[TestPath] \in File
      BY <2>1 DEF TypeOK
    <2>3. tested' \in Data
      BY <1>8, <2>2 DEF Evaluate, File
    <2>4. pc' \in {"IsolationForest.pkl", "idle"} /\ ~writing
          /\ streak' \in {"none", "parsed", "serialized", "trained"}
      BY <1>8 DEF TypeOK, Evaluate, Names, Encoded, Caches, Csvs, Parquets, Models
    <2> QED BY <1>8, <2>1, <2>3, <2>4 DEF TypeOK, Evaluate
  <1>9. ASSUME NEW n \in Names, FileStep(n) PROVE TypeOK'
    <2>1. Content(n) \in File /\ Begun(n) \in File
      BY ContentType
    <2>2. file' \in [Names -> File]
      BY <1>9, <2>1 DEF TypeOK, FileStep, Open, Close, Pass
    <2>3. After[n] \in Names \cup {"idle", "remove", "evaluate", "evaluate_iso"}
      BY AfterOf
    <2>4. StreakAfter(n) \in {"none", "parsed", "serialized", "trained"}
      BY DEF StreakAfter, TypeOK
    <2>5. CASE Open(n)
      BY <2>5, <2>2 DEF TypeOK, Open
    <2>6. CASE Close(n) \/ Pass(n)
      BY <2>6, <2>2, <2>3, <2>4 DEF TypeOK, Close, Pass, Proceed
    <2> QED BY <1>9, <2>5, <2>6 DEF FileStep
  <1>10. CASE Stop
    <2>1. left' \in 0..Parts /\ dataset'.parts + left' <= Parts
      BY <1>10, DataParts DEF TypeOK, Stop
    <2> QED BY <1>10, <2>1 DEF TypeOK, Stop
  <1>11. CASE UNCHANGED vars
    BY <1>11 DEF TypeOK, vars
  <1> QED
    BY <1>1, <1>2, <1>3, <1>4, <1>5, <1>6, <1>7, <1>8, <1>9, <1>10, <1>11
    DEF Next, FileStep

(* The pipeline is well typed: dataset.csv never holds more chunks than the raw
   data, for merge removes it before it appends to it. *)
THEOREM PipelineTyped == Spec => []TypeOK
  <1> QED BY TypeInit, TypeStep, PTL DEF Spec

-------------------------------------------------------------------------------
IInv == TypeOK /\ EncodingAgrees /\ HalvesMatch /\ LabelsFirst /\ SplitAnew

LEMMA InvInit == Init => IInv
  <1> SUFFICES ASSUME Init PROVE IInv
    OBVIOUS
  <1>1. ~Absent.closed /\ ~Absent.ok
    BY DEF Absent
  <1>2. /\ "labels.pkl" \in Names /\ "labels.pkl" \in Caches
        /\ "train.csv" \in Names /\ "train.csv" \notin Caches
        /\ Encoded \subseteq Names
    BY DEF Names, Encoded, Caches, Csvs
  <1>3. EncodingAgrees
    BY <1>2 DEF Init, EncodingAgrees, Exists
  <1>4. HalvesMatch
    BY <1>1, <1>2 DEF Init, HalvesMatch
  <1> QED BY TypeInit, <1>3, <1>4 DEF Init, IInv, LabelsFirst, SplitAnew

(* Opening or closing file n, for a name of each kind. *)
LEMMA WriteKeeps ==
  ASSUME IInv, NEW n \in Names, Open(n) \/ Close(n)
  PROVE  EncodingAgrees' /\ HalvesMatch'
  <1> DEFINE L == "labels.pkl"
             new == file'[n]
  <1>1. /\ \A k \in Names : file[k] \in File
        /\ L \in Names /\ L \in Caches /\ L \notin Encoded
        /\ Encoded \subseteq Names /\ Csvs \subseteq Encoded
        /\ "train.csv" \in Csvs /\ "test.csv" \in Csvs
        /\ "train.parquet" \in Encoded
    BY DEF IInv, TypeOK, Names, Encoded, Caches, Csvs, Parquets, Models
  <1>0. ~Absent.ok /\ ~Absent.closed
    BY DEF Absent
  <1>2. /\ pc = n
        /\ new = Begun(n) \/ new = Content(n)
        /\ \A k \in Names : k # n => file'[k] = file[k]
        /\ dataset' = dataset
    BY DEF IInv, TypeOK, Open, Close
  <1>3. new.data = Content(n).data /\ new.enc = Content(n).enc
    BY <1>2, BegunOf DEF IInv
  <1>4. EncodingAgrees'
    <2>1. CASE n = L
      <3>1. ~file[L].ok
        BY <2>1, <1>1, <1>0, Kinds DEF IInv, LabelsFirst, Open, Close, Wanted, Exists
      <3> QED BY <3>1, <2>1, <1>1, <1>0, <1>2 DEF IInv, EncodingAgrees, Exists
    <2>2. CASE n \in Caches /\ n # L
      BY <2>2, <1>1, <1>0, <1>2, Kinds DEF IInv, EncodingAgrees, Exists
    <2>3. CASE n \in Csvs
      <3>1. file[L].ok
        BY <2>3, <1>2 DEF IInv, LabelsFirst, Csvs
      <3>2. new.enc = file[L].data
        BY <2>3, <1>3, ContentOf
      <3> QED BY <3>1, <3>2, <2>3, <1>1, <1>0, <1>2 DEF IInv, EncodingAgrees, Exists
    <2>4. CASE n \in Parquets \cup Models
      <3>1. PICK k \in Encoded : Content(n) = file[k] /\ (Open(n) => Exists(k))
        <4>1. CASE n \in Parquets
          BY <4>1, <1>1, <1>0, ContentOf, Kinds DEF Open, Wanted
        <4>2. CASE n \in Models
          BY <4>2, <1>1, <1>0, ContentOf, Kinds DEF Open, Wanted, Exists
        <4> QED BY <2>4, <4>1, <4>2
      <3>2. Close(n) => new = file[k]
        BY <3>1 DEF Close, IInv, TypeOK
      <3>3. new # Absent => Exists(k)
        BY <3>1, <3>2 DEF Exists
      <3>4. new # Absent => file[L].ok /\ new.enc = file[L].data
        BY <3>1, <3>3, <1>3 DEF IInv, EncodingAgrees
      <3> QED BY <3>4, <2>4, <1>1, <1>0, <1>2, Kinds DEF IInv, EncodingAgrees, Exists
    <2> QED BY <2>1, <2>2, <2>3, <2>4, Kinds
  <1>5. HalvesMatch'
    <2>1. CASE n \notin Csvs
      BY <2>1, <1>1, <1>0, <1>2 DEF IInv, HalvesMatch
    <2>2. CASE n = "train.csv"
      BY <2>2, <1>1, <1>0, <1>2 DEF IInv, SplitAnew, HalvesMatch
    <2>3. CASE n = "test.csv"
      <3>1. new.data = dataset
        BY <2>3, <1>1, <1>0, <1>3, ContentOf
      <3> QED BY <3>1, <2>3, <1>1, <1>0, <1>2 DEF IInv, SplitAnew, HalvesMatch
    <2> QED BY <2>1, <2>2, <2>3 DEF Csvs
  <1> QED BY <1>4, <1>5

(* Where a run goes from file n, the next phase finds what it relies on. *)
LEMMA PhaseKeeps ==
  ASSUME IInv, NEW n \in Names, FileStep(n)
  PROVE  LabelsFirst' /\ SplitAnew'
  <1>1. /\ "labels.pkl" \in Caches /\ "labels.pkl" \in Names
        /\ "train.csv" \in Csvs /\ "test.csv" \in Csvs
        /\ "train.csv" \in Names /\ "test.csv" \in Names
        /\ "remove" \notin Names
    BY DEF Names, Encoded, Caches, Csvs, Parquets, Models
  <1>2. CASE Open(n)
    <2>1. /\ pc = n /\ pc' = n /\ file'[n] = Begun(n) /\ dataset' = dataset
          /\ \A k \in Names : k # n => file'[k] = file[k]
      BY <1>2 DEF Open, IInv, TypeOK
    <2>2. n = "labels.pkl" => ~file'[n].ok
      BY <2>1, <1>1, BegunOf, Kinds DEF IInv
    <2> QED BY <2>1, <2>2, <1>1 DEF IInv, LabelsFirst, SplitAnew
  <1>3. CASE Close(n)
    <2>1. /\ pc = n /\ pc' = After[n] /\ ~writing' /\ file'[n] = Content(n)
          /\ dataset' = dataset
          /\ \A k \in Names : k # n => file'[k] = file[k]
      BY <1>3 DEF Close, Proceed, IInv, TypeOK
    <2>2. n = "labels.pkl" => file'[n].ok
      BY <2>1, <1>1, ContentOf
    <2>3. n = "train.csv" => file'[n].data = dataset
      BY <2>1, <1>1, ContentOf
    <2> QED BY <2>1, <2>2, <2>3, <1>1, AfterOf DEF IInv, LabelsFirst, SplitAnew
  <1>4. CASE Pass(n)
    <2>1. /\ pc = n /\ pc' = After[n] /\ ~writing' /\ UNCHANGED <<file, dataset>>
          /\ Passed(n)
      BY <1>4 DEF Pass, Proceed
    <2>2. n \notin Csvs /\ (n = "labels.pkl" => file[n].ok)
      BY <2>1, <1>1, Kinds DEF Passed
    <2> QED BY <2>1, <2>2, <1>1, AfterOf DEF IInv, LabelsFirst, SplitAnew
  <1> QED BY <1>2, <1>3, <1>4 DEF FileStep

LEMMA InvStep == IInv /\ [Next]_vars => IInv'
  <1> SUFFICES ASSUME IInv, [Next]_vars PROVE IInv'
    OBVIOUS
  <1>1. TypeOK'
    BY TypeStep DEF IInv
  <1>2. CASE ParserStart \/ MergeChunk \/ Merged \/ SerializerStart \/ TrainerStart
             \/ Stop \/ NewRaw \/ Evaluate
    <2>1. UNCHANGED file
      BY <1>2 DEF ParserStart, MergeChunk, Merged, SerializerStart, TrainerStart,
                  Stop, NewRaw, Evaluate
    <2>2. EncodingAgrees' /\ HalvesMatch'
      BY <2>1 DEF IInv, EncodingAgrees, HalvesMatch, Exists
    <2>3. LabelsFirst' /\ SplitAnew'
      BY <1>2, <2>1 DEF IInv, LabelsFirst, SplitAnew, ParserStart, MergeChunk, Merged,
                  SerializerStart, TrainerStart, Stop, NewRaw, Evaluate
    <2> QED BY <1>1, <2>2, <2>3 DEF IInv
  <1>3. CASE Remove
    <2>1. /\ file'["train.csv"] = Absent /\ file'["test.csv"] = Absent
          /\ \A k \in Names \ Csvs : file'[k] = file[k]
          /\ pc = "remove" /\ pc' = "train.csv"
      BY <1>3 DEF Remove, IInv, TypeOK, Names, Encoded, Csvs
    <2>2. ~Absent.closed
      BY DEF Absent
    <2>3. "labels.pkl" \in Names \ Csvs /\ Encoded \subseteq Names
      BY DEF Names, Encoded, Caches, Csvs
    <2>4. EncodingAgrees'
      BY <2>1, <2>3 DEF IInv, EncodingAgrees, Exists, Csvs
    <2>5. HalvesMatch' /\ LabelsFirst' /\ SplitAnew'
      BY <2>1, <2>2, <2>3 DEF IInv, HalvesMatch, LabelsFirst, SplitAnew
    <2> QED BY <1>1, <2>4, <2>5 DEF IInv
  <1>4. ASSUME NEW n \in Names, FileStep(n) PROVE IInv'
    <2>1. LabelsFirst' /\ SplitAnew'
      BY <1>4, PhaseKeeps
    <2>2. EncodingAgrees' /\ HalvesMatch'
      <3>1. CASE Open(n) \/ Close(n)
        BY <3>1, WriteKeeps
      <3>2. CASE Pass(n)
        BY <3>2 DEF Pass, IInv, EncodingAgrees, HalvesMatch, Exists
      <3> QED BY <1>4, <3>1, <3>2 DEF FileStep
    <2> QED BY <1>1, <2>1, <2>2 DEF IInv
  <1>5. CASE UNCHANGED vars
    BY <1>1, <1>5 DEF vars, IInv, EncodingAgrees, HalvesMatch, LabelsFirst, SplitAnew, Exists
  <1> QED BY <1>2, <1>3, <1>4, <1>5 DEF Next, FileStep

(* Whatever scripts are stopped and run again, on whatever data, every file whose
   labels are numbers uses the numbers of the labels.pkl in place, so that the
   gatekeeper names the predictions of a model as they were meant in training. *)
THEOREM LabelsAgree == Spec => []EncodingAgrees
  <1>1. IInv => EncodingAgrees
    BY DEF IInv
  <1> QED BY InvInit, InvStep, <1>1, PTL DEF Spec

(* Complete train.csv and test.csv are halves of the same dataset.csv, however often
   split was stopped and dataset.csv written anew: no row is in both. *)
THEOREM SplitIsOne == Spec => []HalvesMatch
  <1>1. IInv => HalvesMatch
    BY DEF IInv
  <1> QED BY InvInit, InvStep, <1>1, PTL DEF Spec

-------------------------------------------------------------------------------
(* Runs to the end.  What RerunRepairs rests on, from the first script to the
   last: a streak goes on in its own scripts only, so that dataset.csv stays what
   it was when the parser ended; and each script leaves its files made from it. *)
Made(f) == f.data = dataset /\ f.closed /\ f.ok
Anew(n) == Made(file[n])

RunsInOrder ==
  /\ streak = "parsed" => pc \in {"idle"} \cup Parquets
  /\ streak = "serialized" => pc \in {"idle", "evaluate", "evaluate_iso"} \cup Models
  /\ streak = "trained" => pc = "idle"

MadeAnew ==
  /\ pc = "test.csv" => Anew("train.csv")
  /\ streak = "parsed" => \A n \in Csvs : Anew(n)
  /\ streak = "parsed" /\ pc = "test.parquet" => Anew("train.parquet")
  /\ streak \in {"serialized", "trained"} => \A n \in Parquets : Anew(n)
  /\ streak = "serialized" /\ pc \in {"evaluate", "IsolationForest.pkl", "evaluate_iso"} =>
       Anew("XGBoost.pkl")
  /\ streak = "serialized" /\ pc = "evaluate_iso" => Anew("IsolationForest.pkl")
  /\ RerunRepairs

StreakInv == TypeOK /\ RunsInOrder /\ MadeAnew

LEMMA StreakInit == Init => StreakInv
  BY TypeInit DEF Init, StreakInv, RunsInOrder, MadeAnew, RerunRepairs

(* A file that is made from one made anew is made anew, and one made anew exists, so
   that the script that reads it does not pass over it. *)
LEMMA AnewPassedOn ==
  /\ \A n \in Csvs : Made(Content(n))
  /\ \A n \in Parquets : Anew(CsvOf(n)) => Made(Content(n)) /\ ~Passed(n)
  /\ \A n \in Models : Anew("train.parquet") => Made(Content(n)) /\ ~Passed(n)
  /\ \A n \in Csvs : ~Passed(n)
  <1>1. Csvs \cup Parquets \cup Models \subseteq Names
    BY DEF Names, Encoded
  <1>2. ASSUME NEW n \in Csvs PROVE Made(Content(n)) /\ ~Passed(n)
    BY <1>1, ContentOf, Kinds DEF Made, Passed
  <1>3. ASSUME NEW n \in Parquets, Anew(CsvOf(n)) PROVE Made(Content(n)) /\ ~Passed(n)
    <2>1. Exists(CsvOf(n))
      BY <1>3 DEF Anew, Made, Exists, Absent
    <2> QED BY <2>1, <1>1, <1>3, ContentOf, Kinds DEF Anew, Passed
  <1>4. ASSUME NEW n \in Models, Anew("train.parquet") PROVE Made(Content(n)) /\ ~Passed(n)
    BY <1>1, <1>4, ContentOf, Kinds DEF Anew, Passed
  <1> QED BY <1>2, <1>3, <1>4

(* The scripts' steps from file to file: a streak grows by the parser's and the
   serializer's last file only, and then the files it speaks of are made anew. *)
LEMMA StreakFileStep ==
  ASSUME StreakInv, NEW n \in Names, FileStep(n)
  PROVE  RunsInOrder' /\ MadeAnew'
  <1>1. pc = n /\ dataset' = dataset /\ tested' = tested
    BY DEF FileStep, Open, Close, Pass
  <1>2. /\ \A k \in Names : k # n => file'[k] = file[k]
        /\ \A k \in Names : k # n /\ Anew(k) => Anew(k)'
    BY <1>1 DEF FileStep, Open, Close, Pass, StreakInv, TypeOK, Anew, Made
  <1>3. CASE Open(n)
    BY <1>1, <1>2, <1>3
    DEF Open, StreakInv, RunsInOrder, MadeAnew, RerunRepairs, Anew, Made, Names, Encoded,
        Caches, Csvs, Parquets, Models
  <1>4. CASE Close(n) \/ Pass(n)
    <2>1. pc' = After[n] /\ streak' = StreakAfter(n)
      BY <1>4 DEF Close, Pass, Proceed
    <2>2. Close(n) /\ Made(Content(n)) => Anew(n)'
      BY <1>1 DEF Close, StreakInv, TypeOK, Anew, Made
    <2>3. Pass(n) => Passed(n)
      BY DEF Pass
    <2> USE DEF StreakInv, TypeOK, RunsInOrder, MadeAnew, RerunRepairs, After, StreakAfter,
                Names, Encoded, Caches, Csvs, Parquets, Models
    <2>4. CASE n \in Caches
      BY <1>1, <2>1, <2>4
    <2>5. CASE n \in Csvs
      <3>1. Anew(n)'
        BY <1>4, <2>2, <2>3, <2>5, AnewPassedOn
      <3> QED BY <1>1, <1>2, <2>1, <2>5, <3>1
    <2>6. CASE n \in Parquets
      <3>1. streak = "parsed" => Anew(CsvOf(n))
        BY <2>6 DEF CsvOf
      <3>2. streak = "parsed" => Anew(n)'
        BY <1>4, <2>2, <2>3, <2>6, <3>1, AnewPassedOn
      <3> QED BY <1>1, <1>2, <2>1, <2>6, <3>2
    <2>7. CASE n \in Models
      <3>1. streak = "serialized" => Anew(n)'
        BY <1>4, <2>2, <2>3, <2>7, AnewPassedOn
      <3> QED BY <1>1, <1>2, <2>1, <2>7, <3>1
    <2> QED BY <2>4, <2>5, <2>6, <2>7
  <1> QED BY <1>3, <1>4 DEF FileStep

LEMMA StreakStep == StreakInv /\ [Next]_vars => StreakInv'
  <1> SUFFICES ASSUME StreakInv, [Next]_vars PROVE RunsInOrder' /\ MadeAnew'
    BY TypeStep DEF StreakInv
  <1> USE DEF RunsInOrder, MadeAnew, RerunRepairs
  <1>1. CASE ParserStart \/ MergeChunk \/ Merged \/ Remove
    BY <1>1 DEF ParserStart, MergeChunk, Merged, Remove, StreakInv, TypeOK, Parquets, Models
  <1>2. CASE NewRaw \/ Stop \/ UNCHANGED vars
    BY <1>2 DEF NewRaw, Stop, vars, StreakInv, Anew, Made
  <1>3. CASE SerializerStart \/ TrainerStart
    BY <1>3 DEF SerializerStart, TrainerStart, StreakInv, Anew, Made, Parquets, Models
  <1>4. CASE Evaluate
    <2>1. streak = "serialized" => tested' = dataset
      <3>1. Anew("test.parquet") => TestPath = "test.parquet"
        BY DEF Anew, Made, TestPath, Exists, Absent
      <3> QED BY <1>4, <3>1 DEF Evaluate, StreakInv, Anew, Made, Parquets
    <2> QED BY <1>4, <2>1 DEF Evaluate, StreakInv, Anew, Made, Parquets, Models
  <1>5. ASSUME NEW n \in Names, FileStep(n) PROVE RunsInOrder' /\ MadeAnew'
    BY <1>5, StreakFileStep
  <1> QED
    BY <1>1, <1>2, <1>3, <1>4, <1>5 DEF Next, FileStep

(* One run of each script to its end, in order, repairs whatever stopped runs have
   left behind: both models are made from a split of the dataset.csv in place that
   was written to its end, and were tested on its other half. *)
THEOREM RerunsRepair == Spec => []RerunRepairs
  <1>1. StreakInv => RerunRepairs
    BY DEF StreakInv, MadeAnew
  <1> QED BY StreakInit, StreakStep, <1>1, PTL DEF Spec
===============================================================================
